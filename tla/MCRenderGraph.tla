-------------------------- MODULE MCRenderGraph --------------------------
(* Model-checking instance of RenderGraph: up to three passes, two        *)
(* resources, two builder calls per setup callback.                       *)
EXTENDS RenderGraph

\* No names: set_name(nullptr) is still called, non-null names only feed
\* the blackboard, which the graph properties do not read.
MCNames == {}
MCBufferStates == {"VERTEX_AND_CONSTANT_BUFFER"}

\* Resources are created before the first pass is added, the first one a
\* texture.  A pass can only name resources created before it, ordinals
\* count passes only, and resource indices are bare identities, so every
\* graph a population can build is, up to renaming resources, built by
\* one that creates its resources first and a texture first.  (Without a
\* texture there is no present pass and compile() culls everything.)
ResourcesFirst ==
    /\ Len(passes) > 0 => Len(resources) = MaxResources
    /\ Len(resources) > 0 => resources[1].kind = "texture"

=============================================================================
