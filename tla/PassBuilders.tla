---------------------------- MODULE PassBuilders ----------------------------
(***************************************************************************)
(* The descriptor methods of RenderGraph's pass builders and the           *)
(* blackboard registrations of every builder's set_name, with the          *)
(* get_texture/get_buffer lookups (src/gpu/render_graph/graph_builders.cpp).*)
(*                                                                         *)
(* A pass node is abstracted to what its builder methods assign: the       *)
(* render-target edges with their mrt index, the load/store action arrays  *)
(* indexed by mrt index, the depth and stencil actions, the pipeline and   *)
(* root signature, and a present pass's swapchain and image index.  The    *)
(* linking into the dependency graph is RenderGraph's.  Pipelines, root    *)
(* signatures and actions are tokens; a field no method has set holds      *)
(* Unset (RenderPassNode's initialiser is not under src/).                 *)
(*                                                                         *)
(* The blackboard is three tables from names to node handles, NoNode for   *)
(* a name never registered.  A name is compared by value.                  *)
(***************************************************************************)
EXTENDS Naturals, Sequences

CONSTANTS
    MaxMRT,         \* CGPU_MAX_MRT_COUNT: length of load_actions/store_actions
    Pipelines,      \* CGPURenderPipelineId / CGPUComputePipelineId values
    RootOf,         \* pipeline->root_signature, a function on Pipelines
    RootSignatures, \* CGPURootSignatureId values set_root_signature may get
    Unset,          \* model value: a node field no builder method has set
    NoNode,         \* model value: no node registered under a name
    InvalidHandle,  \* model value: the UINT64_MAX get_texture/get_buffer return
    NullName        \* model value: the null const char* name

MRTIndices == 0..(MaxMRT - 1)

\* A render-target edge: TextureRenderEdge(mrt_index, handle).
RTEdge(mrt, tex) == [mrt |-> mrt, tex |-> tex]

NewRenderPass ==
    [rt_edges |-> <<>>,
     load_actions |-> [m \in MRTIndices |-> Unset],
     store_actions |-> [m \in MRTIndices |-> Unset],
     depth_load_action |-> Unset, depth_store_action |-> Unset,
     stencil_load_action |-> Unset, stencil_store_action |-> Unset,
     pipeline |-> Unset, root_signature |-> Unset]

NewComputePass == [pipeline |-> Unset, root_signature |-> Unset]

NewPresentPass == [swapchain |-> Unset, index |-> Unset]

----------------------------------------------------------------------------
(* RenderPassBuilder                                                       *)

\* mutant: the edge recorded with index 0, as texture_to_texture does
RenderWriteIndexZero(n, mrt, tex, load, store) ==
    [n EXCEPT !.rt_edges = Append(@, RTEdge(0, tex)),
              !.load_actions[mrt] = load, !.store_actions[mrt] = store]

\* write(mrt_index, TextureRTVHandle, load_action, store_action): a
\* TextureRenderEdge for the index, and the index's load and store actions.
RenderWrite(n, mrt, tex, load, store) ==
    [n EXCEPT !.rt_edges = Append(@, RTEdge(mrt, tex)),
              !.load_actions[mrt] = load, !.store_actions[mrt] = store]

\* set_depth_stencil(TextureDSVHandle, dload, dstore, sload, sstore): the
\* edge takes index CGPU_MAX_MRT_COUNT, one past the colour targets.
SetDepthStencil(n, tex, dl, ds, sl, ss) ==
    [n EXCEPT !.rt_edges = Append(@, RTEdge(MaxMRT, tex)),
              !.depth_load_action = dl, !.depth_store_action = ds,
              !.stencil_load_action = sl, !.stencil_store_action = ss]

\* mutant: set_pipeline that leaves the root signature alone
SetPipelineKeepSignature(n, p) == [n EXCEPT !.pipeline = p]

\* Render/ComputePassBuilder::set_pipeline: the pipeline and its root
\* signature.
SetPipeline(n, p) == [n EXCEPT !.pipeline = p, !.root_signature = RootOf[p]]

\* Render/ComputePassBuilder::set_root_signature
SetRootSignature(n, s) == [n EXCEPT !.root_signature = s]

(* ComputePassBuilder: the same two assignments.                          *)

ComputeSetPipeline(n, p) == SetPipeline(n, p)

ComputeSetRootSignature(n, s) == SetRootSignature(n, s)

----------------------------------------------------------------------------
(* PresentPassBuilder                                                      *)

\* swapchain(chain, index)
Swapchain(n, chain, i) == [n EXCEPT !.swapchain = chain, !.index = i]

----------------------------------------------------------------------------
(* Blackboard                                                              *)

NewBlackboard(names) ==
    [named_passes |-> [x \in names |-> NoNode],
     named_textures |-> [x \in names |-> NoNode],
     named_buffers |-> [x \in names |-> NoNode]]

\* mutant: a registration that keeps the first node (map.insert)
RegisterKeepFirst(bb, tbl, name, node) ==
    IF bb[tbl][name] = NoNode THEN [bb EXCEPT ![tbl][name] = node] ELSE bb

\* blackboard.named_xxx[name] = &node: the last registration wins.
Register(bb, tbl, name, node) == [bb EXCEPT ![tbl][name] = node]

\* Render/Compute/Copy/PresentPassBuilder::set_name: only a non-null name
\* is registered.
PassBuilderSetName(bb, name, node) ==
    IF name # NullName THEN Register(bb, "named_passes", name, node) ELSE bb

ComputePassSetName(bb, name, node) == PassBuilderSetName(bb, name, node)
CopyPassSetName(bb, name, node) == PassBuilderSetName(bb, name, node)
PresentPassSetName(bb, name, node) == PassBuilderSetName(bb, name, node)

\* TextureBuilder::set_name and BufferBuilder::set_name: no null check.
TextureBuilderSetName(bb, name, node) == Register(bb, "named_textures", name, node)
BufferBuilderSetName(bb, name, node) == Register(bb, "named_buffers", name, node)

\* get_texture(name) / get_buffer(name): the registered node's handle if
\* the name is in the table, UINT64_MAX otherwise.
get_texture(bb, name) ==
    IF bb.named_textures[name] # NoNode THEN bb.named_textures[name] ELSE InvalidHandle
get_buffer(bb, name) ==
    IF bb.named_buffers[name] # NoNode THEN bb.named_buffers[name] ELSE InvalidHandle

=============================================================================
