---------------------------- MODULE RenderGraph ----------------------------
(***************************************************************************)
(* The render graph frontend: RenderGraph in                               *)
(* include/render_graph/frontend/render_graph.hpp, its builders in         *)
(* src/gpu/render_graph/graph_builders.cpp, and compile() and execute()    *)
(* as the specification describes them (their code is not in src/).       *)
(*                                                                         *)
(* One frame's population is modelled.  add_*_pass and create_* insert a   *)
(* node and run the caller's setup callback synchronously; one action is   *)
(* one such call, its builder calls a set chosen from small sets (their    *)
(* order only matters for repeated set_name, which is not enumerated).     *)
(* Builder calls that only fill descriptor data (extent, format, allow_*,  *)
(* set_pipeline, swapchain, load/store actions) are not modelled: no       *)
(* property reads them.                                                    *)
(*                                                                         *)
(* Nodes of the dependency graph are <<"pass", i>> (i - 1 is the pass's    *)
(* ordinal, passes.size() at insertion) and <<"res", j>>.  An edge links   *)
(* a resource to a pass (read) or a pass to a resource (write) and carries *)
(* the resource state the pass requires.  "declared" records what the      *)
(* caller asked the builders for, whether the builder linked it or not.    *)
(***************************************************************************)
EXTENDS Naturals, Sequences, FiniteSets

LOCAL SX == INSTANCE SequencesExt
LOCAL FS == INSTANCE FiniteSetsExt

CONSTANTS
    Names,          \* names passed to set_name
    NULL,           \* model value: the null name
    NoNode,         \* model value: no node registered under a name
    BufferStates,   \* states a caller may request with use_buffer
    MaxPasses,      \* bound on add_*_pass calls
    MaxResources,   \* bound on create_texture / create_buffer calls
    MaxCalls        \* bound on builder calls in one setup callback

VARIABLES
    passes,       \* RenderGraph::passes: <<[kind, name]>>
    resources,    \* RenderGraph::resources: <<[kind, name]>>
    edges,        \* the DependencyGraph's edges: [from, to, state]
    declared,     \* accesses the caller declared: [pass, res, access]
    blackboard,   \* Blackboard: named_passes, named_textures, named_buffers
    phase,        \* "build", "compiled", "failed", "executed"
    live,         \* compile(): the nodes not culled
    executed,     \* execute(): ordinals + 1 of the passes run, in order
    frame_index   \* RenderGraph::frame_index

vars == <<passes, resources, edges, declared, blackboard, phase, live,
          executed, frame_index>>

PassKinds == {"render", "compute", "copy", "present"}

PassNode(i) == <<"pass", i>>
ResNode(j) == <<"res", j>>
Nodes == {PassNode(i) : i \in 1..Len(passes)} \cup {ResNode(j) : j \in 1..Len(resources)}

TexturesOf == {j \in 1..Len(resources) : resources[j].kind = "texture"}
BuffersOf == {j \in 1..Len(resources) : resources[j].kind = "buffer"}

\* The dependency graph as a set of node pairs.
DepEdges == {<<e.from, e.to>> : e \in edges}

\* The nodes reachable from S along the edges of E, S excluded unless on a
\* cycle: a least fixpoint.
RECURSIVE Fwd(_, _)
Fwd(S, E) ==
    LET S2 == S \cup {p[2] : p \in {q \in E : q[1] \in S}}
    IN  IF S2 = S THEN S ELSE Fwd(S2, E)
Successors(S, E) == {p[2] : p \in {q \in E : q[1] \in S}}

\* A cycle among the nodes lv: some node reaches itself.
HasCycleIn(lv) ==
    LET E == {p \in DepEdges : p[1] \in lv /\ p[2] \in lv}
    IN  \E n \in lv : n \in Fwd(Successors({n}, E), E)

Presents == {PassNode(i) : i \in {k \in 1..Len(passes) : passes[k].kind = "present"}}

----------------------------------------------------------------------------
(* Builder calls.  A call is [op, a, b]: a is a resource index or a name,  *)
(* b a second resource index or a requested state (0 when unused).         *)

Call(op, a, b) == [op |-> op, a |-> a, b |-> b]

Res == 1..MaxResources

RenderCalls ==
    {Call(op, r, 0) : op \in {"read", "write", "depth", "buf_read", "buf_write"}, r \in Res}
    \cup {Call("use_buffer", r, s) : r \in Res, s \in BufferStates}
ComputeCalls ==
    {Call(op, r, 0) : op \in {"read", "readwrite", "buf_read", "buf_readwrite"}, r \in Res}
CopyCalls ==
    {Call(op, r, d) : op \in {"texture_to_texture", "buffer_to_buffer"}, r \in Res, d \in Res}
PresentCalls == {Call("texture", r, 0) : r \in Res}
NameCalls == {Call("set_name", n, 0) : n \in Names \cup {NULL}}

\* The calls a setup callback may make on a builder of this kind.
CallsOf(kind) ==
    NameCalls \cup CASE kind = "render"  -> RenderCalls
                    []  kind = "compute" -> ComputeCalls
                    []  kind = "copy"    -> CopyCalls
                    []  kind = "present" -> PresentCalls

\* graph->link(from, to, edge), the edge carrying the required state.
Link(from, to, state) == {[from |-> from, to |-> to, state |-> state]}

Declare(p, r, accs) == {[pass |-> p, res |-> r, access |-> a] : a \in accs}

\* RenderPassBuilder / ComputePassBuilder::read(set|name, TextureSRVHandle)
TextureRead(p, r) == Link(ResNode(r), p, "SHADER_RESOURCE")

\* RenderPassBuilder::write(mrt_index, TextureRTVHandle, load, store)
RenderWrite(p, r) == Link(p, ResNode(r), "RENDER_TARGET")

\* RenderPassBuilder::set_depth_stencil(TextureDSVHandle, ...)
SetDepthStencil(p, r) == Link(p, ResNode(r), "DEPTH_WRITE")

\* RenderPassBuilder::use_buffer(PipelineBufferHandle, requested_state)
UseBuffer(p, r, s) == Link(ResNode(r), p, s)

\* ComputePassBuilder::readwrite(set|name, TextureUAVHandle): linked
\* pass -> texture only, although the pass also reads the texture.
TextureReadWrite(p, r) == Link(p, ResNode(r), "UNORDERED_ACCESS")

\* Render/ComputePassBuilder::read/write/readwrite on a BufferHandle: the
\* body is `return *this;`.
BufferAccessNoop(p, r) == {}

\* CopyPassBuilder::texture_to_texture / buffer_to_buffer
CopyResource(p, src, dst) ==
    Link(ResNode(src), p, "COPY_SOURCE") \cup Link(p, ResNode(dst), "COPY_DEST")

\* PresentPassBuilder::texture(TextureHandle)
PresentTexture(p, r) == Link(ResNode(r), p, "PRESENT")

\* The edges one builder call links for pass node p.
CallEdges(p, c) ==
    CASE c.op = "read"               -> TextureRead(p, c.a)
      [] c.op = "write"              -> RenderWrite(p, c.a)
      [] c.op = "depth"              -> SetDepthStencil(p, c.a)
      [] c.op = "use_buffer"         -> UseBuffer(p, c.a, c.b)
      [] c.op = "readwrite"          -> TextureReadWrite(p, c.a)
      [] c.op = "texture"            -> PresentTexture(p, c.a)
      [] c.op \in {"texture_to_texture", "buffer_to_buffer"} -> CopyResource(p, c.a, c.b)
      [] OTHER                       -> BufferAccessNoop(p, c.a)

\* Ghost record: what the caller asked for with the call, whatever was
\* linked.  It translates no code; the properties compare it with edges.
CallDeclares(p, c) ==
    CASE c.op \in {"read", "use_buffer", "texture", "buf_read"} -> Declare(p, c.a, {"read"})
      [] c.op \in {"write", "depth", "buf_write"}               -> Declare(p, c.a, {"write"})
      [] c.op \in {"readwrite", "buf_readwrite"}                -> Declare(p, c.a, {"read", "write"})
      [] c.op \in {"texture_to_texture", "buffer_to_buffer"}   ->
             Declare(p, c.a, {"read"}) \cup Declare(p, c.b, {"write"})
      [] OTHER                                                  -> {}

\* A call is well typed: its handles name existing resources of the kind
\* the handle type requires.
TextureOps == {"read", "write", "depth", "readwrite", "texture", "texture_to_texture"}
BufferOps == {"use_buffer", "buf_read", "buf_write", "buf_readwrite", "buffer_to_buffer"}

WellTyped(c) ==
    /\ c.op \in TextureOps => c.a \in TexturesOf
    /\ c.op \in BufferOps => c.a \in BuffersOf
    /\ c.op = "texture_to_texture" => c.b \in TexturesOf
    /\ c.op = "buffer_to_buffer" => c.b \in BuffersOf

\* The setup callbacks enumerated: at most MaxCalls calls, one set_name.
Setups(kind) ==
    {cs \in UNION {FS!kSubset(k, {c \in CallsOf(kind) : WellTyped(c)}) : k \in 0..MaxCalls} :
        Cardinality({c \in cs : c.op = "set_name"}) <= 1}

\* XxxPassBuilder::set_name: if (name) register in the blackboard, last
\* writer wins, and name the node.
PassSetName(bb, p, n) ==
    IF n # NULL THEN [bb EXCEPT !.named_passes[n] = p] ELSE bb

NameIn(cs, default) ==
    IF \E c \in cs : c.op = "set_name" THEN (CHOOSE c \in cs : c.op = "set_name").a ELSE default

----------------------------------------------------------------------------
(* Mutants: plausible faults, each breaking one property.                  *)

----------------------------------------------------------------------------
(* compile() and execute(), from the specification                         *)

\* compile()'s backward walk: take a pending node, mark it live, make its
\* unmarked inputs pending.
RECURSIVE CullWalk(_, _)
CullWalk(work, seen) ==
    IF work = {} THEN seen
    ELSE LET n == CHOOSE x \in work : TRUE
             inputs == {e.from : e \in {f \in edges : f.to = n}}
         IN  CullWalk((work \ {n}) \cup (inputs \ (seen \cup {n})), seen \cup {n})

\* The passes execute() runs: the live ones, by ascending ordinal.
ExecutionOrder(lv) == SX!SetToSortSeq({i \in 1..Len(passes) : PassNode(i) \in lv}, <)

----------------------------------------------------------------------------

Init ==
    /\ passes = <<>>
    /\ resources = <<>>
    /\ edges = {}
    /\ declared = {}
    /\ blackboard = [named_passes |-> [n \in Names |-> NoNode],
                     named_textures |-> [n \in Names |-> NoNode],
                     named_buffers |-> [n \in Names |-> NoNode]]
    /\ phase = "build"
    /\ live = {}
    /\ executed = <<>>
    /\ frame_index = 0

\* add_render/compute/copy/present_pass: new XxxPassNode(passes.size()),
\* passes.emplace_back, graph->insert, then setup(*this, builder), whose
\* calls link edges into the graph as they are made.
AddPass(kind, cs) ==
    LET p == PassNode(Len(passes) + 1)
    IN  /\ phase = "build"
        /\ Len(passes) < MaxPasses
        /\ passes' = Append(passes, [kind |-> kind, name |-> NameIn(cs, NULL)])
        /\ edges' = edges \cup UNION {CallEdges(p, c) : c \in cs}
        /\ declared' = declared \cup UNION {CallDeclares(p, c) : c \in cs}
        /\ blackboard' = PassSetName(blackboard, p, NameIn(cs, NULL))
        /\ UNCHANGED <<resources, phase, live, executed, frame_index>>

AddRenderPass(cs) == AddPass("render", cs)
AddComputePass(cs) == AddPass("compute", cs)
AddCopyPass(cs) == AddPass("copy", cs)
AddPresentPass(cs) == AddPass("present", cs)

\* create_texture / create_buffer: new node, resources.emplace_back,
\* graph->insert, then setup(*this, builder).  Of the builder calls only
\* set_name changes graph state: it registers the node in the blackboard
\* (last writer wins; unlike the pass builders there is no null check, so
\* only non-null names are enumerated).  import and the descriptor calls
\* fill the node's descriptor, which no property reads.  n = NULL stands
\* for a setup that does not call set_name.
CreateResource(kind, n) ==
    LET r == ResNode(Len(resources) + 1)
        table == IF kind = "texture" THEN "named_textures" ELSE "named_buffers"
    IN  /\ phase = "build"
        /\ Len(resources) < MaxResources
        /\ resources' = Append(resources, [kind |-> kind, name |-> n])
        /\ blackboard' = IF n = NULL THEN blackboard
                         ELSE [blackboard EXCEPT ![table][n] = r]
        /\ UNCHANGED <<passes, edges, declared, phase, live, executed, frame_index>>

CreateTexture(n) == CreateResource("texture", n)
CreateBuffer(n) == CreateResource("buffer", n)

\* compile(): cull what no present pass depends on; reject a live cycle.
Compile ==
    LET lv == CullWalk(Presents, {})
    IN  /\ phase = "build"
        /\ live' = lv
        /\ phase' = IF HasCycleIn(lv) THEN "failed" ELSE "compiled"
        /\ UNCHANGED <<passes, resources, edges, declared, blackboard, executed, frame_index>>

\* mutant: an execute() that does not check the graph was compiled
ExecuteUnguarded ==
    /\ executed' = ExecutionOrder(live)
    /\ frame_index' = frame_index + 1
    /\ phase' = "executed"
    /\ UNCHANGED <<passes, resources, edges, declared, blackboard, live>>

\* execute(): run the live passes in ascending ordinal order, then advance
\* the frame counter once.
Execute ==
    /\ phase = "compiled"
    /\ executed' = ExecutionOrder(live)
    /\ frame_index' = frame_index + 1
    /\ phase' = "executed"
    /\ UNCHANGED <<passes, resources, edges, declared, blackboard, live>>

Next ==
    \/ \E cs \in Setups("render") : AddRenderPass(cs)
    \/ \E cs \in Setups("compute") : AddComputePass(cs)
    \/ \E cs \in Setups("copy") : AddCopyPass(cs)
    \/ \E cs \in Setups("present") : AddPresentPass(cs)
    \/ \E n \in Names \cup {NULL} : CreateTexture(n) \/ CreateBuffer(n)
    \/ Compile
    \/ Execute

Spec == Init /\ [][Next]_vars

----------------------------------------------------------------------------
(* Properties                                                              *)

TypeOK ==
    /\ passes \in Seq([kind : PassKinds, name : Names \cup {NULL}]) /\ Len(passes) <= MaxPasses
    /\ resources \in Seq([kind : {"texture", "buffer"}, name : Names \cup {NULL}])
    /\ Len(resources) <= MaxResources
    /\ \A e \in edges : e.from \in Nodes /\ e.to \in Nodes /\ e.from[1] # e.to[1]
    /\ live \subseteq Nodes
    /\ phase \in {"build", "compiled", "failed", "executed"}
    /\ executed \in Seq(1..Len(passes))
    /\ frame_index \in 0..1

\* The declared producers of what live passes read, for resources of one
\* kind: every pass declared to write a resource that another live pass
\* declared to read is live.
DeclaredProducersOfKindLive(kind) ==
    phase # "build" =>
        \A d1, d2 \in declared :
            (/\ d1.access = "write" /\ d2.access = "read" /\ d1.res = d2.res
             /\ resources[d1.res].kind = kind
             /\ d1.pass # d2.pass /\ d2.pass \in live)
                => d1.pass \in live

\* A pass that writes a buffer (ComputePassBuilder/RenderPassBuilder::write
\* on a BufferHandle) which a live pass reads survives compile().
DeclaredBufferProducersLive == DeclaredProducersOfKindLive("buffer")

\* A pass that writes a texture which a live pass reads, whether through
\* read() or readwrite(), survives compile().
DeclaredTextureProducersLive == DeclaredProducersOfKindLive("texture")

\* execute() runs a pass only after every pass it depends on (it reads a
\* resource they write).
ExecutionRespectsDependencies ==
    phase = "executed" =>
        \A e1, e2 \in edges :
            (/\ e1.to = e2.from /\ e1.from[1] = "pass" /\ e2.to[1] = "pass"
             /\ {e1.from, e2.to} \subseteq live)
                => \E k1, k2 \in 1..Len(executed) :
                       /\ k1 < k2
                       /\ executed[k1] = e1.from[2] /\ executed[k2] = e2.to[2]

=============================================================================
