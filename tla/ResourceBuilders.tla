-------------------------- MODULE ResourceBuilders --------------------------
(***************************************************************************)
(* RenderGraph::BufferBuilder and RenderGraph::TextureBuilder              *)
(* (src/gpu/render_graph/graph_builders.cpp): how the calls of a resource  *)
(* setup callback resolve the node's descriptor.                           *)
(*                                                                         *)
(* The descriptor is abstracted to the fields the builders combine:        *)
(*  - the capability set (descriptor.descriptors) and creation flags,      *)
(*    which the builders OR into;                                          *)
(*  - the fields a call assigns (memory usage, start state, device         *)
(*    preference, sizes, extent and format), and the imported resource.     *)
(* Flag words are sets of flag names; |= is \cup.  Numeric fields take     *)
(* values from small sets.  A callback is a sequence of at most MaxCalls   *)
(* calls.  A behaviour runs one callback and records the node it resolved.*)
(*                                                                         *)
(* The same harness resolves pass setup callbacks with the pass builders'  *)
(* descriptor methods, and sequences of set_name calls into the            *)
(* blackboard, both from PassBuilders.                                     *)
(***************************************************************************)
EXTENDS Naturals, Sequences, PassBuilders

LOCAL SX == INSTANCE SequencesExt

CONSTANTS
    MaxCalls,       \* bound on the builder calls of one setup callback
    Sizes,          \* values of sizes and extents
    MemoryUsages,   \* ECGPUMemoryUsage values a caller passes
    PhysBuffers,    \* CGPUBufferId values import() may receive
    PhysTextures,   \* CGPUTextureId values import() may receive
    NULL,           \* model value: no imported resource
    TextureHandles, \* TextureRTVHandle / TextureDSVHandle values of pass calls
    LoadActions,    \* ECGPULoadAction values
    StoreActions,   \* ECGPUStoreAction values
    Swapchains,     \* CGPUSwapChainId values
    Names           \* non-null names passed to set_name

VARIABLE last       \* the callback last applied and the node it produced

\* The properties of a physical resource import() copies from.
BufferProps(b) == [descriptors |-> {"rw_buffer"}, size |-> 1, memory_usage |-> "gpu_to_cpu"]
TextureProps(t) == [extent |-> 1, format |-> 1, array |-> 1, sample_count |-> 1]

\* BufferBuilder::BufferBuilder on a value-initialised BufferNode.
NewBuffer ==
    [descriptors |-> {}, flags |-> {}, memory_usage |-> "gpu_only", start_state |-> "undefined",
     prefer_on_device |-> FALSE, size |-> 0, elements |-> 0, imported |-> NULL]

\* TextureBuilder::TextureBuilder on a value-initialised TextureNode.
NewTexture ==
    [descriptors |-> {"texture"}, flags |-> {}, start_state |-> "undefined",
     extent |-> 0, format |-> 0, array |-> 0, sample_count |-> 0, canbe_lone |-> FALSE,
     imported |-> NULL]

----------------------------------------------------------------------------
(* BufferBuilder                                                           *)

BufferImport(d, b) ==
    [d EXCEPT !.imported = b, !.descriptors = BufferProps(b).descriptors,
              !.size = BufferProps(b).size, !.memory_usage = BufferProps(b).memory_usage]

owns_memory(d) == [d EXCEPT !.flags = @ \cup {"own_memory"}]

\* first_element, element_count and element_stride stand as one value.
structured(d, n) == [d EXCEPT !.elements = n]

size(d, s) == [d EXCEPT !.size = s]

with_flags(d, f) == [d EXCEPT !.flags = @ \cup f]

memory_usage(d, u) == [d EXCEPT !.memory_usage = u]

allow_shader_readwrite(d) == [d EXCEPT !.descriptors = @ \cup {"rw_buffer"}]

\* mutant: the texture capability OR'd in place of the buffer one
allow_shader_read_texture(d) == [d EXCEPT !.descriptors = @ \cup {"texture", "uniform_buffer"}]

allow_shader_read(d) == [d EXCEPT !.descriptors = @ \cup {"buffer", "uniform_buffer"}]

as_upload_buffer(d) ==
    [d EXCEPT !.flags = @ \cup {"persistent_map"}, !.start_state = "copy_source",
              !.memory_usage = "cpu_only"]

as_vertex_buffer(d) ==
    [d EXCEPT !.descriptors = @ \cup {"vertex_buffer"}, !.start_state = "copy_dest"]

as_index_buffer(d) ==
    [d EXCEPT !.descriptors = @ \cup {"index_buffer"}, !.start_state = "copy_dest"]

prefer_on_device(d) == [d EXCEPT !.prefer_on_device = TRUE]

\* prefer_on_host() assigns prefer_on_device = true, as prefer_on_device() does.
prefer_on_host(d) == [d EXCEPT !.prefer_on_device = TRUE]

----------------------------------------------------------------------------
(* TextureBuilder                                                          *)

TextureImport(d, t) ==
    [d EXCEPT !.imported = t, !.extent = TextureProps(t).extent, !.format = TextureProps(t).format,
              !.array = TextureProps(t).array, !.sample_count = TextureProps(t).sample_count]

\* width, height and depth stand as one value.
extent(d, s) == [d EXCEPT !.extent = s]

format(d, f) == [d EXCEPT !.format = f]

array(d, n) == [d EXCEPT !.array = n]

sample_count(d, c) == [d EXCEPT !.sample_count = c]

\* mutant: a capability call that assigns the capability word instead of
\* OR-ing into it
allow_render_target_assign(d) ==
    [d EXCEPT !.descriptors = {"render_target"}, !.start_state = "undefined"]

allow_render_target(d) ==
    [d EXCEPT !.descriptors = @ \cup {"render_target"}, !.start_state = "undefined"]

allow_readwrite(d) ==
    [d EXCEPT !.descriptors = @ \cup {"rw_texture"}, !.start_state = "undefined"]

allow_depth_stencil(d) ==
    [d EXCEPT !.descriptors = @ \cup {"depth_stencil"}, !.start_state = "undefined"]

allow_lone(d) == [d EXCEPT !.canbe_lone = TRUE]

----------------------------------------------------------------------------
(* Setup callbacks                                                         *)

BufferCalls ==
    {[op |-> "import", arg |-> b] : b \in PhysBuffers}
    \cup {[op |-> o, arg |-> s] : o \in {"size", "structured"}, s \in Sizes}
    \cup {[op |-> "memory_usage", arg |-> u] : u \in MemoryUsages}
    \cup {[op |-> "with_flags", arg |-> {"dedicated"}]}
    \cup {[op |-> o, arg |-> NULL] : o \in {"owns_memory", "allow_shader_readwrite",
            "allow_shader_read", "as_upload_buffer", "as_vertex_buffer", "as_index_buffer",
            "prefer_on_device", "prefer_on_host"}}

TextureCalls ==
    {[op |-> "import", arg |-> t] : t \in PhysTextures}
    \cup {[op |-> o, arg |-> s] : o \in {"extent", "format", "array", "sample_count"}, s \in Sizes}
    \cup {[op |-> o, arg |-> NULL] : o \in {"owns_memory", "allow_render_target",
            "allow_readwrite", "allow_depth_stencil", "allow_lone"}}

ApplyBufferCall(d, c) ==
    CASE c.op = "import"                 -> BufferImport(d, c.arg)
      [] c.op = "size"                   -> size(d, c.arg)
      [] c.op = "structured"             -> structured(d, c.arg)
      [] c.op = "memory_usage"           -> memory_usage(d, c.arg)
      [] c.op = "with_flags"             -> with_flags(d, c.arg)
      [] c.op = "owns_memory"            -> owns_memory(d)
      [] c.op = "allow_shader_readwrite" -> allow_shader_readwrite(d)
      [] c.op = "allow_shader_read"      -> allow_shader_read(d)
      [] c.op = "as_upload_buffer"       -> as_upload_buffer(d)
      [] c.op = "as_vertex_buffer"       -> as_vertex_buffer(d)
      [] c.op = "as_index_buffer"        -> as_index_buffer(d)
      [] c.op = "prefer_on_device"       -> prefer_on_device(d)
      [] c.op = "prefer_on_host"         -> prefer_on_host(d)

ApplyTextureCall(d, c) ==
    CASE c.op = "import"              -> TextureImport(d, c.arg)
      [] c.op = "extent"              -> extent(d, c.arg)
      [] c.op = "format"              -> format(d, c.arg)
      [] c.op = "array"               -> array(d, c.arg)
      [] c.op = "sample_count"        -> sample_count(d, c.arg)
      [] c.op = "owns_memory"         -> owns_memory(d)
      [] c.op = "allow_render_target" -> allow_render_target(d)
      [] c.op = "allow_readwrite"     -> allow_readwrite(d)
      [] c.op = "allow_depth_stencil" -> allow_depth_stencil(d)
      [] c.op = "allow_lone"          -> allow_lone(d)

\* A pass builder call: the method and its arguments.
PassCall(op, args) == [op |-> op, args |-> args]

PipelineCalls ==
    {PassCall("set_pipeline", <<p>>) : p \in Pipelines}
    \cup {PassCall("set_root_signature", <<r>>) : r \in RootSignatures}

\* set_depth_stencil's store actions take their defaults (STORE).
RenderPassCalls ==
    {PassCall("write", <<m, t, l, st>>) :
        m \in MRTIndices, t \in TextureHandles, l \in LoadActions, st \in StoreActions}
    \cup {PassCall("set_depth_stencil", <<t, dl, "store", sl, "store">>) :
        t \in TextureHandles, dl \in LoadActions, sl \in LoadActions}
    \cup PipelineCalls

PresentPassCalls == {PassCall("swapchain", <<c, i>>) : c \in Swapchains, i \in 0..1}

ApplyPassCall(n, c) ==
    CASE c.op = "write"              -> RenderWrite(n, c.args[1], c.args[2], c.args[3], c.args[4])
      [] c.op = "set_depth_stencil"  -> SetDepthStencil(n, c.args[1], c.args[2], c.args[3],
                                                        c.args[4], c.args[5])
      [] c.op = "set_pipeline"       -> SetPipeline(n, c.args[1])
      [] c.op = "set_root_signature" -> SetRootSignature(n, c.args[1])
      [] c.op = "swapchain"          -> Swapchain(n, c.args[1], c.args[2])

ApplyComputePassCall(n, c) ==
    CASE c.op = "set_pipeline"       -> ComputeSetPipeline(n, c.args[1])
      [] c.op = "set_root_signature" -> ComputeSetRootSignature(n, c.args[1])

\* set_name calls of distinct builders; the i-th call's node has handle i.
SetNameCalls ==
    [builder : {"render", "compute", "copy", "present", "texture", "buffer"},
     name : Names \cup {NullName}]

ApplySetName(bb, i, c) ==
    CASE c.builder = "render"  -> PassBuilderSetName(bb, c.name, i)
      [] c.builder = "compute" -> ComputePassSetName(bb, c.name, i)
      [] c.builder = "copy"    -> CopyPassSetName(bb, c.name, i)
      [] c.builder = "present" -> PresentPassSetName(bb, c.name, i)
      [] c.builder = "texture" -> TextureBuilderSetName(bb, c.name, i)
      [] c.builder = "buffer"  -> BufferBuilderSetName(bb, c.name, i)

\* create_buffer / create_texture: construct the node and its builder,
\* then run the setup callback's calls in order.
create_buffer(cs) == SX!FoldLeft(ApplyBufferCall, NewBuffer, cs)
create_texture(cs) == SX!FoldLeft(ApplyTextureCall, NewTexture, cs)

\* add_render/compute/present_pass: the setup callback's descriptor calls
\* on the new node.
add_render_pass(cs) == SX!FoldLeft(ApplyPassCall, NewRenderPass, cs)
add_compute_pass(cs) == SX!FoldLeft(ApplyComputePassCall, NewComputePass, cs)
add_present_pass(cs) == SX!FoldLeft(ApplyPassCall, NewPresentPass, cs)

\* The blackboard after a population's set_name calls, in order.
NameNodes(cs) ==
    SX!FoldLeft(LAMBDA bb, p : ApplySetName(bb, p[1], p[2]),
                NewBlackboard(Names \cup {NullName}),
                [i \in 1..Len(cs) |-> <<i, cs[i]>>])

Init == last = [kind |-> "none"]

CreateBuffer(cs) == last' = [kind |-> "buffer", calls |-> cs, node |-> create_buffer(cs)]

CreateTexture(cs) == last' = [kind |-> "texture", calls |-> cs, node |-> create_texture(cs)]

AddRenderPass(cs) == last' = [kind |-> "render_pass", calls |-> cs, node |-> add_render_pass(cs)]

AddComputePass(cs) == last' = [kind |-> "compute_pass", calls |-> cs, node |-> add_compute_pass(cs)]

AddPresentPass(cs) == last' = [kind |-> "present_pass", calls |-> cs, node |-> add_present_pass(cs)]

\* A population's set_name calls, then the lookups of every name.
SetNames(cs) ==
    LET bb == NameNodes(cs)
    IN  last' = [kind |-> "names", calls |-> cs, bb |-> bb,
                 textures |-> [x \in Names |-> get_texture(bb, x)],
                 buffers |-> [x \in Names |-> get_buffer(bb, x)]]

\* One builder per behaviour: a builder is discarded when its callback
\* returns, and a node's resolution depends on its own callback only.
Next ==
    /\ last.kind = "none"
    /\ \/ \E cs \in SX!BoundedSeq(BufferCalls, MaxCalls) : CreateBuffer(cs)
       \/ \E cs \in SX!BoundedSeq(TextureCalls, MaxCalls) : CreateTexture(cs)
       \/ \E cs \in SX!BoundedSeq(RenderPassCalls, MaxCalls) : AddRenderPass(cs)
       \/ \E cs \in SX!BoundedSeq(PipelineCalls, MaxCalls) : AddComputePass(cs)
       \/ \E cs \in SX!BoundedSeq(PresentPassCalls, MaxCalls) : AddPresentPass(cs)
       \/ \E cs \in SX!BoundedSeq(SetNameCalls, MaxCalls) : SetNames(cs)

Spec == Init /\ [][Next]_last

----------------------------------------------------------------------------
(* Properties                                                              *)

BufferDescriptors == {"rw_buffer", "buffer", "uniform_buffer", "vertex_buffer", "index_buffer"}
TextureDescriptors == {"texture", "render_target", "rw_texture", "depth_stencil"}
FlagNames == {"own_memory", "persistent_map", "dedicated"}

TypeOK ==
    \/ last = [kind |-> "none"]
    \/ /\ last.kind = "buffer"
       /\ last.node.descriptors \subseteq BufferDescriptors
       /\ last.node.flags \subseteq FlagNames
       /\ last.node.memory_usage \in MemoryUsages \cup {"gpu_only", "cpu_only", "gpu_to_cpu"}
       /\ last.node.imported \in PhysBuffers \cup {NULL}
    \/ /\ last.kind = "texture"
       /\ last.node.descriptors \subseteq TextureDescriptors
       /\ last.node.flags \subseteq FlagNames
       /\ last.node.imported \in PhysTextures \cup {NULL}
    \/ /\ last.kind = "render_pass"
       /\ \A i \in DOMAIN last.node.rt_edges :
             last.node.rt_edges[i] \in [mrt : 0..MaxMRT, tex : TextureHandles]
       /\ last.node.load_actions \in [MRTIndices -> LoadActions \cup {Unset}]
       /\ last.node.store_actions \in [MRTIndices -> StoreActions \cup {Unset}]
       /\ last.node.root_signature \in RootSignatures \cup {Unset}
    \/ /\ last.kind = "compute_pass"
       /\ last.node.pipeline \in Pipelines \cup {Unset}
       /\ last.node.root_signature \in RootSignatures \cup {Unset}
    \/ /\ last.kind = "present_pass"
       /\ last.node.swapchain \in Swapchains \cup {Unset}
    \/ /\ last.kind = "names"
       /\ last.textures \in [Names -> (1..MaxCalls) \cup {InvalidHandle}]
       /\ last.buffers \in [Names -> (1..MaxCalls) \cup {InvalidHandle}]

\* The capabilities and creation flags each call requests (spec section 4.2).
RequestedCaps(c) ==
    CASE c.op = "allow_shader_readwrite" -> {"rw_buffer"}
      [] c.op = "allow_shader_read"      -> {"buffer", "uniform_buffer"}
      [] c.op = "as_vertex_buffer"       -> {"vertex_buffer"}
      [] c.op = "as_index_buffer"        -> {"index_buffer"}
      [] c.op = "allow_render_target"    -> {"render_target"}
      [] c.op = "allow_readwrite"        -> {"rw_texture"}
      [] c.op = "allow_depth_stencil"    -> {"depth_stencil"}
      [] OTHER                           -> {}

RequestedFlags(c) ==
    CASE c.op = "owns_memory"      -> {"own_memory"}
      [] c.op = "as_upload_buffer" -> {"persistent_map"}
      [] c.op = "with_flags"       -> c.arg
      [] OTHER                     -> {}

\* Position of the last import() of a callback, 0 if it imports nothing.
LastImport(cs) ==
    LET is == {i \in DOMAIN cs : cs[i].op = "import"}
    IN  IF is = {} THEN 0 ELSE CHOOSE i \in is : \A j \in is : j <= i

\* Flags set by several builder calls are combined by OR, whatever their
\* order: the node's capability word is what the constructor and the last
\* buffer import() put there joined with every capability requested after
\* it, and its flag word is every flag any call requested.  It fails if a
\* builder method assigns a word it should OR into, or an import drops
\* capabilities requested after it.
DescriptorFlagsMerged ==
    last.kind \in {"buffer", "texture"} =>
        LET cs == last.calls
            li == IF last.kind = "buffer" THEN LastImport(cs) ELSE 0
            base == IF last.kind = "texture" THEN {"texture"}
                    ELSE IF li = 0 THEN {} ELSE BufferProps(cs[li].arg).descriptors
        IN  /\ last.node.descriptors = base \cup UNION {RequestedCaps(cs[i]) : i \in (li + 1)..Len(cs)}
            /\ last.node.flags = UNION {RequestedFlags(cs[i]) : i \in DOMAIN cs}

\* The buffer's memory-location preference is the one the last of
\* prefer_on_device() and prefer_on_host() asked for (on the device only
\* if that was prefer_on_device()), and the default when neither is called.
PreferenceHonoured ==
    last.kind = "buffer" =>
        LET cs == last.calls
            ps == {i \in DOMAIN cs : cs[i].op \in {"prefer_on_device", "prefer_on_host"}}
        IN  last.node.prefer_on_device =
                (ps # {} /\ cs[CHOOSE i \in ps : \A j \in ps : j <= i].op = "prefer_on_device")

\* Position of the last call of cs satisfying P, 0 if there is none.
LastCall(cs, P(_)) ==
    LET is == {i \in DOMAIN cs : P(cs[i])}
    IN  IF is = {} THEN 0 ELSE CHOOSE i \in is : \A j \in is : j <= i

\* After a render pass's setup callback, every colour slot written has an
\* edge at its mrt index to the texture of its last write() and carries
\* that write's load and store actions, a slot never written has none; an
\* edge at a colour index is only there for a written slot, and the depth
\* slot has an edge exactly when set_depth_stencil was called, with the
\* last call's actions.  It fails if write() records the edge under another
\* index than the one whose actions it sets.
RenderTargetsResolved ==
    last.kind = "render_pass" =>
        LET cs == last.calls
            n == last.node
            edges == {n.rt_edges[i] : i \in DOMAIN n.rt_edges}
            ds == LastCall(cs, LAMBDA c : c.op = "set_depth_stencil")
        IN  /\ \A m \in MRTIndices :
                 LET w == LastCall(cs, LAMBDA c : c.op = "write" /\ c.args[1] = m)
                 IN  IF w = 0
                     THEN n.load_actions[m] = Unset /\ n.store_actions[m] = Unset
                     ELSE /\ RTEdge(m, cs[w].args[2]) \in edges
                          /\ n.load_actions[m] = cs[w].args[3]
                          /\ n.store_actions[m] = cs[w].args[4]
            /\ \A e \in edges : e.mrt \in MRTIndices => n.load_actions[e.mrt] # Unset
            /\ (\E e \in edges : e.mrt = MaxMRT) <=> ds # 0
            /\ ds # 0 => /\ n.depth_load_action = cs[ds].args[2]
                         /\ n.stencil_load_action = cs[ds].args[4]

\* A render or compute pass runs with the root signature named by the later
\* of set_pipeline() and set_root_signature(): the pipeline's own one when
\* set_pipeline() came last, so a signature set before the pipeline is
\* replaced.  It fails if set_pipeline() leaves an earlier signature.
PipelineLayoutResolved ==
    last.kind \in {"render_pass", "compute_pass"} =>
        LET cs == last.calls
            p == LastCall(cs, LAMBDA c : c.op = "set_pipeline")
            s == LastCall(cs, LAMBDA c : c.op \in {"set_pipeline", "set_root_signature"})
        IN  /\ last.node.pipeline = IF p = 0 THEN Unset ELSE cs[p].args[1]
            /\ last.node.root_signature =
                   IF s = 0 THEN Unset
                   ELSE IF s = p THEN RootOf[cs[s].args[1]] ELSE cs[s].args[1]

\* After a population's set_name calls, get_texture(name) and
\* get_buffer(name) return the node of the last texture or buffer builder
\* that took the name, and UINT64_MAX if none did; the pass table holds the
\* last pass to take it, whichever of the four pass builders named it.  It
\* fails if a later set_name does not replace an earlier one.
BlackboardLookupLastRegistered ==
    last.kind = "names" =>
        LET cs == last.calls
            Named(kinds, x) == LastCall(cs, LAMBDA c : c.builder \in kinds /\ c.name = x)
            Handle(i) == IF i = 0 THEN InvalidHandle ELSE i
        IN  \A x \in Names :
                /\ last.textures[x] = Handle(Named({"texture"}, x))
                /\ last.buffers[x] = Handle(Named({"buffer"}, x))
                /\ last.bb.named_passes[x] =
                       LET i == Named({"render", "compute", "copy", "present"}, x)
                       IN  IF i = 0 THEN NoNode ELSE i

=============================================================================
