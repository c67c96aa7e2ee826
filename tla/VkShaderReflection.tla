------------------------- MODULE VkShaderReflection -------------------------
(***************************************************************************)
(* VkUtil_InitializeShaderReflection (src/gpu/cgpu/vulkan/vulkan_utils.c): *)
(* the translation of a SPIR-V Reflect shader module into the per-entry   *)
(* CGPUShaderReflection tables.                                            *)
(*                                                                         *)
(* The reflected module is abstracted to:                                  *)
(*  - the number of entry points and the shader stage;                     *)
(*  - the number of input variables;                                       *)
(*  - its descriptor sets, each a sequence of binding descriptor types;    *)
(*  - its push-constant blocks, each a size.                               *)
(* Set and binding numbers are positions (0-based), as SPIR-V Reflect      *)
(* enumerates them.  A calloc'd array is a function on 0..n-1.  A write    *)
(* outside it is recorded in "oob" instead of being performed.             *)
(* Names, name hashes, formats and texture dimensions are left out.        *)
(* A pointer cgpu_calloc returns is "allocated"; one never set is "null".  *)
(***************************************************************************)
EXTENDS Naturals, Sequences

LOCAL SX == INSTANCE SequencesExt

\* SpvReflectDescriptorType values 0..10 (sampler .. input attachment).
SpvDescriptorTypes == 0..10

\* RTLut: descriptor type -> ECGPUResourceType (12 entries, 0..11).
RTLut == <<"sampler", "combined_image_sampler", "texture", "rw_texture",
           "texel_buffer", "rw_texel_buffer", "uniform_buffer", "rw_buffer",
           "uniform_buffer", "rw_buffer", "input_attachment", "ray_tracing">>

\* The zero-filled CGPUShaderResource calloc returns.
ZeroResource == [set |-> 0, binding |-> 0, type |-> "none", size |-> 0]

\* current_res filled from descriptor binding i_binding of set i_set.
BindingResource(i_set, i_binding, dtype) ==
    [set |-> i_set, binding |-> i_binding, type |-> RTLut[dtype + 1], size |-> 1]

\* A push-constant block: set 0, binding 0, CGPU_RESOURCE_TYPE_PUSH_CONSTANT.
PushResource(size) == [set |-> 0, binding |-> 0, type |-> "push_constant", size |-> size]

ShaderResourceRecords ==
    [set : Nat, binding : Nat, type : {"none", "push_constant"} \cup {RTLut[i] : i \in 1..12},
     size : Nat]

\* shader_resources[idx] = r on the calloc'd array, or an overflow.
Write(w, idx, r) ==
    IF idx \in DOMAIN w.tbl THEN [w EXCEPT !.tbl[idx] = r] ELSE [w EXCEPT !.oob = TRUE]

\* mutant: bcount without the push constants
ResourceCountNoPush(m) == SX!FoldLeft(LAMBDA acc, s : acc + Len(s), 0, m.sets)

\* bcount: one slot per binding of every set, plus one per push constant.
ResourceCount(m) ==
    SX!FoldLeft(LAMBDA acc, s : acc + Len(s), 0, m.sets) + Len(m.pushes)

\* The inner loop over the bindings of set i_set; i_res advances with
\* i_binding in the for statement.
RECURSIVE FillBindings(_, _, _, _, _)
FillBindings(w, set, i_set, i_binding, i_res) ==
    IF i_binding >= Len(set) THEN [w EXCEPT !.i_res = i_res]
    ELSE FillBindings(Write(w, i_res, BindingResource(i_set, i_binding, set[i_binding + 1])),
                      set, i_set, i_binding + 1, i_res + 1)

\* The outer loop over the descriptor sets.
RECURSIVE FillSets(_, _, _)
FillSets(w, sets, i_set) ==
    IF i_set >= Len(sets) THEN w
    ELSE FillSets(FillBindings(w, sets[i_set + 1], i_set, 0, w.i_res), sets, i_set + 1)

\* mutant: push constants written from index 0 instead of after the bindings
FillPushConstantsFromZero(w, pushes) ==
    SX!FoldLeft(LAMBDA acc, i : Write(acc, i - 1, PushResource(pushes[i])),
                w, [i \in 1..Len(pushes) |-> i])

\* "Fill Push Constants": shader_resources[i_res + i].
FillPushConstants(w, pushes) ==
    SX!FoldLeft(LAMBDA acc, i : Write(acc, w.i_res + i - 1, PushResource(pushes[i])),
                w, [i \in 1..Len(pushes) |-> i])

\* The descriptor-set part of one entry's reflection: allocated and
\* filled only when there are sets or push constants.
ShaderResources(m) ==
    IF Len(m.sets) > 0 \/ Len(m.pushes) > 0
    THEN FillPushConstants(
             FillSets([tbl |-> [i \in 0..(ResourceCount(m) - 1) |-> ZeroResource],
                       oob |-> FALSE, i_res |-> 0, ptr |-> "allocated"], m.sets, 0),
             m.pushes)
    ELSE [tbl |-> [i \in {} |-> ZeroResource], oob |-> FALSE, i_res |-> 0, ptr |-> "null"]

\* One entry of the calloc'd entry_reflections: vertex inputs only for a
\* vertex stage with inputs.
EntryReflection(m) ==
    LET vertex == m.icount > 0 /\ m.stage = "vertex"
    IN  [stage |-> m.stage,
         vertex_inputs_count |-> IF vertex THEN m.icount ELSE 0,
         vertex_inputs |-> IF vertex THEN "allocated" ELSE "null",
         resources |-> ShaderResources(m)]

\* VkUtil_InitializeShaderReflection: one reflection per entry point, each
\* built from the whole module's inputs, sets and push constants.
VkUtil_InitializeShaderReflection(m) ==
    [i \in 1..m.entries |-> EntryReflection(m)]

\* The memory VkUtil_InitializeShaderReflection leaves allocated: the
\* reflect module, entry_reflections, and each entry's non-null arrays.
ReflectionAllocations(refl) ==
    {<<0, "pReflect">>, <<0, "entry_reflections">>}
    \cup {<<i, "vertex_inputs">> : i \in {j \in DOMAIN refl : refl[j].vertex_inputs = "allocated"}}
    \cup {<<i, "shader_resources">> : i \in {j \in DOMAIN refl : refl[j].resources.ptr = "allocated"}}

\* The cgpu_free calls of one entry, skipping null pointers.
EntryFrees(refl, i) ==
    (IF refl[i].vertex_inputs = "allocated" THEN <<<<i, "vertex_inputs">>>> ELSE <<>>)
    \o (IF refl[i].resources.ptr = "allocated" THEN <<<<i, "shader_resources">>>> ELSE <<>>)

\* mutant: the entry loop frees the vertex inputs only
FreeShaderReflectionNoResources(refl) ==
    SX!FlattenSeq([i \in 1..Len(refl) |->
        IF refl[i].vertex_inputs = "allocated" THEN <<<<i, "vertex_inputs">>>> ELSE <<>>])
    \o <<<<0, "entry_reflections">>, <<0, "pReflect">>>>

\* VkUtil_FreeShaderReflection: the pointers freed, in order: each entry's
\* arrays, then entry_reflections, then the reflect module (after
\* spvReflectDestroyShaderModule has released its contents).
VkUtil_FreeShaderReflection(refl) ==
    SX!FlattenSeq([i \in 1..Len(refl) |-> EntryFrees(refl, i)])
    \o <<<<0, "entry_reflections">>, <<0, "pReflect">>>>

\* The table the loops are meant to build: every binding of every set in
\* enumeration order, then every push-constant block (0-based).
ExpectedResources(m) ==
    LET bindings == SX!FlattenSeq([s \in 1..Len(m.sets) |->
                        [b \in 1..Len(m.sets[s]) |-> BindingResource(s - 1, b - 1, m.sets[s][b])]])
        pushes == [i \in 1..Len(m.pushes) |-> PushResource(m.pushes[i])]
        all == bindings \o pushes
    IN  [i \in 0..(Len(all) - 1) |-> all[i + 1]]

=============================================================================
