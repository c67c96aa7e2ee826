--------------------------- MODULE VkAdapterQuery ---------------------------
(***************************************************************************)
(* The adapter queries of the Vulkan backend, src/gpu/cgpu/vulkan/         *)
(* vulkan_utils.c: the layer and extension selection loops, the queue      *)
(* family selection, the format support and host-visible VRAM queries,    *)
(* VkUtil_QueryAllAdapters that runs them for every physical device, and   *)
(* the shader reflection's allocation and release.  Each is a pure         *)
(* function of what the driver reports and what the caller requests, and   *)
(* is modelled as an operator; one action applies one of them to inputs    *)
(* drawn from small sets and records the result in "last", so that the     *)
(* invariants check every function on every bounded input.                 *)
(*                                                                         *)
(* Names are model values (strcmp equality).  A driver reports each layer  *)
(* or extension once; a caller's request list may repeat a name.           *)
(***************************************************************************)
EXTENDS Integers, Sequences, FiniteSets, VkShaderReflection

LOCAL SX == INSTANCE SequencesExt
LOCAL Fn == INSTANCE Functions

CONSTANTS
    LayerNames,   \* layer and extension names
    MaxNames,     \* bound on the lengths of reported and requested lists
    MaxFamilies,  \* bound on the queue families a device reports
    MaxTypes,     \* bound on the memory types a device reports
    Heaps,        \* heap indices 1..n
    HeapSizes,    \* heap sizes and budgets (0 excluded)
    DescriptorTypes,\* SpvReflectDescriptorType values a shader module uses
    MaxAdapters,  \* bound on the physical devices vkEnumeratePhysicalDevices reports
    MaxAdapterFamilies, \* bound on the queue families of each of those devices
    DeviceTypes,  \* VkPhysicalDeviceType values (OTHER is asserted away)
    AdapterReports, \* layer and extension lists a physical device reports
    AdapterRequests, \* device_layers / device_extensions lists of the caller
    MemoryConfigs, \* [props2, types, heaps, budget] of a device's memory
    Formats,      \* ECGPUFormat values
    VkFormatOf,   \* VkUtil_FormatTranslateToVk: Formats -> Vk formats or "undefined"
    FormatProps   \* optimalTilingFeatures a driver reports, per Vk format

VARIABLE last     \* the query last applied, its inputs and its result

vars == <<last>>

\* Lists the driver reports (no repeats) and lists a caller passes.
Reported == {s \in SX!BoundedSeq(LayerNames, MaxNames) : Fn!IsInjective(s)}
Requested == SX!BoundedSeq(LayerNames, MaxNames)

QueueCaps == {"graphics", "compute", "transfer"}
Families == SX!BoundedSeq(SUBSET QueueCaps, MaxFamilies)

MemoryTypes == SX!BoundedSeq([heap : Heaps, device_local : BOOLEAN, host_visible : BOOLEAN], MaxTypes)
HeapProps == [Heaps -> [device_local : BOOLEAN, size : HeapSizes]]
Budgets == [Heaps -> {0} \cup HeapSizes]

\* Reflected shader modules: one or two entry points, up to MaxNames sets
\* of up to MaxNames bindings, at most one push-constant block (its size is
\* copied, so one size is enough).
ShaderModules ==
    [entries : 1..2, stage : {"vertex", "compute"}, icount : 0..1,
     sets : SX!BoundedSeq(SX!BoundedSeq(DescriptorTypes, MaxNames), MaxNames),
     pushes : SX!BoundedSeq({16}, 1)]

Selections == {"instance_layers", "instance_extensions", "device_layers", "device_extensions"}

----------------------------------------------------------------------------
(* Layer and extension selection                                           *)

\* mutant: the counter bumped for every (reported, requested) pair
MatchEveryPair(name, req) == [j \in 1..Len(req) |-> name]

\* The inner loop over the requested names for reported name "name",
\* leaving it at the first match with `continue` (which only ends the
\* current iteration): one entry per requested copy of the name.
MatchContinue(name, req) == SelectSeq(req, LAMBDA r : r = name)

\* The inner loop leaving it at the first match with `break`.
MatchBreak(name, req) ==
    IF \E j \in 1..Len(req) : req[j] = name THEN <<name>> ELSE <<>>

\* The outer loop over the reported names: pExtensionNames[filled_exts++]
\* for every match; filled_exts is the length of the result.  When the
\* driver reports nothing the arrays are not allocated and the count is
\* left at 0.  brk: the inner loop leaves at a match with break.
SelectNames(avail, req, brk) ==
    SX!FlattenSeq([i \in 1..Len(avail) |->
        IF brk THEN MatchBreak(avail[i], req) ELSE MatchContinue(avail[i], req)])

VkUtil_SelectInstanceLayers(avail, req) == SelectNames(avail, req, TRUE)
VkUtil_SelectInstanceExtensions(avail, req) == SelectNames(avail, req, TRUE)
VkUtil_SelectPhysicalDeviceLayers(avail, req) == SelectNames(avail, req, TRUE)
\* mutant: the device extension counter bumped for every pair
SelectDeviceExtensionsEveryPair(avail, req) ==
    SX!FlattenSeq([i \in 1..Len(avail) |-> MatchEveryPair(avail[i], req)])

VkUtil_SelectPhysicalDeviceExtensions(avail, req) == SelectNames(avail, req, FALSE)

Select(kind, avail, req) ==
    CASE kind = "instance_layers"     -> VkUtil_SelectInstanceLayers(avail, req)
      [] kind = "instance_extensions" -> VkUtil_SelectInstanceExtensions(avail, req)
      [] kind = "device_layers"       -> VkUtil_SelectPhysicalDeviceLayers(avail, req)
      [] kind = "device_extensions"   -> VkUtil_SelectPhysicalDeviceExtensions(avail, req)

----------------------------------------------------------------------------
(* Queue family selection                                                  *)

NoIndex == -1

\* mutant: the three tests as independent ifs instead of an else-if chain
QueueStepNoElse(idx, j, flags) ==
    [r \in QueueCaps |-> IF idx[r] = NoIndex /\ r \in flags THEN j ELSE idx[r]]

\* One iteration of the loop over queue family j (0-based): the first
\* role still unassigned that the family supports takes it; a family
\* takes at most one role.
QueueStep(idx, j, flags) ==
    IF idx.graphics = NoIndex /\ "graphics" \in flags THEN [idx EXCEPT !.graphics = j]
    ELSE IF idx.compute = NoIndex /\ "compute" \in flags THEN [idx EXCEPT !.compute = j]
    ELSE IF idx.transfer = NoIndex /\ "transfer" \in flags THEN [idx EXCEPT !.transfer = j]
    ELSE idx

\* mutant: family indices counted from 1
VkUtil_SelectQueueIndicesOneBased(idx0, fams) ==
    SX!FoldLeft(LAMBDA idx, p : QueueStep(idx, p[1], p[2]),
                idx0, [j \in 1..Len(fams) |-> <<j, fams[j]>>])

\* VkUtil_SelectQueueIndices: the loop over the families, starting from
\* the adapter's mQueueFamilyIndices idx0.
VkUtil_SelectQueueIndices(idx0, fams) ==
    SX!FoldLeft(LAMBDA idx, p : QueueStep(idx, p[1], p[2]),
                idx0, [j \in 1..Len(fams) |-> <<j - 1, fams[j]>>])

----------------------------------------------------------------------------
(* Host-visible VRAM query                                                 *)

\* The memory types whose heap is device local, in reported order.
DeviceLocalHeapTypes(types, heaps) == SelectSeq(types, LAMBDA t : heaps[t.heap].device_local)

IsHostVisibleVram(t) == t.device_local /\ t.host_visible

NoVram == [support |-> FALSE, budget |-> 0]

\* VK_EXT_memory_budget branch: the first type of a device-local heap that
\* is device local and host visible; its heap's budget, or the heap size
\* when the budget is 0.
QueryVramBudget(types, heaps, budget) ==
    LET hv == SelectSeq(DeviceLocalHeapTypes(types, heaps), IsHostVisibleVram)
    IN  IF hv = <<>> THEN NoVram
        ELSE LET h == hv[1].heap
             IN  [support |-> TRUE,
                  budget |-> IF budget[h] # 0 THEN budget[h] ELSE heaps[h].size]

\* Fallback branch: the loop ends at the first type of a device-local heap
\* whatever it found (the trailing break).
QueryVramFallback(types, heaps) ==
    LET dl == DeviceLocalHeapTypes(types, heaps)
    IN  IF dl # <<>> /\ IsHostVisibleVram(dl[1])
        THEN [support |-> TRUE, budget |-> heaps[dl[1].heap].size]
        ELSE NoVram

\* VkUtil_QueryHostVisbleVramInfo: the budget branch when
\* vkGetPhysicalDeviceMemoryProperties2KHR is loaded.
VkUtil_QueryHostVisbleVramInfo(props2, types, heaps, budget) ==
    IF props2 THEN QueryVramBudget(types, heaps, budget) ELSE QueryVramFallback(types, heaps)

----------------------------------------------------------------------------
(* Format support and adapter enumeration                                  *)

NoFormatSupport == [shader_read |-> FALSE, shader_write |-> FALSE, render_target_write |-> FALSE]

\* VkUtil_EnumFormatSupports: the three bits of every format cleared, and
\* for a format with a Vulkan equivalent set from its optimal tiling
\* features.
VkUtil_EnumFormatSupports(props) ==
    [f \in Formats |->
        IF VkFormatOf[f] = "undefined" THEN NoFormatSupport
        ELSE LET feat == props[VkFormatOf[f]]
             IN  [shader_read |-> "sampled_image" \in feat,
                  shader_write |-> "storage_image" \in feat,
                  render_target_write |->
                      feat \cap {"color_attachment", "depth_stencil_attachment"} # {}]]

\* VkUtil_RecordAdapterDetail: the device-type flags and the VRAM query
\* (vendor strings, alignments and limits are copied and left out).
VkUtil_RecordAdapterDetail(d) ==
    [is_cpu |-> d.type = "cpu", is_virtual |-> d.type = "virtual_gpu",
     is_uma |-> d.type = "integrated_gpu",
     vram |-> VkUtil_QueryHostVisbleVramInfo(d.mem.props2, d.mem.types, d.mem.heaps, d.mem.budget)]

\* pVulkanAdapters is cgpu_calloc'd: every queue family index starts at 0.
CallocQueueIndices == [r \in QueueCaps |-> 0]

\* mutant: the loop writing -1 left out
ResetQueueIndicesSkipped(idx) == idx

\* The loop over CGPU_QUEUE_TYPE_COUNT writing -1 to every index.
ResetQueueIndices(idx) == [r \in DOMAIN idx |-> NoIndex]

\* VkUtil_QueryAllAdapters: one adapter per physical device, each queried
\* in the code's order; no physical device leaves pVulkanAdapters unset.
VkUtil_QueryAllAdapters(devs, layers, exts) ==
    [i \in 1..Len(devs) |->
        [formats |-> VkUtil_EnumFormatSupports(devs[i].formats),
         layers |-> VkUtil_SelectPhysicalDeviceLayers(devs[i].reports, layers),
         extensions |-> VkUtil_SelectPhysicalDeviceExtensions(devs[i].reports, exts),
         queues |-> VkUtil_SelectQueueIndices(ResetQueueIndices(CallocQueueIndices), devs[i].fams),
         detail |-> VkUtil_RecordAdapterDetail(devs[i])]]

PhysicalDevices ==
    [fams : SX!BoundedSeq(SUBSET QueueCaps, MaxAdapterFamilies), type : DeviceTypes,
     reports : AdapterReports, mem : MemoryConfigs, formats : FormatProps]

----------------------------------------------------------------------------

Init == last = [kind |-> "none"]

SelectLayersOrExtensions(kind, avail, req) ==
    last' = [kind |-> kind, avail |-> avail, req |-> req, out |-> Select(kind, avail, req)]

SelectQueues(fams) ==
    last' = [kind |-> "queues", fams |-> fams, out |-> VkUtil_SelectQueueIndices([r \in QueueCaps |-> NoIndex], fams)]

QueryVram(props2, types, heaps, budget) ==
    last' = [kind |-> "vram", types |-> types, heaps |-> heaps,
             out |-> VkUtil_QueryHostVisbleVramInfo(props2, types, heaps, budget)]

ReflectShader(m) ==
    LET refl == VkUtil_InitializeShaderReflection(m)
    IN  last' = [kind |-> "reflect", mod |-> m, out |-> refl,
                 frees |-> VkUtil_FreeShaderReflection(refl)]

\* The instance's first and only call (mPhysicalDeviceCount is 0), with
\* the same list for layers and extensions.
QueryAdapters(devs, req) ==
    last' = [kind |-> "adapters", devs |-> devs,
             out |-> VkUtil_QueryAllAdapters(devs, req, req)]

\* One query per behaviour: the functions are independent and stateless.
Next ==
    /\ last.kind = "none"
    /\ \/ \E kind \in Selections, avail \in Reported, req \in Requested :
             SelectLayersOrExtensions(kind, avail, req)
       \/ \E fams \in Families : SelectQueues(fams)
       \/ \E props2 \in BOOLEAN, types \in MemoryTypes, heaps \in HeapProps, budget \in Budgets :
             QueryVram(props2, types, heaps, budget)
       \/ \E m \in ShaderModules : ReflectShader(m)
       \/ \E devs \in SX!BoundedSeq(PhysicalDevices, MaxAdapters), req \in AdapterRequests :
             QueryAdapters(devs, req)

Spec == Init /\ [][Next]_vars

----------------------------------------------------------------------------
(* Properties                                                              *)

TypeOK ==
    \/ last = [kind |-> "none"]
    \/ last.kind \in Selections /\ last.out \in Seq(LayerNames)
    \/ last.kind = "queues" /\ last.out \in [QueueCaps -> {NoIndex} \cup 0..(Len(last.fams) - 1)]
    \/ last.kind = "vram" /\ last.out \in [support : BOOLEAN, budget : {0} \cup HeapSizes]
    \/ last.kind = "reflect" /\ DescriptorTypes \subseteq SpvDescriptorTypes
       /\ \A i \in DOMAIN last.out :
            LET e == last.out[i]
            IN  /\ e.stage \in {"vertex", "compute"} /\ e.vertex_inputs_count \in 0..1
                /\ e.resources.oob \in BOOLEAN
                /\ \E n \in 0..(MaxNames * MaxNames + 1) :
                      e.resources.tbl \in [0..(n - 1) -> ShaderResourceRecords]
    \/ last.kind = "adapters" /\ DOMAIN last.out = 1..Len(last.devs)
       /\ \A i \in DOMAIN last.out :
            /\ last.out[i].queues \in [QueueCaps -> {NoIndex} \cup 0..(MaxAdapterFamilies - 1)]
            /\ last.out[i].formats \in [Formats -> [shader_read : BOOLEAN, shader_write : BOOLEAN,
                                                     render_target_write : BOOLEAN]]

\* A selection writes no more entries than the arrays hold: they are
\* calloc'd with the requested count, and filled_exts counts the writes.
SelectionFits ==
    last.kind \in Selections => Len(last.out) <= Len(last.req)

\* A selection enables exactly the requested names the driver offers,
\* each once.
SelectionIsIntersection(kinds) ==
    last.kind \in kinds =>
        /\ Fn!IsInjective(last.out)
        /\ SX!ToSet(last.out) = SX!ToSet(last.avail) \cap SX!ToSet(last.req)

\* ... for the three loops that leave the inner loop with break.
BreakSelectionsExact ==
    SelectionIsIntersection({"instance_layers", "instance_extensions", "device_layers"})

\* ... for VkUtil_SelectPhysicalDeviceExtensions.
DeviceExtensionSelectionExact == SelectionIsIntersection({"device_extensions"})

\* Queue indices: each names a family with the capability, no family
\* serves two roles, graphics is the first graphics family, and a role
\* stays unassigned only when every family with it serves an earlier role
\* of the chain.
QueueIndicesValidFor(fams, idx) ==
        LET FamilyOf(r) == fams[idx[r] + 1]
            With(r) == {j \in 0..(Len(fams) - 1) : r \in fams[j + 1]}
        IN  /\ \A r \in QueueCaps : idx[r] # NoIndex =>
                   idx[r] \in 0..(Len(fams) - 1) /\ r \in FamilyOf(r)
            /\ \A r1, r2 \in QueueCaps : r1 # r2 /\ idx[r1] # NoIndex => idx[r1] # idx[r2]
            /\ idx.graphics = IF With("graphics") = {} THEN NoIndex
                              ELSE CHOOSE j \in With("graphics") : \A k \in With("graphics") : j <= k
            /\ idx.compute = NoIndex => With("compute") \subseteq {idx.graphics}
            /\ idx.transfer = NoIndex => With("transfer") \subseteq {idx.graphics, idx.compute}

QueueIndicesValid == last.kind = "queues" => QueueIndicesValidFor(last.fams, last.out)

\* The same holds for every adapter VkUtil_QueryAllAdapters fills: its
\* indices start from the calloc'd 0, a valid family index, so each must
\* be reset to -1 before the selection loop reads "== -1" as unassigned.
AdapterQueuesValid ==
    last.kind = "adapters" =>
        \A i \in DOMAIN last.out : QueueIndicesValidFor(last.devs[i].fams, last.out[i].queues)

\* The adapter reports host-visible VRAM exactly when some memory type of
\* a device-local heap is device local and host visible, whichever branch
\* of VkUtil_QueryHostVisbleVramInfo the loader's entry points select.
HostVisibleVramDetected ==
    last.kind = "vram" =>
        last.out.support = \E j \in 1..Len(last.types) :
                               last.heaps[last.types[j].heap].device_local
                               /\ IsHostVisibleVram(last.types[j])

\* VkUtil_InitializeShaderReflection writes every shader resource inside
\* the array it calloc'd with bcount entries: i_res, carried across the
\* descriptor-set loops, plus the push-constant offset never reaches bcount.
ShaderResourcesInBounds ==
    last.kind = "reflect" => \A i \in DOMAIN last.out : ~last.out[i].resources.oob

\* Every entry's resource table lists each binding of each descriptor set
\* once, in set and binding order, followed by the push-constant blocks,
\* with no slot left zeroed and none overwritten.
ShaderResourcesExact ==
    last.kind = "reflect" =>
        \A i \in DOMAIN last.out : last.out[i].resources.tbl = ExpectedResources(last.mod)

\* VkUtil_FreeShaderReflection releases exactly what
\* VkUtil_InitializeShaderReflection allocated, each pointer once: every
\* entry's vertex inputs and resource table, the entry array and the
\* reflect module.
ReflectionFreedExactly ==
    last.kind = "reflect" =>
        /\ Fn!IsInjective(last.frees)
        /\ SX!ToSet(last.frees) = ReflectionAllocations(last.out)

=============================================================================
