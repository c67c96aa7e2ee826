------------------------- MODULE MCVkAdapterQuery -------------------------
(* Model-checking instance of VkAdapterQuery: two names, lists of up to   *)
(* two names, up to three queue families, two memory types over two heaps; *)
(* for the enumeration, up to two devices of up to two families each, a    *)
(* discrete GPU or a CPU device, with one memory layout and one driver     *)
(* format table; one format (a PVRTC block format) has no Vulkan format.   *)
EXTENDS VkAdapterQuery

CONSTANTS l1, l2

MCLayerNames == {l1, l2}
MCHeaps == 1..2
MCHeapSizes == {1, 2}

MCDeviceTypes == {"discrete_gpu", "cpu"}
MCAdapterReports == {<<l1, l2>>}
MCAdapterRequests == {<<l1>>, <<l2, l2>>}
MCMemoryConfigs ==
    {[props2 |-> TRUE,
      types |-> <<[heap |-> 2, device_local |-> FALSE, host_visible |-> TRUE],
                  [heap |-> 1, device_local |-> TRUE, host_visible |-> TRUE]>>,
      heaps |-> [h \in 1..2 |-> [device_local |-> h = 1, size |-> 2]],
      budget |-> [h \in 1..2 |-> 0]]}
MCFormats == {"r8_unorm", "d32_sfloat", "pvrtc1_4bpp"}
MCVkFormatOf == [f \in MCFormats |-> IF f = "pvrtc1_4bpp" THEN "undefined" ELSE f]
MCFormatProps ==
    {[f \in {"r8_unorm", "d32_sfloat"} |->
        IF f = "r8_unorm" THEN {"sampled_image", "storage_image", "color_attachment"}
        ELSE {"sampled_image", "depth_stencil_attachment"}]}

=============================================================================
