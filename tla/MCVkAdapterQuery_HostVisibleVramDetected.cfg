CONSTANTS
    l1 = l1
    l2 = l2
    LayerNames <- MCLayerNames
    Heaps <- MCHeaps
    HeapSizes <- MCHeapSizes
    MaxNames = 2
    MaxFamilies = 3
    MaxTypes = 2
    DescriptorTypes = {0, 6}
    MaxAdapters = 2
    MaxAdapterFamilies = 2
    DeviceTypes <- MCDeviceTypes
    AdapterReports <- MCAdapterReports
    AdapterRequests <- MCAdapterRequests
    MemoryConfigs <- MCMemoryConfigs
    Formats <- MCFormats
    VkFormatOf <- MCVkFormatOf
    FormatProps <- MCFormatProps
SPECIFICATION Spec
\* Each behaviour applies one query and stops.
CHECK_DEADLOCK FALSE
INVARIANT
    HostVisibleVramDetected
