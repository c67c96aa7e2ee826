CONSTANTS
    b1 = b1
    t1 = t1
    p1 = p1
    p2 = p2
    rs1 = rs1
    rs2 = rs2
    rt1 = rt1
    rt2 = rt2
    sc1 = sc1
    n1 = n1
    NULL = NULL
    Unset = Unset
    NoNode = NoNode
    InvalidHandle = InvalidHandle
    NullName = NullName
    MaxCalls = 3
    MaxMRT = 2
    Sizes = {2}
    MemoryUsages <- MCMemoryUsages
    PhysBuffers <- MCPhysBuffers
    PhysTextures <- MCPhysTextures
    Pipelines <- MCPipelines
    RootSignatures <- MCRootSignatures
    RootOf <- MCRootOf
    TextureHandles = {rt1, rt2}
    Swapchains = {sc1}
    Names = {n1}
    LoadActions = {"clear", "load"}
    StoreActions = {"store", "discard"}
SPECIFICATION Spec
INVARIANTS
    PreferenceHonoured
CHECK_DEADLOCK FALSE
