CONSTANTS
    NULL = NULL
    NoNode = NoNode
    Names <- MCNames
    BufferStates <- MCBufferStates
    MaxPasses = 3
    MaxResources = 2
    MaxCalls = 2
SPECIFICATION Spec
CONSTRAINT ResourcesFirst
\* One frame is modelled: the system stops when execute() returns or
\* compile() rejects the graph.
CHECK_DEADLOCK FALSE
INVARIANT
    DeclaredTextureProducersLive
