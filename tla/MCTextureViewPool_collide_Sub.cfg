CONSTANTS
    t1 = t1
    t2 = t2
    s1 = s1
    s2 = s2
    Textures <- MCTextures
    Subs <- MCSubs
    Hash <- HashCollideSub
    InFlight = 2
    MaxFrame = 3
    MaxViews = 4
    NoResult = NoResult
SPECIFICATION Spec
INVARIANT
    ViewMatchesKey
