SPECIFICATION Spec
CONSTANTS
    Address <- MCAddress
    Node <- MCNode
    Publishable <- MCPublishable
    Views <- MCViews
    Everywhere = Everywhere
    PageHeight = 4
    Fragments = {0, 1, 2, 3}
    Windows <- MCWindows
    MaxLog = 4
CHECK_DEADLOCK FALSE
INVARIANT PatchIsRender
