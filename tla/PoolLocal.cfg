CONSTANTS
    Endpoints = {e1, e2}
    Callers = {c1, c2}
    Profiles = {p}
    AnyEndpoint = AnyEndpoint
    NoCaller = NoCaller
    MaxQueues = 2
    Removable = {e2}
    Renamable = {e2}
    Retyped = {}
    Degradable = {}
    SpaceHosts = {e1}
SPECIFICATION Spec
SYMMETRY CallerSymmetry
INVARIANTS SharingNeedsReadding LoginIsPrivate
CHECK_DEADLOCK FALSE
