SPECIFICATION Spec
CONSTANTS
    b1 = b1
    b2 = b2
    b3 = b3
    s1 = s1
    s2 = s2
    c1 = c1
    j1 = j1
    None = None
    Bodies <- MCBodies
    Singles <- MCSingles
    Chains <- MCChains
    Joints <- MCJoints
    Dynamic <- MCBodies
    Liberties <- Disciplined
    Scenes <- MCScenes
    MaxTicks = 2
INVARIANTS
    EngineMirrorsWorld
PROPERTIES
    EventsReachOwners
CHECK_DEADLOCK FALSE
