SPECIFICATION MCSpec
CONSTANTS
    p1 = p1
    p2 = p2
    p3 = p3
    hall = hall
    r1 = r1
    s1 = s1
    s2 = s2
    s3 = s3
    c1 = c1
    c2 = c2
    c3 = c3
    Sessions = {s1, s2, s3}
    Calls = {c1, c2, c3}
    SessionCap = 2
    WatchCap = 1
    Capacity = 2
    MaxWatches = 2
    Scenes <- MCScenes
    None = None
SYMMETRY Symmetry
INVARIANTS
    TopologyIsTrue
    RequestsSettle
    SessionsAreAccounted
CHECK_DEADLOCK FALSE
