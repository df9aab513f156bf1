\* Three connections, two at a time, over two fd numbers, one edit of the file.
CONSTANTS
    c1 = c1
    c2 = c2
    Conns = {c1, c2}
    MaxConns = 3
    Fds = {4, 5}
    Files <- MCFiles
    NoFile = NoFile
    Requests <- MCRequests
    Paths <- MCPaths
    Hosts = {"u1", "u2", "u3", "x"}
    Resolvable = {"u1", "u2", "u3"}
    NoToken = NoToken
    DefaultCapacity = 1
    IndexRange = 2
    MaxEdits = 1
    MaxTime = 1
    NoConn = NoConn
SPECIFICATION Spec
SYMMETRY Symmetry
INVARIANTS TypeOK RouteIsLongestPrefix DefaultRoute FiltersSound CacheSound CacheWellFormed SlotServesOwner UpstreamIsRouted RateLimitHolds Answered
CHECK_DEADLOCK FALSE
