SPECIFICATION Spec
CONSTANTS
    r1 = r1
    r2 = r2
    g1 = g1
    g2 = g2
    home = home
    plain = plain
    odd = odd
    url = url
    main = main
    Callers = {r1, r2, v1, v2}
    Window = 1
    Requests = {r1, r2}
    Addresses = {home}
    From <- MCFrom
    Rate = 1
    Chain <- MCChain
    None = None
    Pages = {g1, g2}
    Paths = {plain, odd, url}
    Remote = {url}
    Forbidden = {odd}
    TagForbidden = {}
    Candidates <- MCCandidates
    TagCandidates <- MCCandidates
    Files = {main}
    Contents = {good, bad, huge}
    Dangerous = {bad, huge}
    Huge = {huge}
    MaxImports = 2
    MaxDepth = 1
    Constructs <- MCConstructs
    Edits = 1
    Absent = Absent
INVARIANTS
    StatsNeverPanics
    OneBucketPerAddress
    StatsExact
    OnlyAcceptableInjected
    OncePerBlock
PROPERTIES
    EveryRequestAnswered
    CacheSettles
CHECK_DEADLOCK FALSE
