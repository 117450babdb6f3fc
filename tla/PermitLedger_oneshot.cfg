SPECIFICATION Spec
CONSTANTS
    p1 = p1
    p2 = p2
    p3 = p3
    c1 = c1
    c2 = c2
    t1 = t1
    t2 = t2
    Pipeline = {p1, p2, p3}
    Candidate = {c1, c2}
    Token = {t1}
    CandidateOf <- TwoForOneToken
    TokenOf <- OneToken
    NoPipeline = NoPipeline
    NoPermit = NoPermit
    MaxUnresolved = 2
    MaxActive = 1
    Ttl = 1
    Keep = 2
    MaxTime = 2
INVARIANTS AuthorityCommitted PostAuthorised
PROPERTIES SubmitsAsPromised

CHECK_DEADLOCK FALSE
