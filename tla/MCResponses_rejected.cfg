\* Two administrators: an approval and a rejection of one row.
SPECIFICATION PartSpec
CONSTANTS
    NoFile = NoFile
    a1 = a1
    a2 = a2
    w1 = w1
    w1b = w1b
    w2 = w2
    q2 = q2
    r1 = r1
    r2 = r2
    n1 = n1
    n2 = n2
    p1 = p1
    p2 = p2
    f1 = f1
    f2 = f2
    s0 = s0
    s1 = s1
    s2 = s2
    Parts = {"approve"}
    Alerts = {a1, a2}
    Actions = {w1, w1b, w2, q2}
    About <- MCAbout
    TypeOf <- MCTypeOf
    Suggesting = {a1, a2}
    Quarantinable = {a2}
    BackendRules = {a1}
    Offerable = {a1, a2}
    AutoSend = {a1}
    Requests = {r1, r2}
    Runs = {n1, n2}
    Polls = {p1, p2}
    TakeOffer = 2
    TakeDue = 1
    MayAge = {a2}
    MaxFaults = 0
    Files = {f1, f2}
    Names = {s0, s1, s2}
    PathsOf <- BothFiles
    Candidates <- SameBaseName
INVARIANTS
    RejectedNeverFires
