SPECIFICATION Spec
CONSTANTS
    d1 = d1
    r1 = r1
    s1 = s1
    a1 = a1
    p1 = p1
    p2 = p2
    u1 = u1
    u2 = u2
    Adapter = "sqlite"
    Definitions = {d1}
    Runs = {r1}
    Steps = {s1}
    Attempts = {a1}
    Approvals = {p1, p2}
    Parent <- AllParents
    Seeds = {{}, {d1, r1, s1, p1}}
    Uows = {u1, u2}
    MaxOps = 3
SYMMETRY Interchangeable
INVARIANT PendingIsReplaced
