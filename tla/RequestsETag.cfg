CONSTANTS
    ra = ra
    rb = rb
    rc = rc
    rd = rd
    t1 = t1
    t2 = t2
    bad = bad
    p1 = p1
    p2 = p2
    n1 = n1
    n2 = n2
    g1 = g1
    d1 = d1
    d2 = d2
    Requests = {ra, rb, rc, rd}
    Batches = {}
    Keys <- ContestKeys
    Items <- ContestItems
    Call <- ContestCalls
    Input <- ContestInputs
    Executors = {x1}
    Titles = {t1, t2, bad}
    BadTitles = {bad}
    Places = {p1, p2}
    Notes = {n1, n2}
    Tags = {g1}
    Raw = {"hour", "tags"}
    Dates = {d1, d2}
    OffDates = {}
    NoVersion = NoVersion
    Keep = Keep
    Idle = Idle
SPECIFICATION Spec
CHECK_DEADLOCK FALSE
PROPERTY AnsweredVersionIsCurrent
