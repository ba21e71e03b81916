CONSTANTS
    ka = ka
    kb = kb
    kc = kc
    kd = kd
    ke = ke
    kf = kf
    kg = kg
    Keys = {ka, kb, kc, kd, ke, kf, kg}
    d1 = d1
    d2 = d2
    Call <- StoreCalls
    Titles = {t1, bad}
    BadTitles = {bad}
    Places = {p}
    Notes = {n}
    Tags = {}
    Raw = {"hour"}
    Dates = {d1, d2}
    OffDates = {d2}
    NoVersion = NoVersion
SPECIFICATION StoreSpec
CHECK_DEADLOCK FALSE
INVARIANTS
    OneEventPerIdentity
    AppliedOnce
    ReceiptsAgree
    QueuesByOrigin
    ChangesExplainEvents
PROPERTY ImplementsCalendar
