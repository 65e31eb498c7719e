\* Four events of one user, any of which may be late, missed or decided while
\* others are under way.
SPECIFICATION Spec
CONSTANTS
    topic = topic
    customer = customer
    openDocument = openDocument
    createDeal = createDeal
    searchCustomers = searchCustomers
    read = read
    write = write
    Events = {e1, e2, e3, e4}
    Tenants = {acme}
    Sessions = {s1, s2}
    NoSession = NoSession
    Sources = {read, write}
    Apis = {openDocument, createDeal}
    Entry <- EntryOf
    Days = {0, 2, 5}
    Window = 3
    HalfLife = 2
    Scale = 100
    Full = 4
    Weights <- WeightsOfPolicy
    Persist = 55
    BurstRatio = 80
    BurstPenalty = 25
    NoEvent = NoEvent
    NoCounter = NoCounter
SYMMETRY Symmetry
INVARIANTS CountersCount
PROPERTIES OneOffsWait RepeatedInterestPersists
CHECK_DEADLOCK FALSE
