\* Slots and workflow intents, two users, typos.
SPECIFICATION Spec
CONSTANTS
    u1 = u1
    u2 = u2
    k1 = k1
    k2 = k2
    Absent = Absent
    Users = {u1, u2}
    Keys = {k1, k2}
    Templates <- NoTemplates
    Ontology <- Slots
    Similar <- Typos
    Score <- Precedence
    Decisions <- SlotDecisions
    ForgetRequests <- ForgetSlots
    MaxJobs = 3
INVARIANTS OneActive SupersededHasHeir TraceableUnlessFailed
PROPERTIES NeverRevived StrongestSourceWins
CHECK_DEADLOCK FALSE
