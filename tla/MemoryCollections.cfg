\* Relations, scored interests, and a slot whose values have no entity; two
\* candidates in one decision.
SPECIFICATION Spec
CONSTANTS
    u1 = u1
    u2 = u2
    k1 = k1
    k2 = k2
    Absent = Absent
    Users = {u1}
    Keys = {k1, k2}
    Templates <- OneTemplate
    Ontology <- Collections
    Similar <- NoTypos
    Score <- TwoSources
    Decisions <- MixedDecisions
    ForgetRequests <- ForgetCollections
    MaxJobs = 3
INVARIANTS ForgottenStaysGone OnePerKey RelationsSound
CHECK_DEADLOCK FALSE
