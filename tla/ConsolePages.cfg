\* Each of the seven pages, two handlers at a time, answers in any order.
SPECIFICATION Spec
CONSTANTS
    Pages = {"validation", "simulation", "publications", "rollback", "decisions", "memories", "audits"}
    Documents <- MCDocuments
    Faulty = {4}
    StartPublications <- MCPublications
    StartLog <- MCStartLog
    LogRows <- MCLogRows
    Values <- MCValues
    Samples = {"docs.openDocument"}
    Role = "admin"
    Calls = {1, 2}
    MaxPublications = 2
INVARIANTS CurrentFollows  LoadingAwaited
