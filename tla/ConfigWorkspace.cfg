\* One operator, two handlers at a time, a document of each kind or none; the
\* page stops when the bound on presses is reached and the error card stands.
SPECIFICATION Spec
CONSTANTS
    Kind = "api-ontology"
    Families = {1, 2}
    Texts = {"a", "b"}
    Invalid = {"b"}
    Role = "admin"
    Handlers = {1, 2}
    MaxPresses = 2
    StartDocs <- MCStartDocs
INVARIANTS RequestsOneFamily ValidatesTheSaved LoadingAwaited
PROPERTIES UnsavedAskedAbout
CHECK_DEADLOCK FALSE
