\* Two requests at a time of any kind, two documents, up to two publications
\* flushed and committed in different orders.
SPECIFICATION Spec
CONSTANTS
    NoTenant = NoTenant
    NoDocument = NoDocument
    Requests = {r1, r2}
    Kinds <- MCKinds
    DocIds = {d1, d2}
    Environments = {"dev"}
    Tenants = {}
    Owners <- MCOwners
    DefinitionsOf <- MCDefinitionsOf
    HasError <- MCHasError
    Raises <- MCRaises
    MaxPublications = 2
SYMMETRY Symmetry
INVARIANTS HashValidated NewestServes
