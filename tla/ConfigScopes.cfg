\* Documents of one kind under a global scope, a tenant override and an
\* emergency override: who is served what.
SPECIFICATION Spec
CONSTANTS
    t1 = t1
    t2 = t2
    NoTenant = NoTenant
    NoDocument = NoDocument
    Kinds <- MCOneKind
    DocIds = {d1, d2, d3}
    Environments = {"dev"}
    Tenants = {t1, t2}
    Owners <- MCScopes
    DefinitionsOf <- MCOneKindDefinitions
    HasError <- MCNeverError
    Raises <- MCNeverRaises
    MaxPublications = 3
SYMMETRY DocSymmetry
PROPERTIES OverrideIsolation NeverDark
