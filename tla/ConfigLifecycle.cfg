\* Documents of all three kinds in one slot: every path of the lifecycle.
SPECIFICATION Spec
CONSTANTS
    t1 = t1
    t2 = t2
    NoTenant = NoTenant
    NoDocument = NoDocument
    Kinds <- MCKinds
    DocIds = {d1, d2, d3, d4}
    Environments = {"dev"}
    Tenants = {}
    Owners <- MCGlobalOnly
    DefinitionsOf <- MCDefinitionsOf
    HasError <- MCHasError
    Raises <- MCRaises
    MaxPublications = 3
SYMMETRY DocSymmetry
INVARIANTS OneActivePerSlot SnapshotIntact PublishedApprovedAndValid
PROPERTIES ImplementsRegistry
