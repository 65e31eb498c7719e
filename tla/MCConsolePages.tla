--------------------------- MODULE MCConsolePages ---------------------------
(* A complete global family with a second revision of the API ontology,    *)
(* and a lone document of a tenant.  A bundle of the first revision was    *)
(* published twice and is active; so is one of the tenant.                 *)
EXTENDS ConsolePages

Document(kind, family, version) == [kind |-> kind, family |-> family, version |-> version]
MCDocuments == <<Document("api-ontology", "global", 2), Document("api-ontology", "global", 1),
                 Document("memory-ontology", "global", 1), Document("policy-profile", "global", 1),
                 Document("policy-profile", "tenant", 1)>>

Bundle(api, memory, policy) == [k \in Kinds |-> CASE k = "api-ontology" -> api
                                                   [] k = "memory-ontology" -> memory
                                                   [] k = "policy-profile" -> policy]
Publication(family, tenant, bundle, active) ==
    [family |-> family, tenant |-> tenant, bundle |-> bundle, active |-> active, rollbackOf |-> 0]
MCPublications == <<Publication("global", "all", Bundle(2, 3, 4), FALSE),
                    Publication("tenant", "t1", Bundle(2, 3, 5), TRUE),
                    Publication("global", "all", Bundle(2, 3, 4), TRUE)>>

Row(scope, tenant, status) == [scope |-> scope, tenant |-> tenant, status |-> status]
MCStartLog == {Row("tenant", "t1", "active"), Row("global", "all", "active"), Row("global", "t1", "blocked")}
MCLogRows == MCStartLog \cup {Row("global", "t1", "active")}
MCValues == [scope |-> {"", "global"}, tenant |-> {"", "all", "t1"}, status |-> {"", "active"}]
=============================================================================
