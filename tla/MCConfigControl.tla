--------------------------- MODULE MCConfigControl ---------------------------
(***************************************************************************)
(* Instances of ConfigControl for TLC.  In the lifecycle instance all      *)
(* three kinds exist: api2 refers to a memory type that only mem2 defines, *)
(* and badpolicy does not parse.  The scope instances ask who is served    *)
(* which publication, so a document of one kind stands for a whole bundle. *)
(***************************************************************************)
EXTENDS ConfigControl, TLC

CONSTANTS t1, t2   \* tenants

MCKinds == {"api_ontology", "memory_ontology", "policy_profile"}
MCDefinitionsOf == [api_ontology    |-> {"api1", "api2"},
                    memory_ontology |-> {"mem1", "mem2"},
                    policy_profile  |-> {"policy", "badpolicy"}]
Given(defs, k) == IF k \in DOMAIN defs THEN defs[k] ELSE "absent"

MCHasError(k, defs) ==
    \/ k = "api_ontology" /\ defs[k] = "api2" /\ Given(defs, "memory_ontology") = "mem1"
    \/ k = "policy_profile" /\ defs[k] = "badpolicy"

MCRaises(defs) == /\ Given(defs, "policy_profile") = "badpolicy"
                  /\ DOMAIN defs # {"policy_profile"}

GlobalOwner == [scope |-> "global", tenant |-> NoTenant]
MCGlobalOnly == {GlobalOwner}
MCScopes == {GlobalOwner, [scope |-> "tenant", tenant |-> t1],
             [scope |-> "emergency_override", tenant |-> t2]}

MCOneKind == {"bundle"}
MCOneKindDefinitions == [bundle |-> {"v1", "v2"}]
MCNeverError(k, defs) == FALSE
MCNeverRaises(defs) == FALSE

DocSymmetry == Permutations(DocIds)
=============================================================================
