----------------------------- MODULE ConfigStore -----------------------------
(***************************************************************************)
(* The control schema of MemoryEngine: configuration documents and the     *)
(* publications (config snapshots) that bind one document of each kind.    *)
(* This module holds the data and the queries of control/service.py; the   *)
(* modules that extend it add the request handlers.                        *)
(*                                                                         *)
(* A document's definition is an element of Definitions: nothing here      *)
(* looks inside it.  What validate_definition says about it is the         *)
(* parameter HasError, and Raises stands for the one way validation can    *)
(* end without a verdict (a policy definition that does not parse).        *)
(***************************************************************************)
EXTENDS Integers, FiniteSets, Sequences

CONSTANTS
    Kinds,          \* "api_ontology", "memory_ontology", "policy_profile"
    DocIds,         \* primary keys of config_documents (bounds their number)
    Environments,
    Tenants,
    NoTenant,       \* tenant_id IS NULL
    Owners,         \* the scopes (with their tenant) in use
    NoDocument,     \* an id no row has yet
    DefinitionsOf,  \* kind |-> the definitions a client may submit for it
    HasError(_, _), \* HasError(k, defs): an error issue on k, validated in defs
    Raises(_),      \* Raises(defs): validating defs raises instead
    MaxPublications \* bound on the rows of config_publications

Definitions == UNION {DefinitionsOf[k] : k \in Kinds}

(* The scope hierarchy: a tenant is given exactly for the last two scopes. *)
AllOwners == [scope : {"global", "environment"}, tenant : {NoTenant}]
               \cup [scope : {"emergency_override", "tenant"}, tenant : Tenants]

Status == {"draft", "validated", "approved", "published", "archived"}

Document == [kind : Kinds, owner : Owners, defn : Definitions,
             status : Status, approved : BOOLEAN]

(* A new row of save_document.                                             *)
Draft(kind, owner, defn) ==
    [kind |-> kind, owner |-> owner, defn |-> defn,
     status |-> "draft", approved |-> FALSE]

Bundle == [Kinds -> DocIds]

(* hash is the checksum of every bundled definition (collision free).      *)
Publication == [env : Environments, owner : Owners, bundle : Bundle,
                hash : [Kinds -> Definitions], active : BOOLEAN]

ASSUME StoreAssumptions ==
    /\ MaxPublications \in Nat
    /\ NoTenant \notin Tenants
    /\ Owners \subseteq AllOwners
    /\ NoDocument \notin Document
-----------------------------------------------------------------------------
VARIABLES
    docs,   \* table config_documents, by id
    pubs    \* table config_publications, oldest published_at first

Rows == {d \in DocIds : docs[d] # NoDocument}

(* Content of the documents that a (partial) bundle selects.               *)
DefsOf(bundle) == [k \in DOMAIN bundle |-> docs[bundle[k]].defn]

(* A request names at most one document per kind: a later id of the same   *)
(* kind replaces an earlier one in the handler's dict.                     *)
Selections == {sel \in UNION {[K -> Rows] : K \in SUBSET Kinds} :
                  \A k \in DOMAIN sel : docs[sel[k]].kind = k}

Latest(S) == IF S = {} THEN 0 ELSE CHOOSE i \in S : \A j \in S : j <= i

(* Slip: the tenant filter is forgotten.                                   *)
ActiveRowsOfAnyTenant(env, scope, tenant) ==
    {i \in DOMAIN pubs : pubs[i].active /\ pubs[i].env = env /\ pubs[i].owner.scope = scope}

(* The active rows of get_active_publication: the tenant filter is only    *)
(* added when a tenant is given.                                           *)
ActiveRows(env, scope, tenant) ==
    {i \in DOMAIN pubs : /\ pubs[i].active
                         /\ pubs[i].env = env
                         /\ pubs[i].owner.scope = scope
                         /\ tenant # NoTenant => pubs[i].owner.tenant = tenant}

GetActive(env, scope, tenant) == Latest(ActiveRows(env, scope, tenant))

(* resolve_snapshot: the first scope of the precedence list that has an    *)
(* active publication; 0 when none has.                                    *)
ResolveSnapshot(env, tenant) ==
    LET emergency == GetActive(env, "emergency_override", tenant)
        override  == GetActive(env, "tenant", tenant)
        shared    == GetActive(env, "environment", NoTenant)
    IN  CASE emergency # 0 -> emergency
          [] emergency = 0 /\ override # 0 -> override
          [] emergency = 0 /\ override = 0 /\ shared # 0 -> shared
          [] OTHER -> GetActive(env, "global", NoTenant)

(* Missing kinds are taken from publication p (setdefault), if there is    *)
(* one.                                                                    *)
Completed(sel, p) ==
    IF p = 0 THEN sel
    ELSE [k \in Kinds |-> IF k \in DOMAIN sel THEN sel[k] ELSE pubs[p].bundle[k]]

ValidationFails(defs) == \E k \in DOMAIN defs : HasError(k, defs)

(* Complete contents that pass validation.                                 *)
ValidContents == {defs \in [Kinds -> Definitions] :
                     ~Raises(defs) /\ ~ValidationFails(defs)}

(* The status writes of validate_documents: every document of the bundle   *)
(* without an error becomes validated, unless published or archived, and   *)
(* so does one that was approved.                                          *)
Revalidated(bundle) ==
    [d \in DocIds |->
        IF \E k \in DOMAIN bundle :
              /\ bundle[k] = d
              /\ docs[d].status \notin {"published", "archived"}
              /\ ~HasError(k, DefsOf(bundle))
        THEN [docs[d] EXCEPT !.status = "validated"]
        ELSE docs[d]]

(* Insert publication p as the active one, after clearing is_active on row *)
(* prior (0: there is none).                                               *)
Activated(prior, p) ==
    Append([i \in DOMAIN pubs |->
              IF i = prior THEN [pubs[i] EXCEPT !.active = FALSE] ELSE pubs[i]], p)
=============================================================================
