---------------------------- MODULE ConfigControl ----------------------------
(***************************************************************************)
(* The control plane with every request handled alone, one after another:  *)
(* each action is one whole handler of control/service.py, commits         *)
(* included.  ConfigRequests takes the handlers apart and interleaves      *)
(* them.                                                                   *)
(***************************************************************************)
EXTENDS ConfigStore

vars == <<docs, pubs>>

TypeOK == /\ docs \in [DocIds -> Document \cup {NoDocument}]
          /\ pubs \in Seq(Publication)

Init == /\ docs = [d \in DocIds |-> NoDocument]
        /\ pubs = <<>>

(* save_document without an id.                                            *)
CreateDocument(d, kind, owner, defn) ==
    /\ docs[d] = NoDocument
    /\ docs' = [docs EXCEPT ![d] = Draft(kind, owner, defn)]
    /\ UNCHANGED pubs

(* Slip: only an archived or approved document is protected.               *)
EditPublishedDocument(d, defn) ==
    /\ docs[d].status \notin {"archived", "approved"}
    /\ docs' = [docs EXCEPT ![d].defn = defn]
    /\ UNCHANGED pubs

(* save_document on a draft or validated document: edited in place, and an *)
(* earlier approval is cleared.                                            *)
EditDocument(d, defn) ==
    /\ docs[d].status \notin {"archived", "approved", "published"}
    /\ docs' = [docs EXCEPT ![d] = [@ EXCEPT !.defn = defn, !.status = "draft",
                                             !.approved = FALSE]]
    /\ UNCHANGED pubs

(* save_document on an approved or published document: a new draft of the  *)
(* same kind and owner under a fresh id; the original is left alone.       *)
ReviseDocument(d, fresh, defn) ==
    /\ docs[d].status \in {"approved", "published"}
    /\ docs[fresh] = NoDocument
    /\ docs' = [docs EXCEPT ![fresh] = Draft(docs[d].kind, docs[d].owner, defn)]
    /\ UNCHANGED pubs

ValidateDocuments(sel, env, tenant) ==
    LET bundle == IF DOMAIN sel = Kinds THEN sel
                  ELSE Completed(sel, ResolveSnapshot(env, tenant))
    IN  /\ ~Raises(DefsOf(bundle))
        /\ docs' = Revalidated(bundle)
        /\ UNCHANGED pubs

ApproveDocument(d) ==
    /\ docs[d].status = "validated"
    /\ docs' = [docs EXCEPT ![d] = [@ EXCEPT !.status = "approved", !.approved = TRUE]]
    /\ UNCHANGED pubs

Referenced(d) == \E i \in DOMAIN pubs : /\ pubs[i].active
                                        /\ \E k \in Kinds : pubs[i].bundle[k] = d

ArchiveDocument(d) ==
    /\ docs[d].status # "archived"
    /\ ~Referenced(d)
    /\ docs' = [docs EXCEPT ![d] = [@ EXCEPT !.status = "archived"]]
    /\ UNCHANGED pubs

(* What publish_documents checks before it validates: one document of each *)
(* kind, all of the published scope and tenant, all approved or published. *)
PublishBundle(sel, env, owner) == Completed(sel, GetActive(env, owner.scope, owner.tenant))

(* Slip: a document that validates needs no approval.                      *)
MayPublishValidated(bundle, owner) ==
    /\ DOMAIN bundle = Kinds
    /\ \A k \in Kinds : /\ docs[bundle[k]].owner = owner
                        /\ docs[bundle[k]].status \in {"validated", "approved", "published"}

MayPublish(bundle, owner) ==
    /\ DOMAIN bundle = Kinds
    /\ \A k \in Kinds : /\ docs[bundle[k]].owner = owner
                        /\ docs[bundle[k]].status \in {"approved", "published"}

(* Validation fails: the publication is refused, but validate_documents    *)
(* has committed its status writes.                                        *)
PublishRejected(sel, env, owner) ==
    LET bundle == PublishBundle(sel, env, owner)
    IN  /\ MayPublish(bundle, owner)
        /\ ~Raises(DefsOf(bundle))
        /\ ValidationFails(DefsOf(bundle))
        /\ docs' = Revalidated(bundle)
        /\ UNCHANGED pubs

(* Slip: the validation result is not looked at.                           *)
PublishUnvalidated(sel, env, owner) ==
    LET bundle == PublishBundle(sel, env, owner)
    IN  /\ Len(pubs) < MaxPublications
        /\ MayPublish(bundle, owner)
        /\ pubs' = Activated(GetActive(env, owner.scope, owner.tenant),
                             [env |-> env, owner |-> owner, bundle |-> bundle,
                              hash |-> DefsOf(bundle), active |-> TRUE])
        /\ docs' = [d \in DocIds |->
                      IF \E k \in Kinds : bundle[k] = d
                      THEN [docs[d] EXCEPT !.status = "published"] ELSE docs[d]]

PublishDocuments(sel, env, owner) ==
    LET bundle == PublishBundle(sel, env, owner)
        snapshot == [env |-> env, owner |-> owner, bundle |-> bundle,
                     hash |-> DefsOf(bundle), active |-> TRUE]
    IN  /\ Len(pubs) < MaxPublications
        /\ MayPublish(bundle, owner)
        /\ ~Raises(DefsOf(bundle))
        /\ ~ValidationFails(DefsOf(bundle))
        /\ pubs' = Activated(GetActive(env, owner.scope, owner.tenant), snapshot)
        /\ docs' = [d \in DocIds |->
                      IF \E k \in Kinds : bundle[k] = d
                      THEN [docs[d] EXCEPT !.status = "published"] ELSE docs[d]]

(* Slips: the publication in force is not deactivated; the restored one is *)
(* not activated.                                                          *)
RollbackBeside(t) ==
    /\ Len(pubs) < MaxPublications
    /\ pubs' = Append(pubs, [pubs[t] EXCEPT !.active = TRUE])
    /\ UNCHANGED docs

RollbackInactive(t) ==
    /\ Len(pubs) < MaxPublications
    /\ pubs' = Activated(GetActive(pubs[t].env, pubs[t].owner.scope, pubs[t].owner.tenant),
                         pubs[t])
    /\ UNCHANGED docs

(* rollback_publication: the target's bundle and hash become active again  *)
(* under a new publication.  The status of the documents is not consulted. *)
RollbackPublication(t) ==
    LET target == pubs[t]
    IN  /\ Len(pubs) < MaxPublications
        /\ pubs' = Activated(GetActive(target.env, target.owner.scope, target.owner.tenant),
                             [target EXCEPT !.active = TRUE])
        /\ UNCHANGED docs

Next ==
    \/ \E d \in DocIds, k \in Kinds, owner \in Owners :
          \E defn \in DefinitionsOf[k] : CreateDocument(d, k, owner, defn)
    \/ \E d \in Rows : \/ \E defn \in DefinitionsOf[docs[d].kind] :
                             \/ EditDocument(d, defn)
                             \/ \E fresh \in DocIds : ReviseDocument(d, fresh, defn)
                       \/ ApproveDocument(d)
                       \/ ArchiveDocument(d)
    \/ \E sel \in Selections, env \in Environments :
          \/ \E tenant \in Tenants \cup {NoTenant} : ValidateDocuments(sel, env, tenant)
          \/ \E owner \in Owners : \/ PublishRejected(sel, env, owner)
                                   \/ PublishDocuments(sel, env, owner)
    \/ \E t \in DOMAIN pubs : RollbackPublication(t)

Spec == Init /\ [][Next]_vars
-----------------------------------------------------------------------------
(* At most one publication is active in a slot (environment, scope and     *)
(* tenant), whatever sequence of publishes and rollbacks led here: the     *)
(* snapshot that resolve_snapshot picks is never a matter of timestamps.   *)
OneActivePerSlot ==
    \A i, j \in DOMAIN pubs :
        pubs[i].active /\ pubs[j].active /\ pubs[i].env = pubs[j].env
            /\ pubs[i].owner = pubs[j].owner => i = j

(* Every publication, active or not, still denotes what was published: its *)
(* documents have the content its snapshot_hash was computed from, so a    *)
(* rollback restores exactly the earlier behaviour.                        *)
SnapshotIntact ==
    \A i \in DOMAIN pubs : DefsOf(pubs[i].bundle) = pubs[i].hash

(* Content that is served has been approved since it was last edited, and  *)
(* validates as a whole: neither editing, re-validating nor rolling back   *)
(* lets other content into a publication.                                  *)
PublishedApprovedAndValid ==
    \A i \in DOMAIN pubs :
        LET bundle == pubs[i].bundle
        IN  /\ ~ValidationFails(DefsOf(bundle))
            /\ \A k \in Kinds : docs[bundle[k]].approved

(* A publication binds documents of its own scope and tenant only, one of  *)
(* each kind, and they are out of reach of in-place edits.                 *)
PublishedFrozen ==
    \A i \in DOMAIN pubs, k \in Kinds :
        LET d == pubs[i].bundle[k]
        IN  /\ d \in Rows
            /\ docs[d].kind = k
            /\ docs[d].owner = pubs[i].owner
            /\ docs[d].status \in {"published", "archived"}

(* The content tenant t is served in env (or <<>> when nothing is active). *)
Served(env, t) == LET p == ResolveSnapshot(env, t)
                  IN  IF p = 0 THEN <<>> ELSE DefsOf(pubs[p].bundle)

(* What one tenant is served only changes by a publication in the shared   *)
(* scopes or in that tenant's own: an override for one tenant leaves every *)
(* other tenant alone (resolve_snapshot).                                  *)
OverrideIsolation ==
    [][\A env \in Environments, t \in Tenants :
          Served(env, t)' # Served(env, t) =>
              /\ Len(pubs') = Len(pubs) + 1
              /\ pubs'[Len(pubs')].env = env
              /\ pubs'[Len(pubs')].owner.tenant \in {t, NoTenant}]_vars

(* Once a tenant has a configuration it is never left without one.         *)
NeverDark ==
    [][\A env \in Environments, t \in Tenants :
          ResolveSnapshot(env, t) # 0 => ResolveSnapshot(env, t)' # 0]_vars

(* The control plane implements the snapshot registry: a slot serves the   *)
(* present content of its active publication's documents.                  *)
Slots == Environments \X Owners
InSlot(s) == {i \in DOMAIN pubs : <<pubs[i].env, pubs[i].owner>> = s}
Serving(s) == LET p == GetActive(s[1], s[2].scope, s[2].tenant)
              IN  IF p = 0 THEN NoDocument ELSE DefsOf(pubs[p].bundle)

Registry == INSTANCE SnapshotRegistry WITH
    Publishable <- ValidContents,
    NoSnapshot  <- NoDocument,
    serving     <- [s \in Slots |-> Serving(s)],
    released    <- [s \in Slots |-> {pubs[i].hash : i \in InSlot(s)}]

(* Every handler is a step of the registry or leaves it unchanged: drafts, *)
(* validation, approval and archiving are invisible to the runtime, and a  *)
(* rollback serves exactly what was published before.                      *)
ImplementsRegistry == Registry!Spec

(* The refusal of archive_document, "Active snapshot documents cannot be   *)
(* archived": an active publication has no archived document.              *)
ActiveNotArchived ==
    \A i \in DOMAIN pubs, k \in Kinds :
        pubs[i].active => docs[pubs[i].bundle[k]].status # "archived"

(* "Tenant overrides affect only the targeted tenant": a request that      *)
(* names no tenant (validate, simulate) is not resolved to a tenant's      *)
(* override.                                                               *)
UntargetedUnaffected ==
    \A env \in Environments :
        LET p == ResolveSnapshot(env, NoTenant)
        IN  p # 0 => pubs[p].owner.tenant = NoTenant
=============================================================================
