---------------------------- MODULE ConfigRequests ---------------------------
(***************************************************************************)
(* The control plane with concurrent requests.  Every API request runs in  *)
(* a thread with a session of its own (PostgreSQL, READ COMMITTED, nothing *)
(* selected FOR UPDATE): it loads rows, computes on the copies and writes  *)
(* back the columns it changed.  The sessions neither autoflush nor expire      *)
(* their objects on commit (db/session.py), so after the commit inside     *)
(* validate_documents a publish goes on with the copies it loaded first.   *)
(*                                                                         *)
(* Each request is split at its commits and between its reads and the      *)
(* commit they lead to; session[r] is what request r holds meanwhile.      *)
(* Where the order of publications is at stake the last commit is split    *)
(* once more: its flush stamps published_at and locks the rows it updates, *)
(* and another request's write to those waits.                             *)
(***************************************************************************)
EXTENDS ConfigStore

CONSTANT Requests    \* threads of the API service

VARIABLES
    session,
    unseen      \* the rows of pubs flushed but not committed, or rolled back

vars == <<docs, pubs, session, unseen>>

Idle == [at |-> "idle"]

Held == [Kinds -> Document]      \* copies of a bundle's documents, by kind

Sessions ==
    {Idle}
    \cup [at : {"edit"}, doc : DocIds, copy : Document, defn : Definitions]
    \cup [at : {"approve", "archive"}, doc : DocIds]
    \cup [at : {"validate"}, bundle : UNION {[K -> DocIds] : K \in SUBSET Kinds},
          copy : UNION {[K -> Document] : K \in SUBSET Kinds}]
    \cup [at : {"publish", "publishValidated"}, env : Environments, owner : Owners,
          bundle : Bundle, copy : Held]
    \cup [at : {"publishActivate"}, env : Environments, owner : Owners,
          bundle : Bundle, copy : Held, prior : 0..MaxPublications]
    \cup [at : {"rollback"}, target : 1..MaxPublications, prior : 0..MaxPublications]
    \cup [at : {"flushed"}, row : 1..MaxPublications, prior : 0..MaxPublications,
          publishes : SUBSET DocIds]

TypeOK == /\ docs \in [DocIds -> Document \cup {NoDocument}]
          /\ pubs \in Seq(Publication)
          /\ session \in [Requests -> Sessions]
          /\ unseen \subseteq {i \in DOMAIN pubs : ~pubs[i].active}

Init == /\ docs = [d \in DocIds |-> NoDocument]
        /\ pubs = <<>>
        /\ session = [r \in Requests |-> Idle]
        /\ unseen = {}

Seen == DOMAIN pubs \ unseen

Enter(r, held) == /\ session[r] = Idle
                  /\ session' = [session EXCEPT ![r] = held]
                  /\ UNCHANGED <<docs, pubs, unseen>>

Leave(r) == session' = [session EXCEPT ![r] = Idle]

(* The rows that a flushed session has updated: another write to them      *)
(* waits for its commit.                                                   *)
LockedDocs(s) == IF s.at = "flushed" THEN s.publishes ELSE {}
LockedPubs(s) == IF s.at = "flushed" THEN {s.prior} \ {0} ELSE {}

RespectsLocks(r) ==
    \A q \in Requests \ {r} :
        /\ \A d \in LockedDocs(session[q]) : docs'[d] = docs[d]
        /\ LockedDocs(session[q]) \cap LockedDocs(session'[r]) = {}
        /\ LockedPubs(session[q]) \cap LockedPubs(session'[r]) = {}

Copies(bundle) == [k \in DOMAIN bundle |-> docs[bundle[k]]]
DefsIn(copy) == [k \in DOMAIN copy |-> copy[k].defn]
-----------------------------------------------------------------------------
(* save_document without an id: nothing is read that a commit relies on.   *)
Create(r, d, kind, owner, defn) ==
    /\ session[r] = Idle
    /\ docs[d] = NoDocument
    /\ docs' = [docs EXCEPT ![d] = Draft(kind, owner, defn)]
    /\ UNCHANGED <<pubs, session, unseen>>

BeginEdit(r, d, defn) ==
    /\ docs[d].status # "archived"
    /\ Enter(r, [at |-> "edit", doc |-> d, copy |-> docs[d], defn |-> defn])

(* An approved or published copy leads to a new revision; any other is     *)
(* edited in place.  The UPDATE sets only the columns whose value differs  *)
(* from the copy: a status that already was draft is not written.          *)
CommitRevision(r, fresh) ==
    LET s == session[r]
    IN  /\ s.at = "edit"
        /\ s.copy.status \in {"approved", "published"}
        /\ docs[fresh] = NoDocument
        /\ docs' = [docs EXCEPT ![fresh] = Draft(s.copy.kind, s.copy.owner, s.defn)]
        /\ Leave(r)
        /\ UNCHANGED <<pubs, unseen>>

CommitEdit(r) ==
    LET s == session[r]
        now == docs[s.doc]
    IN  /\ s.at = "edit"
        /\ s.copy.status \in {"draft", "validated"}
        /\ docs' = [docs EXCEPT ![s.doc] =
                      [now EXCEPT !.defn = IF s.copy.defn # s.defn THEN s.defn ELSE now.defn,
                                  !.status = IF s.copy.status # "draft" THEN "draft" ELSE now.status,
                                  !.approved = IF s.copy.approved THEN FALSE ELSE now.approved]]
        /\ Leave(r)
        /\ UNCHANGED <<pubs, unseen>>
        /\ RespectsLocks(r)

BeginApprove(r, d) == /\ docs[d].status = "validated"
                      /\ Enter(r, [at |-> "approve", doc |-> d])

CommitApprove(r) ==
    /\ session[r].at = "approve"
    /\ docs' = [docs EXCEPT ![session[r].doc] =
                  [@ EXCEPT !.status = "approved", !.approved = TRUE]]
    /\ Leave(r)
    /\ UNCHANGED <<pubs, unseen>>
    /\ RespectsLocks(r)

(* The status and the references of the document are read before the       *)
(* commit, not locked.                                                     *)
BeginArchive(r, d) ==
    /\ docs[d].status # "archived"
    /\ ~\E i \in DOMAIN pubs, k \in Kinds : pubs[i].active /\ pubs[i].bundle[k] = d
    /\ Enter(r, [at |-> "archive", doc |-> d])

CommitArchive(r) ==
    /\ session[r].at = "archive"
    /\ docs' = [docs EXCEPT ![session[r].doc].status = "archived"]
    /\ Leave(r)
    /\ UNCHANGED <<pubs, unseen>>
    /\ RespectsLocks(r)

BeginValidate(r, sel, env, tenant) ==
    LET bundle == IF DOMAIN sel = Kinds THEN sel
                  ELSE Completed(sel, ResolveSnapshot(env, tenant))
    IN  /\ bundle # <<>>
        /\ ~Raises(DefsOf(bundle))
        /\ Enter(r, [at |-> "validate", bundle |-> bundle, copy |-> Copies(bundle)])

(* The status is written for the copies without an error that were neither *)
(* published nor archived, nor validated already.                          *)
ValidatedFrom(bundle, copy) ==
    [d \in DocIds |->
        IF \E k \in DOMAIN bundle : /\ bundle[k] = d
                                    /\ copy[k].status \in {"draft", "approved"}
                                    /\ ~HasError(k, DefsIn(copy))
        THEN [docs[d] EXCEPT !.status = "validated"]
        ELSE docs[d]]

CommitValidate(r) ==
    /\ session[r].at = "validate"
    /\ docs' = ValidatedFrom(session[r].bundle, session[r].copy)
    /\ Leave(r)
    /\ UNCHANGED <<pubs, unseen>>
    /\ RespectsLocks(r)

(* publish_documents: load and check; commit the validation; look up the   *)
(* publication in force; activate the new one.                             *)
BeginPublish(r, sel, env, owner) ==
    LET bundle == Completed(sel, GetActive(env, owner.scope, owner.tenant))
    IN  /\ Len(pubs) < MaxPublications
        /\ DOMAIN bundle = Kinds
        /\ \A k \in Kinds : /\ docs[bundle[k]].owner = owner
                            /\ docs[bundle[k]].status \in {"approved", "published"}
        /\ ~Raises(DefsOf(bundle))
        /\ Enter(r, [at |-> "publish", env |-> env, owner |-> owner,
                     bundle |-> bundle, copy |-> Copies(bundle)])

CommitPublishValidation(r) ==
    LET s == session[r]
    IN  /\ s.at = "publish"
        /\ docs' = ValidatedFrom(s.bundle, s.copy)
        /\ IF ValidationFails(DefsIn(s.copy)) THEN Leave(r)
           ELSE session' = [session EXCEPT ![r].at = "publishValidated"]
        /\ UNCHANGED <<pubs, unseen>>
        /\ RespectsLocks(r)

QueryPriorActive(r) ==
    LET s == session[r]
    IN  /\ s.at = "publishValidated"
        /\ session' = [session EXCEPT ![r] =
              [at |-> "publishActivate", env |-> s.env, owner |-> s.owner,
               bundle |-> s.bundle, copy |-> s.copy,
               prior |-> GetActive(s.env, s.owner.scope, s.owner.tenant)]]
        /\ UNCHANGED <<docs, pubs, unseen>>

(* The flush of the last commit: the row is stamped, but nobody sees it.   *)
Insert(r, publication, prior, publishes) ==
    /\ Len(pubs) < MaxPublications
    /\ pubs' = Append(pubs, [publication EXCEPT !.active = FALSE])
    /\ unseen' = unseen \cup {Len(pubs) + 1}
    /\ session' = [session EXCEPT ![r] = [at |-> "flushed", row |-> Len(pubs) + 1,
                                           prior |-> prior, publishes |-> publishes]]
    /\ UNCHANGED docs
    /\ RespectsLocks(r)

(* A copy that was published already is not written.                       *)
Publishes(s) == {s.bundle[k] : k \in {l \in Kinds : s.copy[l].status # "published"}}

(* Slip: the hash is computed from rows read anew, as it would be if the   *)
(* session expired its objects on commit.                                  *)
FlushPublishRefreshed(r) ==
    LET s == session[r]
    IN  /\ s.at = "publishActivate"
        /\ Insert(r, [env |-> s.env, owner |-> s.owner, bundle |-> s.bundle,
                      hash |-> DefsOf(s.bundle), active |-> TRUE],
                  s.prior, Publishes(s))

(* The hash is computed from the copies.                                   *)
FlushPublish(r) ==
    LET s == session[r]
    IN  /\ s.at = "publishActivate"
        /\ Insert(r, [env |-> s.env, owner |-> s.owner, bundle |-> s.bundle,
                      hash |-> DefsIn(s.copy), active |-> TRUE],
                  s.prior, Publishes(s))

BeginRollback(r, t) ==
    /\ Len(pubs) < MaxPublications
    /\ Enter(r, [at |-> "rollback", target |-> t,
                 prior |-> GetActive(pubs[t].env, pubs[t].owner.scope, pubs[t].owner.tenant)])

FlushRollback(r) ==
    /\ session[r].at = "rollback"
    /\ Insert(r, pubs[session[r].target], session[r].prior, {})

(* Slip: whatever is active at the commit is deactivated.                  *)
CommitActivationSweeping(r) ==
    LET s == session[r]
    IN  /\ s.at = "flushed"
        /\ pubs' = [i \in DOMAIN pubs |-> [pubs[i] EXCEPT !.active = i = s.row]]
        /\ unseen' = unseen \ {s.row}
        /\ docs' = [d \in DocIds |->
                      IF d \in s.publishes THEN [docs[d] EXCEPT !.status = "published"] ELSE docs[d]]
        /\ Leave(r)

(* The row and the updates flushed with it become visible together.        *)
CommitActivation(r) ==
    LET s == session[r]
    IN  /\ s.at = "flushed"
        /\ pubs' = [i \in DOMAIN pubs |->
                      [pubs[i] EXCEPT !.active = i = s.row \/ (@ /\ i # s.prior)]]
        /\ unseen' = unseen \ {s.row}
        /\ docs' = [d \in DocIds |->
                      IF d \in s.publishes THEN [docs[d] EXCEPT !.status = "published"] ELSE docs[d]]
        /\ Leave(r)

(* The process is killed or the connection lost: what was not committed is *)
(* gone.                                                                   *)
Abort(r) == /\ session[r] # Idle
            /\ Leave(r)
            /\ UNCHANGED <<docs, pubs, unseen>>

Next ==
    \E r \in Requests :
        \/ \E d \in DocIds, k \in Kinds, owner \in Owners :
              \E defn \in DefinitionsOf[k] : Create(r, d, k, owner, defn)
        \/ \E d \in Rows : \/ \E defn \in DefinitionsOf[docs[d].kind] : BeginEdit(r, d, defn)
                           \/ BeginApprove(r, d)
                           \/ BeginArchive(r, d)
        \/ \E sel \in Selections, env \in Environments :
              \/ \E tenant \in Tenants \cup {NoTenant} : BeginValidate(r, sel, env, tenant)
              \/ \E owner \in Owners : BeginPublish(r, sel, env, owner)
        \/ \E t \in Seen : BeginRollback(r, t)
        \/ \E fresh \in DocIds : CommitRevision(r, fresh)
        \/ CommitEdit(r) \/ CommitApprove(r) \/ CommitArchive(r) \/ CommitValidate(r)
        \/ CommitPublishValidation(r) \/ QueryPriorActive(r) \/ FlushPublish(r)
        \/ FlushRollback(r) \/ CommitActivation(r)
        \/ Abort(r)

Spec == Init /\ [][Next]_vars
-----------------------------------------------------------------------------
SameSlot(i, j) == pubs[i].env = pubs[j].env /\ pubs[i].owner = pubs[j].owner

(* However publishes and rollbacks overlap, whichever commits first: the   *)
(* publication with the latest published_at is active: resolve_snapshot    *)
(* returns it, and no slot goes dark.                                      *)
NewestServes ==
    \A i \in Seen : (\A j \in Seen : SameSlot(i, j) => j <= i) => pubs[i].active

(* The hash of every publication is of content that passed validation as   *)
(* one bundle, whatever was edited meanwhile: validation and hash read the *)
(* same copies.                                                            *)
HashValidated == \A i \in Seen : pubs[i].hash \in ValidContents

(* spec 7.3, "published documents must be immutable".                      *)
PublishedImmutable ==
    [][\A d \in Rows : docs[d].status = "published" => docs'[d].defn = docs[d].defn]_vars

(* The refusal of save_document, "Archived documents are immutable".       *)
ArchivedImmutable ==
    [][\A d \in Rows : docs[d].status = "archived" => docs'[d] = docs[d]]_vars

(* Acceptance criterion 3, "Invalid documents cannot be published".        *)
PublishedValid ==
    \A i \in Seen : DefsOf(pubs[i].bundle) \in ValidContents

(* The lifecycle test's assertion that one publication of a slot is active *)
(* after a rollback.                                                       *)
OneActivePerSlot ==
    \A i, j \in DOMAIN pubs : pubs[i].active /\ pubs[j].active /\ SameSlot(i, j) => i = j
=============================================================================
