------------------------ MODULE ConfigRequestsProofs ------------------------
(***************************************************************************)
(* Proofs about overlapping requests to the control plane, for any number  *)
(* of requests, documents, kinds, scopes and publications, and whatever    *)
(* validation decides.                                                     *)
(*                                                                         *)
(* The argument: rows are never removed and a publication keeps its slot,  *)
(* bundle and hash (GrowsTo), so what a request read stays true enough for *)
(* the writes it leads to (Fit), whoever commits in between.               *)
(***************************************************************************)
EXTENDS ConfigRequests, WellFoundedInduction, TLAPS

(* What the queries of the control schema return.                          *)

(* A nonempty bounded set of numbers has a greatest element: the query     *)
(* ORDER BY published_at DESC LIMIT 1 returns a row when one matches.      *)
LEMMA LatestIsGreatest ==
    ASSUME NEW n \in Nat, NEW S, S \subseteq 1..n, S # {}
    PROVE  Latest(S) \in S /\ \A j \in S : j <= Latest(S)
<1> DEFINE T == {n - i : i \in S}
           less == OpToRel(<, Nat)
<1>1. T \subseteq Nat /\ T # {}
  <2>1. \A i \in S : n - i \in Nat
    OBVIOUS
  <2>2. PICK i \in S : TRUE
    OBVIOUS
  <2>3. QED BY <2>1, <2>2
<1>2. IsWellFoundedOn(less, Nat)
  BY NatLessThanWellFounded
<1>3. \E x \in T : \A y \in T : ~(<<y, x>> \in less)
  <2> HIDE DEF T, less
  <2>1. QED BY <1>1, <1>2, WFMin
<1>4. PICK x \in T : \A y \in T : ~(<<y, x>> \in less)
  BY <1>3
<1>5. \A y \in T : ~(y < x)
  BY <1>1, <1>4 DEF OpToRel
<1>6. PICK i \in S : x = n - i
  OBVIOUS
<1>7. \A j \in S : j <= i
  BY <1>5, <1>6
<1>8. QED BY <1>7 DEF Latest

(* The row that get_active_publication returns, if there is one.           *)
LEMMA GetActiveRow ==
    ASSUME pubs \in Seq(Publication), NEW env, NEW scope, NEW tenant
    PROVE  GetActive(env, scope, tenant) \in {0} \cup ActiveRows(env, scope, tenant)
<1>1. /\ Len(pubs) \in Nat
      /\ ActiveRows(env, scope, tenant) \subseteq 1..Len(pubs)
  BY DEF ActiveRows
<1>2. CASE ActiveRows(env, scope, tenant) = {}
  BY <1>2 DEF GetActive, Latest
<1>3. CASE ActiveRows(env, scope, tenant) # {}
  BY <1>1, <1>3, LatestIsGreatest DEF GetActive
<1>4. QED BY <1>2, <1>3

LEMMA ResolvedRow ==
    ASSUME pubs \in Seq(Publication), NEW env, NEW tenant
    PROVE  ResolveSnapshot(env, tenant) \in {0} \cup DOMAIN pubs
BY GetActiveRow DEF ResolveSnapshot, ActiveRows

(* A document's owner is determined by its scope and a non-null tenant, so *)
(* the query for a slot's active row finds that slot's row only.           *)
LEMMA ActiveRowsOfSlot ==
    ASSUME pubs \in Seq(Publication), NEW env \in Environments, NEW owner \in Owners,
           NEW i \in ActiveRows(env, owner.scope, owner.tenant)
    PROVE  pubs[i].owner = owner
<1>1. i \in DOMAIN pubs /\ pubs[i] \in Publication
  BY DEF ActiveRows
<1>2. pubs[i].owner \in AllOwners /\ owner \in AllOwners
  BY <1>1, StoreAssumptions DEF Publication
<1>3. /\ pubs[i].owner.scope = owner.scope
      /\ owner.tenant # NoTenant => pubs[i].owner.tenant = owner.tenant
  BY DEF ActiveRows
<1>4. QED BY <1>2, <1>3, StoreAssumptions DEF AllOwners
-----------------------------------------------------------------------------
RowsIn(store) == {d \in DocIds : store[d] # NoDocument}

Publishing == {"publish", "publishValidated", "publishActivate"}

(* The documents a request refers to exist.                                *)
Grounded(s, store) ==
    /\ s.at \in {"edit", "approve", "archive"} => s.doc \in RowsIn(store)
    /\ s.at \in Publishing \cup {"validate"} => \A k \in DOMAIN s.bundle : s.bundle[k] \in RowsIn(store)
    /\ s.at = "flushed" => s.publishes \subseteq RowsIn(store)

(* The copies a publish goes on with have passed what it has done so far.  *)
Checked(s) ==
    /\ s.at \in Publishing => ~Raises(DefsIn(s.copy))
    /\ s.at \in Publishing \ {"publish"} => ~ValidationFails(DefsIn(s.copy))

(* The row a request is about to replace is an older one of the same slot. *)
InSlot(table, i, env, owner) == i \in DOMAIN table /\ table[i].env = env /\ table[i].owner = owner
Aimed(s, table) ==
    /\ s.at = "publishActivate" => s.prior = 0 \/ InSlot(table, s.prior, s.env, s.owner)
    /\ s.at = "rollback" =>
         /\ s.target \in DOMAIN table
         /\ s.prior = 0 \/ InSlot(table, s.prior, table[s.target].env, table[s.target].owner)
    /\ s.at = "flushed" =>
         /\ s.row \in DOMAIN table
         /\ \/ s.prior = 0
            \/ s.prior < s.row /\ InSlot(table, s.prior, table[s.row].env, table[s.row].owner)

Fit(s, store, table) == s \in Sessions /\ Grounded(s, store) /\ Checked(s) /\ Aimed(s, table)

Sound(p, store) == /\ \A k \in Kinds : p.bundle[k] \in RowsIn(store)
                   /\ p.hash \in ValidContents

DocsOK == docs \in [DocIds -> Document \cup {NoDocument}]
PubsOK == /\ pubs \in Seq(Publication) /\ Len(pubs) <= MaxPublications
          /\ \A i \in DOMAIN pubs : Sound(pubs[i], docs)
          /\ unseen \subseteq {i \in DOMAIN pubs : ~pubs[i].active}
SessionsOK == /\ session = [r \in Requests |-> session[r]]
              /\ \A r \in Requests : Fit(session[r], docs, pubs)

IInv == DocsOK /\ PubsOK /\ SessionsOK /\ NewestServes

(* What every step does to the tables.                                     *)
GrowsTo(store, new, table, longer) ==
    /\ RowsIn(store) \subseteq RowsIn(new)
    /\ \A i \in DOMAIN table :
         /\ i \in DOMAIN longer
         /\ longer[i].env = table[i].env /\ longer[i].owner = table[i].owner
         /\ longer[i].bundle = table[i].bundle /\ longer[i].hash = table[i].hash
-----------------------------------------------------------------------------
LEMMA SessionKinds ==
  ASSUME NEW s \in Sessions
  PROVE  /\ s.at = "edit" => s.doc \in DocIds /\ s.copy \in Document /\ s.defn \in Definitions
         /\ s.at \in {"approve", "archive"} => s.doc \in DocIds
         /\ s.at \in Publishing => /\ s.env \in Environments /\ s.owner \in Owners
                                   /\ s.bundle \in Bundle /\ s.copy \in Held
         /\ s.at = "publishActivate" => s.prior \in 0..MaxPublications
         /\ s.at = "rollback" => s.target \in 1..MaxPublications /\ s.prior \in 0..MaxPublications
         /\ s.at = "flushed" => /\ s.row \in 1..MaxPublications /\ s.prior \in 0..MaxPublications
                                /\ s.publishes \subseteq DocIds
BY SMT DEF Sessions, Idle, Publishing

LEMMA IdleFits ==
  ASSUME NEW store, NEW table
  PROVE  Fit(Idle, store, table)
BY SMT DEF Fit, Sessions, Idle, Grounded, Checked, Aimed, Publishing

LEMMA FitStable ==
  ASSUME NEW s, NEW store, NEW table, NEW new, NEW longer,
         Fit(s, store, table), GrowsTo(store, new, table, longer)
  PROVE  Fit(s, new, longer)
<1>1. Grounded(s, new)
  BY DEF Fit, Grounded, GrowsTo
<1>2. Aimed(s, longer)
  BY DEF Fit, Aimed, InSlot, GrowsTo
<1> QED
  BY <1>1, <1>2 DEF Fit

LEMMA SoundStable ==
  ASSUME NEW p, NEW q, NEW store, NEW new, Sound(p, store), RowsIn(store) \subseteq RowsIn(new),
         q.bundle = p.bundle, q.hash = p.hash
  PROVE  Sound(q, new)
BY DEF Sound

LEMMA SessionsStep ==
  ASSUME SessionsOK, GrowsTo(docs, docs', pubs, pubs'),
         \/ session' = session
         \/ \E r \in Requests : \E s : session' = [session EXCEPT ![r] = s] /\ Fit(s, docs', pubs')
  PROVE  SessionsOK'
<1>1. \A r \in Requests : Fit(session[r], docs', pubs')
  BY FitStable DEF SessionsOK
<1>2. CASE session' = session
  BY <1>1, <1>2 DEF SessionsOK
<1>3. ASSUME NEW r \in Requests, NEW s, session' = [session EXCEPT ![r] = s], Fit(s, docs', pubs')
      PROVE  SessionsOK'
  <2>1. session' = [q \in Requests |-> session'[q]]
    BY <1>3 DEF SessionsOK
  <2>2. \A q \in Requests : session'[q] = IF q = r THEN s ELSE session[q]
    BY <1>3 DEF SessionsOK
  <2> QED
    BY <1>1, <1>3, <2>1, <2>2 DEF SessionsOK
<1> QED
  BY <1>2, <1>3

(* A step that does not touch the publications.                            *)
LEMMA DocumentStep ==
  ASSUME IInv, DocsOK', RowsIn(docs) \subseteq RowsIn(docs'), UNCHANGED <<pubs, unseen>>,
         \/ session' = session
         \/ \E r \in Requests : \E s : session' = [session EXCEPT ![r] = s] /\ Fit(s, docs', pubs)
  PROVE  IInv'
<1>1. GrowsTo(docs, docs', pubs, pubs')
  BY DEF GrowsTo
<1>2. SessionsOK'
  BY <1>1, SessionsStep DEF IInv
<1>3. PubsOK'
  BY SoundStable DEF IInv, PubsOK
<1>4. NewestServes'
  BY DEF IInv, NewestServes, Seen, SameSlot
<1> QED
  BY <1>2, <1>3, <1>4 DEF IInv

LEMMA EnterSteps ==
  ASSUME IInv, NEW r \in Requests, NEW s, Enter(r, s), Fit(s, docs, pubs)
  PROVE  IInv'
BY DocumentStep DEF Enter, IInv, DocsOK

LEMMA LeaveSteps ==
  ASSUME IInv, NEW r \in Requests, Leave(r), DocsOK', RowsIn(docs) \subseteq RowsIn(docs'),
         UNCHANGED <<pubs, unseen>>
  PROVE  IInv'
BY IdleFits, DocumentStep DEF Leave

LEMMA WriteDocument ==
  ASSUME DocsOK, NEW d \in DocIds, NEW doc \in Document, docs' = [docs EXCEPT ![d] = doc]
  PROVE  DocsOK' /\ RowsIn(docs) \subseteq RowsIn(docs')
<1>1. doc # NoDocument
  BY StoreAssumptions
<1> QED
  BY <1>1 DEF DocsOK, RowsIn
-----------------------------------------------------------------------------
(* Requests on one document.                                               *)
LEMMA DocumentRow ==
  ASSUME DocsOK, NEW d \in RowsIn(docs)
  PROVE  d \in DocIds /\ docs[d] \in Document /\ docs[d] # NoDocument
BY DEF DocsOK, RowsIn

LEMMA BeginDocumentSteps ==
  ASSUME IInv, NEW r \in Requests, NEW d \in Rows,
         \/ \E defn \in DefinitionsOf[docs[d].kind] : BeginEdit(r, d, defn)
         \/ BeginApprove(r, d)
         \/ BeginArchive(r, d)
  PROVE  IInv'
<1>1. /\ d \in RowsIn(docs) /\ d \in DocIds
      /\ docs[d] \in Document /\ docs[d].kind \in Kinds
  BY DocumentRow DEF IInv, Rows, RowsIn, Document
<1>2. ASSUME NEW defn \in DefinitionsOf[docs[d].kind], BeginEdit(r, d, defn)
      PROVE  IInv'
  <2> DEFINE s == [at |-> "edit", doc |-> d, copy |-> docs[d], defn |-> defn]
  <2>1. defn \in Definitions
    BY <1>1 DEF Definitions
  <2>2. Fit(s, docs, pubs)
    BY <1>1, <2>1 DEF Fit, Sessions, Grounded, Checked, Aimed, Publishing
  <2>3. Enter(r, s)
    BY <1>2 DEF BeginEdit
  <2> QED
    BY <2>2, <2>3, EnterSteps
<1>3. ASSUME NEW at \in {"approve", "archive"}, Enter(r, [at |-> at, doc |-> d])
      PROVE  IInv'
  <2>1. Fit([at |-> at, doc |-> d], docs, pubs)
    BY <1>1 DEF Fit, Sessions, Grounded, Checked, Aimed, Publishing
  <2> QED
    BY <1>3, <2>1, EnterSteps
<1> QED
  BY <1>2, <1>3 DEF BeginApprove, BeginArchive

LEMMA CreateSteps ==
  ASSUME IInv, NEW r \in Requests, NEW d \in DocIds, NEW kind \in Kinds, NEW owner \in Owners,
         NEW defn \in DefinitionsOf[kind], Create(r, d, kind, owner, defn)
  PROVE  IInv'
<1> DEFINE doc == Draft(kind, owner, defn)
<1>1. doc \in Document
  BY DEF Draft, Document, Status, Definitions
<1>2. docs' = [docs EXCEPT ![d] = doc] /\ UNCHANGED <<pubs, session, unseen>>
  BY DEF Create
<1> HIDE DEF doc
<1>3. DocsOK' /\ RowsIn(docs) \subseteq RowsIn(docs')
  BY <1>1, <1>2, WriteDocument DEF IInv
<1> QED
  BY <1>2, <1>3, DocumentStep

LEMMA CommitDocumentSteps ==
  ASSUME IInv, NEW r \in Requests,
         \/ \E fresh \in DocIds : CommitRevision(r, fresh)
         \/ CommitEdit(r) \/ CommitApprove(r) \/ CommitArchive(r)
  PROVE  IInv'
<1> DEFINE s == session[r]
<1>1. s \in Sessions /\ Grounded(s, docs) /\ DocsOK
  BY DEF IInv, SessionsOK, Fit
<1>2. ASSUME NEW d \in DocIds, NEW doc \in Document, docs' = [docs EXCEPT ![d] = doc],
             Leave(r), UNCHANGED <<pubs, unseen>>
      PROVE  IInv'
  BY <1>1, <1>2, WriteDocument, LeaveSteps
<1>3. ASSUME NEW fresh \in DocIds, CommitRevision(r, fresh)
      PROVE  IInv'
  <2> DEFINE doc == Draft(s.copy.kind, s.copy.owner, s.defn)
  <2>1. s.copy \in Document /\ s.defn \in Definitions
    BY <1>1, <1>3, SessionKinds DEF CommitRevision
  <2>2. doc \in Document
    BY <2>1 DEF Draft, Document, Status
  <2>3. docs' = [docs EXCEPT ![fresh] = doc] /\ Leave(r) /\ UNCHANGED <<pubs, unseen>>
    BY <1>3 DEF CommitRevision
  <2> HIDE DEF doc
  <2> QED
    BY <1>2, <2>2, <2>3
<1>4. s.at \in {"edit", "approve", "archive"} =>
        /\ s.doc \in DocIds /\ docs[s.doc] \in Document
        /\ s.at = "edit" => s.copy \in Document /\ s.defn \in Definitions
  BY <1>1, DocumentRow, SessionKinds DEF Grounded
<1>5. ASSUME NEW doc \in Document, NEW defn \in Definitions, NEW status \in Status, NEW approved \in BOOLEAN
      PROVE  [doc EXCEPT !.defn = defn, !.status = status, !.approved = approved] \in Document
  BY DEF Document
<1>6. CASE CommitEdit(r)
  <2> DEFINE now == docs[s.doc]
             defn == IF s.copy.defn # s.defn THEN s.defn ELSE now.defn
             status == IF s.copy.status # "draft" THEN "draft" ELSE now.status
             approved == IF s.copy.approved THEN FALSE ELSE now.approved
             doc == [now EXCEPT !.defn = defn, !.status = status, !.approved = approved]
  <2>1. s.at = "edit" /\ s.doc \in DocIds /\ now \in Document /\ s.defn \in Definitions
    BY <1>4, <1>6 DEF CommitEdit
  <2>2. defn \in Definitions
    BY <2>1 DEF Document
  <2>3. status \in Status
    BY <2>1 DEF Document, Status
  <2>4. approved \in BOOLEAN
    BY <2>1 DEF Document
  <2>5. docs' = [docs EXCEPT ![s.doc] = doc] /\ Leave(r) /\ UNCHANGED <<pubs, unseen>>
    BY <1>1, <1>6, <2>1 DEF CommitEdit, DocsOK
  <2> HIDE DEF defn, status, approved, now
  <2>6. doc \in Document
    BY <1>5, <2>1, <2>2, <2>3, <2>4
  <2> HIDE DEF doc
  <2> QED
    BY <1>2, <2>1, <2>5, <2>6
<1>7. CASE CommitApprove(r)
  <2> DEFINE doc == [docs[s.doc] EXCEPT !.status = "approved", !.approved = TRUE]
  <2>1. s.doc \in DocIds /\ docs[s.doc] \in Document
    BY <1>4, <1>7 DEF CommitApprove
  <2>2. doc \in Document
    BY <2>1 DEF Document, Status
  <2>3. docs' = [docs EXCEPT ![s.doc] = doc] /\ Leave(r) /\ UNCHANGED <<pubs, unseen>>
    BY <1>1, <1>7, <2>1 DEF CommitApprove, DocsOK
  <2> HIDE DEF doc
  <2> QED
    BY <1>2, <2>1, <2>2, <2>3
<1>8. CASE CommitArchive(r)
  <2> DEFINE doc == [docs[s.doc] EXCEPT !.status = "archived"]
  <2>1. s.doc \in DocIds /\ docs[s.doc] \in Document
    BY <1>4, <1>8 DEF CommitArchive
  <2>2. doc \in Document
    BY <2>1 DEF Document, Status
  <2>3. docs' = [docs EXCEPT ![s.doc] = doc] /\ Leave(r) /\ UNCHANGED <<pubs, unseen>>
    BY <1>1, <1>8, <2>1 DEF CommitArchive, DocsOK
  <2> HIDE DEF doc
  <2> QED
    BY <1>2, <2>1, <2>2, <2>3
<1> QED
  BY <1>3, <1>6, <1>7, <1>8
-----------------------------------------------------------------------------
(* Requests on bundles.                                                    *)

(* The documents of a completed selection exist.                           *)
LEMMA CompletedRows ==
  ASSUME IInv, NEW sel \in Selections, NEW p \in {0} \cup DOMAIN pubs
  PROVE  /\ Completed(sel, p) \in [DOMAIN Completed(sel, p) -> RowsIn(docs)]
         /\ DOMAIN Completed(sel, p) \subseteq Kinds
<1>1. PICK K \in SUBSET Kinds : sel \in [K -> RowsIn(docs)]
  BY DEF Selections, Rows, RowsIn
<1>2. CASE p = 0
  BY <1>1, <1>2 DEF Completed
<1>3. CASE p # 0
  <2>1. \A k \in Kinds : pubs[p].bundle[k] \in RowsIn(docs)
    BY <1>3 DEF IInv, PubsOK, Sound
  <2>2. Completed(sel, p) = [k \in Kinds |-> IF k \in K THEN sel[k] ELSE pubs[p].bundle[k]]
    BY <1>1, <1>3 DEF Completed
  <2> QED
    BY <1>1, <2>1, <2>2
<1> QED
  BY <1>2, <1>3

LEMMA CopiesTyped ==
  ASSUME DocsOK, NEW K, NEW bundle \in [K -> RowsIn(docs)]
  PROVE  /\ Copies(bundle) \in [K -> Document]
         /\ DefsIn(Copies(bundle)) = DefsOf(bundle)
<1>1. DOMAIN bundle = K /\ \A k \in K : docs[bundle[k]] \in Document
  BY DocumentRow
<1>2. Copies(bundle) \in [K -> Document]
  BY <1>1 DEF Copies
<1>3. DefsIn(Copies(bundle)) = DefsOf(bundle)
  BY <1>1 DEF Copies, DefsIn, DefsOf
<1> QED
  BY <1>2, <1>3

LEMMA BeginValidateSteps ==
  ASSUME IInv, NEW r \in Requests, NEW sel \in Selections, NEW env, NEW tenant,
         BeginValidate(r, sel, env, tenant)
  PROVE  IInv'
<1>1. ResolveSnapshot(env, tenant) \in {0} \cup DOMAIN pubs
  BY ResolvedRow DEF IInv, PubsOK
<1>2. PICK p \in {0} \cup DOMAIN pubs :
        Enter(r, [at |-> "validate", bundle |-> Completed(sel, p), copy |-> Copies(Completed(sel, p))])
  <2>1. CASE DOMAIN sel = Kinds
    <3>1. Completed(sel, 0) = sel
      BY DEF Completed
    <3> QED
      BY <2>1, <3>1, Zenon DEF BeginValidate
  <2>2. CASE DOMAIN sel # Kinds
    BY <1>1, <2>2, Zenon DEF BeginValidate
  <2> QED
    BY <2>1, <2>2
<1> DEFINE bundle == Completed(sel, p)
           s == [at |-> "validate", bundle |-> bundle, copy |-> Copies(bundle)]
<1>3. bundle \in [DOMAIN bundle -> RowsIn(docs)] /\ DOMAIN bundle \subseteq Kinds
  BY CompletedRows
<1> HIDE DEF bundle
<1>4. Copies(bundle) \in [DOMAIN bundle -> Document]
  BY <1>3, CopiesTyped DEF IInv
<1>5. bundle \in UNION {[K -> DocIds] : K \in SUBSET Kinds}
  BY <1>3 DEF RowsIn
<1>6. Copies(bundle) \in UNION {[K -> Document] : K \in SUBSET Kinds}
  BY <1>3, <1>4
<1>7. s \in Sessions
  BY <1>5, <1>6, Zenon DEF Sessions
<1>8. Fit(s, docs, pubs)
  BY <1>3, <1>7 DEF Fit, Grounded, Checked, Aimed, Publishing
<1>9. Enter(r, s)
  BY <1>2 DEF bundle
<1> QED
  BY <1>8, <1>9, EnterSteps

LEMMA BeginPublishSteps ==
  ASSUME IInv, NEW r \in Requests, NEW sel \in Selections, NEW env \in Environments, NEW owner \in Owners,
         BeginPublish(r, sel, env, owner)
  PROVE  IInv'
<1> DEFINE p == GetActive(env, owner.scope, owner.tenant)
           bundle == Completed(sel, p)
           s == [at |-> "publish", env |-> env, owner |-> owner,
                 bundle |-> bundle, copy |-> Copies(bundle)]
<1>1. p \in {0} \cup DOMAIN pubs
  BY GetActiveRow DEF IInv, PubsOK, ActiveRows
<1>2. DOMAIN bundle = Kinds /\ ~Raises(DefsOf(bundle)) /\ Enter(r, s)
  BY DEF BeginPublish
<1>3. bundle \in [Kinds -> RowsIn(docs)]
  BY <1>1, <1>2, CompletedRows
<1> HIDE DEF bundle
<1>4. Copies(bundle) \in Held /\ DefsIn(Copies(bundle)) = DefsOf(bundle)
  BY <1>3, CopiesTyped DEF IInv, Held
<1>5. bundle \in Bundle
  BY <1>3 DEF Bundle, RowsIn
<1>6. s \in Sessions
  BY <1>4, <1>5 DEF Sessions
<1>7. Fit(s, docs, pubs)
  BY <1>2, <1>3, <1>4, <1>6, Zenon DEF Fit, Grounded, Checked, Aimed, Publishing
<1> QED
  BY <1>2, <1>7, EnterSteps

LEMMA ValidatedDocs ==
  ASSUME DocsOK, NEW bundle, NEW copy, \A k \in DOMAIN bundle : bundle[k] \in RowsIn(docs),
         docs' = ValidatedFrom(bundle, copy)
  PROVE  DocsOK' /\ RowsIn(docs) \subseteq RowsIn(docs')
<1>1. /\ docs' = [d \in DocIds |-> docs'[d]]
      /\ \A d \in DocIds : \/ docs'[d] = docs[d]
                           \/ d \in RowsIn(docs) /\ docs'[d] = [docs[d] EXCEPT !.status = "validated"]
  BY DEF ValidatedFrom
<1>2. ASSUME NEW doc \in Document
      PROVE  [doc EXCEPT !.status = "validated"] \in Document
  BY DEF Document, Status
<1>3. \A d \in RowsIn(docs) : docs[d] \in Document /\ docs'[d] \in Document
  BY <1>1, <1>2, DocumentRow DEF RowsIn
<1>4. \A d \in DocIds : docs'[d] \in Document \cup {NoDocument}
  BY <1>1, <1>3 DEF DocsOK
<1> QED
  BY <1>1, <1>3, <1>4, StoreAssumptions DEF DocsOK, RowsIn

LEMMA CommitValidateSteps ==
  ASSUME IInv, NEW r \in Requests, CommitValidate(r)
  PROVE  IInv'
<1>1. \A k \in DOMAIN session[r].bundle : session[r].bundle[k] \in RowsIn(docs)
  BY DEF IInv, SessionsOK, Fit, Grounded, CommitValidate
<1>2. DocsOK' /\ RowsIn(docs) \subseteq RowsIn(docs')
  BY <1>1, ValidatedDocs DEF CommitValidate, IInv
<1> QED
  BY <1>2, LeaveSteps DEF CommitValidate

LEMMA CommitPublishValidationSteps ==
  ASSUME IInv, NEW r \in Requests, CommitPublishValidation(r)
  PROVE  IInv'
<1> DEFINE s == session[r]
           next == [s EXCEPT !.at = "publishValidated"]
<1>1. Fit(s, docs, pubs) /\ s.at = "publish" /\ docs' = ValidatedFrom(s.bundle, s.copy)
  BY DEF IInv, SessionsOK, CommitPublishValidation
<1>2. \A k \in DOMAIN s.bundle : s.bundle[k] \in RowsIn(docs)
  BY <1>1 DEF Fit, Grounded, Publishing
<1>3. DocsOK' /\ RowsIn(docs) \subseteq RowsIn(docs')
  BY <1>1, <1>2, ValidatedDocs DEF IInv
<1>4. CASE ValidationFails(DefsIn(s.copy))
  BY <1>3, <1>4, LeaveSteps DEF CommitPublishValidation
<1>5. CASE ~ValidationFails(DefsIn(s.copy))
  <2>1. session' = [session EXCEPT ![r] = next] /\ UNCHANGED <<pubs, unseen>>
    BY <1>5 DEF CommitPublishValidation, IInv, SessionsOK
  <2>2. s \in [at : {"publish", "publishValidated"}, env : Environments, owner : Owners,
                bundle : Bundle, copy : Held]
    BY <1>1 DEF Fit, Sessions, Idle
  <2>3. /\ next \in Sessions /\ next.at = "publishValidated"
        /\ next.bundle = s.bundle /\ next.copy = s.copy
    BY <2>2 DEF Sessions
  <2>4. \A k \in DOMAIN s.bundle : s.bundle[k] \in RowsIn(docs')
    BY <1>2, <1>3
  <2>5. ~Raises(DefsIn(s.copy))
    BY <1>1 DEF Fit, Checked, Publishing
  <2> HIDE DEF next, s
  <2>6. Fit(next, docs', pubs)
    BY <1>5, <2>3, <2>4, <2>5, Zenon DEF Fit, Grounded, Checked, Aimed, Publishing
  <2> QED
    BY <1>3, <2>1, <2>6, DocumentStep
<1> QED
  BY <1>4, <1>5

(* The row in force for a slot is a row of that slot.                      *)
LEMMA GetActiveInSlot ==
  ASSUME PubsOK, NEW env \in Environments, NEW owner \in Owners
  PROVE  LET prior == GetActive(env, owner.scope, owner.tenant)
         IN  prior \in 0..MaxPublications /\ (prior = 0 \/ InSlot(pubs, prior, env, owner))
<1> DEFINE prior == GetActive(env, owner.scope, owner.tenant)
<1>1. prior \in {0} \cup ActiveRows(env, owner.scope, owner.tenant)
  BY GetActiveRow DEF PubsOK
<1>2. ASSUME NEW i \in ActiveRows(env, owner.scope, owner.tenant)
      PROVE  i \in 0..MaxPublications /\ InSlot(pubs, i, env, owner)
  <2>1. i \in DOMAIN pubs /\ pubs[i].env = env
    BY DEF ActiveRows
  <2>2. pubs[i].owner = owner
    BY ActiveRowsOfSlot DEF PubsOK
  <2>3. i \in 1..Len(pubs) /\ Len(pubs) \in Nat
    BY <2>1 DEF PubsOK
  <2> QED
    BY <2>1, <2>2, <2>3, StoreAssumptions DEF InSlot, PubsOK
<1> HIDE DEF prior
<1>3. prior \in 0..MaxPublications /\ (prior = 0 \/ InSlot(pubs, prior, env, owner))
  BY <1>1, <1>2, StoreAssumptions
<1> QED
  BY <1>3 DEF prior

LEMMA QueryPriorSteps ==
  ASSUME IInv, NEW r \in Requests, QueryPriorActive(r)
  PROVE  IInv'
<1> DEFINE s == session[r]
           prior == GetActive(s.env, s.owner.scope, s.owner.tenant)
           next == [at |-> "publishActivate", env |-> s.env, owner |-> s.owner,
                    bundle |-> s.bundle, copy |-> s.copy, prior |-> prior]
<1>1. Fit(s, docs, pubs) /\ s.at = "publishValidated"
  BY DEF IInv, SessionsOK, QueryPriorActive
<1>2. s.env \in Environments /\ s.owner \in Owners /\ s.bundle \in Bundle /\ s.copy \in Held
  BY <1>1, SessionKinds DEF Fit, Publishing
<1>3. prior \in 0..MaxPublications /\ (prior = 0 \/ InSlot(pubs, prior, s.env, s.owner))
  BY <1>2, GetActiveInSlot DEF IInv
<1>4. session' = [session EXCEPT ![r] = next] /\ UNCHANGED <<docs, pubs, unseen>>
  BY DEF QueryPriorActive
<1> HIDE DEF prior
<1>5. next \in Sessions
  BY <1>2, <1>3 DEF Sessions
<1>6. Grounded(next, docs)
  BY <1>1 DEF Fit, Grounded, Publishing
<1>7. Checked(next)
  BY <1>1 DEF Fit, Checked, Publishing
<1>8. Aimed(next, pubs)
  BY <1>3 DEF Aimed
<1>9. Fit(next, docs', pubs)
  BY <1>4, <1>5, <1>6, <1>7, <1>8 DEF Fit
<1> QED
  BY <1>4, <1>9, DocumentStep DEF IInv, DocsOK

LEMMA BeginRollbackSteps ==
  ASSUME IInv, NEW r \in Requests, NEW t \in Seen, BeginRollback(r, t)
  PROVE  IInv'
<1> DEFINE prior == GetActive(pubs[t].env, pubs[t].owner.scope, pubs[t].owner.tenant)
           s == [at |-> "rollback", target |-> t, prior |-> prior]
<1>1. t \in DOMAIN pubs /\ t \in 1..MaxPublications /\ pubs[t] \in Publication
  BY StoreAssumptions DEF Seen, IInv, PubsOK
<1>2. pubs[t].env \in Environments /\ pubs[t].owner \in Owners
  BY <1>1 DEF Publication
<1>3. prior \in 0..MaxPublications /\ (prior = 0 \/ InSlot(pubs, prior, pubs[t].env, pubs[t].owner))
  BY <1>2, GetActiveInSlot DEF IInv
<1>4. Enter(r, s)
  BY DEF BeginRollback
<1> HIDE DEF prior
<1>5. Fit(s, docs, pubs)
  BY <1>1, <1>3 DEF Fit, Sessions, Grounded, Checked, Aimed, Publishing
<1> QED
  BY <1>4, <1>5, EnterSteps

LEMMA AbortSteps ==
  ASSUME IInv, NEW r \in Requests, Abort(r)
  PROVE  IInv'
BY LeaveSteps DEF Abort, IInv, DocsOK
-----------------------------------------------------------------------------
(* The flush and the commit of a publication.                              *)
LEMMA ActiveSet ==
  ASSUME NEW p \in Publication, NEW b \in BOOLEAN
  PROVE  LET q == [p EXCEPT !.active = b]
         IN  /\ q \in Publication /\ q.active = b
             /\ q.env = p.env /\ q.owner = p.owner /\ q.bundle = p.bundle /\ q.hash = p.hash
BY DEF Publication

(* The inserted row is the last one, and unseen: which rows are seen, and  *)
(* what they hold, stays.                                                  *)
LEMMA InsertSteps ==
  ASSUME IInv, NEW r \in Requests, NEW p \in Publication, Sound(p, docs),
         NEW prior \in 0..MaxPublications, prior = 0 \/ InSlot(pubs, prior, p.env, p.owner),
         NEW publishes, publishes \subseteq RowsIn(docs),
         Insert(r, p, prior, publishes)
  PROVE  IInv'
<1> DEFINE n == Len(pubs)
           q == [p EXCEPT !.active = FALSE]
           s == [at |-> "flushed", row |-> n + 1, prior |-> prior, publishes |-> publishes]
<1>1. /\ n \in Nat /\ n < MaxPublications /\ DOMAIN pubs = 1..n
      /\ pubs \in Seq(Publication) /\ MaxPublications \in Nat
  BY StoreAssumptions DEF IInv, PubsOK, Insert
<1>2. /\ pubs' = Append(pubs, q) /\ unseen' = unseen \cup {n + 1}
      /\ session' = [session EXCEPT ![r] = s] /\ docs' = docs
  BY DEF Insert
<1>3. /\ q \in Publication /\ q.active = FALSE
      /\ q.env = p.env /\ q.owner = p.owner /\ q.bundle = p.bundle /\ q.hash = p.hash
  BY ActiveSet
<1> HIDE DEF q
<1>4. /\ pubs' \in Seq(Publication) /\ Len(pubs') = n + 1 /\ DOMAIN pubs' = 1..(n + 1)
      /\ pubs'[n + 1] = q
      /\ \A i \in 1..n : pubs'[i] = pubs[i]
  BY <1>1, <1>2, <1>3
<1>5. GrowsTo(docs, docs', pubs, pubs')
  BY <1>1, <1>2, <1>4 DEF GrowsTo
<1>6. Fit(s, docs', pubs')
  <2>1. s \in Sessions
    <3>1. n + 1 \in 1..MaxPublications /\ publishes \in SUBSET DocIds
      BY <1>1 DEF RowsIn
    <3> QED
      BY <3>1 DEF Sessions
  <2>2. Aimed(s, pubs')
    BY <1>1, <1>3, <1>4 DEF Aimed, InSlot
  <2> QED
    BY <1>2, <2>1, <2>2 DEF Fit, Grounded, Checked, Publishing
<1>7. SessionsOK'
  BY <1>2, <1>5, <1>6, SessionsStep DEF IInv
<1>8. PubsOK'
  <2>1. \A i \in DOMAIN pubs' : Sound(pubs'[i], docs')
    <3>1. Sound(q, docs)
      BY <1>3 DEF Sound
    <3> QED
      BY <1>1, <1>2, <1>4, <3>1 DEF IInv, PubsOK
  <2>2. unseen' \subseteq {i \in DOMAIN pubs' : ~pubs'[i].active}
    BY <1>1, <1>2, <1>3, <1>4 DEF IInv, PubsOK
  <2> QED
    BY <1>1, <1>4, <2>1, <2>2 DEF PubsOK
<1>9. NewestServes'
  <2>1. Seen' = Seen
    BY <1>1, <1>2, <1>4 DEF Seen
  <2>2. Seen \subseteq 1..n
    BY <1>1 DEF Seen
  <2> QED
    BY <1>4, <2>1, <2>2 DEF IInv, NewestServes, SameSlot
<1> QED
  BY <1>2, <1>7, <1>8, <1>9 DEF IInv, DocsOK

LEMMA FlushPublishSteps ==
  ASSUME IInv, NEW r \in Requests, FlushPublish(r)
  PROVE  IInv'
<1> DEFINE s == session[r]
           p == [env |-> s.env, owner |-> s.owner, bundle |-> s.bundle,
                 hash |-> DefsIn(s.copy), active |-> TRUE]
<1>1. /\ Fit(s, docs, pubs) /\ s.at = "publishActivate"
      /\ Insert(r, p, s.prior, Publishes(s))
  BY DEF IInv, SessionsOK, FlushPublish
<1>2. /\ s.env \in Environments /\ s.owner \in Owners /\ s.bundle \in Bundle /\ s.copy \in Held
      /\ s.prior \in 0..MaxPublications
  BY <1>1, SessionKinds DEF Fit, Publishing
<1>3. DefsIn(s.copy) \in [Kinds -> Definitions]
  BY <1>2 DEF Held, Document, DefsIn
<1>4. DefsIn(s.copy) \in ValidContents
  BY <1>1, <1>3 DEF Fit, Checked, Publishing, ValidContents
<1>5. p \in Publication
  BY <1>2, <1>3 DEF Publication
<1>6. \A k \in Kinds : s.bundle[k] \in RowsIn(docs)
  BY <1>1, <1>2 DEF Fit, Grounded, Publishing, Bundle
<1>7. Sound(p, docs)
  BY <1>4, <1>6 DEF Sound
<1>8. Publishes(s) \subseteq RowsIn(docs)
  BY <1>6 DEF Publishes
<1>9. s.prior = 0 \/ InSlot(pubs, s.prior, p.env, p.owner)
  BY <1>1 DEF Fit, Aimed
<1> HIDE DEF s, p
<1> QED
  BY <1>1, <1>2, <1>5, <1>7, <1>8, <1>9, InsertSteps

LEMMA FlushRollbackSteps ==
  ASSUME IInv, NEW r \in Requests, FlushRollback(r)
  PROVE  IInv'
<1> DEFINE s == session[r]
           p == pubs[s.target]
<1>1. Fit(s, docs, pubs) /\ s.at = "rollback" /\ Insert(r, p, s.prior, {})
  BY DEF IInv, SessionsOK, FlushRollback
<1>2. s.target \in DOMAIN pubs /\ (s.prior = 0 \/ InSlot(pubs, s.prior, p.env, p.owner))
  BY <1>1 DEF Fit, Aimed
<1>3. s.prior \in 0..MaxPublications
  BY <1>1, SessionKinds DEF Fit
<1>4. p \in Publication /\ Sound(p, docs)
  BY <1>2 DEF IInv, PubsOK
<1> HIDE DEF s, p
<1> QED
  BY <1>1, <1>2, <1>3, <1>4, InsertSteps

(* The row that becomes visible is newer than the one that is cleared, and *)
(* of the same slot: a newest row that stays newest is not cleared.        *)
LEMMA CommitActivationSteps ==
  ASSUME IInv, NEW r \in Requests, CommitActivation(r)
  PROVE  IInv'
<1> DEFINE s == session[r]
           n == Len(pubs)
           live(i) == i = s.row \/ (pubs[i].active /\ i # s.prior)
<1>1. /\ n \in Nat /\ DOMAIN pubs = 1..n /\ pubs \in Seq(Publication)
      /\ \A i \in 1..n : pubs[i] \in Publication
  BY DEF IInv, PubsOK
<1>2. Fit(s, docs, pubs) /\ s.at = "flushed"
  BY DEF IInv, SessionsOK, CommitActivation
<1>3. /\ pubs' = [i \in 1..n |-> [pubs[i] EXCEPT !.active = live(i)]]
      /\ unseen' = unseen \ {s.row}
      /\ docs' = [d \in DocIds |->
                    IF d \in s.publishes THEN [docs[d] EXCEPT !.status = "published"] ELSE docs[d]]
      /\ session' = [session EXCEPT ![r] = Idle]
  BY <1>1, <1>2, Zenon DEF CommitActivation, Leave
<1>4. ASSUME NEW i \in 1..n
      PROVE  /\ pubs'[i] \in Publication /\ pubs'[i].active = live(i)
             /\ pubs'[i].env = pubs[i].env /\ pubs'[i].owner = pubs[i].owner
             /\ pubs'[i].bundle = pubs[i].bundle /\ pubs'[i].hash = pubs[i].hash
  <2>1. live(i) \in BOOLEAN
    BY Zenon
  <2> HIDE DEF live
  <2>2. pubs'[i] = [pubs[i] EXCEPT !.active = live(i)] /\ pubs[i] \in Publication
    BY <1>1, <1>3
  <2> QED
    BY <2>1, <2>2, ActiveSet
<1>5. s.publishes \subseteq RowsIn(docs)
  BY <1>2 DEF Fit, Grounded
<1>6. /\ s.row \in 1..n
      /\ \/ s.prior = 0
         \/ s.prior < s.row /\ InSlot(pubs, s.prior, pubs[s.row].env, pubs[s.row].owner)
  BY <1>1, <1>2 DEF Fit, Aimed
<1>7. DocsOK' /\ RowsIn(docs) \subseteq RowsIn(docs')
  <2>1. ASSUME NEW doc \in Document
        PROVE  [doc EXCEPT !.status = "published"] \in Document
    BY DEF Document, Status
  <2>2. \A d \in RowsIn(docs) : docs[d] \in Document /\ docs'[d] \in Document
    BY <1>3, <2>1, DocumentRow DEF IInv, RowsIn
  <2>3. \A d \in DocIds : docs'[d] = docs[d] \/ docs'[d] \in Document
    BY <1>3, <1>5, <2>2
  <2> HIDE DEF s
  <2>4. DocsOK'
    BY <1>3, <2>3 DEF IInv, DocsOK
  <2> QED
    BY <2>2, <2>4, StoreAssumptions DEF RowsIn
<1>8. pubs' \in Seq(Publication) /\ Len(pubs') = n /\ DOMAIN pubs' = 1..n
  <2>1. pubs' = [i \in 1..n |-> pubs'[i]]
    BY <1>3
  <2> QED
    BY <1>1, <1>4, <2>1
<1>9. GrowsTo(docs, docs', pubs, pubs')
  BY <1>1, <1>4, <1>7, <1>8 DEF GrowsTo
<1>10. SessionsOK'
  BY <1>3, <1>9, IdleFits, SessionsStep DEF IInv
<1>11. PubsOK'
  <2>1. \A i \in 1..n : Sound(pubs'[i], docs')
    BY <1>1, <1>4, <1>7, SoundStable DEF IInv, PubsOK
  <2>2. \A i \in unseen' : i \in 1..n /\ ~live(i)
    BY <1>1, <1>3 DEF IInv, PubsOK
  <2> HIDE DEF live
  <2>3. unseen' \subseteq {i \in DOMAIN pubs' : ~pubs'[i].active}
    BY <1>4, <1>8, <2>2
  <2> QED
    BY <1>8, <2>1, <2>3 DEF IInv, PubsOK
<1>12. NewestServes'
  <2> SUFFICES ASSUME NEW i \in Seen', \A j \in Seen' : SameSlot(i, j)' => j <= i
               PROVE  pubs'[i].active
    BY DEF NewestServes
  <2>1. i \in 1..n /\ Seen' = Seen \cup {s.row} /\ Seen \subseteq 1..n
    BY <1>1, <1>3, <1>6, <1>8 DEF Seen
  <2>2. \A j \in Seen : SameSlot(i, j) => j <= i
    BY <1>4, <2>1 DEF SameSlot
  <2>3. CASE i = s.row
    BY <1>4, <2>1, <2>3
  <2>4. CASE i # s.row
    <3>1. pubs[i].active
      BY <2>1, <2>2, <2>4 DEF IInv, NewestServes
    <3>2. i # s.prior
      <4>1. SUFFICES ASSUME i = s.prior PROVE FALSE
        OBVIOUS
      <4>2. PICK row \in 1..n : row = s.row
        BY <1>6
      <4>3. s.prior < row /\ SameSlot(i, row)
        BY <1>6, <2>1, <4>1, <4>2 DEF InSlot, SameSlot
      <4>4. SameSlot(i, row)'
        BY <1>4, <2>1, <4>3 DEF SameSlot
      <4> QED
        BY <2>1, <4>1, <4>2, <4>3, <4>4
    <3> QED
      BY <1>4, <2>1, <3>1, <3>2
  <2> QED
    BY <2>3, <2>4
<1> QED
  BY <1>7, <1>10, <1>11, <1>12 DEF IInv
-----------------------------------------------------------------------------
LEMMA InitHolds == Init => IInv
<1> SUFFICES ASSUME Init PROVE IInv
  OBVIOUS
<1>1. DocsOK /\ NewestServes
  BY DEF Init, DocsOK, NewestServes, Seen
<1>2. PubsOK
  BY StoreAssumptions DEF Init, PubsOK
<1>3. SessionsOK
  BY IdleFits DEF Init, SessionsOK
<1> QED
  BY <1>1, <1>2, <1>3 DEF IInv

LEMMA StepsHold == IInv /\ [Next]_vars => IInv'
<1> SUFFICES ASSUME IInv, [Next]_vars PROVE IInv'
  OBVIOUS
<1>1. CASE UNCHANGED vars
  BY <1>1, DocumentStep DEF vars, IInv, DocsOK
<1>2. ASSUME NEW r \in Requests,
             \/ \E d \in DocIds, k \in Kinds, owner \in Owners :
                   \E defn \in DefinitionsOf[k] : Create(r, d, k, owner, defn)
             \/ \E d \in Rows : \/ \E defn \in DefinitionsOf[docs[d].kind] : BeginEdit(r, d, defn)
                                \/ BeginApprove(r, d)
                                \/ BeginArchive(r, d)
             \/ \E fresh \in DocIds : CommitRevision(r, fresh)
             \/ CommitEdit(r) \/ CommitApprove(r) \/ CommitArchive(r)
      PROVE  IInv'
  BY <1>2, CreateSteps, BeginDocumentSteps, CommitDocumentSteps
<1>3. ASSUME NEW r \in Requests,
             \/ \E sel \in Selections, env \in Environments :
                   \/ \E tenant \in Tenants \cup {NoTenant} : BeginValidate(r, sel, env, tenant)
                   \/ \E owner \in Owners : BeginPublish(r, sel, env, owner)
             \/ \E t \in Seen : BeginRollback(r, t)
             \/ CommitValidate(r) \/ CommitPublishValidation(r) \/ QueryPriorActive(r)
      PROVE  IInv'
  BY <1>3, BeginValidateSteps, BeginPublishSteps, BeginRollbackSteps, CommitValidateSteps,
     CommitPublishValidationSteps, QueryPriorSteps
<1>4. ASSUME NEW r \in Requests,
             FlushPublish(r) \/ FlushRollback(r) \/ CommitActivation(r) \/ Abort(r)
      PROVE  IInv'
  BY <1>4, FlushPublishSteps, FlushRollbackSteps, CommitActivationSteps, AbortSteps
<1> QED
  BY <1>1, <1>2, <1>3, <1>4 DEF Next

(* The inductive invariant: types, the rows and copies that requests rely  *)
(* on, and the newest row of each slot.                                    *)
THEOREM Invariance == Spec => []IInv
BY InitHolds, StepsHold, PTL DEF Spec

(* However requests overlap, tables and sessions keep their types; nothing *)
(* that is not committed is active.                                        *)
THEOREM TypeCorrect == Spec => []TypeOK
<1>1. IInv => TypeOK
  <2> SUFFICES ASSUME IInv PROVE TypeOK
    OBVIOUS
  <2>1. session \in [Requests -> Sessions]
    BY DEF IInv, SessionsOK, Fit
  <2> QED
    BY <2>1 DEF IInv, DocsOK, PubsOK, TypeOK
<1> QED
  BY <1>1, Invariance, PTL

(* Whatever is edited while a publish is under way, what it hashes passed  *)
(* validation as one bundle.                                               *)
THEOREM HashesValidated == Spec => []HashValidated
<1>1. IInv => HashValidated
  BY DEF IInv, PubsOK, Sound, HashValidated, Seen
<1> QED
  BY <1>1, Invariance, PTL

(* However publishes and rollbacks overlap, the newest visible publication *)
(* of a slot is active.                                                    *)
THEOREM NewestIsActive == Spec => []NewestServes
<1>1. IInv => NewestServes
  BY DEF IInv
<1> QED
  BY <1>1, Invariance, PTL
=============================================================================
