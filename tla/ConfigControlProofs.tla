------------------------- MODULE ConfigControlProofs -------------------------
(***************************************************************************)
(* Proofs about ConfigControl for any number of documents, kinds, scopes,  *)
(* environments and publications, and whatever validation decides.         *)
(*                                                                         *)
(* The argument: a document that a publication binds is published or       *)
(* archived, and no handler changes the content of such a document         *)
(* (KeepsFrozen); so what held of a publication when it was inserted       *)
(* (SoundIn) holds for good.                                               *)
(***************************************************************************)
EXTENDS ConfigControl, WellFoundedInduction, TLAPS

(* What the queries of the control schema return.                          *)

(* A nonempty bounded set of numbers has a greatest element: the query     *)
(* ORDER BY published_at DESC LIMIT 1 returns a row when one matches.      *)
LEMMA LatestIsGreatest ==
    ASSUME NEW n \in Nat, NEW S, S \subseteq 1..n, S # {}
    PROVE  Latest(S) \in S /\ \A j \in S : j <= Latest(S)
<1> DEFINE T == {n - i : i \in S}
           less == OpToRel(<, Nat)
<1>1. T \subseteq Nat /\ T # {}
  <2>1. \A i \in S : n - i \in Nat
    OBVIOUS
  <2>2. PICK i \in S : TRUE
    OBVIOUS
  <2>3. QED BY <2>1, <2>2
<1>2. IsWellFoundedOn(less, Nat)
  BY NatLessThanWellFounded
<1>3. \E x \in T : \A y \in T : ~(<<y, x>> \in less)
  <2> HIDE DEF T, less
  <2>1. QED BY <1>1, <1>2, WFMin
<1>4. PICK x \in T : \A y \in T : ~(<<y, x>> \in less)
  BY <1>3
<1>5. \A y \in T : ~(y < x)
  BY <1>1, <1>4 DEF OpToRel
<1>6. PICK i \in S : x = n - i
  OBVIOUS
<1>7. \A j \in S : j <= i
  BY <1>5, <1>6
<1>8. QED BY <1>7 DEF Latest

(* The row that get_active_publication returns, if there is one.           *)
LEMMA GetActiveRow ==
    ASSUME pubs \in Seq(Publication), NEW env, NEW scope, NEW tenant
    PROVE  GetActive(env, scope, tenant) \in {0} \cup ActiveRows(env, scope, tenant)
<1>1. /\ Len(pubs) \in Nat
      /\ ActiveRows(env, scope, tenant) \subseteq 1..Len(pubs)
  BY DEF ActiveRows
<1>2. CASE ActiveRows(env, scope, tenant) = {}
  BY <1>2 DEF GetActive, Latest
<1>3. CASE ActiveRows(env, scope, tenant) # {}
  BY <1>1, <1>3, LatestIsGreatest DEF GetActive
<1>4. QED BY <1>2, <1>3

LEMMA ResolvedRow ==
    ASSUME pubs \in Seq(Publication), NEW env, NEW tenant
    PROVE  ResolveSnapshot(env, tenant) \in {0} \cup DOMAIN pubs
BY GetActiveRow DEF ResolveSnapshot, ActiveRows

(* A document's owner is determined by its scope and a non-null tenant, so *)
(* the query for a slot's active row finds that slot's row only.           *)
LEMMA ActiveRowsOfSlot ==
    ASSUME pubs \in Seq(Publication), NEW env \in Environments, NEW owner \in Owners,
           NEW i \in ActiveRows(env, owner.scope, owner.tenant)
    PROVE  pubs[i].owner = owner
<1>1. i \in DOMAIN pubs /\ pubs[i] \in Publication
  BY DEF ActiveRows
<1>2. pubs[i].owner \in AllOwners /\ owner \in AllOwners
  BY <1>1, StoreAssumptions DEF Publication
<1>3. /\ pubs[i].owner.scope = owner.scope
      /\ owner.tenant # NoTenant => pubs[i].owner.tenant = owner.tenant
  BY DEF ActiveRows
<1>4. QED BY <1>2, <1>3, StoreAssumptions DEF AllOwners
-----------------------------------------------------------------------------
(* What the invariants below say of one publication p, over the document   *)
(* table store.                                                            *)
SoundIn(store, p) ==
    LET content == [k \in Kinds |-> store[p.bundle[k]].defn]
    IN  /\ content = p.hash
        /\ \A k \in Kinds : ~HasError(k, content)
        /\ \A k \in Kinds : LET doc == store[p.bundle[k]]
                            IN  /\ doc # NoDocument
                                /\ doc.kind = k
                                /\ doc.owner = p.owner
                                /\ doc.status \in {"published", "archived"}
                                /\ doc.approved

(* Approval is needed to reach the later statuses.                         *)
ApprovedStatus == \A d \in Rows : docs[d].status \in {"approved", "published"}
                                    => docs[d].approved

IInv == /\ TypeOK
        /\ OneActivePerSlot
        /\ ApprovedStatus
        /\ \A i \in DOMAIN pubs : SoundIn(docs, pubs[i])

Unaltered(store, new, d) ==
    /\ new[d] # NoDocument
    /\ new[d].kind = store[d].kind
    /\ new[d].owner = store[d].owner
    /\ new[d].defn = store[d].defn
    /\ new[d].approved = store[d].approved
    /\ new[d].status \in {"published", "archived"}

KeepsFrozen(store, new) ==
    \A d \in DocIds : /\ store[d] # NoDocument
                      /\ store[d].status \in {"published", "archived"}
                      => Unaltered(store, new, d)
-----------------------------------------------------------------------------
LEMMA SoundStable ==
    ASSUME NEW store, NEW new, NEW p \in Publication,
           SoundIn(store, p), KeepsFrozen(store, new)
    PROVE  SoundIn(new, p)
<1> DEFINE old == [k \in Kinds |-> store[p.bundle[k]].defn]
           now == [k \in Kinds |-> new[p.bundle[k]].defn]
<1>1. \A k \in Kinds : p.bundle[k] \in DocIds
  BY DEF Publication, Bundle
<1>2. \A k \in Kinds : Unaltered(store, new, p.bundle[k])
  BY <1>1 DEF SoundIn, KeepsFrozen
<1>3. now = old
  BY <1>2 DEF Unaltered
<1>4. /\ now = p.hash
      /\ \A k \in Kinds : ~HasError(k, now)
  <2>1. old = p.hash /\ \A k \in Kinds : ~HasError(k, old)
    BY DEF SoundIn
  <2> HIDE DEF old, now
  <2>2. QED BY <1>3, <2>1
<1>5. \A k \in Kinds : /\ new[p.bundle[k]] # NoDocument
                       /\ new[p.bundle[k]].kind = k
                       /\ new[p.bundle[k]].owner = p.owner
                       /\ new[p.bundle[k]].status \in {"published", "archived"}
                       /\ new[p.bundle[k]].approved
  BY <1>2 DEF SoundIn, Unaltered
<1>6. QED BY <1>4, <1>5 DEF SoundIn

LEMMA SoundSame ==
    ASSUME NEW store, NEW p, NEW q, SoundIn(store, p),
           q.bundle = p.bundle, q.hash = p.hash, q.owner = p.owner
    PROVE  SoundIn(store, q)
<1> DEFINE content(r) == [k \in Kinds |-> store[r.bundle[k]].defn]
<1>1. content(q) = content(p)
  OBVIOUS
<1>2. content(p) = p.hash /\ \A k \in Kinds : ~HasError(k, content(p))
  BY DEF SoundIn
<1>3. content(q) = q.hash /\ \A k \in Kinds : ~HasError(k, content(q))
  <2> HIDE DEF content
  <2>1. QED BY <1>1, <1>2
<1>4. QED BY <1>3 DEF SoundIn

(* With one active row per slot, that row is what get_active_publication   *)
(* returns.                                                                *)
LEMMA ActiveIsGetActive ==
    ASSUME TypeOK, OneActivePerSlot, NEW i \in DOMAIN pubs, pubs[i].active
    PROVE  i = GetActive(pubs[i].env, pubs[i].owner.scope, pubs[i].owner.tenant)
<1> DEFINE rows == ActiveRows(pubs[i].env, pubs[i].owner.scope, pubs[i].owner.tenant)
<1>1. pubs[i] \in Publication /\ i \in Nat
  BY DEF TypeOK
<1>2. pubs[i].env \in Environments /\ pubs[i].owner \in Owners
  BY <1>1 DEF Publication
<1>3. i \in rows
  BY DEF ActiveRows
<1>4. \A j \in rows : j = i
  <2> TAKE j \in rows
  <2>1. pubs[j].owner = pubs[i].owner
    BY <1>2, ActiveRowsOfSlot DEF TypeOK
  <2>2. j \in DOMAIN pubs /\ pubs[j].active /\ pubs[j].env = pubs[i].env
    BY DEF ActiveRows
  <2>3. QED BY <2>1, <2>2 DEF OneActivePerSlot
<1>5. rows = {i}
  BY <1>3, <1>4
<1>6. Latest({i}) = i
  BY <1>1 DEF Latest
<1>7. QED BY <1>5, <1>6 DEF GetActive

LEMMA ActivatedShape ==
    ASSUME TypeOK, NEW prior, NEW p \in Publication
    PROVE  /\ Activated(prior, p) \in Seq(Publication)
           /\ Len(Activated(prior, p)) = Len(pubs) + 1
           /\ Activated(prior, p)[Len(pubs) + 1] = p
           /\ \A i \in 1..Len(pubs) :
                 Activated(prior, p)[i] =
                    IF i = prior THEN [pubs[i] EXCEPT !.active = FALSE] ELSE pubs[i]
<1> DEFINE s == [i \in 1..Len(pubs) |->
                    IF i = prior THEN [pubs[i] EXCEPT !.active = FALSE] ELSE pubs[i]]
<1>1. pubs \in Seq(Publication) /\ Len(pubs) \in Nat /\ DOMAIN pubs = 1..Len(pubs)
  BY DEF TypeOK
<1>2. ASSUME NEW i \in 1..Len(pubs) PROVE s[i] \in Publication
  <2>1. pubs[i] \in Publication
    BY <1>1
  <2>2. [pubs[i] EXCEPT !.active = FALSE] \in Publication
    <3>1. ASSUME NEW r \in Publication PROVE [r EXCEPT !.active = FALSE] \in Publication
      BY DEF Publication
    <3>2. QED BY <2>1, <3>1
  <2>3. QED BY <2>1, <2>2
<1>3. s \in Seq(Publication) /\ Len(s) = Len(pubs)
  BY <1>1, <1>2
<1>4. Activated(prior, p) = Append(s, p)
  BY <1>1 DEF Activated
<1> HIDE DEF s
<1>5. /\ Append(s, p) \in Seq(Publication)
      /\ Len(Append(s, p)) = Len(pubs) + 1
      /\ Append(s, p)[Len(pubs) + 1] = p
      /\ \A i \in 1..Len(pubs) : Append(s, p)[i] = s[i]
  BY <1>1, <1>3
<1>6. QED BY <1>4, <1>5 DEF s

(* What inserting a publication as the active one of its slot preserves.   *)
LEMMA InsertedPublication ==
    ASSUME IInv, KeepsFrozen(docs, docs'),
           NEW p \in Publication, p.active, SoundIn(docs', p),
           pubs' = Activated(GetActive(p.env, p.owner.scope, p.owner.tenant), p)
    PROVE  /\ pubs' \in Seq(Publication)
           /\ OneActivePerSlot'
           /\ \A i \in DOMAIN pubs' : SoundIn(docs', pubs'[i])
<1> DEFINE prior == GetActive(p.env, p.owner.scope, p.owner.tenant)
           n == Len(pubs)
<1>0. /\ TypeOK /\ OneActivePerSlot
      /\ \A i \in DOMAIN pubs : SoundIn(docs, pubs[i])
  BY DEF IInv
<1>1. pubs \in Seq(Publication) /\ n \in Nat /\ DOMAIN pubs = 1..n
  BY <1>0 DEF TypeOK
<1>2. /\ pubs' \in Seq(Publication)
      /\ Len(pubs') = n + 1
      /\ pubs'[n + 1] = p
      /\ \A i \in 1..n : pubs'[i] = IF i = prior
                                    THEN [pubs[i] EXCEPT !.active = FALSE]
                                    ELSE pubs[i]
  <2> HIDE DEF prior
  <2>1. pubs' = Activated(prior, p)
    BY DEF prior
  <2>2. QED BY <1>0, <2>1, ActivatedShape
<1>3. DOMAIN pubs' = 1..(n + 1)
  BY <1>1, <1>2
<1>4. ASSUME NEW i \in 1..n
      PROVE  /\ pubs[i] \in Publication
             /\ pubs'[i].env = pubs[i].env
             /\ pubs'[i].owner = pubs[i].owner
             /\ pubs'[i].bundle = pubs[i].bundle
             /\ pubs'[i].hash = pubs[i].hash
             /\ pubs'[i].active => pubs[i].active /\ i # prior
  <2>1. pubs[i] \in Publication
    BY <1>1
  <2>2. ASSUME NEW r \in Publication
        PROVE  LET q == [r EXCEPT !.active = FALSE]
               IN  /\ q.env = r.env /\ q.owner = r.owner /\ q.bundle = r.bundle
                   /\ q.hash = r.hash /\ ~q.active
    BY DEF Publication
  <2> HIDE DEF prior
  <2>3. CASE i = prior
    BY <1>2, <2>1, <2>2, <2>3
  <2>4. CASE i # prior
    BY <1>2, <2>1, <2>4
  <2>5. QED BY <2>3, <2>4
<1>5. OneActivePerSlot'
  <2> SUFFICES ASSUME NEW i \in 1..(n + 1), NEW j \in 1..(n + 1),
                      pubs'[i].active, pubs'[j].active, pubs'[i].env = pubs'[j].env,
                      pubs'[i].owner = pubs'[j].owner
               PROVE  i = j
    BY <1>3 DEF OneActivePerSlot
  <2>1. ASSUME NEW m \in 1..n, pubs'[m].active, pubs'[m].env = p.env,
               pubs'[m].owner = p.owner
        PROVE  FALSE
    <3>1. /\ pubs[m].active /\ m # prior
          /\ pubs[m].env = p.env /\ pubs[m].owner = p.owner
      BY <1>4, <2>1
    <3>2. m = prior
      BY <1>0, <1>1, <3>1, ActiveIsGetActive
    <3>3. QED BY <3>1, <3>2
  <2>2. CASE i \in 1..n /\ j \in 1..n
    <3>1. /\ pubs[i].active /\ pubs[j].active /\ pubs[i].env = pubs[j].env
          /\ pubs[i].owner = pubs[j].owner
      BY <1>4, <2>2
    <3>2. QED BY <1>0, <1>1, <2>2, <3>1 DEF OneActivePerSlot
  <2>3. CASE i = n + 1 /\ j \in 1..n
    BY <1>2, <2>1, <2>3
  <2>4. CASE i \in 1..n /\ j = n + 1
    BY <1>2, <2>1, <2>4
  <2>5. CASE i = n + 1 /\ j = n + 1
    BY <2>5
  <2>6. (i \in 1..n \/ i = n + 1) /\ (j \in 1..n \/ j = n + 1)
    BY <1>1
  <2>7. QED BY <2>2, <2>3, <2>4, <2>5, <2>6
<1>6. ASSUME NEW i \in 1..(n + 1) PROVE SoundIn(docs', pubs'[i])
  <2>1. CASE i = n + 1
    BY <1>2, <2>1
  <2>2. CASE i \in 1..n
    <3>1. SoundIn(docs', pubs[i])
      BY <1>0, <1>1, <1>4, <2>2, SoundStable
    <3>2. QED BY <1>4, <2>2, <3>1, SoundSame
  <2>3. QED BY <1>1, <2>1, <2>2
<1>7. QED BY <1>2, <1>3, <1>5, <1>6

-----------------------------------------------------------------------------
(* What each handler does to the document table alone: types are kept,     *)
(* approval still precedes the later statuses, and frozen content stays.   *)
DocsOK == docs \in [DocIds -> Document \cup {NoDocument}]

LEMMA WriteDocument ==
    ASSUME TypeOK, ApprovedStatus, NEW d \in DocIds, NEW doc \in Document,
           docs' = [docs EXCEPT ![d] = doc],
           doc.status \in {"approved", "published"} => doc.approved,
           \/ docs[d] = NoDocument
           \/ docs[d] # NoDocument /\ docs[d].status \notin {"published", "archived"}
           \/ Unaltered(docs, docs', d)
    PROVE  DocsOK' /\ ApprovedStatus' /\ KeepsFrozen(docs, docs')
<1>1. /\ docs \in [DocIds -> Document \cup {NoDocument}]
      /\ doc # NoDocument
  BY StoreAssumptions DEF TypeOK
<1>2. /\ docs'[d] = doc
      /\ \A e \in DocIds : e # d => docs'[e] = docs[e]
  BY <1>1
<1>3. DocsOK'
  BY <1>1 DEF DocsOK
<1>4. ApprovedStatus'
  BY <1>1, <1>2 DEF ApprovedStatus, Rows
<1>5. KeepsFrozen(docs, docs')
  <2> SUFFICES ASSUME NEW e \in DocIds, docs[e] # NoDocument,
                      docs[e].status \in {"published", "archived"}
               PROVE  Unaltered(docs, docs', e)
    BY DEF KeepsFrozen
  <2>1. CASE e = d
    BY <2>1
  <2>2. CASE e # d
    BY <1>2, <2>2 DEF Unaltered
  <2>3. QED BY <2>1, <2>2
<1>6. QED BY <1>3, <1>4, <1>5

LEMMA RevalidatedDocs ==
    ASSUME TypeOK, ApprovedStatus, NEW bundle,
           \A k \in DOMAIN bundle : bundle[k] \in Rows,
           docs' = Revalidated(bundle)
    PROVE  DocsOK' /\ ApprovedStatus' /\ KeepsFrozen(docs, docs')
<1>1. \A d \in DocIds : \/ docs'[d] = docs[d]
                        \/ /\ d \in Rows
                           /\ docs[d].status \notin {"published", "archived"}
                           /\ docs'[d] = [docs[d] EXCEPT !.status = "validated"]
  BY DEF Revalidated
<1>2. ASSUME NEW r \in Document
      PROVE  LET q == [r EXCEPT !.status = "validated"]
             IN  q \in Document /\ q.status = "validated"
  BY DEF Document, Status
<1>3. \A d \in Rows : docs[d] \in Document
  BY DEF TypeOK, Rows
<1>4. DOMAIN docs' = DocIds /\ docs' = [d \in DocIds |-> docs'[d]]
  BY DEF Revalidated
<1>5. DocsOK'
  <2>1. \A d \in DocIds : docs'[d] \in Document \cup {NoDocument}
    BY <1>1, <1>2, <1>3 DEF TypeOK
  <2>2. QED BY <1>4, <2>1 DEF DocsOK
<1>6. ApprovedStatus'
  BY <1>1, <1>2, <1>3 DEF ApprovedStatus, Rows
<1>7. KeepsFrozen(docs, docs')
  BY <1>1, <1>3 DEF KeepsFrozen, Unaltered, Rows
<1>8. QED BY <1>5, <1>6, <1>7

-----------------------------------------------------------------------------
(* The documents of a completed selection exist and have the right kind.   *)
LEMMA CompletedRows ==
    ASSUME IInv, NEW sel \in Selections, NEW p \in {0} \cup DOMAIN pubs
    PROVE  /\ DOMAIN Completed(sel, p) \subseteq Kinds
           /\ DOMAIN Completed(sel, p) = Kinds => Completed(sel, p) \in Bundle
           /\ \A k \in DOMAIN Completed(sel, p) :
                 /\ Completed(sel, p)[k] \in Rows
                 /\ docs[Completed(sel, p)[k]].kind = k
<1>1. PICK K \in SUBSET Kinds : sel \in [K -> Rows]
  BY DEF Selections
<1>2. \A k \in K : docs[sel[k]].kind = k
  BY <1>1 DEF Selections
<1>3. CASE p = 0
  BY <1>1, <1>2, <1>3 DEF Completed, Bundle, Rows
<1>4. CASE p # 0
  <2>1. p \in DOMAIN pubs /\ SoundIn(docs, pubs[p]) /\ pubs[p] \in Publication
    BY <1>4 DEF IInv, TypeOK
  <2>2. \A k \in Kinds : /\ pubs[p].bundle[k] \in Rows
                         /\ docs[pubs[p].bundle[k]].kind = k
    BY <2>1 DEF SoundIn, Publication, Bundle, Rows
  <2>3. Completed(sel, p) =
           [k \in Kinds |-> IF k \in K THEN sel[k] ELSE pubs[p].bundle[k]]
    BY <1>1, <1>4, <2>1 DEF Completed
  <2>4. QED BY <1>1, <1>2, <2>2, <2>3 DEF Bundle, Rows
<1>5. QED BY <1>3, <1>4

-----------------------------------------------------------------------------
(* A step that leaves the publications alone and frozen content unaltered  *)
(* keeps the invariant.                                                    *)
LEMMA DocumentStep ==
    ASSUME IInv, DocsOK', ApprovedStatus', KeepsFrozen(docs, docs'), pubs' = pubs
    PROVE  IInv'
<1>1. TypeOK'
  BY DEF IInv, TypeOK, DocsOK
<1>2. OneActivePerSlot'
  BY DEF IInv, OneActivePerSlot
<1>3. ASSUME NEW i \in DOMAIN pubs PROVE SoundIn(docs', pubs[i])
  <2>1. pubs[i] \in Publication /\ SoundIn(docs, pubs[i])
    BY DEF IInv, TypeOK
  <2>2. QED BY <2>1, SoundStable
<1>4. QED BY <1>1, <1>2, <1>3 DEF IInv

LEMMA PublicationStep ==
    ASSUME IInv, DocsOK', ApprovedStatus', KeepsFrozen(docs, docs'),
           NEW p \in Publication, p.active, SoundIn(docs', p),
           pubs' = Activated(GetActive(p.env, p.owner.scope, p.owner.tenant), p)
    PROVE  IInv'
<1>1. /\ pubs' \in Seq(Publication)
      /\ OneActivePerSlot'
      /\ \A i \in DOMAIN pubs' : SoundIn(docs', pubs'[i])
  BY InsertedPublication
<1>2. QED BY <1>1 DEF IInv, TypeOK, DocsOK

LEMMA PublishPreserves ==
    ASSUME IInv, NEW sel \in Selections, NEW env \in Environments,
           NEW owner \in Owners, PublishDocuments(sel, env, owner)
    PROVE  IInv'
<1> DEFINE bundle == PublishBundle(sel, env, owner)
           p == [env |-> env, owner |-> owner, bundle |-> bundle,
                 hash |-> DefsOf(bundle), active |-> TRUE]
<1>0. TypeOK /\ ApprovedStatus
  BY DEF IInv
<1>1. /\ DOMAIN bundle = Kinds
      /\ \A k \in Kinds : /\ docs[bundle[k]].owner = owner
                          /\ docs[bundle[k]].status \in {"approved", "published"}
      /\ \A k \in Kinds : ~HasError(k, DefsOf(bundle))
      /\ pubs' = Activated(GetActive(env, owner.scope, owner.tenant), p)
      /\ docs' = [d \in DocIds |->
                    IF \E k \in Kinds : bundle[k] = d
                    THEN [docs[d] EXCEPT !.status = "published"] ELSE docs[d]]
  BY DEF PublishDocuments, MayPublish, ValidationFails, DefsOf
<1>2. /\ bundle \in Bundle
      /\ \A k \in Kinds : bundle[k] \in Rows /\ docs[bundle[k]].kind = k
  <2>1. GetActive(env, owner.scope, owner.tenant) \in {0} \cup DOMAIN pubs
    BY <1>0, GetActiveRow DEF TypeOK, ActiveRows
  <2>2. QED BY <1>0, <1>1, <2>1, CompletedRows DEF PublishBundle
<1>3. ASSUME NEW r \in Document
      PROVE  LET q == [r EXCEPT !.status = "published"]
             IN  /\ q \in Document /\ q # NoDocument /\ q.status = "published"
                 /\ q.kind = r.kind /\ q.owner = r.owner /\ q.defn = r.defn
                 /\ q.approved = r.approved
  BY StoreAssumptions DEF Document, Status
<1>4. \A d \in Rows : docs[d] \in Document
  BY <1>0 DEF TypeOK, Rows
<1> HIDE DEF bundle
<1>5. \A d \in DocIds : \/ docs'[d] = docs[d] /\ \A k \in Kinds : bundle[k] # d
                        \/ /\ d \in Rows
                           /\ docs[d].status \in {"approved", "published"}
                           /\ docs'[d] = [docs[d] EXCEPT !.status = "published"]
  BY <1>1, <1>2
<1>6. DocsOK'
  <2>1. ASSUME NEW d \in DocIds PROVE docs'[d] \in Document \cup {NoDocument}
    <3>1. CASE docs'[d] = docs[d]
      BY <1>0, <3>1 DEF TypeOK
    <3>2. CASE d \in Rows /\ docs'[d] = [docs[d] EXCEPT !.status = "published"]
      <4>1. docs[d] \in Document
        BY <1>4, <3>2
      <4>2. QED BY <1>3, <3>2, <4>1
    <3>3. QED BY <1>5, <3>1, <3>2
  <2>2. QED BY <1>1, <2>1 DEF DocsOK
<1>7. ApprovedStatus'
  BY <1>0, <1>3, <1>4, <1>5 DEF ApprovedStatus, Rows
<1>8. KeepsFrozen(docs, docs')
  <2> SUFFICES ASSUME NEW d \in DocIds, docs[d] # NoDocument,
                      docs[d].status \in {"published", "archived"}
               PROVE  Unaltered(docs, docs', d)
    BY DEF KeepsFrozen
  <2>1. CASE docs'[d] = docs[d]
    BY <2>1 DEF Unaltered
  <2>2. CASE docs'[d] = [docs[d] EXCEPT !.status = "published"]
    <3>1. docs[d] \in Document
      BY <1>4 DEF Rows
    <3>2. QED BY <1>3, <2>2, <3>1 DEF Unaltered
  <2>3. QED BY <1>5, <2>1, <2>2
<1>9. \A k \in Kinds : /\ docs'[bundle[k]] = [docs[bundle[k]] EXCEPT !.status = "published"]
                       /\ docs[bundle[k]] \in Document
                       /\ docs[bundle[k]].approved
  BY <1>0, <1>1, <1>2, <1>4, <1>5 DEF ApprovedStatus, Rows
<1>10. \A k \in Kinds : /\ docs'[bundle[k]] # NoDocument
                        /\ docs'[bundle[k]].kind = k
                        /\ docs'[bundle[k]].owner = owner
                        /\ docs'[bundle[k]].status \in {"published", "archived"}
                        /\ docs'[bundle[k]].approved
                        /\ docs'[bundle[k]].defn = docs[bundle[k]].defn
  <2> TAKE k \in Kinds
  <2> DEFINE r == docs[bundle[k]]
             q == [r EXCEPT !.status = "published"]
  <2>1. r \in Document /\ docs'[bundle[k]] = q
    BY <1>9
  <2>2. r.approved /\ r.kind = k /\ r.owner = owner
    BY <1>1, <1>2, <1>9
  <2>3. /\ q # NoDocument /\ q.status = "published" /\ q.kind = r.kind
        /\ q.owner = r.owner /\ q.defn = r.defn /\ q.approved = r.approved
    BY <1>3, <2>1
  <2> HIDE DEF r, q
  <2>4. QED BY <2>1, <2>2, <2>3 DEF r
<1>11. [k \in Kinds |-> docs'[bundle[k]].defn] = DefsOf(bundle)
  BY <1>1, <1>10 DEF DefsOf
<1>12. SoundIn(docs', p)
  <2> DEFINE content == [k \in Kinds |-> docs'[bundle[k]].defn]
  <2>1. content = DefsOf(bundle)
    BY <1>11
  <2>2. \A k \in Kinds : ~HasError(k, content)
    <3> HIDE DEF content
    <3>1. QED BY <1>1, <2>1
  <2>3. QED BY <1>10, <2>1, <2>2 DEF SoundIn
<1>13. p \in Publication
  <2>1. \A k \in Kinds : docs[bundle[k]].defn \in Definitions
    BY <1>9 DEF Document
  <2>2. DefsOf(bundle) \in [Kinds -> Definitions]
    BY <1>1, <2>1 DEF DefsOf
  <2>3. QED BY <1>2, <2>2 DEF Publication
<1>14. QED
  <2>1. p.active /\ p.env = env /\ p.owner = owner
    OBVIOUS
  <2> HIDE DEF p
  <2>2. QED BY <1>1, <1>6, <1>7, <1>8, <1>12, <1>13, <2>1, PublicationStep

LEMMA RollbackPreserves ==
    ASSUME IInv, NEW t \in DOMAIN pubs, RollbackPublication(t)
    PROVE  IInv'
<1> DEFINE p == [pubs[t] EXCEPT !.active = TRUE]
<1>1. pubs[t] \in Publication /\ SoundIn(docs, pubs[t])
  BY DEF IInv, TypeOK
<1>2. /\ p \in Publication /\ p.active
      /\ p.env = pubs[t].env /\ p.owner = pubs[t].owner
      /\ p.bundle = pubs[t].bundle /\ p.hash = pubs[t].hash
  <2>1. ASSUME NEW r \in Publication
        PROVE  LET q == [r EXCEPT !.active = TRUE]
               IN  /\ q \in Publication /\ q.active /\ q.env = r.env
                   /\ q.owner = r.owner /\ q.bundle = r.bundle /\ q.hash = r.hash
    BY DEF Publication
  <2>2. QED BY <1>1, <2>1
<1>3. /\ docs' = docs
      /\ pubs' = Activated(GetActive(p.env, p.owner.scope, p.owner.tenant), p)
  BY <1>2 DEF RollbackPublication
<1> HIDE DEF p
<1>4. SoundIn(docs', p)
  BY <1>1, <1>2, <1>3, SoundSame
<1>5. DocsOK' /\ ApprovedStatus' /\ KeepsFrozen(docs, docs')
  BY <1>3 DEF IInv, TypeOK, DocsOK, ApprovedStatus, Rows, KeepsFrozen, Unaltered
<1>6. QED BY <1>2, <1>3, <1>4, <1>5, PublicationStep

LEMMA DocumentActionsPreserve ==
    ASSUME IInv, NEW d \in Rows,
           \/ \E defn \in DefinitionsOf[docs[d].kind] :
                 \/ EditDocument(d, defn)
                 \/ \E fresh \in DocIds : ReviseDocument(d, fresh, defn)
           \/ ApproveDocument(d)
           \/ ArchiveDocument(d)
    PROVE  IInv'
<1>0. TypeOK /\ ApprovedStatus /\ d \in DocIds /\ docs[d] # NoDocument
  BY DEF IInv, Rows
<1>1. docs[d] \in Document /\ docs[d].kind \in Kinds
  BY <1>0 DEF TypeOK, Document
<1>2. ASSUME NEW defn \in DefinitionsOf[docs[d].kind], EditDocument(d, defn)
      PROVE  IInv'
  <2> DEFINE doc == [docs[d] EXCEPT !.defn = defn, !.status = "draft", !.approved = FALSE]
  <2>1. docs' = [docs EXCEPT ![d] = doc] /\ pubs' = pubs
    BY <1>2 DEF EditDocument
  <2>2. doc \in Document /\ doc.status = "draft"
    BY <1>1 DEF Document, Status, Definitions
  <2>3. docs[d].status \notin {"published", "archived"}
    BY <1>2 DEF EditDocument
  <2> HIDE DEF doc
  <2>4. QED BY <1>0, <2>1, <2>2, <2>3, WriteDocument, DocumentStep
<1>3. ASSUME NEW defn \in DefinitionsOf[docs[d].kind], NEW fresh \in DocIds,
             ReviseDocument(d, fresh, defn)
      PROVE  IInv'
  <2> DEFINE doc == Draft(docs[d].kind, docs[d].owner, defn)
  <2>1. /\ docs' = [docs EXCEPT ![fresh] = doc] /\ pubs' = pubs
        /\ docs[fresh] = NoDocument
    BY <1>3 DEF ReviseDocument
  <2>2. doc \in Document /\ doc.status = "draft"
    BY <1>1 DEF Draft, Document, Status, Definitions
  <2> HIDE DEF doc
  <2>3. QED BY <1>0, <2>1, <2>2, WriteDocument, DocumentStep
<1>4. CASE ApproveDocument(d)
  <2> DEFINE doc == [docs[d] EXCEPT !.status = "approved", !.approved = TRUE]
  <2>1. docs' = [docs EXCEPT ![d] = doc] /\ pubs' = pubs
    BY <1>4 DEF ApproveDocument
  <2>2. doc \in Document /\ doc.approved
    BY <1>1 DEF Document, Status
  <2>3. docs[d].status \notin {"published", "archived"}
    BY <1>4 DEF ApproveDocument
  <2> HIDE DEF doc
  <2>4. QED BY <1>0, <2>1, <2>2, <2>3, WriteDocument, DocumentStep
<1>5. CASE ArchiveDocument(d)
  <2> DEFINE doc == [docs[d] EXCEPT !.status = "archived"]
  <2>1. docs' = [docs EXCEPT ![d] = doc] /\ pubs' = pubs
    BY <1>5 DEF ArchiveDocument
  <2>2. /\ doc \in Document /\ doc.status = "archived"
        /\ doc.kind = docs[d].kind /\ doc.owner = docs[d].owner
        /\ doc.defn = docs[d].defn /\ doc.approved = docs[d].approved
    BY <1>1 DEF Document, Status
  <2> HIDE DEF doc
  <2>3. docs'[d] = doc
    BY <1>0, <2>1 DEF TypeOK
  <2>4. Unaltered(docs, docs', d)
    BY <2>2, <2>3, StoreAssumptions DEF Unaltered
  <2>5. QED BY <1>0, <2>1, <2>2, <2>4, WriteDocument, DocumentStep
<1>6. QED BY <1>2, <1>3, <1>4, <1>5

LEMMA ValidationPreserves ==
    ASSUME IInv, NEW sel \in Selections, NEW p \in {0} \cup DOMAIN pubs,
           docs' = Revalidated(Completed(sel, p)), pubs' = pubs
    PROVE  IInv'
<1>1. \A k \in DOMAIN Completed(sel, p) : Completed(sel, p)[k] \in Rows
  BY CompletedRows
<1>2. TypeOK /\ ApprovedStatus
  BY DEF IInv
<1>3. QED BY <1>1, <1>2, RevalidatedDocs, DocumentStep

(* Init and every handler establish the invariant.                         *)
THEOREM Invariance == Spec => []IInv
<1>1. Init => IInv
  BY DEF Init, IInv, TypeOK, OneActivePerSlot, ApprovedStatus, Rows
<1>2. IInv /\ [Next]_vars => IInv'
  <2> SUFFICES ASSUME IInv, [Next]_vars PROVE IInv'
    OBVIOUS
  <2>0. TypeOK /\ ApprovedStatus
    BY DEF IInv
  <2>1. ASSUME NEW d \in DocIds, NEW k \in Kinds, NEW owner \in Owners,
               NEW defn \in DefinitionsOf[k], CreateDocument(d, k, owner, defn)
        PROVE  IInv'
    <3>1. Draft(k, owner, defn) \in Document /\ Draft(k, owner, defn).status = "draft"
      BY DEF Draft, Document, Status, Definitions
    <3>2. /\ docs' = [docs EXCEPT ![d] = Draft(k, owner, defn)] /\ pubs' = pubs
          /\ docs[d] = NoDocument
      BY <2>1 DEF CreateDocument
    <3>3. QED BY <2>0, <3>1, <3>2, WriteDocument, DocumentStep
  <2>2. ASSUME NEW d \in Rows,
               \/ \E defn \in DefinitionsOf[docs[d].kind] :
                     \/ EditDocument(d, defn)
                     \/ \E fresh \in DocIds : ReviseDocument(d, fresh, defn)
               \/ ApproveDocument(d)
               \/ ArchiveDocument(d)
        PROVE  IInv'
    BY <2>2, DocumentActionsPreserve
  <2>3. ASSUME NEW sel \in Selections, NEW env \in Environments,
               NEW tenant \in Tenants \cup {NoTenant}, ValidateDocuments(sel, env, tenant)
        PROVE  IInv'
    <3>1. sel = Completed(sel, 0)
      BY DEF Completed
    <3>2. ResolveSnapshot(env, tenant) \in {0} \cup DOMAIN pubs
      BY <2>0, ResolvedRow DEF TypeOK
    <3>3. PICK p \in {0} \cup DOMAIN pubs :
             docs' = Revalidated(Completed(sel, p)) /\ pubs' = pubs
      BY <2>3, <3>1, <3>2 DEF ValidateDocuments
    <3>4. QED BY <3>3, ValidationPreserves
  <2>4. ASSUME NEW sel \in Selections, NEW env \in Environments, NEW owner \in Owners,
               PublishRejected(sel, env, owner)
        PROVE  IInv'
    <3>1. GetActive(env, owner.scope, owner.tenant) \in {0} \cup DOMAIN pubs
      BY <2>0, GetActiveRow DEF TypeOK, ActiveRows
    <3>2. QED BY <2>4, <3>1, ValidationPreserves DEF PublishRejected, PublishBundle
  <2>5. ASSUME NEW sel \in Selections, NEW env \in Environments, NEW owner \in Owners,
               PublishDocuments(sel, env, owner)
        PROVE  IInv'
    BY <2>5, PublishPreserves
  <2>6. ASSUME NEW t \in DOMAIN pubs, RollbackPublication(t) PROVE IInv'
    BY <2>6, RollbackPreserves
  <2>7. CASE UNCHANGED vars
    BY <2>7 DEF vars, IInv, TypeOK, OneActivePerSlot, ApprovedStatus, Rows
  <2>8. QED BY <2>1, <2>2, <2>3, <2>4, <2>5, <2>6, <2>7 DEF Next
<1>3. QED BY <1>1, <1>2, PTL DEF Spec
-----------------------------------------------------------------------------
(* The tables keep their types, whatever requests arrive.                  *)
THEOREM TypeCorrect == Spec => []TypeOK
<1>1. IInv => TypeOK
  BY DEF IInv
<1>2. QED BY <1>1, Invariance, PTL

(* No sequence of publishes and rollbacks leaves two active publications   *)
(* in one slot.                                                            *)
THEOREM SingleActive == Spec => []OneActivePerSlot
<1>1. IInv => OneActivePerSlot
  BY DEF IInv
<1>2. QED BY <1>1, Invariance, PTL

(* Every publication, also a superseded one that a rollback may return to, *)
(* keeps the content its hash was computed from, and that content is       *)
(* approved, valid and of the publication's own scope.                     *)
THEOREM PublicationsSound ==
    Spec => [](SnapshotIntact /\ PublishedApprovedAndValid /\ PublishedFrozen)
<1>1. ASSUME IInv, NEW i \in DOMAIN pubs
      PROVE  /\ DefsOf(pubs[i].bundle) = pubs[i].hash
             /\ ~ValidationFails(DefsOf(pubs[i].bundle))
             /\ \A k \in Kinds : /\ pubs[i].bundle[k] \in Rows
                                 /\ docs[pubs[i].bundle[k]].approved
                                 /\ docs[pubs[i].bundle[k]].kind = k
                                 /\ docs[pubs[i].bundle[k]].owner = pubs[i].owner
                                 /\ docs[pubs[i].bundle[k]].status \in {"published", "archived"}
  <2> DEFINE content == [k \in Kinds |-> docs[pubs[i].bundle[k]].defn]
  <2>1. pubs[i] \in Publication /\ SoundIn(docs, pubs[i])
    BY <1>1 DEF IInv, TypeOK
  <2>2. DOMAIN pubs[i].bundle = Kinds /\ \A k \in Kinds : pubs[i].bundle[k] \in DocIds
    BY <2>1 DEF Publication, Bundle
  <2>3. content = DefsOf(pubs[i].bundle)
    BY <2>2 DEF DefsOf
  <2>4. content = pubs[i].hash /\ \A k \in Kinds : ~HasError(k, content)
    BY <2>1 DEF SoundIn
  <2>5. ~ValidationFails(content)
    <3>1. DOMAIN content = Kinds
      OBVIOUS
    <3> HIDE DEF content
    <3>2. QED BY <2>4, <3>1 DEF ValidationFails
  <2>6. \A k \in Kinds : /\ docs[pubs[i].bundle[k]] # NoDocument
                         /\ docs[pubs[i].bundle[k]].approved
                         /\ docs[pubs[i].bundle[k]].kind = k
                         /\ docs[pubs[i].bundle[k]].owner = pubs[i].owner
                         /\ docs[pubs[i].bundle[k]].status \in {"published", "archived"}
    BY <2>1 DEF SoundIn
  <2> HIDE DEF content
  <2>7. QED BY <2>2, <2>3, <2>4, <2>5, <2>6 DEF Rows
<1>2. IInv => SnapshotIntact /\ PublishedApprovedAndValid /\ PublishedFrozen
  BY <1>1 DEF SnapshotIntact, PublishedApprovedAndValid, PublishedFrozen
<1>3. QED BY <1>2, Invariance, PTL

(* Content that is served has been approved since it was last edited, and  *)
(* validates as a whole.                                                   *)
THEOREM ServedIsApprovedAndValid == Spec => []PublishedApprovedAndValid
BY PublicationsSound, PTL

(* A publication's documents are out of reach of in-place edits.           *)
THEOREM PublishedStaysFrozen == Spec => []PublishedFrozen
BY PublicationsSound, PTL
-----------------------------------------------------------------------------
(* The refinement.  What a slot serves is the hash of its active row, if   *)
(* it has one.                                                             *)
ServedBy(s) == \/ (\A i \in InSlot(s) : ~pubs[i].active) /\ Serving(s) = NoDocument
               \/ \E i \in InSlot(s) : pubs[i].active /\ Serving(s) = pubs[i].hash
Serves == \A s \in Slots : ServedBy(s)

LEMMA ActiveServes == IInv => Serves
<1> SUFFICES ASSUME IInv, NEW s \in Slots PROVE ServedBy(s)
  BY DEF Serves
<1> DEFINE rows == ActiveRows(s[1], s[2].scope, s[2].tenant)
           p == GetActive(s[1], s[2].scope, s[2].tenant)
<1>0. TypeOK /\ pubs \in Seq(Publication)
  BY DEF IInv, TypeOK
<1>1. s[1] \in Environments /\ s[2] \in Owners /\ s = <<s[1], s[2]>>
  BY DEF Slots
<1>2. p \in {0} \cup rows
  BY <1>0, GetActiveRow
<1>3. \A i \in rows : i \in InSlot(s) /\ pubs[i].active
  <2> TAKE i \in rows
  <2>1. pubs[i].owner = s[2]
    BY <1>0, <1>1, ActiveRowsOfSlot
  <2>2. i \in DOMAIN pubs /\ pubs[i].active /\ pubs[i].env = s[1]
    BY DEF ActiveRows
  <2>3. QED BY <1>1, <2>1, <2>2 DEF InSlot
<1>4. \A i \in InSlot(s) : pubs[i].active => i = p
  <2> TAKE i \in InSlot(s)
  <2>1. i \in DOMAIN pubs /\ pubs[i].env = s[1] /\ pubs[i].owner = s[2]
    BY <1>1 DEF InSlot
  <2>2. QED BY <1>0, <2>1, ActiveIsGetActive DEF IInv
<1>5. 0 \notin DOMAIN pubs
  BY <1>0
<1> HIDE DEF p, rows
<1>6. CASE p = 0
  <2>1. \A i \in InSlot(s) : ~pubs[i].active
    BY <1>4, <1>5, <1>6 DEF InSlot
  <2>2. Serving(s) = NoDocument
    BY <1>6 DEF Serving, p
  <2>3. QED BY <2>1, <2>2 DEF ServedBy
<1>7. CASE p # 0
  <2>1. p \in InSlot(s) /\ pubs[p].active
    BY <1>2, <1>3, <1>7
  <2>2. Serving(s) = DefsOf(pubs[p].bundle)
    BY <1>7 DEF Serving, p
  <2>3. pubs[p] \in Publication /\ SoundIn(docs, pubs[p])
    BY <2>1 DEF IInv, TypeOK, InSlot
  <2>4. DefsOf(pubs[p].bundle) = pubs[p].hash
    BY <2>3 DEF SoundIn, DefsOf, Publication, Bundle
  <2>5. QED BY <2>1, <2>2, <2>4 DEF ServedBy
<1>8. QED BY <1>6, <1>7

LEMMA ActiveServesNext == IInv' => Serves'
BY ActiveServes, PTL

(* A slot serves what it served if its rows are what they were.            *)
LEMMA ServesTheSame ==
    ASSUME IInv, IInv', NEW s \in Slots, InSlot(s)' = InSlot(s),
           \A i \in InSlot(s) : pubs'[i].hash = pubs[i].hash /\ pubs'[i].active = pubs[i].active
    PROVE  /\ Serving(s)' = Serving(s)
           /\ {pubs[i].hash : i \in InSlot(s)}' = {pubs[i].hash : i \in InSlot(s)}
<1>1. ServedBy(s) /\ ServedBy(s)'
  BY ActiveServes, ActiveServesNext DEF Serves
<1>2. \A i, j \in InSlot(s) : pubs[i].active /\ pubs[j].active => i = j
  BY DEF IInv, OneActivePerSlot, InSlot
<1>3. Serving(s)' = Serving(s)
  BY <1>1, <1>2 DEF ServedBy
<1>4. QED BY <1>3

LEMMA DocumentStepStutters ==
    ASSUME IInv, IInv', pubs' = pubs
    PROVE  UNCHANGED Registry!registryVars
<1>1. \A s \in Slots : /\ Serving(s)' = Serving(s)
                       /\ {pubs[i].hash : i \in InSlot(s)}' = {pubs[i].hash : i \in InSlot(s)}
  <2> TAKE s \in Slots
  <2>1. InSlot(s)' = InSlot(s)
    BY DEF InSlot
  <2>2. QED BY <2>1, ServesTheSame
<1>2. QED BY <1>1 DEF Registry!registryVars

(* An inserted publication is served in its slot, and nothing changes in   *)
(* the others.                                                             *)
LEMMA InsertionServes ==
    ASSUME IInv, IInv', NEW p \in Publication, p.active,
           pubs' = Activated(GetActive(p.env, p.owner.scope, p.owner.tenant), p),
           p.hash \in ValidContents \cup {pubs[i].hash : i \in InSlot(<<p.env, p.owner>>)}
    PROVE  Registry!Next
<1> DEFINE prior == GetActive(p.env, p.owner.scope, p.owner.tenant)
           n == Len(pubs)
           slot == <<p.env, p.owner>>
           hashes(s) == {pubs[i].hash : i \in InSlot(s)}
           served == [s \in Slots |-> Serving(s)]
           released == [s \in Slots |-> hashes(s)]
<1>0. TypeOK /\ pubs \in Seq(Publication) /\ n \in Nat /\ DOMAIN pubs = 1..n
  BY DEF IInv, TypeOK
<1>1. p.env \in Environments /\ p.owner \in Owners /\ slot \in Slots
  BY DEF Publication, Slots
<1>2. prior = 0 \/ prior \in InSlot(slot)
  <2>1. prior \in {0} \cup ActiveRows(p.env, p.owner.scope, p.owner.tenant)
    BY <1>0, GetActiveRow
  <2>2. ASSUME NEW i \in ActiveRows(p.env, p.owner.scope, p.owner.tenant)
        PROVE  i \in InSlot(slot)
    <3>1. pubs[i].owner = p.owner
      BY <1>0, <1>1, ActiveRowsOfSlot
    <3>2. i \in DOMAIN pubs /\ pubs[i].env = p.env
      BY DEF ActiveRows
    <3>3. QED BY <3>1, <3>2 DEF InSlot
  <2>3. QED BY <2>1, <2>2
<1> HIDE DEF prior
<1>3. /\ Len(pubs') = n + 1 /\ pubs' \in Seq(Publication) /\ pubs'[n + 1] = p
      /\ \A i \in 1..n : pubs'[i] = IF i = prior THEN [pubs[i] EXCEPT !.active = FALSE] ELSE pubs[i]
  <2>1. pubs' = Activated(prior, p)
    BY DEF prior
  <2>2. QED BY <1>0, <2>1, ActivatedShape
<1>4. DOMAIN pubs' = 1..(n + 1)
  BY <1>0, <1>3
<1>5. ASSUME NEW i \in 1..n
      PROVE  /\ pubs'[i].env = pubs[i].env /\ pubs'[i].owner = pubs[i].owner
             /\ pubs'[i].hash = pubs[i].hash
             /\ i # prior => pubs'[i].active = pubs[i].active
  <2>1. pubs[i] \in Publication
    BY <1>0
  <2>2. ASSUME NEW r \in Publication
        PROVE  LET q == [r EXCEPT !.active = FALSE]
               IN  q.env = r.env /\ q.owner = r.owner /\ q.hash = r.hash
    BY DEF Publication
  <2>3. QED BY <1>3, <2>1, <2>2
<1>6. ASSUME NEW s \in Slots, s # slot
      PROVE  Serving(s)' = Serving(s) /\ hashes(s)' = hashes(s)
  <2>1. InSlot(s)' = InSlot(s)
    BY <1>0, <1>3, <1>4, <1>5, <1>6 DEF InSlot
  <2>2. \A i \in InSlot(s) : i \in 1..n /\ i # prior
    BY <1>0, <1>2, <1>6 DEF InSlot
  <2>3. \A i \in InSlot(s) : pubs'[i].hash = pubs[i].hash /\ pubs'[i].active = pubs[i].active
    BY <1>5, <2>2
  <2>4. QED BY <2>1, <2>3, ServesTheSame
<1>7. InSlot(slot)' = InSlot(slot) \cup {n + 1}
  <2>1. /\ InSlot(slot)' = {i \in 1..(n + 1) : <<pubs'[i].env, pubs'[i].owner>> = <<p.env, p.owner>>'}
        /\ InSlot(slot) = {i \in 1..n : <<pubs[i].env, pubs[i].owner>> = slot}
    BY <1>0, <1>4 DEF InSlot
  <2>2. QED BY <1>0, <1>3, <1>5, <2>1
<1>8. hashes(slot)' = hashes(slot) \cup {p.hash}
  <2>1. InSlot(slot) \subseteq 1..n
    BY <1>0 DEF InSlot
  <2> HIDE DEF slot
  <2>2. hashes(slot)' = {pubs'[i].hash : i \in InSlot(slot) \cup {n + 1}}
    BY <1>7
  <2>3. \A i \in InSlot(slot) : pubs'[i].hash = pubs[i].hash
    BY <1>5, <2>1
  <2>4. {pubs'[i].hash : i \in InSlot(slot)} = hashes(slot)
    BY <2>3
  <2>5. {pubs'[i].hash : i \in InSlot(slot) \cup {n + 1}}
           = {pubs'[i].hash : i \in InSlot(slot)} \cup {pubs'[n + 1].hash}
    OBVIOUS
  <2>6. pubs'[n + 1].hash = p.hash
    BY <1>3
  <2>7. QED BY <2>2, <2>4, <2>5, <2>6, Zenon
<1>9. Serving(slot)' = p.hash
  <2>1. ServedBy(slot)'
    BY <1>1, ActiveServesNext DEF Serves
  <2>2. n + 1 \in InSlot(slot)' /\ pubs'[n + 1].active
    BY <1>3, <1>7
  <2>3. \A i \in InSlot(slot)' : pubs'[i].active => i = n + 1
    BY <2>2 DEF IInv, OneActivePerSlot, InSlot
  <2>4. QED BY <1>3, <2>1, <2>2, <2>3 DEF ServedBy
<1> HIDE DEF hashes
<1>10. served' = [served EXCEPT ![slot] = p.hash]
  BY <1>6, <1>9
<1>11. released' = [released EXCEPT ![slot] = released[slot] \cup {p.hash}]
  BY <1>1, <1>6, <1>8
<1>12. p.hash \in released'[slot] /\ p.hash \in released[slot] \cup ValidContents
  BY <1>1, <1>8 DEF hashes
<1>13. Registry!Serve(slot, p.hash)
  <2>1. Registry!Serve(slot, p.hash) <=>
           /\ served' = [served EXCEPT ![slot] = p.hash]
           /\ released' = [released EXCEPT ![slot] = @ \cup {p.hash}]
    BY DEF Registry!Serve, hashes
  <2> HIDE DEF served, released
  <2>2. QED BY <1>10, <1>11, <2>1
<1>14. Registry!Next <=>
          \E s \in Slots : \E snapshot \in released'[s] :
             snapshot \in released[s] \cup ValidContents /\ Registry!Serve(s, snapshot)
  BY DEF Registry!Next, hashes
<1> HIDE DEF served, released
<1>15. QED BY <1>1, <1>12, <1>13, <1>14

LEMMA PublishServes ==
    ASSUME IInv, IInv', NEW sel \in Selections, NEW env \in Environments, NEW owner \in Owners,
           PublishDocuments(sel, env, owner)
    PROVE  Registry!Next
<1> DEFINE bundle == PublishBundle(sel, env, owner)
           p == [env |-> env, owner |-> owner, bundle |-> bundle,
                 hash |-> DefsOf(bundle), active |-> TRUE]
<1>0. TypeOK
  BY DEF IInv
<1>1. /\ DOMAIN bundle = Kinds /\ ~Raises(DefsOf(bundle)) /\ ~ValidationFails(DefsOf(bundle))
      /\ pubs' = Activated(GetActive(env, owner.scope, owner.tenant), p)
  BY DEF PublishDocuments, MayPublish
<1>2. bundle \in Bundle /\ \A k \in Kinds : bundle[k] \in Rows
  <2>1. GetActive(env, owner.scope, owner.tenant) \in {0} \cup DOMAIN pubs
    BY <1>0, GetActiveRow DEF TypeOK, ActiveRows
  <2>2. QED BY <1>1, <2>1, CompletedRows DEF PublishBundle
<1> HIDE DEF bundle
<1>3. DefsOf(bundle) \in [Kinds -> Definitions]
  <2>1. \A k \in Kinds : docs[bundle[k]].defn \in Definitions
    BY <1>0, <1>2 DEF TypeOK, Rows, Document
  <2>2. QED BY <1>1, <2>1 DEF DefsOf
<1>4. DefsOf(bundle) \in ValidContents
  BY <1>1, <1>3 DEF ValidContents
<1>5. /\ p \in Publication /\ p.active /\ p.hash \in ValidContents
      /\ p.env = env /\ p.owner = owner
  BY <1>2, <1>3, <1>4 DEF Publication
<1> HIDE DEF p
<1>6. QED BY <1>1, <1>5, InsertionServes

LEMMA RollbackServes ==
    ASSUME IInv, IInv', NEW t \in DOMAIN pubs, RollbackPublication(t)
    PROVE  Registry!Next
<1> DEFINE p == [pubs[t] EXCEPT !.active = TRUE]
<1>1. pubs[t] \in Publication
  BY DEF IInv, TypeOK
<1>2. /\ p \in Publication /\ p.active
      /\ p.env = pubs[t].env /\ p.owner = pubs[t].owner /\ p.hash = pubs[t].hash
  BY <1>1 DEF Publication
<1>3. pubs' = Activated(GetActive(pubs[t].env, pubs[t].owner.scope, pubs[t].owner.tenant), p)
  BY DEF RollbackPublication
<1> HIDE DEF p
<1>4. t \in InSlot(<<p.env, p.owner>>)
  BY <1>2 DEF InSlot
<1>5. QED BY <1>2, <1>3, <1>4, InsertionServes

LEMMA RegistryStep == IInv /\ IInv' /\ [Next]_vars => [Registry!Next]_(Registry!registryVars)
<1> SUFFICES ASSUME IInv, IInv', [Next]_vars PROVE [Registry!Next]_(Registry!registryVars)
  OBVIOUS
<1>1. CASE pubs' = pubs
  BY <1>1, DocumentStepStutters
<1>2. ASSUME NEW sel \in Selections, NEW env \in Environments, NEW owner \in Owners,
             PublishDocuments(sel, env, owner)
      PROVE  Registry!Next
  BY <1>2, PublishServes
<1>3. ASSUME NEW t \in DOMAIN pubs, RollbackPublication(t)
      PROVE  Registry!Next
  BY <1>3, RollbackServes
<1>4. \/ pubs' = pubs
      \/ \E sel \in Selections, env \in Environments, owner \in Owners : PublishDocuments(sel, env, owner)
      \/ \E t \in DOMAIN pubs : RollbackPublication(t)
  BY DEF Next, vars, CreateDocument, EditDocument, ReviseDocument, ApproveDocument, ArchiveDocument,
     ValidateDocuments, PublishRejected
<1>5. QED BY <1>1, <1>2, <1>3, <1>4

(* The control plane implements the registry: a slot serves one immutable, *)
(* valid snapshot, or goes back to one it served before.                   *)
THEOREM ControlImplementsRegistry == Spec => ImplementsRegistry
<1>1. Init => Registry!Init
  <2> SUFFICES ASSUME Init PROVE Registry!Init
    OBVIOUS
  <2>1. pubs = <<>>
    BY DEF Init
  <2>2. ASSUME NEW s \in Slots
        PROVE  Serving(s) = NoDocument /\ {pubs[i].hash : i \in InSlot(s)} = {}
    <3>1. ActiveRows(s[1], s[2].scope, s[2].tenant) = {}
      BY <2>1 DEF ActiveRows
    <3>2. GetActive(s[1], s[2].scope, s[2].tenant) = 0
      BY <3>1 DEF GetActive, Latest
    <3>3. InSlot(s) = {}
      BY <2>1 DEF InSlot
    <3>4. QED BY <3>2, <3>3 DEF Serving
  <2>3. QED BY <2>2 DEF Registry!Init
<1>2. QED BY <1>1, Invariance, RegistryStep, PTL DEF Spec, ImplementsRegistry, Registry!Spec
-----------------------------------------------------------------------------
(* Scopes and tenants: what an inserted publication does to the queries of *)
(* resolve_snapshot, tenant by tenant.                                     *)
Inserts(p) == pubs' = Activated(GetActive(p.env, p.owner.scope, p.owner.tenant), p)

(* The query for (env, scope, tenant) looks at p's rows.                   *)
Matches(p, env, scope, tenant) ==
    p.env = env /\ p.owner.scope = scope /\ (tenant # NoTenant => p.owner.tenant = tenant)

LEMMA InsertedRows ==
    ASSUME IInv, NEW p \in Publication, p.active, Inserts(p)
    PROVE  /\ DOMAIN pubs' = 1..(Len(pubs) + 1) /\ Len(pubs') = Len(pubs) + 1
           /\ pubs'[Len(pubs) + 1] = p
           /\ \A i \in 1..Len(pubs) :
                 /\ pubs'[i].env = pubs[i].env /\ pubs'[i].owner = pubs[i].owner
                 /\ pubs'[i].hash = pubs[i].hash
                 /\ \/ pubs'[i].active = pubs[i].active
                    \/ pubs[i].env = p.env /\ pubs[i].owner = p.owner /\ ~pubs'[i].active
<1> DEFINE prior == GetActive(p.env, p.owner.scope, p.owner.tenant)
           n == Len(pubs)
<1>0. TypeOK /\ pubs \in Seq(Publication) /\ n \in Nat /\ DOMAIN pubs = 1..n
  BY DEF IInv, TypeOK
<1>1. p.env \in Environments /\ p.owner \in Owners
  BY DEF Publication
<1>2. prior \in {0} \cup ActiveRows(p.env, p.owner.scope, p.owner.tenant)
  BY <1>0, GetActiveRow
<1>3. \A i \in ActiveRows(p.env, p.owner.scope, p.owner.tenant) :
         pubs[i].owner = p.owner /\ pubs[i].env = p.env
  BY <1>0, <1>1, ActiveRowsOfSlot DEF ActiveRows
<1>4. pubs' = Activated(prior, p)
  BY DEF Inserts
<1> HIDE DEF prior
<1>5. /\ Len(pubs') = n + 1 /\ pubs' \in Seq(Publication) /\ pubs'[n + 1] = p
      /\ \A i \in 1..n : pubs'[i] = IF i = prior THEN [pubs[i] EXCEPT !.active = FALSE] ELSE pubs[i]
  BY <1>0, <1>4, ActivatedShape
<1>6. ASSUME NEW i \in 1..n
      PROVE  /\ pubs'[i].env = pubs[i].env /\ pubs'[i].owner = pubs[i].owner
             /\ pubs'[i].hash = pubs[i].hash
             /\ \/ pubs'[i].active = pubs[i].active
                \/ pubs[i].env = p.env /\ pubs[i].owner = p.owner /\ ~pubs'[i].active
  <2>1. pubs[i] \in Publication
    BY <1>0
  <2>2. ASSUME NEW r \in Publication
        PROVE  LET q == [r EXCEPT !.active = FALSE]
               IN  q.env = r.env /\ q.owner = r.owner /\ q.hash = r.hash /\ ~q.active
    BY DEF Publication
  <2>3. CASE i = prior
    <3>1. pubs[i].env = p.env /\ pubs[i].owner = p.owner
      BY <1>2, <1>3, <2>3
    <3>2. QED BY <1>5, <2>1, <2>2, <2>3, <3>1
  <2>4. CASE i # prior
    BY <1>5, <2>4
  <2>5. QED BY <2>3, <2>4
<1>7. QED BY <1>0, <1>5, <1>6

(* A query that does not look at the inserted row's slot finds what it     *)
(* found: the row that made room for it is of the same slot.               *)
LEMMA QueryUnaffected ==
    ASSUME IInv, NEW p \in Publication, p.active, Inserts(p),
           NEW env, NEW scope, NEW tenant, ~Matches(p, env, scope, tenant)
    PROVE  GetActive(env, scope, tenant)' = GetActive(env, scope, tenant)
<1> DEFINE n == Len(pubs)
           Of(row) == row.active /\ row.env = env /\ row.owner.scope = scope
                         /\ (tenant # NoTenant => row.owner.tenant = tenant)
<1>1. n \in Nat /\ DOMAIN pubs = 1..n
  BY DEF IInv, TypeOK
<1>2. DOMAIN pubs' = 1..(n + 1) /\ pubs'[n + 1] = p
  BY InsertedRows
<1>3. ~Of(pubs'[n + 1])
  BY <1>2 DEF Matches
<1>4. \A i \in 1..n : Of(pubs'[i]) <=> Of(pubs[i])
  BY InsertedRows DEF Matches
<1>5. /\ ActiveRows(env, scope, tenant) = {i \in DOMAIN pubs : Of(pubs[i])}
      /\ ActiveRows(env, scope, tenant)' = {i \in DOMAIN pubs' : Of(pubs'[i])}
  BY DEF ActiveRows
<1> HIDE DEF Of
<1>6. {i \in 1..(n + 1) : Of(pubs'[i])} = {i \in 1..n : Of(pubs[i])}
  BY <1>1, <1>3, <1>4
<1>7. ActiveRows(env, scope, tenant)' = ActiveRows(env, scope, tenant)
  BY <1>1, <1>2, <1>5, <1>6
<1>8. QED BY <1>7 DEF GetActive

(* A query that finds a row still finds one after an insertion.            *)
LEMMA QueryStaysFilled ==
    ASSUME IInv, IInv', NEW p \in Publication, p.active, Inserts(p),
           NEW env, NEW scope, NEW tenant, GetActive(env, scope, tenant) # 0
    PROVE  GetActive(env, scope, tenant)' # 0
<1>1. CASE ~Matches(p, env, scope, tenant)
  BY <1>1, QueryUnaffected
<1>2. CASE Matches(p, env, scope, tenant)
  <2> DEFINE rows == ActiveRows(env, scope, tenant)'
  <2>1. pubs' \in Seq(Publication) /\ Len(pubs') \in Nat /\ rows \subseteq 1..Len(pubs')
    BY DEF IInv, TypeOK, ActiveRows
  <2>2. Len(pubs') \in rows
    <3>1. Len(pubs') \in DOMAIN pubs' /\ pubs'[Len(pubs')] = p
      BY InsertedRows DEF IInv, TypeOK
    <3>2. QED BY <1>2, <3>1 DEF ActiveRows, Matches
  <2>3. GetActive(env, scope, tenant)' = Latest(rows)
    BY DEF GetActive
  <2> HIDE DEF rows
  <2>4. Latest(rows) \in rows
    BY <2>1, <2>2, LatestIsGreatest
  <2>5. QED BY <2>1, <2>3, <2>4
<1>3. QED BY <1>1, <1>2

(* What a tenant is served is its publication's hash, in every state.      *)
LEMMA ServedIsHash ==
    IInv => \A env, t : Served(env, t) = LET p == ResolveSnapshot(env, t)
                                         IN  IF p = 0 THEN <<>> ELSE pubs[p].hash
<1> SUFFICES ASSUME IInv, NEW env, NEW t
             PROVE  Served(env, t) = LET p == ResolveSnapshot(env, t)
                                     IN  IF p = 0 THEN <<>> ELSE pubs[p].hash
  OBVIOUS
<1> DEFINE p == ResolveSnapshot(env, t)
<1>1. p \in {0} \cup DOMAIN pubs
  BY ResolvedRow DEF IInv, TypeOK
<1> HIDE DEF p
<1>2. ASSUME p # 0 PROVE DefsOf(pubs[p].bundle) = pubs[p].hash
  <2>1. pubs[p] \in Publication /\ SoundIn(docs, pubs[p])
    BY <1>1, <1>2 DEF IInv, TypeOK
  <2>2. QED BY <2>1 DEF SoundIn, DefsOf, Publication, Bundle
<1>3. QED BY <1>2 DEF Served, p

LEMMA ServedIsHashNext ==
    IInv' => \A env, t : Served(env, t)' = LET p == ResolveSnapshot(env, t)'
                                           IN  IF p = 0 THEN <<>> ELSE pubs'[p].hash
<1>1. IInv => \A env, t : Served(env, t) = LET p == ResolveSnapshot(env, t)
                                           IN  IF p = 0 THEN <<>> ELSE pubs[p].hash
  BY ServedIsHash
<1>2. (IInv => \A env, t : Served(env, t) = LET p == ResolveSnapshot(env, t)
                                           IN  IF p = 0 THEN <<>> ELSE pubs[p].hash)'
  BY <1>1, PTL
<1>3. QED BY <1>2

(* A step either leaves the publications alone or inserts one.             *)
LEMMA StepInserts ==
    ASSUME IInv, [Next]_vars
    PROVE  pubs' = pubs \/ \E p \in Publication : p.active /\ Inserts(p)
<1>1. ASSUME NEW sel \in Selections, NEW env \in Environments, NEW owner \in Owners,
             PublishDocuments(sel, env, owner)
      PROVE  \E p \in Publication : p.active /\ Inserts(p)
  <2> DEFINE bundle == PublishBundle(sel, env, owner)
             p == [env |-> env, owner |-> owner, bundle |-> bundle,
                   hash |-> DefsOf(bundle), active |-> TRUE]
  <2>1. /\ DOMAIN bundle = Kinds
        /\ pubs' = Activated(GetActive(env, owner.scope, owner.tenant), p)
    BY <1>1 DEF PublishDocuments, MayPublish
  <2>2. bundle \in Bundle /\ \A k \in Kinds : bundle[k] \in Rows
    <3>1. GetActive(env, owner.scope, owner.tenant) \in {0} \cup DOMAIN pubs
      BY GetActiveRow DEF IInv, TypeOK, ActiveRows
    <3>2. QED BY <2>1, <3>1, CompletedRows DEF PublishBundle
  <2> HIDE DEF bundle
  <2>3. DefsOf(bundle) \in [Kinds -> Definitions]
    <3>1. \A k \in Kinds : docs[bundle[k]].defn \in Definitions
      BY <2>2 DEF IInv, TypeOK, Rows, Document
    <3>2. QED BY <2>1, <3>1 DEF DefsOf
  <2>4. p \in Publication /\ p.active /\ p.env = env /\ p.owner = owner
    BY <2>2, <2>3 DEF Publication
  <2> HIDE DEF p
  <2>5. QED BY <2>1, <2>4 DEF Inserts
<1>2. ASSUME NEW t \in DOMAIN pubs, RollbackPublication(t)
      PROVE  \E p \in Publication : p.active /\ Inserts(p)
  <2> DEFINE p == [pubs[t] EXCEPT !.active = TRUE]
  <2>1. pubs[t] \in Publication
    BY DEF IInv, TypeOK
  <2>2. p \in Publication /\ p.active /\ p.env = pubs[t].env /\ p.owner = pubs[t].owner
    BY <2>1 DEF Publication
  <2>3. pubs' = Activated(GetActive(pubs[t].env, pubs[t].owner.scope, pubs[t].owner.tenant), p)
    BY <1>2 DEF RollbackPublication
  <2> HIDE DEF p
  <2>4. QED BY <2>2, <2>3 DEF Inserts
<1>3. \/ pubs' = pubs
      \/ \E sel \in Selections, env \in Environments, owner \in Owners : PublishDocuments(sel, env, owner)
      \/ \E t \in DOMAIN pubs : RollbackPublication(t)
  BY DEF Next, vars, CreateDocument, EditDocument, ReviseDocument, ApproveDocument, ArchiveDocument,
     ValidateDocuments, PublishRejected
<1>4. QED BY <1>1, <1>2, <1>3

(* What one tenant is served only changes by a publication in the shared   *)
(* scopes or in that tenant's own.                                         *)
THEOREM OverridesAreIsolated == Spec => OverrideIsolation
<1>1. ASSUME IInv, IInv', [Next]_vars, NEW env \in Environments, NEW t \in Tenants,
             Served(env, t)' # Served(env, t)
      PROVE  /\ Len(pubs') = Len(pubs) + 1
             /\ pubs'[Len(pubs')].env = env
             /\ pubs'[Len(pubs')].owner.tenant \in {t, NoTenant}
  <2>1. /\ Served(env, t) = LET q == ResolveSnapshot(env, t)
                            IN  IF q = 0 THEN <<>> ELSE pubs[q].hash
        /\ Served(env, t)' = LET q == ResolveSnapshot(env, t)'
                             IN  IF q = 0 THEN <<>> ELSE pubs'[q].hash
    BY <1>1, ServedIsHash, ServedIsHashNext
  <2>2. ResolveSnapshot(env, t) \in {0} \cup DOMAIN pubs
    BY <1>1, ResolvedRow DEF IInv, TypeOK
  <2>3. pubs' # pubs
    <3> SUFFICES ASSUME pubs' = pubs PROVE FALSE
      OBVIOUS
    <3>1. ResolveSnapshot(env, t)' = ResolveSnapshot(env, t)
      BY DEF ResolveSnapshot, GetActive, ActiveRows
    <3>2. QED BY <1>1, <2>1, <3>1
  <2>4. PICK p \in Publication : p.active /\ Inserts(p)
    BY <1>1, <2>3, StepInserts
  <2>5. /\ Len(pubs) \in Nat /\ DOMAIN pubs = 1..Len(pubs)
        /\ Len(pubs') = Len(pubs) + 1 /\ pubs'[Len(pubs')] = p
        /\ \A i \in 1..Len(pubs) : pubs'[i].hash = pubs[i].hash
    BY <1>1, <2>4, InsertedRows DEF IInv, TypeOK
  <2>6. ASSUME p.env # env \/ p.owner.tenant \notin {t, NoTenant} PROVE FALSE
    <3>1. p.owner \in AllOwners
      BY StoreAssumptions DEF Publication
    <3>2. p.owner.tenant # NoTenant => p.owner.scope \in {"emergency_override", "tenant"}
      BY <3>1 DEF AllOwners
    <3>3. /\ ~Matches(p, env, "emergency_override", t) /\ ~Matches(p, env, "tenant", t)
          /\ ~Matches(p, env, "environment", NoTenant) /\ ~Matches(p, env, "global", NoTenant)
      BY <2>6, <3>2, StoreAssumptions DEF Matches
    <3>4. ResolveSnapshot(env, t)' = ResolveSnapshot(env, t)
      <4>1. /\ GetActive(env, "emergency_override", t)' = GetActive(env, "emergency_override", t)
            /\ GetActive(env, "tenant", t)' = GetActive(env, "tenant", t)
            /\ GetActive(env, "environment", NoTenant)' = GetActive(env, "environment", NoTenant)
            /\ GetActive(env, "global", NoTenant)' = GetActive(env, "global", NoTenant)
        BY <1>1, <2>4, <3>3, QueryUnaffected
      <4>2. QED BY <4>1 DEF ResolveSnapshot
    <3>5. QED BY <1>1, <2>1, <2>2, <2>5, <3>4
  <2>7. QED BY <2>5, <2>6
<1>2. IInv /\ IInv' /\ [Next]_vars =>
         [\A env \in Environments, t \in Tenants :
             Served(env, t)' # Served(env, t) =>
                 /\ Len(pubs') = Len(pubs) + 1
                 /\ pubs'[Len(pubs')].env = env
                 /\ pubs'[Len(pubs')].owner.tenant \in {t, NoTenant}]_vars
  BY <1>1
<1>3. QED BY <1>2, Invariance, PTL DEF Spec, OverrideIsolation

(* No sequence of publishes and rollbacks leaves a tenant without a        *)
(* configuration once it has one.                                          *)
THEOREM NeverDarkHolds == Spec => NeverDark
<1>1. ASSUME IInv, IInv', [Next]_vars, NEW env \in Environments, NEW t \in Tenants,
             ResolveSnapshot(env, t) # 0
      PROVE  ResolveSnapshot(env, t)' # 0
  <2>1. CASE pubs' = pubs
    BY <1>1, <2>1 DEF ResolveSnapshot, GetActive, ActiveRows
  <2>2. CASE \E p \in Publication : p.active /\ Inserts(p)
    <3>1. \A scope, tenant : GetActive(env, scope, tenant) # 0
                               => GetActive(env, scope, tenant)' # 0
      BY <1>1, <2>2, QueryStaysFilled
    <3>2. \/ GetActive(env, "emergency_override", t) # 0
          \/ GetActive(env, "tenant", t) # 0
          \/ GetActive(env, "environment", NoTenant) # 0
          \/ GetActive(env, "global", NoTenant) # 0
      BY <1>1 DEF ResolveSnapshot
    <3>3. \/ GetActive(env, "emergency_override", t)' # 0
          \/ GetActive(env, "tenant", t)' # 0
          \/ GetActive(env, "environment", NoTenant)' # 0
          \/ GetActive(env, "global", NoTenant)' # 0
      BY <3>1, <3>2
    <3>4. QED BY <3>3 DEF ResolveSnapshot
  <2>3. QED BY <1>1, <2>1, <2>2, StepInserts
<1>2. IInv /\ IInv' /\ [Next]_vars =>
         [\A env \in Environments, t \in Tenants :
             ResolveSnapshot(env, t) # 0 => ResolveSnapshot(env, t)' # 0]_vars
  BY <1>1
<1>3. QED BY <1>2, Invariance, PTL DEF Spec, NeverDark
=============================================================================
