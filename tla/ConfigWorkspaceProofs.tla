----------------------- MODULE ConfigWorkspaceProofs -----------------------
(***************************************************************************)
(* Proofs about the page on which documents are edited, for every pool of  *)
(* handlers and every set of documents, families and texts.                *)
(***************************************************************************)
EXTENDS ConfigWorkspace, WellFoundedInduction, TLAPS

(* The shape of a handler's record, whatever its fields hold.              *)
FieldNames == {"job", "op", "reply", "id", "text", "bundle", "prefer", "docs", "wrote"}
IsRecord(c) == c # Idle /\ c = [f \in FieldNames |-> c[f]]
Shaped == /\ handler = [h \in Handlers |-> handler[h]]
          /\ \A h \in Handlers : handler[h] # Idle => IsRecord(handler[h])

(* What a handler that has saved goes on to do: only a save or a validate  *)
(* has saved, and until the answer to the save is in, or while it          *)
(* refreshes and checks, it works on the document that was saved.          *)
SavedIsItsDocument(c) ==
    c # Idle /\ c.wrote # 0 =>
      /\ c.id = c.wrote
      /\ c.op \in {"save", "list", "validate"}
Saved == \A h \in Handlers : SavedIsItsDocument(handler[h])

LoadsAnew(c) == c # Idle /\ c.op = "list"

IInv == Shaped /\ LoadingAwaited /\ Saved
-----------------------------------------------------------------------------
LEMMA RecordShaped ==
  ASSUME NEW j, NEW o, NEW r, NEW i, NEW t, NEW b, NEW p, NEW d, NEW w
  PROVE  IsRecord([job |-> j, op |-> o, reply |-> r, id |-> i, text |-> t, bundle |-> b,
                   prefer |-> p, docs |-> d, wrote |-> w])
BY SMT DEF IsRecord, FieldNames, Idle

LEMMA OneHandler ==
  ASSUME Shaped, NEW h \in Handlers, NEW c, c = Idle \/ IsRecord(c),
         handler' = [handler EXCEPT ![h] = c]
  PROVE  /\ Shaped'
         /\ handler'[h] = c
         /\ \A g \in Handlers : g # h => handler'[g] = handler[g]
BY SMT DEF Shaped

(* The step of one handler keeps the invariant, if what becomes of the     *)
(* handler does, and if another load is awaited or none is shown.          *)
LEMMA OneHandlerSteps ==
  ASSUME IInv, NEW h \in Handlers, NEW c, c = Idle \/ IsRecord(c),
         handler' = [handler EXCEPT ![h] = c],
         SavedIsItsDocument(c),
         \/ loading' = FALSE
         \/ LoadsAnew(c)
         \/ loading' = loading /\ ~LoadsAnew(handler[h])
  PROVE  IInv'
<1>1. /\ Shaped' /\ handler'[h] = c
      /\ \A g \in Handlers : g # h => handler'[g] = handler[g]
  BY OneHandler DEF IInv
<1>2. Saved'
  BY <1>1 DEF IInv, Saved, SavedIsItsDocument
<1>3. LoadingAwaited'
  BY <1>1 DEF IInv, LoadingAwaited, LoadsAnew
<1> QED
  BY <1>1, <1>2, <1>3 DEF IInv

LEMMA QuietSteps ==
  ASSUME IInv, UNCHANGED <<handler, loading>>
  PROVE  IInv'
BY DEF IInv, Shaped, LoadingAwaited, Saved

LEMMA RefreshShape ==
  ASSUME NEW id
  PROVE  IsRecord(Refresh(id)) /\ LoadsAnew(Refresh(id)) /\ SavedIsItsDocument(Refresh(id))
<1>1. IsRecord(Refresh(id))
  BY RecordShaped, Zenon DEF Refresh
<1>2. Refresh(id).op = "list" /\ Refresh(id).wrote = 0
  BY DEF Refresh
<1> QED
  BY <1>1, <1>2 DEF LoadsAnew, SavedIsItsDocument, IsRecord

LEMMA StartSteps ==
  ASSUME IInv, NEW h \in Handlers, NEW job, NEW op, NEW id, NEW text,
         Start(h, job, op, id, text),
         loading' = loading \/ op = "list"
  PROVE  IInv'
<1> DEFINE c == Started(job, op, id, text)
<1>1. handler[h] = Idle /\ handler' = [handler EXCEPT ![h] = c]
  BY DEF Start
<1>2. IsRecord(c)
  BY RecordShaped, Zenon DEF Started
<1>3. c.op = op /\ c.wrote = 0
  BY DEF Started
<1>4. SavedIsItsDocument(c) /\ (op = "list" => LoadsAnew(c)) /\ ~LoadsAnew(handler[h])
  BY <1>1, <1>2, <1>3 DEF SavedIsItsDocument, LoadsAnew, IsRecord
<1> HIDE DEF c
<1> QED
  BY <1>1, <1>2, <1>4, OneHandlerSteps
-----------------------------------------------------------------------------
LEMMA ServeSteps ==
  ASSUME IInv, NEW h \in Handlers, Serve(h)
  PROVE  IInv'
<1>1. IsRecord(handler[h])
  BY DEF IInv, Shaped, Serve, Waiting
<1>2. PICK o \in Outcomes(handler[h].op, server, handler[h].id, handler[h].text, handler[h].bundle) :
        handler' = [handler EXCEPT
                      ![h].reply = "ok", ![h].id = o.id,
                      ![h].docs = IF handler[h].op = "list" THEN server ELSE <<>>,
                      ![h].wrote = IF handler[h].op = "save" THEN o.id ELSE @]
  BY DEF Serve
<1> DEFINE c == [handler[h] EXCEPT !.reply = "ok", !.id = o.id,
                    !.docs = IF handler[h].op = "list" THEN server ELSE <<>>,
                    !.wrote = IF handler[h].op = "save" THEN o.id ELSE handler[h].wrote]
<1>3. handler' = [handler EXCEPT ![h] = c]
  BY <1>2 DEF IInv, Shaped
<1>4. /\ c = [f \in FieldNames |-> c[f]]
      /\ c.op = handler[h].op /\ c.id = o.id
      /\ c.wrote = IF handler[h].op = "save" THEN o.id ELSE handler[h].wrote
  BY <1>1 DEF IsRecord, FieldNames
<1>5. IsRecord(c)
  BY <1>4 DEF IsRecord, Idle, FieldNames
<1>6. handler[h].op \in {"list", "validate"} => o.id = handler[h].id
  BY <1>2 DEF Outcomes, Validate
<1>7. SavedIsItsDocument(handler[h])
  BY DEF IInv, Saved
<1>8. SavedIsItsDocument(c)
  BY <1>1, <1>4, <1>6, <1>7 DEF SavedIsItsDocument, IsRecord
<1>9. LoadsAnew(handler[h]) => LoadsAnew(c)
  BY <1>4, <1>5 DEF LoadsAnew, IsRecord
<1>10. loading' = loading
  BY DEF Serve
<1> HIDE DEF c
<1> QED
  BY <1>3, <1>5, <1>8, <1>9, <1>10, OneHandlerSteps

LEMMA FailSteps ==
  ASSUME IInv, NEW h \in Handlers, Fail(h)
  PROVE  IInv'
<1>1. IsRecord(handler[h])
  BY DEF IInv, Shaped, Fail
<1> DEFINE c == [handler[h] EXCEPT !.reply = "failed", !.docs = <<>>]
<1>2. handler' = [handler EXCEPT ![h] = c]
  BY DEF Fail, IInv, Shaped
<1>3. /\ c = [f \in FieldNames |-> c[f]]
      /\ c.op = handler[h].op /\ c.id = handler[h].id /\ c.wrote = handler[h].wrote
  BY <1>1 DEF IsRecord, FieldNames
<1>4. IsRecord(c)
  BY <1>3 DEF IsRecord, Idle, FieldNames
<1>5. SavedIsItsDocument(c)
  BY <1>1, <1>3 DEF SavedIsItsDocument, IsRecord, IInv, Saved
<1>6. (LoadsAnew(handler[h]) => LoadsAnew(c)) /\ loading' = loading
  BY <1>3, <1>4 DEF LoadsAnew, IsRecord, Fail
<1> HIDE DEF c
<1> QED
  BY <1>2, <1>4, <1>5, <1>6, OneHandlerSteps

LEMMA ReceiveWriteSteps ==
  ASSUME IInv, NEW h \in Handlers, ReceiveWrite(h)
  PROVE  IInv'
<1>1. IsRecord(handler[h]) /\ ~LoadsAnew(handler[h])
  BY DEF IInv, Shaped, ReceiveWrite, LoadsAnew
<1>2. CASE handler' = Ended(h) /\ loading' = loading
  <2>1. handler' = [handler EXCEPT ![h] = Idle] /\ SavedIsItsDocument(Idle)
    BY <1>2 DEF Ended, SavedIsItsDocument
  <2> QED
    BY <1>1, <1>2, <2>1, OneHandlerSteps
<1>3. ASSUME NEW id, handler' = Refreshing(h, id)
      PROVE  IInv'
  <2>1. CASE handler[h].job # "validate"
    <3>1. handler' = [handler EXCEPT ![h] = Refresh(id)]
      BY <1>3, <2>1 DEF Refreshing, IInv, Shaped
    <3> QED
      BY <3>1, RefreshShape, OneHandlerSteps
  <2>2. CASE handler[h].job = "validate"
    <3> DEFINE c == [handler[h] EXCEPT !.op = "list", !.reply = "none", !.prefer = id, !.text = NoText]
    <3>1. handler' = [handler EXCEPT ![h] = c]
      BY <1>3, <2>2 DEF Refreshing, IInv, Shaped
    <3>2. /\ c = [f \in FieldNames |-> c[f]]
          /\ c.op = "list" /\ c.id = handler[h].id /\ c.wrote = handler[h].wrote
      BY <1>1 DEF IsRecord, FieldNames
    <3>3. IsRecord(c)
      BY <3>2 DEF IsRecord, Idle, FieldNames
    <3>4. SavedIsItsDocument(c) /\ LoadsAnew(c)
      BY <1>1, <3>2, <3>3 DEF SavedIsItsDocument, LoadsAnew, IsRecord, IInv, Saved
    <3> HIDE DEF c
    <3> QED
      BY <3>1, <3>3, <3>4, OneHandlerSteps
  <2> QED
    BY <2>1, <2>2
<1> QED
  BY <1>2, <1>3, Zenon DEF ReceiveWrite

LEMMA ReceiveListSteps ==
  ASSUME IInv, NEW h \in Handlers, ReceiveList(h)
  PROVE  IInv'
<1>1. IsRecord(handler[h]) /\ loading' = FALSE
  BY DEF IInv, Shaped, ReceiveList, LoadingAfter
<1>2. CASE handler[h].job # "validate"
  <2>1. handler' = [handler EXCEPT ![h] = Idle] /\ SavedIsItsDocument(Idle)
    BY <1>2 DEF ReceiveList, Ended, SavedIsItsDocument
  <2> QED
    BY <1>1, <2>1, OneHandlerSteps
<1>3. CASE handler[h].job = "validate"
  <2> DEFINE c == [handler[h] EXCEPT !.job = "check", !.op = "validate", !.reply = "none", !.docs = <<>>]
  <2>1. handler' = [handler EXCEPT ![h] = c]
    BY <1>3 DEF ReceiveList, Checking, IInv, Shaped
  <2>2. /\ c = [f \in FieldNames |-> c[f]]
        /\ c.op = "validate" /\ c.id = handler[h].id /\ c.wrote = handler[h].wrote
    BY <1>1 DEF IsRecord, FieldNames
  <2>3. IsRecord(c)
    BY <2>2 DEF IsRecord, Idle, FieldNames
  <2>4. SavedIsItsDocument(c)
    BY <1>1, <2>2, <2>3 DEF SavedIsItsDocument, IsRecord, IInv, Saved
  <2> HIDE DEF c
  <2> QED
    BY <1>1, <2>1, <2>3, <2>4, OneHandlerSteps
<1> QED
  BY <1>2, <1>3
-----------------------------------------------------------------------------
LEMMA InitHolds == Init => IInv
<1> SUFFICES ASSUME Init PROVE IInv
  OBVIOUS
<1>1. PICK first \in Handlers : \A h \in Handlers : first <= h
  BY WorkspaceAssumptions
<1>2. IsRecord(Refresh(0)) /\ LoadsAnew(Refresh(0)) /\ SavedIsItsDocument(Refresh(0))
  BY RefreshShape
<1>3. SavedIsItsDocument(Idle)
  BY DEF SavedIsItsDocument
<1>4. handler = [h \in Handlers |-> handler[h]]
  BY DEF Init
<1>5. \A h \in Handlers : handler[h] = Refresh(0) \/ handler[h] = Idle
  BY DEF Init
<1>6. handler[first] = Refresh(0)
  BY <1>1 DEF Init
<1>7. Shaped /\ Saved
  BY <1>2, <1>3, <1>4, <1>5, Zenon DEF Shaped, Saved
<1>8. LoadingAwaited
  BY <1>1, <1>2, <1>6, Zenon DEF LoadingAwaited, LoadsAnew
<1> QED
  BY <1>7, <1>8 DEF IInv

LEMMA OperateSteps ==
  ASSUME IInv, NEW h \in Handlers, Operate(h)
  PROVE  IInv'
<1>1. CASE Retry(h)
  BY <1>1, StartSteps DEF Retry
<1>2. CASE SaveDraft(h)
  BY <1>2, StartSteps DEF SaveDraft
<1>3. CASE ValidateDraft(h)
  <2>1. loading' = loading
    BY <1>3 DEF ValidateDraft
  <2>2. \/ Start(h, "validate", "save", activeId, sourceText)
        \/ Start(h, "check", "validate", activeId, NoText)
    BY <1>3, Zenon DEF ValidateDraft
  <2> QED
    BY <2>1, <2>2, StartSteps
<1>4. CASE ApproveDocument(h)
  BY <1>4, StartSteps DEF ApproveDocument
<1>5. CASE ConfirmPublish(h)
  BY <1>5, StartSteps DEF ConfirmPublish
<1>6. CASE ConfirmArchive(h)
  BY <1>6, StartSteps DEF ConfirmArchive
<1>7. ASSUME NEW text \in Texts, ImportDocument(h, text) \/ CreateStarterDraft(h, text)
      PROVE  IInv'
  BY <1>7, StartSteps DEF ImportDocument, CreateStarterDraft
<1> QED
  BY <1>1, <1>2, <1>3, <1>4, <1>5, <1>6, <1>7 DEF Operate

LEMMA StepsHold == IInv /\ [Next]_vars => IInv'
<1> SUFFICES ASSUME IInv, [Next]_vars PROVE IInv'
  OBVIOUS
<1>1. ASSUME NEW h \in Handlers, Operate(h) \/ Serve(h) \/ Fail(h) \/ Receive(h)
      PROVE  IInv'
  BY <1>1, OperateSteps, ServeSteps, FailSteps, ReceiveWriteSteps, ReceiveListSteps DEF Receive
<1>2. CASE UNCHANGED <<handler, loading>>
  BY <1>2, QuietSteps
<1>3. ASSUME NEW text \in Texts, EditSource(text)
      PROVE  IInv'
  BY <1>2, <1>3 DEF EditSource, work
<1>4. CASE RefuseDraft
  BY <1>2, <1>4 DEF RefuseDraft, work
<1>5. ASSUME NEW id \in DOMAIN allDocs, SwitchDocument(id)
      PROVE  IInv'
  BY <1>2, <1>5 DEF SwitchDocument, work
<1>6. ASSUME NEW what \in {"publish", "archive", "reset"}, AskFirst(what)
      PROVE  IInv'
  BY <1>2, <1>6 DEF AskFirst, work
<1>7. CASE Cancel \/ ConfirmDiscard \/ ConfirmReset
  BY <1>2, <1>7 DEF Cancel, ConfirmDiscard, ConfirmReset, work
<1>8. ASSUME NEW id \in OfKind(server), NEW text \in Texts, Colleague(id, text)
      PROVE  IInv'
  BY <1>2, <1>8 DEF Colleague
<1>9. CASE UNCHANGED vars
  BY <1>2, <1>9 DEF vars, work
<1> QED
  BY <1>1, <1>3, <1>4, <1>5, <1>6, <1>7, <1>8, <1>9 DEF Next

(* The inductive invariant: the shape of the handlers, a load awaited      *)
(* behind every loading card, and a saved document for every handler that  *)
(* has saved.                                                              *)
THEOREM Invariance == Spec => []IInv
BY InitHolds, StepsHold, PTL DEF Spec

(* The loading card never stands without a load under way, however many    *)
(* handlers overlap and whatever fails.                                    *)
THEOREM LoadingIsAwaited == Spec => []LoadingAwaited
<1>1. IInv => LoadingAwaited
  BY DEF IInv
<1> QED
  BY <1>1, Invariance, PTL

(* A validation that was pressed with unsaved changes names the document   *)
(* in which the server stored them.                                        *)
THEOREM SavedIsValidated == Spec => []ValidatesTheSaved
<1>1. IInv => ValidatesTheSaved
  BY DEF IInv, Saved, SavedIsItsDocument, ValidatesTheSaved
<1> QED
  BY <1>1, Invariance, PTL
-----------------------------------------------------------------------------
LEMMA SelectionMoves ==
  ASSUME IInv, [Next]_vars, HasUnsavedChanges, activeId' # activeId
  PROVE  \/ gate = "discard"
         \/ \E h \in Handlers : handler[h] # Idle /\ handler[h].op = "list" /\ handler'[h] # handler[h]
<1>1. ASSUME NEW h \in Handlers, ReceiveList(h)
      PROVE  handler[h] # Idle /\ handler[h].op = "list" /\ handler'[h] # handler[h]
  <2>1. IsRecord(handler[h]) /\ handler[h].op = "list" /\ handler[h].reply # "none"
    BY <1>1 DEF IInv, Shaped, ReceiveList
  <2>2. CASE handler' = Ended(h)
    BY <2>1, <2>2 DEF Ended, IsRecord, IInv, Shaped
  <2>3. CASE handler' = Checking(h)
    <3>1. handler'[h] = [handler[h] EXCEPT !.job = "check", !.op = "validate", !.reply = "none", !.docs = <<>>]
      BY <2>3 DEF Checking, IInv, Shaped
    <3>2. handler'[h].op = "validate"
      BY <2>1, <3>1 DEF IsRecord, FieldNames
    <3> QED
      BY <2>1, <3>2 DEF IsRecord
  <2> QED
    BY <1>1, <2>2, <2>3, Zenon DEF ReceiveList
<1>2. ASSUME NEW h \in Handlers, Operate(h) \/ Serve(h) \/ Fail(h) \/ ReceiveWrite(h)
      PROVE  FALSE
  BY <1>2 DEF Operate, Retry, SaveDraft, ValidateDraft, ApproveDocument, ConfirmPublish, ConfirmArchive,
              ImportDocument, CreateStarterDraft, Serve, Fail, ReceiveWrite, view
<1>3. ASSUME NEW id \in DOMAIN allDocs, SwitchDocument(id)
      PROVE  FALSE
  BY <1>3 DEF SwitchDocument, view
<1>4. CASE ConfirmDiscard
  BY <1>4 DEF ConfirmDiscard
<1>5. ASSUME NEW text \in Texts, EditSource(text)
      PROVE  FALSE
  BY <1>5 DEF EditSource
<1>6. ASSUME NEW what \in {"publish", "archive", "reset"}, AskFirst(what)
      PROVE  FALSE
  BY <1>6 DEF AskFirst, view
<1>7. ASSUME RefuseDraft \/ Cancel \/ ConfirmReset \/ UNCHANGED vars
      PROVE  FALSE
  BY <1>7 DEF RefuseDraft, Cancel, ConfirmReset, vars, view
<1>8. ASSUME NEW id \in OfKind(server), NEW text \in Texts, Colleague(id, text)
      PROVE  FALSE
  BY <1>8 DEF Colleague, view
<1> QED
  BY <1>1, <1>2, <1>3, <1>4, <1>5, <1>6, <1>7, <1>8 DEF Next, Receive

(* Unsaved changes are left for another document only after the dialog, or *)
(* because a refresh was answered.                                         *)
THEOREM UnsavedIsAskedAbout == Spec => UnsavedAskedAbout
<1>1. IInv /\ [Next]_vars =>
        [ HasUnsavedChanges /\ activeId' # activeId =>
            \/ gate = "discard"
            \/ \E h \in Handlers : handler[h] # Idle /\ handler[h].op = "list" /\ handler'[h] # handler[h] ]_vars
  BY SelectionMoves
<1> QED
  BY <1>1, Invariance, PTL DEF Spec, UnsavedAskedAbout
-----------------------------------------------------------------------------
(* The newest of a family.  Before is a total order of the documents that  *)
(* were fetched, so that every nonempty set of them has a first.           *)
LEMMA Fields ==
  ASSUME NEW docs \in Docs, NEW d \in DOMAIN docs
  PROVE  /\ docs[d] \in ConfigDocument
         /\ docs[d].family \in Nat /\ docs[d].version \in Nat /\ d \in Nat
<1>1. docs[d] \in ConfigDocument /\ d \in Nat
  BY DEF Docs
<1>2. ASSUME NEW doc \in ConfigDocument PROVE doc.family \in Nat /\ doc.version \in Nat
  BY WorkspaceAssumptions DEF ConfigDocument
<1> QED
  BY <1>1, <1>2

LEMMA BeforeIsTotal ==
  ASSUME NEW docs \in Docs, NEW d \in DOMAIN docs, NEW e \in DOMAIN docs
  PROVE  Before(docs, d, e) \/ Before(docs, e, d)
BY Fields DEF Before

LEMMA BeforeIsTransitive ==
  ASSUME NEW docs \in Docs, NEW d \in DOMAIN docs, NEW e \in DOMAIN docs, NEW f \in DOMAIN docs,
         Before(docs, d, e), Before(docs, e, f)
  PROVE  Before(docs, d, f)
BY Fields DEF Before

IsFirst(docs, T, d) == d \in T /\ \A e \in T : Before(docs, d, e)

(* A set without a first document would have a shortest prefix that        *)
(* contains one such set; its last document or the first of the others is  *)
(* first.                                                                  *)
LEMMA FirstExists ==
  ASSUME NEW docs \in Docs, NEW S \in SUBSET DOMAIN docs, S # {}
  PROVE  \E d \in S : IsFirst(docs, S, d)
<1> DEFINE HasFirst(T) == \E d \in T : IsFirst(docs, T, d)
           Bad == {n \in Nat : \E T \in SUBSET DOMAIN docs : T \subseteq 1..n /\ T # {} /\ ~HasFirst(T)}
           less == OpToRel(<, Nat)
<1> SUFFICES ASSUME ~HasFirst(S) PROVE FALSE
  OBVIOUS
<1>1. DOMAIN docs = 1..Len(docs) /\ Len(docs) \in Nat
  BY DEF Docs
<1>2. Len(docs) \in Bad
  BY <1>1
<1>3. IsWellFoundedOn(less, Nat)
  BY NatLessThanWellFounded
<1>4. \E n \in Bad : \A m \in Bad : ~(<<m, n>> \in less)
  <2>1. Bad \subseteq Nat /\ Bad # {}
    BY <1>2
  <2> HIDE DEF Bad, less
  <2> QED
    BY <1>3, <2>1, WFMin
<1>5. PICK n \in Bad : n \in Nat /\ \A m \in Bad : ~(m < n)
  <2>1. Bad \subseteq Nat
    OBVIOUS
  <2> HIDE DEF Bad
  <2> QED
    BY <1>4, <2>1 DEF OpToRel
<1>6. PICK T \in SUBSET DOMAIN docs : T \subseteq 1..n /\ T # {} /\ ~HasFirst(T)
  OBVIOUS
<1> HIDE DEF HasFirst
<1>7. n # 0 /\ n - 1 \in Nat
  BY <1>5, <1>6
<1>8. \A U \in SUBSET DOMAIN docs : U \subseteq 1..(n - 1) /\ U # {} => HasFirst(U)
  BY <1>5, <1>7
<1>9. n \in T
  BY <1>5, <1>6, <1>7, <1>8
<1>10. CASE T = {n}
  <2>1. Before(docs, n, n)
    BY <1>9, BeforeIsTotal
  <2> QED
    BY <1>6, <1>10, <2>1 DEF HasFirst, IsFirst
<1>11. CASE T # {n}
  <2>1. HasFirst(T \ {n})
    <3>1. T \ {n} \in SUBSET DOMAIN docs /\ T \ {n} \subseteq 1..(n - 1) /\ T \ {n} # {}
      BY <1>5, <1>6, <1>9, <1>11
    <3> QED
      BY <1>8, <3>1
  <2>2. PICK d \in T \ {n} : \A e \in T \ {n} : Before(docs, d, e)
    BY <2>1 DEF HasFirst, IsFirst
  <2>3. CASE Before(docs, d, n)
    BY <1>6, <2>2, <2>3 DEF HasFirst, IsFirst
  <2>4. CASE Before(docs, n, d)
    <3>1. \A e \in T \ {n} : Before(docs, n, e)
      BY <1>9, <2>2, <2>4, BeforeIsTransitive
    <3>2. Before(docs, n, n)
      BY <1>9, BeforeIsTotal
    <3> QED
      BY <1>6, <1>9, <3>1, <3>2 DEF HasFirst, IsFirst
  <2> QED
    BY <1>9, <2>2, <2>3, <2>4, BeforeIsTotal
<1> QED
  BY <1>10, <1>11

LEMMA LatestOfFamily ==
  ASSUME NEW docs \in Docs, NEW kind, NEW family, Family(docs, kind, family) # {}
  PROVE  Latest(docs, kind, family) \in Family(docs, kind, family)
<1>1. Family(docs, kind, family) \in SUBSET DOMAIN docs
  BY DEF Family
<1> QED
  BY <1>1, FirstExists DEF Latest, IsFirst

LEMMA FirstOfKind ==
  ASSUME NEW docs \in Docs, OfKind(docs) # {}
  PROVE  First(docs) \in OfKind(docs)
<1>1. OfKind(docs) \in SUBSET DOMAIN docs
  BY DEF OfKind
<1> QED
  BY <1>1, FirstExists DEF First, IsFirst
-----------------------------------------------------------------------------
(* Documents are never removed, and keep their kind and family: what a     *)
(* list showed of docs is still true of new.                               *)
Within(docs, new) ==
    /\ docs \in Docs /\ Len(docs) <= Len(new)
    /\ \A d \in DOMAIN docs : new[d].kind = docs[d].kind /\ new[d].family = docs[d].family

Works(c) == \/ c.op \in {"save", "validate", "approve", "archive", "publish"}
            \/ c.job = "validate" \/ c.bundle # NoBundle

(* What a handler holds, over the documents docs of the server: it works   *)
(* on a document of the page's kind, the bundle it took from the page is   *)
(* of that document's family, and what it is about to store is a text.     *)
Aimed(docs, c) ==
    c # Idle =>
      /\ c \in Handler
      /\ Within(c.docs, docs)
      /\ c.op \in {"save", "create", "import"} => c.text \in Texts
      /\ c.op = "publish" => c.bundle # NoBundle
      /\ c.bundle # NoBundle \/ c.job = "validate" => c.op \in {"save", "validate", "publish", "list"}
      /\ Works(c) => c.id \in DOMAIN docs /\ docs[c.id].kind = Kind
      /\ c.bundle # NoBundle =>
           \A k \in Kinds : /\ c.bundle[k] \in DOMAIN docs
                            /\ docs[c.bundle[k]].kind = k
                            /\ docs[c.bundle[k]].family = docs[c.id].family

PageTyped == /\ activeId \in Nat
             /\ sourceText \in Texts \cup {NoText}
             /\ Active # 0 => sourceText \in Texts
             /\ gate \in {"none", "publish", "archive", "discard", "reset"}
             /\ pendingDocumentId \in Nat
             /\ error \in BOOLEAN /\ loading \in BOOLEAN

AimedInv == /\ server \in Docs /\ presses \in 0..MaxPresses
            /\ Within(allDocs, server)
            /\ PageTyped
            /\ handler = [h \in Handlers |-> handler[h]]
            /\ \A h \in Handlers : Aimed(server, handler[h])

LEMMA WithinItself ==
  ASSUME NEW docs \in Docs
  PROVE  Within(docs, docs)
BY DEF Within, Docs

LEMMA WithinWithin ==
  ASSUME NEW a, NEW b, NEW c, Within(a, b), Within(b, c), c \in Docs
  PROVE  Within(a, c)
<1>1. /\ Len(a) \in Nat /\ Len(b) \in Nat /\ Len(c) \in Nat
      /\ DOMAIN a = 1..Len(a) /\ DOMAIN b = 1..Len(b)
  BY DEF Within, Docs
<1> QED
  BY <1>1 DEF Within

LEMMA StaysIn ==
  ASSUME NEW docs, NEW new \in Docs, Within(docs, new), NEW d \in DOMAIN docs
  PROVE  d \in DOMAIN new /\ new[d].kind = docs[d].kind /\ new[d].family = docs[d].family
<1>1. /\ Len(docs) \in Nat /\ Len(new) \in Nat
      /\ DOMAIN docs = 1..Len(docs) /\ DOMAIN new = 1..Len(new)
  BY DEF Within, Docs
<1> QED
  BY <1>1 DEF Within

(* What a handler holds stays true while the server's documents grow.      *)
LEMMA AimedStays ==
  ASSUME NEW docs, NEW new \in Docs, NEW c, Aimed(docs, c), Within(docs, new)
  PROVE  Aimed(new, c)
<1> SUFFICES ASSUME c # Idle PROVE Aimed(new, c)
  BY DEF Aimed
<1>1. Within(c.docs, new)
  BY WithinWithin DEF Aimed
<1>2. Works(c) => c.id \in DOMAIN new /\ new[c.id].kind = Kind /\ new[c.id].family = docs[c.id].family
  BY StaysIn DEF Aimed
<1>3. c.bundle # NoBundle => \A k \in Kinds : /\ c.bundle[k] \in DOMAIN new
                                              /\ new[c.bundle[k]].kind = k
                                              /\ new[c.bundle[k]].family = new[c.id].family
  BY <1>2, StaysIn DEF Aimed, Works
<1> QED
  BY <1>1, <1>2, <1>3 DEF Aimed
-----------------------------------------------------------------------------
(* The requests of the server, one by one.                                 *)
LEMMA AppendFits ==
  ASSUME NEW docs \in Docs, NEW doc \in ConfigDocument
  PROVE  /\ Append(docs, doc) \in Docs /\ Within(docs, Append(docs, doc))
         /\ Len(docs) + 1 \in DOMAIN Append(docs, doc)
         /\ Append(docs, doc)[Len(docs) + 1] = doc
<1>1. Len(docs) \in Nat /\ DOMAIN docs = 1..Len(docs)
  BY DEF Docs
<1>2. Append(docs, doc) \in Seq(ConfigDocument) /\ Len(Append(docs, doc)) = Len(docs) + 1
  BY DEF Docs
<1>3. /\ \A d \in 1..Len(docs) : Append(docs, doc)[d] = docs[d]
      /\ Append(docs, doc)[Len(docs) + 1] = doc
  BY <1>1 DEF Docs
<1> QED
  BY <1>1, <1>2, <1>3 DEF Docs, Within

LEMMA ReplaceFits ==
  ASSUME NEW docs \in Docs, NEW id \in DOMAIN docs, NEW doc \in ConfigDocument,
         doc.kind = docs[id].kind, doc.family = docs[id].family
  PROVE  LET new == [docs EXCEPT ![id] = doc]
         IN  new \in Docs /\ Within(docs, new) /\ DOMAIN new = DOMAIN docs /\ new[id] = doc
<1> DEFINE new == [docs EXCEPT ![id] = doc]
<1>1. new \in Seq(ConfigDocument) /\ Len(new) = Len(docs)
  BY DEF Docs
<1>2. \A d \in DOMAIN docs : new[d] = IF d = id THEN doc ELSE docs[d]
  OBVIOUS
<1>3. Len(docs) \in Nat /\ DOMAIN new = DOMAIN docs
  BY DEF Docs
<1> HIDE DEF new
<1>4. new \in Docs /\ Within(docs, new)
  BY <1>1, <1>2, <1>3 DEF Docs, Within
<1>5. new[id] = doc
  BY <1>2
<1> QED
  BY <1>3, <1>4, <1>5 DEF new

LEMMA StatusFits ==
  ASSUME NEW docs \in Docs, NEW ids,
         NEW status \in {"draft", "validated", "approved", "published", "archived"}
  PROVE  LET new == WithStatus(docs, ids, status)
         IN  /\ new \in Docs /\ Within(docs, new) /\ DOMAIN new = DOMAIN docs
             /\ \A d \in DOMAIN docs : new[d].kind = docs[d].kind /\ new[d].family = docs[d].family
<1> DEFINE new == WithStatus(docs, ids, status)
<1>1. Len(docs) \in Nat /\ DOMAIN docs = 1..Len(docs)
  BY DEF Docs
<1>2. ASSUME NEW doc \in ConfigDocument
      PROVE  LET q == [doc EXCEPT !.status = status]
             IN  q \in ConfigDocument /\ q.kind = doc.kind /\ q.family = doc.family
  BY DEF ConfigDocument
<1>3. ASSUME NEW d \in DOMAIN docs
      PROVE  new[d] \in ConfigDocument /\ new[d].kind = docs[d].kind /\ new[d].family = docs[d].family
  <2>1. docs[d] \in ConfigDocument
    BY Fields
  <2>2. new[d] = IF d \in ids THEN [docs[d] EXCEPT !.status = status] ELSE docs[d]
    BY DEF WithStatus
  <2> QED
    BY <1>2, <2>1, <2>2
<1>4. new = [d \in 1..Len(docs) |-> new[d]]
  BY <1>1 DEF WithStatus
<1> HIDE DEF new
<1>5. new \in Seq(ConfigDocument) /\ Len(new) = Len(docs) /\ DOMAIN new = DOMAIN docs
  BY <1>1, <1>3, <1>4
<1> QED
  BY <1>1, <1>3, <1>5 DEF Docs, Within, new

LEMMA NextVersionTyped ==
  ASSUME NEW docs \in Docs, NEW kind, NEW family
  PROVE  NextVersion(docs, kind, family) \in Nat \ {0}
<1>1. CASE Family(docs, kind, family) = {}
  BY <1>1 DEF NextVersion
<1>2. CASE Family(docs, kind, family) # {}
  <2>1. Latest(docs, kind, family) \in DOMAIN docs
    BY <1>2, LatestOfFamily DEF Family
  <2>2. docs[Latest(docs, kind, family)].version \in Nat
    BY <2>1, Fields
  <2> QED
    BY <1>2, <2>2 DEF NextVersion
<1> QED
  BY <1>1, <1>2

LEMMA SaveFits ==
  ASSUME NEW docs \in Docs, NEW id \in DOMAIN docs, NEW text \in Texts, NEW o \in Save(docs, id, text)
  PROVE  /\ o.docs \in Docs /\ Within(docs, o.docs) /\ o.id \in DOMAIN o.docs
         /\ o.docs[o.id].kind = docs[id].kind /\ o.docs[o.id].family = docs[id].family
<1>0. docs[id] \in ConfigDocument
  BY Fields
<1>1. CASE docs[id].status \in {"approved", "published"}
  <2> DEFINE version == NextVersion(docs, docs[id].kind, docs[id].family)
             doc == [docs[id] EXCEPT !.version = version, !.status = "draft", !.text = text]
  <2>1. version \in Nat \ {0}
    BY NextVersionTyped
  <2> HIDE DEF version
  <2>2. ASSUME NEW r \in ConfigDocument
        PROVE  LET q == [r EXCEPT !.version = version, !.status = "draft", !.text = text]
               IN  q \in ConfigDocument /\ q.kind = r.kind /\ q.family = r.family
    BY <2>1 DEF ConfigDocument
  <2>3. doc \in ConfigDocument /\ doc.kind = docs[id].kind /\ doc.family = docs[id].family
    BY <1>0, <2>2
  <2>4. o.docs = Append(docs, doc) /\ o.id = Len(docs) + 1
    BY <1>1 DEF Save, version
  <2> HIDE DEF doc
  <2> QED
    BY <2>3, <2>4, AppendFits
<1>2. CASE docs[id].status \notin {"approved", "published"}
  <2> DEFINE doc == [docs[id] EXCEPT !.status = "draft", !.text = text]
  <2>1. ASSUME NEW r \in ConfigDocument
        PROVE  LET q == [r EXCEPT !.status = "draft", !.text = text]
               IN  q \in ConfigDocument /\ q.kind = r.kind /\ q.family = r.family
    BY DEF ConfigDocument
  <2>2. doc \in ConfigDocument /\ doc.kind = docs[id].kind /\ doc.family = docs[id].family
    BY <1>0, <2>1
  <2>3. /\ o.docs = [docs EXCEPT ![id].status = "draft", ![id].text = text]
        /\ o.id = id
    BY <1>2 DEF Save
  <2>4. o.docs = [docs EXCEPT ![id] = doc]
    BY <2>3
  <2> HIDE DEF doc
  <2> QED
    BY <2>2, <2>3, <2>4, ReplaceFits
<1> QED
  BY <1>1, <1>2

LEMMA CreateFits ==
  ASSUME NEW docs \in Docs, NEW version \in Nat \ {0}, NEW text \in Texts,
         NEW o \in Create(docs, Global, version, text)
  PROVE  o.docs \in Docs /\ Within(docs, o.docs) /\ o.id \in Nat
<1> DEFINE doc == [kind |-> Kind, family |-> Global, version |-> version, status |-> "draft", text |-> text]
<1>1. doc \in ConfigDocument
  BY WorkspaceAssumptions DEF ConfigDocument
<1>2. o.docs = Append(docs, doc) /\ o.id = Len(docs) + 1
  BY DEF Create
<1>3. Len(docs) + 1 \in Nat
  BY DEF Docs
<1> HIDE DEF doc
<1> QED
  BY <1>1, <1>2, <1>3, AppendFits

(* Whatever request is served, the documents there are keep their kind and *)
(* family, and the document it answers with is one of the same.            *)
LEMMA OutcomesFit ==
  ASSUME NEW docs \in Docs, NEW c, c # Idle, Aimed(docs, c),
         NEW o \in Outcomes(c.op, docs, c.id, c.text, c.bundle)
  PROVE  /\ o.docs \in Docs /\ Within(docs, o.docs) /\ o.id \in Nat
         /\ Works(c) => /\ o.id \in DOMAIN o.docs
                        /\ o.docs[o.id].kind = Kind /\ o.docs[o.id].family = docs[c.id].family
<1>0. /\ c \in Handler /\ c.id \in Nat
      /\ c.op \in {"save", "create", "import", "validate", "approve", "archive", "publish", "list"}
      /\ \A k \in Kinds : c.bundle[k] \in Nat
  BY DEF Aimed, Handler
<1>1. CASE c.op = "save"
  <2>1. o \in Save(docs, c.id, c.text) /\ c.id \in DOMAIN docs /\ docs[c.id].kind = Kind /\ c.text \in Texts
    BY <1>1 DEF Outcomes, Aimed, Works
  <2>2. /\ o.docs \in Docs /\ Within(docs, o.docs) /\ o.id \in DOMAIN o.docs
        /\ o.docs[o.id].kind = Kind /\ o.docs[o.id].family = docs[c.id].family
    BY <2>1, SaveFits
  <2>3. o.id \in Nat
    BY <2>2 DEF Docs
  <2> QED
    BY <2>2, <2>3
<1>2. CASE c.op \in {"create", "import"}
  <2>1. c.text \in Texts /\ NextVersion(docs, Kind, Global) \in Nat \ {0} /\ 1 \in Nat \ {0}
    BY <1>2, NextVersionTyped DEF Aimed
  <2>2. o \in Create(docs, Global, 1, c.text) \/ o \in Create(docs, Global, NextVersion(docs, Kind, Global), c.text)
    BY <1>2 DEF Outcomes
  <2>3. o.docs \in Docs /\ Within(docs, o.docs) /\ o.id \in Nat
    BY <2>1, <2>2, CreateFits
  <2>4. ASSUME Works(c) PROVE FALSE
    <3>1. c.bundle # NoBundle \/ c.job = "validate" => c.op \in {"save", "validate", "publish", "list"}
      BY DEF Aimed
    <3> QED
      BY <1>2, <2>4, <3>1 DEF Works
  <2> QED
    BY <2>3, <2>4
<1>3. CASE c.op \in {"validate", "approve", "archive"}
  <2>1. PICK ids : \E status \in {"draft", "validated", "approved", "published", "archived"} :
                        o.docs = WithStatus(docs, ids, status) /\ o.id = c.id
    <3>1. \/ o \in Validate(docs, c.id, c.bundle)
          \/ o \in Approve(docs, c.id)
          \/ o \in Archive(docs, c.id)
      BY <1>3 DEF Outcomes
    <3>2. CASE o \in Validate(docs, c.id, c.bundle)
      <4> DEFINE named == IF c.bundle = NoBundle THEN {c.id}
                          ELSE {c.id} \cup {c.bundle[k] : k \in Kinds \ {Kind}}
                 passing == {d \in named : /\ docs[d].status \notin {"published", "archived"}
                                           /\ docs[d].text \notin Invalid}
      <4>1. o = [docs |-> WithStatus(docs, passing, "validated"), id |-> c.id]
        BY <3>2 DEF Validate
      <4> HIDE DEF passing
      <4> QED
        BY <4>1
    <3>3. CASE o \in Approve(docs, c.id) \/ o \in Archive(docs, c.id)
      <4>1. \/ o = [docs |-> WithStatus(docs, {c.id}, "approved"), id |-> c.id]
            \/ o = [docs |-> WithStatus(docs, {c.id}, "archived"), id |-> c.id]
        BY <3>3 DEF Approve, Archive
      <4> QED
        BY <4>1
    <3> QED
      BY <3>1, <3>2, <3>3
  <2>2. c.id \in DOMAIN docs /\ docs[c.id].kind = Kind
    BY <1>3 DEF Aimed, Works
  <2> QED
    BY <1>0, <2>1, <2>2, StatusFits
<1>4. CASE c.op = "publish"
  <2>1. PICK ids : o.docs = WithStatus(docs, ids, "published") /\ o.id = c.bundle[Kind]
    BY <1>4 DEF Outcomes, Publish
  <2>2. /\ c.bundle[Kind] \in DOMAIN docs /\ c.bundle[Kind] \in Nat
        /\ docs[c.bundle[Kind]].kind = Kind /\ docs[c.bundle[Kind]].family = docs[c.id].family
    BY <1>0, <1>4, WorkspaceAssumptions DEF Aimed
  <2> QED
    BY <2>1, <2>2, StatusFits
<1>5. CASE c.op = "list"
  <2>1. o.docs = docs /\ o.id = c.id
    BY <1>5 DEF Outcomes
  <2> QED
    BY <1>0, <2>1, WithinItself DEF Aimed
<1> QED
  BY <1>0, <1>1, <1>2, <1>3, <1>4, <1>5
-----------------------------------------------------------------------------
LEMMA OneHandlerAims ==
  ASSUME AimedInv, NEW h \in Handlers, NEW c,
         handler' = [handler EXCEPT ![h] = c], Aimed(server', c),
         server' \in Docs, Within(server, server'), Within(allDocs', server'),
         PageTyped', presses' \in 0..MaxPresses
  PROVE  AimedInv'
<1>1. handler' = [g \in Handlers |-> handler'[g]]
  BY DEF AimedInv
<1>2. \A g \in Handlers : handler'[g] = IF g = h THEN c ELSE handler[g]
  BY DEF AimedInv
<1>3. \A g \in Handlers : Aimed(server', handler[g])
  BY AimedStays DEF AimedInv
<1>4. \A g \in Handlers : Aimed(server', handler'[g])
  BY <1>2, <1>3
<1> QED
  BY <1>1, <1>4 DEF AimedInv

LEMMA PageAims ==
  ASSUME AimedInv, UNCHANGED <<server, allDocs, work>>, PageTyped'
  PROVE  AimedInv'
BY DEF AimedInv, work

LEMMA NothingStarted == NoBundle \in [Kinds -> Nat] /\ <<>> \in Docs
BY DEF NoBundle, Docs

LEMMA NothingFetched ==
  ASSUME NEW docs \in Docs
  PROVE  Within(<<>>, docs)
BY NothingStarted DEF Within, Docs

(* The bundle on the page is three documents of the selected family.       *)
LEMMA BundleFits ==
  ASSUME AimedInv
  PROVE  /\ CurrentBundle \in [Kinds -> Nat]
         /\ CurrentBundle # NoBundle =>
              /\ Active # 0
              /\ \A k \in Kinds : /\ CurrentBundle[k] \in DOMAIN server
                                  /\ server[CurrentBundle[k]].kind = k
                                  /\ server[CurrentBundle[k]].family = server[activeId].family
<1>1. CASE Active = 0 \/ \E k \in Kinds : Family(allDocs, k, allDocs[Active].family) = {}
  BY <1>1, NothingStarted DEF CurrentBundle
<1>2. CASE ~(Active = 0 \/ \E k \in Kinds : Family(allDocs, k, allDocs[Active].family) = {})
  <2>1. CurrentBundle = [k \in Kinds |-> Latest(allDocs, k, allDocs[Active].family)]
    BY <1>2 DEF CurrentBundle
  <2>2. allDocs \in Docs /\ server \in Docs /\ Within(allDocs, server)
    BY DEF AimedInv, Within
  <2>3. \A k \in Kinds : Latest(allDocs, k, allDocs[Active].family) \in Family(allDocs, k, allDocs[Active].family)
    BY <1>2, <2>2, LatestOfFamily
  <2>4. \A k \in Kinds : /\ CurrentBundle[k] \in DOMAIN allDocs
                         /\ allDocs[CurrentBundle[k]].kind = k
                         /\ allDocs[CurrentBundle[k]].family = allDocs[Active].family
    BY <2>1, <2>3 DEF Family
  <2>5. Active = activeId /\ activeId \in DOMAIN allDocs
    BY <1>2 DEF Active, OfKind
  <2>6. server[activeId].family = allDocs[activeId].family
    BY <2>2, <2>5, StaysIn
  <2>7. \A k \in Kinds : /\ CurrentBundle[k] \in DOMAIN server
                         /\ server[CurrentBundle[k]].kind = k
                         /\ server[CurrentBundle[k]].family = allDocs[Active].family
    BY <2>2, <2>4, StaysIn
  <2>8. \A k \in Kinds : CurrentBundle[k] \in Nat
    BY <2>2, <2>4, Fields
  <2>9. CurrentBundle = [k \in Kinds |-> CurrentBundle[k]]
    BY <2>1
  <2>10. CurrentBundle \in [Kinds -> Nat]
    BY <2>8, <2>9
  <2> QED
    BY <1>2, <2>5, <2>6, <2>7, <2>10
<1> QED
  BY <1>1, <1>2

LEMMA ActiveFits ==
  ASSUME AimedInv, Active # 0
  PROVE  activeId \in DOMAIN server /\ server[activeId].kind = Kind
<1>1. activeId \in DOMAIN allDocs /\ allDocs[activeId].kind = Kind
  BY DEF Active, OfKind
<1> QED
  BY <1>1, StaysIn DEF AimedInv

LEMMA RefreshAims ==
  ASSUME NEW docs \in Docs, NEW id \in Nat
  PROVE  Aimed(docs, Refresh(id))
<1> DEFINE c == Refresh(id)
<1>1. c \in Handler
  BY NothingStarted DEF Refresh, Handler
<1>2. c.docs = <<>> /\ c.op = "list" /\ c.bundle = NoBundle /\ c.job = "refresh"
  BY DEF Refresh
<1> HIDE DEF c
<1> QED
  BY <1>1, <1>2, NothingFetched DEF Aimed, Works, c

(* With what the buttons start a handler.                                  *)
Purpose(job, op, id, text) ==
    \/ job = "refresh" /\ op = "list" /\ id = 0 /\ text = NoText
    \/ /\ (job = "import" /\ op = "import") \/ (job = "starter" /\ op = "create")
       /\ id = 0 /\ text \in Texts
    \/ /\ job \in {"save", "validate"} /\ op = "save"
       /\ id = activeId /\ Active # 0 /\ text = sourceText
    \/ /\ (job = "check" /\ op = "validate") \/ (job \in {"approve", "archive"} /\ op = job)
       /\ id = activeId /\ Active # 0 /\ text = NoText
    \/ /\ job = "publish" /\ op = "publish" /\ CurrentBundle # NoBundle
       /\ id = activeId /\ text = NoText

LEMMA PressCounts ==
  ASSUME AimedInv, Press
  PROVE  presses' \in 0..MaxPresses
BY WorkspaceAssumptions DEF AimedInv, Press

LEMMA PurposeFits ==
  ASSUME AimedInv, NEW job, NEW op, NEW id, NEW text, Purpose(job, op, id, text)
  PROVE  /\ job \in {"refresh", "save", "validate", "check", "approve", "archive", "publish", "import", "starter"}
         /\ op \in {"save", "create", "import", "validate", "approve", "archive", "publish", "list"}
         /\ id \in Nat /\ text \in Texts \cup {NoText}
         /\ op \in {"save", "create", "import"} => text \in Texts
         /\ op = "publish" => job = "publish"
         /\ job = "publish" => CurrentBundle # NoBundle
         /\ job \in {"validate", "check", "publish"} => op \in {"save", "validate", "publish"} /\ id = activeId
         /\ job = "validate" \/ op \in {"save", "validate", "approve", "archive"} => id = activeId /\ Active # 0
<1>1. /\ activeId \in Nat /\ sourceText \in Texts \cup {NoText}
      /\ Active # 0 => sourceText \in Texts
  BY DEF AimedInv, PageTyped
<1>2. id \in Nat
  BY <1>1 DEF Purpose
<1>3. text \in Texts \cup {NoText} /\ (op \in {"save", "create", "import"} => text \in Texts)
  BY <1>1 DEF Purpose
<1>4. job \in {"refresh", "save", "validate", "check", "approve", "archive", "publish", "import", "starter"}
  BY DEF Purpose
<1>5. op \in {"save", "create", "import", "validate", "approve", "archive", "publish", "list"}
  BY DEF Purpose
<1>6. /\ op = "publish" => job = "publish"
      /\ job = "publish" => CurrentBundle # NoBundle
      /\ job \in {"validate", "check", "publish"} => op \in {"save", "validate", "publish"} /\ id = activeId
      /\ job = "validate" \/ op \in {"save", "validate", "approve", "archive"} => id = activeId /\ Active # 0
  BY DEF Purpose
<1> QED
  BY <1>2, <1>3, <1>4, <1>5, <1>6

LEMMA StartAims ==
  ASSUME AimedInv, NEW h \in Handlers, NEW job, NEW op, NEW id, NEW text,
         Start(h, job, op, id, text),
         Purpose(job, op, id, text),
         UNCHANGED <<server, view, dialog>>, error' \in BOOLEAN, loading' \in BOOLEAN
  PROVE  AimedInv'
<1> DEFINE c == Started(job, op, id, text)
<1>0. server \in Docs /\ activeId \in Nat
  BY DEF AimedInv, PageTyped
<1>1. /\ job \in {"refresh", "save", "validate", "check", "approve", "archive", "publish", "import", "starter"}
      /\ op \in {"save", "create", "import", "validate", "approve", "archive", "publish", "list"}
      /\ id \in Nat /\ text \in Texts \cup {NoText}
      /\ op \in {"save", "create", "import"} => text \in Texts
  BY PurposeFits
<1>2. /\ op = "publish" => job = "publish"
      /\ job = "publish" => CurrentBundle # NoBundle
      /\ job \in {"validate", "check", "publish"} => op \in {"save", "validate", "publish"} /\ id = activeId
      /\ job = "validate" \/ op \in {"save", "validate", "approve", "archive"} => id = activeId /\ Active # 0
  BY PurposeFits
<1>3. c \in Handler
  <2>1. c.bundle \in [Kinds -> Nat] /\ c.prefer \in Nat
    BY <1>0, BundleFits, NothingStarted DEF Started
  <2>2. ASSUME NEW b \in [Kinds -> Nat], NEW p \in Nat
        PROVE  [job |-> job, op |-> op, reply |-> "none", id |-> id, text |-> text, bundle |-> b,
                prefer |-> p, docs |-> <<>>, wrote |-> 0] \in Handler
    BY <1>1, NothingStarted DEF Handler
  <2>3. c = [job |-> job, op |-> op, reply |-> "none", id |-> id, text |-> text,
             bundle |-> c.bundle, prefer |-> c.prefer, docs |-> <<>>, wrote |-> 0]
    BY DEF Started
  <2> HIDE DEF c
  <2> QED
    BY <2>1, <2>2, <2>3
<1>4. /\ c.job = job /\ c.op = op /\ c.id = id /\ c.text = text /\ c.docs = <<>>
      /\ c.bundle = IF job \in {"validate", "check", "publish"} THEN CurrentBundle ELSE NoBundle
  BY DEF Started
<1> HIDE DEF c
<1>5. c.bundle # NoBundle =>
         /\ job \in {"validate", "check", "publish"} /\ CurrentBundle # NoBundle
         /\ c.bundle = CurrentBundle /\ Active # 0 /\ id = activeId
  BY <1>2, <1>4, BundleFits
<1>6. Works(c) => id = activeId /\ Active # 0
  BY <1>2, <1>4, <1>5, BundleFits DEF Works
<1>7. Works(c) => c.id \in DOMAIN server /\ server[c.id].kind = Kind
  BY <1>4, <1>6, ActiveFits
<1>8. c.bundle # NoBundle => \A k \in Kinds : /\ c.bundle[k] \in DOMAIN server
                                              /\ server[c.bundle[k]].kind = k
                                              /\ server[c.bundle[k]].family = server[c.id].family
  BY <1>4, <1>5, BundleFits
<1>9. c.bundle # NoBundle \/ c.job = "validate" => c.op \in {"save", "validate", "publish", "list"}
  BY <1>2, <1>4, <1>5
<1>10. c.op = "publish" => c.bundle # NoBundle
  BY <1>2, <1>4
<1>11. Aimed(server, c)
  BY <1>0, <1>1, <1>3, <1>4, <1>7, <1>8, <1>9, <1>10, NothingFetched DEF Aimed
<1>12. handler' = [handler EXCEPT ![h] = c] /\ presses' \in 0..MaxPresses
  <2>1. handler' = [handler EXCEPT ![h] = c]
    BY DEF Start, c
  <2>2. presses' \in 0..MaxPresses
    BY PressCounts DEF Start
  <2> QED
    BY <2>1, <2>2
<1>13. PageTyped'
  BY DEF AimedInv, PageTyped, Active, view, dialog
<1>14. allDocs' = allDocs /\ server' = server
  BY DEF view
<1> QED
  BY <1>0, <1>11, <1>12, <1>13, <1>14, OneHandlerAims, WithinItself DEF AimedInv
-----------------------------------------------------------------------------
LEMMA ServeAims ==
  ASSUME AimedInv, NEW h \in Handlers, Serve(h)
  PROVE  AimedInv'
<1>0. /\ server \in Docs /\ handler[h] # Idle /\ Aimed(server, handler[h])
      /\ handler[h] \in Handler
  BY DEF AimedInv, Serve, Waiting, Aimed
<1>1. PICK o \in Outcomes(handler[h].op, server, handler[h].id, handler[h].text, handler[h].bundle) :
        /\ server' = o.docs
        /\ handler' = [handler EXCEPT
                         ![h].reply = "ok", ![h].id = o.id,
                         ![h].docs = IF handler[h].op = "list" THEN server ELSE <<>>,
                         ![h].wrote = IF handler[h].op = "save" THEN o.id ELSE @]
  BY DEF Serve
<1> DEFINE read == IF handler[h].op = "list" THEN server ELSE <<>>
           saved == IF handler[h].op = "save" THEN o.id ELSE handler[h].wrote
           c == [handler[h] EXCEPT !.reply = "ok", !.id = o.id, !.docs = read, !.wrote = saved]
<1>2. handler' = [handler EXCEPT ![h] = c]
  BY <1>1 DEF AimedInv
<1>3. /\ server' \in Docs /\ Within(server, server') /\ o.id \in Nat
      /\ Works(handler[h]) => /\ o.id \in DOMAIN server'
                              /\ server'[o.id].kind = Kind
                              /\ server'[o.id].family = server[handler[h].id].family
  BY <1>0, <1>1, OutcomesFit
<1>4. read \in Docs /\ Within(read, server') /\ saved \in Nat
  <2>1. Within(<<>>, server') /\ handler[h].wrote \in Nat
    BY <1>0, <1>3, NothingFetched DEF Handler
  <2> QED
    BY <1>0, <1>3, <2>1, NothingStarted
<1> HIDE DEF read, saved
<1>5. /\ c \in Handler /\ c.id = o.id /\ c.docs = read
      /\ c.op = handler[h].op /\ c.job = handler[h].job /\ c.text = handler[h].text
      /\ c.bundle = handler[h].bundle
  <2> DEFINE r == handler[h]
  <2>1. r \in Handler /\ o.id \in Nat /\ read \in Docs /\ saved \in Nat
    BY <1>0, <1>3, <1>4
  <2> HIDE DEF r
  <2>2. LET q == [r EXCEPT !.reply = "ok", !.id = o.id, !.docs = read, !.wrote = saved]
        IN  /\ q \in Handler /\ q.id = o.id /\ q.docs = read /\ q.op = r.op /\ q.job = r.job
            /\ q.text = r.text /\ q.bundle = r.bundle
    BY <2>1 DEF Handler
  <2> QED
    BY <2>2 DEF r
<1> HIDE DEF c
<1>6. Aimed(server', handler[h])
  BY <1>0, <1>3, AimedStays
<1>7. Works(c) <=> Works(handler[h])
  BY <1>5 DEF Works
<1>8. c.bundle # NoBundle => \A k \in Kinds : /\ c.bundle[k] \in DOMAIN server'
                                              /\ server'[c.bundle[k]].kind = k
                                              /\ server'[c.bundle[k]].family = server'[c.id].family
  <2> SUFFICES ASSUME c.bundle # NoBundle, NEW k \in Kinds
               PROVE  /\ c.bundle[k] \in DOMAIN server'
                      /\ server'[c.bundle[k]].kind = k
                      /\ server'[c.bundle[k]].family = server'[c.id].family
    OBVIOUS
  <2>1. /\ c.bundle[k] \in DOMAIN server /\ server[c.bundle[k]].kind = k
        /\ server[c.bundle[k]].family = server[handler[h].id].family
    BY <1>0, <1>5 DEF Aimed
  <2>2. server'[c.id].family = server[handler[h].id].family
    BY <1>3, <1>5 DEF Works
  <2>3. /\ c.bundle[k] \in DOMAIN server' /\ server'[c.bundle[k]].kind = server[c.bundle[k]].kind
        /\ server'[c.bundle[k]].family = server[c.bundle[k]].family
    BY <1>3, <2>1, StaysIn
  <2> QED
    BY <2>1, <2>2, <2>3
<1>9. Works(c) => c.id \in DOMAIN server' /\ server'[c.id].kind = Kind
  BY <1>3, <1>5, <1>7
<1>10. Aimed(server', c)
  BY <1>0, <1>4, <1>5, <1>6, <1>8, <1>9 DEF Aimed
<1>11. Within(allDocs', server')
  BY <1>3, WithinWithin DEF AimedInv, Serve, view
<1>12. PageTyped' /\ presses' \in 0..MaxPresses
  BY DEF AimedInv, PageTyped, Active, Serve, view, dialog
<1> QED
  BY <1>2, <1>3, <1>10, <1>11, <1>12, OneHandlerAims

(* A handler that goes on with a record that names what it named.          *)
LEMMA ContinuedAims ==
  ASSUME AimedInv, NEW h \in Handlers, handler[h] # Idle, NEW c \in Handler,
         handler' = [handler EXCEPT ![h] = c],
         c.docs = <<>> \/ c.docs = handler[h].docs,
         c.id = handler[h].id, c.bundle = handler[h].bundle,
         \/ c.op = handler[h].op /\ c.job = handler[h].job /\ c.text = handler[h].text
         \/ c.op = "list" /\ handler[h].job = "validate",
         UNCHANGED <<server, allDocs, presses>>, PageTyped'
  PROVE  AimedInv'
<1>1. Aimed(server, handler[h]) /\ server \in Docs
  BY DEF AimedInv
<1>2. Within(c.docs, server)
  BY <1>1, NothingFetched DEF Aimed
<1>3. Works(c) => Works(handler[h])
  BY DEF Works
<1>4. Works(c) => c.id \in DOMAIN server /\ server[c.id].kind = Kind
  BY <1>1, <1>3 DEF Aimed
<1>5. /\ c.op \in {"save", "create", "import"} => c.text \in Texts
      /\ c.op = "publish" => c.bundle # NoBundle
      /\ c.bundle # NoBundle \/ c.job = "validate" => c.op \in {"save", "validate", "publish", "list"}
  BY <1>1 DEF Aimed
<1>6. Aimed(server, c)
  BY <1>1, <1>2, <1>4, <1>5 DEF Aimed
<1> QED
  BY <1>1, <1>6, OneHandlerAims, WithinItself DEF AimedInv

LEMMA FailAims ==
  ASSUME AimedInv, NEW h \in Handlers, Fail(h)
  PROVE  AimedInv'
<1> DEFINE c == [handler[h] EXCEPT !.reply = "failed", !.docs = <<>>]
<1>1. handler[h] # Idle /\ handler[h] \in Handler
  BY DEF AimedInv, Fail, Aimed
<1>2. handler' = [handler EXCEPT ![h] = c]
  BY DEF Fail, AimedInv
<1>3. ASSUME NEW r \in Handler
      PROVE  LET q == [r EXCEPT !.reply = "failed", !.docs = <<>>]
             IN  /\ q \in Handler /\ q.docs = <<>> /\ q.id = r.id /\ q.bundle = r.bundle
                 /\ q.op = r.op /\ q.job = r.job /\ q.text = r.text
  BY NothingStarted DEF Handler
<1>4. /\ c \in Handler /\ c.docs = <<>> /\ c.id = handler[h].id /\ c.bundle = handler[h].bundle
      /\ c.op = handler[h].op /\ c.job = handler[h].job /\ c.text = handler[h].text
  BY <1>1, <1>3
<1>5. UNCHANGED <<server, allDocs, presses>> /\ PageTyped'
  BY DEF AimedInv, PageTyped, Active, Fail, view, dialog
<1> HIDE DEF c
<1> QED
  BY <1>1, <1>2, <1>4, <1>5, ContinuedAims

LEMMA EndedAims ==
  ASSUME AimedInv, NEW h \in Handlers, handler' = Ended(h), UNCHANGED <<server, presses>>,
         Within(allDocs', server), PageTyped'
  PROVE  AimedInv'
<1>1. handler' = [handler EXCEPT ![h] = Idle] /\ Aimed(server, Idle) /\ server \in Docs
  BY DEF Ended, Aimed, AimedInv
<1> QED
  BY <1>1, OneHandlerAims, WithinItself DEF AimedInv

LEMMA ReceiveWriteAims ==
  ASSUME AimedInv, NEW h \in Handlers, ReceiveWrite(h)
  PROVE  AimedInv'
<1>1. handler[h] # Idle /\ handler[h] \in Handler
  BY DEF AimedInv, ReceiveWrite, Aimed
<1>2. UNCHANGED <<server, allDocs, presses>> /\ Within(allDocs', server)
  BY DEF AimedInv, ReceiveWrite, view
<1>3. PageTyped'
  BY DEF AimedInv, PageTyped, Active, ReceiveWrite, view
<1>4. CASE handler' = Ended(h)
  BY <1>2, <1>3, <1>4, EndedAims
<1>5. ASSUME NEW id \in Nat, handler' = Refreshing(h, id)
      PROVE  AimedInv'
  <2>1. CASE handler[h].job # "validate"
    <3>1. handler' = [handler EXCEPT ![h] = Refresh(id)]
      BY <1>5, <2>1 DEF Refreshing, AimedInv
    <3>2. Aimed(server, Refresh(id)) /\ server \in Docs
      BY RefreshAims DEF AimedInv
    <3> QED
      BY <1>2, <1>3, <3>1, <3>2, OneHandlerAims, WithinItself DEF AimedInv
  <2>2. CASE handler[h].job = "validate"
    <3> DEFINE c == [handler[h] EXCEPT !.op = "list", !.reply = "none", !.prefer = id, !.text = NoText]
    <3>1. handler' = [handler EXCEPT ![h] = c]
      BY <1>5, <2>2 DEF Refreshing, AimedInv
    <3>2. ASSUME NEW r \in Handler
          PROVE  LET q == [r EXCEPT !.op = "list", !.reply = "none", !.prefer = id, !.text = NoText]
                 IN  /\ q \in Handler /\ q.docs = r.docs /\ q.id = r.id /\ q.bundle = r.bundle
                     /\ q.op = "list" /\ q.job = r.job
      BY <1>5 DEF Handler
    <3>3. /\ c \in Handler /\ c.docs = handler[h].docs /\ c.id = handler[h].id
          /\ c.bundle = handler[h].bundle /\ c.op = "list"
      BY <1>1, <3>2
    <3> HIDE DEF c
    <3> QED
      BY <1>1, <1>2, <1>3, <2>2, <3>1, <3>3, ContinuedAims
  <2> QED
    BY <2>1, <2>2
<1>6. handler[h].id \in Nat /\ handler[h].prefer \in Nat
  BY <1>1 DEF Handler
<1> QED
  BY <1>4, <1>5, <1>6, Zenon DEF ReceiveWrite

LEMMA SelectTypes ==
  ASSUME AimedInv, NEW docs \in Docs, NEW id \in Nat, Select(docs, id)
  PROVE  /\ allDocs' = docs
         /\ activeId' \in Nat /\ sourceText' \in Texts \cup {NoText}
         /\ Active' # 0 => sourceText' \in Texts
<1>1. id \in OfKind(docs) => docs[id].text \in Texts
  BY Fields DEF OfKind, ConfigDocument
<1> QED
  BY <1>1 DEF Select, SourceOf, Active

LEMMA ReceiveListAims ==
  ASSUME AimedInv, NEW h \in Handlers, ReceiveList(h)
  PROVE  AimedInv'
<1>1. /\ handler[h] # Idle /\ handler[h] \in Handler
      /\ Within(handler[h].docs, server) /\ handler[h].docs \in Docs /\ server \in Docs
  BY DEF AimedInv, ReceiveList, Aimed, Within
<1>2. UNCHANGED <<server, presses, dialog>> /\ loading' = FALSE
  BY DEF ReceiveList, LoadingAfter
<1>3. Within(allDocs', server) /\ PageTyped'
  <2> DEFINE docs == handler[h].docs
             id == IF handler[h].prefer \in OfKind(docs) THEN handler[h].prefer
                   ELSE IF OfKind(docs) = {} THEN 0 ELSE First(docs)
  <2>1. CASE handler[h].reply = "ok"
    <3>1. Select(docs, id) /\ error' = error
      BY <2>1 DEF ReceiveList
    <3>2. id \in Nat
      <4>1. handler[h].prefer \in Nat
        BY <1>1 DEF Handler
      <4>2. OfKind(docs) # {} => First(docs) \in Nat
        BY <1>1, FirstOfKind, Fields DEF OfKind
      <4> QED
        BY <4>1, <4>2
    <3> HIDE DEF id
    <3>3. /\ allDocs' = docs
          /\ activeId' \in Nat /\ sourceText' \in Texts \cup {NoText}
          /\ Active' # 0 => sourceText' \in Texts
      BY <1>1, <3>1, <3>2, SelectTypes
    <3> QED
      BY <1>1, <1>2, <3>1, <3>3 DEF AimedInv, PageTyped, dialog
  <2>2. CASE handler[h].reply # "ok"
    <3>1. UNCHANGED view /\ error' = TRUE
      BY <2>2 DEF ReceiveList
    <3> QED
      BY <1>2, <3>1 DEF AimedInv, PageTyped, Active, view, dialog
  <2> QED
    BY <2>1, <2>2
<1>4. CASE handler[h].job # "validate"
  <2>1. handler' = Ended(h)
    BY <1>4 DEF ReceiveList
  <2> QED
    BY <1>2, <1>3, <2>1, EndedAims
<1>5. CASE handler[h].job = "validate"
  <2> DEFINE c == [handler[h] EXCEPT !.job = "check", !.op = "validate", !.reply = "none", !.docs = <<>>]
  <2>1. handler' = [handler EXCEPT ![h] = c]
    BY <1>5 DEF ReceiveList, Checking, AimedInv
  <2>2. ASSUME NEW r \in Handler
        PROVE  LET q == [r EXCEPT !.job = "check", !.op = "validate", !.reply = "none", !.docs = <<>>]
               IN  /\ q \in Handler /\ q.docs = <<>> /\ q.id = r.id /\ q.bundle = r.bundle
                   /\ q.op = "validate" /\ q.job = "check"
    BY NothingStarted DEF Handler
  <2>3. /\ c \in Handler /\ c.docs = <<>> /\ c.id = handler[h].id /\ c.bundle = handler[h].bundle
        /\ c.op = "validate" /\ c.job = "check"
    BY <1>1, <2>2
  <2> HIDE DEF c
  <2>4. Aimed(server, handler[h])
    BY DEF AimedInv
  <2>5. c.id \in DOMAIN server /\ server[c.id].kind = Kind
    BY <1>1, <1>5, <2>3, <2>4 DEF Aimed, Works
  <2>6. Aimed(server, c)
    BY <1>1, <2>3, <2>4, <2>5, NothingFetched DEF Aimed
  <2> QED
    BY <1>1, <1>2, <1>3, <2>1, <2>6, OneHandlerAims, WithinItself DEF AimedInv
<1> QED
  BY <1>4, <1>5
-----------------------------------------------------------------------------
LEMMA OperateAims ==
  ASSUME AimedInv, NEW h \in Handlers, Operate(h)
  PROVE  AimedInv'
<1>0. error \in BOOLEAN /\ loading \in BOOLEAN
  BY DEF AimedInv, PageTyped
<1>1. Live("editor") => Active # 0 /\ Active = activeId
  BY DEF Live, Shown, Active
<1>2. CASE Retry(h)
  BY <1>0, <1>2, StartAims, Zenon DEF Retry, Purpose
<1>3. CASE SaveDraft(h)
  BY <1>0, <1>1, <1>3, StartAims DEF SaveDraft, Purpose
<1>4. CASE ValidateDraft(h)
  <2>1. \/ Start(h, "validate", "save", activeId, sourceText)
        \/ Start(h, "check", "validate", activeId, NoText)
    BY <1>4, Zenon DEF ValidateDraft
  <2>2. Active # 0 /\ UNCHANGED <<server, view, dialog, error, loading>>
    BY <1>1, <1>4 DEF ValidateDraft
  <2>3. /\ Purpose("validate", "save", activeId, sourceText)
        /\ Purpose("check", "validate", activeId, NoText)
    BY <2>2 DEF Purpose
  <2> QED
    BY <1>0, <2>1, <2>2, <2>3, StartAims
<1>5. CASE ApproveDocument(h)
  BY <1>0, <1>1, <1>5, StartAims DEF ApproveDocument, Purpose
<1>6. CASE ConfirmPublish(h)
  BY <1>0, <1>6, StartAims DEF ConfirmPublish, Purpose
<1>7. CASE ConfirmArchive(h)
  BY <1>0, <1>7, StartAims DEF ConfirmArchive, Purpose
<1>8. ASSUME NEW text \in Texts, ImportDocument(h, text) \/ CreateStarterDraft(h, text)
      PROVE  AimedInv'
  BY <1>0, <1>8, StartAims DEF ImportDocument, CreateStarterDraft, Purpose
<1> QED
  BY <1>2, <1>3, <1>4, <1>5, <1>6, <1>7, <1>8 DEF Operate

(* The steps that only touch the page.                                     *)
LEMMA PageStepsAim ==
  ASSUME AimedInv,
         \/ \E text \in Texts : EditSource(text)
         \/ RefuseDraft \/ Cancel \/ ConfirmDiscard \/ ConfirmReset
         \/ \E id \in DOMAIN allDocs : SwitchDocument(id)
         \/ \E what \in {"publish", "archive", "reset"} : AskFirst(what)
  PROVE  AimedInv'
<1>0. PageTyped /\ allDocs \in Docs
  BY DEF AimedInv, Within
<1>1. ASSUME NEW id \in Nat, Select(allDocs, id)
      PROVE  /\ allDocs' = allDocs /\ activeId' \in Nat /\ sourceText' \in Texts \cup {NoText}
             /\ Active' # 0 => sourceText' \in Texts
  BY <1>0, <1>1, SelectTypes
<1>2. ASSUME NEW text \in Texts, EditSource(text)
      PROVE  AimedInv'
  <2>1. PageTyped' /\ UNCHANGED <<server, allDocs, work>>
    BY <1>0, <1>2 DEF EditSource, PageTyped, Active, dialog
  <2> QED
    BY <2>1, PageAims
<1>3. CASE RefuseDraft \/ Cancel
  <2>1. UNCHANGED <<server, view, work, loading>> /\ Active' = Active
    BY <1>3 DEF RefuseDraft, Cancel, Active, view
  <2>2. /\ error' \in BOOLEAN /\ pendingDocumentId' \in Nat
        /\ gate' \in {"none", "publish", "archive", "discard", "reset"}
    <3>1. CASE RefuseDraft
      BY <1>0, <3>1 DEF RefuseDraft, PageTyped, dialog
    <3>2. CASE Cancel
      BY <1>0, <3>2 DEF Cancel, PageTyped
    <3> QED
      BY <1>3, <3>1, <3>2
  <2>3. PageTyped'
    BY <1>0, <2>1, <2>2 DEF PageTyped, view
  <2> QED
    BY <2>1, <2>3, PageAims DEF view
<1>4. CASE ConfirmDiscard
  <2>1. PageTyped' /\ UNCHANGED <<server, allDocs, work>>
    BY <1>0, <1>1, <1>4 DEF ConfirmDiscard, PageTyped
  <2> QED
    BY <2>1, PageAims
<1>5. CASE ConfirmReset
  <2>1. sourceText' \in Texts \/ sourceText' = sourceText
    BY <1>5 DEF ConfirmReset
  <2>2. Active' = Active /\ UNCHANGED <<server, allDocs, work, activeId, pendingDocumentId, error, loading>>
    BY <1>5 DEF ConfirmReset, Active
  <2>3. gate' = "none" /\ (Active # 0 => sourceText' \in Texts)
    BY <1>5 DEF ConfirmReset
  <2>4. PageTyped'
    BY <1>0, <2>1, <2>2, <2>3 DEF PageTyped
  <2> QED
    BY <2>2, <2>4, PageAims
<1>6. ASSUME NEW id \in DOMAIN allDocs, SwitchDocument(id)
      PROVE  AimedInv'
  <2>1. id \in Nat
    BY <1>0, Fields
  <2>2. CASE UNCHANGED view /\ gate' = "discard" /\ pendingDocumentId' = id
    <3>1. PageTyped' /\ UNCHANGED <<server, allDocs, work>>
      BY <1>0, <1>6, <2>1, <2>2 DEF SwitchDocument, PageTyped, Active, view
    <3> QED
      BY <3>1, PageAims
  <2>3. CASE Select(allDocs, id) /\ UNCHANGED dialog
    <3>1. PageTyped' /\ UNCHANGED <<server, allDocs, work>>
      BY <1>0, <1>1, <1>6, <2>1, <2>3 DEF SwitchDocument, PageTyped, dialog
    <3> QED
      BY <3>1, PageAims
  <2> QED
    BY <1>6, <2>2, <2>3 DEF SwitchDocument
<1>7. ASSUME NEW what \in {"publish", "archive", "reset"}, AskFirst(what)
      PROVE  AimedInv'
  <2>1. PageTyped' /\ UNCHANGED <<server, allDocs, work>>
    BY <1>0, <1>7 DEF AskFirst, PageTyped, Active, view
  <2> QED
    BY <2>1, PageAims
<1> QED
  BY <1>2, <1>3, <1>4, <1>5, <1>6, <1>7

LEMMA ColleagueAims ==
  ASSUME AimedInv, NEW id \in OfKind(server), NEW text \in Texts, Colleague(id, text)
  PROVE  AimedInv'
<1>1. PICK o \in Save(server, id, text) : server' = o.docs
  BY DEF Colleague
<1>2. id \in DOMAIN server /\ server \in Docs
  BY DEF OfKind, AimedInv
<1>3. server' \in Docs /\ Within(server, server')
  BY <1>1, <1>2, SaveFits
<1>4. /\ handler' = handler /\ allDocs' = allDocs
      /\ presses' \in 0..MaxPresses
  BY PressCounts DEF Colleague, view
<1>5. \A h \in Handlers : Aimed(server', handler'[h])
  BY <1>3, <1>4, AimedStays DEF AimedInv
<1>6. PageTyped'
  BY DEF AimedInv, PageTyped, Active, Colleague, view, dialog
<1>7. Within(allDocs', server')
  BY <1>3, <1>4, WithinWithin DEF AimedInv
<1> QED
  BY <1>3, <1>4, <1>5, <1>6, <1>7 DEF AimedInv

LEMMA AimedInit == Init => AimedInv
<1> SUFFICES ASSUME Init PROVE AimedInv
  OBVIOUS
<1>1. server \in Docs /\ presses \in 0..MaxPresses
  BY WorkspaceAssumptions DEF Init
<1>2. Within(allDocs, server)
  BY <1>1, NothingFetched DEF Init
<1>3. PageTyped
  BY DEF Init, PageTyped, Active, OfKind
<1>4. handler = [h \in Handlers |-> handler[h]]
  BY DEF Init
<1>5. \A h \in Handlers : handler[h] = Refresh(0) \/ handler[h] = Idle
  BY DEF Init
<1>6. Aimed(server, Refresh(0)) /\ Aimed(server, Idle)
  BY <1>1, RefreshAims DEF Aimed
<1>7. \A h \in Handlers : Aimed(server, handler[h])
  BY <1>5, <1>6
<1> QED
  BY <1>1, <1>2, <1>3, <1>4, <1>7 DEF AimedInv

LEMMA AimedSteps == AimedInv /\ [Next]_vars => AimedInv'
<1> SUFFICES ASSUME AimedInv, [Next]_vars PROVE AimedInv'
  OBVIOUS
<1>1. ASSUME NEW h \in Handlers, Operate(h) \/ Serve(h) \/ Fail(h) \/ Receive(h)
      PROVE  AimedInv'
  BY <1>1, OperateAims, ServeAims, FailAims, ReceiveWriteAims, ReceiveListAims DEF Receive
<1>2. ASSUME NEW id \in OfKind(server), NEW text \in Texts, Colleague(id, text)
      PROVE  AimedInv'
  BY <1>2, ColleagueAims
<1>3. CASE UNCHANGED vars
  BY <1>3 DEF vars, AimedInv, PageTyped, Active, view, dialog, work
<1> QED
  BY <1>1, <1>2, <1>3, PageStepsAim DEF Next

(* What every handler holds, whatever it awaits and whoever else writes.   *)
THEOREM AimedInvariance == Spec => []AimedInv
BY AimedInit, AimedSteps, PTL DEF Spec

(* The page keeps its types, and no handler sends a request about a        *)
(* document that does not exist.                                           *)
THEOREM TypeCorrect == Spec => []TypeOK
<1>1. ASSUME AimedInv PROVE TypeOK
  <2>1. /\ server \in Docs /\ presses \in 0..MaxPresses
        /\ allDocs \in Docs /\ Len(allDocs) <= Len(server)
        /\ handler = [h \in Handlers |-> handler[h]]
        /\ \A h \in Handlers : Aimed(server, handler[h])
    BY <1>1 DEF AimedInv, Within
  <2>2. ASSUME NEW h \in Handlers
        PROVE  /\ handler[h] \in Handler \cup {Idle}
               /\ handler[h] # Idle /\ handler[h].op \in {"save", "validate", "approve", "archive"}
                    => handler[h].id \in DOMAIN server
               /\ handler[h] # Idle /\ handler[h].op = "publish"
                    => \A k \in Kinds : handler[h].bundle[k] \in DOMAIN server
    BY <2>1 DEF Aimed, Works
  <2>3. handler \in [Handlers -> Handler \cup {Idle}]
    BY <2>1, <2>2
  <2> QED
    BY <1>1, <2>1, <2>2, <2>3 DEF AimedInv, PageTyped, TypeOK
<1> QED
  BY <1>1, AimedInvariance, PTL

(* A bundle that is validated or published consists of three documents of  *)
(* one scope and tenant, however handlers overlap and whoever else saves.  *)
THEOREM RequestsAreOfOneFamily == Spec => []RequestsOneFamily
<1>1. ASSUME AimedInv, NEW h \in Handlers, handler[h] # Idle,
             handler[h].op \in {"validate", "publish"}, handler[h].bundle # NoBundle,
             NEW k \in Kinds
      PROVE  LET d == IF k = Kind /\ handler[h].op = "validate"
                      THEN handler[h].id ELSE handler[h].bundle[k]
             IN  server[d].kind = k /\ server[d].family = server[handler[h].id].family
  <2>1. Aimed(server, handler[h])
    BY <1>1 DEF AimedInv
  <2>2. server[handler[h].id].kind = Kind
    BY <1>1, <2>1 DEF Aimed, Works
  <2>3. /\ server[handler[h].bundle[k]].kind = k
        /\ server[handler[h].bundle[k]].family = server[handler[h].id].family
    BY <1>1, <2>1 DEF Aimed
  <2> QED
    BY <2>2, <2>3
<1>2. AimedInv => RequestsOneFamily
  BY <1>1 DEF RequestsOneFamily
<1> QED
  BY <1>2, AimedInvariance, PTL
=============================================================================
