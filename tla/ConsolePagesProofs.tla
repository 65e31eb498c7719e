------------------------- MODULE ConsolePagesProofs -------------------------
(***************************************************************************)
(* Proofs about the console's other pages, for every set of documents,     *)
(* records and filter values and every pool of handlers.                   *)
(***************************************************************************)
EXTENDS ConsolePages, TLAPS

(* The shape of a handler's record, whatever its fields hold.              *)
FieldNames == {"job", "doc", "filters", "event", "reply", "rows", "runs", "run", "simulated"}
IsRecord(call) == call # Idle /\ call = [f \in FieldNames |-> call[f]]
Shaped == /\ calls = [c \in Calls |-> calls[c]]
          /\ \A c \in Calls : calls[c] # Idle => IsRecord(calls[c])

(* What was there from the beginning and passes the filters fs of page p,  *)
(* and what it takes for rows to answer them.                              *)
Obeyed(p) == FilteredByServer[p] \cup FilteredByClient[p]
Initially(p, fs) == {r \in StartLog : Obeys(r, fs, Obeyed(p)) /\ (p = "memories" => r.status = "active")}
Answer(p, rs, fs) == /\ \A r \in rs : Obeys(r, fs, Obeyed(p))
                     /\ p # "publications" => Initially(p, fs) \subseteq rs

(* A list page has at most one handler under way, a load with the filters  *)
(* on screen, during which the page says that it loads.                    *)
LoadsAnswer(p, call, fs) == /\ call.job = "load"
                            /\ call.filters = fs
                            /\ call.reply = "ok" => Answer(p, call.rows, fs)
OneLoad == /\ \A c \in Calls : calls[c] # Idle => LoadsAnswer(page, calls[c], filters) /\ loading /\ ~error
           /\ \A b, c \in Calls : calls[b] # Idle /\ calls[c] # Idle => b = c
ListsAnswer == page \in ListPages => /\ OneLoad
                                     /\ ~gate
                                     /\ ~loading /\ ~error => Answer(page, rows, filters)

IInv == Shaped /\ StartLog \subseteq log /\ LoadingAwaited /\ CurrentFollows /\ ListsAnswer
-----------------------------------------------------------------------------
LEMMA IdleJob == Idle.job = "idle"
BY DEF Idle

LEMMA RecordShaped ==
  ASSUME NEW j, NEW d, NEW f, NEW e, NEW y, NEW w, NEW n, NEW r, NEW s
  PROVE  IsRecord([job |-> j, doc |-> d, filters |-> f, event |-> e, reply |-> y,
                   rows |-> w, runs |-> n, run |-> r, simulated |-> s])
BY SMT DEF IsRecord, FieldNames, Idle

(* Changing fields of a handler's record leaves it one.                    *)
LEMMA ChangedShape ==
  ASSUME NEW call, IsRecord(call), NEW load, DOMAIN load = DOMAIN call, load = [f \in DOMAIN load |-> load[f]]
  PROVE  IsRecord(load)
<1>1. DOMAIN call = FieldNames
  BY DEF IsRecord
<1>2. "doc" \in DOMAIN load /\ "doc" \notin DOMAIN Idle
  BY <1>1 DEF FieldNames, Idle
<1> QED
  BY <1>1, <1>2 DEF IsRecord

LEMMA AwaitingShape ==
  ASSUME NEW job, NEW seen
  PROVE  /\ IsRecord(Awaiting(job, seen)) /\ Awaiting(job, seen).job = job
         /\ Awaiting(job, seen).filters = filters /\ Awaiting(job, seen).reply = "none"
<1>1. IsRecord(Awaiting(job, seen))
  BY RecordShaped, Zenon DEF Awaiting
<1>2. /\ Awaiting(job, seen).job = job /\ Awaiting(job, seen).filters = filters
      /\ Awaiting(job, seen).reply = "none"
  BY DEF Awaiting
<1> QED
  BY <1>1, <1>2

LEMMA LoadShape ==
  ASSUME NEW call, IsRecord(call), NEW fs, NEW load, load = [call EXCEPT !.filters = fs]
  PROVE  /\ IsRecord(load) /\ load.job = call.job
         /\ load.filters = fs /\ load.reply = call.reply
<1>1. IsRecord(load)
  BY ChangedShape
<1>2. load.job = call.job /\ load.filters = fs /\ load.reply = call.reply
  BY DEF IsRecord, FieldNames
<1> QED
  BY <1>1, <1>2

LEMMA OneCall ==
  ASSUME Shaped, NEW c \in Calls, NEW call, call = Idle \/ IsRecord(call),
         calls' = [calls EXCEPT ![c] = call]
  PROVE  /\ Shaped'
         /\ calls'[c] = call
         /\ \A b \in Calls : b # c => calls'[b] = calls[b]
BY SMT DEF Shaped

(* One handler moves: something is still awaited behind each card that     *)
(* says so.                                                                *)
LEMMA OneCallAwaited ==
  ASSUME Shaped, LoadingAwaited, NEW c \in Calls, NEW call, call = Idle \/ IsRecord(call),
         calls' = [calls EXCEPT ![c] = call],
         ~loading' \/ call.job = "load" \/ (loading' = loading /\ calls[c].job # "load"),
         ~running' \/ call.job = "validate" \/ (running' = running /\ calls[c].job # "validate")
  PROVE  LoadingAwaited'
<1>1. /\ calls'[c] = call
      /\ \A b \in Calls : b # c => calls'[b] = calls[b]
  BY OneCall
<1>2. loading' => \E b \in Calls : calls'[b].job = "load"
  BY <1>1 DEF LoadingAwaited
<1>3. running' => \E b \in Calls : calls'[b].job = "validate"
  BY <1>1 DEF LoadingAwaited
<1> QED
  BY <1>2, <1>3 DEF LoadingAwaited
LEMMA CallSteps ==
  ASSUME IInv, NEW c \in Calls, NEW call, call = Idle \/ IsRecord(call),
         calls' = [calls EXCEPT ![c] = call],
         page' = page, StartLog \subseteq log',
         ~loading' \/ call.job = "load" \/ (loading' = loading /\ calls[c].job # "load"),
         ~running' \/ call.job = "validate" \/ (running' = running /\ calls[c].job # "validate"),
         CurrentFollows',
         page \in ListPages =>
           /\ ~gate'
           /\ \A b \in Calls : b # c => calls[b] = Idle
           /\ call # Idle => LoadsAnswer(page, call, filters') /\ loading' /\ ~error'
           /\ ~loading' /\ ~error' => Answer(page, rows', filters')
  PROVE  IInv'
<1>1. /\ Shaped' /\ calls'[c] = call
      /\ \A b \in Calls : b # c => calls'[b] = calls[b]
  BY OneCall DEF IInv
<1>2. LoadingAwaited'
  BY OneCallAwaited DEF IInv
<1>3. ASSUME page \in ListPages
      PROVE  OneLoad'
  BY <1>1, <1>3 DEF OneLoad
<1>4. ListsAnswer'
  BY <1>3 DEF ListsAnswer
<1> QED
  BY <1>1, <1>2, <1>4 DEF IInv

(* On a list page the handler that moves is the only one.                  *)
LEMMA Alone ==
  ASSUME IInv, NEW c \in Calls, page \in ListPages, calls[c] # Idle \/ ~loading \/ error
  PROVE  \A b \in Calls : b # c => calls[b] = Idle
BY DEF IInv, ListsAnswer, OneLoad

LEMMA QuietSteps ==
  ASSUME IInv, UNCHANGED <<page, list, selected, validations, current, error, loading, running, calls>>,
         StartLog \subseteq log', page \in ListPages => ~gate'
  PROVE  IInv'
<1>1. Shaped' /\ LoadingAwaited' /\ CurrentFollows'
  BY DEF IInv, Shaped, LoadingAwaited, CurrentFollows
<1>2. page \in ListPages => OneLoad'
  BY DEF IInv, ListsAnswer, OneLoad, list
<1>3. ListsAnswer'
  BY <1>2 DEF IInv, ListsAnswer, list
<1> QED
  BY <1>1, <1>3 DEF IInv
-----------------------------------------------------------------------------
LEMMA RefreshSteps ==
  ASSUME IInv, NEW c \in Calls, Refresh(c, filters'), ~loading \/ error,
         UNCHANGED <<server, page, focus, rollback, running>>
  PROVE  IInv'
<1>1. CurrentFollows' /\ StartLog \subseteq log' /\ (page \in ListPages => ~gate')
  BY DEF IInv, ListsAnswer, CurrentFollows, focus, server, rollback
<1>2. CASE page = "memories" /\ filters'["tenant"] = ""
  <2>1. UNCHANGED <<loading, calls>> /\ error' = TRUE
    BY <1>2 DEF Refresh
  <2>2. Shaped' /\ LoadingAwaited'
    BY <2>1 DEF IInv, Shaped, LoadingAwaited
  <2>3. OneLoad'
    BY <1>2, <2>1 DEF IInv, ListsAnswer, OneLoad, ListPages
  <2>4. ListsAnswer'
    BY <1>1, <2>1, <2>3 DEF ListsAnswer
  <2> QED
    BY <1>1, <2>2, <2>4 DEF IInv
<1>3. CASE ~(page = "memories" /\ filters'["tenant"] = "")
  <2> DEFINE call == [Awaiting("load", selected) EXCEPT !.filters = filters']
  <2>1. /\ loading' = TRUE /\ error' = FALSE
        /\ calls[c] = Idle /\ calls' = [calls EXCEPT ![c] = call]
    BY <1>3 DEF Refresh, Start
  <2>2. IsRecord(call) /\ call.job = "load" /\ call.filters = filters' /\ call.reply = "none"
    <3> DEFINE fresh == Awaiting("load", selected)
    <3>1. IsRecord(fresh) /\ fresh.job = "load" /\ fresh.reply = "none"
      BY AwaitingShape
    <3> HIDE DEF fresh
    <3> QED
      BY <3>1, LoadShape DEF fresh
  <2> HIDE DEF call
  <2>3. LoadsAnswer(page, call, filters')
    BY <2>2 DEF LoadsAnswer
  <2>4. calls[c].job # "validate"
    BY <2>1, IdleJob
  <2>5. page \in ListPages => \A b \in Calls : b # c => calls[b] = Idle
    BY Alone
  <2> QED
    BY <1>1, <2>1, <2>2, <2>3, <2>4, <2>5, CallSteps
<1> QED
  BY <1>2, <1>3

LEMMA RetrySteps ==
  ASSUME IInv, NEW c \in Calls, Retry(c)
  PROVE  IInv'
<1>1. error /\ filters' = filters /\ UNCHANGED <<server, page, focus, rollback, running>>
  BY DEF Retry, Live, Shown
<1>2. Refresh(c, filters')
  BY <1>1 DEF Retry
<1> QED
  BY <1>1, <1>2, RefreshSteps

LEMMA ChangeFilterSteps ==
  ASSUME IInv, NEW c \in Calls, NEW f \in Fields, NEW v \in Values[f], ChangeFilter(c, f, v)
  PROVE  IInv'
<1>1. ~loading /\ Refresh(c, filters') /\ UNCHANGED <<server, page, focus, rollback, running>>
  BY DEF ChangeFilter, Live, Shown
<1> QED
  BY <1>1, RefreshSteps

(* The handlers that only the other pages start.                           *)
LEMMA StartSteps ==
  ASSUME IInv, NEW c \in Calls, NEW job, NEW seen, Start(c, Awaiting(job, seen)), page \notin ListPages,
         ~running' \/ job = "validate" \/ running' = running,
         UNCHANGED <<server, page, focus, loading>>
  PROVE  IInv'
<1> DEFINE call == Awaiting(job, seen)
<1>1. calls[c] = Idle /\ calls' = [calls EXCEPT ![c] = call]
  BY DEF Start
<1>2. IsRecord(call) /\ call.job = job
  BY AwaitingShape
<1> HIDE DEF call
<1>3. calls[c].job = "idle"
  BY <1>1, IdleJob
<1>4. CurrentFollows' /\ StartLog \subseteq log'
  BY DEF IInv, CurrentFollows, focus, server
<1> QED
  BY <1>1, <1>2, <1>3, <1>4, CallSteps

LEMMA OperateSteps ==
  ASSUME IInv, NEW c \in Calls, RunValidation(c) \/ RunSimulation(c) \/ ConfirmRollback(c)
  PROVE  IInv'
<1>1. page \notin ListPages
  BY DEF RunValidation, RunSimulation, ConfirmRollback, ListPages, IInv, ListsAnswer
<1>2. CASE RunValidation(c)
  BY <1>1, <1>2, StartSteps DEF RunValidation
<1>3. CASE RunSimulation(c)
  <2>1. UNCHANGED <<server, page, focus, loading, running>>
    BY <1>3 DEF RunSimulation
  <2> QED
    BY <1>1, <1>3, <2>1, StartSteps DEF RunSimulation
<1>4. CASE ConfirmRollback(c)
  BY <1>1, <1>4, StartSteps DEF ConfirmRollback
<1> QED
  BY <1>2, <1>3, <1>4
-----------------------------------------------------------------------------
(* A handler is answered, or its request or answer is lost: what it was    *)
(* started for and with stays.                                             *)
LEMMA AnsweredSteps ==
  ASSUME IInv, NEW c \in Calls, calls[c] # Idle, NEW call, IsRecord(call),
         calls' = [calls EXCEPT ![c] = call],
         call.job = calls[c].job, call.filters = calls[c].filters,
         page \in ListPages /\ call.reply = "ok" => Answer(page, call.rows, call.filters),
         StartLog \subseteq log',
         UNCHANGED <<page, list, focus, rollback, error, loading, running>>
  PROVE  IInv'
<1>1. CurrentFollows'
  BY DEF IInv, CurrentFollows, focus
<1>2. ASSUME page \in ListPages
      PROVE  /\ ~gate'
             /\ \A b \in Calls : b # c => calls[b] = Idle
             /\ LoadsAnswer(page, call, filters') /\ loading' /\ ~error'
  <2>1. LoadsAnswer(page, calls[c], filters) /\ loading /\ ~error /\ ~gate
    BY <1>2 DEF IInv, ListsAnswer, OneLoad
  <2>2. LoadsAnswer(page, call, filters')
    BY <1>2, <2>1 DEF LoadsAnswer, list
  <2>3. \A b \in Calls : b # c => calls[b] = Idle
    BY <1>2, Alone
  <2> QED
    BY <2>1, <2>2, <2>3 DEF rollback
<1>3. /\ ~loading' \/ call.job = "load" \/ (loading' = loading /\ calls[c].job # "load")
      /\ ~running' \/ call.job = "validate" \/ (running' = running /\ calls[c].job # "validate")
      /\ page' = page
  OBVIOUS
<1> QED
  BY <1>1, <1>2, <1>3, CallSteps

LEMMA ListingAnswers ==
  ASSUME page \in ListPages, StartLog \subseteq log, NEW fs
  PROVE  Answer(page, Listing(fs), fs)
<1>1. page # "rollback"
  BY DEF ListPages
<1>2. Listing(fs) = {r \in IF page = "publications" THEN Snapshots ELSE log :
                       /\ Obeys(r, fs, Obeyed(page))
                       /\ page = "memories" => r.status = "active"}
  BY <1>1 DEF Listing, Obeyed
<1> QED
  BY <1>2, Zenon DEF Answer, Initially

LEMMA ServeSteps ==
  ASSUME IInv, NEW c \in Calls, Serve(c)
  PROVE  IInv'
<1> DEFINE old == calls[c]
<1>1. /\ UNCHANGED <<page, list, focus, rollback, error, loading, running>>
      /\ StartLog \subseteq log'
  BY DEF Serve, ServeLoad, ServeValidate, ServeSimulate, ServeRollback, server, IInv
<1>2. old # Idle /\ IsRecord(old)
  BY DEF Serve, ServeLoad, ServeValidate, ServeSimulate, ServeRollback, Waiting, IInv, Shaped
<1>3. page \in ListPages => old.job = "load"
  BY <1>2 DEF IInv, ListsAnswer, OneLoad, LoadsAnswer
<1>4. CASE ServeLoad(c)
  <2> DEFINE new == [old EXCEPT !.reply = "ok", !.runs = Runs, !.rows = Listing(old.filters)]
  <2>1. calls' = [calls EXCEPT ![c] = new]
    BY <1>4 DEF ServeLoad, IInv, Shaped
  <2>2. DOMAIN new = DOMAIN old /\ new = [f \in DOMAIN new |-> new[f]]
    BY Zenon
  <2>3. IsRecord(new)
    BY <1>2, <2>2, ChangedShape
  <2>4. new.job = old.job /\ new.filters = old.filters /\ new.rows = Listing(old.filters)
    BY <1>2 DEF IsRecord, FieldNames
  <2>5. page \in ListPages => Answer(page, new.rows, new.filters)
    BY <2>4, ListingAnswers DEF IInv
  <2> HIDE DEF new
  <2> QED
    BY <1>1, <1>2, <2>1, <2>3, <2>4, <2>5, AnsweredSteps
<1>5. ASSUME NEW run, calls' = [calls EXCEPT ![c].reply = "ok", ![c].run = run], old.job # "load"
      PROVE  IInv'
  <2> DEFINE new == [old EXCEPT !.reply = "ok", !.run = run]
  <2>1. calls' = [calls EXCEPT ![c] = new]
    BY <1>5 DEF IInv, Shaped
  <2>2. DOMAIN new = DOMAIN old /\ new = [f \in DOMAIN new |-> new[f]]
    BY Zenon
  <2>3. IsRecord(new)
    BY <1>2, <2>2, ChangedShape
  <2>4. new.job = old.job /\ new.filters = old.filters
    BY <1>2 DEF IsRecord, FieldNames
  <2> HIDE DEF new
  <2> QED
    BY <1>1, <1>2, <1>3, <1>5, <2>1, <2>3, <2>4, AnsweredSteps
<1>6. ASSUME NEW outcome, calls' = [calls EXCEPT ![c].reply = "ok", ![c].simulated = outcome], old.job # "load"
      PROVE  IInv'
  <2> DEFINE new == [old EXCEPT !.reply = "ok", !.simulated = outcome]
  <2>1. calls' = [calls EXCEPT ![c] = new]
    BY <1>6 DEF IInv, Shaped
  <2>2. DOMAIN new = DOMAIN old /\ new = [f \in DOMAIN new |-> new[f]]
    BY Zenon
  <2>3. IsRecord(new)
    BY <1>2, <2>2, ChangedShape
  <2>4. new.job = old.job /\ new.filters = old.filters
    BY <1>2 DEF IsRecord, FieldNames
  <2> HIDE DEF new
  <2> QED
    BY <1>1, <1>2, <1>3, <1>6, <2>1, <2>3, <2>4, AnsweredSteps
<1>7. CASE ServeRollback(c)
  <2> DEFINE new == [old EXCEPT !.reply = "ok"]
  <2>1. calls' = [calls EXCEPT ![c] = new] /\ old.job = "rollback"
    BY <1>7 DEF ServeRollback, IInv, Shaped
  <2>2. DOMAIN new = DOMAIN old /\ new = [f \in DOMAIN new |-> new[f]]
    BY Zenon
  <2>3. IsRecord(new)
    BY <1>2, <2>2, ChangedShape
  <2>4. new.job = old.job /\ new.filters = old.filters
    BY <1>2 DEF IsRecord, FieldNames
  <2> HIDE DEF new
  <2> QED
    BY <1>1, <1>2, <1>3, <2>1, <2>3, <2>4, AnsweredSteps
<1>8. CASE ServeValidate(c)
  <2>1. old.job # "load"
    BY <1>8 DEF ServeValidate
  <2> QED
    BY <1>5, <1>8, <2>1, Zenon DEF ServeValidate
<1>9. CASE ServeSimulate(c)
  <2>1. old.job # "load"
    BY <1>9 DEF ServeSimulate
  <2> QED
    BY <1>6, <1>9, <2>1, Zenon DEF ServeSimulate
<1> QED
  BY <1>4, <1>7, <1>8, <1>9 DEF Serve

LEMMA FailSteps ==
  ASSUME IInv, NEW c \in Calls, Fail(c)
  PROVE  IInv'
<1> DEFINE old == calls[c]
           fresh == Awaiting(old.job, old.doc)
           new == [fresh EXCEPT !.filters = old.filters, !.event = old.event, !.reply = "failed"]
<1>1. calls[c] # Idle /\ calls' = [calls EXCEPT ![c] = new]
  BY DEF Fail, IInv, Shaped
<1>2. IsRecord(fresh) /\ fresh.job = old.job
  BY AwaitingShape
<1>3. UNCHANGED <<server, page, list, focus, rollback, error, loading, running>>
  BY DEF Fail
<1> HIDE DEF fresh
<1>4. DOMAIN new = DOMAIN fresh /\ new = [f \in DOMAIN new |-> new[f]]
  BY Zenon
<1>5. IsRecord(new)
  BY <1>2, <1>4, ChangedShape
<1>6. new.job = old.job /\ new.filters = old.filters /\ new.reply = "failed"
  BY <1>2 DEF IsRecord, FieldNames
<1>7. StartLog \subseteq log'
  BY <1>3 DEF server, IInv
<1> HIDE DEF new
<1> QED
  BY <1>1, <1>3, <1>5, <1>6, <1>7, AnsweredSteps

(* A load that is answered takes the loading card away, and on a list page *)
(* it brings the rows for the filters on screen.                           *)
LEMMA ReceiveLoadSteps ==
  ASSUME IInv, NEW c \in Calls, ReceiveLoad(c)
  PROVE  IInv'
<1>1. /\ calls[c].job = "load" /\ calls[c].reply # "none"
      /\ calls' = [calls EXCEPT ![c] = Idle] /\ loading' = FALSE
      /\ UNCHANGED <<server, page, filters, gate, running>>
  BY DEF ReceiveLoad, Answered, Ended
<1>2. calls[c] # Idle
  BY <1>1, IdleJob
<1>3. CurrentFollows'
  <2>1. CASE page = "validation" /\ Good(c)
    <3>1. current' = Realigned(selected', validations', RunOf(validations', calls[c].doc))
      BY <2>1 DEF ReceiveLoad
    <3> QED
      BY <3>1 DEF CurrentFollows, Realigned
  <2>2. CASE page = "validation" /\ ~Good(c)
    BY <2>2 DEF ReceiveLoad, IInv, CurrentFollows, focus
  <2>3. CASE page # "validation"
    BY <1>1, <2>3 DEF CurrentFollows
  <2> QED
    BY <2>1, <2>2, <2>3
<1>4. ASSUME page \in ListPages
      PROVE  /\ ~gate'
             /\ \A b \in Calls : b # c => calls[b] = Idle
             /\ ~error' => Answer(page, rows', filters')
  <2>1. LoadsAnswer(page, calls[c], filters) /\ ~gate
    BY <1>2, <1>4 DEF IInv, ListsAnswer, OneLoad
  <2>2. ~error' => Good(c) /\ rows' = calls[c].rows
    BY DEF ReceiveLoad
  <2> QED
    BY <1>1, <1>2, <1>4, <2>1, <2>2, Alone DEF LoadsAnswer, Good
<1>5. StartLog \subseteq log' /\ calls[c].job # "validate"
  BY <1>1 DEF server, IInv
<1> QED
  BY <1>1, <1>3, <1>4, <1>5, CallSteps

LEMMA ReceiveOtherSteps ==
  ASSUME IInv, NEW c \in Calls, ReceiveRun(c) \/ ReceiveSimulation(c) \/ ReceiveRollback(c)
  PROVE  IInv'
<1>1. calls[c].job \notin {"idle", "load"}
  BY DEF ReceiveRun, ReceiveSimulation, ReceiveRollback, Answered
<1>2. page \notin ListPages
  BY <1>1, IdleJob DEF IInv, ListsAnswer, OneLoad, LoadsAnswer
<1>3. StartLog \subseteq log' /\ page' = page
  BY DEF ReceiveRun, ReceiveSimulation, ReceiveRollback, server, IInv
<1>4. CASE ReceiveRun(c)
  <2>1. calls' = [calls EXCEPT ![c] = Idle] /\ running' = FALSE /\ loading' = loading
    BY <1>4 DEF ReceiveRun, Ended
  <2>2. CurrentFollows'
    <3>1. CASE Good(c)
      BY <1>4, <3>1 DEF ReceiveRun, CurrentFollows, Realigned
    <3>2. CASE ~Good(c)
      BY <1>4, <3>2 DEF ReceiveRun, CurrentFollows, IInv
    <3> QED
      BY <3>1, <3>2
  <2> QED
    BY <1>1, <1>2, <1>3, <2>1, <2>2, CallSteps
<1>5. CASE ReceiveSimulation(c)
  <2>1. /\ calls' = [calls EXCEPT ![c] = Idle] /\ calls[c].job # "validate"
        /\ UNCHANGED <<focus, loading, running>>
    BY <1>5 DEF ReceiveSimulation, Ended, Answered
  <2>2. CurrentFollows'
    BY <1>3, <2>1 DEF CurrentFollows, IInv, focus
  <2> QED
    BY <1>1, <1>2, <1>3, <2>1, <2>2, CallSteps
<1>6. CASE ReceiveRollback(c)
  <2>1. UNCHANGED <<focus, running>> /\ calls[c].job # "validate"
    BY <1>6 DEF ReceiveRollback, Answered
  <2>2. CurrentFollows'
    BY <1>3, <2>1 DEF CurrentFollows, IInv, focus
  <2>3. CASE Good(c)
    <3> DEFINE call == Awaiting("load", selected)
    <3>1. calls' = [calls EXCEPT ![c] = call]
      BY <1>6, <2>3 DEF ReceiveRollback
    <3>2. IsRecord(call) /\ call.job = "load"
      BY AwaitingShape
    <3> HIDE DEF call
    <3> QED
      BY <1>1, <1>2, <1>3, <2>1, <2>2, <3>1, <3>2, CallSteps
  <2>4. CASE ~Good(c)
    <3>1. calls' = [calls EXCEPT ![c] = Idle] /\ loading' = loading
      BY <1>6, <2>4 DEF ReceiveRollback, Ended
    <3> QED
      BY <1>1, <1>2, <1>3, <2>1, <2>2, <3>1, CallSteps
  <2> QED
    BY <2>3, <2>4
<1> QED
  BY <1>4, <1>5, <1>6

LEMMA SelectSteps ==
  ASSUME IInv, NEW d \in Docs \cup {0}, SelectDocument(d)
  PROVE  IInv'
<1>1. UNCHANGED <<server, page, list, rollback, error, loading, running, calls>>
  BY DEF SelectDocument
<1>2. CurrentFollows'
  BY DEF SelectDocument, CurrentFollows, Realigned, RunOf
<1>3. Shaped' /\ LoadingAwaited' /\ StartLog \subseteq log'
  BY <1>1 DEF IInv, Shaped, LoadingAwaited, server
<1>4. page \in ListPages => OneLoad'
  BY <1>1 DEF IInv, ListsAnswer, OneLoad, list
<1>5. ListsAnswer'
  BY <1>1, <1>4 DEF IInv, ListsAnswer, list, rollback
<1> QED
  BY <1>2, <1>3, <1>5 DEF IInv
-----------------------------------------------------------------------------
LEMMA InitHolds == Init => IInv
<1> SUFFICES ASSUME Init PROVE IInv
  OBVIOUS
<1> DEFINE load == Awaiting("load", 0)
<1>1. PICK first \in Calls : \A b \in Calls : first <= b
  BY PagesAssumptions
<1>2. /\ calls = [c \in Calls |-> IF \A b \in Calls : c <= b THEN load ELSE Idle]
      /\ loading = TRUE /\ running = FALSE /\ error = FALSE /\ gate = FALSE
      /\ log = StartLog /\ selected = 0
  BY DEF Init
<1>3. IsRecord(load) /\ load.job = "load" /\ load.filters = filters /\ load.reply = "none"
  BY AwaitingShape
<1> HIDE DEF load
<1>4. \A c \in Calls : calls[c] = load \/ calls[c] = Idle
  BY <1>2
<1>5. calls[first] = load
  BY <1>1, <1>2
<1>6. ASSUME NEW c \in Calls, calls[c] # Idle
      PROVE  c = first
  <2>1. c <= first /\ first <= c
    BY <1>1, <1>2, <1>6, Zenon
  <2>2. c \in Nat /\ first \in Nat
    BY PagesAssumptions
  <2> QED
    BY <2>1, <2>2
<1>7. calls = [c \in Calls |-> calls[c]]
  BY <1>2
<1>8. Shaped
  BY <1>3, <1>4, <1>7, Zenon DEF Shaped
<1>9. LoadingAwaited
  BY <1>1, <1>2, <1>3, <1>5 DEF LoadingAwaited
<1>10. OneLoad
  <2>1. LoadsAnswer(page, load, filters)
    BY <1>3 DEF LoadsAnswer
  <2> QED
    BY <1>2, <1>4, <1>6, <2>1 DEF OneLoad
<1> QED
  BY <1>2, <1>8, <1>9, <1>10 DEF IInv, ListsAnswer, CurrentFollows

LEMMA StepsHold == IInv /\ [Next]_vars => IInv'
<1> SUFFICES ASSUME IInv, [Next]_vars PROVE IInv'
  OBVIOUS
<1>1. ASSUME NEW c \in Calls,
             \/ Retry(c) \/ RunValidation(c) \/ RunSimulation(c) \/ ConfirmRollback(c)
             \/ Serve(c) \/ Fail(c)
             \/ ReceiveLoad(c) \/ ReceiveRun(c) \/ ReceiveSimulation(c) \/ ReceiveRollback(c)
      PROVE  IInv'
  BY <1>1, RetrySteps, OperateSteps, ServeSteps, FailSteps, ReceiveLoadSteps, ReceiveOtherSteps
<1>2. ASSUME NEW c \in Calls, NEW f \in Fields, NEW v \in Values[f], ChangeFilter(c, f, v)
      PROVE  IInv'
  BY <1>2, ChangeFilterSteps
<1>3. ASSUME NEW d \in Docs \cup {0}, SelectDocument(d)
      PROVE  IInv'
  BY <1>3, SelectSteps
<1>4. CASE /\ UNCHANGED <<page, list, focus, error, loading, running, calls>>
           /\ StartLog \subseteq log' /\ (page \in ListPages => ~gate')
  BY <1>4, QuietSteps DEF focus
<1>5. StartLog \subseteq log /\ (page \in ListPages => ~gate)
  BY DEF IInv, ListsAnswer
<1>6. ASSUME NEW api \in Samples, NEW lines \in BOOLEAN, ChooseSample(api, lines)
      PROVE  IInv'
  BY <1>4, <1>5, <1>6 DEF ChooseSample, server, rollback
<1>7. ASSUME NEW s \in rows, SelectSnapshot(s)
      PROVE  IInv'
  BY <1>4, <1>5, <1>7 DEF SelectSnapshot, server
<1>8. CASE AskRollback
  <2>1. page \notin ListPages
    BY <1>8 DEF AskRollback, ListPages
  <2> QED
    BY <1>4, <1>5, <1>8, <2>1 DEF AskRollback, server
<1>9. CASE CancelRollback
  <2>1. gate' = FALSE /\ UNCHANGED <<server, page, list, focus, error, loading, running, calls>>
    BY <1>9 DEF CancelRollback
  <2> QED
    BY <1>4, <1>5, <2>1 DEF server
<1>10. CASE Elsewhere
  BY <1>4, <1>5, <1>10 DEF Elsewhere, rollback
<1>11. CASE UNCHANGED vars
  BY <1>4, <1>5, <1>11 DEF vars, server, rollback
<1> QED
  BY <1>1, <1>2, <1>3, <1>6, <1>7, <1>8, <1>9, <1>10, <1>11 DEF Next

(* The inductive invariant: besides what the theorems below state, on a    *)
(* list page at most one load is under way, with the filters on screen.    *)
THEOREM Invariance == Spec => []IInv
BY InitHolds, StepsHold, PTL DEF Spec

(* The validation page shows, for the selected document, the run it holds  *)
(* for it, in whatever order runs and loads are answered.                  *)
THEOREM CurrentIsSelected == Spec => []CurrentFollows
<1>1. IInv => CurrentFollows
  BY DEF IInv
<1> QED
  BY <1>1, Invariance, PTL

(* No loading card and no running button without an answer to come.        *)
THEOREM LoadingIsAwaited == Spec => []LoadingAwaited
<1>1. IInv => LoadingAwaited
  BY DEF IInv
<1> QED
  BY <1>1, Invariance, PTL

(* A list on screen is the answer to the filters on screen.                *)
THEOREM FiltersAreAnswered == Spec => []FiltersAnswered
<1>1. ASSUME IInv, page \in ListPages, Shown = "content"
      PROVE  /\ \A r \in rows : Obeys(r, filters, Obeyed(page))
             /\ page # "publications" => StartLog \cap Listing(filters) \subseteq rows
  <2>1. Answer(page, rows, filters)
    BY <1>1 DEF IInv, ListsAnswer, Shown
  <2>2. page # "publications" => StartLog \cap Listing(filters) \subseteq Initially(page, filters)
    BY <1>1 DEF Listing, ListPages, Initially, Obeyed
  <2> QED
    BY <2>1, <2>2 DEF Answer
<1>2. IInv => FiltersAnswered
  BY <1>1 DEF FiltersAnswered, Obeyed
<1> QED
  BY <1>2, Invariance, PTL
=============================================================================
