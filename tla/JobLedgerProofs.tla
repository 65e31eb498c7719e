---------------------------- MODULE JobLedgerProofs ----------------------------
(***************************************************************************)
(* The job ledger keeps its promises for any set of requests: no job is    *)
(* executed twice, its rows tell the truth, and it serves requests in      *)
(* real-time order, which is the refinement of SerialQueue.                *)
(*                                                                         *)
(* The order needs a fact no property names: created_at grows along the    *)
(* real-time order (Stamped), because it is stamped between the sending of *)
(* a request and its answer.  A queued row that was acknowledged before r  *)
(* was sent is therefore older than r, and the worker takes the oldest.    *)
(***************************************************************************)
EXTENDS JobLedger, TLAPS

(* A row exists exactly once the request is acknowledged, and has a stamp. *)
RowsInv ==
    \A r \in Requests :
        /\ request[r] = "acked" <=> status[r] # "none"
        /\ stamp[r] <= clock
        /\ request[r] \in {"flushed", "acked"} => stamp[r] > 0
        /\ request[r] \in {"new", "open"} => stamp[r] = 0

Stamped ==
    \A q, r \in Requests :
        <<q, r>> \in before =>
            /\ request[q] = "acked"
            /\ request[r] # "new"
            /\ stamp[r] > 0 => stamp[q] < stamp[r]

WorkerInv ==
    /\ worker = "running" =>
          current \in Requests /\ status[current] = "running" /\ current \notin abandoned
    /\ worker # "running" => current = NoJob

AttemptsInv ==
    \A r \in Requests : attempts[r] = IF status[r] \in {"none", "queued"} THEN 0 ELSE 1

IInv == /\ TypeOK
        /\ RowsInv
        /\ Stamped
        /\ WorkerInv
        /\ AttemptsInv
        /\ LedgerMatchesEffects
        /\ RunningAccounted
-----------------------------------------------------------------------------
LEMMA InitIInv == Init => IInv
  <1> SUFFICES ASSUME Init PROVE IInv
    OBVIOUS
  <1> USE LedgerAssumptions DEF Init
  <1>1. TypeOK
    BY DEF TypeOK, RequestState, JobStatus
  <1>2. RowsInv /\ Stamped /\ WorkerInv /\ AttemptsInv
    BY DEF RowsInv, Stamped, WorkerInv, AttemptsInv
  <1>3. LedgerMatchesEffects /\ RunningAccounted
    BY DEF LedgerMatchesEffects, RunningAccounted, Ingests
  <1> QED
    BY <1>1, <1>2, <1>3 DEF IInv

(* Types, one action after the other.                                      *)
LEMMA TypeStep == IInv /\ [Next]_vars => TypeOK'
  <1> SUFFICES ASSUME IInv, [Next]_vars PROVE TypeOK'
    OBVIOUS
  <1> USE LedgerAssumptions DEF IInv, TypeOK, RequestState, JobStatus, clientVars, workerVars
  <1>1. ASSUME NEW r \in Requests, Send(r) PROVE TypeOK'
    BY <1>1 DEF Send, Acked
  <1>2. ASSUME NEW r \in Requests, Flush(r) PROVE TypeOK'
    BY <1>2 DEF Flush
  <1>3. ASSUME NEW r \in Requests, Commit(r) PROVE TypeOK'
    BY <1>3 DEF Commit
  <1>4. ASSUME NEW r \in Requests, Refuse(r) PROVE TypeOK'
    BY <1>4 DEF Refuse
  <1>5. ASSUME NEW r \in Requests, Take(r) PROVE TypeOK'
    BY <1>5 DEF Take
  <1>6. CASE CommitForget
    BY <1>6 DEF CommitForget, WorkerInv
  <1>7. CASE Complete
    BY <1>7 DEF Complete, WorkerInv
  <1>8. CASE Fail
    BY <1>8 DEF Fail, WorkerInv
  <1>9. CASE Die
    BY <1>9 DEF Die, WorkerInv
  <1>10. CASE Restart
    BY <1>10 DEF Restart
  <1>11. CASE UNCHANGED vars
    BY <1>11 DEF vars
  <1> QED
    BY <1>1, <1>2, <1>3, <1>4, <1>5, <1>6, <1>7, <1>8, <1>9, <1>10, <1>11 DEF Next, Run

(* The facts that only the API side can disturb.                           *)
LEMMA ClientStep == IInv /\ [Next]_vars => RowsInv' /\ Stamped'
  <1> SUFFICES ASSUME IInv, [Next]_vars PROVE RowsInv' /\ Stamped'
    OBVIOUS
  <1> USE LedgerAssumptions DEF IInv, TypeOK, RequestState, JobStatus, clientVars, workerVars,
          RowsInv, Stamped
  <1>1. ASSUME NEW r \in Requests, Send(r) PROVE RowsInv' /\ Stamped'
    BY <1>1 DEF Send, Acked
  <1>2. ASSUME NEW r \in Requests, Flush(r) PROVE RowsInv' /\ Stamped'
    BY <1>2 DEF Flush
  <1>3. ASSUME NEW r \in Requests, Commit(r) PROVE RowsInv' /\ Stamped'
    BY <1>3 DEF Commit
  <1>4. ASSUME NEW r \in Requests, Refuse(r) PROVE RowsInv' /\ Stamped'
    BY <1>4 DEF Refuse
  <1>5. ASSUME NEW r \in Requests, Take(r) PROVE RowsInv' /\ Stamped'
    BY <1>5 DEF Take, Oldest, Queued
  <1>6. CASE CommitForget
    BY <1>6 DEF CommitForget
  <1>7. CASE Complete
    BY <1>7 DEF Complete, WorkerInv
  <1>8. CASE Fail
    BY <1>8 DEF Fail, WorkerInv
  <1>9. CASE Die
    BY <1>9 DEF Die
  <1>10. CASE Restart
    BY <1>10 DEF Restart
  <1>11. CASE UNCHANGED vars
    BY <1>11 DEF vars
  <1> QED
    BY <1>1, <1>2, <1>3, <1>4, <1>5, <1>6, <1>7, <1>8, <1>9, <1>10, <1>11 DEF Next, Run

(* The facts about the worker and its rows.                                *)
LEMMA WorkerStep ==
    IInv /\ [Next]_vars => WorkerInv' /\ AttemptsInv' /\ LedgerMatchesEffects' /\ RunningAccounted'
  <1> DEFINE Goal == WorkerInv /\ AttemptsInv /\ LedgerMatchesEffects /\ RunningAccounted
  <1> SUFFICES ASSUME IInv, [Next]_vars PROVE Goal'
    OBVIOUS
  <1> USE LedgerAssumptions DEF IInv, TypeOK, RequestState, JobStatus, clientVars, workerVars,
          WorkerInv, AttemptsInv, LedgerMatchesEffects, RunningAccounted, Ingests
  <1>1. ASSUME NEW r \in Requests, Send(r) PROVE Goal'
    BY <1>1 DEF Send
  <1>2. ASSUME NEW r \in Requests, Flush(r) PROVE Goal'
    BY <1>2 DEF Flush
  <1>3. ASSUME NEW r \in Requests, Commit(r) PROVE Goal'
    BY <1>3 DEF Commit, RowsInv
  <1>4. ASSUME NEW r \in Requests, Refuse(r) PROVE Goal'
    BY <1>4 DEF Refuse
  <1>5. ASSUME NEW r \in Requests, Take(r) PROVE Goal'
    BY <1>5 DEF Take, Oldest, Queued
  <1>6. CASE CommitForget
    BY <1>6 DEF CommitForget
  <1>7. CASE Complete
    BY <1>7 DEF Complete
  <1>8. CASE Fail
    BY <1>8 DEF Fail
  <1>9. CASE Die
    BY <1>9 DEF Die
  <1>10. CASE Restart
    BY <1>10 DEF Restart
  <1>11. CASE UNCHANGED vars
    BY <1>11 DEF vars
  <1> QED
    BY <1>1, <1>2, <1>3, <1>4, <1>5, <1>6, <1>7, <1>8, <1>9, <1>10, <1>11 DEF Next, Run

LEMMA Invariance == Spec => []IInv
  <1>1. IInv /\ [Next]_vars => IInv'
    BY TypeStep, ClientStep, WorkerStep DEF IInv
  <1> QED
    BY InitIInv, <1>1, PTL DEF Spec
-----------------------------------------------------------------------------
(* No job is ever executed twice, across any number of deaths and restarts *)
(* of the worker.                                                          *)
THEOREM NoDoubleExecution == Spec => []AtMostOnce
  <1>1. IInv => AtMostOnce
    BY DEF IInv, AttemptsInv, AtMostOnce
  <1> QED
    BY Invariance, <1>1, PTL

(* Job rows, events and committed effects always agree, and a row that     *)
(* says running is being executed or was abandoned by a dead worker.       *)
THEOREM LedgerTruth == Spec => [](LedgerMatchesEffects /\ RunningAccounted)
  <1>1. IInv => LedgerMatchesEffects /\ RunningAccounted
    BY DEF IInv
  <1> QED
    BY Invariance, <1>1, PTL

(* A row that says running is executed by the worker, or one died on it.   *)
THEOREM RunningIsAccounted == Spec => []RunningAccounted
  <1> QED
    BY LedgerTruth, PTL
-----------------------------------------------------------------------------
(* A queued request that was acknowledged before r was sent is older than  *)
(* r, so r is not what the worker takes.                                   *)
LEMMA OldestIsNext ==
    ASSUME IInv, NEW r \in Requests, Oldest(r), NEW q \in Requests, status[q] = "queued"
    PROVE  <<q, r>> \notin before
  <1>1. stamp[r] > 0 /\ stamp[r] <= stamp[q]
    BY DEF IInv, RowsInv, Oldest, Queued
  <1>2. stamp[q] \in Nat /\ stamp[r] \in Nat
    BY DEF IInv, TypeOK
  <1> QED
    BY <1>1, <1>2 DEF IInv, Stamped

LEMMA AckedPhases ==
    ASSUME IInv
    PROVE  Queue!Acknowledged = Acked
  BY DEF Queue!Acknowledged, Acked, Phase, IInv, TypeOK, RequestState

(* The step of the queue that each step of the ledger makes.  Whatever the *)
(* phase of the other requests, they keep it.                              *)
LEMMA Mapped ==
    ASSUME IInv, NEW r \in Requests, \A q \in Requests \ {r} : Phase(q)' = Phase(q)
    PROVE  [q \in Requests |-> Phase(q)]'
              = [[q \in Requests |-> Phase(q)] EXCEPT ![r] = Phase(r)']
  OBVIOUS

LEMMA RefinementStep == IInv /\ [Next]_vars => [Queue!Next]_(Queue!queueVars)
  <1> SUFFICES ASSUME IInv, [Next]_vars PROVE [Queue!Next]_(Queue!queueVars)
    OBVIOUS
  <1> DEFINE phase == [q \in Requests |-> Phase(q)]
  <1> USE LedgerAssumptions DEF clientVars, workerVars
  <1>same. ASSUME before' = before, \A q \in Requests : Phase(q)' = Phase(q)
           PROVE  UNCHANGED Queue!queueVars
    BY <1>same DEF Queue!queueVars
  <1>1. ASSUME NEW r \in Requests, Send(r) PROVE Queue!Send(r)
    <2>1. Phase(r) = "new" /\ Phase(r)' = "open"
      BY <1>1 DEF Send, Phase, IInv, TypeOK
    <2>2. \A q \in Requests \ {r} : Phase(q)' = Phase(q)
      BY <1>1 DEF Send, Phase, IInv, TypeOK
    <2>3. before' = before \cup (Queue!Acknowledged \X {r})
      BY <1>1, AckedPhases DEF Send
    <2> QED
      BY <2>1, <2>2, <2>3, Mapped DEF Queue!Send, Queue!Move
  <1>2. ASSUME NEW r \in Requests, Flush(r) PROVE UNCHANGED Queue!queueVars
    BY <1>2, <1>same DEF Flush, Phase, IInv, TypeOK
  <1>3. ASSUME NEW r \in Requests, Commit(r) PROVE Queue!Accept(r)
    <2>1. Phase(r) = "open" /\ Phase(r)' = "waiting"
      BY <1>3 DEF Commit, Phase, IInv, TypeOK
    <2>2. \A q \in Requests \ {r} : Phase(q)' = Phase(q)
      BY <1>3 DEF Commit, Phase, IInv, TypeOK
    <2> QED
      BY <1>3, <2>1, <2>2, Mapped DEF Commit, Queue!Accept, Queue!Move
  <1>4. ASSUME NEW r \in Requests, Refuse(r) PROVE Queue!Refuse(r)
    <2>1. Phase(r) = "open" /\ Phase(r)' = "lost"
      BY <1>4 DEF Refuse, Phase, IInv, TypeOK
    <2>2. \A q \in Requests \ {r} : Phase(q)' = Phase(q)
      BY <1>4 DEF Refuse, Phase, IInv, TypeOK
    <2> QED
      BY <1>4, <2>1, <2>2, Mapped DEF Refuse, Queue!Refuse, Queue!Move
  <1>5. ASSUME NEW r \in Requests, Take(r) PROVE Queue!Take(r)
    <2>1. r \in Queued /\ request[r] = "acked"
      BY <1>5 DEF Take, Oldest, Queued, IInv, RowsInv
    <2>2. Phase(r) = "waiting" /\ Phase(r)' = "taken"
      BY <1>5, <2>1 DEF Take, Queued, Phase, IInv, TypeOK
    <2>3. \A q \in Requests \ {r} : Phase(q)' = Phase(q)
      BY <1>5 DEF Take, Phase, IInv, TypeOK
    <2>4. ASSUME NEW q \in Requests, Phase(q) = "waiting" PROVE <<q, r>> \notin before
      <3>1. status[q] = "queued"
        BY <2>4 DEF Phase, IInv, TypeOK, RowsInv, RequestState, JobStatus
      <3> QED
        BY <1>5, <3>1, OldestIsNext DEF Take
    <2> QED
      BY <1>5, <2>2, <2>3, <2>4, Mapped DEF Take, Queue!Take, Queue!Move
  <1>6. ASSUME CommitForget PROVE UNCHANGED Queue!queueVars
    BY <1>6, <1>same DEF CommitForget, Phase
  <1>7. ASSUME NEW r \in Requests, r = current, Complete \/ Fail PROVE Queue!Settle(r)
    <2>1. status[r] = "running" /\ request[r] = "acked"
      BY <1>7 DEF Complete, Fail, IInv, WorkerInv, RowsInv
    <2>2. /\ status'[r] \in {"completed", "failed"}
          /\ \A q \in Requests \ {r} : status'[q] = status[q]
          /\ request' = request
          /\ before' = before
      BY <1>7 DEF Complete, Fail, IInv, TypeOK
    <2>3. Phase(r) = "taken" /\ Phase(r)' \in {"done", "failed"}
      BY <2>1, <2>2 DEF Phase
    <2>4. \A q \in Requests \ {r} : Phase(q)' = Phase(q)
      BY <2>2 DEF Phase
    <2> QED
      BY <2>2, <2>3, <2>4, Mapped DEF Queue!Settle, Queue!Move
  <1>8. ASSUME Die \/ Restart \/ UNCHANGED vars PROVE UNCHANGED Queue!queueVars
    BY <1>8, <1>same DEF Die, Restart, vars, Phase
  <1>9. CASE \E r \in Requests : Send(r) \/ Flush(r) \/ Commit(r) \/ Refuse(r) \/ Take(r)
    BY <1>9, <1>1, <1>2, <1>3, <1>4, <1>5 DEF Queue!Next
  <1>10. CASE Complete \/ Fail
    BY <1>7, <1>10 DEF IInv, WorkerInv, Complete, Fail, Queue!Next
  <1>11. CASE CommitForget \/ Die \/ Restart \/ UNCHANGED vars
    BY <1>6, <1>8, <1>11
  <1> QED
    BY <1>9, <1>10, <1>11 DEF Next, Run

(* The ledger implements the serial queue: requests are served in          *)
(* real-time order, each at most once.                                     *)
THEOREM LedgerImplementsQueue == Spec => ImplementsQueue
  <1>1. Init => Queue!Init
    BY DEF Init, Queue!Init, Phase
  <1> QED
    BY <1>1, Invariance, RefinementStep, PTL DEF Spec, ImplementsQueue, Queue!Spec
=============================================================================
