------------------------------- MODULE JobLedger -------------------------------
(***************************************************************************)
(* The table ops.jobs as the queue between the API and the worker.         *)
(*                                                                         *)
(* API threads insert a job (together with its event, for an ingest) in    *)
(* one transaction; created_at is stamped when the insert is flushed, the  *)
(* row is visible when the transaction commits, and several transactions   *)
(* overlap.  One worker process polls: it takes the oldest queued row,     *)
(* commits it as running, executes it and commits the outcome.  It can die *)
(* between any two of its commits, and also when the commit of an outcome  *)
(* itself raises; nothing in the code puts a running row back.             *)
(*                                                                         *)
(* What a job does to the memories is only told apart as none, part or all *)
(* of it committed.                                                        *)
(***************************************************************************)
EXTENDS Integers, FiniteSets

CONSTANTS
    Requests,   \* POST /v1/events/ingest and POST /v1/jobs requests, one job each
    JobKind,    \* request |-> "persist", "forget" (a persist_event job whose
                \* decision is FORGET) or "admin"
    NoJob

ASSUME LedgerAssumptions ==
    /\ JobKind \in [Requests -> {"persist", "forget", "admin"}]
    /\ NoJob \notin Requests

VARIABLES
    request,    \* the client's view: "new", "open", "flushed", "acked", "lost"
    before,     \* history: <<q, r>> when q was acked before r was sent
    clock,      \* the last created_at given out
    stamp,      \* Job.created_at, 0 while there is none
    status,     \* Job.status, "none" while no row is committed
    attempts,   \* Job.attempts
    event,      \* RuntimeApiEvent.status of an ingest
    effects,    \* how much of the job's work is committed
    worker,     \* the worker process: "polling", "running", "down"
    current,    \* the job it executes
    abandoned   \* history: the jobs the worker died on

clientVars == <<request, before, clock, stamp>>
workerVars == <<worker, current, abandoned>>
vars == <<clientVars, status, attempts, event, effects, workerVars>>

RequestState == {"new", "open", "flushed", "acked", "lost"}
JobStatus == {"none", "queued", "running", "completed", "failed"}

Ingests == {r \in Requests : JobKind[r] \in {"persist", "forget"}}

TypeOK ==
    /\ request \in [Requests -> RequestState]
    /\ before \subseteq Requests \X Requests
    /\ clock \in Nat
    /\ stamp \in [Requests -> Nat]
    /\ status \in [Requests -> JobStatus]
    /\ attempts \in [Requests -> Nat]
    /\ event \in [Requests -> {"none", "decided", "processed"}]
    /\ effects \in [Requests -> {"none", "part", "all"}]
    /\ worker \in {"polling", "running", "down"}
    /\ current \in Requests \cup {NoJob}
    /\ abandoned \subseteq Requests

Init ==
    /\ request = [r \in Requests |-> "new"]
    /\ before = {}
    /\ clock = 0
    /\ stamp = [r \in Requests |-> 0]
    /\ status = [r \in Requests |-> "none"]
    /\ attempts = [r \in Requests |-> 0]
    /\ event = [r \in Requests |-> "none"]
    /\ effects = [r \in Requests |-> "none"]
    /\ worker = "polling"
    /\ current = NoJob
    /\ abandoned = {}
-----------------------------------------------------------------------------
(* The API side.                                                           *)

Acked == {r \in Requests : request[r] = "acked"}

Send(r) ==
    /\ request[r] = "new"
    /\ request' = [request EXCEPT ![r] = "open"]
    /\ before' = before \cup (Acked \X {r})
    /\ UNCHANGED <<clock, stamp, status, attempts, event, effects, workerVars>>

(* The flush of session.commit(): the default of created_at is evaluated.  *)
Flush(r) ==
    /\ request[r] = "open"
    /\ request' = [request EXCEPT ![r] = "flushed"]
    /\ clock' = clock + 1
    /\ stamp' = [stamp EXCEPT ![r] = clock + 1]
    /\ UNCHANGED <<before, status, attempts, event, effects, workerVars>>

(* The event and its job become visible together, and the client gets its  *)
(* answer.                                                                 *)
Commit(r) ==
    /\ request[r] = "flushed"
    /\ request' = [request EXCEPT ![r] = "acked"]
    /\ status' = [status EXCEPT ![r] = "queued"]
    /\ event' = [event EXCEPT ![r] = IF r \in Ingests THEN "decided" ELSE "none"]
    /\ UNCHANGED <<before, clock, stamp, attempts, effects, workerVars>>

(* The transaction is rolled back: no snapshot is active, the insert of a  *)
(* metric row collides with another request's, the process stops.          *)
Refuse(r) ==
    /\ request[r] \in {"open", "flushed"}
    /\ request' = [request EXCEPT ![r] = "lost"]
    /\ UNCHANGED <<before, clock, stamp, status, attempts, event, effects, workerVars>>
-----------------------------------------------------------------------------
(* The worker side.                                                        *)

Queued == {r \in Requests : status[r] = "queued"}

(* Slip: the oldest row of all is looked at, whatever its status.          *)
OldestOfAll(r) == r \in Queued /\ \A q \in Requests : status[q] # "none" => stamp[r] <= stamp[q]

(* Slip: descending order.                                                 *)
Newest(r) == r \in Queued /\ \A q \in Queued : stamp[r] >= stamp[q]

Oldest(r) == r \in Queued /\ \A q \in Queued : stamp[r] <= stamp[q]

(* The first commit of process_next_job.                                   *)
Take(r) ==
    /\ worker = "polling"
    /\ Oldest(r)
    /\ worker' = "running"
    /\ current' = r
    /\ status' = [status EXCEPT ![r] = "running"]
    /\ attempts' = [attempts EXCEPT ![r] = @ + 1]
    /\ UNCHANGED <<clientVars, event, effects, abandoned>>

(* forget_memories commits in the middle of the job that called it.        *)
CommitForget ==
    /\ worker = "running"
    /\ JobKind[current] = "forget"
    /\ effects[current] = "none"
    /\ effects' = [effects EXCEPT ![current] = "part"]
    /\ UNCHANGED <<clientVars, status, attempts, event, workerVars>>

(* Slip: the event is marked in a transaction of its own, later.           *)
CompleteJobOnly ==
    /\ worker = "running"
    /\ status' = [status EXCEPT ![current] = "completed"]
    /\ effects' = [effects EXCEPT ![current] = "all"]
    /\ worker' = "polling"
    /\ current' = NoJob
    /\ UNCHANGED <<clientVars, attempts, event, abandoned>>

(* Slip: the status is set on an object that is no longer in the session.  *)
CompleteEventOnly ==
    /\ worker = "running"
    /\ effects' = [effects EXCEPT ![current] = "all"]
    /\ event' = [event EXCEPT ![current] = IF current \in Ingests THEN "processed" ELSE @]
    /\ worker' = "polling"
    /\ current' = NoJob
    /\ UNCHANGED <<clientVars, status, attempts, abandoned>>

(* process_job (or the commit of an administrative job): the effects, the  *)
(* event and the job in one commit.                                        *)
Complete ==
    /\ worker = "running"
    /\ JobKind[current] = "forget" => effects[current] = "part"
    /\ status' = [status EXCEPT ![current] = "completed"]
    /\ effects' = [effects EXCEPT ![current] = "all"]
    /\ event' = [event EXCEPT ![current] = IF current \in Ingests THEN "processed" ELSE @]
    /\ worker' = "polling"
    /\ current' = NoJob
    /\ UNCHANGED <<clientVars, attempts, abandoned>>

(* The except branch: there is no rollback, so what the session holds at   *)
(* that point (nothing, or part of the work) is committed with the error.  *)
Fail ==
    /\ worker = "running"
    /\ status' = [status EXCEPT ![current] = "failed"]
    /\ \E done \in {effects[current], "part"} : effects' = [effects EXCEPT ![current] = done]
    /\ worker' = "polling"
    /\ current' = NoJob
    /\ UNCHANGED <<clientVars, attempts, event, abandoned>>

(* The process dies and the open transaction is lost.  While it polls that *)
(* costs nothing; while it runs a job the row stays running.               *)
Die ==
    /\ worker # "down"
    /\ worker' = "down"
    /\ current' = NoJob
    /\ abandoned' = abandoned \cup ({current} \ {NoJob})
    /\ UNCHANGED <<clientVars, status, attempts, event, effects>>

(* Slip: an interrupted job is queued again by the new process.            *)
RestartRequeueing ==
    /\ worker = "down"
    /\ worker' = "polling"
    /\ status' = [r \in Requests |-> IF status[r] = "running" THEN "queued" ELSE status[r]]
    /\ UNCHANGED <<clientVars, attempts, event, effects, current, abandoned>>

Restart ==
    /\ worker = "down"
    /\ worker' = "polling"
    /\ UNCHANGED <<clientVars, status, attempts, event, effects, current, abandoned>>

Run == CommitForget \/ Complete \/ Fail

Next ==
    \/ \E r \in Requests : Send(r) \/ Flush(r) \/ Commit(r) \/ Refuse(r) \/ Take(r)
    \/ Run
    \/ Die
    \/ Restart

Spec == Init /\ [][Next]_vars

(* The loop of worker/main.py polls as long as its process lives, and a    *)
(* job's calls are bounded by the timeouts of their HTTP clients.  Nothing *)
(* is assumed of clients, nor of whoever restarts the process.             *)
Fairness == /\ \A r \in Requests : WF_vars(Take(r))
            /\ WF_vars(Complete \/ Fail)

FairSpec == Spec /\ Fairness
-----------------------------------------------------------------------------
(* Properties                                                              *)

(* No job is executed twice, whatever the worker survives: the ledger has  *)
(* no retry, and a running row is never taken over.                        *)
AtMostOnce == \A r \in Requests : attempts[r] <= 1

(* The ledger and the events tell the truth about committed work: an       *)
(* event is processed exactly when its job completed and all its effects   *)
(* are in; a queued job has none; only a forget shows effects while it     *)
(* still runs.                                                             *)
LedgerMatchesEffects ==
    \A r \in Requests :
        /\ status[r] \in {"none", "queued"} => effects[r] = "none"
        /\ status[r] = "completed" <=> effects[r] = "all"
        /\ r \in Ingests => (status[r] = "completed" <=> event[r] = "processed")
        /\ status[r] = "running" /\ effects[r] # "none" => JobKind[r] = "forget"

(* A row says running only if the worker is executing it, or died on it:   *)
(* those rows, and no others, need an operator.                            *)
RunningAccounted ==
    \A r \in Requests :
        status[r] = "running" <=> (worker = "running" /\ current = r) \/ r \in abandoned

(* Requests are served in real-time order: see SerialQueue.                *)
Phase(r) ==
    IF request[r] = "acked"
    THEN IF status[r] = "queued" THEN "waiting"
         ELSE IF status[r] = "running" THEN "taken"
         ELSE IF status[r] = "completed" THEN "done" ELSE "failed"
    ELSE IF request[r] = "flushed" THEN "open" ELSE request[r]

Queue == INSTANCE SerialQueue WITH phase <- [r \in Requests |-> Phase(r)]

ImplementsQueue == Queue!Spec

(* If the worker is up for good from some time on, every acknowledged job  *)
(* is taken, however often it died before and on whatever job, and however *)
(* many newer jobs arrive ...                                              *)
EveryJobTaken ==
    (<>[](worker # "down")) => \A r \in Requests : request[r] = "acked" ~> attempts[r] > 0

(* ... and a job that was taken is settled, unless the worker died on it.  *)
EveryJobSettled ==
    /\ EveryJobTaken
    /\ \A r \in Requests :
          status[r] = "running" ~> status[r] \in {"completed", "failed"} \/ r \in abandoned
=============================================================================
