------------------------------ MODULE SerialQueue ------------------------------
(***************************************************************************)
(* What the job ledger promises its clients, with no clocks, rows or       *)
(* commits: a request that was acknowledged before another one was even    *)
(* sent is served first, and no request is served twice.  Requests that    *)
(* overlap may be served in either order; a request taken by a worker that *)
(* dies is never given to anyone again.                                    *)
(***************************************************************************)
CONSTANT Requests

VARIABLES
    phase,      \* the life of each request
    before      \* <<q, r>>: q was acknowledged before r was sent

queueVars == <<phase, before>>

Acknowledged == {r \in Requests : phase[r] \in {"waiting", "taken", "done", "failed"}}

Init == /\ phase = [r \in Requests |-> "new"]
        /\ before = {}

Move(r, from, to) == /\ phase[r] = from
                     /\ phase' = [phase EXCEPT ![r] = to]

Send(r) == /\ Move(r, "new", "open")
           /\ before' = before \cup (Acknowledged \X {r})

Accept(r) == Move(r, "open", "waiting") /\ UNCHANGED before
Refuse(r) == Move(r, "open", "lost") /\ UNCHANGED before

Take(r) == /\ \A q \in Requests : phase[q] = "waiting" => <<q, r>> \notin before
           /\ Move(r, "waiting", "taken")
           /\ UNCHANGED before

Settle(r) == /\ \E end \in {"done", "failed"} : Move(r, "taken", end)
             /\ UNCHANGED before

Next == \E r \in Requests : Send(r) \/ Accept(r) \/ Refuse(r) \/ Take(r) \/ Settle(r)

Spec == Init /\ [][Next]_queueVars
=============================================================================
