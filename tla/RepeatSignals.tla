----------------------------- MODULE RepeatSignals -----------------------------
(***************************************************************************)
(* How repetition turns into memory: the API decides an event by a counter *)
(* that the worker keeps, and the worker counts an event only after it has *)
(* been decided, stored and taken from the queue.                          *)
(*                                                                         *)
(* Time is the day a client says an event occurred on, which need not grow *)
(* with the order of arrival.  Jobs are taken in any order, which covers   *)
(* the orders JobLedger allows.  Weights, thresholds and scores are        *)
(* multiples of 1 / Scale, decayed weights of 1 / Full.                     *)
(***************************************************************************)
EXTENDS Integers, Sequences, FiniteSets, FiniteSetsExt

CONSTANTS
    Events,       \* POST /v1/events/ingest requests of one user id
    Tenants,
    Sessions, NoSession,
    Sources,      \* source precedence keys
    Apis, Entry,  \* what the ontology says of an API: the signal keys of the
                  \* candidates, in order, their source, and whether the verdict
                  \* hangs on repetition
    Days,
    Window,       \* the 30 days
    HalfLife,     \* policy.frequency.half_life_days
    Scale, Full,
    Weights,      \* policy.frequency.weights
    Persist,      \* policy.frequency.thresholds.persist
    BurstRatio,   \* policy.frequency.burst_penalty, its value 0 if it is not enabled
    BurstPenalty,
    NoEvent, NoCounter

KeysOf(a) == {Entry[a].candidates[i] : i \in DOMAIN Entry[a].candidates}
Keys == UNION {KeysOf(a) : a \in Apis}

ASSUME SignalAssumptions ==
    /\ Days \subseteq Nat /\ Window \in Nat /\ HalfLife \in Nat \ {0}
    /\ Scale \in Nat \ {0} /\ Full \in Nat \ {0}
    /\ Weights \in [{"decayed", "sessions", "days", "sources"} -> 0..Scale]
    /\ Weights.decayed + Weights.sessions + Weights.days + Weights.sources <= Scale
    /\ {Persist, BurstRatio, BurstPenalty} \subseteq 0..Scale
    /\ NoSession \notin Sessions
    /\ \A a \in Apis : /\ Entry[a].candidates \in Seq(KeysOf(a)) /\ Entry[a].candidates # <<>>
                      /\ Entry[a].source \in Sources /\ Entry[a].repeat \in BOOLEAN

(* Events whose verdict does not hang on the counter (they are blocked,    *)
(* bypass the rule or follow the model) are counted all the same.          *)
Event == [api : Apis, tenant : Tenants, session : Sessions \cup {NoSession}, day : Days]

(* A row of signal_observations; the key has no tenant.                    *)
Observation == [of : Events, key : Keys, session : Sessions \cup {NoSession},
                source : Sources, day : Days]

(* A row of signal_counters.  The burst ratio is most / total.             *)
Counter == [decayed : Nat, sessions : Nat, days : Nat, sources : Nat, most : Nat, total : Nat]

ASSUME NoCounterAssumption == NoCounter \notin Counter

VARIABLES
    event,         \* what each request said
    stage,         \* "new", "decided", "queued", "counted", "failed"
    verdict,       \* "none", "OBSERVE", "UPSERT", "other"
    observations,  \* signal_observations
    counter        \* signal_counters

tables == <<observations, counter>>
vars == <<event, stage, verdict, tables>>

TypeOK ==
    /\ event \in [Events -> Event \cup {NoEvent}]
    /\ stage \in [Events -> {"new", "decided", "queued", "counted", "failed"}]
    /\ verdict \in [Events -> {"none", "OBSERVE", "UPSERT", "other"}]
    /\ observations \subseteq Observation
    /\ counter \in [Keys -> Counter \cup {NoCounter}]

Init ==
    /\ event = [e \in Events |-> NoEvent]
    /\ stage = [e \in Events |-> "new"]
    /\ verdict = [e \in Events |-> "none"]
    /\ observations = {}
    /\ counter = [k \in Keys |-> NoCounter]
-----------------------------------------------------------------------------
(* compute_repeat_score, in units of 1 / (15 * Scale).                      *)

Capped(n, cap) == Min({n, cap})

(* Slip: the penalty is never applied.                                     *)
NoBurst(c) == FALSE

IsBurst(c) == c.most * Scale >= BurstRatio * c.total

Score(c) ==
    IF c = NoCounter THEN 0
    ELSE LET weighted == (15 * Weights.decayed * Capped(c.decayed, Full)) \div Full
                         + 3 * Weights.sessions * Capped(c.sessions, 5)
                         + 3 * Weights.days * Capped(c.days, 5)
                         + 5 * Weights.sources * Capped(c.sources, 3)
             penalty == IF IsBurst(c) THEN 15 * BurstPenalty ELSE 0
         IN  Max({0, Capped(weighted - penalty, 15 * Scale)})

(* _build_repeat_action, by the counter of the first candidate.            *)
First(x) == Entry[x.api].candidates[1]
Judged(x) == IF ~Entry[x.api].repeat THEN "other"
             ELSE IF Score(counter[First(x)]) >= 15 * Persist THEN "UPSERT"
             ELSE "OBSERVE"
-----------------------------------------------------------------------------
(* _record_signal_observation                                              *)

(* n halved once in every half-life, rounded down.                         *)
Halved(n, age) == IF age < HalfLife THEN n
                  ELSE Max({m \in 0..n : m * 2^(age \div HalfLife) <= n})

Weight(o, day) == Halved(Full, Max({day - o.day, 0}))
Decayed(seen, day) == MapThenSumSet(LAMBDA o : Weight(o, day), seen)

Counted(seen, day) ==
    LET Of(s) == {o \in seen : o.session = s}
        sessions == {o.session : o \in seen} \ {NoSession}
    IN  [decayed  |-> Decayed(seen, day),
         sessions |-> Cardinality(sessions),
         days     |-> Cardinality({o.day : o \in seen}),
         sources  |-> Cardinality({o.source : o \in seen}),
         most     |-> Max({0} \cup {Cardinality(Of(s)) : s \in sessions}),
         total    |-> Cardinality(seen)]

(* The observations the recount for an event of that day takes in: nothing *)
(* keeps later ones out.                                                   *)
InWindow(rows, key, day) == {o \in rows : o.key = key /\ o.day >= day - Window}

Observed(e) == {[of |-> e, key |-> k, session |-> event[e].session, day |-> event[e].day,
                 source |-> Entry[event[e].api].source] : k \in KeysOf(event[e].api)}

(* Slip: the query does not see the row that was just added.               *)
RecountUnflushed(rows, e) ==
    [k \in Keys |-> IF k \in KeysOf(event[e].api)
                    THEN Counted(InWindow(rows \ Observed(e), k, event[e].day), event[e].day)
                    ELSE counter[k]]

(* Slip: an event that comes late does not lead to a recount.              *)
RecountUnlessLate(rows, e) ==
    [k \in Keys |-> IF k \in KeysOf(event[e].api) /\ \A o \in rows : o.key = k => o.day <= event[e].day
                    THEN Counted(InWindow(rows, k, event[e].day), event[e].day)
                    ELSE counter[k]]

(* One candidate after the other; a recount reads only rows of its key.    *)
Recount(rows, e) ==
    [k \in Keys |-> IF k \in KeysOf(event[e].api)
                    THEN Counted(InWindow(rows, k, event[e].day), event[e].day)
                    ELSE counter[k]]
-----------------------------------------------------------------------------
(* evaluate_event reads the counter; the event and its job are committed   *)
(* later, and perhaps never.                                               *)
Judge(e) == \E x \in Event :
    /\ stage[e] = "new"
    /\ event' = [event EXCEPT ![e] = x]
    /\ verdict' = [verdict EXCEPT ![e] = Judged(x)]
    /\ stage' = [stage EXCEPT ![e] = "decided"]
    /\ UNCHANGED tables

Enqueue(e) == /\ stage[e] = "decided"
              /\ stage' = [stage EXCEPT ![e] = "queued"]
              /\ UNCHANGED <<event, verdict, tables>>

(* The job is run.  It may fail after this: the except branch commits what *)
(* has been flushed.                                                       *)
Count(e) == /\ stage[e] = "queued"
            /\ stage' = [stage EXCEPT ![e] = "counted"]
            /\ observations' = observations \cup Observed(e)
            /\ counter' = Recount(observations', e)
            /\ UNCHANGED <<event, verdict>>

(* The job fails before it counts (no snapshot is active any more), or the *)
(* worker dies before its commit.                                          *)
Miss(e) == /\ stage[e] = "queued"
           /\ stage' = [stage EXCEPT ![e] = "failed"]
           /\ UNCHANGED <<event, verdict, tables>>

Next == \E e \in Events : Judge(e) \/ Enqueue(e) \/ Count(e) \/ Miss(e)

Spec == Init /\ [][Next]_vars
-----------------------------------------------------------------------------
(* Policies under which repetition means what the specification wants of   *)
(* it.  One event, and any number of them in one session, less the penalty *)
(* for a burst, score below the threshold ...                              *)
OneSessionFallsShort ==
    /\ BurstRatio <= Scale
    /\ 15 * (Weights.decayed + Weights.days + Weights.sources) + 3 * Weights.sessions
         - 15 * BurstPenalty < 15 * Persist
    /\ 15 * Weights.decayed + 3 * Weights.days + 5 * Weights.sources < 15 * Persist

(* ... and two sessions reach it, without being a burst.                   *)
TwoSessionsSuffice ==
    /\ 2 * BurstRatio > Scale
    /\ 15 * Weights.decayed + 6 * Weights.sessions + 3 * Weights.days + 5 * Weights.sources
         >= 15 * Persist

Earlier(e) == {o \in observations : o.key = First(event'[e])}
Settles(e, v) == verdict[e] = "none" /\ verdict'[e] = v

(* An event is persisted by repetition only if at least two other events   *)
(* of its key were decided, stored and counted before, not all of them in  *)
(* one session.  The event itself, events under way, failed ones and calls *)
(* repeated within a session are no repetition, under a policy by which    *)
(* one session falls short.                                                *)
OneOffsWait ==
    [][\A e \in Events : Settles(e, "UPSERT") =>
        /\ Cardinality({o.of : o \in Earlier(e)} \ {e}) >= 2
        /\ \A s \in Sessions : \E o \in Earlier(e) : o.session # s]_vars

(* A topic that came up in several sessions within the window, each time   *)
(* in another one, is persisted when it comes up again, in whatever order  *)
(* its events were counted and whatever failed in between, under a policy  *)
(* by which two sessions suffice.                                          *)
Scattered(rows) ==
    /\ Cardinality(rows) >= 2
    /\ \A o, p \in rows : /\ o.session # NoSession
                          /\ o # p => o.session # p.session
                          /\ o.day - p.day <= Window
RepeatedInterestPersists ==
    [][\A e \in Events : Settles(e, "OBSERVE") => ~Scattered(Earlier(e))]_vars

(* A counter is what the observations of its key amount to on the day of   *)
(* one of them, all rows that fall into that day's window included, those  *)
(* that came late too; so it is never worth less than one fresh one, for   *)
(* any half-life.  Without a counter there are no observations.            *)
CountersCount ==
    \A k \in Keys :
        LET rows == {o \in observations : o.key = k}
        IN  IF counter[k] = NoCounter THEN rows = {}
            ELSE /\ \E o \in rows : counter[k] = Counted(InWindow(rows, k, o.day), o.day)
                 /\ counter[k].decayed >= Full

(* What the code does not keep.                                            *)

(* Repetition is repetition of late: two of the earlier events lie within  *)
(* the window before the event.  Fails: the score is that of the last      *)
(* count, however long ago.                                                *)
RepetitionIsRecent ==
    [][\A e \in Events : Settles(e, "UPSERT") =>
        Cardinality(InWindow(Earlier(e), First(event'[e]), event'[e].day)) >= 2]_vars

(* Each candidate of the decision has been repeated, not just the first.   *)
EachCandidateRepeats ==
    [][\A e \in Events : Settles(e, "UPSERT") =>
        \A k \in KeysOf(event'[e].api) : \E o \in observations : o.key = k]_vars

(* The repetition is the tenant's own.  Fails: the key has no tenant.      *)
TenantsApart ==
    [][\A e \in Events : Settles(e, "UPSERT") =>
        \E o \in Earlier(e) : event[o.of].tenant = event'[e].tenant]_vars
=============================================================================
