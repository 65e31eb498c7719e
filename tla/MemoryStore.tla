------------------------------ MODULE MemoryStore ------------------------------
(***************************************************************************)
(* The memories and relations of the users of one tenant, as the worker's  *)
(* jobs and the API's forget requests change them.                         *)
(*                                                                         *)
(* The worker has one SQLAlchemy session (autoflush off, READ COMMITTED)   *)
(* per job.  Its queries see the committed rows and what the session has   *)
(* flushed, not what it has merely assigned; its commit writes the columns *)
(* it assigned.  An API thread forgets a user's memories in a transaction  *)
(* of its own meanwhile: it reads the rows to delete, then writes them,    *)
(* and waits for the worker if a row is locked by a flushed update.        *)
(*                                                                         *)
(* Only forget requests run beside the worker's session, and of a memory   *)
(* they only write the state: so the session's copy of the other columns   *)
(* is authoritative.  Payloads, confidence and importance are left out,    *)
(* and so is sensitivity: candidates here are within their type's ceiling. *)
(***************************************************************************)
EXTENDS Integers, FiniteSets, Sequences

CONSTANTS
    Users,
    Ontology,       \* memory type |-> its entry in the current memory ontology
    Keys,           \* canonical keys of values, and workflow keys
    Templates,      \* relation types that API entries give their candidates
    Similar,        \* pairs of keys at most a typo apart (similarity >= 0.85)
    Score,          \* source precedence key |-> its score in the policy
    Decisions,      \* UPSERT decisions that ingested events may carry
    ForgetRequests, \* bodies of POST /v1/memory/forget
    Absent,            \* an absent filter, an absent workflow
    MaxJobs         \* bound on the number of jobs

Types == DOMAIN Ontology
Sources == DOMAIN Score

TypeEntry == [cardinality : {"ONE_ACTIVE", "MANY_UNIQUE_BY_OBJECT", "MANY_SCORED", "MANY_VERSIONED"},
              relation : BOOLEAN,   \* memory_class = "relation"
              object : BOOLEAN,     \* object_type is set: candidates get an entity
              embeds : BOOLEAN,     \* embed_mode # "DISABLED"
              expires : BOOLEAN]    \* default_ttl_days is set

(* A candidate may name a type that the ontology lost since the decision.  *)
Candidate == [type : Types \cup {Absent}, key : Keys]

(* The candidates of a decision come from one API entry: one source, and   *)
(* one relation type, the first of the entry's templates, if it has any.   *)
Decision == [user : Users, source : Sources, candidates : Seq(Candidate),
             template : Templates \cup {Absent},
             workflow : Keys \cup {Absent}, intent : Types \cup {Absent}]

RelationType == Types \cup Templates

ForgetRequest == [user : Users, type : Types \cup {Absent}, key : Keys \cup {Absent},
                  relation : RelationType \cup {Absent}]

(* The entity of a value: memory types have entity types of their own.     *)
Entity == Types \X Keys

MemoryState == {"active", "superseded", "conflicted", "deleted"}

Memory == [user : Users, type : Types, key : Keys, state : MemoryState,
           source : Sources, score : Nat, supersedes : Nat,
           evidence : Nat,          \* number of evidence rows linked to it
           embedded : BOOLEAN,
           touched : Nat,           \* the job that wrote it last (updated_at)
           job : Nat]               \* the job that created it

(* count is the column evidence_count, evidence the rows themselves.       *)
Relation == [user : Users, type : RelationType, object : Entity, state : {"active", "deleted"},
             count : Nat, evidence : Nat]

ASSUME MemoryAssumptions ==
    /\ Ontology \in [Types -> TypeEntry]
    /\ Score \in [Sources -> Nat]
    /\ Absent \notin Types \cup Keys \cup Templates
    /\ Decisions \subseteq Decision
    /\ ForgetRequests \subseteq ForgetRequest
    /\ MaxJobs \in Nat
-----------------------------------------------------------------------------
VARIABLES
    memories,   \* table memories, oldest first
    relations,  \* table relations
    entities,   \* table entities: those of objects
    session,    \* the worker's session, NoSession between jobs
    forgetting, \* the rows an API thread is about to delete
    jobs,       \* number of jobs taken so far
    unfinished, \* the jobs that raised or that the worker died on
    forgotten   \* history: the memories some forget has deleted

vars == <<memories, relations, entities, session, forgetting, jobs, unfinished, forgotten>>

NoSession == [todo |-> <<>>, open |-> FALSE]
NoForget == [memories |-> {}, relations |-> {}, open |-> FALSE]

(* A session: rows and links are its view of the two tables, moved the     *)
(* rows whose state it has assigned, pending those of them not flushed.    *)
NewSession(decision, up, recent) ==
    [open |-> TRUE, decision |-> decision, todo |-> decision.candidates,
     up |-> up, recent |-> recent, raised |-> FALSE, intended |-> FALSE,
     rows |-> memories, links |-> relations, objects |-> entities,
     moved |-> {}, pending |-> {}]

(* The state column of row i as the session's queries see it.              *)
DbState(s, i) ==
    IF i \in s.moved \ s.pending THEN s.rows[i].state
    ELSE IF i \in DOMAIN memories THEN memories[i].state
    ELSE IF i \in s.pending THEN "active" ELSE s.rows[i].state

Visible(s) == {i \in DOMAIN s.rows : DbState(s, i) = "active"}

VisibleLinks(s) == {i \in DOMAIN s.links :
                       IF i \in DOMAIN relations THEN relations[i].state = "active" ELSE TRUE}

(* ORDER BY updated_at DESC LIMIT 1                                        *)
LastUpdated(s, S) ==
    IF S = {} THEN 0
    ELSE CHOOSE i \in S : \A j \in S : \/ s.rows[j].touched < s.rows[i].touched
                                       \/ s.rows[j].touched = s.rows[i].touched /\ j <= i

(* Slip: rows the session has inserted itself are missed.                  *)
SameCommitted(s, type, key) ==
    LastUpdated(s, {i \in Visible(s) \cap DOMAIN memories : /\ s.rows[i].user = s.decision.user
                                                           /\ s.rows[i].type = type
                                                           /\ s.rows[i].key = key})

SameMemory(s, type, key) ==
    LastUpdated(s, {i \in Visible(s) : /\ s.rows[i].user = s.decision.user
                                       /\ s.rows[i].type = type
                                       /\ s.rows[i].key = key})

(* Slip: only the source's own memories are looked at.                     *)
ActiveOfSource(s, type) ==
    LastUpdated(s, {i \in Visible(s) : /\ s.rows[i].user = s.decision.user
                                       /\ s.rows[i].type = type
                                       /\ s.rows[i].source = s.decision.source})

ActiveMemory(s, type) ==
    LastUpdated(s, {i \in Visible(s) : /\ s.rows[i].user = s.decision.user
                                       /\ s.rows[i].type = type})
-----------------------------------------------------------------------------
(* What the steps of persist_event_job do to the session.                  *)

Larger(m, n) == IF m > n THEN m ELSE n

Flush(s) == [s EXCEPT !.pending = {}]

EntityOf(c) == <<c.type, c.key>>
HasObject(s, c) == s.decision.template # Absent \/ Ontology[c.type].object

(* _get_or_create_entity flushes when it creates the entity.               *)
WithObject(s, c) ==
    IF HasObject(s, c) /\ EntityOf(c) \notin s.objects
    THEN [Flush(s) EXCEPT !.objects = @ \cup {EntityOf(c)}]
    ELSE s

(* The embedding provider is called over HTTP and may raise.               *)
Embed(s, i) ==
    IF ~Ontology[s.rows[i].type].embeds THEN s
    ELSE IF s.up THEN [s EXCEPT !.rows[i].embedded = TRUE]
    ELSE [s EXCEPT !.raised = TRUE]

(* merge, duplicate and reinforce: the row takes the candidate's source,   *)
(* keeps the higher score and gets one more piece of evidence.             *)
Reinforced(s, m) ==
    [m EXCEPT !.source = s.decision.source,
              !.score = Larger(m.score, Score[s.decision.source]),
              !.evidence = @ + 1,
              !.touched = jobs]

Refresh(s, i) == Embed([s EXCEPT !.rows[i] = Reinforced(s, s.rows[i])], i)

Displace(s, i, state) ==
    [s EXCEPT !.rows[i] = [@ EXCEPT !.state = state, !.touched = jobs],
              !.moved = @ \cup {i},
              !.pending = @ \cup {i}]

NewMemory(s, type, key, prior) ==
    [user |-> s.decision.user, type |-> type, key |-> key, state |-> "active",
     source |-> s.decision.source, score |-> Score[s.decision.source],
     supersedes |-> prior, evidence |-> 0, embedded |-> FALSE,
     touched |-> jobs, job |-> jobs]

(* Slip: an embedding that fails is skipped, and the evidence with it.     *)
InsertSwallowing(s, c, prior) ==
    LET added == Flush([s EXCEPT !.rows = Append(@, NewMemory(s, c.type, c.key, prior))])
        i == Len(added.rows)
        embedded == Embed(added, i)
    IN  IF embedded.raised THEN [embedded EXCEPT !.raised = FALSE]
        ELSE [embedded EXCEPT !.rows[i].evidence = 1]

(* Slip: the new row does not say what it replaces.                        *)
InsertUnlinked(s, c, prior) ==
    LET added == Flush([s EXCEPT !.rows = Append(@, NewMemory(s, c.type, c.key, 0))])
        i == Len(added.rows)
        embedded == Embed(added, i)
    IN  IF embedded.raised THEN embedded
        ELSE [embedded EXCEPT !.rows[i].evidence = 1]

(* A new memory is flushed, then embedded, then given its evidence.        *)
Insert(s, c, prior) ==
    LET added == Flush([s EXCEPT !.rows = Append(@, NewMemory(s, c.type, c.key, prior))])
        i == Len(added.rows)
        embedded == Embed(added, i)
    IN  IF embedded.raised THEN embedded
        ELSE [embedded EXCEPT !.rows[i].evidence = 1]

IsRelation(type) == Ontology[type].relation

(* relation_type or memory_type                                            *)
LinkType(s, c) == IF s.decision.template # Absent THEN s.decision.template ELSE c.type

NewLink(s, c) == [user |-> s.decision.user, type |-> LinkType(s, c), object |-> EntityOf(c),
                  state |-> "active", count |-> 1, evidence |-> 1]

(* Slip: every candidate makes a relation.                                 *)
LinkAlways(s, c) == Flush([s EXCEPT !.links = Append(@, NewLink(s, c))])

(* The relation branch: a second observation of the same object is a       *)
(* duplicate with evidence merge.                                          *)
Observed(link) == [link EXCEPT !.count = @ + 1, !.evidence = @ + 1]

Link(s, c) ==
    LET same == {i \in VisibleLinks(s) : /\ s.links[i].user = s.decision.user
                                         /\ s.links[i].type = LinkType(s, c)
                                         /\ s.links[i].object = EntityOf(c)}
    IN  IF same # {}
        THEN LET i == CHOOSE j \in same : TRUE
             IN  [s EXCEPT !.links[i] = Observed(s.links[i])]
        ELSE Flush([s EXCEPT !.links = Append(@, NewLink(s, c))])

(* Slip: a source does not replace its own values.                         *)
WinsByScore(s, c, i) ==
    \/ Score[s.decision.source] > s.rows[i].score
    \/ s.recent /\ <<s.rows[i].key, c.key>> \in Similar

(* Whether the candidate replaces the active memory i: _is_typo_correction *)
(* is its last disjunct.                                                   *)
Wins(s, c, i) ==
    \/ Score[s.decision.source] > s.rows[i].score
    \/ s.decision.source = s.rows[i].source
    \/ s.recent /\ <<s.rows[i].key, c.key>> \in Similar

Store(s, c, prior) ==
    IF IsRelation(c.type) /\ HasObject(s, c) THEN Link(s, c) ELSE Insert(s, c, prior)

(* One round of the loop over the candidates.                              *)
Resolved(s0, c) ==
    IF c.type = Absent THEN [s0 EXCEPT !.raised = TRUE]
    ELSE
    LET s == WithObject(s0, c)
        cardinality == Ontology[c.type].cardinality
        same == SameMemory(s, c.type, c.key)
        active == ActiveMemory(s, c.type)
    IN  CASE cardinality \in {"ONE_ACTIVE", "MANY_SCORED"} /\ same # 0 -> Refresh(s, same)
          [] cardinality = "ONE_ACTIVE" /\ same = 0 /\ active # 0 ->
                IF Wins(s, c, active)
                THEN Store(Displace(s, active, "superseded"), c, active)
                ELSE IF Score[s.decision.source] = s.rows[active].score
                     THEN Displace(s, active, "conflicted")
                     ELSE s
          [] OTHER -> Store(s, c, 0)

(* _persist_workflow_intent_memory: one memory per workflow, no contest    *)
(* with the other memories of its type.                                    *)
WithIntent(s) ==
    LET d == s.decision
        same == SameMemory(s, d.intent, d.workflow)
        added == Flush([s EXCEPT !.rows = Append(@, NewMemory(s, d.intent, d.workflow, 0))])
        i == Len(added.rows)
    IN  IF \/ d.workflow = Absent \/ d.intent = Absent \/ d.candidates = <<>>
           \/ Ontology[d.intent].cardinality # "ONE_ACTIVE"
        THEN s
        ELSE IF same # 0 THEN Refresh(s, same)
        ELSE Embed([added EXCEPT !.rows[i].evidence = 1], i)
-----------------------------------------------------------------------------
(* The worker's jobs                                                       *)

Idle == ~session.open /\ jobs < MaxJobs

(* A persist_event job whose decision is UPSERT.  up: the provider answers *)
(* during this job; recent: the typo window is still open.                 *)
BeginPersist ==
    /\ Idle
    /\ jobs' = jobs + 1
    /\ \E d \in Decisions, up, recent \in BOOLEAN : session' = NewSession(d, up, recent)
    /\ UNCHANGED <<memories, relations, entities, forgetting, unfinished, forgotten>>

ResolveCandidate ==
    /\ session.open /\ session.todo # <<>> /\ ~session.raised
    /\ session' = Resolved([session EXCEPT !.todo = Tail(@)], Head(session.todo))
    /\ UNCHANGED <<memories, relations, entities, forgetting, jobs, unfinished, forgotten>>

PersistIntent ==
    /\ session.open /\ session.todo = <<>> /\ ~session.raised /\ ~session.intended
    /\ session' = [WithIntent(session) EXCEPT !.intended = TRUE]
    /\ UNCHANGED <<memories, relations, entities, forgetting, jobs, unfinished, forgotten>>

(* Slip: all columns of a row in the session are written back.             *)
WrittenWhole == session.rows

(* The UPDATEs and INSERTs of the commit: state is only written if the     *)
(* session assigned it.                                                    *)
Written ==
    [i \in DOMAIN session.rows |->
        IF i \in DOMAIN memories \ session.moved
        THEN [session.rows[i] EXCEPT !.state = memories[i].state]
        ELSE session.rows[i]]

WrittenLinks ==
    [i \in DOMAIN session.links |->
        IF i \in DOMAIN relations
        THEN [session.links[i] EXCEPT !.state = relations[i].state]
        ELSE session.links[i]]

(* The commit of process_next_job: also in its except branch, where there  *)
(* is no rollback.                                                         *)
CommitJob ==
    /\ session.open
    /\ session.raised \/ (session.todo = <<>> /\ session.intended)
    /\ memories' = Written
    /\ relations' = WrittenLinks
    /\ entities' = session.objects
    /\ unfinished' = IF session.raised THEN unfinished \cup {jobs} ELSE unfinished
    /\ session' = NoSession
    /\ UNCHANGED <<forgetting, jobs, forgotten>>

(* The worker dies: the transaction is rolled back.                        *)
Crash ==
    /\ session.open
    /\ session' = NoSession
    /\ unfinished' = unfinished \cup {jobs}
    /\ UNCHANGED <<memories, relations, entities, forgetting, jobs, forgotten>>

(* A session of an administrative job: it has assigned state to rows.      *)
MaintenanceSession(rows, moved) ==
    [open |-> TRUE, decision |-> Absent, todo |-> <<>>, up |-> TRUE, recent |-> FALSE,
     raised |-> FALSE, intended |-> TRUE, rows |-> rows, links |-> relations,
     objects |-> entities, moved |-> moved, pending |-> moved]

Move(moved, state) ==
    [i \in DOMAIN memories |->
        IF i \in moved THEN [memories[i] EXCEPT !.state = state, !.touched = jobs + 1]
        ELSE memories[i]]

Active == {i \in DOMAIN memories : memories[i].state = "active"}

(* ttl_cleanup: the active memories of an expiring type that were created  *)
(* long enough ago.                                                        *)
BeginTtlCleanup ==
    /\ Idle
    /\ jobs' = jobs + 1
    /\ \E age \in [{t \in Types : Ontology[t].expires} -> 0 .. Len(memories)] :
          LET old == {i \in Active : /\ Ontology[memories[i].type].expires
                                     /\ i <= age[memories[i].type]}
          IN  session' = MaintenanceSession(Move(old, "deleted"), old)
    /\ UNCHANGED <<memories, relations, entities, forgetting, unfinished, forgotten>>

(* recompute_conflicts: the best of each (user, type) by score, then       *)
(* confidence (left out, so any of the best scores), then updated_at.      *)
Losers(winner) ==
    {i \in Active : i # winner[<<memories[i].user, memories[i].type>>]}

Group(g) == {i \in Active : <<memories[i].user, memories[i].type>> = g}
Groups == {<<memories[i].user, memories[i].type>> : i \in Active}

BeginRecompute ==
    /\ Idle
    /\ jobs' = jobs + 1
    /\ \E winner \in [Groups -> Active] :
          /\ \A g \in Groups : /\ winner[g] \in Group(g)
                               /\ \A i \in Group(g) : memories[i].score <= memories[winner[g]].score
          /\ session' = MaintenanceSession(Move(Losers(winner), "conflicted"), Losers(winner))
    /\ UNCHANGED <<memories, relations, entities, forgetting, unfinished, forgotten>>

(* embedding_backfill: every active memory without an embedding gets one,  *)
(* or, when the provider raises, some do.                                  *)
EmbeddingBackfill ==
    /\ Idle
    /\ jobs' = jobs + 1
    /\ LET missing == {i \in Active : ~memories[i].embedded}
       IN  \E done \in SUBSET missing :
              /\ memories' = [i \in DOMAIN memories |->
                                IF i \in done THEN [memories[i] EXCEPT !.embedded = TRUE]
                                ELSE memories[i]]
              /\ unfinished' = IF done = missing THEN unfinished ELSE unfinished \cup {jobs + 1}
    /\ UNCHANGED <<relations, entities, session, forgetting, forgotten>>

Deleted(rows, ids) ==
    [i \in DOMAIN rows |->
        IF i \in ids THEN [rows[i] EXCEPT !.state = "deleted"] ELSE rows[i]]

(* A persist_event job whose decision is FORGET: all memories of the user, *)
(* and no relation, for the request it builds names no relation type.      *)
ProcessForget(user) ==
    /\ Idle
    /\ jobs' = jobs + 1
    /\ LET ids == {i \in DOMAIN memories : memories[i].user = user}
       IN  /\ memories' = Deleted(memories, ids)
           /\ forgotten' = forgotten \cup ids
    /\ UNCHANGED <<relations, entities, session, forgetting, unfinished>>
-----------------------------------------------------------------------------
(* POST /v1/memory/forget                                                  *)

(* The rows it names.  A key restricts the relations only if some entity   *)
(* has it: the first one found, of whatever type.                          *)
ReadForget ==
    /\ ~forgetting.open
    /\ \E f \in ForgetRequests :
          LET named == {i \in DOMAIN memories : /\ memories[i].user = f.user
                                                /\ f.type # Absent => memories[i].type = f.type
                                                /\ f.key # Absent => memories[i].key = f.key}
              linked == {i \in DOMAIN relations : /\ relations[i].user = f.user
                                                  /\ relations[i].type = f.relation}
              objects == {e \in entities : e[2] = f.key}
          IN  \/ /\ objects = {}
                 /\ forgetting' = [open |-> TRUE, memories |-> named, relations |-> linked]
              \/ \E e \in objects :
                    forgetting' = [open |-> TRUE, memories |-> named,
                                   relations |-> {i \in linked : relations[i].object = e}]
    /\ UNCHANGED <<memories, relations, entities, session, jobs, unfinished, forgotten>>

(* Memories whose state the worker has written but not committed.          *)
Locked == IF session.open THEN session.moved \ session.pending ELSE {}

WriteForget ==
    /\ forgetting.open
    /\ forgetting.memories \cap Locked = {}
    /\ memories' = Deleted(memories, forgetting.memories)
    /\ relations' = Deleted(relations, forgetting.relations)
    /\ forgotten' = forgotten \cup forgetting.memories
    /\ forgetting' = NoForget
    /\ UNCHANGED <<entities, session, jobs, unfinished>>
-----------------------------------------------------------------------------
Init ==
    /\ memories = <<>>
    /\ relations = <<>>
    /\ entities = {}
    /\ session = NoSession
    /\ forgetting = NoForget
    /\ jobs = 0
    /\ unfinished = {}
    /\ forgotten = {}

Next ==
    \/ BeginPersist \/ ResolveCandidate \/ PersistIntent
    \/ BeginTtlCleanup \/ BeginRecompute
    \/ CommitJob \/ Crash
    \/ EmbeddingBackfill
    \/ \E user \in Users : ProcessForget(user)
    \/ ReadForget \/ WriteForget

Spec == Init /\ [][Next]_vars
-----------------------------------------------------------------------------
(* Properties                                                              *)

TypeOK ==
    /\ memories \in Seq(Memory)
    /\ relations \in Seq(Relation)
    /\ entities \subseteq Entity
    /\ jobs \in 0 .. MaxJobs
    /\ unfinished \subseteq 1 .. jobs
    /\ forgotten \subseteq DOMAIN memories
    /\ forgetting.memories \subseteq DOMAIN memories
    /\ forgetting.relations \subseteq DOMAIN relations
    /\ session.open => /\ session.rows \in Seq(Memory)
                       /\ session.links \in Seq(Relation)
                       /\ session.pending \subseteq session.moved
                       /\ session.moved \subseteq DOMAIN session.rows

OfCardinality(c) == {t \in Types : Ontology[t].cardinality = c}
Intents == {d.intent : d \in Decisions}

(* A user has at most one active memory of a ONE_ACTIVE type, whatever     *)
(* jobs, forgets, failures and restarts came before.  (Types that          *)
(* workflows use for their intents are not kept so: see OnePerKey.)        *)
OneActive ==
    \A i, j \in Active :
        /\ memories[i].user = memories[j].user
        /\ memories[i].type = memories[j].type
        /\ memories[i].type \in OfCardinality("ONE_ACTIVE") \ Intents
        => i = j

(* Types resolved by key have one active memory per key: one interest per  *)
(* topic, one intent per workflow.                                         *)
OnePerKey ==
    \A i, j \in Active :
        /\ memories[i].user = memories[j].user
        /\ memories[i].type = memories[j].type
        /\ memories[i].key = memories[j].key
        /\ memories[i].type \in OfCardinality("ONE_ACTIVE") \cup OfCardinality("MANY_SCORED")
        => i = j

(* A relation is stored once, however often and by how many candidates of  *)
(* one decision it is found, and its evidence_count is the number of its   *)
(* evidence rows.                                                          *)
RelationsUnique ==
    \A i, j \in DOMAIN relations :
        /\ relations[i].state = "active" /\ relations[j].state = "active"
        /\ relations[i].user = relations[j].user
        /\ relations[i].type = relations[j].type
        /\ relations[i].object = relations[j].object
        => i = j

RelationsSound == /\ RelationsUnique
                  /\ \A i \in DOMAIN relations : relations[i].count = relations[i].evidence

(* What was superseded can be followed to exactly one younger memory of    *)
(* the same user and type, even if the job failed half way.  (Types of the *)
(* class relation are excepted: there a candidate may supersede by a       *)
(* relation, to which nothing leads: see SupersededIsLinked.)              *)
SupersededHasHeir ==
    \A i \in DOMAIN memories :
        LET heirs == {j \in DOMAIN memories : memories[j].supersedes = i}
        IN  /\ memories[i].state = "superseded" /\ ~IsRelation(memories[i].type) => heirs # {}
            /\ \A j \in heirs : /\ heirs = {j}
                                 /\ i < j
                                 /\ memories[i].state # "active"
                                 /\ memories[j].user = memories[i].user
                                 /\ memories[j].type = memories[i].type

(* A memory without evidence can only stem from a job that did not finish. *)
TraceableUnlessFailed ==
    \A i \in DOMAIN memories : memories[i].evidence = 0 => memories[i].job \in unfinished

(* Nothing brings a memory back: not a worker that read it before it was   *)
(* forgotten, not the job that resolves conflicts.                         *)
NeverRevived ==
    [][\A i \in DOMAIN memories :
          /\ memories[i].state # "active" => memories'[i].state # "active"
          /\ memories'[i].key = memories[i].key /\ memories'[i].user = memories[i].user]_vars

ForgottenStaysGone == \A i \in forgotten : memories[i].state # "active"

(* When an event from the strongest source has been processed, its value   *)
(* is the one that counts, unless it was forgotten in between ...          *)
Strongest(source) == \A other \in Sources \ {source} : Score[other] < Score[source]

Updates(c) == /\ CommitJob /\ ~session.raised /\ session.decision # Absent
              /\ session.decision.candidates = <<c>>
              /\ c.type \in OfCardinality("ONE_ACTIVE") /\ ~Ontology[c.type].relation
              /\ Strongest(session.decision.source)

Holds(c) == \E i \in DOMAIN memories' : /\ memories'[i].user = session.decision.user
                                        /\ memories'[i].type = c.type
                                        /\ memories'[i].key = c.key
                                        /\ memories'[i].state = "active" \/ i \in forgotten

(* ... provided the memory it meets has the score of its own source: a     *)
(* refresh by a weaker one changes the source and keeps the score.         *)
Borrowed(i) == memories[i].score # Score[memories[i].source]

StrongestSourceWins ==
    [][\A c \in Candidate :
          /\ Updates(c)
          /\ \A i \in DOMAIN memories : memories[i].type = c.type => ~Borrowed(i)
          => Holds(c)]_vars

(* The rest is what the specification asks and the code does not do.       *)

(* Whatever supersedes a memory says so, relations too.                    *)
SupersededIsLinked ==
    \A i \in DOMAIN memories : memories[i].state = "superseded" =>
        \E j \in DOMAIN memories : memories[j].supersedes = i

(* Every persisted memory is traceable to evidence.                        *)
Traceable == \A i \in Active : memories[i].evidence > 0

(* An explicit update supersedes the prior active value.                   *)
UpdateSupersedes == [][\A c \in Candidate : Updates(c) => Holds(c)]_vars

(* A competing value is chosen by comparing precedence scores: what        *)
(* replaces a memory is not weaker, unless it corrects a typo.             *)
PrecedenceDecides ==
    [][\A i \in DOMAIN memories :
          memories[i].state = "active" /\ memories'[i].state = "superseded"
          => \E j \in DOMAIN memories' :
                /\ memories'[j].supersedes = i
                /\ \/ memories'[j].score >= memories[i].score
                   \/ <<memories[i].key, memories'[j].key>> \in Similar]_vars

(* Conflicts are a matter of types with a single value.                    *)
ConflictsTypeSpecific ==
    \A i \in DOMAIN memories :
        memories[i].state = "conflicted" => memories[i].type \in OfCardinality("ONE_ACTIVE")

(* A second value for the same object is a duplicate.                      *)
UniqueByObject ==
    \A i, j \in Active :
        /\ memories[i].user = memories[j].user
        /\ memories[i].type = memories[j].type
        /\ memories[i].key = memories[j].key
        /\ memories[i].type \in OfCardinality("MANY_UNIQUE_BY_OBJECT")
        => i = j

(* A type whose embedding is disabled is never embedded.                   *)
EmbedModeRespected ==
    \A i \in DOMAIN memories : memories[i].embedded => Ontology[memories[i].type].embeds

(* After a FORGET event nothing of the user is left to retrieve.           *)
ForgetIsComplete ==
    [][\A user \in Users : ProcessForget(user) =>
          \A i \in DOMAIN relations' : relations'[i].user = user => relations'[i].state = "deleted"]_vars
=============================================================================
