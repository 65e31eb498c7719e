-------------------------- MODULE MemoryStoreProofs --------------------------
(***************************************************************************)
(* Proofs about the memory tables, for every ontology, every set of users, *)
(* keys, sources and decisions, and any number of jobs.                    *)
(*                                                                         *)
(* The invariant speaks of three views of the rows: the committed table,   *)
(* what the queries of the worker's session find (Visible), and what would *)
(* be active if the session committed now (Alive).  Memories change under  *)
(* an open session: an API thread may delete them.                         *)
(***************************************************************************)
EXTENDS MemoryStore, WellFoundedInduction, TLAPS

Session == [open : {TRUE}, decision : Decisions \cup {Absent}, todo : Seq(Candidate),
            up : BOOLEAN, recent : BOOLEAN, raised : BOOLEAN, intended : BOOLEAN,
            rows : Seq(Memory), links : Seq(Relation), objects : SUBSET Entity,
            moved : SUBSET Nat, pending : SUBSET Nat]

(* What no job and no forget changes of a memory.                          *)
SameRow(r, q) == /\ r.user = q.user /\ r.type = q.type /\ r.key = q.key
                 /\ r.job = q.job /\ r.supersedes = q.supersedes

(* The state of row i if the session committed now.                        *)
Outcome(s, i) == IF i \in DOMAIN memories \ s.moved THEN memories[i].state ELSE s.rows[i].state
Alive(s) == {i \in DOMAIN s.rows : Outcome(s, i) = "active"}

(* The rows that a session holds are those of the table and new ones.      *)
Fits(s) ==
    /\ s \in Session
    /\ s.decision \in Decisions \/ (s.todo = <<>> /\ s.intended)
    /\ s.pending \subseteq s.moved /\ s.moved \subseteq DOMAIN s.rows
    /\ DOMAIN memories \subseteq DOMAIN s.rows
    /\ \A i \in DOMAIN s.rows :
          /\ s.rows[i].touched <= jobs
          /\ i \in DOMAIN memories => SameRow(s.rows[i], memories[i])
          /\ i \in s.moved => s.rows[i].state # "active"
          /\ i \notin DOMAIN memories \cup s.moved => s.rows[i].state = "active"

(* The memories that contend for one place: those of a type with a single  *)
(* value, and those of one key of a type that is resolved by key.          *)
Lone(type) == type \in OfCardinality("ONE_ACTIVE") \ Intents
Keyed(type) == type \in OfCardinality("ONE_ACTIVE") \cup OfCardinality("MANY_SCORED")
Rivals(r, q) == /\ r.user = q.user /\ r.type = q.type
                /\ Lone(r.type) \/ (Keyed(r.type) /\ r.key = q.key)

UniqueIn(rows, S) == \A i, j \in S : Rivals(rows[i], rows[j]) => i = j

(* A row that supersedes another one is younger, and the only one to do so. *)
HeirOf(rows, i, j) == /\ rows[j].user = rows[i].user /\ rows[j].type = rows[i].type
                      /\ \A k \in DOMAIN rows : rows[k].supersedes = i => k = j

Heirs(s) ==
    /\ \A i \in DOMAIN s.rows : Outcome(s, i) = "superseded" /\ ~IsRelation(s.rows[i].type) =>
          \E j \in DOMAIN s.rows : s.rows[j].supersedes = i
    /\ \A j \in DOMAIN s.rows :
          /\ s.rows[j].supersedes < j
          /\ s.rows[j].supersedes # 0 => /\ Outcome(s, s.rows[j].supersedes) # "active"
                                         /\ HeirOf(s.rows, s.rows[j].supersedes, j)

TableHeirs ==
    /\ \A i \in DOMAIN memories : memories[i].state = "superseded" /\ ~IsRelation(memories[i].type) =>
          \E j \in DOMAIN memories : memories[j].supersedes = i
    /\ \A j \in DOMAIN memories :
          /\ memories[j].supersedes < j
          /\ memories[j].supersedes # 0 => /\ memories[memories[j].supersedes].state # "active"
                                           /\ HeirOf(memories, memories[j].supersedes, j)

(* What the session has changed but not flushed has no heir yet.           *)
PendingHeirless(s) == \A i \in s.pending, j \in DOMAIN s.rows : s.rows[j].supersedes # i

Traced(s) ==
    \A i \in DOMAIN s.rows : s.rows[i].evidence = 0 =>
        s.rows[i].job \in unfinished \/ (s.raised /\ s.rows[i].job = jobs)

LinksFit(s) ==
    /\ DOMAIN relations \subseteq DOMAIN s.links
    /\ \A i \in DOMAIN s.links :
          /\ s.links[i].count = s.links[i].evidence
          /\ i \notin DOMAIN relations => s.links[i].state = "active"
          /\ i \in DOMAIN relations => /\ s.links[i].user = relations[i].user
                                       /\ s.links[i].type = relations[i].type
                                       /\ s.links[i].object = relations[i].object
    /\ \A i, j \in VisibleLinks(s) :
          /\ s.links[i].user = s.links[j].user
          /\ s.links[i].type = s.links[j].type
          /\ s.links[i].object = s.links[j].object
          => i = j

Sound(s) == /\ Fits(s) /\ UniqueIn(s.rows, Visible(s))
            /\ Heirs(s) /\ PendingHeirless(s) /\ Traced(s) /\ LinksFit(s)

(* What one round of the session's loop does to its rows: d is the row it  *)
(* displaces (0: none), grown whether it adds one.                         *)
Step(s, t, d, grown) ==
    /\ t \in Session /\ t.decision = s.decision /\ t.todo = s.todo /\ t.intended = s.intended
    /\ d \in {0} \cup Visible(s)
    /\ t.moved = s.moved \cup ({d} \ {0})
    /\ t.pending \subseteq s.pending \cup ({d} \ {0})
    /\ Len(t.rows) = IF grown THEN Len(s.rows) + 1 ELSE Len(s.rows)
    /\ \A j \in DOMAIN s.rows :
          /\ SameRow(t.rows[j], s.rows[j])
          /\ t.rows[j].touched <= jobs
          /\ t.rows[j].evidence = 0 => s.rows[j].evidence = 0
          /\ j # d => t.rows[j].state = s.rows[j].state
    /\ d # 0 => /\ t.rows[d].state \in {"superseded", "conflicted"}
                /\ t.rows[d].state = "superseded" => grown \/ IsRelation(s.rows[d].type)
    /\ grown => LET r == t.rows[Len(t.rows)]
                IN  /\ t.pending = {}
                    /\ r.state = "active" /\ r.supersedes = d
                    /\ r.job = jobs /\ r.touched = jobs
                    /\ r.evidence = 0 => t.raised
                    /\ \A j \in Alive(s) : Rivals(s.rows[j], r) => j = d
                    /\ d # 0 => r.user = s.rows[d].user /\ r.type = s.rows[d].type

Tables ==
    /\ memories \in Seq(Memory)
    /\ relations \in Seq(Relation)
    /\ entities \subseteq Entity
    /\ jobs \in 0 .. MaxJobs
    /\ unfinished \subseteq 1 .. jobs
    /\ forgotten \subseteq DOMAIN memories
    /\ forgetting.memories \subseteq DOMAIN memories
    /\ forgetting.relations \subseteq DOMAIN relations
    /\ \A i \in DOMAIN memories : memories[i].touched <= jobs
    /\ UniqueIn(memories, Active)
    /\ TableHeirs
    /\ TraceableUnlessFailed
    /\ RelationsSound
    /\ ForgottenStaysGone

(* Between jobs there is no session; during one it is sound.               *)
Working == session = NoSession \/ (jobs # 0 /\ Sound(session))

IInv == Tables /\ Working
-----------------------------------------------------------------------------
(* Sequences and numbers                                                   *)

LEMMA SeqUpdate ==
    ASSUME NEW S, NEW q \in Seq(S), NEW i \in DOMAIN q, NEW x \in S
    PROVE  /\ [q EXCEPT ![i] = x] \in Seq(S)
           /\ DOMAIN [q EXCEPT ![i] = x] = DOMAIN q
           /\ Len([q EXCEPT ![i] = x]) = Len(q)
OBVIOUS

LEMMA SeqAppend ==
    ASSUME NEW S, NEW q \in Seq(S), NEW x \in S
    PROVE  /\ Append(q, x) \in Seq(S)
           /\ Len(Append(q, x)) = Len(q) + 1
           /\ Append(q, x)[Len(q) + 1] = x
           /\ \A i \in DOMAIN q : Append(q, x)[i] = q[i]
OBVIOUS

LEMMA Greatest ==
    ASSUME NEW n \in Nat, NEW S, S \subseteq 0..n, S # {}
    PROVE  \E i \in S : \A j \in S : j <= i
<1> DEFINE T == {n - i : i \in S}
           less == OpToRel(<, Nat)
<1>1. T \subseteq Nat /\ T # {}
  <2>1. \A i \in S : n - i \in Nat
    OBVIOUS
  <2>2. PICK i \in S : TRUE
    OBVIOUS
  <2>3. QED BY <2>1, <2>2
<1>2. IsWellFoundedOn(less, Nat)
  BY NatLessThanWellFounded
<1>3. \E x \in T : \A y \in T : ~(<<y, x>> \in less)
  <2> HIDE DEF T, less
  <2>1. QED BY <1>1, <1>2, WFMin
<1>4. PICK x \in T : \A y \in T : ~(<<y, x>> \in less)
  BY <1>3
<1>5. \A y \in T : ~(y < x)
  BY <1>1, <1>4 DEF OpToRel
<1>6. PICK i \in S : x = n - i
  OBVIOUS
<1>7. \A j \in S : j <= i
  BY <1>5, <1>6
<1> QED BY <1>7

-----------------------------------------------------------------------------
(* The fields of sessions and rows                                         *)

LEMMA SessionTyped ==
    ASSUME NEW s \in Session
    PROVE  /\ s.decision \in Decisions \cup {Absent} /\ s.todo \in Seq(Candidate)
           /\ s.up \in BOOLEAN /\ s.recent \in BOOLEAN
           /\ s.raised \in BOOLEAN /\ s.intended \in BOOLEAN
           /\ s.rows \in Seq(Memory) /\ s.links \in Seq(Relation)
           /\ s.objects \in SUBSET Entity
           /\ s.moved \in SUBSET Nat /\ s.pending \in SUBSET Nat
BY DEF Session

LEMMA MemoryTyped ==
    ASSUME NEW r \in Memory
    PROVE  /\ r.user \in Users /\ r.type \in Types /\ r.key \in Keys
           /\ r.state \in MemoryState /\ r.source \in Sources
           /\ r.score \in Nat /\ r.supersedes \in Nat /\ r.evidence \in Nat
           /\ r.embedded \in BOOLEAN /\ r.touched \in Nat /\ r.job \in Nat
BY DEF Memory

(* A query finds what would be active after a commit, and the rows that    *)
(* the session has displaced but not flushed.                              *)
LEMMA VisibleRows ==
    ASSUME NEW s, Fits(s), NEW i
    PROVE  i \in Visible(s) <=>
              /\ i \in DOMAIN s.rows
              /\ \/ i \in Alive(s)
                 \/ i \in s.pending /\ (i \in DOMAIN memories => memories[i].state = "active")
BY DEF Fits, Visible, DbState, Alive, Outcome

LEMMA AliveRows ==
    ASSUME NEW s, Fits(s), NEW i
    PROVE  i \in Alive(s) <=> /\ i \in DOMAIN s.rows /\ i \notin s.moved
                              /\ i \in DOMAIN memories => memories[i].state = "active"
BY DEF Fits, Alive, Outcome

(* ORDER BY updated_at DESC LIMIT 1 returns a row when one matches.        *)
LEMMA LastUpdatedRow ==
    ASSUME NEW s, Fits(s), jobs \in Nat, NEW S, S \subseteq DOMAIN s.rows
    PROVE  IF S = {} THEN LastUpdated(s, S) = 0 ELSE LastUpdated(s, S) \in S
<1>1. CASE S = {}
  BY <1>1 DEF LastUpdated
<1>2. CASE S # {}
  <2> DEFINE T == {s.rows[j].touched : j \in S}
  <2>1. s.rows \in Seq(Memory) /\ \A j \in S : s.rows[j].touched \in 0..jobs
    <3>1. s.rows \in Seq(Memory)
      BY SessionTyped DEF Fits
    <3>2. \A j \in S : s.rows[j] \in Memory /\ s.rows[j].touched <= jobs
      BY <3>1 DEF Fits
    <3>3. QED BY <3>1, <3>2, MemoryTyped
  <2>2. \E m \in T : \A x \in T : x <= m
    <3>1. T \subseteq 0..jobs /\ T # {}
      BY <1>2, <2>1
    <3>2. QED BY <3>1, Greatest
  <2>3. PICK m \in T : \A x \in T : x <= m
    BY <2>2
  <2> DEFINE U == {j \in S : s.rows[j].touched = m}
  <2>4. \E i \in U : \A j \in U : j <= i
    <3>1. U # {} /\ U \subseteq 0..Len(s.rows) /\ Len(s.rows) \in Nat
      BY <2>1, <2>3
    <3> HIDE DEF U
    <3>2. QED BY <3>1, Greatest
  <2>5. PICK i \in U : \A j \in U : j <= i
    BY <2>4
  <2>6. /\ i \in S
        /\ \A j \in S : \/ s.rows[j].touched < s.rows[i].touched
                        \/ s.rows[j].touched = s.rows[i].touched /\ j <= i
    <3>1. \A j \in S : s.rows[j].touched \in Nat /\ s.rows[j].touched <= m
      BY <2>1, <2>3
    <3>2. i \in S /\ s.rows[i].touched = m
      OBVIOUS
    <3>3. \A j \in S : s.rows[j].touched = m => j <= i
      BY <2>5
    <3> HIDE DEF T, U
    <3>4. QED BY <3>1, <3>2, <3>3
  <2> HIDE DEF T, U
  <2>7. QED BY <1>2, <2>6 DEF LastUpdated
<1> QED BY <1>1, <1>2
-----------------------------------------------------------------------------
(* A step of the loop keeps the invariant                                  *)

LEMMA StepFits ==
    ASSUME memories \in Seq(Memory), jobs \in Nat,
           NEW s, Fits(s), NEW t, NEW d, NEW grown \in BOOLEAN, Step(s, t, d, grown)
    PROVE  Fits(t)
<1>1. s.rows \in Seq(Memory) /\ t.rows \in Seq(Memory)
  BY SessionTyped DEF Fits, Step
<1>2. DOMAIN s.rows \subseteq DOMAIN t.rows
      /\ \A i \in DOMAIN t.rows \ DOMAIN s.rows : grown /\ i = Len(t.rows)
  BY <1>1 DEF Step
<1>3. t.pending \subseteq t.moved /\ t.moved \subseteq DOMAIN t.rows
  BY <1>2 DEF Step, Fits, Visible
<1>4. ASSUME NEW i \in DOMAIN t.rows
      PROVE  /\ t.rows[i].touched <= jobs
             /\ i \in DOMAIN memories => SameRow(t.rows[i], memories[i])
             /\ i \in t.moved => t.rows[i].state # "active"
             /\ i \notin DOMAIN memories \cup t.moved => t.rows[i].state = "active"
  <2>1. CASE i \in DOMAIN s.rows
    BY <2>1 DEF Step, Fits, SameRow
  <2>2. CASE i \notin DOMAIN s.rows
    BY <1>2, <2>2 DEF Step, Fits, Visible
  <2>3. QED BY <2>1, <2>2
<1> QED BY <1>2, <1>3, <1>4 DEF Fits, Step

(* The rows of t that are alive or visible were so in s, or are new.       *)
LEMMA StepViews ==
    ASSUME memories \in Seq(Memory), jobs \in Nat,
           NEW s, Fits(s), NEW t, NEW d, NEW grown \in BOOLEAN, Step(s, t, d, grown)
    PROVE  /\ \A i \in DOMAIN s.rows : i \in Alive(t) <=> i \in Alive(s) /\ i # d
           /\ grown => Visible(t) = Alive(t)
           /\ \A i \in DOMAIN s.rows : i \in Visible(t) => i \in Visible(s)
           /\ \A i \in DOMAIN t.rows \ DOMAIN s.rows : grown /\ i = Len(t.rows)
           /\ DOMAIN s.rows \subseteq DOMAIN t.rows
<1>1. s.rows \in Seq(Memory) /\ t.rows \in Seq(Memory)
  BY SessionTyped DEF Fits, Step
<1>2. DOMAIN s.rows \subseteq DOMAIN t.rows
      /\ \A i \in DOMAIN t.rows \ DOMAIN s.rows : grown /\ i = Len(t.rows)
  BY <1>1 DEF Step
<1>3. Fits(t)
  BY StepFits
<1>4. \A i \in DOMAIN s.rows : i \in Alive(t) <=> i \in Alive(s) /\ i # d
  <2> SUFFICES ASSUME NEW i \in DOMAIN s.rows
               PROVE  i \in Alive(t) <=> i \in Alive(s) /\ i # d
    OBVIOUS
  <2>1. 0 \notin DOMAIN s.rows
    BY <1>1
  <2>2. i \in t.moved <=> i \in s.moved \/ i = d
    BY <2>1 DEF Step
  <2>3. QED BY <1>2, <1>3, <2>2, AliveRows
<1>5. grown => Visible(t) = Alive(t)
  <2> SUFFICES ASSUME grown PROVE \A i : i \in Visible(t) <=> i \in Alive(t)
    BY DEF Visible, Alive
  <2>1. t.pending = {}
    BY DEF Step
  <2>2. QED BY <1>3, <2>1, VisibleRows, AliveRows
<1>6. ASSUME NEW i \in DOMAIN s.rows, i \in Visible(t)
      PROVE  i \in Visible(s)
  <2>1. CASE i \in Alive(t)
    BY <1>4, <2>1, VisibleRows
  <2>2. CASE i \in t.pending /\ (i \in DOMAIN memories => memories[i].state = "active")
    BY <2>2, VisibleRows DEF Step
  <2>3. QED BY <1>3, <1>6, <2>1, <2>2, VisibleRows
<1> QED BY <1>2, <1>4, <1>5, <1>6

LEMMA RivalsOfSame ==
    ASSUME NEW r, NEW r2, NEW q, NEW q2, SameRow(r, r2), SameRow(q, q2), Rivals(r, q)
    PROVE  Rivals(r2, q2)
BY DEF Rivals, SameRow

LEMMA StepUnique ==
    ASSUME memories \in Seq(Memory), jobs \in Nat,
           NEW s, Fits(s), NEW t, NEW d, NEW grown \in BOOLEAN, Step(s, t, d, grown),
           UniqueIn(s.rows, Visible(s))
    PROVE  UniqueIn(t.rows, Visible(t))
<1> SUFFICES ASSUME NEW i \in Visible(t), NEW j \in Visible(t), Rivals(t.rows[i], t.rows[j])
             PROVE  i = j
  BY DEF UniqueIn
<1>1. /\ \A k \in DOMAIN s.rows : k \in Alive(t) <=> k \in Alive(s) /\ k # d
      /\ grown => Visible(t) = Alive(t)
      /\ \A k \in DOMAIN s.rows : k \in Visible(t) => k \in Visible(s)
      /\ \A k \in DOMAIN t.rows \ DOMAIN s.rows : grown /\ k = Len(t.rows)
  BY StepViews
<1>2. i \in DOMAIN t.rows /\ j \in DOMAIN t.rows
  BY DEF Visible
<1>3. \A k \in DOMAIN s.rows : SameRow(t.rows[k], s.rows[k])
  BY DEF Step
<1>4. CASE i \in DOMAIN s.rows /\ j \in DOMAIN s.rows
  <2>1. Rivals(s.rows[i], s.rows[j])
    BY <1>3, <1>4, RivalsOfSame
  <2>2. QED BY <1>1, <1>4, <2>1 DEF UniqueIn
<1>5. ASSUME NEW a \in DOMAIN s.rows, NEW b \in DOMAIN t.rows \ DOMAIN s.rows,
             a \in Visible(t), Rivals(t.rows[a], t.rows[b])
      PROVE  FALSE
  <2>1. grown /\ b = Len(t.rows)
    BY <1>1
  <2>2. a \in Alive(s) /\ a # d
    BY <1>1, <1>5, <2>1
  <2>3. Rivals(s.rows[a], t.rows[b])
    BY <1>3, <1>5, RivalsOfSame DEF SameRow
  <2>4. QED BY <2>1, <2>2, <2>3 DEF Step
<1>6. CASE i \in DOMAIN s.rows /\ j \notin DOMAIN s.rows
  BY <1>2, <1>5, <1>6
<1>7. CASE i \notin DOMAIN s.rows /\ j \in DOMAIN s.rows
  <2>1. Rivals(t.rows[j], t.rows[i])
    BY DEF Rivals
  <2>2. QED BY <1>2, <1>5, <1>7, <2>1
<1>8. CASE i \notin DOMAIN s.rows /\ j \notin DOMAIN s.rows
  BY <1>1, <1>2, <1>8
<1> QED BY <1>4, <1>6, <1>7, <1>8

(* What a query finds has no heir: it is alive, or pending.                *)
LEMMA VisibleHeirless ==
    ASSUME NEW s, Fits(s), Heirs(s), PendingHeirless(s), NEW d \in Visible(s)
    PROVE  \A j \in DOMAIN s.rows : s.rows[j].supersedes # d
<1> SUFFICES ASSUME NEW j \in DOMAIN s.rows, s.rows[j].supersedes = d
             PROVE  FALSE
  OBVIOUS
<1>1. d # 0
  <2>1. s.rows \in Seq(Memory) /\ d \in DOMAIN s.rows
    BY SessionTyped DEF Fits, Visible
  <2>2. QED BY <2>1
<1>2. CASE d \in Alive(s)
  BY <1>1, <1>2 DEF Heirs, Alive
<1>3. CASE d \in s.pending
  BY <1>3 DEF PendingHeirless
<1> QED BY <1>2, <1>3, VisibleRows

LEMMA StepHeirs ==
    ASSUME memories \in Seq(Memory), jobs \in Nat,
           NEW s, Fits(s), NEW t, NEW d, NEW grown \in BOOLEAN, Step(s, t, d, grown),
           Heirs(s), PendingHeirless(s)
    PROVE  Heirs(t) /\ PendingHeirless(t)
<1>1. /\ s.rows \in Seq(Memory) /\ t.rows \in Seq(Memory)
      /\ 0 \notin DOMAIN s.rows
  BY SessionTyped DEF Fits, Step
<1>2. /\ DOMAIN s.rows \subseteq DOMAIN t.rows
      /\ \A k \in DOMAIN t.rows \ DOMAIN s.rows : grown /\ k = Len(t.rows)
  BY StepViews
<1>3. Fits(t)
  BY StepFits
<1>4. \A k \in DOMAIN s.rows : SameRow(t.rows[k], s.rows[k])
  BY DEF Step
<1>5. /\ d # 0 => d \in DOMAIN s.rows /\ Outcome(t, d) = t.rows[d].state
      /\ d # 0 => Outcome(t, d) # "active"
      /\ \A k \in DOMAIN s.rows : k # d => Outcome(t, k) = Outcome(s, k)
  <2>1. d # 0 => d \in DOMAIN s.rows /\ d \in t.moved
    BY DEF Step, Visible
  <2>2. d # 0 => t.rows[d].state # "active"
    BY DEF Step
  <2>3. \A k \in DOMAIN s.rows : k # d => (k \in t.moved <=> k \in s.moved)
    BY DEF Step
  <2>4. \A k \in DOMAIN s.rows : k # d => t.rows[k].state = s.rows[k].state
    BY DEF Step
  <2>5. QED BY <2>1, <2>2, <2>3, <2>4 DEF Outcome
<1>6. d # 0 => \A j \in DOMAIN s.rows : s.rows[j].supersedes # d
  BY VisibleHeirless DEF Step
<1> DEFINE n == Len(t.rows)
<1>7. grown => /\ n \in DOMAIN t.rows /\ n \notin DOMAIN s.rows
               /\ n = Len(s.rows) + 1
               /\ Outcome(t, n) = "active" /\ t.rows[n].supersedes = d
               /\ d # 0 => t.rows[n].user = t.rows[d].user /\ t.rows[n].type = t.rows[d].type
  <2> SUFFICES ASSUME grown
               PROVE  /\ n \in DOMAIN t.rows /\ n \notin DOMAIN s.rows
                      /\ n = Len(s.rows) + 1
                      /\ Outcome(t, n) = "active" /\ t.rows[n].supersedes = d
                      /\ d # 0 => t.rows[n].user = t.rows[d].user /\ t.rows[n].type = t.rows[d].type
    OBVIOUS
  <2>1. n = Len(s.rows) + 1 /\ Len(s.rows) \in Nat
    BY <1>1 DEF Step
  <2>2. n \in DOMAIN t.rows /\ n \notin DOMAIN s.rows
    BY <1>1, <2>1
  <2>3. t.rows[n].state = "active" /\ t.rows[n].supersedes = d
    BY DEF Step
  <2>4. n \notin DOMAIN memories
    BY <2>2 DEF Fits
  <2>5. d # 0 => t.rows[n].user = t.rows[d].user /\ t.rows[n].type = t.rows[d].type
    BY <1>4, <1>5 DEF Step, SameRow
  <2>6. QED BY <2>1, <2>2, <2>3, <2>4, <2>5 DEF Outcome
<1> HIDE DEF n
<1>8. ASSUME NEW i \in DOMAIN t.rows, Outcome(t, i) = "superseded", ~IsRelation(t.rows[i].type)
      PROVE  \E j \in DOMAIN t.rows : t.rows[j].supersedes = i
  <2>1. i \in DOMAIN s.rows
    BY <1>2, <1>7, <1>8 DEF n
  <2>2. CASE i = d
    <3>1. grown
      BY <1>1, <1>4, <1>5, <1>8, <2>1, <2>2 DEF Step, SameRow
    <3>2. QED BY <1>7, <2>2, <3>1
  <2>3. CASE i # d
    <3>1. PICK j \in DOMAIN s.rows : s.rows[j].supersedes = i
      BY <1>4, <1>5, <1>8, <2>1, <2>3 DEF Heirs, SameRow
    <3>2. QED BY <1>2, <1>4, <3>1 DEF SameRow
  <2>4. QED BY <2>2, <2>3
<1>9. ASSUME NEW j \in DOMAIN t.rows
      PROVE  /\ t.rows[j].supersedes < j
             /\ t.rows[j].supersedes # 0 => /\ Outcome(t, t.rows[j].supersedes) # "active"
                                            /\ HeirOf(t.rows, t.rows[j].supersedes, j)
  <2>1. CASE j \notin DOMAIN s.rows
    <3>1. grown /\ j = n /\ t.rows[j].supersedes = d
      BY <1>2, <1>7, <2>1 DEF n
    <3>2. d < j
      BY <1>1, <1>5, <1>7, <3>1
    <3>3. ASSUME d # 0, NEW k \in DOMAIN t.rows, t.rows[k].supersedes = d
          PROVE  k = j
      BY <1>2, <1>4, <1>6, <3>1, <3>3 DEF SameRow, n
    <3>4. QED BY <1>5, <1>7, <3>1, <3>2, <3>3 DEF HeirOf
  <2>2. CASE j \in DOMAIN s.rows
    <3> DEFINE i == t.rows[j].supersedes
    <3>1. i = s.rows[j].supersedes /\ i \in Nat /\ i < j
      <4>1. s.rows[j] \in Memory
        BY <1>1, <2>2
      <4>2. QED BY <1>4, <2>2, <4>1, MemoryTyped DEF Heirs, SameRow
    <3> SUFFICES ASSUME i # 0
                 PROVE  Outcome(t, i) # "active" /\ HeirOf(t.rows, i, j)
      BY <3>1
    <3> HIDE DEF i
    <3>2. i \in DOMAIN s.rows
      BY <1>1, <2>2, <3>1
    <3>3. Outcome(s, i) # "active" /\ HeirOf(s.rows, i, j)
      BY <2>2, <3>1 DEF Heirs
    <3>4. i # d
      BY <1>6, <2>2, <3>1
    <3>5. ASSUME NEW k \in DOMAIN t.rows, t.rows[k].supersedes = i
          PROVE  k = j
      <4>1. k \in DOMAIN s.rows
        BY <1>2, <1>7, <3>4, <3>5 DEF n
      <4>2. QED BY <1>4, <3>3, <3>5, <4>1 DEF HeirOf, SameRow
    <3>6. QED BY <1>4, <1>5, <2>2, <3>2, <3>3, <3>4, <3>5 DEF HeirOf, SameRow
  <2>3. QED BY <2>1, <2>2
<1>10. Heirs(t)
  BY <1>8, <1>9 DEF Heirs
<1>11. ASSUME NEW i \in t.pending, NEW j \in DOMAIN t.rows
       PROVE  t.rows[j].supersedes # i
  <2>1. ~grown /\ j \in DOMAIN s.rows
    BY <1>2, <1>11 DEF Step
  <2>2. CASE i \in s.pending
    BY <1>4, <2>1, <2>2 DEF PendingHeirless, SameRow
  <2>3. CASE i \notin s.pending
    <3>1. i = d /\ d # 0
      BY <2>3 DEF Step
    <3>2. QED BY <1>4, <1>6, <2>1, <3>1 DEF SameRow
  <2>4. QED BY <2>2, <2>3
<1> QED BY <1>10, <1>11 DEF PendingHeirless

LEMMA StepTraced ==
    ASSUME memories \in Seq(Memory), jobs \in Nat,
           NEW s, Fits(s), ~s.raised, NEW t, NEW d, NEW grown \in BOOLEAN, Step(s, t, d, grown),
           Traced(s)
    PROVE  Traced(t)
<1>1. /\ DOMAIN s.rows \subseteq DOMAIN t.rows
      /\ \A k \in DOMAIN t.rows \ DOMAIN s.rows : grown /\ k = Len(t.rows)
  BY StepViews
<1> SUFFICES ASSUME NEW i \in DOMAIN t.rows, t.rows[i].evidence = 0
             PROVE  t.rows[i].job \in unfinished \/ (t.raised /\ t.rows[i].job = jobs)
  BY DEF Traced
<1>2. CASE i \in DOMAIN s.rows
  BY <1>2 DEF Step, Traced, SameRow
<1>3. CASE i \notin DOMAIN s.rows
  BY <1>1, <1>3 DEF Step
<1> QED BY <1>2, <1>3
-----------------------------------------------------------------------------
(* What the operations on a session do to its fields                       *)

Aside(s, t) == /\ t \in Session /\ t.decision = s.decision /\ t.todo = s.todo
               /\ t.intended = s.intended

LEMMA EmbedFields ==
    ASSUME NEW s \in Session, NEW i \in DOMAIN s.rows
    PROVE  LET t == Embed(s, i)
           IN  /\ Aside(s, t) /\ t.links = s.links /\ t.moved = s.moved /\ t.pending = s.pending
               /\ Len(t.rows) = Len(s.rows) /\ DOMAIN t.rows = DOMAIN s.rows
               /\ \A j \in DOMAIN s.rows :
                     /\ SameRow(t.rows[j], s.rows[j]) /\ t.rows[j].state = s.rows[j].state
                     /\ t.rows[j].evidence = s.rows[j].evidence
                     /\ t.rows[j].touched = s.rows[j].touched
<1>1. s.rows \in Seq(Memory) /\ s.rows[i] \in Memory
  BY SessionTyped
<1> DEFINE r == [s.rows[i] EXCEPT !.embedded = TRUE]
           q == [s.rows EXCEPT ![i] = r]
<1>2. /\ r \in Memory /\ SameRow(r, s.rows[i]) /\ r.state = s.rows[i].state
      /\ r.evidence = s.rows[i].evidence /\ r.touched = s.rows[i].touched
  BY <1>1 DEF Memory, SameRow
<1>3. q \in Seq(Memory) /\ DOMAIN q = DOMAIN s.rows /\ Len(q) = Len(s.rows)
  <2> HIDE DEF r
  <2>1. QED BY <1>1, <1>2, SeqUpdate
<1>4. /\ \A j \in DOMAIN s.rows : q[j] = IF j = i THEN r ELSE s.rows[j]
      /\ \A j \in DOMAIN s.rows : SameRow(s.rows[j], s.rows[j])
  BY <1>1 DEF SameRow
<1> DEFINE u == [s EXCEPT !.rows = q]
<1>5. Aside(s, u) /\ u.links = s.links /\ u.moved = s.moved /\ u.pending = s.pending /\ u.rows = q
  <2> HIDE DEF q
  <2>1. QED BY <1>3 DEF Session, Aside
<1> DEFINE v == [s EXCEPT !.raised = TRUE]
<1>6. Aside(s, v) /\ v.links = s.links /\ v.moved = s.moved /\ v.pending = s.pending /\ v.rows = s.rows
  BY DEF Session, Aside
<1>7. Embed(s, i) \in {s, u, v}
  BY DEF Embed
<1> HIDE DEF r, q, u, v
<1>8. CASE Embed(s, i) = s
  BY <1>4, <1>8 DEF Aside
<1>9. CASE Embed(s, i) = u
  BY <1>2, <1>3, <1>4, <1>5, <1>9
<1>10. CASE Embed(s, i) = v
  BY <1>4, <1>6, <1>10
<1> QED BY <1>7, <1>8, <1>9, <1>10

(* A row that is refreshed keeps its state.                                *)
LEMMA RefreshFields ==
    ASSUME MemoryAssumptions, jobs \in Nat,
           NEW s \in Session, s.decision \in Decisions, NEW i \in DOMAIN s.rows
    PROVE  LET t == Refresh(s, i)
           IN  /\ Aside(s, t) /\ t.links = s.links /\ t.moved = s.moved /\ t.pending = s.pending
               /\ Len(t.rows) = Len(s.rows) /\ DOMAIN t.rows = DOMAIN s.rows
               /\ \A j \in DOMAIN s.rows :
                     /\ SameRow(t.rows[j], s.rows[j]) /\ t.rows[j].state = s.rows[j].state
                     /\ t.rows[j].evidence = 0 => s.rows[j].evidence = 0
                     /\ t.rows[j].touched \in {s.rows[j].touched, jobs}
<1>1. s.rows \in Seq(Memory) /\ s.rows[i] \in Memory
  BY SessionTyped
<1>2. s.decision.source \in Sources /\ Score[s.decision.source] \in Nat
  BY DEF MemoryAssumptions, Decision
<1> DEFINE r == Reinforced(s, s.rows[i])
           q == [s.rows EXCEPT ![i] = r]
           u == [s EXCEPT !.rows = q]
<1>3. /\ r \in Memory /\ SameRow(r, s.rows[i]) /\ r.state = s.rows[i].state
      /\ r.evidence # 0 /\ r.touched = jobs
  <2> DEFINE best == Larger(s.rows[i].score, Score[s.decision.source])
             more == s.rows[i].evidence + 1
  <2>1. best \in Nat /\ more \in Nat /\ more # 0
    BY <1>1, <1>2, MemoryTyped DEF Larger
  <2>2. r = [s.rows[i] EXCEPT !.source = s.decision.source, !.score = best,
                              !.evidence = more, !.touched = jobs]
    BY DEF Reinforced
  <2> HIDE DEF best, more, r
  <2>3. QED BY <1>1, <1>2, <2>1, <2>2 DEF Memory, SameRow
<1>4. q \in Seq(Memory) /\ DOMAIN q = DOMAIN s.rows /\ Len(q) = Len(s.rows)
  <2> HIDE DEF r
  <2>1. QED BY <1>1, <1>3, SeqUpdate
<1>5. /\ \A j \in DOMAIN s.rows : q[j] = IF j = i THEN r ELSE s.rows[j]
      /\ \A j \in DOMAIN s.rows : SameRow(s.rows[j], s.rows[j])
  BY <1>1 DEF SameRow
<1>6. Aside(s, u) /\ u.links = s.links /\ u.moved = s.moved /\ u.pending = s.pending /\ u.rows = q
  <2> HIDE DEF q
  <2>1. QED BY <1>4 DEF Session, Aside
<1>7. Refresh(s, i) = Embed(u, i)
  BY DEF Refresh
<1> HIDE DEF r, q, u
<1>8. u \in Session /\ i \in DOMAIN u.rows
  BY <1>4, <1>6 DEF Aside
<1> DEFINE t == Embed(u, i)
<1>9. /\ Aside(u, t) /\ t.links = u.links /\ t.moved = u.moved /\ t.pending = u.pending
      /\ Len(t.rows) = Len(u.rows) /\ DOMAIN t.rows = DOMAIN u.rows
      /\ \A j \in DOMAIN u.rows :
            /\ SameRow(t.rows[j], u.rows[j]) /\ t.rows[j].state = u.rows[j].state
            /\ t.rows[j].evidence = u.rows[j].evidence
            /\ t.rows[j].touched = u.rows[j].touched
  BY <1>8, EmbedFields
<1> HIDE DEF t
<1>10. Aside(s, t) /\ t.links = s.links /\ t.moved = s.moved /\ t.pending = s.pending
       /\ Len(t.rows) = Len(s.rows) /\ DOMAIN t.rows = DOMAIN s.rows
  BY <1>4, <1>6, <1>9 DEF Aside
<1>11. \A j \in DOMAIN s.rows :
          /\ SameRow(t.rows[j], s.rows[j]) /\ t.rows[j].state = s.rows[j].state
          /\ t.rows[j].evidence = 0 => s.rows[j].evidence = 0
          /\ t.rows[j].touched \in {s.rows[j].touched, jobs}
  BY <1>3, <1>4, <1>5, <1>6, <1>9 DEF SameRow
<1> QED BY <1>7, <1>10, <1>11 DEF t

LEMMA DisplaceFields ==
    ASSUME jobs \in Nat, NEW s \in Session, NEW i \in DOMAIN s.rows, NEW state \in MemoryState
    PROVE  LET t == Displace(s, i, state)
           IN  /\ Aside(s, t) /\ t.links = s.links /\ t.raised = s.raised
               /\ t.moved = s.moved \cup {i} /\ t.pending = s.pending \cup {i}
               /\ Len(t.rows) = Len(s.rows) /\ DOMAIN t.rows = DOMAIN s.rows
               /\ t.rows[i].state = state
               /\ \A j \in DOMAIN s.rows :
                     /\ SameRow(t.rows[j], s.rows[j])
                     /\ t.rows[j].evidence = s.rows[j].evidence
                     /\ t.rows[j].touched \in {s.rows[j].touched, jobs}
                     /\ j # i => t.rows[j].state = s.rows[j].state
<1>1. /\ s.rows \in Seq(Memory) /\ s.rows[i] \in Memory /\ i \in Nat
      /\ s.moved \in SUBSET Nat /\ s.pending \in SUBSET Nat
  BY SessionTyped
<1> DEFINE r == [s.rows[i] EXCEPT !.state = state, !.touched = jobs]
           q == [s.rows EXCEPT ![i] = r]
           u == [s EXCEPT !.rows = q, !.moved = @ \cup {i}, !.pending = @ \cup {i}]
<1>2. /\ r \in Memory /\ SameRow(r, s.rows[i]) /\ r.state = state
      /\ r.evidence = s.rows[i].evidence /\ r.touched = jobs
  BY <1>1 DEF Memory, SameRow
<1>3. q \in Seq(Memory) /\ DOMAIN q = DOMAIN s.rows /\ Len(q) = Len(s.rows)
  <2> HIDE DEF r
  <2>1. QED BY <1>1, <1>2, SeqUpdate
<1>4. /\ \A j \in DOMAIN s.rows : q[j] = IF j = i THEN r ELSE s.rows[j]
      /\ \A j \in DOMAIN s.rows : SameRow(s.rows[j], s.rows[j])
  BY <1>1 DEF SameRow
<1>5. /\ Aside(s, u) /\ u.links = s.links /\ u.raised = s.raised
      /\ u.moved = s.moved \cup {i} /\ u.pending = s.pending \cup {i} /\ u.rows = q
  <2> HIDE DEF q
  <2>1. QED BY <1>1, <1>3 DEF Session, Aside
<1>6. Displace(s, i, state) = u
  BY DEF Displace
<1> HIDE DEF r, q, u
<1> QED BY <1>2, <1>3, <1>4, <1>5, <1>6

(* What a session becomes when it adds the row q and flushes.              *)
Kept(r, q) == /\ SameRow(r, q) /\ r.state = q.state /\ r.touched = q.touched
              /\ r.evidence = q.evidence

Added(s, t, q) ==
    /\ Aside(s, t) /\ t.links = s.links /\ t.moved = s.moved /\ t.pending = {}
    /\ Len(t.rows) = Len(s.rows) + 1
    /\ \A j \in DOMAIN s.rows : Kept(t.rows[j], s.rows[j])
    /\ LET r == t.rows[Len(s.rows) + 1]
       IN  /\ SameRow(r, q) /\ r.state = "active" /\ r.touched = jobs
           /\ r.evidence = 0 => t.raised

LEMMA NewMemoryTyped ==
    ASSUME MemoryAssumptions, jobs \in Nat, NEW s \in Session, s.decision \in Decisions,
           NEW type \in Types, NEW key \in Keys, NEW prior \in Nat
    PROVE  NewMemory(s, type, key, prior) \in Memory
<1>1. /\ s.decision.user \in Users /\ s.decision.source \in Sources
      /\ Score[s.decision.source] \in Nat
  BY DEF MemoryAssumptions, Decision
<1> QED BY <1>1 DEF NewMemory, Memory, MemoryState

LEMMA AppendFields ==
    ASSUME NEW s \in Session, NEW q \in Memory
    PROVE  LET u == Flush([s EXCEPT !.rows = Append(@, q)])
           IN  /\ Aside(s, u) /\ u.links = s.links /\ u.moved = s.moved /\ u.pending = {}
               /\ u.raised = s.raised /\ u.rows = Append(s.rows, q)
<1>1. s.rows \in Seq(Memory)
  BY SessionTyped
<1> DEFINE w == Append(s.rows, q)
<1>2. w \in Seq(Memory)
  BY <1>1, SeqAppend
<1> DEFINE u == [s EXCEPT !.rows = w, !.pending = {}]
<1>3. Flush([s EXCEPT !.rows = Append(@, q)]) = u
  BY DEF Flush
<1> HIDE DEF w
<1>4. /\ Aside(s, u) /\ u.links = s.links /\ u.moved = s.moved /\ u.pending = {}
      /\ u.raised = s.raised /\ u.rows = w
  BY <1>2 DEF Session, Aside
<1> HIDE DEF u
<1> QED BY <1>3, <1>4 DEF w

LEMMA EvidenceFields ==
    ASSUME NEW s \in Session, NEW i \in DOMAIN s.rows
    PROVE  LET t == [s EXCEPT !.rows[i].evidence = 1]
           IN  /\ Aside(s, t) /\ t.links = s.links /\ t.moved = s.moved /\ t.pending = s.pending
               /\ t.raised = s.raised
               /\ Len(t.rows) = Len(s.rows) /\ DOMAIN t.rows = DOMAIN s.rows
               /\ t.rows[i].evidence = 1
               /\ \A j \in DOMAIN s.rows :
                     /\ SameRow(t.rows[j], s.rows[j]) /\ t.rows[j].state = s.rows[j].state
                     /\ t.rows[j].touched = s.rows[j].touched
                     /\ j # i => t.rows[j].evidence = s.rows[j].evidence
<1>1. s.rows \in Seq(Memory) /\ s.rows[i] \in Memory
  BY SessionTyped
<1> DEFINE r == [s.rows[i] EXCEPT !.evidence = 1]
           q == [s.rows EXCEPT ![i] = r]
           u == [s EXCEPT !.rows = q]
<1>2. /\ r \in Memory /\ SameRow(r, s.rows[i]) /\ r.state = s.rows[i].state
      /\ r.evidence = 1 /\ r.touched = s.rows[i].touched
  BY <1>1 DEF Memory, SameRow
<1>3. q \in Seq(Memory) /\ DOMAIN q = DOMAIN s.rows /\ Len(q) = Len(s.rows)
  <2> HIDE DEF r
  <2>1. QED BY <1>1, <1>2, SeqUpdate
<1>4. /\ \A j \in DOMAIN s.rows : q[j] = IF j = i THEN r ELSE s.rows[j]
      /\ \A j \in DOMAIN s.rows : SameRow(s.rows[j], s.rows[j])
  BY <1>1 DEF SameRow
<1>5. /\ Aside(s, u) /\ u.links = s.links /\ u.moved = s.moved /\ u.pending = s.pending
      /\ u.raised = s.raised /\ u.rows = q
  <2> HIDE DEF q
  <2>1. QED BY <1>3 DEF Session, Aside
<1>6. [s EXCEPT !.rows[i].evidence = 1] = u
  OBVIOUS
<1> HIDE DEF r, q, u
<1> QED BY <1>2, <1>3, <1>4, <1>5, <1>6

LEMMA InsertFields ==
    ASSUME MemoryAssumptions, jobs \in Nat, NEW s \in Session, s.decision \in Decisions,
           NEW c \in Candidate, c.type \in Types, NEW prior \in Nat
    PROVE  Added(s, Insert(s, c, prior), NewMemory(s, c.type, c.key, prior))
<1> DEFINE q == NewMemory(s, c.type, c.key, prior)
           u == Flush([s EXCEPT !.rows = Append(@, q)])
           i == Len(s.rows) + 1
           v == Embed(u, i)
           w == [v EXCEPT !.rows[i].evidence = 1]
<1>1. q \in Memory
  BY NewMemoryTyped DEF Candidate
<1>2. q.state = "active" /\ q.touched = jobs
  BY DEF NewMemory
<1> HIDE DEF q
<1>3. s.rows \in Seq(Memory)
  BY SessionTyped
<1>4. /\ Aside(s, u) /\ u.links = s.links /\ u.moved = s.moved /\ u.pending = {}
      /\ u.raised = s.raised /\ u.rows = Append(s.rows, q)
  BY <1>1, AppendFields
<1>5. /\ Len(u.rows) = i /\ i \in DOMAIN u.rows /\ u.rows[i] = q
      /\ \A j \in DOMAIN s.rows : j \in DOMAIN u.rows /\ u.rows[j] = s.rows[j]
      /\ i \notin DOMAIN s.rows
  <2> DEFINE rows == u.rows
  <2> HIDE DEF u, rows
  <2>1. rows = Append(s.rows, q)
    BY <1>4 DEF rows
  <2>2. Len(s.rows) \in Nat /\ DOMAIN s.rows = 1 .. Len(s.rows)
    BY <1>3
  <2>3. /\ rows \in Seq(Memory) /\ Len(rows) = i /\ rows[i] = q
        /\ \A j \in DOMAIN s.rows : rows[j] = s.rows[j]
    BY <1>1, <1>3, <2>1, SeqAppend
  <2>4. DOMAIN rows = 1 .. i
    BY <2>3
  <2>5. QED BY <2>2, <2>3, <2>4 DEF rows
<1>6. Insert(s, c, prior) = IF v.raised THEN v ELSE w
  BY <1>5 DEF Insert, q
<1> HIDE DEF u, i
<1>7. u \in Session
  BY <1>4 DEF Aside
<1>8. /\ Aside(u, v) /\ v.links = u.links /\ v.moved = u.moved /\ v.pending = u.pending
      /\ Len(v.rows) = Len(u.rows) /\ DOMAIN v.rows = DOMAIN u.rows
      /\ \A j \in DOMAIN u.rows :
            /\ SameRow(v.rows[j], u.rows[j]) /\ v.rows[j].state = u.rows[j].state
            /\ v.rows[j].evidence = u.rows[j].evidence
            /\ v.rows[j].touched = u.rows[j].touched
  BY <1>5, <1>7, EmbedFields
<1> HIDE DEF v
<1>9. v \in Session /\ i \in DOMAIN v.rows
  BY <1>5, <1>8 DEF Aside
<1>10. /\ Aside(v, w) /\ w.links = v.links /\ w.moved = v.moved /\ w.pending = v.pending
       /\ Len(w.rows) = Len(v.rows) /\ DOMAIN w.rows = DOMAIN v.rows
       /\ w.rows[i].evidence = 1
       /\ \A j \in DOMAIN v.rows :
             /\ SameRow(w.rows[j], v.rows[j]) /\ w.rows[j].state = v.rows[j].state
             /\ w.rows[j].touched = v.rows[j].touched
             /\ j # i => w.rows[j].evidence = v.rows[j].evidence
  BY <1>9, EvidenceFields
<1> HIDE DEF w
<1>11. CASE v.raised
  <2>1. Added(s, v, q)
    BY <1>2, <1>4, <1>5, <1>8, <1>11 DEF Added, Aside, Kept, SameRow, i
  <2>2. QED BY <1>6, <1>11, <2>1 DEF q
<1>12. CASE ~v.raised
  <2>1. Added(s, w, q)
    BY <1>2, <1>4, <1>5, <1>8, <1>10 DEF Added, Aside, Kept, SameRow, i
  <2>2. QED BY <1>6, <1>12, <2>1 DEF q
<1> QED BY <1>11, <1>12

LEMMA IntentFields ==
    ASSUME MemoryAssumptions, jobs \in Nat, NEW s \in Session, s.decision \in Decisions,
           NEW type \in Types, NEW key \in Keys
    PROVE  LET q == NewMemory(s, type, key, 0)
               u == Flush([s EXCEPT !.rows = Append(@, q)])
               i == Len(u.rows)
           IN  Added(s, Embed([u EXCEPT !.rows[i].evidence = 1], i), q)
<1> DEFINE q == NewMemory(s, type, key, 0)
           u == Flush([s EXCEPT !.rows = Append(@, q)])
           n == Len(u.rows)
           i == Len(s.rows) + 1
           w == [u EXCEPT !.rows[i].evidence = 1]
           v == Embed(w, i)
<1>1. q \in Memory
  BY NewMemoryTyped
<1>2. q.state = "active" /\ q.touched = jobs
  BY DEF NewMemory
<1> HIDE DEF q
<1>3. s.rows \in Seq(Memory)
  BY SessionTyped
<1>4. /\ Aside(s, u) /\ u.links = s.links /\ u.moved = s.moved /\ u.pending = {}
      /\ u.raised = s.raised /\ u.rows = Append(s.rows, q)
  BY <1>1, AppendFields
<1>5. /\ Len(u.rows) = i /\ i \in DOMAIN u.rows /\ u.rows[i] = q
      /\ \A j \in DOMAIN s.rows : j \in DOMAIN u.rows /\ u.rows[j] = s.rows[j]
      /\ i \notin DOMAIN s.rows
  <2> DEFINE rows == u.rows
  <2> HIDE DEF u, rows
  <2>1. rows = Append(s.rows, q)
    BY <1>4 DEF rows
  <2>2. Len(s.rows) \in Nat /\ DOMAIN s.rows = 1 .. Len(s.rows)
    BY <1>3
  <2>3. /\ rows \in Seq(Memory) /\ Len(rows) = i /\ rows[i] = q
        /\ \A j \in DOMAIN s.rows : rows[j] = s.rows[j]
    BY <1>1, <1>3, <2>1, SeqAppend
  <2>4. DOMAIN rows = 1 .. i
    BY <2>3
  <2>5. QED BY <2>2, <2>3, <2>4 DEF rows
<1> HIDE DEF u, i
<1>6. Embed([u EXCEPT !.rows[n].evidence = 1], n) = v
  BY <1>5
<1> HIDE DEF n
<1>7. u \in Session /\ i \in DOMAIN u.rows
  BY <1>4, <1>5 DEF Aside
<1>8. /\ Aside(u, w) /\ w.links = u.links /\ w.moved = u.moved /\ w.pending = u.pending
      /\ Len(w.rows) = Len(u.rows) /\ DOMAIN w.rows = DOMAIN u.rows
      /\ w.rows[i].evidence = 1
      /\ \A j \in DOMAIN u.rows :
            /\ SameRow(w.rows[j], u.rows[j]) /\ w.rows[j].state = u.rows[j].state
            /\ w.rows[j].touched = u.rows[j].touched
            /\ j # i => w.rows[j].evidence = u.rows[j].evidence
  BY <1>7, EvidenceFields
<1> HIDE DEF w
<1>9. w \in Session /\ i \in DOMAIN w.rows
  BY <1>5, <1>8 DEF Aside
<1>10. /\ Aside(w, v) /\ v.links = w.links /\ v.moved = w.moved /\ v.pending = w.pending
       /\ Len(v.rows) = Len(w.rows) /\ DOMAIN v.rows = DOMAIN w.rows
       /\ \A j \in DOMAIN w.rows :
             /\ SameRow(v.rows[j], w.rows[j]) /\ v.rows[j].state = w.rows[j].state
             /\ v.rows[j].evidence = w.rows[j].evidence
             /\ v.rows[j].touched = w.rows[j].touched
  BY <1>9, EmbedFields
<1> HIDE DEF v
<1>11. Added(s, v, q)
  BY <1>2, <1>4, <1>5, <1>8, <1>10 DEF Added, Aside, Kept, SameRow, i
<1> QED BY <1>6, <1>11 DEF q, u, n

(* A relation is counted once more, or added.                              *)
LEMMA LinkFields ==
    ASSUME MemoryAssumptions, relations \in Seq(Relation),
           NEW s \in Session, s.decision \in Decisions, LinksFit(s),
           NEW c \in Candidate, c.type \in Types
    PROVE  LET t == Link(s, c)
           IN  /\ Aside(s, t) /\ t.rows = s.rows /\ t.moved = s.moved
               /\ t.pending \in {s.pending, {}} /\ LinksFit(t)
<1>1. s.links \in Seq(Relation) /\ s.decision.user \in Users /\ LinkType(s, c) \in RelationType
  BY SessionTyped DEF MemoryAssumptions, Decision, LinkType, RelationType
<1> DEFINE same == {i \in VisibleLinks(s) : /\ s.links[i].user = s.decision.user
                                            /\ s.links[i].type = LinkType(s, c)
                                            /\ s.links[i].object = EntityOf(c)}
<1>2. CASE same # {}
  <2> DEFINE i == CHOOSE j \in same : TRUE
             r == Observed(s.links[i])
             q == [s.links EXCEPT ![i] = r]
             t == [s EXCEPT !.links = q]
  <2>1. i \in same
    BY <1>2
  <2>2. Link(s, c) = t
    BY <1>2 DEF Link
  <2> HIDE DEF i
  <2>3. i \in DOMAIN s.links /\ s.links[i] \in Relation
    BY <1>1, <2>1 DEF VisibleLinks
  <2>4. /\ r \in Relation /\ r.user = s.links[i].user /\ r.type = s.links[i].type
        /\ r.object = s.links[i].object /\ r.state = s.links[i].state
        /\ s.links[i].count = s.links[i].evidence => r.count = r.evidence
    <3> DEFINE l == s.links[i]
               m == l.count + 1
               n == l.evidence + 1
    <3>1. m \in Nat /\ n \in Nat /\ (l.count = l.evidence => m = n)
      BY <2>3 DEF Relation
    <3>2. r = [l EXCEPT !.count = m, !.evidence = n]
      BY DEF Observed
    <3> HIDE DEF m, n, r
    <3>3. QED BY <2>3, <3>1, <3>2 DEF Relation
  <2> HIDE DEF r
  <2>5. /\ q \in Seq(Relation) /\ DOMAIN q = DOMAIN s.links
        /\ \A j \in DOMAIN s.links : q[j] = IF j = i THEN r ELSE s.links[j]
    BY <1>1, <2>3, <2>4, SeqUpdate
  <2> HIDE DEF q
  <2>6. /\ Aside(s, t) /\ t.rows = s.rows /\ t.moved = s.moved /\ t.pending = s.pending
        /\ t.links = q
    BY <2>5 DEF Session, Aside
  <2> HIDE DEF t
  <2>7. VisibleLinks(t) = VisibleLinks(s)
    BY <2>5, <2>6 DEF VisibleLinks
  <2>8. \A j \in DOMAIN s.links :
           /\ q[j].user = s.links[j].user /\ q[j].type = s.links[j].type
           /\ q[j].object = s.links[j].object /\ q[j].state = s.links[j].state
           /\ s.links[j].count = s.links[j].evidence => q[j].count = q[j].evidence
    BY <2>4, <2>5
  <2>9. VisibleLinks(s) \subseteq DOMAIN s.links
    BY DEF VisibleLinks
  <2>10. LinksFit(t)
    BY <2>5, <2>6, <2>7, <2>8, <2>9 DEF LinksFit
  <2> QED BY <2>2, <2>6, <2>10
<1>3. CASE same = {}
  <2> DEFINE r == NewLink(s, c)
             q == Append(s.links, r)
             t == [s EXCEPT !.links = q, !.pending = {}]
             n == Len(s.links) + 1
  <2>1. Link(s, c) = t
    BY <1>3 DEF Link, Flush
  <2>2. /\ r \in Relation /\ r.user = s.decision.user /\ r.type = LinkType(s, c) /\ r.object = EntityOf(c)
        /\ r.state = "active" /\ r.count = r.evidence
    BY <1>1 DEF NewLink, Relation, Candidate, Entity, EntityOf
  <2> HIDE DEF r
  <2>3. /\ q \in Seq(Relation) /\ q[n] = r
        /\ \A j \in DOMAIN s.links : q[j] = s.links[j]
        /\ DOMAIN q = DOMAIN s.links \cup {n} /\ n \notin DOMAIN s.links
    <3>1. /\ q \in Seq(Relation) /\ Len(q) = n /\ q[n] = r
          /\ \A j \in DOMAIN s.links : q[j] = s.links[j]
      BY <1>1, <2>2, SeqAppend
    <3> HIDE DEF q
    <3>2. DOMAIN s.links = 1 .. Len(s.links) /\ Len(s.links) \in Nat
      BY <1>1
    <3>3. DOMAIN q = 1 .. n
      BY <3>1
    <3> QED BY <3>1, <3>2, <3>3
  <2> HIDE DEF q, n
  <2>4. /\ Aside(s, t) /\ t.rows = s.rows /\ t.moved = s.moved /\ t.pending = {}
        /\ t.links = q
    BY <2>3 DEF Session, Aside
  <2> HIDE DEF t
  <2>5. VisibleLinks(t) = VisibleLinks(s) \cup {n}
    BY <2>3, <2>4 DEF VisibleLinks, LinksFit
  <2>6. VisibleLinks(s) \subseteq DOMAIN s.links
    BY DEF VisibleLinks
  <2>7. ASSUME NEW j \in VisibleLinks(s)
        PROVE  ~(s.links[j].user = r.user /\ s.links[j].type = r.type /\ s.links[j].object = r.object)
    BY <1>3, <2>2
  <2>8. ASSUME NEW i \in DOMAIN q
        PROVE  /\ q[i].count = q[i].evidence
               /\ i \notin DOMAIN relations => q[i].state = "active"
               /\ i \in DOMAIN relations => /\ q[i].user = relations[i].user
                                            /\ q[i].type = relations[i].type
                                            /\ q[i].object = relations[i].object
    <3>1. CASE i = n
      BY <2>2, <2>3, <3>1 DEF LinksFit
    <3>2. CASE i \in DOMAIN s.links
      BY <2>3, <3>2 DEF LinksFit
    <3>3. QED BY <2>3, <3>1, <3>2
  <2>9. ASSUME NEW i \in VisibleLinks(t), NEW j \in VisibleLinks(t),
               q[i].user = q[j].user, q[i].type = q[j].type, q[i].object = q[j].object
        PROVE  i = j
    <3>1. CASE i \in VisibleLinks(s) /\ j \in VisibleLinks(s)
      BY <2>3, <2>6, <2>9, <3>1 DEF LinksFit
    <3>2. CASE i = n /\ j \in VisibleLinks(s)
      BY <2>3, <2>6, <2>7, <2>9, <3>2
    <3>3. CASE j = n /\ i \in VisibleLinks(s)
      BY <2>3, <2>6, <2>7, <2>9, <3>3
    <3>4. QED BY <2>5, <3>1, <3>2, <3>3
  <2>10. DOMAIN relations \subseteq DOMAIN q
    BY <2>3 DEF LinksFit
  <2>11. LinksFit(t)
    BY <2>4, <2>8, <2>9, <2>10 DEF LinksFit
  <2> QED BY <2>1, <2>4, <2>11
<1> QED BY <1>2, <1>3
-----------------------------------------------------------------------------
(* Sessions with the same rows, some of them flushed                       *)

LEMMA SameViews ==
    ASSUME NEW s, Fits(s), NEW t \in Session, t.rows = s.rows, t.moved = s.moved,
           t.pending \in {s.pending, {}},
           t.decision \in Decisions \/ (t.todo = <<>> /\ t.intended)
    PROVE  /\ Fits(t) /\ Alive(t) = Alive(s) /\ Visible(t) \subseteq Visible(s)
           /\ \A i : Outcome(t, i) = Outcome(s, i)
<1>1. Fits(t)
  BY DEF Fits
<1>2. \A i : Outcome(t, i) = Outcome(s, i)
  BY DEF Outcome
<1>3. Alive(t) = Alive(s)
  BY <1>2 DEF Alive
<1>4. Visible(t) \subseteq Visible(s)
  BY <1>1, <1>3, VisibleRows
<1> QED BY <1>1, <1>2, <1>3, <1>4

LEMMA SameSound ==
    ASSUME NEW s, Sound(s), NEW t \in Session, t.rows = s.rows, t.moved = s.moved,
           t.pending \in {s.pending, {}}, t.links = s.links, s.raised => t.raised,
           t.decision \in Decisions \/ (t.todo = <<>> /\ t.intended)
    PROVE  Sound(t)
<1>1. /\ Fits(t) /\ Visible(t) \subseteq Visible(s)
      /\ \A i : Outcome(t, i) = Outcome(s, i)
  BY SameViews DEF Sound
<1>2. UniqueIn(t.rows, Visible(t))
  BY <1>1 DEF Sound, UniqueIn
<1>3. Heirs(t)
  BY <1>1 DEF Sound, Heirs
<1>4. PendingHeirless(t)
  BY DEF Sound, PendingHeirless
<1>5. Traced(t)
  BY DEF Sound, Traced
<1>6. VisibleLinks(t) = VisibleLinks(s)
  BY DEF VisibleLinks
<1>7. LinksFit(t)
  BY <1>6 DEF Sound, LinksFit
<1> QED BY <1>1, <1>2, <1>3, <1>4, <1>5, <1>7 DEF Sound

LEMMA ObjectFields ==
    ASSUME NEW s \in Session, NEW c \in Candidate, c.type \in Types
    PROVE  LET t == WithObject(s, c)
           IN  /\ Aside(s, t) /\ t.rows = s.rows /\ t.moved = s.moved
               /\ t.pending \in {s.pending, {}} /\ t.links = s.links /\ t.raised = s.raised
<1> DEFINE o == s.objects \cup {EntityOf(c)}
           u == [s EXCEPT !.pending = {}, !.objects = o]
<1>1. o \in SUBSET Entity
  BY SessionTyped DEF Candidate, Entity, EntityOf
<1>2. WithObject(s, c) \in {s, u}
  BY DEF WithObject, Flush
<1> HIDE DEF o
<1>3. /\ Aside(s, u) /\ u.rows = s.rows /\ u.moved = s.moved /\ u.pending = {}
      /\ u.links = s.links /\ u.raised = s.raised
  BY <1>1 DEF Session, Aside
<1> HIDE DEF u
<1> QED BY <1>2, <1>3 DEF Aside

(* A round that starts with such a session is a round from the original.   *)
LEMMA StepFrom ==
    ASSUME NEW s, Fits(s), NEW u, Aside(s, u), u.rows = s.rows, u.moved = s.moved,
           u.pending \in {s.pending, {}},
           NEW t, NEW d, NEW grown \in BOOLEAN, Step(u, t, d, grown)
    PROVE  Step(s, t, d, grown)
<1>1. Alive(u) = Alive(s) /\ Visible(u) \subseteq Visible(s)
  BY SameViews DEF Fits, Aside
<1> QED BY <1>1 DEF Step, Aside
-----------------------------------------------------------------------------
(* The kinds of rounds                                                     *)

LEMMA QuietStep ==
    ASSUME memories \in Seq(Memory), NEW s, Fits(s), NEW t, Aside(s, t), t.rows = s.rows,
           t.moved = s.moved, t.pending \in {s.pending, {}}
    PROVE  Step(s, t, 0, FALSE)
<1>1. \A j \in DOMAIN s.rows : s.rows[j].touched <= jobs
  BY DEF Fits
<1> QED BY <1>1 DEF Step, Aside, SameRow

LEMMA RefreshStep ==
    ASSUME MemoryAssumptions, memories \in Seq(Memory), jobs \in Nat,
           NEW s, Fits(s), s.decision \in Decisions, NEW i \in DOMAIN s.rows
    PROVE  Step(s, Refresh(s, i), 0, FALSE)
<1> DEFINE t == Refresh(s, i)
<1>1. s \in Session /\ \A j \in DOMAIN s.rows : s.rows[j].touched <= jobs
  BY DEF Fits
<1>2. /\ Aside(s, t) /\ t.links = s.links /\ t.moved = s.moved /\ t.pending = s.pending
      /\ Len(t.rows) = Len(s.rows) /\ DOMAIN t.rows = DOMAIN s.rows
      /\ \A j \in DOMAIN s.rows :
            /\ SameRow(t.rows[j], s.rows[j]) /\ t.rows[j].state = s.rows[j].state
            /\ t.rows[j].evidence = 0 => s.rows[j].evidence = 0
            /\ t.rows[j].touched \in {s.rows[j].touched, jobs}
  BY <1>1, RefreshFields
<1> HIDE DEF t
<1>3. Step(s, t, 0, FALSE)
  BY <1>1, <1>2 DEF Step, Aside
<1> QED BY <1>3 DEF t

(* A displaced row, before anything is put in its place.                   *)
Displaced(s, u, d) ==
    /\ Aside(s, u) /\ u.links = s.links /\ u.raised = s.raised
    /\ d \in {0} \cup Visible(s)
    /\ u.moved = s.moved \cup ({d} \ {0}) /\ u.pending \subseteq s.pending \cup ({d} \ {0})
    /\ Len(u.rows) = Len(s.rows) /\ DOMAIN u.rows = DOMAIN s.rows
    /\ d # 0 => u.rows[d].state \in {"superseded", "conflicted"}
    /\ \A j \in DOMAIN s.rows :
          /\ SameRow(u.rows[j], s.rows[j])
          /\ u.rows[j].evidence = s.rows[j].evidence
          /\ u.rows[j].touched <= jobs
          /\ j # d => u.rows[j].state = s.rows[j].state

LEMMA DisplaceDisplaces ==
    ASSUME jobs \in Nat, NEW s, Fits(s), NEW d \in Visible(s),
           NEW state \in {"superseded", "conflicted"}
    PROVE  Displaced(s, Displace(s, d, state), d)
<1> DEFINE u == Displace(s, d, state)
<1>1. s \in Session /\ \A j \in DOMAIN s.rows : s.rows[j].touched <= jobs
  BY DEF Fits
<1>2. d \in DOMAIN s.rows /\ d # 0
  <2>1. d \in DOMAIN s.rows /\ s.rows \in Seq(Memory)
    BY <1>1, SessionTyped DEF Visible
  <2>2. QED BY <2>1
<1>3. /\ Aside(s, u) /\ u.links = s.links /\ u.raised = s.raised
      /\ u.moved = s.moved \cup {d} /\ u.pending = s.pending \cup {d}
      /\ Len(u.rows) = Len(s.rows) /\ DOMAIN u.rows = DOMAIN s.rows
      /\ u.rows[d].state = state
      /\ \A j \in DOMAIN s.rows :
            /\ SameRow(u.rows[j], s.rows[j])
            /\ u.rows[j].evidence = s.rows[j].evidence
            /\ u.rows[j].touched \in {s.rows[j].touched, jobs}
            /\ j # d => u.rows[j].state = s.rows[j].state
  <2>1. state \in MemoryState
    BY DEF MemoryState
  <2>2. QED BY <1>1, <1>2, <2>1, DisplaceFields
<1> HIDE DEF u
<1>4. Displaced(s, u, d)
  BY <1>1, <1>2, <1>3 DEF Displaced
<1> QED BY <1>4 DEF u

LEMMA NotDisplaced ==
    ASSUME NEW s, Fits(s)
    PROVE  Displaced(s, s, 0)
BY DEF Displaced, Aside, Fits, SameRow

LEMMA ConflictStep ==
    ASSUME jobs \in Nat, NEW s, Fits(s), NEW d \in Visible(s)
    PROVE  Step(s, Displace(s, d, "conflicted"), d, FALSE)
<1> DEFINE t == Displace(s, d, "conflicted")
<1>1. Displaced(s, t, d)
  BY DisplaceDisplaces
<1>2. d # 0 => t.rows[d].state = "conflicted"
  <2>1. d \in DOMAIN s.rows /\ s \in Session /\ "conflicted" \in MemoryState
    BY DEF Visible, Fits, MemoryState
  <2>2. QED BY <2>1, DisplaceFields
<1> HIDE DEF t
<1>3. Step(s, t, d, FALSE)
  BY <1>1, <1>2 DEF Step, Displaced, Aside
<1> QED BY <1>3 DEF t

LEMMA AddStep ==
    ASSUME NEW s, Fits(s), NEW d, NEW u, Displaced(s, u, d), NEW q, NEW t, Added(u, t, q),
           q.supersedes = d, q.job = jobs, jobs \in Nat,
           d # 0 => q.user = s.rows[d].user /\ q.type = s.rows[d].type,
           \A j \in Alive(s) : Rivals(s.rows[j], q) => j = d
    PROVE  Step(s, t, d, TRUE)
<1> DEFINE n == Len(s.rows) + 1
           r == t.rows[n]
<1>1. Len(t.rows) = n /\ SameRow(r, q) /\ r.state = "active" /\ r.touched = jobs
      /\ (r.evidence = 0 => t.raised)
  BY DEF Added, Displaced
<1> HIDE DEF n, r
<1>2. /\ t \in Session /\ t.decision = s.decision /\ t.todo = s.todo /\ t.intended = s.intended
      /\ d \in {0} \cup Visible(s) /\ t.moved = s.moved \cup ({d} \ {0}) /\ t.pending = {}
  BY DEF Added, Displaced, Aside
<1>3. ASSUME NEW j \in DOMAIN s.rows
      PROVE  /\ SameRow(t.rows[j], s.rows[j])
             /\ t.rows[j].touched <= jobs
             /\ t.rows[j].evidence = 0 => s.rows[j].evidence = 0
             /\ j # d => t.rows[j].state = s.rows[j].state
             /\ t.rows[j].state = u.rows[j].state
  BY DEF Added, Displaced, Kept, SameRow
<1>4. d # 0 => t.rows[d].state \in {"superseded", "conflicted"}
  BY <1>3 DEF Displaced, Visible
<1>5. \A j \in Alive(s) : Rivals(s.rows[j], r) => j = d
  BY <1>1 DEF Rivals, SameRow
<1>6. /\ r.supersedes = d /\ r.job = jobs
      /\ d # 0 => r.user = s.rows[d].user /\ r.type = s.rows[d].type
  BY <1>1 DEF SameRow
<1> QED BY <1>1, <1>2, <1>3, <1>4, <1>5, <1>6 DEF Step, n, r

LEMMA LinkStep ==
    ASSUME MemoryAssumptions, relations \in Seq(Relation), jobs \in Nat,
           NEW s, Fits(s), LinksFit(s), s.decision \in Decisions,
           NEW d, NEW u, Displaced(s, u, d),
           NEW c \in Candidate, c.type \in Types, IsRelation(c.type),
           d # 0 => c.type = s.rows[d].type
    PROVE  Step(s, Link(u, c), d, FALSE) /\ LinksFit(Link(u, c))
<1> DEFINE t == Link(u, c)
<1>1. u \in Session /\ u.decision \in Decisions
  BY DEF Displaced, Aside
<1>2. LinksFit(u)
  <2>1. u.links = s.links /\ VisibleLinks(u) = VisibleLinks(s)
    BY DEF Displaced, VisibleLinks
  <2>2. QED BY <2>1 DEF LinksFit
<1>3. /\ Aside(u, t) /\ t.rows = u.rows /\ t.moved = u.moved
      /\ t.pending \in {u.pending, {}} /\ LinksFit(t)
  BY <1>1, <1>2, LinkFields
<1> HIDE DEF t
<1>4. \A j \in DOMAIN s.rows : SameRow(t.rows[j], s.rows[j])
  BY <1>3 DEF Displaced
<1>5. Step(s, t, d, FALSE)
  BY <1>3, <1>4 DEF Step, Displaced, Aside
<1> QED BY <1>3, <1>5 DEF t
-----------------------------------------------------------------------------
(* A round of the loop over the candidates, and the intent                 *)

Round(s, t) == (\E d : \E grown \in BOOLEAN : Step(s, t, d, grown)) /\ LinksFit(t)

Matches(s, i, type) == s.rows[i].user = s.decision.user /\ s.rows[i].type = type

LEMMA SameMemoryRow ==
    ASSUME NEW s, Fits(s), jobs \in Nat, NEW type, NEW key
    PROVE  LET same == SameMemory(s, type, key)
           IN  /\ same = 0 => \A i \in Visible(s) : ~(Matches(s, i, type) /\ s.rows[i].key = key)
               /\ same # 0 => same \in Visible(s) /\ Matches(s, same, type) /\ s.rows[same].key = key
<1> DEFINE S == {i \in Visible(s) : /\ s.rows[i].user = s.decision.user
                                    /\ s.rows[i].type = type
                                    /\ s.rows[i].key = key}
<1>1. S \subseteq DOMAIN s.rows
  BY DEF Visible
<1>2. 0 \notin S
  <2>1. s.rows \in Seq(Memory)
    BY SessionTyped DEF Fits
  <2>2. 0 \notin DOMAIN s.rows
    BY <2>1
  <2>3. QED BY <1>1, <2>2
<1>3. SameMemory(s, type, key) = LastUpdated(s, S)
  BY DEF SameMemory
<1>4. \A i : i \in S <=> i \in Visible(s) /\ Matches(s, i, type) /\ s.rows[i].key = key
  BY DEF Matches
<1> HIDE DEF S
<1>5. IF S = {} THEN LastUpdated(s, S) = 0 ELSE LastUpdated(s, S) \in S
  BY <1>1, LastUpdatedRow
<1> QED BY <1>2, <1>3, <1>4, <1>5

LEMMA ActiveMemoryRow ==
    ASSUME NEW s, Fits(s), jobs \in Nat, NEW type
    PROVE  LET active == ActiveMemory(s, type)
           IN  /\ active = 0 => \A i \in Visible(s) : ~Matches(s, i, type)
               /\ active # 0 => active \in Visible(s) /\ Matches(s, active, type)
<1> DEFINE S == {i \in Visible(s) : /\ s.rows[i].user = s.decision.user
                                    /\ s.rows[i].type = type}
<1>1. S \subseteq DOMAIN s.rows
  BY DEF Visible
<1>2. 0 \notin S
  <2>1. s.rows \in Seq(Memory)
    BY SessionTyped DEF Fits
  <2>2. 0 \notin DOMAIN s.rows
    BY <2>1
  <2>3. QED BY <1>1, <2>2
<1>3. ActiveMemory(s, type) = LastUpdated(s, S)
  BY DEF ActiveMemory
<1>4. \A i : i \in S <=> i \in Visible(s) /\ Matches(s, i, type)
  BY DEF Matches
<1> HIDE DEF S
<1>5. IF S = {} THEN LastUpdated(s, S) = 0 ELSE LastUpdated(s, S) \in S
  BY <1>1, LastUpdatedRow
<1> QED BY <1>2, <1>3, <1>4, <1>5

(* The new value has no rival but the one it displaces.                    *)
LEMMA FreePlace ==
    ASSUME NEW s, Fits(s), UniqueIn(s.rows, Visible(s)), jobs \in Nat,
           NEW type, NEW key, NEW q,
           q.user = s.decision.user, q.type = type, q.key = key,
           Keyed(type) => SameMemory(s, type, key) = 0,
           NEW d, d \in {0, ActiveMemory(s, type)}, Lone(type) => d = ActiveMemory(s, type)
    PROVE  \A j \in Alive(s) : Rivals(s.rows[j], q) => j = d
<1> SUFFICES ASSUME NEW j \in Alive(s), Rivals(s.rows[j], q)
             PROVE  j = d
  OBVIOUS
<1>1. j \in Visible(s)
  BY VisibleRows, AliveRows
<1>2. Matches(s, j, type) /\ (Lone(type) \/ (Keyed(type) /\ s.rows[j].key = key))
  BY DEF Rivals, Matches
<1>3. ~(Keyed(type) /\ s.rows[j].key = key)
  BY <1>1, <1>2, SameMemoryRow
<1>4. Lone(type)
  BY <1>2, <1>3
<1>5. d \in Visible(s) /\ Matches(s, d, type)
  BY <1>1, <1>2, <1>4, ActiveMemoryRow
<1>6. Rivals(s.rows[j], s.rows[d])
  BY <1>2, <1>4, <1>5 DEF Rivals, Matches
<1> QED BY <1>1, <1>5, <1>6 DEF UniqueIn

LEMMA StoreRound ==
    ASSUME MemoryAssumptions, relations \in Seq(Relation), jobs \in Nat,
           NEW s, Fits(s), UniqueIn(s.rows, Visible(s)), LinksFit(s), s.decision \in Decisions,
           NEW c \in Candidate, c.type \in Types,
           NEW d, NEW u, Displaced(s, u, d), d # 0 => Matches(s, d, c.type),
           Keyed(c.type) => SameMemory(s, c.type, c.key) = 0,
           d \in {0, ActiveMemory(s, c.type)}, Lone(c.type) => d = ActiveMemory(s, c.type)
    PROVE  Round(s, Store(u, c, d))
<1>1. CASE IsRelation(c.type) /\ HasObject(u, c)
  <2>1. Store(u, c, d) = Link(u, c)
    BY <1>1 DEF Store
  <2>2. d # 0 => c.type = s.rows[d].type
    BY DEF Matches
  <2>3. Step(s, Link(u, c), d, FALSE) /\ LinksFit(Link(u, c))
    BY <1>1, <2>2, LinkStep
  <2>4. QED BY <2>1, <2>3 DEF Round
<1>2. CASE ~(IsRelation(c.type) /\ HasObject(u, c))
  <2> DEFINE t == Insert(u, c, d)
             q == NewMemory(u, c.type, c.key, d)
  <2>1. u \in Session /\ u.decision = s.decision /\ u.links = s.links
    BY DEF Displaced, Aside
  <2>2. d \in Nat
    <3>1. s.rows \in Seq(Memory)
      BY SessionTyped DEF Fits
    <3>2. DOMAIN s.rows \subseteq Nat
      BY <3>1
    <3>3. QED BY <3>2 DEF Displaced, Visible
  <2>3. Added(u, t, q)
    BY <2>1, <2>2, InsertFields
  <2>4. /\ q.supersedes = d /\ q.job = jobs /\ q.user = s.decision.user
        /\ q.type = c.type /\ q.key = c.key
    BY <2>1 DEF NewMemory
  <2> HIDE DEF q
  <2>5. \A j \in Alive(s) : Rivals(s.rows[j], q) => j = d
    BY <2>4, FreePlace
  <2>6. d # 0 => q.user = s.rows[d].user /\ q.type = s.rows[d].type
    BY <2>4 DEF Matches
  <2> HIDE DEF t
  <2>7. Step(s, t, d, TRUE)
    BY <2>3, <2>4, <2>5, <2>6, AddStep
  <2>8. LinksFit(t)
    <3>1. t.links = s.links /\ VisibleLinks(t) = VisibleLinks(s)
      BY <2>1, <2>3 DEF Added, VisibleLinks
    <3>2. QED BY <3>1 DEF LinksFit
  <2>9. t = Store(u, c, d)
    BY <1>2 DEF Store, t
  <2>10. QED BY <2>7, <2>8, <2>9 DEF Round
<1> QED BY <1>1, <1>2

LEMMA SameLinksFit ==
    ASSUME NEW s, LinksFit(s), NEW t, t.links = s.links
    PROVE  LinksFit(t)
<1>1. VisibleLinks(t) = VisibleLinks(s)
  BY DEF VisibleLinks
<1> QED BY <1>1 DEF LinksFit

LEMMA ResolvedRound ==
    ASSUME MemoryAssumptions, memories \in Seq(Memory), relations \in Seq(Relation), jobs \in Nat,
           NEW s0, Sound(s0), s0.decision \in Decisions, NEW c \in Candidate
    PROVE  Round(s0, Resolved(s0, c))
<1>1. /\ Fits(s0) /\ LinksFit(s0) /\ UniqueIn(s0.rows, Visible(s0)) /\ s0 \in Session
  BY DEF Sound, Fits
<1>2. CASE c.type = Absent
  <2> DEFINE t == [s0 EXCEPT !.raised = TRUE]
  <2>1. Resolved(s0, c) = t
    BY <1>2 DEF Resolved
  <2>2. /\ Aside(s0, t) /\ t.rows = s0.rows /\ t.moved = s0.moved /\ t.pending = s0.pending
        /\ t.links = s0.links
    BY <1>1 DEF Session, Aside
  <2> HIDE DEF t
  <2>3. Step(s0, t, 0, FALSE) /\ LinksFit(t)
    BY <1>1, <2>2, QuietStep, SameLinksFit
  <2>4. QED BY <2>1, <2>3 DEF Round
<1>3. CASE c.type # Absent
  <2>1. c.type \in Types
    BY <1>3 DEF Candidate
  <2> DEFINE s == WithObject(s0, c)
             type == c.type
             cardinality == Ontology[c.type].cardinality
             same == SameMemory(s, c.type, c.key)
             active == ActiveMemory(s, c.type)
             t == Resolved(s0, c)
  <2>2. /\ Aside(s0, s) /\ s.rows = s0.rows /\ s.moved = s0.moved
        /\ s.pending \in {s0.pending, {}} /\ s.links = s0.links
    BY <1>1, <2>1, ObjectFields
  <2>3. t = CASE cardinality \in {"ONE_ACTIVE", "MANY_SCORED"} /\ same # 0 -> Refresh(s, same)
              [] cardinality = "ONE_ACTIVE" /\ same = 0 /\ active # 0 ->
                    IF Wins(s, c, active)
                    THEN Store(Displace(s, active, "superseded"), c, active)
                    ELSE IF Score[s.decision.source] = s.rows[active].score
                         THEN Displace(s, active, "conflicted")
                         ELSE s
              [] OTHER -> Store(s, c, 0)
    BY <1>3 DEF Resolved
  <2> HIDE DEF s, t
  <2>4. /\ Fits(s) /\ Visible(s) \subseteq Visible(s0) /\ s.decision \in Decisions
    BY <1>1, <2>2, SameViews DEF Aside
  <2>5. UniqueIn(s.rows, Visible(s)) /\ LinksFit(s)
    BY <1>1, <2>2, <2>4, SameLinksFit DEF UniqueIn
  <2>6. ASSUME NEW v, Round(s, v) PROVE Round(s0, v)
    BY <1>1, <2>2, <2>6, StepFrom DEF Round
  <2>7. /\ same # 0 => same \in Visible(s)
        /\ active # 0 => active \in Visible(s) /\ Matches(s, active, type)
    BY <2>4, SameMemoryRow, ActiveMemoryRow
  <2>8. /\ Keyed(type) <=> cardinality \in {"ONE_ACTIVE", "MANY_SCORED"}
        /\ Lone(type) => cardinality = "ONE_ACTIVE"
    BY <2>1 DEF Keyed, Lone, OfCardinality
  <2> HIDE DEF same, active, cardinality
  <2>9. CASE cardinality \in {"ONE_ACTIVE", "MANY_SCORED"} /\ same # 0
    <3>1. t = Refresh(s, same)
      BY <2>3, <2>9
    <3>2. same \in DOMAIN s.rows
      BY <2>7, <2>9 DEF Visible
    <3>3. Step(s, t, 0, FALSE)
      BY <2>4, <3>1, <3>2, RefreshStep
    <3>4. t.links = s.links
      BY <2>4, <3>1, <3>2, RefreshFields DEF Fits
    <3>5. Round(s, t)
      BY <2>5, <3>3, <3>4, SameLinksFit DEF Round
    <3>6. QED BY <2>6, <3>5 DEF t
  <2>10. CASE cardinality = "ONE_ACTIVE" /\ same = 0 /\ active # 0
    <3>1. t = IF Wins(s, c, active)
              THEN Store(Displace(s, active, "superseded"), c, active)
              ELSE IF Score[s.decision.source] = s.rows[active].score
                   THEN Displace(s, active, "conflicted")
                   ELSE s
      BY <2>3, <2>10
    <3>2. CASE t = Store(Displace(s, active, "superseded"), c, active)
      <4> DEFINE u == Displace(s, active, "superseded")
      <4>1. Displaced(s, u, active)
        BY <2>4, <2>7, <2>10, DisplaceDisplaces
      <4> HIDE DEF u
      <4>2. Round(s, Store(u, c, active))
        BY <2>1, <2>4, <2>5, <2>7, <2>10, <4>1, StoreRound DEF same, active
      <4>3. QED BY <2>6, <3>2, <4>2 DEF t, u
    <3>3. CASE t = Displace(s, active, "conflicted")
      <4>1. Step(s, t, active, FALSE)
        BY <2>4, <2>7, <2>10, <3>3, ConflictStep
      <4>2. t.links = s.links
        <5>1. Displaced(s, t, active)
          BY <2>4, <2>7, <2>10, <3>3, DisplaceDisplaces
        <5>2. QED BY <5>1 DEF Displaced
      <4>3. Round(s, t)
        BY <2>5, <4>1, <4>2, SameLinksFit DEF Round
      <4>4. QED BY <2>6, <4>3 DEF t
    <3>4. CASE t = s
      <4>1. Round(s, t)
        BY <2>4, <2>5, <3>4, QuietStep DEF Round, Fits, Aside
      <4>2. QED BY <2>6, <4>1 DEF t
    <3>5. QED BY <3>1, <3>2, <3>3, <3>4
  <2>11. CASE /\ ~(cardinality \in {"ONE_ACTIVE", "MANY_SCORED"} /\ same # 0)
              /\ ~(cardinality = "ONE_ACTIVE" /\ same = 0 /\ active # 0)
    <3>1. t = Store(s, c, 0)
      BY <2>3, <2>11
    <3>2. Displaced(s, s, 0)
      BY <2>4, NotDisplaced
    <3>3. /\ Keyed(type) => same = 0
          /\ Lone(type) => active = 0
      BY <2>8, <2>11
    <3>4. Round(s, Store(s, c, 0))
      BY <2>1, <2>4, <2>5, <3>2, <3>3, StoreRound DEF same, active
    <3>5. QED BY <2>6, <3>1, <3>4 DEF t
  <2>12. QED BY <2>9, <2>10, <2>11
<1> QED BY <1>2, <1>3

LEMMA IntentRound ==
    ASSUME MemoryAssumptions, memories \in Seq(Memory), relations \in Seq(Relation), jobs \in Nat,
           NEW s, Sound(s), s.decision \in Decisions
    PROVE  Round(s, WithIntent(s))
<1>1. /\ Fits(s) /\ LinksFit(s) /\ UniqueIn(s.rows, Visible(s)) /\ s \in Session
      /\ s.decision \in Decisions
  BY DEF Sound, Fits
<1> DEFINE d == s.decision
           same == SameMemory(s, d.intent, d.workflow)
           q == NewMemory(s, d.intent, d.workflow, 0)
           added == Flush([s EXCEPT !.rows = Append(@, q)])
           i == Len(added.rows)
           t == Embed([added EXCEPT !.rows[i].evidence = 1], i)
           none == \/ d.workflow = Absent \/ d.intent = Absent \/ d.candidates = <<>>
                   \/ Ontology[d.intent].cardinality # "ONE_ACTIVE"
<1>2. WithIntent(s) = IF none THEN s ELSE IF same # 0 THEN Refresh(s, same) ELSE t
  BY DEF WithIntent
<1>3. CASE none
  <2>1. WithIntent(s) = s
    BY <1>2, <1>3
  <2>2. Step(s, s, 0, FALSE)
    BY <1>1, QuietStep DEF Aside
  <2>3. QED BY <1>1, <2>1, <2>2 DEF Round
<1>4. CASE ~none
  <2>1. d.intent \in Types /\ d.workflow \in Keys /\ d.intent \in Intents
    BY <1>1, <1>4 DEF Decision, MemoryAssumptions, Intents
  <2>2. CASE same # 0
    <3>1. WithIntent(s) = Refresh(s, same)
      BY <1>2, <1>4, <2>2
    <3>2. same \in DOMAIN s.rows
      BY <1>1, <2>2, SameMemoryRow DEF Visible
    <3> HIDE DEF same
    <3>3. Step(s, Refresh(s, same), 0, FALSE)
      BY <1>1, <3>2, RefreshStep
    <3>4. Refresh(s, same).links = s.links
      BY <1>1, <3>2, RefreshFields
    <3>5. LinksFit(Refresh(s, same))
      BY <1>1, <3>4, SameLinksFit
    <3>6. QED BY <3>1, <3>3, <3>5 DEF Round
  <2>3. CASE same = 0
    <3>1. WithIntent(s) = t
      BY <1>2, <1>4, <2>3
    <3>2. Added(s, t, q)
      BY <1>1, <2>1, IntentFields
    <3>3. /\ q.supersedes = 0 /\ q.job = jobs /\ q.user = s.decision.user
          /\ q.type = d.intent /\ q.key = d.workflow
      BY DEF NewMemory
    <3> HIDE DEF q, t
    <3>4. ~Lone(d.intent)
      BY <2>1 DEF Lone
    <3>5. \A j \in Alive(s) : Rivals(s.rows[j], q) => j = 0
      BY <1>1, <2>3, <3>3, <3>4, FreePlace
    <3>6. Displaced(s, s, 0)
      BY <1>1, NotDisplaced
    <3>7. Step(s, t, 0, TRUE)
      BY <1>1, <3>2, <3>3, <3>5, <3>6, AddStep
    <3>8. LinksFit(t)
      BY <1>1, <3>2, SameLinksFit DEF Added
    <3>9. QED BY <3>1, <3>7, <3>8 DEF Round
  <2>4. QED BY <2>2, <2>3
<1> QED BY <1>3, <1>4

LEMMA RoundSound ==
    ASSUME memories \in Seq(Memory), jobs \in Nat,
           NEW s, Sound(s), ~s.raised, NEW t, Round(s, t)
    PROVE  Sound(t) /\ t.decision = s.decision /\ t.todo = s.todo /\ t.intended = s.intended
<1>1. PICK d : \E grown \in BOOLEAN : Step(s, t, d, grown)
  BY DEF Round
<1>2. PICK grown \in BOOLEAN : Step(s, t, d, grown)
  BY <1>1
<1>3. Fits(t)
  BY <1>2, StepFits DEF Sound
<1>4. UniqueIn(t.rows, Visible(t))
  BY <1>2, StepUnique DEF Sound
<1>5. Heirs(t) /\ PendingHeirless(t)
  BY <1>2, StepHeirs DEF Sound
<1>6. Traced(t)
  BY <1>2, StepTraced DEF Sound
<1> QED BY <1>2, <1>3, <1>4, <1>5, <1>6 DEF Sound, Round, Step
-----------------------------------------------------------------------------
(* The invariant over a transition                                         *)

LEMMA SoundNext ==
    ASSUME UNCHANGED <<memories, relations, jobs, unfinished>>, Sound(session')
    PROVE  Sound(session)'
<1>1. Fits(session)'
  BY DEF Sound, Fits, Session, SameRow
<1>2. (Visible(session))' = Visible(session') /\ (VisibleLinks(session))' = VisibleLinks(session')
  BY DEF Visible, DbState, VisibleLinks
<1>3. UniqueIn(session.rows, Visible(session))'
  BY <1>2 DEF Sound, UniqueIn, Rivals, Lone, Keyed
<1>4. Heirs(session)'
  BY DEF Sound, Heirs, Outcome, HeirOf
<1>5. PendingHeirless(session)' /\ Traced(session)'
  BY DEF Sound, PendingHeirless, Traced
<1>6. LinksFit(session)'
  BY <1>2 DEF Sound, LinksFit
<1> QED BY <1>1, <1>3, <1>4, <1>5, <1>6 DEF Sound

LEMMA WorkingNext ==
    ASSUME UNCHANGED <<memories, relations, jobs, unfinished>>,
           session' = NoSession \/ (jobs # 0 /\ Sound(session'))
    PROVE  Working'
<1>1. CASE session' = NoSession
  BY <1>1 DEF Working, NoSession
<1>2. CASE jobs # 0 /\ Sound(session')
  BY <1>2, SoundNext DEF Working
<1> QED BY <1>1, <1>2

LEMMA TablesNext ==
    ASSUME Tables, UNCHANGED <<memories, relations, entities, forgotten>>,
           forgetting'.memories \subseteq DOMAIN memories,
           forgetting'.relations \subseteq DOMAIN relations,
           jobs' \in jobs .. MaxJobs, unfinished \subseteq unfinished', unfinished' \subseteq 1 .. jobs'
    PROVE  Tables'
<1>1. \A i \in DOMAIN memories : memories[i].touched \in Nat /\ memories[i].touched <= jobs
  BY MemoryTyped DEF Tables
<1>2. jobs \in Nat /\ jobs' \in 0 .. MaxJobs /\ jobs <= jobs'
  BY MemoryAssumptions DEF MemoryAssumptions, Tables
<1>3. (\A i \in DOMAIN memories : memories[i].touched <= jobs)'
  BY <1>1, <1>2
<1>4. UniqueIn(memories, Active)'
  BY DEF Tables, UniqueIn, Active, Rivals, Lone, Keyed
<1>5. TableHeirs'
  BY DEF Tables, TableHeirs, HeirOf
<1>6. TraceableUnlessFailed' /\ RelationsSound' /\ ForgottenStaysGone'
  BY DEF Tables, TraceableUnlessFailed, RelationsSound, RelationsUnique, ForgottenStaysGone
<1> QED BY <1>2, <1>3, <1>4, <1>5, <1>6 DEF Tables

(* A job that begins has the committed rows, but for the state of those    *)
(* active ones that an administrative job moves.                           *)
LEMMA BeginSound ==
    ASSUME Tables, UNCHANGED <<memories, relations, entities, unfinished>>, jobs' = jobs + 1,
           session' \in Session, session'.decision \in Decisions \/ (session'.todo = <<>> /\ session'.intended),
           session'.links = relations,
           session'.pending = session'.moved, session'.moved \subseteq Active,
           DOMAIN session'.rows = DOMAIN memories,
           \A i \in DOMAIN memories :
              /\ SameRow(session'.rows[i], memories[i])
              /\ session'.rows[i].evidence = memories[i].evidence
              /\ session'.rows[i].touched <= jobs'
              /\ i \notin session'.moved => session'.rows[i].state = memories[i].state
              /\ i \in session'.moved => session'.rows[i].state \notin {"active", "superseded"}
    PROVE  Sound(session)'
<1>1. Active \subseteq DOMAIN memories
  BY DEF Active
<1>2. Fits(session)'
  BY <1>1 DEF Fits, Session, SameRow
<1>3. (Visible(session))' = Active
  BY DEF Visible, DbState, Active
<1>4. UniqueIn(session.rows, Visible(session))'
  <2> SUFFICES ASSUME NEW i \in Active, NEW j \in Active, Rivals(session'.rows[i], session'.rows[j])
               PROVE  i = j
    BY <1>3 DEF UniqueIn, Rivals, Lone, Keyed
  <2>1. Rivals(memories[i], memories[j])
    BY <1>1, RivalsOfSame
  <2>2. QED BY <2>1 DEF Tables, UniqueIn
<1>5. \A i \in DOMAIN memories :
         /\ (Outcome(session, i))' = session'.rows[i].state
         /\ i \notin Active => session'.rows[i].state = memories[i].state
         /\ i \in Active => memories[i].state = "active"
  BY DEF Outcome, Active
<1>6. Heirs(session)'
  <2>1. ASSUME NEW i \in DOMAIN memories, session'.rows[i].state = "superseded",
               ~IsRelation(session'.rows[i].type)
        PROVE  \E j \in DOMAIN memories : session'.rows[j].supersedes = i
    <3>1. memories[i].state = "superseded"
      BY <2>1
    <3>2. PICK j \in DOMAIN memories : memories[j].supersedes = i
      BY <2>1, <3>1 DEF Tables, TableHeirs, SameRow
    <3>3. QED BY <3>2 DEF SameRow
  <2>2. ASSUME NEW j \in DOMAIN memories
        PROVE  /\ session'.rows[j].supersedes < j
               /\ session'.rows[j].supersedes # 0 =>
                     /\ session'.rows[session'.rows[j].supersedes].state # "active"
                     /\ HeirOf(session'.rows, session'.rows[j].supersedes, j)
    <3> DEFINE i == session'.rows[j].supersedes
    <3>1. i = memories[j].supersedes /\ i < j
      BY DEF Tables, TableHeirs, SameRow
    <3> SUFFICES ASSUME i # 0
                 PROVE  session'.rows[i].state # "active" /\ HeirOf(session'.rows, i, j)
      BY <3>1
    <3> HIDE DEF i
    <3>2. i \in DOMAIN memories
      <4>1. memories[j] \in Memory /\ memories \in Seq(Memory)
        BY DEF Tables
      <4>2. i \in Nat
        BY <3>1, <4>1, MemoryTyped
      <4>3. QED BY <3>1, <4>1, <4>2
    <3>3. memories[i].state # "active" /\ HeirOf(memories, i, j)
      BY <3>1 DEF Tables, TableHeirs
    <3>4. session'.rows[i].state # "active"
      BY <1>5, <3>2, <3>3 DEF Active
    <3>5. HeirOf(session'.rows, i, j)
      BY <3>2, <3>3 DEF HeirOf, SameRow
    <3>6. QED BY <3>4, <3>5
  <2>3. \A j \in DOMAIN memories : session'.rows[j].supersedes # 0 =>
           session'.rows[j].supersedes \in DOMAIN memories
    <3>1. memories \in Seq(Memory) /\ \A j \in DOMAIN memories : memories[j] \in Memory
      BY DEF Tables
    <3>2. \A j \in DOMAIN memories : memories[j].supersedes \in Nat /\ memories[j].supersedes < j
      BY <3>1, MemoryTyped DEF Tables, TableHeirs
    <3>3. QED BY <3>1, <3>2 DEF SameRow
  <2>4. QED BY <1>5, <2>1, <2>2, <2>3 DEF Heirs, HeirOf
<1>7. PendingHeirless(session)'
  <2> SUFFICES ASSUME NEW i \in session'.moved, NEW j \in DOMAIN memories, session'.rows[j].supersedes = i
               PROVE  FALSE
    BY DEF PendingHeirless
  <2>1. i \in Active /\ memories[j].supersedes = i /\ i # 0
    <3>1. memories \in Seq(Memory)
      BY DEF Tables
    <3>2. 0 \notin DOMAIN memories
      BY <3>1
    <3>3. QED BY <1>1, <3>2 DEF SameRow
  <2>2. QED BY <2>1 DEF Tables, TableHeirs, Active
<1>8. Traced(session)'
  BY DEF Traced, Tables, TraceableUnlessFailed, SameRow
<1>9. (VisibleLinks(session))' = {i \in DOMAIN relations : relations[i].state = "active"}
  BY DEF VisibleLinks
<1>10. LinksFit(session)'
  BY <1>9 DEF LinksFit, Tables, RelationsSound, RelationsUnique
<1> QED BY <1>2, <1>4, <1>6, <1>7, <1>8, <1>10 DEF Sound
-----------------------------------------------------------------------------
(* The actions                                                             *)

LEMMA NotOpen ==
    ASSUME Working
    PROVE  /\ session.open => jobs # 0 /\ Sound(session) /\ session \in Session
           /\ ~session.open => session = NoSession
<1>1. CASE session = NoSession
  BY <1>1 DEF NoSession
<1>2. CASE jobs # 0 /\ Sound(session)
  <2>1. session \in Session
    BY <1>2 DEF Sound, Fits
  <2>2. session.open = TRUE
    BY <2>1 DEF Session
  <2>3. QED BY <1>2, <2>1, <2>2
<1> QED BY <1>1, <1>2 DEF Working

LEMMA BeginPersistStep ==
    ASSUME IInv, BeginPersist
    PROVE  IInv'
<1>1. PICK d \in Decisions, up \in BOOLEAN, recent \in BOOLEAN : session' = NewSession(d, up, recent)
  BY DEF BeginPersist
<1>2. d \in Decision
  BY MemoryAssumptions DEF MemoryAssumptions
<1>3. session' \in Session
  BY <1>1, <1>2 DEF NewSession, Session, Decision, IInv, Tables
<1>4. /\ session'.decision = d /\ session'.links = relations /\ session'.rows = memories
      /\ session'.moved = {} /\ session'.pending = {}
  BY <1>1 DEF NewSession
<1>6. jobs' = jobs + 1 /\ jobs \in Nat /\ jobs < MaxJobs /\ MaxJobs \in Nat
  BY MemoryAssumptions DEF BeginPersist, Idle, IInv, Tables, MemoryAssumptions
<1>7. Tables'
  BY <1>6, TablesNext DEF BeginPersist, IInv, Tables
<1>8. \A i \in DOMAIN memories : memories[i].touched \in Nat /\ memories[i].touched <= jobs
  BY MemoryTyped DEF IInv, Tables
<1>9. Sound(session)'
  BY <1>3, <1>4, <1>6, <1>8, BeginSound DEF BeginPersist, IInv, SameRow
<1> QED BY <1>6, <1>7, <1>9 DEF IInv, Working

LEMMA ResolveCandidateStep ==
    ASSUME IInv, ResolveCandidate
    PROVE  IInv'
<1> DEFINE s == [session EXCEPT !.todo = Tail(@)]
           c == Head(session.todo)
<1>1. /\ jobs # 0 /\ Sound(session) /\ session \in Session /\ session.todo # <<>> /\ ~session.raised
      /\ session.decision \in Decisions
  <2>1. jobs # 0 /\ Sound(session) /\ session \in Session /\ session.todo # <<>> /\ ~session.raised
    BY NotOpen DEF IInv, ResolveCandidate
  <2>2. QED BY <2>1 DEF Sound, Fits
<1>2. c \in Candidate /\ Tail(session.todo) \in Seq(Candidate)
  BY <1>1, SessionTyped
<1>3. /\ s \in Session /\ s.rows = session.rows /\ s.moved = session.moved
      /\ s.pending = session.pending /\ s.links = session.links /\ s.raised = session.raised
      /\ s.decision = session.decision
  BY <1>1, <1>2 DEF Session
<1>4. session' = Resolved(s, c)
  BY DEF ResolveCandidate
<1> HIDE DEF s, c
<1>5. Sound(s)
  BY <1>1, <1>3, SameSound
<1>6. memories \in Seq(Memory) /\ relations \in Seq(Relation) /\ jobs \in Nat
  BY MemoryAssumptions DEF IInv, Tables, MemoryAssumptions
<1>7. Round(s, Resolved(s, c))
  BY <1>1, <1>2, <1>3, <1>5, <1>6, MemoryAssumptions, ResolvedRound
<1>8. Sound(Resolved(s, c))
  BY <1>1, <1>3, <1>5, <1>6, <1>7, RoundSound
<1>9. Working'
  BY <1>1, <1>4, <1>8, WorkingNext DEF ResolveCandidate
<1>10. Tables'
  BY <1>6, TablesNext DEF ResolveCandidate, IInv, Tables
<1> QED BY <1>9, <1>10 DEF IInv

LEMMA PersistIntentStep ==
    ASSUME IInv, PersistIntent
    PROVE  IInv'
<1> DEFINE t == WithIntent(session)
           u == [t EXCEPT !.intended = TRUE]
<1>1. /\ jobs # 0 /\ Sound(session) /\ session \in Session /\ ~session.raised
      /\ session.decision \in Decisions
  <2>1. /\ jobs # 0 /\ Sound(session) /\ session \in Session /\ ~session.raised
        /\ ~session.intended
    BY NotOpen DEF IInv, PersistIntent
  <2>2. QED BY <2>1 DEF Sound, Fits
<1>2. memories \in Seq(Memory) /\ relations \in Seq(Relation) /\ jobs \in Nat
  BY MemoryAssumptions DEF IInv, Tables, MemoryAssumptions
<1>3. Round(session, WithIntent(session))
  BY <1>1, <1>2, MemoryAssumptions, IntentRound
<1>4. Sound(t) /\ t.decision \in Decisions
  BY <1>1, <1>2, <1>3, RoundSound
<1>5. session' = u
  BY DEF PersistIntent
<1> HIDE DEF t
<1>6. /\ u \in Session /\ u.rows = t.rows /\ u.moved = t.moved
      /\ u.pending = t.pending /\ u.links = t.links /\ u.raised = t.raised
      /\ u.decision = t.decision
  <2>1. t \in Session
    BY <1>4 DEF Sound, Fits
  <2>2. QED BY <2>1 DEF Session
<1> HIDE DEF u
<1>7. Sound(u)
  BY <1>4, <1>6, SameSound
<1>8. Working'
  BY <1>1, <1>5, <1>7, WorkingNext DEF PersistIntent
<1>9. Tables'
  BY <1>2, TablesNext DEF PersistIntent, IInv, Tables
<1> QED BY <1>8, <1>9 DEF IInv

LEMMA CrashStep ==
    ASSUME IInv, Crash
    PROVE  IInv'
<1>1. jobs # 0 /\ jobs \in 0 .. MaxJobs
  BY NotOpen DEF IInv, Crash, Tables
<1>2. Working'
  BY DEF Crash, Working, NoSession
<1>3. Tables'
  BY <1>1, TablesNext, MemoryAssumptions DEF Crash, IInv, Tables, MemoryAssumptions
<1> QED BY <1>2, <1>3 DEF IInv

LEMMA ReadForgetStep ==
    ASSUME IInv, ReadForget
    PROVE  IInv'
<1>1. /\ forgetting'.memories \subseteq DOMAIN memories
      /\ forgetting'.relations \subseteq DOMAIN relations
  BY DEF ReadForget
<1>2. Tables'
  BY <1>1, TablesNext, MemoryAssumptions DEF ReadForget, IInv, Tables, MemoryAssumptions
<1>3. session' = NoSession \/ (jobs # 0 /\ Sound(session'))
  BY DEF ReadForget, IInv, Working
<1>4. Working'
  BY <1>3, WorkingNext DEF ReadForget
<1> QED BY <1>2, <1>4 DEF IInv

(* The rows an administrative job begins with.                             *)
LEMMA MoveFields ==
    ASSUME memories \in Seq(Memory), jobs \in Nat, NEW moved, moved \subseteq Active,
           NEW state \in {"deleted", "conflicted"}
    PROVE  /\ Move(moved, state) \in Seq(Memory)
           /\ DOMAIN Move(moved, state) = DOMAIN memories
           /\ \A i \in DOMAIN memories :
                 /\ SameRow(Move(moved, state)[i], memories[i])
                 /\ Move(moved, state)[i].evidence = memories[i].evidence
                 /\ Move(moved, state)[i].touched \in {memories[i].touched, jobs + 1}
                 /\ i \notin moved => Move(moved, state)[i].state = memories[i].state
                 /\ i \in moved => Move(moved, state)[i].state = state
<1> DEFINE r(i) == [memories[i] EXCEPT !.state = state, !.touched = jobs + 1]
           n == Len(memories)
<1>1. n \in Nat /\ DOMAIN memories = 1 .. n /\ \A i \in DOMAIN memories : memories[i] \in Memory
  OBVIOUS
<1>2. \A i \in DOMAIN memories :
         /\ r(i) \in Memory /\ SameRow(r(i), memories[i]) /\ r(i).evidence = memories[i].evidence
         /\ r(i).touched = jobs + 1 /\ r(i).state = state
  <2> SUFFICES ASSUME NEW i \in DOMAIN memories
               PROVE  /\ r(i) \in Memory /\ SameRow(r(i), memories[i])
                      /\ r(i).evidence = memories[i].evidence
                      /\ r(i).touched = jobs + 1 /\ r(i).state = state
    OBVIOUS
  <2> DEFINE k == jobs + 1
             m == memories[i]
  <2>1. k \in Nat /\ m \in Memory /\ state \in MemoryState
    BY <1>1 DEF MemoryState
  <2>2. r(i) = [m EXCEPT !.state = state, !.touched = k]
    OBVIOUS
  <2> HIDE DEF k, m
  <2>3. r(i) \in Memory /\ r(i).touched = k /\ r(i).state = state
    BY <2>1, <2>2 DEF Memory
  <2>4. SameRow(r(i), m) /\ r(i).evidence = m.evidence
    BY <2>1, <2>2 DEF Memory, SameRow
  <2>5. QED BY <2>3, <2>4 DEF k, m
<1>3. Move(moved, state) = [i \in DOMAIN memories |-> IF i \in moved THEN r(i) ELSE memories[i]]
  BY DEF Move
<1> HIDE DEF r, n
<1>4. DOMAIN Move(moved, state) = 1 .. n
  BY <1>1, <1>3
<1>5. \A i \in DOMAIN memories :
         Move(moved, state)[i] = IF i \in moved THEN r(i) ELSE memories[i]
  BY <1>3
<1>6. Move(moved, state) \in [1 .. n -> Memory]
  BY <1>1, <1>2, <1>3
<1>7. Move(moved, state) \in Seq(Memory)
  BY <1>1, <1>6
<1>8. \A i \in DOMAIN memories : SameRow(memories[i], memories[i])
  BY DEF SameRow
<1> QED BY <1>1, <1>2, <1>4, <1>5, <1>7, <1>8

LEMMA MaintenanceStep ==
    ASSUME IInv, Idle, jobs' = jobs + 1,
           UNCHANGED <<memories, relations, entities, forgetting, unfinished, forgotten>>,
           NEW moved, moved \subseteq Active, NEW state \in {"deleted", "conflicted"},
           session' = MaintenanceSession(Move(moved, state), moved)
    PROVE  IInv'
<1>1. /\ jobs \in Nat /\ jobs < MaxJobs /\ MaxJobs \in Nat
      /\ memories \in Seq(Memory) /\ relations \in Seq(Relation) /\ Active \subseteq Nat
  <2>1. memories \in Seq(Memory)
    BY DEF IInv, Tables
  <2>2. DOMAIN memories \subseteq Nat
    BY <2>1
  <2>3. QED BY <2>1, <2>2, MemoryAssumptions DEF Idle, IInv, Tables, MemoryAssumptions, Active
<1> DEFINE rows == Move(moved, state)
<1> HIDE DEF rows
<1>2. /\ rows \in Seq(Memory) /\ DOMAIN rows = DOMAIN memories
      /\ \A i \in DOMAIN memories :
            /\ SameRow(rows[i], memories[i]) /\ rows[i].evidence = memories[i].evidence
            /\ rows[i].touched \in {memories[i].touched, jobs + 1}
            /\ i \notin moved => rows[i].state = memories[i].state
            /\ i \in moved => rows[i].state = state
  <2>1. memories \in Seq(Memory) /\ jobs \in Nat
    BY <1>1
  <2>2. rows \in Seq(Memory) /\ DOMAIN rows = DOMAIN memories
    BY <2>1, MoveFields DEF rows
  <2>3. ASSUME NEW i \in DOMAIN memories
        PROVE  /\ SameRow(rows[i], memories[i]) /\ rows[i].evidence = memories[i].evidence
               /\ rows[i].touched \in {memories[i].touched, jobs + 1}
    BY <2>1, MoveFields DEF rows
  <2>4. ASSUME NEW i \in DOMAIN memories
        PROVE  /\ i \notin moved => rows[i].state = memories[i].state
               /\ i \in moved => rows[i].state = state
    BY <2>1, MoveFields DEF rows
  <2>5. QED BY <2>2, <2>3, <2>4
<1>3. session' = MaintenanceSession(rows, moved)
  BY DEF rows
<1>4. /\ session' \in Session /\ session'.todo = <<>> /\ session'.intended
      /\ session'.links = relations /\ session'.rows = rows
      /\ session'.moved = moved /\ session'.pending = moved
  <2>1. moved \in SUBSET Nat /\ relations \in Seq(Relation) /\ entities' \in SUBSET Entity
    BY <1>1 DEF IInv, Tables
  <2>2. session' \in Session
    BY <1>2, <1>3, <2>1 DEF MaintenanceSession, Session
  <2>3. QED BY <1>3, <2>2 DEF MaintenanceSession
<1>5. \A i \in DOMAIN memories : memories[i].touched \in Nat /\ memories[i].touched <= jobs
  BY MemoryTyped DEF IInv, Tables
<1>6. \A i \in DOMAIN memories : rows[i].touched <= jobs'
  BY <1>1, <1>2, <1>5
<1>7. Sound(session)'
  BY <1>2, <1>4, <1>6, BeginSound DEF IInv
<1>8. Tables'
  BY <1>1, TablesNext DEF IInv, Tables
<1> QED BY <1>1, <1>7, <1>8 DEF IInv, Working

LEMMA BeginTtlCleanupStep ==
    ASSUME IInv, BeginTtlCleanup
    PROVE  IInv'
<1>1. PICK age \in [{t \in Types : Ontology[t].expires} -> 0 .. Len(memories)] :
         LET old == {i \in Active : /\ Ontology[memories[i].type].expires
                                    /\ i <= age[memories[i].type]}
         IN  session' = MaintenanceSession(Move(old, "deleted"), old)
  BY DEF BeginTtlCleanup
<1> DEFINE old == {i \in Active : /\ Ontology[memories[i].type].expires
                                  /\ i <= age[memories[i].type]}
<1>2. old \subseteq Active /\ session' = MaintenanceSession(Move(old, "deleted"), old)
  BY <1>1
<1> HIDE DEF old
<1> QED BY <1>2, MaintenanceStep DEF BeginTtlCleanup

LEMMA BeginRecomputeStep ==
    ASSUME IInv, BeginRecompute
    PROVE  IInv'
<1>1. PICK winner \in [Groups -> Active] :
         session' = MaintenanceSession(Move(Losers(winner), "conflicted"), Losers(winner))
  BY DEF BeginRecompute
<1>2. Losers(winner) \subseteq Active
  BY DEF Losers
<1> QED BY <1>1, <1>2, MaintenanceStep DEF BeginRecompute
-----------------------------------------------------------------------------
(* Rows that are deleted in place, or otherwise keep what the invariant    *)
(* is about.                                                               *)
Thinned(r, q) == /\ SameRow(r, q) /\ r.evidence = q.evidence /\ r.touched = q.touched
                 /\ r.state \in {q.state, "deleted"}

ThinnedLink(r, q) == /\ r.user = q.user /\ r.type = q.type /\ r.object = q.object
                     /\ r.count = q.count /\ r.evidence = q.evidence
                     /\ r.state \in {q.state, "deleted"}

ThinnedRows ==
    /\ memories' \in Seq(Memory) /\ DOMAIN memories' = DOMAIN memories
    /\ \A i \in DOMAIN memories : Thinned(memories'[i], memories[i])

ThinnedLinks ==
    /\ relations' \in Seq(Relation) /\ DOMAIN relations' = DOMAIN relations
    /\ \A i \in DOMAIN relations : ThinnedLink(relations'[i], relations[i])

LEMMA ThinnedTables ==
    ASSUME Tables, ThinnedRows, ThinnedLinks, UNCHANGED entities,
           forgetting'.memories \subseteq DOMAIN memories,
           forgetting'.relations \subseteq DOMAIN relations,
           jobs' \in jobs .. MaxJobs, unfinished \subseteq unfinished', unfinished' \subseteq 1 .. jobs',
           forgotten' \subseteq DOMAIN memories,
           \A i \in forgotten' : i \in forgotten \/ memories'[i].state = "deleted"
    PROVE  Tables'
<1>1. \A i \in DOMAIN memories : memories[i].touched \in Nat /\ memories[i].touched <= jobs
  BY MemoryTyped DEF Tables
<1>2. jobs \in Nat /\ jobs' \in 0 .. MaxJobs /\ jobs <= jobs'
  BY MemoryAssumptions DEF MemoryAssumptions, Tables
<1>3. (\A i \in DOMAIN memories : memories[i].touched <= jobs)'
  BY <1>1, <1>2 DEF ThinnedRows, Thinned
<1>4. \A i \in DOMAIN memories : /\ SameRow(memories'[i], memories[i])
                                 /\ memories'[i].state \in {memories[i].state, "deleted"}
  BY DEF ThinnedRows, Thinned
<1>5. Active' \subseteq Active /\ Active \subseteq DOMAIN memories
  BY <1>4 DEF Active, ThinnedRows
<1>6. UniqueIn(memories, Active)'
  <2> SUFFICES ASSUME NEW i \in Active', NEW j \in Active', Rivals(memories'[i], memories'[j])
               PROVE  i = j
    BY DEF UniqueIn, Rivals, Lone, Keyed
  <2>1. Rivals(memories[i], memories[j])
    BY <1>4, <1>5, RivalsOfSame
  <2>2. QED BY <1>5, <2>1 DEF Tables, UniqueIn
<1>7. \A j \in DOMAIN memories : memories[j].supersedes # 0 => memories[j].supersedes \in DOMAIN memories
  <2>1. memories \in Seq(Memory) /\ \A j \in DOMAIN memories : memories[j] \in Memory
    BY DEF Tables
  <2>2. \A j \in DOMAIN memories : memories[j].supersedes \in Nat /\ memories[j].supersedes < j
    BY <2>1, MemoryTyped DEF Tables, TableHeirs
  <2>3. QED BY <2>1, <2>2
<1>8. TableHeirs'
  <2>1. ASSUME NEW i \in DOMAIN memories, memories'[i].state = "superseded",
               ~IsRelation(memories'[i].type)
        PROVE  \E j \in DOMAIN memories : memories'[j].supersedes = i
    BY <1>4, <2>1 DEF Tables, TableHeirs, SameRow
  <2>2. ASSUME NEW j \in DOMAIN memories
        PROVE  /\ memories'[j].supersedes < j
               /\ memories'[j].supersedes # 0 => /\ memories'[memories'[j].supersedes].state # "active"
                                                 /\ HeirOf(memories', memories'[j].supersedes, j)
    <3> DEFINE i == memories[j].supersedes
    <3>1. memories'[j].supersedes = i /\ i < j
      BY <1>4 DEF Tables, TableHeirs, SameRow
    <3> SUFFICES ASSUME i # 0 PROVE memories'[i].state # "active" /\ HeirOf(memories', i, j)
      BY <3>1
    <3>2. i \in DOMAIN memories /\ memories[i].state # "active" /\ HeirOf(memories, i, j)
      BY <1>7 DEF Tables, TableHeirs
    <3> HIDE DEF i
    <3>3. memories'[i].state # "active"
      BY <1>4, <3>2
    <3>4. HeirOf(memories', i, j)
      BY <1>4, <3>2 DEF HeirOf, SameRow, ThinnedRows
    <3>5. QED BY <3>3, <3>4
  <2>3. QED BY <2>1, <2>2 DEF TableHeirs, ThinnedRows, HeirOf
<1>9. TraceableUnlessFailed'
  BY DEF Tables, TraceableUnlessFailed, ThinnedRows, Thinned, SameRow
<1>10. RelationsSound'
  <2>1. \A i \in DOMAIN relations :
           /\ relations'[i].user = relations[i].user /\ relations'[i].type = relations[i].type
           /\ relations'[i].object = relations[i].object
           /\ relations'[i].count = relations[i].count
           /\ relations'[i].evidence = relations[i].evidence
           /\ relations'[i].state = "active" => relations[i].state = "active"
    BY DEF ThinnedLinks, ThinnedLink
  <2>2. DOMAIN relations' = DOMAIN relations
    BY DEF ThinnedLinks
  <2>3. RelationsUnique'
    BY <2>1, <2>2 DEF Tables, RelationsSound, RelationsUnique
  <2>4. QED BY <2>1, <2>2, <2>3 DEF Tables, RelationsSound
<1>11. ForgottenStaysGone'
  BY <1>4 DEF Tables, ForgottenStaysGone
<1>12. (entities \subseteq Entity)'
  BY DEF Tables
<1> QED BY <1>2, <1>3, <1>6, <1>8, <1>9, <1>10, <1>11, <1>12 DEF Tables, ThinnedRows, ThinnedLinks

LEMMA UnchangedLinks ==
    ASSUME Tables, UNCHANGED relations
    PROVE  ThinnedLinks
BY DEF Tables, ThinnedLinks, ThinnedLink

LEMMA DeletedRow ==
    ASSUME NEW r \in Memory
    PROVE  LET q == [r EXCEPT !.state = "deleted"]
           IN  q \in Memory /\ q.state = "deleted" /\ Thinned(q, r)
BY DEF Memory, MemoryState, Thinned, SameRow

LEMMA DeletedRows ==
    ASSUME Tables, NEW ids, memories' = Deleted(memories, ids)
    PROVE  /\ ThinnedRows
           /\ \A i \in DOMAIN memories : IF i \in ids THEN memories'[i].state = "deleted"
                                         ELSE memories'[i] = memories[i]
<1> DEFINE n == Len(memories)
           q(i) == [memories[i] EXCEPT !.state = "deleted"]
<1>1. memories \in Seq(Memory)
  BY DEF Tables
<1>2. n \in Nat /\ DOMAIN memories = 1 .. n /\ \A i \in 1 .. n : memories[i] \in Memory
  BY <1>1
<1>3. \A i \in 1 .. n : /\ q(i) \in Memory /\ q(i).state = "deleted"
                        /\ Thinned(q(i), memories[i]) /\ Thinned(memories[i], memories[i])
  BY <1>2, DeletedRow DEF Thinned, SameRow
<1>4. memories' = [i \in DOMAIN memories |-> IF i \in ids THEN q(i) ELSE memories[i]]
  BY DEF Deleted
<1> HIDE DEF n, q
<1>5. /\ DOMAIN memories' = DOMAIN memories
      /\ \A i \in DOMAIN memories : memories'[i] = IF i \in ids THEN q(i) ELSE memories[i]
  BY <1>4
<1>6. memories' \in [1 .. n -> Memory]
  BY <1>2, <1>3, <1>4
<1>7. memories' \in Seq(Memory)
  BY <1>2, <1>6
<1> QED BY <1>2, <1>3, <1>5, <1>7 DEF ThinnedRows

LEMMA DeletedLinks ==
    ASSUME Tables, NEW ids, relations' = Deleted(relations, ids)
    PROVE  ThinnedLinks
<1> DEFINE n == Len(relations)
           q(i) == [relations[i] EXCEPT !.state = "deleted"]
<1>1. relations \in Seq(Relation)
  BY DEF Tables
<1>2. n \in Nat /\ DOMAIN relations = 1 .. n /\ \A i \in 1 .. n : relations[i] \in Relation
  BY <1>1
<1>3. \A i \in 1 .. n : /\ q(i) \in Relation
                        /\ ThinnedLink(q(i), relations[i]) /\ ThinnedLink(relations[i], relations[i])
  BY <1>2 DEF Relation, ThinnedLink
<1>4. relations' = [i \in DOMAIN relations |-> IF i \in ids THEN q(i) ELSE relations[i]]
  BY DEF Deleted
<1> HIDE DEF n, q
<1>5. /\ DOMAIN relations' = DOMAIN relations
      /\ \A i \in DOMAIN relations : relations'[i] = IF i \in ids THEN q(i) ELSE relations[i]
  BY <1>4
<1>6. relations' \in [1 .. n -> Relation]
  BY <1>2, <1>3, <1>4
<1>7. relations' \in Seq(Relation)
  BY <1>2, <1>6
<1> QED BY <1>2, <1>3, <1>5, <1>7 DEF ThinnedLinks

LEMMA ProcessForgetStep ==
    ASSUME IInv, NEW user \in Users, ProcessForget(user)
    PROVE  IInv'
<1> DEFINE ids == {i \in DOMAIN memories : memories[i].user = user}
<1>1. memories' = Deleted(memories, ids) /\ forgotten' = forgotten \cup ids
  BY DEF ProcessForget
<1>2. ids \subseteq DOMAIN memories
  OBVIOUS
<1> HIDE DEF ids
<1>3. /\ ThinnedRows /\ ThinnedLinks
      /\ \A i \in ids : memories'[i].state = "deleted"
  BY <1>1, <1>2, DeletedRows, UnchangedLinks DEF ProcessForget, IInv
<1>4. jobs' \in jobs .. MaxJobs /\ unfinished' = unfinished /\ unfinished' \subseteq 1 .. jobs'
  BY MemoryAssumptions DEF ProcessForget, Idle, IInv, Tables, MemoryAssumptions
<1>5. Tables'
  BY <1>1, <1>2, <1>3, <1>4, ThinnedTables DEF ProcessForget, IInv, Tables
<1>6. session' = NoSession
  BY NotOpen DEF ProcessForget, Idle, IInv
<1> QED BY <1>5, <1>6 DEF IInv, Working, NoSession

LEMMA BackfillThins ==
    ASSUME Tables, EmbeddingBackfill
    PROVE  ThinnedRows
<1>1. PICK done : memories' = [i \in DOMAIN memories |->
                                  IF i \in done THEN [memories[i] EXCEPT !.embedded = TRUE]
                                  ELSE memories[i]]
  BY DEF EmbeddingBackfill
<1> DEFINE n == Len(memories)
           q(i) == [memories[i] EXCEPT !.embedded = TRUE]
<1>2. memories \in Seq(Memory)
  BY DEF Tables
<1>3. n \in Nat /\ DOMAIN memories = 1 .. n /\ \A i \in 1 .. n : memories[i] \in Memory
  BY <1>2
<1>4. \A i \in 1 .. n : /\ q(i) \in Memory
                        /\ Thinned(q(i), memories[i]) /\ Thinned(memories[i], memories[i])
  BY <1>3 DEF Memory, Thinned, SameRow
<1>5. memories' = [i \in DOMAIN memories |-> IF i \in done THEN q(i) ELSE memories[i]]
  BY <1>1
<1> HIDE DEF n, q
<1>6. /\ DOMAIN memories' = DOMAIN memories
      /\ \A i \in DOMAIN memories : memories'[i] = IF i \in done THEN q(i) ELSE memories[i]
  BY <1>5
<1>7. memories' \in [1 .. n -> Memory]
  BY <1>3, <1>4, <1>5
<1>8. memories' \in Seq(Memory)
  BY <1>3, <1>7
<1> QED BY <1>3, <1>4, <1>6, <1>8 DEF ThinnedRows

LEMMA EmbeddingBackfillStep ==
    ASSUME IInv, EmbeddingBackfill
    PROVE  IInv'
<1>1. ThinnedRows /\ ThinnedLinks
  BY BackfillThins, UnchangedLinks DEF EmbeddingBackfill, IInv
<1>2. unfinished' \in {unfinished, unfinished \cup {jobs + 1}}
  BY DEF EmbeddingBackfill
<1>3. /\ jobs \in Nat /\ jobs' = jobs + 1 /\ jobs' \in jobs .. MaxJobs /\ unfinished \subseteq unfinished'
      /\ unfinished' \subseteq 1 .. jobs'
  BY <1>2, MemoryAssumptions DEF EmbeddingBackfill, Idle, IInv, Tables, MemoryAssumptions
<1>4. Tables'
  BY <1>1, <1>3, ThinnedTables DEF EmbeddingBackfill, IInv, Tables
<1>5. session' = NoSession
  BY NotOpen DEF EmbeddingBackfill, Idle, IInv
<1> QED BY <1>4, <1>5 DEF IInv, Working, NoSession

(* An open session survives a forget: nothing it sees becomes active, and  *)
(* the rows that it has flushed are not touched.                           *)
LEMMA ForgetSound ==
    ASSUME Tables, Sound(session), UNCHANGED <<session, jobs, unfinished>>,
           ThinnedRows, ThinnedLinks
    PROVE  Sound(session)'
<1>1. /\ DOMAIN memories' = DOMAIN memories
      /\ \A i \in DOMAIN memories : /\ SameRow(memories'[i], memories[i])
                                    /\ memories'[i].state \in {memories[i].state, "deleted"}
  BY DEF ThinnedRows, Thinned
<1>2. Fits(session)'
  <2>1. Fits(session)
    BY DEF Sound
  <2>2. (session \in Session)'
    BY <2>1 DEF Fits, Session
  <2>3. ASSUME NEW i \in DOMAIN session.rows
        PROVE  /\ session.rows[i].touched <= jobs
               /\ i \in DOMAIN memories => SameRow(session.rows[i], memories'[i])
               /\ i \in session.moved => session.rows[i].state # "active"
               /\ i \notin DOMAIN memories \cup session.moved => session.rows[i].state = "active"
    BY <1>1, <2>1 DEF Fits, SameRow
  <2>4. QED BY <1>1, <2>1, <2>2, <2>3 DEF Fits, SameRow
<1>3. (Visible(session))' \subseteq Visible(session)
  BY <1>1 DEF Visible, DbState
<1>4. UniqueIn(session.rows, Visible(session))'
  BY <1>3 DEF Sound, UniqueIn, Rivals, Lone, Keyed
<1>5. \A i : (Outcome(session, i))' = Outcome(session, i) \/ (Outcome(session, i))' = "deleted"
  BY <1>1 DEF Outcome
<1>6. Heirs(session)'
  <2>1. \A i : /\ (Outcome(session, i))' = "superseded" => Outcome(session, i) = "superseded"
               /\ (Outcome(session, i))' = "active" => Outcome(session, i) = "active"
    BY <1>5
  <2>2. QED BY <2>1 DEF Sound, Heirs, HeirOf
<1>7. PendingHeirless(session)' /\ Traced(session)'
  BY DEF Sound, PendingHeirless, Traced
<1>8. /\ DOMAIN relations' = DOMAIN relations
      /\ \A i \in DOMAIN relations :
            /\ relations'[i].user = relations[i].user /\ relations'[i].type = relations[i].type
            /\ relations'[i].object = relations[i].object
            /\ relations'[i].state = "active" => relations[i].state = "active"
  BY DEF ThinnedLinks, ThinnedLink
<1>9. (VisibleLinks(session))' \subseteq VisibleLinks(session)
  BY <1>8 DEF VisibleLinks
<1>10. LinksFit(session)'
  BY <1>8, <1>9 DEF Sound, LinksFit
<1> QED BY <1>2, <1>4, <1>6, <1>7, <1>10 DEF Sound

LEMMA WriteForgetStep ==
    ASSUME IInv, WriteForget
    PROVE  IInv'
<1>1. /\ ThinnedRows /\ ThinnedLinks
      /\ \A i \in forgetting.memories : memories'[i].state = "deleted"
  BY DeletedRows, DeletedLinks DEF WriteForget, IInv, Tables
<1>2. /\ jobs' \in jobs .. MaxJobs /\ unfinished' \subseteq 1 .. jobs'
      /\ forgetting'.memories = {} /\ forgetting'.relations = {}
  BY MemoryAssumptions DEF WriteForget, IInv, Tables, MemoryAssumptions, NoForget
<1>3. /\ forgotten' \subseteq DOMAIN memories
      /\ \A i \in forgotten' : i \in forgotten \/ memories'[i].state = "deleted"
  BY <1>1 DEF WriteForget, IInv, Tables
<1>4. Tables'
  BY <1>1, <1>2, <1>3, ThinnedTables DEF WriteForget, IInv
<1>5. Working'
  <2>1. CASE session = NoSession
    BY <2>1 DEF WriteForget, Working, NoSession
  <2>2. CASE jobs # 0 /\ Sound(session)
    <3>1. Sound(session)'
      BY <1>1, <2>2, ForgetSound DEF WriteForget, IInv
    <3>2. QED BY <2>2, <3>1 DEF WriteForget, Working
  <2>3. QED BY <2>1, <2>2 DEF IInv, Working
<1> QED BY <1>4, <1>5 DEF IInv
-----------------------------------------------------------------------------
(* The commit                                                              *)

LEMMA WrittenRows ==
    ASSUME Tables, Fits(session), memories' = Written
    PROVE  /\ memories' \in Seq(Memory) /\ DOMAIN memories' = DOMAIN session.rows
           /\ \A i \in DOMAIN session.rows :
                 /\ SameRow(memories'[i], session.rows[i])
                 /\ memories'[i].state = Outcome(session, i)
                 /\ memories'[i].evidence = session.rows[i].evidence
                 /\ memories'[i].touched = session.rows[i].touched
<1> DEFINE n == Len(session.rows)
           q(i) == [session.rows[i] EXCEPT !.state = memories[i].state]
           kept == DOMAIN memories \ session.moved
<1>1. /\ session.rows \in Seq(Memory) /\ memories \in Seq(Memory)
      /\ DOMAIN memories \subseteq DOMAIN session.rows
  BY SessionTyped DEF Fits, Tables
<1>2. /\ n \in Nat /\ DOMAIN session.rows = 1 .. n
      /\ \A i \in 1 .. n : session.rows[i] \in Memory
  BY <1>1
<1>3. \A i \in kept : memories[i].state \in MemoryState /\ i \in 1 .. n
  BY <1>1, <1>2, MemoryTyped
<1>4. \A i \in kept : /\ q(i) \in Memory /\ SameRow(q(i), session.rows[i])
                      /\ q(i).state = memories[i].state
                      /\ q(i).evidence = session.rows[i].evidence
                      /\ q(i).touched = session.rows[i].touched
  <2> SUFFICES ASSUME NEW i \in kept
               PROVE  /\ q(i) \in Memory /\ SameRow(q(i), session.rows[i])
                      /\ q(i).state = memories[i].state
                      /\ q(i).evidence = session.rows[i].evidence
                      /\ q(i).touched = session.rows[i].touched
    OBVIOUS
  <2> DEFINE r == session.rows[i]
             state == memories[i].state
  <2>1. r \in Memory /\ state \in MemoryState
    BY <1>2, <1>3
  <2>2. q(i) = [r EXCEPT !.state = state]
    OBVIOUS
  <2> HIDE DEF r, state, q, kept
  <2>3. q(i) \in Memory /\ q(i).state = state
    BY <2>1, <2>2 DEF Memory
  <2>4. SameRow(q(i), r) /\ q(i).evidence = r.evidence /\ q(i).touched = r.touched
    BY <2>1, <2>2 DEF Memory, SameRow
  <2>5. QED BY <2>3, <2>4 DEF r, state
<1>5. memories' = [i \in DOMAIN session.rows |-> IF i \in kept THEN q(i) ELSE session.rows[i]]
  BY DEF Written
<1>6. \A i : Outcome(session, i) = IF i \in kept THEN memories[i].state ELSE session.rows[i].state
  BY DEF Outcome
<1> HIDE DEF n, q, kept
<1>7. /\ DOMAIN memories' = DOMAIN session.rows
      /\ \A i \in DOMAIN session.rows : memories'[i] = IF i \in kept THEN q(i) ELSE session.rows[i]
  BY <1>5
<1>8. memories' \in [1 .. n -> Memory]
  BY <1>2, <1>4, <1>5
<1>9. memories' \in Seq(Memory)
  BY <1>2, <1>8
<1>10. \A i \in DOMAIN session.rows : SameRow(session.rows[i], session.rows[i])
  BY DEF SameRow
<1> QED BY <1>4, <1>6, <1>7, <1>9, <1>10

LEMMA WrittenRelations ==
    ASSUME Tables, session \in Session, LinksFit(session), relations' = WrittenLinks
    PROVE  /\ relations' \in Seq(Relation) /\ RelationsSound'
           /\ DOMAIN relations \subseteq DOMAIN relations'
<1> DEFINE n == Len(session.links)
           q(i) == [session.links[i] EXCEPT !.state = relations[i].state]
<1>1. /\ session.links \in Seq(Relation) /\ relations \in Seq(Relation)
      /\ DOMAIN relations \subseteq DOMAIN session.links
  BY SessionTyped DEF LinksFit, Tables
<1>2. /\ n \in Nat /\ DOMAIN session.links = 1 .. n
      /\ \A i \in 1 .. n : session.links[i] \in Relation
      /\ \A i \in DOMAIN relations : relations[i] \in Relation /\ i \in 1 .. n
  BY <1>1
<1>3. \A i \in DOMAIN relations : q(i) \in Relation /\ q(i).state = relations[i].state
  BY <1>2 DEF Relation
<1>4. \A i \in DOMAIN relations : /\ q(i).user = session.links[i].user
                                  /\ q(i).type = session.links[i].type
                                  /\ q(i).object = session.links[i].object
                                  /\ q(i).count = session.links[i].count
                                  /\ q(i).evidence = session.links[i].evidence
  BY <1>2 DEF Relation
<1>5. relations' = [i \in DOMAIN session.links |->
                       IF i \in DOMAIN relations THEN q(i) ELSE session.links[i]]
  BY DEF WrittenLinks
<1> HIDE DEF n, q
<1>6. /\ DOMAIN relations' = DOMAIN session.links
      /\ \A i \in DOMAIN session.links :
            relations'[i] = IF i \in DOMAIN relations THEN q(i) ELSE session.links[i]
  BY <1>5
<1>7. relations' \in [1 .. n -> Relation]
  BY <1>2, <1>3, <1>5
<1>8. relations' \in Seq(Relation)
  BY <1>2, <1>7
<1>9. \A i \in DOMAIN relations' :
         /\ relations'[i].user = session.links[i].user /\ relations'[i].type = session.links[i].type
         /\ relations'[i].object = session.links[i].object
         /\ relations'[i].count = session.links[i].count
         /\ relations'[i].evidence = session.links[i].evidence
         /\ relations'[i].state = "active" => i \in VisibleLinks(session)
  BY <1>3, <1>4, <1>6 DEF VisibleLinks
<1>10. RelationsUnique'
  BY <1>9 DEF RelationsUnique, LinksFit
<1>11. RelationsSound'
  BY <1>6, <1>9, <1>10 DEF RelationsSound, LinksFit
<1> QED BY <1>1, <1>6, <1>8, <1>11

LEMMA CommitJobStep ==
    ASSUME IInv, CommitJob
    PROVE  IInv'
<1>1. /\ jobs # 0 /\ Sound(session) /\ session \in Session /\ Fits(session)
      /\ Heirs(session) /\ Traced(session) /\ LinksFit(session) /\ Tables
      /\ UniqueIn(session.rows, Visible(session))
  BY NotOpen DEF IInv, CommitJob, Sound
<1>2. /\ memories' \in Seq(Memory) /\ DOMAIN memories' = DOMAIN session.rows
      /\ \A i \in DOMAIN session.rows :
            /\ SameRow(memories'[i], session.rows[i])
            /\ memories'[i].state = Outcome(session, i)
            /\ memories'[i].evidence = session.rows[i].evidence
            /\ memories'[i].touched = session.rows[i].touched
  BY <1>1, WrittenRows DEF CommitJob
<1>3. /\ relations' \in Seq(Relation) /\ RelationsSound' /\ DOMAIN relations \subseteq DOMAIN relations'
  BY <1>1, WrittenRelations DEF CommitJob
<1>4. Active' = Alive(session)
  BY <1>2 DEF Active, Alive
<1>5. UniqueIn(memories, Active)'
  <2> SUFFICES ASSUME NEW i \in Active', NEW j \in Active', Rivals(memories'[i], memories'[j])
               PROVE  i = j
    BY DEF UniqueIn, Rivals, Lone, Keyed
  <2>1. i \in Visible(session) /\ j \in Visible(session)
    <3>1. \A k : k \in Alive(session) => k \in Visible(session)
      BY <1>1, VisibleRows DEF Alive
    <3>2. QED BY <1>4, <3>1
  <2>2. Rivals(session.rows[i], session.rows[j])
    BY <1>2, <2>1, RivalsOfSame DEF Visible
  <2>3. QED BY <1>1, <2>1, <2>2 DEF UniqueIn
<1>6. \A j \in DOMAIN session.rows : session.rows[j].supersedes # 0 =>
         session.rows[j].supersedes \in DOMAIN session.rows
  <2>1. session.rows \in Seq(Memory) /\ \A j \in DOMAIN session.rows : session.rows[j] \in Memory
    BY <1>1, SessionTyped
  <2>2. \A j \in DOMAIN session.rows : session.rows[j].supersedes \in Nat /\ session.rows[j].supersedes < j
    BY <1>1, <2>1, MemoryTyped DEF Heirs
  <2>3. QED BY <2>1, <2>2
<1>7. TableHeirs'
  <2>1. ASSUME NEW i \in DOMAIN memories', memories'[i].state = "superseded",
               ~IsRelation(memories'[i].type)
        PROVE  \E j \in DOMAIN memories' : memories'[j].supersedes = i
    BY <1>1, <1>2, <2>1 DEF Heirs, SameRow
  <2>2. ASSUME NEW j \in DOMAIN memories'
        PROVE  /\ memories'[j].supersedes < j
               /\ memories'[j].supersedes # 0 => /\ memories'[memories'[j].supersedes].state # "active"
                                                 /\ HeirOf(memories', memories'[j].supersedes, j)
    <3> DEFINE i == session.rows[j].supersedes
    <3>1. memories'[j].supersedes = i /\ i < j
      BY <1>1, <1>2 DEF Heirs, SameRow
    <3> SUFFICES ASSUME i # 0 PROVE memories'[i].state # "active" /\ HeirOf(memories', i, j)
      BY <3>1
    <3>2. i \in DOMAIN session.rows /\ Outcome(session, i) # "active" /\ HeirOf(session.rows, i, j)
      BY <1>1, <1>2, <1>6 DEF Heirs
    <3> HIDE DEF i
    <3>3. HeirOf(memories', i, j)
      BY <1>2, <3>2 DEF HeirOf, SameRow
    <3>4. QED BY <1>2, <3>2, <3>3
  <2>3. QED BY <2>1, <2>2 DEF TableHeirs, HeirOf
<1>8. TraceableUnlessFailed'
  BY <1>1, <1>2 DEF TraceableUnlessFailed, Traced, CommitJob, SameRow
<1>9. ForgottenStaysGone' /\ DOMAIN memories \subseteq DOMAIN memories'
  BY <1>1, <1>2 DEF ForgottenStaysGone, Fits, Outcome, Tables, CommitJob
<1>10. (\A i \in DOMAIN memories : memories[i].touched <= jobs)'
  BY <1>1, <1>2 DEF Fits, CommitJob
<1>11. /\ entities' \subseteq Entity /\ jobs' \in 0 .. MaxJobs /\ unfinished' \subseteq 1 .. jobs'
       /\ forgotten' \subseteq DOMAIN memories'
       /\ forgetting'.memories \subseteq DOMAIN memories'
       /\ forgetting'.relations \subseteq DOMAIN relations'
  <2>1. jobs \in 1 .. jobs
    BY <1>1, MemoryAssumptions DEF Tables, MemoryAssumptions
  <2>2. QED BY <1>1, <1>3, <1>9, <2>1, SessionTyped DEF CommitJob, Tables
<1>12. Tables'
  BY <1>2, <1>3, <1>5, <1>7, <1>8, <1>9, <1>10, <1>11 DEF Tables
<1>13. Working'
  BY DEF CommitJob, Working, NoSession
<1> QED BY <1>12, <1>13 DEF IInv
-----------------------------------------------------------------------------
(* The strongest source                                                    *)

(* A job with one candidate, from the strongest source, for a type with a  *)
(* single value.                                                           *)
Strong(s, c) ==
    /\ s.decision # Absent /\ s.decision.candidates = <<c>>
    /\ c.type \in OfCardinality("ONE_ACTIVE") /\ ~Ontology[c.type].relation
    /\ Strongest(s.decision.source)

(* The value of the candidate stands: it will be active after the commit,  *)
(* unless it was forgotten since.                                          *)
StandsAt(s, c, i) ==
    /\ i \notin s.moved
    /\ s.rows[i].user = s.decision.user /\ s.rows[i].type = c.type /\ s.rows[i].key = c.key
    /\ i \in DOMAIN memories => memories[i].state = "active" \/ i \in forgotten

Stands(s, c) == \E i \in DOMAIN s.rows : StandsAt(s, c, i)

Unborrowed(type) == \A i \in DOMAIN memories : memories[i].type = type => ~Borrowed(i)

(* The session has not moved or reinforced a row yet.                      *)
Fresh(s) == /\ s.moved = {} /\ DOMAIN s.rows = DOMAIN memories
            /\ \A i \in DOMAIN memories : /\ s.rows[i].score = memories[i].score
                                          /\ s.rows[i].source = memories[i].source

Contest(c) ==
    session.open /\ ~session.raised /\ Strong(session, c) =>
        \/ session.todo = <<c>> /\ Fresh(session)
        \/ session.todo = <<>> /\ (Unborrowed(c.type) => Stands(session, c))

ContestInv == \A c \in Candidate : Contest(c)

(* A value that is added stands.                                           *)
LEMMA InsertStands ==
    ASSUME MemoryAssumptions, jobs \in Nat, NEW u \in Session, u.decision \in Decisions,
           DOMAIN memories \subseteq DOMAIN u.rows, u.moved \subseteq DOMAIN u.rows,
           NEW c \in Candidate, c.type \in Types, NEW prior \in Nat
    PROVE  Stands(Insert(u, c, prior), c)
<1> DEFINE t == Insert(u, c, prior)
           q == NewMemory(u, c.type, c.key, prior)
           i == Len(u.rows) + 1
<1>1. Added(u, t, q)
  BY InsertFields
<1>2. q.user = u.decision.user /\ q.type = c.type /\ q.key = c.key
  BY DEF NewMemory
<1>3. u.rows \in Seq(Memory) /\ t.rows \in Seq(Memory) /\ Len(t.rows) = i
  BY <1>1, SessionTyped DEF Added, Aside
<1>4. i \in DOMAIN t.rows /\ i \notin DOMAIN u.rows
  <2> DEFINE rows == t.rows
  <2> HIDE DEF t
  <2>1. rows \in Seq(Memory) /\ Len(rows) = Len(u.rows) + 1
    BY <1>3
  <2> HIDE DEF rows
  <2>2. DOMAIN rows = 1 .. Len(rows) /\ DOMAIN u.rows = 1 .. Len(u.rows) /\ Len(u.rows) \in Nat
    BY <1>3, <2>1
  <2>3. QED BY <2>1, <2>2 DEF rows
<1> HIDE DEF t, q
<1>5. t.moved = u.moved /\ t.decision = u.decision /\ SameRow(t.rows[i], q)
  BY <1>1 DEF Added, Aside
<1>6. StandsAt(t, c, i)
  BY <1>2, <1>4, <1>5 DEF StandsAt, SameRow
<1> QED BY <1>4, <1>6 DEF Stands, t

(* The strongest source beats a value that has the score of its source: it *)
(* is that source, or the score is less.                                   *)
LEMMA StrongestBeats ==
    ASSUME MemoryAssumptions, NEW s, s.decision \in Decisions, NEW c, NEW i,
           s.rows[i].source \in Sources, s.rows[i].score = Score[s.rows[i].source],
           Strongest(s.decision.source)
    PROVE  Wins(s, c, i)
<1>1. s.decision.source \in Sources /\ Score \in [Sources -> Nat]
  BY DEF MemoryAssumptions, Decision
<1>2. CASE s.decision.source = s.rows[i].source
  BY <1>2 DEF Wins
<1>3. CASE s.decision.source # s.rows[i].source
  <2>1. Score[s.rows[i].source] < Score[s.decision.source]
    BY <1>3 DEF Strongest
  <2>2. /\ Score[s.rows[i].source] \in Nat /\ Score[s.decision.source] \in Nat
    BY <1>1
  <2>3. Score[s.decision.source] > s.rows[i].score
    BY <2>1, <2>2
  <2>4. QED BY <2>3 DEF Wins
<1> QED BY <1>2, <1>3

LEMMA ResolvedStands ==
    ASSUME MemoryAssumptions, memories \in Seq(Memory), jobs \in Nat,
           NEW s0, Fits(s0), s0.decision \in Decisions, NEW c \in Candidate,
           Strong(s0, c), Fresh(s0), Unborrowed(c.type)
    PROVE  Stands(Resolved(s0, c), c)
<1>1. c.type \in Types /\ Ontology[c.type].cardinality = "ONE_ACTIVE" /\ ~IsRelation(c.type)
  BY DEF Strong, OfCardinality, IsRelation
<1> DEFINE s == WithObject(s0, c)
           same == SameMemory(s, c.type, c.key)
           active == ActiveMemory(s, c.type)
           t == Resolved(s0, c)
<1>2. /\ Aside(s0, s) /\ s.rows = s0.rows /\ s.moved = s0.moved /\ s.pending \in {s0.pending, {}}
  BY <1>1, ObjectFields DEF Fits
<1>3. c.type # Absent
  BY <1>1, MemoryAssumptions DEF MemoryAssumptions
<1>4. t = CASE same # 0 -> Refresh(s, same)
            [] same = 0 /\ active # 0 ->
                  IF Wins(s, c, active)
                  THEN Store(Displace(s, active, "superseded"), c, active)
                  ELSE IF Score[s.decision.source] = s.rows[active].score
                       THEN Displace(s, active, "conflicted")
                       ELSE s
            [] OTHER -> Store(s, c, 0)
  BY <1>1, <1>3 DEF Resolved
<1> HIDE DEF s, t
<1>5. Fits(s) /\ s \in Session /\ s.decision \in Decisions /\ s.decision = s0.decision /\ s.moved = {}
  BY <1>2, SameViews DEF Aside, Fresh
<1>6. /\ same # 0 => same \in Visible(s) /\ Matches(s, same, c.type) /\ s.rows[same].key = c.key
      /\ active # 0 => active \in Visible(s) /\ Matches(s, active, c.type)
  BY <1>5, SameMemoryRow, ActiveMemoryRow
<1>7. \A i \in Visible(s) : i \in DOMAIN s.rows /\ i \in DOMAIN memories /\ memories[i].state = "active"
  BY <1>2, <1>5 DEF Visible, DbState, Fresh
<1>8. DOMAIN memories \subseteq DOMAIN s.rows
  BY <1>5 DEF Fits
<1> HIDE DEF same, active
<1>9. CASE same # 0
  <2>1. t = Refresh(s, same) /\ same \in DOMAIN s.rows
    BY <1>4, <1>6, <1>7, <1>9
  <2>2. /\ t.decision = s.decision /\ t.moved = s.moved /\ DOMAIN t.rows = DOMAIN s.rows
        /\ SameRow(t.rows[same], s.rows[same])
    BY <1>5, <2>1, RefreshFields DEF Aside
  <2>3. StandsAt(t, c, same)
    BY <1>5, <1>6, <1>7, <1>9, <2>2 DEF StandsAt, SameRow, Matches
  <2>4. QED BY <2>1, <2>2, <2>3 DEF Stands, t
<1>10. CASE same = 0 /\ active # 0
  <2>1. active \in Visible(s) /\ active \in DOMAIN memories /\ active \in DOMAIN s.rows
    BY <1>6, <1>7, <1>10
  <2>2. /\ s.rows[active].score = memories[active].score
        /\ s.rows[active].source = memories[active].source
        /\ memories[active].type = c.type
    BY <1>2, <1>5, <1>6, <1>10, <2>1 DEF Fresh, Fits, SameRow, Matches
  <2>3. s.rows[active].score = Score[s.rows[active].source]
    BY <2>1, <2>2 DEF Unborrowed, Borrowed
  <2>4. s.rows[active].source \in Sources
    BY <2>1, <2>2, MemoryTyped
  <2>5. Wins(s, c, active)
    BY <1>5, <2>3, <2>4, StrongestBeats DEF Strong
  <2> DEFINE u == Displace(s, active, "superseded")
  <2>6. t = Store(u, c, active)
    BY <1>4, <1>10, <2>5
  <2>7. Store(u, c, active) = Insert(u, c, active)
    BY <1>1 DEF Store
  <2>8. "superseded" \in MemoryState /\ active \in Nat
    BY <2>1 DEF MemoryState
  <2>9. /\ Aside(s, u) /\ u.moved = s.moved \cup {active} /\ DOMAIN u.rows = DOMAIN s.rows
    BY <1>5, <2>1, <2>8, DisplaceFields
  <2> HIDE DEF u
  <2>10. Stands(Insert(u, c, active), c)
    BY <1>1, <1>5, <1>8, <2>1, <2>8, <2>9, InsertStands DEF Aside
  <2>11. QED BY <2>6, <2>7, <2>10 DEF t
<1>11. CASE same = 0 /\ active = 0
  <2>1. t = Insert(s, c, 0)
    BY <1>1, <1>4, <1>11 DEF Store
  <2>2. s.moved \subseteq DOMAIN s.rows
    BY <1>5
  <2>3. Stands(Insert(s, c, 0), c)
    BY <1>1, <1>5, <1>8, <2>2, InsertStands
  <2>4. QED BY <2>1, <2>3 DEF t
<1> QED BY <1>9, <1>10, <1>11

(* The memory of a workflow's intent displaces nothing.                    *)
LEMMA IntentMovesNothing ==
    ASSUME MemoryAssumptions, memories \in Seq(Memory), jobs \in Nat,
           NEW s, Fits(s), s.decision \in Decisions
    PROVE  LET t == WithIntent(s)
           IN  /\ Aside(s, t) /\ t.moved = s.moved /\ DOMAIN s.rows \subseteq DOMAIN t.rows
               /\ \A i \in DOMAIN s.rows : SameRow(t.rows[i], s.rows[i])
<1> DEFINE d == s.decision
           same == SameMemory(s, d.intent, d.workflow)
           q == NewMemory(s, d.intent, d.workflow, 0)
           added == Flush([s EXCEPT !.rows = Append(@, q)])
           i == Len(added.rows)
           v == Embed([added EXCEPT !.rows[i].evidence = 1], i)
           t == WithIntent(s)
           unasked == \/ d.workflow = Absent \/ d.intent = Absent \/ d.candidates = <<>>
                      \/ Ontology[d.intent].cardinality # "ONE_ACTIVE"
<1>1. t = IF unasked THEN s ELSE IF same # 0 THEN Refresh(s, same) ELSE v
  BY DEF WithIntent
<1>2. same # 0 => same \in DOMAIN s.rows
  BY SameMemoryRow DEF Visible
<1>3. s \in Session
  BY DEF Fits
<1>4. \A j \in DOMAIN s.rows : SameRow(s.rows[j], s.rows[j])
  BY DEF SameRow
<1>5. CASE unasked
  BY <1>1, <1>3, <1>4, <1>5 DEF Aside
<1>6. CASE ~unasked /\ same # 0
  <2>1. t = Refresh(s, same) /\ same \in DOMAIN s.rows
    BY <1>1, <1>2, <1>6
  <2>2. QED BY <1>3, <2>1, RefreshFields
<1>7. CASE ~unasked /\ same = 0
  <2>1. d.workflow \in Keys /\ d.intent \in Types
    BY <1>7, MemoryAssumptions DEF MemoryAssumptions, Decision
  <2>2. Added(s, v, q)
    BY <1>3, <2>1, IntentFields
  <2>3. t = v
    BY <1>1, <1>7
  <2> HIDE DEF t, v, q
  <2>4. s.rows \in Seq(Memory) /\ v.rows \in Seq(Memory) /\ Len(v.rows) = Len(s.rows) + 1
    BY <1>3, <2>2, SessionTyped DEF Added, Aside
  <2>5. DOMAIN s.rows \subseteq DOMAIN v.rows
    BY <2>4
  <2>6. QED BY <2>2, <2>3, <2>5 DEF Added, Kept, t
<1> QED BY <1>5, <1>6, <1>7

(* A forget between two steps of the job takes the value away only by      *)
(* forgetting it, and lets no memory borrow a score.                       *)
LEMMA ContestForgets ==
    ASSUME IInv, NEW ids, memories' = Deleted(memories, ids), forgotten' = forgotten \cup ids,
           UNCHANGED session, NEW c \in Candidate, Contest(c)
    PROVE  Contest(c)'
<1>1. /\ DOMAIN memories' = DOMAIN memories
      /\ \A i \in DOMAIN memories :
            /\ memories'[i].score = memories[i].score /\ memories'[i].source = memories[i].source
            /\ memories'[i].type = memories[i].type
            /\ i \in ids \/ memories'[i].state = memories[i].state
  <2>1. \A i \in DOMAIN memories :
           LET q == [memories[i] EXCEPT !.state = "deleted"]
           IN  q.score = memories[i].score /\ q.source = memories[i].source /\ q.type = memories[i].type
    <3>1. memories \in Seq(Memory) /\ \A i \in DOMAIN memories : memories[i] \in Memory
      BY DEF IInv, Tables
    <3>2. QED BY <3>1 DEF Memory
  <2>2. QED BY <2>1 DEF Deleted
<1>2. Strong(session, c)' <=> Strong(session, c)
  BY DEF Strong, Strongest, OfCardinality
<1>3. Unborrowed(c.type)' => Unborrowed(c.type)
  BY <1>1 DEF Unborrowed, Borrowed
<1>4. Fresh(session) => Fresh(session)'
  BY <1>1 DEF Fresh
<1>5. Stands(session, c) => Stands(session, c)'
  BY <1>1 DEF Stands, StandsAt
<1> QED BY <1>2, <1>3, <1>4, <1>5 DEF Contest

LEMMA ContestNext ==
    ASSUME IInv, [Next]_vars, NEW c \in Candidate, Contest(c)
    PROVE  Contest(c)'
<1>1. /\ memories \in Seq(Memory) /\ jobs \in Nat
      /\ session.open => Fits(session) /\ session \in Session
  BY NotOpen, MemoryAssumptions DEF IInv, Tables, Sound, MemoryAssumptions
<1>2. CASE UNCHANGED <<memories, session, forgotten>>
  BY <1>2 DEF Contest, Strong, Strongest, OfCardinality, Fresh, Stands, StandsAt, Unborrowed, Borrowed
<1>3. CASE session' = NoSession
  BY <1>3 DEF Contest, NoSession
<1>4. CASE BeginPersist
  <2>1. PICK d \in Decisions, up \in BOOLEAN, recent \in BOOLEAN : session' = NewSession(d, up, recent)
    BY <1>4 DEF BeginPersist
  <2>2. /\ session'.todo = session'.decision.candidates
        /\ session'.moved = {} /\ session'.rows = memories'
    BY <1>4, <2>1 DEF BeginPersist, NewSession
  <2>3. QED BY <2>2 DEF Contest, Strong, Fresh
<1>5. CASE ResolveCandidate
  <2> SUFFICES ASSUME session'.open, ~session'.raised, Strong(session, c)'
               PROVE  session'.todo = <<>> /\ (Unborrowed(c.type)' => Stands(session, c)')
    BY DEF Contest
  <2> DEFINE s == [session EXCEPT !.todo = Tail(@)]
  <2>1. /\ session.open /\ session.todo # <<>> /\ ~session.raised /\ session' = Resolved(s, Head(session.todo))
        /\ UNCHANGED <<memories, forgotten, jobs>>
    BY <1>5 DEF ResolveCandidate
  <2>2. Tail(session.todo) \in Seq(Candidate) /\ Head(session.todo) \in Candidate
    BY <1>1, <2>1, SessionTyped
  <2>3. /\ s \in Session /\ s.rows = session.rows /\ s.moved = session.moved
        /\ s.pending = session.pending /\ s.links = session.links /\ s.raised = session.raised
        /\ s.decision = session.decision /\ s.todo = Tail(session.todo)
    BY <1>1, <2>1, <2>2 DEF Session
  <2>4. Sound(session) /\ session.decision \in Decisions
    BY <2>1, NotOpen DEF IInv, Sound, Fits
  <2> HIDE DEF s
  <2>5. Sound(s)
    BY <2>3, <2>4, SameSound
  <2>6. Round(s, session')
    BY <1>1, <2>1, <2>2, <2>3, <2>4, <2>5, MemoryAssumptions, ResolvedRound DEF IInv, Tables
  <2>7. session'.decision = session.decision /\ session'.todo = Tail(session.todo)
    BY <2>3, <2>6 DEF Round, Step
  <2>8. Strong(session, c)
    BY <2>7 DEF Strong, Strongest, OfCardinality
  <2>9. session.todo = <<c>> /\ Fresh(session)
    BY <2>1, <2>8 DEF Contest
  <2>10. session'.todo = <<>> /\ session' = Resolved(s, c)
    BY <2>1, <2>7, <2>9
  <2>11. ASSUME Unborrowed(c.type)' PROVE Stands(session, c)'
    <3>1. Unborrowed(c.type)
      BY <2>1, <2>11 DEF Unborrowed, Borrowed
    <3>2. Strong(s, c) /\ Fresh(s) /\ Fits(s)
      BY <2>3, <2>5, <2>8, <2>9 DEF Strong, Fresh, Sound
    <3>3. Stands(Resolved(s, c), c)
      BY <1>1, <2>3, <2>4, <3>1, <3>2, MemoryAssumptions, ResolvedStands
    <3>4. QED BY <2>1, <2>10, <3>3 DEF Stands, StandsAt
  <2>12. QED BY <2>10, <2>11
<1>6. CASE PersistIntent
  <2> SUFFICES ASSUME session'.open, ~session'.raised, Strong(session, c)'
               PROVE  session'.todo = <<>> /\ (Unborrowed(c.type)' => Stands(session, c)')
    BY DEF Contest
  <2> DEFINE t == WithIntent(session)
             u == [t EXCEPT !.intended = TRUE]
  <2>1. /\ session.open /\ session.todo = <<>> /\ ~session.raised /\ ~session.intended
        /\ session' = u /\ UNCHANGED <<memories, forgotten>>
    BY <1>6 DEF PersistIntent
  <2>2. session.decision \in Decisions
    BY <1>1, <2>1 DEF Fits
  <2>3. /\ Aside(session, t) /\ t.moved = session.moved /\ DOMAIN session.rows \subseteq DOMAIN t.rows
        /\ \A i \in DOMAIN session.rows : SameRow(t.rows[i], session.rows[i])
    BY <1>1, <2>1, <2>2, MemoryAssumptions, IntentMovesNothing
  <2> HIDE DEF t
  <2>4. /\ u.decision = t.decision /\ u.todo = t.todo /\ u.moved = t.moved /\ u.rows = t.rows
    BY <2>3 DEF Aside, Session
  <2>5. session'.decision = session.decision /\ session'.todo = <<>>
    BY <2>1, <2>3, <2>4 DEF Aside
  <2>6. Strong(session, c)
    BY <2>5 DEF Strong, Strongest, OfCardinality
  <2>7. Unborrowed(c.type) => Stands(session, c)
    BY <2>1, <2>6 DEF Contest
  <2>8. Unborrowed(c.type)' => Unborrowed(c.type)
    BY <2>1 DEF Unborrowed, Borrowed
  <2> HIDE DEF u
  <2>9. Stands(session, c) => Stands(session, c)'
    BY <2>1, <2>3, <2>4, <2>5 DEF Stands, StandsAt, SameRow
  <2>10. QED BY <2>5, <2>7, <2>8, <2>9
<1>7. CASE BeginTtlCleanup \/ BeginRecompute
  <2>1. \E rows, moved : session' = MaintenanceSession(rows, moved)
    <3>1. CASE BeginTtlCleanup
      BY <3>1 DEF BeginTtlCleanup
    <3>2. CASE BeginRecompute
      BY <3>2 DEF BeginRecompute
    <3>3. QED BY <1>7, <3>1, <3>2
  <2>2. session'.decision = Absent
    BY <2>1 DEF MaintenanceSession
  <2>3. QED BY <2>2 DEF Contest, Strong
<1>8. ASSUME NEW user \in Users, ProcessForget(user) PROVE Contest(c)'
  <2>1. session' = NoSession
    BY <1>8, NotOpen DEF ProcessForget, Idle, IInv
  <2>2. QED BY <1>3, <2>1
<1>9. CASE EmbeddingBackfill
  <2>1. session' = NoSession
    BY <1>9, NotOpen DEF EmbeddingBackfill, Idle, IInv
  <2>2. QED BY <1>3, <2>1
<1>10. CASE WriteForget
  BY <1>10, ContestForgets DEF WriteForget
<1>11. QED BY <1>2, <1>3, <1>4, <1>5, <1>6, <1>7, <1>8, <1>9, <1>10
           DEF Next, CommitJob, Crash, ReadForget, vars
-----------------------------------------------------------------------------
(* The theorems                                                            *)

LEMMA InitHolds == Init => IInv
<1> SUFFICES ASSUME Init PROVE IInv
  OBVIOUS
<1>1. /\ memories = <<>> /\ relations = <<>> /\ entities = {} /\ jobs = 0 /\ unfinished = {}
      /\ forgotten = {} /\ forgetting.memories = {} /\ forgetting.relations = {}
      /\ session = NoSession
  BY DEF Init, NoForget
<1>2. DOMAIN memories = {} /\ DOMAIN relations = {} /\ Active = {}
  BY <1>1 DEF Active
<1>3. UniqueIn(memories, Active) /\ TableHeirs /\ TraceableUnlessFailed
  BY <1>2 DEF UniqueIn, TableHeirs, TraceableUnlessFailed
<1>4. RelationsSound /\ ForgottenStaysGone
  BY <1>1, <1>2 DEF RelationsSound, RelationsUnique, ForgottenStaysGone
<1>5. jobs \in 0 .. MaxJobs
  BY <1>1, MemoryAssumptions DEF MemoryAssumptions
<1>6. QED BY <1>1, <1>2, <1>3, <1>4, <1>5 DEF IInv, Tables, Working

LEMMA Inductive == IInv /\ [Next]_vars => IInv'
<1> SUFFICES ASSUME IInv, [Next]_vars PROVE IInv'
  OBVIOUS
<1>1. CASE BeginPersist
  BY <1>1, BeginPersistStep
<1>2. CASE ResolveCandidate
  BY <1>2, ResolveCandidateStep
<1>3. CASE PersistIntent
  BY <1>3, PersistIntentStep
<1>4. CASE BeginTtlCleanup
  BY <1>4, BeginTtlCleanupStep
<1>5. CASE BeginRecompute
  BY <1>5, BeginRecomputeStep
<1>6. CASE CommitJob
  BY <1>6, CommitJobStep
<1>7. CASE Crash
  BY <1>7, CrashStep
<1>8. CASE EmbeddingBackfill
  BY <1>8, EmbeddingBackfillStep
<1>9. ASSUME NEW user \in Users, ProcessForget(user) PROVE IInv'
  BY <1>9, ProcessForgetStep
<1>10. CASE ReadForget
  BY <1>10, ReadForgetStep
<1>11. CASE WriteForget
  BY <1>11, WriteForgetStep
<1>12. CASE UNCHANGED vars
  <2>1. /\ UNCHANGED <<memories, relations, entities, session, forgetting, jobs, unfinished, forgotten>>
    BY <1>12 DEF vars
  <2>2. Tables'
    BY <2>1, TablesNext, MemoryAssumptions DEF IInv, Tables, MemoryAssumptions
  <2>3. Working'
    BY <2>1, WorkingNext DEF IInv, Working
  <2>4. QED BY <2>2, <2>3 DEF IInv
<1>13. QED BY <1>1, <1>2, <1>3, <1>4, <1>5, <1>6, <1>7, <1>8, <1>9, <1>10, <1>11, <1>12 DEF Next

(* Whatever jobs, forgets, failures and restarts come, the tables and the  *)
(* worker's session stay sound.                                            *)
THEOREM TablesStaySound == Spec => []IInv
<1>1. QED BY InitHolds, Inductive, PTL DEF Spec

(* The variables keep their types, and a session what it has assigned.     *)
THEOREM Typed == Spec => []TypeOK
<1>1. IInv => TypeOK
  <2> SUFFICES ASSUME IInv PROVE TypeOK
    OBVIOUS
  <2>1. session.open => /\ session.rows \in Seq(Memory)
                        /\ session.links \in Seq(Relation)
                        /\ session.pending \subseteq session.moved
                        /\ session.moved \subseteq DOMAIN session.rows
    BY NotOpen, SessionTyped DEF IInv, Sound, Fits
  <2>2. QED BY <2>1 DEF IInv, Tables, TypeOK
<1>2. QED BY <1>1, TablesStaySound, PTL

(* A user has one active memory of a type with a single value, whatever    *)
(* the worker, its failures and the forget requests did in between:        *)
(* persist_event_job never leaves two.                                     *)
THEOREM OneActiveHolds == Spec => []OneActive
<1>1. IInv => OneActive
  <2> SUFFICES ASSUME IInv, NEW i \in Active, NEW j \in Active,
                      memories[i].user = memories[j].user, memories[i].type = memories[j].type,
                      memories[i].type \in OfCardinality("ONE_ACTIVE") \ Intents
               PROVE  i = j
    BY DEF OneActive
  <2>1. Rivals(memories[i], memories[j])
    BY DEF Rivals, Lone
  <2>2. QED BY <2>1 DEF IInv, Tables, UniqueIn
<1>2. QED BY <1>1, TablesStaySound, PTL

(* A key of a type that is resolved by key has one active memory: one      *)
(* interest per topic, one intent per workflow.                            *)
THEOREM OnePerKeyHolds == Spec => []OnePerKey
<1>1. IInv => OnePerKey
  <2> SUFFICES ASSUME IInv, NEW i \in Active, NEW j \in Active,
                      memories[i].user = memories[j].user, memories[i].type = memories[j].type,
                      memories[i].key = memories[j].key,
                      memories[i].type \in OfCardinality("ONE_ACTIVE") \cup OfCardinality("MANY_SCORED")
               PROVE  i = j
    BY DEF OnePerKey
  <2>1. Rivals(memories[i], memories[j])
    BY DEF Rivals, Keyed
  <2>2. QED BY <2>1 DEF IInv, Tables, UniqueIn
<1>2. QED BY <1>1, TablesStaySound, PTL

(* A superseded memory leads to exactly one younger memory of its user and *)
(* type, even if the job that replaced it failed half way.                 *)
THEOREM SupersededHasHeirHolds == Spec => []SupersededHasHeir
<1>1. IInv => SupersededHasHeir
  <2> SUFFICES ASSUME IInv PROVE SupersededHasHeir
    OBVIOUS
  <2>1. TableHeirs
    BY DEF IInv, Tables
  <2>2. ASSUME NEW i \in DOMAIN memories, NEW j \in DOMAIN memories, memories[j].supersedes = i
        PROVE  /\ {k \in DOMAIN memories : memories[k].supersedes = i} = {j}
               /\ i < j
               /\ memories[i].state # "active"
               /\ memories[j].user = memories[i].user
               /\ memories[j].type = memories[i].type
    <3>1. i # 0
      <4>1. memories \in Seq(Memory)
        BY DEF IInv, Tables
      <4>2. QED BY <4>1
    <3>2. QED BY <2>1, <2>2, <3>1 DEF TableHeirs, HeirOf
  <2>3. ASSUME NEW i \in DOMAIN memories, memories[i].state = "superseded",
               ~IsRelation(memories[i].type)
        PROVE  {k \in DOMAIN memories : memories[k].supersedes = i} # {}
    BY <2>1, <2>3 DEF TableHeirs
  <2>4. QED BY <2>2, <2>3 DEF SupersededHasHeir
<1>2. QED BY <1>1, TablesStaySound, PTL

(* A memory without evidence stems from a job that did not finish.         *)
THEOREM TraceableHolds == Spec => []TraceableUnlessFailed
<1>1. IInv => TraceableUnlessFailed
  BY DEF IInv, Tables
<1>2. QED BY <1>1, TablesStaySound, PTL

(* A relation is stored once, and counts its evidence.                     *)
THEOREM RelationsSoundHolds == Spec => []RelationsSound
<1>1. IInv => RelationsSound
  BY DEF IInv, Tables
<1>2. QED BY <1>1, TablesStaySound, PTL

(* What was forgotten is not active again: a worker that read it before    *)
(* does not write it back.                                                 *)
THEOREM ForgottenStaysGoneHolds == Spec => []ForgottenStaysGone
<1>1. IInv => ForgottenStaysGone
  BY DEF IInv, Tables
<1>2. QED BY <1>1, TablesStaySound, PTL

(* No step brings a memory back or gives it to another user or key.        *)
THEOREM NeverRevivedHolds == Spec => NeverRevived
<1> DEFINE A == \A i \in DOMAIN memories :
                   /\ memories[i].state # "active" => memories'[i].state # "active"
                   /\ memories'[i].key = memories[i].key /\ memories'[i].user = memories[i].user
<1>1. IInv /\ [Next]_vars => [A]_vars
  <2> SUFFICES ASSUME IInv, Next PROVE A
    OBVIOUS
  <2>1. CASE UNCHANGED memories
    BY <2>1
  <2>2. CASE ThinnedRows
    BY <2>2 DEF ThinnedRows, Thinned, SameRow
  <2>3. CASE CommitJob
    <3>1. Fits(session) /\ Tables
      BY <2>3, NotOpen DEF IInv, CommitJob, Sound
    <3>2. \A i \in DOMAIN session.rows : /\ SameRow(memories'[i], session.rows[i])
                                         /\ memories'[i].state = Outcome(session, i)
      BY <2>3, <3>1, WrittenRows DEF CommitJob
    <3>3. QED BY <3>1, <3>2 DEF Fits, Outcome, SameRow
  <2>4. CASE EmbeddingBackfill
    BY <2>2, <2>4, BackfillThins DEF IInv
  <2>5. ASSUME NEW user \in Users, ProcessForget(user) PROVE A
    BY <2>2, <2>5, DeletedRows DEF ProcessForget, IInv
  <2>6. CASE WriteForget
    BY <2>2, <2>6, DeletedRows DEF WriteForget, IInv
  <2>7. QED BY <2>1, <2>3, <2>4, <2>5, <2>6 DEF Next, BeginPersist, ResolveCandidate, PersistIntent,
               BeginTtlCleanup, BeginRecompute, Crash, ReadForget
<1>2. QED BY <1>1, TablesStaySound, PTL DEF Spec, NeverRevived

(* When a job with a value from the strongest source has been processed,   *)
(* its value is the active one, unless it was forgotten meanwhile:         *)
(* whatever forgets commit between the steps of persist_event_job, and     *)
(* whatever the intent of a workflow adds.                                 *)
THEOREM StrongestSourceWinsHolds == Spec => StrongestSourceWins
<1> DEFINE A == \A c \in Candidate :
                   /\ Updates(c)
                   /\ \A i \in DOMAIN memories : memories[i].type = c.type => ~Borrowed(i)
                   => Holds(c)
<1>1. Init => ContestInv
  BY DEF Init, ContestInv, Contest, NoSession
<1>2. IInv /\ ContestInv /\ [Next]_vars => ContestInv'
  BY ContestNext DEF ContestInv
<1>3. IInv /\ ContestInv /\ [Next]_vars => [A]_vars
  <2> SUFFICES ASSUME IInv, NEW c \in Candidate, Contest(c), Updates(c),
                      \A i \in DOMAIN memories : memories[i].type = c.type => ~Borrowed(i)
               PROVE  Holds(c)
    BY DEF ContestInv
  <2>1. Fits(session) /\ Tables /\ session.open /\ ~session.raised /\ Strong(session, c)
    BY NotOpen DEF IInv, Updates, CommitJob, Sound, Strong
  <2>2. session.todo = <<>> /\ forgotten' = forgotten /\ memories' = Written
    BY <2>1 DEF Updates, CommitJob
  <2>3. Stands(session, c)
    BY <2>1, <2>2 DEF Contest, Unborrowed
  <2>4. PICK i \in DOMAIN session.rows : StandsAt(session, c, i)
    BY <2>3 DEF Stands
  <2>5. /\ i \in DOMAIN memories' /\ SameRow(memories'[i], session.rows[i])
        /\ memories'[i].state = Outcome(session, i)
    BY <2>1, <2>2, WrittenRows
  <2>6. Outcome(session, i) = "active" \/ i \in forgotten
    BY <2>1, <2>4 DEF Outcome, StandsAt, Fits
  <2>7. QED BY <2>4, <2>5, <2>6 DEF Holds, StandsAt, SameRow
<1>4. QED BY <1>1, <1>2, <1>3, TablesStaySound, PTL DEF Spec, StrongestSourceWins
=============================================================================
