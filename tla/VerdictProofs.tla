------------------------------ MODULE VerdictProofs ------------------------------
(***************************************************************************)
(* What the decisions rest on: proofs about RepeatSignals, for every set   *)
(* of events, keys and days and every policy that passes OneSessionFalls-  *)
(* Short or TwoSessionsSuffice where a theorem asks for it, and about      *)
(* PolicyGate, for every set of types and extractors, every policy and     *)
(* every event.                                                            *)
(*                                                                         *)
(* A counter holds sums and cardinalities of the rows it was counted from. *)
(* The first part takes them apart: the recursion of MapThenSumSet is      *)
(* unrolled by induction on the size of the set (a least counterexample    *)
(* exists, by Least), and the score is bounded from the counts.  The       *)
(* invariant then says that each counter is such a count of rows that      *)
(* belong to decided events.                                               *)
(***************************************************************************)
EXTENDS RepeatSignals, PolicyGate, FiniteSetTheorems, SequenceTheorems, WellFoundedInduction, TLAPS

-----------------------------------------------------------------------------
(* Numbers                                                                 *)

LEMMA Least ==
    ASSUME NEW T, T \subseteq Nat, T # {}
    PROVE  \E m \in T : \A n \in T : m <= n
<1> DEFINE less == OpToRel(<, Nat)
<1>1. IsWellFoundedOn(less, Nat)
  BY NatLessThanWellFounded
<1>2. \E m \in T : \A n \in T : ~(<<n, m>> \in less)
  <2> HIDE DEF less
  <2>1. QED BY <1>1, WFMin
<1>3. PICK m \in T : \A n \in T : ~(<<n, m>> \in less)
  BY <1>2
<1>4. \A n \in T : ~(n < m)
  BY <1>3 DEF OpToRel
<1> QED BY <1>4

LEMMA MaxIsGreatest ==
    ASSUME NEW n \in Nat, NEW S, S \subseteq 0 .. n, S # {}
    PROVE  Max(S) \in S /\ \A x \in S : x <= Max(S)
<1> DEFINE T == {n - x : x \in S}
<1>1. T \subseteq Nat /\ T # {}
  <2>1. \A x \in S : x \in Int /\ n - x \in Nat
    OBVIOUS
  <2>2. PICK x \in S : TRUE
    OBVIOUS
  <2>3. QED BY <2>1, <2>2
<1>2. PICK m \in T : \A x \in T : m <= x
  <2> HIDE DEF T
  <2>1. QED BY <1>1, Least
<1>3. PICK y \in S : m = n - y
  OBVIOUS
<1>4. \A x \in S : x \in 0 .. n /\ m <= n - x
  BY <1>2
<1>5. \A x \in S : y >= x
  BY <1>3, <1>4
<1>6. Max(S) \in S /\ \A x \in S : Max(S) >= x
  BY <1>5 DEF Max
<1>7. QED BY <1>4, <1>6

LEMMA MaxOfTwo ==
    ASSUME NEW a \in Int, NEW b \in Int
    PROVE  Max({a, b}) = IF a >= b THEN a ELSE b
<1> DEFINE m == IF a >= b THEN a ELSE b
<1>1. m \in {a, b} /\ \A y \in {a, b} : m >= y
  OBVIOUS
<1>2. \A x \in {a, b} : (\A y \in {a, b} : x >= y) => x = m
  OBVIOUS
<1> HIDE DEF m
<1>3. Max({a, b}) = m
  BY <1>1, <1>2 DEF Max
<1> QED BY <1>3 DEF m

LEMMA CappedIsLess ==
    ASSUME NEW a \in Int, NEW b \in Int
    PROVE  Capped(a, b) = IF a <= b THEN a ELSE b
<1> DEFINE m == IF a <= b THEN a ELSE b
<1>1. m \in {a, b} /\ \A y \in {a, b} : m <= y
  OBVIOUS
<1>2. \A x \in {a, b} : (\A y \in {a, b} : x <= y) => x = m
  OBVIOUS
<1> HIDE DEF m
<1>3. Capped(a, b) = m
  BY <1>1, <1>2 DEF Capped, Min
<1> QED BY <1>3 DEF m

(* An observation weighs at most one, and one on its own day.              *)
LEMMA HalvedBounds ==
    ASSUME SignalAssumptions, NEW n \in Nat, NEW age \in Nat
    PROVE  Halved(n, age) \in 0 .. n /\ (age = 0 => Halved(n, age) = n)
<1>1. HalfLife \in Nat /\ HalfLife > 0
  BY DEF SignalAssumptions
<1>2. CASE age < HalfLife
  BY <1>2 DEF Halved
<1>3. CASE ~(age < HalfLife)
  <2> DEFINE S == {m \in 0 .. n : m * 2^(age \div HalfLife) <= n}
  <2>1. age \div HalfLife \in Nat
    BY <1>1
  <2>2. 2^(age \div HalfLife) \in Int
    BY <2>1
  <2>3. 0 \in S
    BY <2>2
  <2>4. Halved(n, age) = Max(S)
    BY <1>3 DEF Halved
  <2>5. S \subseteq 0 .. n
    OBVIOUS
  <2> HIDE DEF S
  <2>6. Max(S) \in S
    BY <2>3, <2>5, MaxIsGreatest
  <2>7. age # 0
    BY <1>1, <1>3
  <2>8. QED BY <2>4, <2>5, <2>6, <2>7
<1> QED BY <1>2, <1>3

LEMMA WeightBounds ==
    ASSUME SignalAssumptions, NEW o, o.day \in Nat, NEW day \in Nat
    PROVE  Weight(o, day) \in 0 .. Full /\ (o.day = day => Weight(o, day) = Full)
<1> DEFINE age == Max({day - o.day, 0})
<1>1. age \in Nat /\ (o.day = day => age = 0)
  <2> DEFINE d == day - o.day
  <2>1. d \in Int /\ (o.day = day => d = 0)
    OBVIOUS
  <2> HIDE DEF d
  <2>2. Max({d, 0}) = IF d >= 0 THEN d ELSE 0
    BY <2>1, MaxOfTwo
  <2>3. Max({d, 0}) \in Nat /\ (o.day = day => Max({d, 0}) = 0)
    BY <2>1, <2>2
  <2>4. QED BY <2>3 DEF d
<1> HIDE DEF age
<1>2. Full \in Nat
  BY DEF SignalAssumptions
<1> QED BY <1>1, <1>2, HalvedBounds DEF Weight, age
-----------------------------------------------------------------------------
(* The sum of the weights: the recursion of MapThenSumSet, unrolled.       *)

OneOf(s) == CHOOSE x \in s : TRUE

Sums(sum, D, day) ==
    sum = [s \in D |-> IF s = {} THEN 0 ELSE Weight(OneOf(s), day) + sum[s \ {OneOf(s)}]]

UpTo(S, n) == {s \in SUBSET S : Cardinality(s) <= n}

LEMMA Fewer ==
    ASSUME NEW s, IsFiniteSet(s), s # {}
    PROVE  /\ OneOf(s) \in s /\ IsFiniteSet(s \ {OneOf(s)})
           /\ Cardinality(s) \in Nat /\ Cardinality(s) # 0
           /\ Cardinality(s \ {OneOf(s)}) = Cardinality(s) - 1
BY FS_RemoveElement, FS_CardinalityType, FS_EmptySet DEF OneOf

LEMMA SumsUpTo ==
    ASSUME NEW S, IsFiniteSet(S), NEW day, NEW n \in Nat
    PROVE  \E sum : Sums(sum, UpTo(S, n), day)
<1> SUFFICES ASSUME ~\E sum : Sums(sum, UpTo(S, n), day) PROVE FALSE
  OBVIOUS
<1> DEFINE T == {m \in Nat : ~\E sum : Sums(sum, UpTo(S, m), day)}
<1>1. PICK m \in T : \A k \in T : m <= k
  <2>1. T \subseteq Nat /\ T # {}
    OBVIOUS
  <2> HIDE DEF T
  <2>2. QED BY <2>1, Least
<1>2. m \in Nat /\ ~\E sum : Sums(sum, UpTo(S, m), day)
  BY <1>1
<1>3. \A s \in SUBSET S : IsFiniteSet(s) /\ Cardinality(s) \in Nat /\ (Cardinality(s) = 0 <=> s = {})
  BY FS_Subset, FS_CardinalityType, FS_EmptySet
<1>4. CASE m = 0
  <2> DEFINE sum == [s \in UpTo(S, 0) |-> 0]
  <2>1. \A s \in UpTo(S, 0) : s = {}
    BY <1>3 DEF UpTo
  <2>2. Sums(sum, UpTo(S, 0), day)
    BY <2>1 DEF Sums
  <2>3. QED BY <1>2, <1>4, <2>2
<1>5. CASE m # 0
  <2>1. m - 1 \in Nat /\ m - 1 \notin T
    BY <1>1, <1>2, <1>5
  <2>2. PICK sum : Sums(sum, UpTo(S, m - 1), day)
    BY <2>1
  <2> DEFINE next == [s \in UpTo(S, m) |-> IF s = {} THEN 0
                                           ELSE Weight(OneOf(s), day) + sum[s \ {OneOf(s)}]]
  <2>3. UpTo(S, m - 1) \subseteq UpTo(S, m)
    BY <1>2, <1>3 DEF UpTo
  <2>4. \A s \in UpTo(S, m - 1) : next[s] = sum[s]
    BY <2>2, <2>3 DEF Sums
  <2>5. \A s \in UpTo(S, m) : s # {} => s \ {OneOf(s)} \in UpTo(S, m - 1)
    BY <1>2, <1>3, Fewer DEF UpTo
  <2>6. \A s \in UpTo(S, m) : next[s] = IF s = {} THEN 0
                                        ELSE Weight(OneOf(s), day) + next[s \ {OneOf(s)}]
    BY <2>4, <2>5
  <2>7. Sums(next, UpTo(S, m), day)
    BY <2>6 DEF Sums
  <2>8. QED BY <1>2, <2>7
<1> QED BY <1>4, <1>5

LEMMA SumsAll ==
    ASSUME NEW S, IsFiniteSet(S), NEW day
    PROVE  \E sum : Sums(sum, SUBSET S, day) /\ Decayed(S, day) = sum[S]
<1> DEFINE f == CHOOSE sum : sum = [s \in SUBSET S |->
                    IF s = {} THEN 0
                    ELSE Weight(CHOOSE x \in s : TRUE, day) + sum[s \ {CHOOSE x \in s : TRUE}]]
<1>1. Decayed(S, day) = f[S]
  BY DEF Decayed, MapThenSumSet, MapThenFoldSet
<1>2. Cardinality(S) \in Nat /\ UpTo(S, Cardinality(S)) = SUBSET S
  BY FS_Subset, FS_CardinalityType DEF UpTo
<1>3. \E sum : Sums(sum, SUBSET S, day)
  <2>1. \E sum : Sums(sum, UpTo(S, Cardinality(S)), day)
    BY <1>2, SumsUpTo
  <2>2. QED BY <1>2, <2>1
<1>4. Sums(f, SUBSET S, day)
  BY <1>3 DEF Sums, OneOf
<1> QED BY <1>1, <1>4

(* A sum of weights is a number, and no less than any of them.             *)
LEMMA SumBounds ==
    ASSUME NEW S, IsFiniteSet(S), NEW day, \A o \in S : Weight(o, day) \in Nat
    PROVE  /\ Decayed(S, day) \in Nat
           /\ \A o \in S : Weight(o, day) <= Decayed(S, day)
<1>1. PICK sum : Sums(sum, SUBSET S, day) /\ Decayed(S, day) = sum[S]
  BY SumsAll
<1> DEFINE Good(s) == sum[s] \in Nat /\ \A o \in s : Weight(o, day) <= sum[s]
           T == {Cardinality(s) : s \in {s \in SUBSET S : ~Good(s)}}
<1>2. \A s \in SUBSET S : IsFiniteSet(s) /\ Cardinality(s) \in Nat
  BY FS_Subset, FS_CardinalityType
<1>3. SUFFICES ASSUME ~Good(S) PROVE FALSE
  BY <1>1
<1>4. PICK m \in T : \A k \in T : m <= k
  <2>1. T \subseteq Nat /\ T # {}
    BY <1>2, <1>3
  <2> HIDE DEF T
  <2>2. QED BY <2>1, Least
<1>5. PICK s \in SUBSET S : ~Good(s) /\ Cardinality(s) = m
  OBVIOUS
<1>6. sum[s] = IF s = {} THEN 0 ELSE Weight(OneOf(s), day) + sum[s \ {OneOf(s)}]
  BY <1>1 DEF Sums
<1>7. CASE s = {}
  BY <1>5, <1>6, <1>7
<1>8. CASE s # {}
  <2> DEFINE x == OneOf(s)
             r == s \ {x}
  <2>1. x \in s /\ Cardinality(r) = m - 1 /\ m \in Nat /\ r \in SUBSET S
    BY <1>2, <1>5, <1>8, Fewer
  <2>2. Good(r)
    <3>1. ~Good(r) => Cardinality(r) \in T
      BY <2>1
    <3>2. Cardinality(r) \notin T
      <4> HIDE DEF T
      <4>1. QED BY <1>4, <2>1
    <3>3. QED BY <3>1, <3>2
  <2>3. Weight(x, day) \in Nat /\ \A o \in s : o = x \/ o \in r
    BY <2>1
  <2>4. sum[s] = Weight(x, day) + sum[r]
    BY <1>6, <1>8
  <2>5. \A o \in s : Weight(o, day) \in Nat
    OBVIOUS
  <2> HIDE DEF x, r
  <2>6. Good(s)
    BY <2>2, <2>3, <2>4, <2>5
  <2>7. QED BY <1>5, <2>6
<1> QED BY <1>7, <1>8
-----------------------------------------------------------------------------
(* The counts of a recount                                                 *)

LEMMA ImageIsFinite ==
    ASSUME NEW S, IsFiniteSet(S), NEW f
    PROVE  LET T == {f[x] : x \in S}
           IN  IsFiniteSet(T) /\ Cardinality(T) \in Nat /\ Cardinality(T) <= Cardinality(S)
<1> DEFINE T == {f[x] : x \in S}
           g == [x \in S |-> f[x]]
<1>1. g \in Surjection(S, T)
  BY DEF Surjection
<1> HIDE DEF T, g
<1>2. IsFiniteSet(T) /\ Cardinality(T) <= Cardinality(S)
  BY <1>1, FS_Surjection
<1>3. QED BY <1>2, FS_CardinalityType DEF T

(* An image without two equal members is as large.                         *)
LEMMA ImageIsAsLarge ==
    ASSUME NEW S, IsFiniteSet(S), NEW f, \A x, y \in S : f[x] = f[y] => x = y
    PROVE  Cardinality({f[x] : x \in S}) = Cardinality(S)
<1> DEFINE T == {f[x] : x \in S}
           g == [x \in S |-> f[x]]
<1>1. g \in Surjection(S, T) /\ g \in Injection(S, T)
  BY DEF Surjection, Injection, IsInjective
<1> HIDE DEF T, g
<1>2. Cardinality(T) = Cardinality(S)
  BY <1>1, FS_Surjection
<1>3. QED BY <1>2 DEF T

LEMMA Inhabited ==
    ASSUME NEW S, IsFiniteSet(S)
    PROVE  /\ Cardinality(S) \in Nat
           /\ S # {} => Cardinality(S) >= 1
           /\ \A x \in S : (\A y \in S : y = x) => Cardinality(S) = 1
<1>1. Cardinality(S) \in Nat /\ (Cardinality(S) = 0 <=> S = {})
  BY FS_CardinalityType, FS_EmptySet
<1>2. ASSUME NEW x \in S, \A y \in S : y = x PROVE Cardinality(S) = 1
  <2>1. S = {x}
    BY <1>2
  <2>2. QED BY <2>1, FS_Singleton
<1> QED BY <1>1, <1>2

SessionsOf(rows) == {o.session : o \in rows} \ {NoSession}
Largest(rows) == Max({0} \cup {Cardinality({o \in rows : o.session = s}) : s \in SessionsOf(rows)})

LEMMA LargestBounds ==
    ASSUME NEW rows, IsFiniteSet(rows)
    PROVE  /\ Largest(rows) \in 0 .. Cardinality(rows)
           /\ \A s \in SessionsOf(rows) : Cardinality({o \in rows : o.session = s}) <= Largest(rows)
           /\ Largest(rows) = 0 \/ \E s \in SessionsOf(rows) :
                                      Largest(rows) = Cardinality({o \in rows : o.session = s})
<1> DEFINE size(s) == Cardinality({o \in rows : o.session = s})
           S == {0} \cup {size(s) : s \in SessionsOf(rows)}
           n == Cardinality(rows)
<1>1. n \in Nat
  BY FS_CardinalityType
<1>2. ASSUME NEW s PROVE size(s) \in 0 .. n
  <2> DEFINE of == {o \in rows : o.session = s}
  <2>1. of \in SUBSET rows
    OBVIOUS
  <2> HIDE DEF of
  <2>2. IsFiniteSet(of) /\ Cardinality(of) <= n
    BY <2>1, FS_Subset
  <2>3. Cardinality(of) \in Nat
    BY <2>2, FS_CardinalityType
  <2>4. QED BY <1>1, <2>2, <2>3 DEF of
<1> HIDE DEF n, size
<1>3. S \subseteq 0 .. n /\ S # {}
  BY <1>1, <1>2
<1>4. Max(S) \in S /\ \A x \in S : x <= Max(S)
  <2> HIDE DEF S
  <2>1. QED BY <1>1, <1>3, MaxIsGreatest
<1>5. Largest(rows) = Max(S)
  BY DEF Largest, size
<1>6. Max(S) \in 0 .. n
  BY <1>3, <1>4
<1>7. \A s \in SessionsOf(rows) : size(s) <= Max(S)
  BY <1>4
<1>8. Max(S) = 0 \/ \E s \in SessionsOf(rows) : Max(S) = size(s)
  BY <1>4
<1> HIDE DEF S
<1> QED BY <1>5, <1>6, <1>7, <1>8 DEF n, size

(* What Counted says of a nonempty set of rows.                            *)
LEMMA CountedFacts ==
    ASSUME SignalAssumptions, NEW rows, rows \subseteq Observation, IsFiniteSet(rows),
           NEW day \in Nat
    PROVE  LET c == Counted(rows, day)
           IN  /\ c \in Counter
               /\ c.decayed = Decayed(rows, day)
               /\ c.sessions = Cardinality(SessionsOf(rows))
               /\ c.days = Cardinality({o.day : o \in rows})
               /\ c.sources = Cardinality({o.source : o \in rows})
               /\ c.most = Largest(rows)
               /\ c.total = Cardinality(rows)
<1> DEFINE c == Counted(rows, day)
<1>1. c = [decayed  |-> Decayed(rows, day),
           sessions |-> Cardinality(SessionsOf(rows)),
           days     |-> Cardinality({o.day : o \in rows}),
           sources  |-> Cardinality({o.source : o \in rows}),
           most     |-> Largest(rows),
           total    |-> Cardinality(rows)]
  BY DEF Counted, SessionsOf, Largest
<1>2. \A o \in rows : o.day \in Nat
  BY DEF Observation, SignalAssumptions
<1>3. Decayed(rows, day) \in Nat
  <2>1. ASSUME NEW o \in rows PROVE Weight(o, day) \in Nat
    <3>1. Full \in Nat /\ Weight(o, day) \in 0 .. Full
      BY <1>2, WeightBounds DEF SignalAssumptions
    <3>2. QED BY <3>1
  <2>2. QED BY <2>1, SumBounds
<1>4. Cardinality(SessionsOf(rows)) \in Nat
  <2> DEFINE f == [o \in rows |-> o.session]
             T == {f[o] : o \in rows}
  <2>1. SessionsOf(rows) = T \ {NoSession}
    BY DEF SessionsOf
  <2>2. IsFiniteSet(T)
    <3> HIDE DEF f
    <3>1. QED BY ImageIsFinite
  <2> HIDE DEF T
  <2>3. IsFiniteSet(T \ {NoSession})
    BY <2>2, FS_Difference
  <2>4. QED BY <2>1, <2>3, FS_CardinalityType
<1>5. Cardinality({o.day : o \in rows}) \in Nat
  <2> DEFINE f == [o \in rows |-> o.day]
  <2>1. {o.day : o \in rows} = {f[o] : o \in rows}
    OBVIOUS
  <2> HIDE DEF f
  <2>2. Cardinality({f[o] : o \in rows}) \in Nat
    BY ImageIsFinite
  <2>3. QED BY <2>1, <2>2
<1>6. Cardinality({o.source : o \in rows}) \in Nat
  <2> DEFINE f == [o \in rows |-> o.source]
  <2>1. {o.source : o \in rows} = {f[o] : o \in rows}
    OBVIOUS
  <2> HIDE DEF f
  <2>2. Cardinality({f[o] : o \in rows}) \in Nat
    BY ImageIsFinite
  <2>3. QED BY <2>1, <2>2
<1>7. Cardinality(rows) \in Nat /\ Largest(rows) \in Nat
  BY FS_CardinalityType, LargestBounds
<1>8. c \in Counter
  BY <1>1, <1>3, <1>4, <1>5, <1>6, <1>7 DEF Counter
<1> HIDE DEF c
<1> QED BY <1>1, <1>8 DEF c
-----------------------------------------------------------------------------
(* The invariant: only decided events have observations, the ones their    *)
(* request calls for, and the counters count them.                         *)

Known == \A e \in Events : stage[e] # "new" => event[e] \in Event
Founded == \A o \in observations : stage[o.of] # "new" /\ o \in Observed(o.of)

IInv == /\ TypeOK
        /\ IsFiniteSet(observations)
        /\ Known
        /\ Founded
        /\ CountersCount

LEMMA KeysOfFinite ==
    ASSUME SignalAssumptions, NEW a \in Apis
    PROVE  IsFiniteSet(KeysOf(a)) /\ First([api |-> a]) \in KeysOf(a) /\ KeysOf(a) \subseteq Keys
<1> DEFINE s == Entry[a].candidates
<1>1. s \in Seq(KeysOf(a)) /\ s # <<>>
  BY DEF SignalAssumptions
<1>2. DOMAIN s = 1 .. Len(s) /\ Len(s) \in Nat
  <2> HIDE DEF s
  <2>1. QED BY <1>1
<1>3. KeysOf(a) = {s[i] : i \in DOMAIN s}
  BY DEF KeysOf
<1>4. 1 \in DOMAIN s
  <2> HIDE DEF s
  <2>1. QED BY <1>1
<1>5. First([api |-> a]) = s[1]
  BY DEF First
<1>6. s[1] \in KeysOf(a)
  BY <1>4 DEF KeysOf
<1> HIDE DEF s
<1>7. IsFiniteSet(KeysOf(a))
  <2> DEFINE n == Len(s)
  <2>1. n \in Nat /\ DOMAIN s = 1 .. n
    BY <1>2
  <2> HIDE DEF n
  <2>2. IsFiniteSet(1 .. n)
    BY <2>1, FS_Interval
  <2>3. IsFiniteSet(DOMAIN s)
    BY <2>1, <2>2
  <2>4. QED BY <1>3, <2>3, ImageIsFinite
<1> QED BY <1>5, <1>6, <1>7 DEF Keys

LEMMA ObservedFacts ==
    ASSUME SignalAssumptions, NEW e \in Events, event[e] \in Event
    PROVE  /\ IsFiniteSet(Observed(e)) /\ Observed(e) \subseteq Observation
           /\ \A o \in Observed(e) : /\ o.of = e /\ o.key \in KeysOf(event[e].api)
                                     /\ o.day = event[e].day
           /\ \A k \in KeysOf(event[e].api) : \E o \in Observed(e) : o.key = k
<1> DEFINE f == [k \in KeysOf(event[e].api) |->
                   [of |-> e, key |-> k, session |-> event[e].session, day |-> event[e].day,
                    source |-> Entry[event[e].api].source]]
<1>1. /\ event[e].api \in Apis /\ event[e].day \in Days
      /\ event[e].session \in Sessions \cup {NoSession}
  BY DEF Event
<1>2. Entry[event[e].api].source \in Sources /\ KeysOf(event[e].api) \subseteq Keys
  BY <1>1, KeysOfFinite DEF SignalAssumptions
<1>3. Observed(e) = {f[k] : k \in KeysOf(event[e].api)}
  BY DEF Observed
<1>4. \A k \in KeysOf(event[e].api) :
        /\ f[k] \in Observation /\ f[k].of = e /\ f[k].key = k /\ f[k].day = event[e].day
  BY <1>1, <1>2 DEF Observation
<1> HIDE DEF f
<1>5. IsFiniteSet(KeysOf(event[e].api))
  BY <1>1, KeysOfFinite
<1>6. IsFiniteSet(Observed(e))
  BY <1>3, <1>5, ImageIsFinite
<1> QED BY <1>3, <1>4, <1>6

(* Two observations of one event are of two keys.                          *)
LEMMA OnePerEvent ==
    ASSUME NEW o, NEW p, o \in Observed(o.of), p \in Observed(p.of),
           o.of = p.of, o.key = p.key
    PROVE  o = p
BY DEF Observed

LEMMA InitIInv ==
    ASSUME Init PROVE IInv
<1>1. TypeOK
  BY DEF Init, TypeOK
<1>2. IsFiniteSet(observations) /\ Known /\ Founded
  BY FS_EmptySet DEF Init, Known, Founded
<1>3. CountersCount
  BY DEF Init, CountersCount
<1> QED BY <1>1, <1>2, <1>3 DEF IInv

(* A step that leaves the tables alone and takes no event back.            *)
LEMMA TablesKept ==
    ASSUME IInv, UNCHANGED tables, TypeOK', Known',
           \A e \in Events : stage[e] # "new" => stage'[e] # "new" /\ event'[e] = event[e]
    PROVE  IInv'
<1>1. Founded'
  <2> SUFFICES ASSUME NEW o \in observations PROVE stage'[o.of] # "new" /\ o \in Observed(o.of)'
    BY DEF Founded, tables
  <2>1. o.of \in Events /\ stage[o.of] # "new" /\ o \in Observed(o.of)
    BY DEF IInv, TypeOK, Founded, Observation
  <2>2. QED BY <2>1 DEF Observed
<1>2. CountersCount'
  BY DEF IInv, CountersCount, tables
<1> QED BY <1>1, <1>2 DEF IInv, tables

LEMMA CountKeeps ==
    ASSUME SignalAssumptions, NoCounter \notin Counter, IInv, NEW e \in Events, Count(e)
    PROVE  IInv'
<1> DEFINE day == event[e].day
           recounted == KeysOf(event[e].api)
           W(k) == InWindow(observations', k, day)
<1>1. /\ event[e] \in Event /\ day \in Days /\ day \in Nat
      /\ stage' = [stage EXCEPT ![e] = "counted"]
      /\ observations' = observations \cup Observed(e)
      /\ event' = event /\ verdict' = verdict
      /\ counter' = [k \in Keys |-> IF k \in recounted THEN Counted(W(k), day) ELSE counter[k]]
  <2>1. stage[e] = "queued" /\ event[e] \in Event
    BY DEF Count, IInv, Known
  <2>2. day \in Days /\ day \in Nat
    BY <2>1 DEF Event, SignalAssumptions
  <2>3. counter' = Recount(observations', e)
    BY DEF Count
  <2>4. QED BY <2>1, <2>2, <2>3 DEF Count, Recount
<1> HIDE DEF day
<1>2. /\ IsFiniteSet(Observed(e)) /\ Observed(e) \subseteq Observation
      /\ \A o \in Observed(e) : o.of = e /\ o.key \in recounted /\ o.day = day
      /\ \A k \in recounted : \E o \in Observed(e) : o.key = k
  BY <1>1, ObservedFacts DEF day
<1>3. IsFiniteSet(observations') /\ observations' \subseteq Observation
  BY <1>1, <1>2, FS_Union DEF IInv, TypeOK
<1>4. ASSUME NEW k
      PROVE  /\ IsFiniteSet(W(k)) /\ W(k) \subseteq Observation
             /\ Counted(W(k), day) \in Counter
             /\ Counted(W(k), day).decayed = Decayed(W(k), day)
  <2>1. W(k) \in SUBSET observations'
    BY DEF InWindow
  <2> HIDE DEF W
  <2>2. IsFiniteSet(W(k)) /\ W(k) \subseteq Observation
    BY <1>3, <2>1, FS_Subset
  <2>3. QED BY <1>1, <2>2, CountedFacts
<1>5. TypeOK'
  <2>1. stage' \in [Events -> {"new", "decided", "queued", "counted", "failed"}]
    BY <1>1 DEF IInv, TypeOK
  <2>2. counter' \in [Keys -> Counter \cup {NoCounter}]
    <3>1. \A k : Counted(W(k), day) \in Counter
      BY <1>4
    <3> HIDE DEF W
    <3>2. QED BY <1>1, <3>1 DEF IInv, TypeOK
  <2>3. QED BY <1>1, <1>3, <2>1, <2>2 DEF IInv, TypeOK
<1>6. Known'
  BY <1>1 DEF IInv, Known, TypeOK
<1>7. Founded'
  <2> SUFFICES ASSUME NEW o \in observations' PROVE stage'[o.of] # "new" /\ o \in Observed(o.of)'
    BY DEF Founded
  <2>1. o.of \in Events /\ o \in Observed(o.of) /\ (o.of = e \/ stage[o.of] # "new")
    BY <1>1, <1>2 DEF IInv, TypeOK, Founded, Observation
  <2>2. Observed(o.of)' = Observed(o.of)
    BY <1>1 DEF Observed
  <2>3. QED BY <1>1, <2>1, <2>2 DEF IInv, TypeOK
<1>8. CountersCount'
  <2> SUFFICES ASSUME NEW k \in Keys
      PROVE  LET rows == {o \in observations' : o.key = k}
             IN  IF counter'[k] = NoCounter THEN rows = {}
                 ELSE /\ \E o \in rows : counter'[k] = Counted(InWindow(rows, k, o.day), o.day)
                      /\ counter'[k].decayed >= Full
    BY DEF CountersCount
  <2> DEFINE rows == {o \in observations' : o.key = k}
  <2>1. CASE k \in recounted
    <3>1. counter'[k] = Counted(W(k), day) /\ counter'[k] # NoCounter
      BY <1>1, <1>4, <2>1
    <3>2. PICK r \in Observed(e) : r.key = k /\ r.day = day
      BY <1>2, <2>1
    <3>3. r \in rows
      BY <1>1, <3>2
    <3>4. InWindow(rows, k, day) = W(k)
      BY DEF InWindow
    <3>5. r \in W(k)
      BY <1>1, <3>2, <3>3 DEF InWindow, SignalAssumptions
    <3>6. \A o \in W(k) : o.day \in Nat
      <4>1. W(k) \subseteq Observation
        BY <1>4
      <4> HIDE DEF W
      <4>2. QED BY <4>1 DEF Observation, SignalAssumptions
    <3>7. Decayed(W(k), day) >= Full
      <4> HIDE DEF W
      <4>1. \A o \in W(k) : Weight(o, day) \in 0 .. Full
        BY <1>1, <3>6, WeightBounds
      <4>2. Weight(r, day) = Full /\ Full \in Nat
        BY <1>1, <3>2, <3>5, <3>6, WeightBounds DEF SignalAssumptions
      <4>3. \A o \in W(k) : Weight(o, day) \in Nat
        BY <4>1, <4>2
      <4>4. Decayed(W(k), day) \in Nat /\ Weight(r, day) <= Decayed(W(k), day)
        BY <1>4, <3>5, <4>3, SumBounds
      <4>5. QED BY <4>2, <4>4
    <3>8. counter'[k].decayed >= Full
      BY <1>4, <3>1, <3>7
    <3> HIDE DEF W, rows
    <3>9. counter'[k] = Counted(InWindow(rows, k, r.day), r.day)
      BY <3>1, <3>2, <3>4
    <3>10. QED BY <3>1, <3>3, <3>8, <3>9 DEF rows
  <2>2. CASE k \notin recounted
    <3>1. counter'[k] = counter[k]
      BY <1>1, <2>2
    <3>2. rows = {o \in observations : o.key = k}
      BY <1>1, <1>2, <2>2
    <3> HIDE DEF rows
    <3>3. IF counter[k] = NoCounter THEN rows = {}
          ELSE /\ \E o \in rows : counter[k] = Counted(InWindow(rows, k, o.day), o.day)
               /\ counter[k].decayed >= Full
      BY <3>2 DEF IInv, CountersCount
    <3>4. QED BY <3>1, <3>3 DEF rows
  <2>3. QED BY <2>1, <2>2
<1> QED BY <1>3, <1>5, <1>6, <1>7, <1>8 DEF IInv

LEMMA NextKeeps ==
    ASSUME IInv, [Next]_vars PROVE IInv'
<1>1. ASSUME NEW e \in Events, Judge(e) PROVE IInv'
  <2>1. PICK x \in Event : /\ event' = [event EXCEPT ![e] = x]
                           /\ verdict' = [verdict EXCEPT ![e] = Judged(x)]
    BY <1>1 DEF Judge
  <2>2. Judged(x) \in {"OBSERVE", "UPSERT", "other"}
    BY DEF Judged
  <2>3. TypeOK' /\ Known'
    BY <1>1, <2>1, <2>2 DEF Judge, IInv, TypeOK, Known, tables
  <2>4. \A d \in Events : stage[d] # "new" => stage'[d] # "new" /\ event'[d] = event[d]
    BY <1>1, <2>1 DEF Judge, IInv, TypeOK
  <2>5. QED BY <1>1, <2>3, <2>4, TablesKept DEF Judge
<1>2. ASSUME NEW e \in Events, Enqueue(e) \/ Miss(e) PROVE IInv'
  <2>1. TypeOK' /\ Known'
    BY <1>2 DEF Enqueue, Miss, IInv, TypeOK, Known, tables
  <2>2. \A d \in Events : stage[d] # "new" => stage'[d] # "new" /\ event'[d] = event[d]
    BY <1>2 DEF Enqueue, Miss, IInv, TypeOK
  <2>3. QED BY <1>2, <2>1, <2>2, TablesKept DEF Enqueue, Miss
<1>3. ASSUME NEW e \in Events, Count(e) PROVE IInv'
  BY <1>3, CountKeeps, SignalAssumptions, NoCounterAssumption
<1>4. CASE UNCHANGED vars
  <2>1. TypeOK' /\ Known' /\ UNCHANGED <<tables, stage, event>>
    BY <1>4 DEF IInv, TypeOK, Known, vars, tables
  <2>2. QED BY <2>1, TablesKept
<1> QED BY <1>1, <1>2, <1>3, <1>4 DEF Next

LEMMA Invariance == Spec => []IInv
BY InitIInv, NextKeeps, PTL DEF Spec

(* Theorem: the types.                                                     *)
THEOREM TypeCorrect == Spec => []TypeOK
<1>1. IInv => TypeOK
  BY DEF IInv
<1> QED BY <1>1, Invariance, PTL

(* Theorem: a counter is the count of the observations, at the day of one  *)
(* of them, and worth at least a fresh one, whatever the half-life, the    *)
(* window and the order of arrival.                                        *)
THEOREM CountersCountHolds == Spec => []CountersCount
<1>1. IInv => CountersCount
  BY DEF IInv
<1> QED BY <1>1, Invariance, PTL
-----------------------------------------------------------------------------
(* The score                                                               *)

LEMMA Share ==
    ASSUME NEW w \in Nat, NEW n \in Int, NEW m \in Int, n <= m
    PROVE  w * n <= w * m /\ w * n \in Int /\ w * m \in Int
OBVIOUS

LEMMA WholeShare ==
    ASSUME NEW w \in Nat, NEW d \in Nat, NEW full \in Nat \ {0}
    PROVE  /\ (w * Capped(d, full)) \div full \in 0 .. w
           /\ d >= full => (w * Capped(d, full)) \div full = w
<1> DEFINE n == Capped(d, full)
<1>1. n \in 0 .. full /\ (d >= full => n = full)
  BY CappedIsLess
<1> HIDE DEF n
<1> DEFINE p == w * n
           q == p \div full
<1>2. 0 <= p /\ p <= w * full /\ p \in Int
  BY <1>1, Share
<1>3. q \in Int /\ full * q <= p /\ p < full * q + full
  <2> HIDE DEF p
  <2>1. QED BY <1>2
<1>4. n = full => p = w * full
  OBVIOUS
<1> HIDE DEF p, q
<1>5. q <= w
  <2>1. SUFFICES ASSUME q >= w + 1 PROVE FALSE
    BY <1>3
  <2>2. full * q >= full * (w + 1)
    BY <1>3, <2>1, Share
  <2>3. full * (w + 1) = w * full + full
    OBVIOUS
  <2>4. QED BY <1>2, <1>3, <2>2, <2>3
<1>6. q >= 0
  <2>1. SUFFICES ASSUME q <= 0 - 1 PROVE FALSE
    BY <1>3
  <2>2. full * q <= full * (0 - 1)
    BY <1>3, <2>1, Share
  <2>3. QED BY <1>2, <1>3, <2>2
<1>7. ASSUME p = w * full PROVE q = w
  <2>1. SUFFICES ASSUME q <= w - 1 PROVE FALSE
    BY <1>3, <1>5
  <2>2. full * q <= full * (w - 1)
    BY <1>3, <2>1, Share
  <2>3. full * (w - 1) = w * full - full
    OBVIOUS
  <2>4. QED BY <1>3, <1>7, <2>2, <2>3
<1>8. q \in 0 .. w /\ (d >= full => q = w)
  BY <1>1, <1>3, <1>4, <1>5, <1>6, <1>7
<1> QED BY <1>8 DEF q, p, n

(* What a counter scores before the penalty.                               *)
Points(c) == (15 * Weights.decayed * Capped(c.decayed, Full)) \div Full
             + 3 * Weights.sessions * Capped(c.sessions, 5)
             + 3 * Weights.days * Capped(c.days, 5)
             + 5 * Weights.sources * Capped(c.sources, 3)

LEMMA Numbers ==
    ASSUME SignalAssumptions
    PROVE  /\ Weights.decayed \in Nat /\ Weights.sessions \in Nat
           /\ Weights.days \in Nat /\ Weights.sources \in Nat
           /\ Scale \in Nat \ {0} /\ Full \in Nat \ {0}
           /\ Persist \in 0 .. Scale /\ BurstRatio \in 0 .. Scale /\ BurstPenalty \in 0 .. Scale
<1>1. Scale \in Nat /\ \A x \in {"decayed", "sessions", "days", "sources"} : Weights[x] \in 0 .. Scale
  BY DEF SignalAssumptions
<1> QED BY <1>1 DEF SignalAssumptions

LEMMA Shares ==
    ASSUME NEW w \in Nat, NEW n \in Int
    PROVE  /\ w * n \in Int
           /\ (n <= 0 => w * n <= 0) /\ (n <= 1 => w * n <= w)
           /\ (n <= 3 => w * n <= 3 * w) /\ (n <= 5 => w * n <= 5 * w)
           /\ (n >= 1 => w * n >= w) /\ (n >= 2 => w * n >= 2 * w)
<1>1. \A m \in Int : w * m \in Int /\ (n <= m => w * n <= w * m) /\ (m <= n => w * m <= w * n)
  <2>1. ASSUME NEW m \in Int
        PROVE  w * m \in Int /\ (n <= m => w * n <= w * m) /\ (m <= n => w * m <= w * n)
    BY Share
  <2>2. QED BY <2>1
<1>2. /\ w * n \in Int
      /\ (n <= 0 => w * n <= w * 0) /\ (n <= 1 => w * n <= w * 1)
      /\ (n <= 3 => w * n <= w * 3) /\ (n <= 5 => w * n <= w * 5)
      /\ (n >= 1 => w * n >= w * 1) /\ (n >= 2 => w * n >= w * 2)
  BY <1>1
<1>3. w * 0 = 0 /\ w * 1 = w /\ w * 2 = 2 * w /\ w * 3 = 3 * w /\ w * 5 = 5 * w
  OBVIOUS
<1> DEFINE p == w * n
<1>4. /\ p \in Int
      /\ (n <= 0 => p <= 0) /\ (n <= 1 => p <= w) /\ (n <= 3 => p <= 3 * w) /\ (n <= 5 => p <= 5 * w)
      /\ (n >= 1 => p >= w) /\ (n >= 2 => p >= 2 * w)
  BY <1>2, <1>3
<1> QED BY <1>4

LEMMA CappedAt ==
    ASSUME NEW n \in Nat
    PROVE  /\ Capped(n, 5) = IF n <= 5 THEN n ELSE 5
           /\ Capped(n, 3) = IF n <= 3 THEN n ELSE 3
BY CappedIsLess

LEMMA PointsBounds ==
    ASSUME SignalAssumptions, NEW c \in Counter
    PROVE  /\ Points(c) \in Int
           /\ c.sessions <= 1
              => Points(c) <= 15 * (Weights.decayed + Weights.days + Weights.sources) + 3 * Weights.sessions
           /\ c.sessions <= 0 /\ c.days <= 1 /\ c.sources <= 1
              => Points(c) <= 15 * Weights.decayed + 3 * Weights.days + 5 * Weights.sources
           /\ c.decayed >= Full /\ c.sessions >= 2 /\ c.days >= 1 /\ c.sources >= 1
              => Points(c) >= 15 * Weights.decayed + 6 * Weights.sessions
                              + 3 * Weights.days + 5 * Weights.sources
<1> DEFINE no == c.decayed
           ns == c.sessions
           nd == c.days
           nr == c.sources
           ws == 3 * Weights.sessions
           wd == 3 * Weights.days
           wr == 5 * Weights.sources
           wo == 15 * Weights.decayed
           cs == Capped(ns, 5)
           cd == Capped(nd, 5)
           cr == Capped(nr, 3)
           co == (wo * Capped(no, Full)) \div Full
           ps == ws * cs
           pd == wd * cd
           pr == wr * cr
<1>1. ns \in Nat /\ nd \in Nat /\ nr \in Nat /\ no \in Nat
  BY DEF Counter
<1>2. /\ cs = (IF ns <= 5 THEN ns ELSE 5)
      /\ cd = (IF nd <= 5 THEN nd ELSE 5)
      /\ cr = (IF nr <= 3 THEN nr ELSE 3)
  BY <1>1, CappedAt
<1>3. /\ Weights.decayed \in Nat /\ Weights.sessions \in Nat
      /\ Weights.days \in Nat /\ Weights.sources \in Nat /\ Full \in Nat \ {0}
  BY Numbers
<1>4. ws \in Nat /\ wd \in Nat /\ wr \in Nat /\ wo \in Nat
  <2>1. \A n \in Nat : 3 * n \in Nat /\ 5 * n \in Nat /\ 15 * n \in Nat
    OBVIOUS
  <2>2. QED BY <1>3, <2>1
<1>5. co \in 0 .. wo /\ (no >= Full => co = wo)
  <2> HIDE DEF wo
  <2>1. QED BY <1>1, <1>3, <1>4, WholeShare
<1>6. Points(c) = co + ps + pd + pr
  BY DEF Points
<1> HIDE DEF no, ns, nd, nr, cs, cd, cr, co
<1>7. cs \in Int /\ cd \in Int /\ cr \in Int /\ cs <= 5 /\ cd <= 5 /\ cr <= 3
  BY <1>1, <1>2
<1>8. /\ ps \in Int /\ (cs <= 0 => ps <= 0) /\ (cs <= 1 => ps <= ws) /\ (cs >= 2 => ps >= 2 * ws)
  <2> HIDE DEF ws
  <2>1. QED BY <1>4, <1>7, Shares
<1>9. /\ pd \in Int /\ pd <= 5 * wd /\ (cd <= 1 => pd <= wd) /\ (cd >= 1 => pd >= wd)
  <2> HIDE DEF wd
  <2>1. QED BY <1>4, <1>7, Shares
<1>10. /\ pr \in Int /\ pr <= 3 * wr /\ (cr <= 1 => pr <= wr) /\ (cr >= 1 => pr >= wr)
  <2> HIDE DEF wr
  <2>1. QED BY <1>4, <1>7, Shares
<1> HIDE DEF ps, pd, pr, wo, ws, wd, wr
<1>11. ns <= 1 => Points(c) <= wo + ws + 5 * wd + 3 * wr
  BY <1>1, <1>2, <1>4, <1>5, <1>6, <1>8, <1>9, <1>10
<1>12. ns <= 0 /\ nd <= 1 /\ nr <= 1 => Points(c) <= wo + wd + wr
  BY <1>1, <1>2, <1>4, <1>5, <1>6, <1>8, <1>9, <1>10
<1>13. no >= Full /\ ns >= 2 /\ nd >= 1 /\ nr >= 1
       => Points(c) >= wo + 2 * ws + wd + wr
  BY <1>1, <1>2, <1>4, <1>5, <1>6, <1>8, <1>9, <1>10
<1>14. Points(c) \in Int
  <2>1. co \in Int /\ ps \in Int /\ pd \in Int /\ pr \in Int
    BY <1>4, <1>5, <1>8, <1>9, <1>10
  <2>2. QED BY <1>6, <2>1
<1> DEFINE vo == Weights.decayed
           vs == Weights.sessions
           vd == Weights.days
           vr == Weights.sources
<1>15. wo = 15 * vo /\ ws = 3 * vs /\ wd = 3 * vd /\ wr = 5 * vr
  BY DEF wo, ws, wd, wr
<1>16. vo \in Nat /\ vs \in Nat /\ vd \in Nat /\ vr \in Nat
  BY <1>3
<1> HIDE DEF vo, vs, vd, vr
<1>17. /\ ns <= 1 => Points(c) <= 15 * (vo + vd + vr) + 3 * vs
       /\ ns <= 0 /\ nd <= 1 /\ nr <= 1 => Points(c) <= 15 * vo + 3 * vd + 5 * vr
       /\ no >= Full /\ ns >= 2 /\ nd >= 1 /\ nr >= 1
          => Points(c) >= 15 * vo + 6 * vs + 3 * vd + 5 * vr
  BY <1>4, <1>11, <1>12, <1>13, <1>14, <1>15, <1>16
<1> QED BY <1>14, <1>17 DEF vo, vs, vd, vr, no, ns, nd, nr

(* ... and how that compares with the threshold.                           *)
LEMMA Thresholds ==
    ASSUME SignalAssumptions, NEW c \in Counter
    PROVE  /\ Points(c) \in Int
           /\ OneSessionFallsShort /\ c.sessions <= 1
              => Points(c) - 15 * BurstPenalty < 15 * Persist /\ Persist > 0
           /\ OneSessionFallsShort /\ c.sessions <= 0 /\ c.days <= 1 /\ c.sources <= 1
              => Points(c) < 15 * Persist /\ Persist > 0
           /\ TwoSessionsSuffice /\ c.decayed >= Full /\ c.sessions >= 2 /\ c.days >= 1 /\ c.sources >= 1
              => Points(c) >= 15 * Persist
<1> DEFINE vo == Weights.decayed
           vs == Weights.sessions
           vd == Weights.days
           vr == Weights.sources
           p == Points(c)
           few == c.sessions <= 1
           one == c.sessions <= 0 /\ c.days <= 1 /\ c.sources <= 1
           spread == c.decayed >= Full /\ c.sessions >= 2 /\ c.days >= 1 /\ c.sources >= 1
<1>1. /\ vo \in Nat /\ vs \in Nat /\ vd \in Nat /\ vr \in Nat
      /\ Persist \in Nat /\ BurstPenalty \in Nat
  BY Numbers
<1>2. /\ p \in Int
      /\ few => p <= 15 * (vo + vd + vr) + 3 * vs
      /\ one => p <= 15 * vo + 3 * vd + 5 * vr
      /\ spread => p >= 15 * vo + 6 * vs + 3 * vd + 5 * vr
  BY PointsBounds
<1>3. OneSessionFallsShort => /\ 15 * (vo + vd + vr) + 3 * vs - 15 * BurstPenalty < 15 * Persist
                              /\ 15 * vo + 3 * vd + 5 * vr < 15 * Persist
  BY DEF OneSessionFallsShort
<1>4. TwoSessionsSuffice => 15 * vo + 6 * vs + 3 * vd + 5 * vr >= 15 * Persist
  BY DEF TwoSessionsSuffice
<1> HIDE DEF vo, vs, vd, vr, p, few, one, spread
<1>5. /\ OneSessionFallsShort /\ few => p - 15 * BurstPenalty < 15 * Persist /\ Persist > 0
      /\ OneSessionFallsShort /\ one => p < 15 * Persist /\ Persist > 0
      /\ TwoSessionsSuffice /\ spread => p >= 15 * Persist
  BY <1>1, <1>2, <1>3, <1>4
<1> QED BY <1>2, <1>5 DEF p, few, one, spread

LEMMA ThresholdPositive ==
    ASSUME SignalAssumptions, OneSessionFallsShort
    PROVE  Persist \in Nat /\ Persist > 0
<1> DEFINE vo == Weights.decayed
           vd == Weights.days
           vr == Weights.sources
<1>1. vo \in Nat /\ vd \in Nat /\ vr \in Nat /\ Persist \in Nat
  BY Numbers
<1>2. 15 * vo + 3 * vd + 5 * vr < 15 * Persist
  BY DEF OneSessionFallsShort
<1> HIDE DEF vo, vd, vr
<1> QED BY <1>1, <1>2

LEMMA ScoreBounds ==
    ASSUME SignalAssumptions, NoCounter \notin Counter, NEW c \in Counter
    PROVE  /\ Score(c) \in Int
           /\ Points(c) < 15 * Persist /\ Persist > 0 => Score(c) < 15 * Persist
           /\ IsBurst(c) /\ Points(c) - 15 * BurstPenalty < 15 * Persist /\ Persist > 0
              => Score(c) < 15 * Persist
           /\ ~IsBurst(c) /\ Points(c) >= 15 * Persist => Score(c) >= 15 * Persist
<1> DEFINE p == Points(c)
           penalty == IF IsBurst(c) THEN 15 * BurstPenalty ELSE 0
           m == Capped(p - penalty, 15 * Scale)
<1>1. c # NoCounter
  OBVIOUS
<1>2. Score(c) = Max({0, m})
  BY <1>1 DEF Score, Points
<1>3. Scale \in Nat /\ Persist \in 0 .. Scale /\ BurstPenalty \in 0 .. Scale
  BY Numbers
<1>4. p \in Int
  BY PointsBounds
<1> HIDE DEF p
<1>5. penalty \in Nat /\ (~IsBurst(c) => penalty = 0) /\ (IsBurst(c) => penalty = 15 * BurstPenalty)
  BY <1>3
<1> HIDE DEF penalty
<1>6. m = IF p - penalty <= 15 * Scale THEN p - penalty ELSE 15 * Scale
  BY <1>3, <1>4, <1>5, CappedIsLess
<1> HIDE DEF m
<1>7. m \in Int
  BY <1>3, <1>4, <1>5, <1>6
<1>8. Max({0, m}) = IF 0 >= m THEN 0 ELSE m
  BY <1>7, MaxOfTwo
<1>9. /\ p < 15 * Persist /\ Persist > 0 => Score(c) < 15 * Persist
      /\ IsBurst(c) /\ p - 15 * BurstPenalty < 15 * Persist /\ Persist > 0 => Score(c) < 15 * Persist
      /\ ~IsBurst(c) /\ p >= 15 * Persist => Score(c) >= 15 * Persist
  BY <1>2, <1>3, <1>4, <1>5, <1>6, <1>7, <1>8
<1>10. Score(c) \in Int
  BY <1>2, <1>7, <1>8
<1> QED BY <1>9, <1>10 DEF p
-----------------------------------------------------------------------------
(* What a counter is worth depends on how its rows spread over sessions.   *)

LEMMA InCounter ==
    ASSUME NEW c \in Counter
    PROVE  /\ c.decayed \in Nat /\ c.sessions \in Nat /\ c.days \in Nat /\ c.sources \in Nat
           /\ c.most \in Nat /\ c.total \in Nat
BY DEF Counter

(* Rows of one session: a burst that falls short.                          *)
LEMMA OneSessionIsShort ==
    ASSUME SignalAssumptions, NoCounter \notin Counter, OneSessionFallsShort,
           NEW rows, rows \subseteq Observation, IsFiniteSet(rows), rows # {}, NEW day \in Nat,
           NEW s \in Sessions, \A o \in rows : o.session = s
    PROVE  Score(Counted(rows, day)) < 15 * Persist
<1> DEFINE c == Counted(rows, day)
<1>1. /\ c \in Counter
      /\ c.sessions = Cardinality(SessionsOf(rows))
      /\ c.most = Largest(rows)
      /\ c.total = Cardinality(rows)
  BY CountedFacts
<1> HIDE DEF c
<1>2. SessionsOf(rows) = {s}
  <2>1. s # NoSession
    BY DEF SignalAssumptions
  <2>2. QED BY <2>1 DEF SessionsOf
<1>3. c.sessions = 1
  BY <1>1, <1>2, FS_Singleton
<1>4. c.most = c.total
  <2>1. {o \in rows : o.session = s} = rows
    OBVIOUS
  <2>2. Cardinality(rows) <= Largest(rows) /\ Largest(rows) \in 0 .. Cardinality(rows)
    BY <1>2, <2>1, LargestBounds
  <2>3. Cardinality(rows) \in Nat
    BY FS_CardinalityType
  <2>4. QED BY <1>1, <2>2, <2>3
<1>5. IsBurst(c)
  <2> DEFINE total == c.total
  <2>1. total \in Nat
    BY <1>1, InCounter
  <2>2. Scale \in Int /\ BurstRatio \in Int /\ BurstRatio <= Scale
    BY Numbers
  <2>3. c.most = total
    BY <1>4
  <2>4. IsBurst(c) <=> total * Scale >= BurstRatio * total
    BY <2>3 DEF IsBurst
  <2> HIDE DEF total
  <2>5. total * BurstRatio <= total * Scale
    BY <2>1, <2>2, Share
  <2>6. BurstRatio * total = total * BurstRatio
    BY <2>1, <2>2
  <2>7. total * BurstRatio \in Int /\ total * Scale \in Int
    BY <2>1, <2>2
  <2>8. QED BY <2>4, <2>5, <2>6, <2>7
<1>6. Points(c) - 15 * BurstPenalty < 15 * Persist /\ Persist > 0
  <2>1. c.sessions <= 1
    BY <1>3
  <2>2. QED BY <1>1, <2>1, Thresholds
<1> QED BY <1>1, <1>5, <1>6, ScoreBounds DEF c

(* A single row, of a session or of none, falls short.                     *)
LEMMA OneRowIsShort ==
    ASSUME SignalAssumptions, NoCounter \notin Counter, OneSessionFallsShort,
           NEW rows, rows \subseteq Observation, IsFiniteSet(rows), NEW day \in Nat,
           NEW o \in rows, \A p \in rows : p = o
    PROVE  Score(Counted(rows, day)) < 15 * Persist
<1> DEFINE c == Counted(rows, day)
<1>1. /\ c \in Counter
      /\ c.sessions = Cardinality(SessionsOf(rows))
      /\ c.days = Cardinality({p.day : p \in rows})
      /\ c.sources = Cardinality({p.source : p \in rows})
  BY CountedFacts
<1> HIDE DEF c
<1>2. CASE o.session # NoSession
  <2>1. o.session \in Sessions /\ rows # {} /\ \A p \in rows : p.session = o.session
    BY <1>2 DEF Observation
  <2>2. QED BY <2>1, OneSessionIsShort
<1>3. CASE o.session = NoSession
  <2>1. SessionsOf(rows) = {} /\ {p.day : p \in rows} = {o.day} /\ {p.source : p \in rows} = {o.source}
    BY <1>3 DEF SessionsOf
  <2>2. Cardinality({}) = 0 /\ Cardinality({o.day}) = 1 /\ Cardinality({o.source}) = 1
    BY FS_EmptySet, FS_Singleton
  <2>3. c.sessions = 0 /\ c.days = 1 /\ c.sources = 1
    BY <1>1, <2>1, <2>2
  <2>4. c.sessions <= 0 /\ c.days <= 1 /\ c.sources <= 1
    BY <2>3
  <2>5. Points(c) < 15 * Persist /\ Persist > 0
    BY <1>1, <2>4, Thresholds
  <2>6. QED BY <1>1, <2>5, ScoreBounds DEF c
<1> QED BY <1>2, <1>3

LEMMA DaysAndSources ==
    ASSUME NEW rows, IsFiniteSet(rows), NEW o \in rows
    PROVE  Cardinality({p.day : p \in rows}) >= 1 /\ Cardinality({p.source : p \in rows}) >= 1
<1>1. ASSUME NEW f PROVE Cardinality({f[p] : p \in rows}) >= 1
  <2> DEFINE T == {f[p] : p \in rows}
  <2>1. IsFiniteSet(T)
    BY ImageIsFinite
  <2>2. T # {}
    OBVIOUS
  <2> HIDE DEF T
  <2>3. QED BY <2>1, <2>2, Inhabited DEF T
<1>2. Cardinality({p.day : p \in rows}) >= 1
  <2> DEFINE f == [p \in rows |-> p.day]
  <2>1. {p.day : p \in rows} = {f[p] : p \in rows}
    OBVIOUS
  <2> HIDE DEF f
  <2>2. QED BY <1>1, <2>1
<1>3. Cardinality({p.source : p \in rows}) >= 1
  <2> DEFINE f == [p \in rows |-> p.source]
  <2>1. {p.source : p \in rows} = {f[p] : p \in rows}
    OBVIOUS
  <2> HIDE DEF f
  <2>2. QED BY <1>1, <2>1
<1> QED BY <1>2, <1>3

(* Rows of as many sessions reach the threshold.                           *)
LEMMA SessionsSuffice ==
    ASSUME SignalAssumptions, NoCounter \notin Counter, TwoSessionsSuffice,
           NEW rows, rows \subseteq Observation, IsFiniteSet(rows), Cardinality(rows) >= 2,
           NEW day \in Nat, Counted(rows, day).decayed >= Full,
           \A o, p \in rows : o.session # NoSession /\ (o.session = p.session => o = p)
    PROVE  Score(Counted(rows, day)) >= 15 * Persist
<1> DEFINE c == Counted(rows, day)
<1>1. /\ c \in Counter
      /\ c.sessions = Cardinality(SessionsOf(rows))
      /\ c.days = Cardinality({o.day : o \in rows})
      /\ c.sources = Cardinality({o.source : o \in rows})
      /\ c.most = Largest(rows)
      /\ c.total = Cardinality(rows)
      /\ c.decayed >= Full
  BY CountedFacts
<1> HIDE DEF c
<1>2. PICK o \in rows : TRUE
  <2>1. rows # {}
    BY FS_EmptySet
  <2>2. QED BY <2>1
<1>3. c.sessions = c.total
  <2> DEFINE f == [p \in rows |-> p.session]
  <2>1. SessionsOf(rows) = {f[p] : p \in rows}
    BY DEF SessionsOf
  <2>2. \A p, q \in rows : f[p] = f[q] => p = q
    OBVIOUS
  <2> HIDE DEF f
  <2>3. Cardinality({f[p] : p \in rows}) = Cardinality(rows)
    <3>1. IsFiniteSet(rows)
      OBVIOUS
    <3>2. QED BY ONLY <2>2, <3>1, ImageIsAsLarge, SMTT(30)
  <2>4. QED BY <1>1, <2>1, <2>3
<1>4. c.days >= 1 /\ c.sources >= 1
  <2>1. Cardinality({p.day : p \in rows}) >= 1 /\ Cardinality({p.source : p \in rows}) >= 1
    BY <1>2, DaysAndSources
  <2>2. QED BY <1>1, <2>1
<1>5. c.most <= 1
  <2>1. ASSUME NEW s \in SessionsOf(rows) PROVE Cardinality({p \in rows : p.session = s}) = 1
    <3>1. PICK q \in rows : q.session = s
      BY DEF SessionsOf
    <3>2. {p \in rows : p.session = s} = {q}
      BY <3>1
    <3>3. QED BY <3>2, FS_Singleton
  <2>2. Largest(rows) = 0 \/ Largest(rows) = 1
    BY <2>1, LargestBounds
  <2>3. QED BY <1>1, <2>2
<1>6. c.total \in Nat /\ c.total >= 2 /\ c.most \in Nat
  BY <1>1, InCounter
<1>7. ~IsBurst(c)
  <2> DEFINE total == c.total
             most == c.most
  <2>1. Scale \in Nat /\ BurstRatio \in Nat
    BY Numbers
  <2>2. total \in Nat /\ total >= 2 /\ most \in Nat /\ most <= 1
    BY <1>5, <1>6
  <2>3. 2 * BurstRatio > Scale
    BY DEF TwoSessionsSuffice
  <2> HIDE DEF total, most
  <2> DEFINE a == BurstRatio * total
             b == most * Scale
  <2>4. a >= 2 * BurstRatio /\ a \in Int
    BY <2>1, <2>2, Shares
  <2>5. b <= Scale /\ b \in Int
    <3>1. Scale * most <= Scale /\ Scale * most = most * Scale /\ Scale * most \in Int
      BY <2>1, <2>2, Shares
    <3>2. QED BY <3>1
  <2>6. ~(b >= a)
    <3> HIDE DEF a, b
    <3>1. QED BY <2>1, <2>3, <2>4, <2>5
  <2>7. IsBurst(c) <=> b >= a
    BY DEF IsBurst, total, most
  <2>8. QED BY <2>6, <2>7
<1>8. c.sessions >= 2
  BY <1>3, <1>6
<1>9. Points(c) >= 15 * Persist
  BY <1>1, <1>4, <1>8, Thresholds
<1> QED BY <1>1, <1>7, <1>9, ScoreBounds DEF c
-----------------------------------------------------------------------------
(* A verdict follows from the counter of the first key, and that from the  *)
(* rows of the key.                                                        *)

RowsOf(k) == {o \in observations : o.key = k}

LEMMA SettlingDecides ==
    ASSUME IInv, Next, NEW e \in Events, NEW v, v # "none", Settles(e, v)
    PROVE  /\ event'[e] \in Event /\ stage[e] = "new" /\ v = Judged(event'[e])
           /\ First(event'[e]) \in Keys
           /\ Earlier(e) = RowsOf(First(event'[e]))
<1>1. PICK d \in Events : Judge(d) \/ Enqueue(d) \/ Count(d) \/ Miss(d)
  BY DEF Next
<1>2. Judge(e)
  <2>1. verdict'[e] # verdict[e]
    BY DEF Settles
  <2>2. Judge(d) /\ d = e
    BY <1>1, <2>1 DEF Judge, Enqueue, Count, Miss, IInv, TypeOK
  <2>3. QED BY <2>2
<1>3. PICK x \in Event : /\ stage[e] = "new"
                         /\ event' = [event EXCEPT ![e] = x]
                         /\ verdict' = [verdict EXCEPT ![e] = Judged(x)]
  BY <1>2 DEF Judge
<1>4. event'[e] = x /\ verdict'[e] = Judged(x)
  BY <1>3 DEF IInv, TypeOK
<1>5. v = Judged(x)
  BY <1>4 DEF Settles
<1>6. First(x) \in Keys
  <2>1. x.api \in Apis
    BY DEF Event
  <2>2. First([api |-> x.api]) \in Keys
    BY <2>1, KeysOfFinite, SignalAssumptions
  <2>3. QED BY <2>2 DEF First
<1>7. Earlier(e) = RowsOf(First(event'[e]))
  BY DEF Earlier, RowsOf
<1> QED BY <1>3, <1>4, <1>5, <1>6, <1>7

(* What IInv says of a key with a counter.                                 *)
LEMMA CounterOf ==
    ASSUME IInv, NEW k \in Keys, counter[k] # NoCounter
    PROVE  \E o \in RowsOf(k) :
              LET rows == InWindow(RowsOf(k), k, o.day)
              IN  /\ counter[k] = Counted(rows, o.day)
                  /\ Counted(rows, o.day).decayed >= Full
                  /\ o \in rows /\ o.day \in Nat
                  /\ rows \subseteq RowsOf(k) /\ rows \subseteq Observation /\ IsFiniteSet(rows)
<1>1. PICK o \in RowsOf(k) : /\ counter[k] = Counted(InWindow(RowsOf(k), k, o.day), o.day)
                             /\ counter[k].decayed >= Full
  BY DEF IInv, CountersCount, RowsOf
<1> DEFINE rows == InWindow(RowsOf(k), k, o.day)
<1>2. o \in Observation /\ RowsOf(k) \subseteq Observation
  BY DEF IInv, TypeOK, RowsOf
<1>3. o.day \in Nat /\ Window \in Nat
  BY <1>2, SignalAssumptions DEF Observation, SignalAssumptions
<1>4. o \in rows
  BY <1>3 DEF InWindow, RowsOf
<1>5. rows \in SUBSET observations /\ rows \subseteq RowsOf(k)
  BY DEF InWindow, RowsOf
<1> HIDE DEF rows
<1>6. IsFiniteSet(rows)
  BY <1>5, FS_Subset DEF IInv
<1> QED BY <1>1, <1>2, <1>3, <1>4, <1>5, <1>6 DEF rows

(* Theorem: under a policy by which one session falls short, an event is   *)
(* persisted by repetition only after two others of its key, not all of    *)
(* them in one session, have been counted.                                 *)
THEOREM OneOffsWaitHolds ==
    ASSUME OneSessionFallsShort
    PROVE  Spec => OneOffsWait
<1> DEFINE Waits == \A e \in Events : Settles(e, "UPSERT") =>
                       /\ Cardinality({o.of : o \in Earlier(e)} \ {e}) >= 2
                       /\ \A s \in Sessions : \E o \in Earlier(e) : o.session # s
<1>1. ASSUME IInv, [Next]_vars PROVE [Waits]_vars
  <2> SUFFICES ASSUME Next, NEW e \in Events, Settles(e, "UPSERT")
      PROVE  /\ Cardinality({o.of : o \in Earlier(e)} \ {e}) >= 2
             /\ \A s \in Sessions : \E o \in Earlier(e) : o.session # s
    BY <1>1
  <2> DEFINE k == First(event'[e])
             all == RowsOf(k)
  <2>1. stage[e] = "new" /\ "UPSERT" = Judged(event'[e]) /\ k \in Keys /\ Earlier(e) = all
    BY <1>1, SettlingDecides
  <2>2. Score(counter[k]) >= 15 * Persist
    BY <2>1 DEF Judged
  <2>3. Persist \in Nat /\ Persist > 0
    BY SignalAssumptions, ThresholdPositive
  <2>4. counter[k] # NoCounter
    <3>1. Score(NoCounter) = 0
      BY DEF Score
    <3>2. QED BY <2>2, <2>3, <3>1
  <2> HIDE DEF k
  <2>5. PICK r \in all :
          LET rows == InWindow(all, k, r.day)
          IN  /\ counter[k] = Counted(rows, r.day)
              /\ r \in rows /\ r.day \in Nat
              /\ rows \subseteq all /\ rows \subseteq Observation /\ IsFiniteSet(rows)
    BY <1>1, <2>1, <2>4, CounterOf
  <2> DEFINE rows == InWindow(all, k, r.day)
  <2>6. /\ counter[k] = Counted(rows, r.day)
        /\ r \in rows /\ r.day \in Nat
        /\ rows \subseteq all /\ rows \subseteq Observation /\ IsFiniteSet(rows)
    BY <2>5
  <2> HIDE DEF rows
  <2>7. ~(Score(Counted(rows, r.day)) < 15 * Persist)
    <3> DEFINE reached == Score(Counted(rows, r.day))
    <3>1. reached \in Int
      <4>1. Counted(rows, r.day) \in Counter
        BY <2>6, SignalAssumptions, CountedFacts
      <4>2. QED BY <4>1, SignalAssumptions, NoCounterAssumption, ScoreBounds
    <3>2. reached >= 15 * Persist
      BY <2>2, <2>6
    <3> HIDE DEF reached
    <3>3. ~(reached < 15 * Persist)
      BY <2>3, <3>1, <3>2
    <3>4. QED BY <3>3 DEF reached
  <2>8. ASSUME NEW s \in Sessions PROVE \E o \in all : o.session # s
    <3>1. SUFFICES ASSUME \A o \in all : o.session = s PROVE FALSE
      OBVIOUS
    <3>2. rows # {} /\ \A o \in rows : o.session = s
      BY <2>6, <3>1
    <3>3. Score(Counted(rows, r.day)) < 15 * Persist
      BY <2>6, <3>2, OneSessionIsShort, SignalAssumptions, NoCounterAssumption
    <3>4. QED BY <2>7, <3>3
  <2>9. PICK q \in all : q # r
    <3>1. SUFFICES ASSUME \A q \in all : q = r PROVE FALSE
      OBVIOUS
    <3>2. \A q \in rows : q = r
      BY <2>6, <3>1
    <3>3. Score(Counted(rows, r.day)) < 15 * Persist
      BY <2>6, <3>2, OneRowIsShort, SignalAssumptions, NoCounterAssumption
    <3>4. QED BY <2>7, <3>3
  <2>10. r.of # e /\ q.of # e /\ q.of # r.of
    <3>1. \A o \in all : o \in observations /\ o.key = k
      BY DEF RowsOf
    <3>2. \A o \in all : stage[o.of] # "new" /\ o \in Observed(o.of)
      BY <1>1, <3>1 DEF IInv, Founded
    <3>3. QED BY <2>1, <2>9, <3>1, <3>2, OnePerEvent
  <2>11. Cardinality({o.of : o \in all} \ {e}) >= 2
    <3> DEFINE f == [o \in all |-> o.of]
               T == {f[o] : o \in all}
    <3>1. IsFiniteSet(all)
      <4>1. all \in SUBSET observations
        BY DEF RowsOf
      <4> HIDE DEF all
      <4>2. QED BY <1>1, <4>1, FS_Subset DEF IInv
    <3>2. {o.of : o \in all} = T /\ {q.of, r.of} \subseteq T
      OBVIOUS
    <3>3. IsFiniteSet(T)
      <4> HIDE DEF f, all
      <4>1. QED BY <3>1, ImageIsFinite
    <3> HIDE DEF T
    <3>4. IsFiniteSet(T \ {e}) /\ {q.of, r.of} \in SUBSET (T \ {e})
      BY <2>10, <3>2, <3>3, FS_Difference
    <3>5. Cardinality({q.of, r.of}) = 2
      <4>1. Cardinality({q.of}) = 1 /\ IsFiniteSet({q.of})
        BY FS_Singleton
      <4>2. {q.of, r.of} = {q.of} \cup {r.of} /\ r.of \notin {q.of}
        BY <2>10
      <4>3. Cardinality({q.of} \cup {r.of}) = Cardinality({q.of}) + 1
        BY <4>1, <4>2, FS_AddElement
      <4>4. QED BY <4>1, <4>2, <4>3
    <3>6. Cardinality({q.of, r.of}) <= Cardinality(T \ {e}) /\ Cardinality(T \ {e}) \in Nat
      BY <3>4, FS_Subset, FS_CardinalityType
    <3>7. QED BY <3>2, <3>5, <3>6
  <2>12. QED BY <2>1, <2>8, <2>11
<1>2. QED BY <1>1, Invariance, PTL DEF Spec, OneOffsWait

(* Theorem: under a policy by which two sessions suffice, what was counted *)
(* in several sessions within a window is persisted when it comes up again.*)
THEOREM RepeatedInterestPersistsHolds ==
    ASSUME TwoSessionsSuffice
    PROVE  Spec => RepeatedInterestPersists
<1> DEFINE Persists == \A e \in Events : Settles(e, "OBSERVE") => ~Scattered(Earlier(e))
<1>1. ASSUME IInv, [Next]_vars PROVE [Persists]_vars
  <2> SUFFICES ASSUME Next, NEW e \in Events, Settles(e, "OBSERVE"), Scattered(Earlier(e))
      PROVE  FALSE
    BY <1>1
  <2> DEFINE k == First(event'[e])
             all == RowsOf(k)
  <2>1. "OBSERVE" = Judged(event'[e]) /\ k \in Keys /\ Earlier(e) = all
    BY <1>1, SettlingDecides
  <2>2. ~(Score(counter[k]) >= 15 * Persist)
    BY <2>1 DEF Judged
  <2> HIDE DEF k
  <2>3. Cardinality(all) >= 2 /\ \A o, p \in all : /\ o.session # NoSession
                                                   /\ o # p => o.session # p.session
                                                   /\ o.day - p.day <= Window
    BY <2>1 DEF Scattered
  <2>4. counter[k] # NoCounter
    <3>1. SUFFICES ASSUME counter[k] = NoCounter PROVE FALSE
      OBVIOUS
    <3>2. all = {}
      BY <1>1, <2>1, <3>1 DEF IInv, CountersCount, RowsOf
    <3>3. Cardinality(all) = 0
      BY <3>2, FS_EmptySet
    <3>4. QED BY <2>3, <3>3
  <2>5. PICK r \in all :
          LET rows == InWindow(all, k, r.day)
          IN  /\ counter[k] = Counted(rows, r.day)
              /\ Counted(rows, r.day).decayed >= Full
              /\ r \in rows /\ r.day \in Nat
              /\ rows \subseteq all /\ rows \subseteq Observation /\ IsFiniteSet(rows)
    BY <1>1, <2>1, <2>4, CounterOf
  <2> DEFINE rows == InWindow(all, k, r.day)
  <2>6. rows = all
    <3>1. \A o \in all : o.key = k /\ o.day \in Nat
      BY <1>1, SignalAssumptions DEF RowsOf, IInv, TypeOK, Observation, SignalAssumptions
    <3>2. \A o \in all : r.day - o.day <= Window
      BY <2>3
    <3>3. Window \in Nat /\ r.day \in Nat
      BY <2>5, SignalAssumptions DEF SignalAssumptions
    <3> HIDE DEF all
    <3>4. \A o \in all : o.day >= r.day - Window
      BY <3>1, <3>2, <3>3
    <3>5. QED BY <3>1, <3>4 DEF InWindow
  <2>7. /\ counter[k] = Counted(rows, r.day)
        /\ Counted(rows, r.day).decayed >= Full
        /\ r.day \in Nat /\ rows \subseteq Observation /\ IsFiniteSet(rows)
    BY <2>5
  <2> HIDE DEF rows, all
  <2>8. Cardinality(rows) >= 2 /\ \A o, p \in rows : o.session # NoSession /\ (o.session = p.session => o = p)
    BY <2>3, <2>6
  <2>9. Score(Counted(rows, r.day)) >= 15 * Persist
    BY <2>7, <2>8, SessionsSuffice, SignalAssumptions, NoCounterAssumption
  <2>10. QED BY <2>2, <2>7, <2>9
<1>2. QED BY <1>1, Invariance, PTL DEF Spec, RepeatedInterestPersists

-----------------------------------------------------------------------------
(* The gate.  Most of its guarantees speak of a verdict together with the  *)
(* inputs and the answer it was taken from, and need no more than where a  *)
(* verdict comes from: it is Decide of those (Grounded).  The rest is      *)
(* about Decide.  What a verdict owes to the course of the requests needs  *)
(* an invariant of the loop (InOrder).                                     *)

Inputs ==
    /\ policy \in Policy
    /\ ontology \in Ontology
    /\ entry \in ApiEntry
    /\ given \in EventFields
    /\ score \in Fraction

Grounded ==
    /\ Inputs
    /\ answer \in Answer
    /\ IF decision = Pending THEN answer = Silence ELSE decision = VerdictOn(answer)

-----------------------------------------------------------------------------
(* The level of a candidate is at least each level it is taken from.       *)
LEMMA LevelIsMaximum ==
    ASSUME NEW e \in ApiEntry, NEW v \in EventFields, NEW x \in DOMAIN v.fields
    PROVE  /\ EffectiveLevel(e, v, x) \in Level
           /\ e.hint <= EffectiveLevel(e, v, x)
           /\ v.fields[x] <= EffectiveLevel(e, v, x)
           /\ v.classifier <= EffectiveLevel(e, v, x)
           /\ v.override <= EffectiveLevel(e, v, x)
<1>1. e.hint \in 0 .. 4 /\ v.classifier \in 0 .. 4 /\ v.override \in 0 .. 4
  BY DEF ApiEntry, EventFields, Level
<1>2. v.fields[x] \in 0 .. 4
  <2>1. PICK F \in SUBSET Extractors : v.fields \in [F -> Level]
    BY DEF EventFields
  <2> QED BY <2>1 DEF Level
<1>3. ASSUME NEW m \in 0 .. 4, NEW n \in 0 .. 4
      PROVE  Max2(m, n) \in 0 .. 4 /\ m <= Max2(m, n) /\ n <= Max2(m, n)
  BY DEF Max2
<1>4. /\ Max2(e.hint, v.fields[x]) \in 0 .. 4
      /\ e.hint <= Max2(e.hint, v.fields[x])
      /\ v.fields[x] <= Max2(e.hint, v.fields[x])
  BY <1>1, <1>2, <1>3
<1>5. /\ Max2(v.classifier, v.override) \in 0 .. 4
      /\ v.classifier <= Max2(v.classifier, v.override)
      /\ v.override <= Max2(v.classifier, v.override)
  BY <1>1, <1>3
<1>6. /\ EffectiveLevel(e, v, x) \in 0 .. 4
      /\ Max2(e.hint, v.fields[x]) <= EffectiveLevel(e, v, x)
      /\ Max2(v.classifier, v.override) <= EffectiveLevel(e, v, x)
  BY <1>3, <1>4, <1>5 DEF EffectiveLevel
<1> QED BY <1>1, <1>2, <1>4, <1>5, <1>6 DEF Level

(* What is found in the event is of an extractor whose field is there.     *)
LEMMA FoundIsPresent ==
    ASSUME Inputs, NEW c \in Found
    PROVE  /\ c.type \in Types
           /\ c.extractor \in DOMAIN given.fields
           /\ c.level = EffectiveLevel(entry, given, c.extractor)
<1>1. PICK t \in {u \in entry.types : ontology[u].enabled},
           x \in entry.extractors \cap DOMAIN given.fields :
        c = [type |-> t, extractor |-> x, level |-> EffectiveLevel(entry, given, x)]
  BY DEF Found, Extracted
<1>2. t \in Types
  BY DEF Inputs, ApiEntry
<1> QED BY <1>1, <1>2

(* What an answer, or the want of one, makes of the inputs is a verdict.   *)
LEMMA SilenceTyped == Silence \in Answer
BY UnitAssumption DEF Silence, Answer, Fraction

LEMMA FoundTyped == Inputs => Found \subseteq Candidate /\ Offered \subseteq Found
<1> SUFFICES ASSUME Inputs PROVE Found \subseteq Candidate /\ Offered \subseteq Found
  OBVIOUS
<1>1. ASSUME NEW c \in Found PROVE c \in Candidate
  <2>1. PICK t \in {u \in entry.types : ontology[u].enabled},
             x \in entry.extractors \cap DOMAIN given.fields :
          c = [type |-> t, extractor |-> x, level |-> EffectiveLevel(entry, given, x)]
    BY DEF Found, Extracted
  <2>2. t \in Types /\ x \in Extractors
    BY DEF Inputs, ApiEntry
  <2>3. EffectiveLevel(entry, given, x) \in Level
    BY LevelIsMaximum DEF Inputs
  <2> QED BY <2>1, <2>2, <2>3 DEF Candidate
<1> QED BY <1>1 DEF Offered, Validated

LEMMA VerdictTyped ==
    ASSUME Inputs, NEW reply \in Answer
    PROVE  VerdictOn(reply) \in Verdict
<1>1. Found \in SUBSET Candidate /\ Offered \in SUBSET Candidate
  BY FoundTyped
<1>2. RepeatAction(policy, entry, Offered, score) \in Action
  BY DEF RepeatAction, Inputs, ApiEntry, Action
<1>3. ASSUME NEW action \in Action, NEW C \in SUBSET Candidate
      PROVE  Ruled(action, C) \in Verdict
  BY DEF Ruled, Verdict
<1>4. Assisted(policy, ontology, entry, given, score, reply, Offered) \in Verdict
  <2> DEFINE d == Assisted(policy, ontology, entry, given, score, reply, Offered)
  <2>1. Validated(policy, ontology, Selected(reply, Offered)) \in SUBSET Candidate
    BY <1>1 DEF Validated, Selected
  <2>2. d.candidates \in SUBSET Candidate
    BY <1>1, <2>1 DEF Assisted
  <2>3. d.action \in Action
    BY <1>2 DEF Assisted, ModelAction, Action
  <2>4. Prompt(entry, given, Offered) \in SUBSET Extractors
    BY <1>1 DEF Prompt, Candidate, Inputs, ApiEntry
  <2>5. d = [action |-> d.action, candidates |-> d.candidates, invoked |-> TRUE,
             prompt |-> Prompt(entry, given, Offered)]
    BY DEF Assisted
  <2> HIDE DEF d
  <2>6. ASSUME NEW a \in Action, NEW C \in SUBSET Candidate, NEW P \in SUBSET Extractors
        PROVE  [action |-> a, candidates |-> C, invoked |-> TRUE, prompt |-> P] \in Verdict
    BY DEF Verdict
  <2>7. d \in Verdict
    BY <2>2, <2>3, <2>4, <2>5, <2>6
  <2> QED BY <2>7 DEF d
<1>5. "FORGET" \in Action /\ "BLOCK" \in Action /\ {} \in SUBSET Candidate
  BY DEF Action
<1> QED BY <1>1, <1>2, <1>3, <1>4, <1>5 DEF VerdictOn, Decide, Found, Offered

(* Every verdict is reached in one of six ways.                            *)
LEMMA Ways ==
    LET d == VerdictOn(answer)
    IN  \/ d = Ruled("FORGET", {})
        \/ d = Ruled("BLOCK", {})
        \/ d = Ruled("BLOCK", IF Offered # {} THEN Offered ELSE Found)
        \/ /\ ~Blocked(policy, ontology, Found)
           /\ d = Ruled(RepeatAction(policy, entry, Offered, score), Offered)
        \/ /\ ~Blocked(policy, ontology, Found)
           /\ ~entry.forget
           /\ ~(policy.hardBypass /\ given.classifier \in policy.hardBlock)
           /\ ~(policy.writeBypass /\ entry.write /\ entry.default = "UPSERT")
           /\ policy.inference /\ entry.llm # "DISABLED"
           /\ d = Assisted(policy, ontology, entry, given, score, answer, Offered)
BY DEF VerdictOn, Decide, Offered, Found
-----------------------------------------------------------------------------
LEMMA GroundedInitially == GateInit => Grounded
BY GateAssumptions, SilenceTyped DEF GateAssumptions, GateInit, Grounded, Inputs

LEMMA GroundedPreserved == Grounded /\ [GateNext]_gateVars => Grounded'
<1> SUFFICES ASSUME Grounded, [GateNext]_gateVars PROVE Grounded'
  OBVIOUS
<1>1. Inputs' /\ \A reply : VerdictOn(reply)' = VerdictOn(reply)
  <2>1. UNCHANGED inputs
    BY DEF GateNext, Evaluate, PassOver, Fail, Reply, Exhaust, gateVars
  <2> QED BY <2>1 DEF inputs, Grounded, Inputs, VerdictOn
<1>2. CASE Evaluate
  BY <1>1, <1>2 DEF Evaluate, Grounded
<1>3. CASE PassOver \/ Fail
  BY <1>1, <1>3 DEF PassOver, Fail, Grounded
<1>4. ASSUME NEW reply \in Replies, Reply(reply) PROVE Grounded'
  <2>1. reply \in Answer
    BY GateAssumptions DEF GateAssumptions
  <2>2. answer' = reply /\ decision' = VerdictOn(reply)
    BY <1>4 DEF Reply
  <2>3. decision' # Pending
    BY <2>1, <2>2, VerdictTyped, GateAssumptions DEF GateAssumptions, Grounded
  <2> QED BY <1>1, <2>1, <2>2, <2>3 DEF Grounded
<1>5. CASE Exhaust
  BY <1>1, <1>5 DEF Exhaust, Grounded
<1>6. CASE UNCHANGED gateVars
  BY <1>1, <1>6 DEF gateVars, Grounded
<1> QED BY <1>2, <1>3, <1>4, <1>5, <1>6 DEF GateNext

LEMMA VerdictsGrounded == GateSpec => []Grounded
<1>1. GateInit => Grounded
  BY GroundedInitially
<1> QED BY <1>1, GroundedPreserved, PTL DEF GateSpec

(* A decided verdict is Decide of the inputs: what Ways says, said of it.  *)
LEMMA VerdictWays ==
    ASSUME Grounded, Decided
    PROVE  \/ decision = Ruled("FORGET", {})
           \/ decision = Ruled("BLOCK", {})
           \/ decision = Ruled("BLOCK", IF Offered # {} THEN Offered ELSE Found)
           \/ /\ ~Blocked(policy, ontology, Found)
              /\ decision = Ruled(RepeatAction(policy, entry, Offered, score), Offered)
           \/ /\ ~Blocked(policy, ontology, Found)
              /\ ~entry.forget
              /\ ~(policy.hardBypass /\ given.classifier \in policy.hardBlock)
              /\ ~(policy.writeBypass /\ entry.write /\ entry.default = "UPSERT")
              /\ policy.inference /\ entry.llm # "DISABLED"
              /\ decision = Assisted(policy, ontology, entry, given, score, answer, Offered)
BY Ways DEF Grounded, Decided

LEMMA Subsets ==
    /\ Offered \subseteq Found
    /\ \A c \in Offered : Admissible(policy, ontology, c)
    /\ Selected(answer, Offered) \subseteq Offered
    /\ Validated(policy, ontology, Selected(answer, Offered)) \subseteq Offered
BY DEF Offered, Validated, Selected

(* An upsert without the model is an explicit bypass or above threshold,   *)
(* and has candidates.                                                     *)
LEMMA RepeatUpserts ==
    ASSUME Inputs, RepeatAction(policy, entry, Offered, score) = "UPSERT"
    PROVE  entry.bypass \/ score >= policy.persist
BY DEF RepeatAction

LEMMA ModelUpserts ==
    ASSUME NEW S, ModelAction(policy, ontology, answer, S) = "UPSERT"
    PROVE  Validated(policy, ontology, S) # {}
BY DEF ModelAction
-----------------------------------------------------------------------------
(* Theorem: an upsert means that everything found in the event, persisted  *)
(* or not, is admissible, and no source of sensitivity was outvoted.       *)
THEOREM BlockedNeverPersists == GateSpec => []NothingBlockedPersists
<1>1. ASSUME Grounded PROVE NothingBlockedPersists
  <2> SUFFICES ASSUME Decided, decision.action = "UPSERT"
      PROVE /\ \A c \in Found : Admissible(policy, ontology, c)
            /\ decision.candidates \subseteq Found
            /\ \A c \in decision.candidates :
                  /\ entry.hint <= ontology[c.type].ceiling
                  /\ given.fields[c.extractor] <= ontology[c.type].ceiling
                  /\ given.classifier <= ontology[c.type].ceiling
                  /\ given.override <= ontology[c.type].ceiling
    BY DEF NothingBlockedPersists
  <2> Inputs
    BY <1>1 DEF Grounded
  <2>1. ~Blocked(policy, ontology, Found) /\ decision.candidates \subseteq Offered
    BY <1>1, VerdictWays, Subsets DEF Ruled, Assisted
  <2>2. \A c \in Found : ontology[c.type].enabled
    BY DEF Found, Extracted
  <2>3. \A c \in Found : Admissible(policy, ontology, c)
    BY <2>1, <2>2 DEF Blocked, Admissible
  <2>4. ASSUME NEW c \in decision.candidates
        PROVE  /\ entry.hint <= ontology[c.type].ceiling
               /\ given.fields[c.extractor] <= ontology[c.type].ceiling
               /\ given.classifier <= ontology[c.type].ceiling
               /\ given.override <= ontology[c.type].ceiling
    <3>1. c \in Found
      BY <2>1, <2>4, Subsets
    <3>2. /\ c.type \in Types
          /\ c.extractor \in DOMAIN given.fields
          /\ c.level = EffectiveLevel(entry, given, c.extractor)
      BY <3>1, FoundIsPresent
    <3>3. ontology[c.type].ceiling \in 0 .. 4
      BY <3>2 DEF Inputs, Ontology, TypeRule, Level
    <3>4. /\ c.level \in 0 .. 4
          /\ entry.hint <= c.level /\ given.fields[c.extractor] <= c.level
          /\ given.classifier <= c.level /\ given.override <= c.level
      BY <3>2, LevelIsMaximum DEF Inputs, Level
    <3>5. c.level <= ontology[c.type].ceiling
      BY <2>3, <3>1, <3>3, <3>4 DEF Admissible, Blocks
    <3>6. /\ entry.hint \in 0 .. 4 /\ given.classifier \in 0 .. 4
          /\ given.override \in 0 .. 4
      BY DEF Inputs, ApiEntry, EventFields, Level
    <3>7. given.fields[c.extractor] \in 0 .. 4
      <4>1. PICK F \in SUBSET Extractors : given.fields \in [F -> Level]
        BY DEF Inputs, EventFields
      <4> QED BY <4>1, <3>2 DEF Level
    <3> QED BY <3>3, <3>4, <3>5, <3>6, <3>7
  <2> QED BY <2>1, <2>3, <2>4, Subsets
<1> QED BY <1>1, VerdictsGrounded, PTL

(* Theorem: the model adds no candidate and no level, and persists nothing *)
(* of its own.                                                             *)
THEOREM ModelNarrows == GateSpec => []ModelOnlyNarrows
<1>1. ASSUME Grounded PROVE ModelOnlyNarrows
  <2> SUFFICES ASSUME Decided, decision.invoked
      PROVE /\ decision.candidates \subseteq Offered
            /\ answer.given /\ decision.action = "UPSERT" => decision.candidates # {}
    BY DEF ModelOnlyNarrows, Offered
  <2>1. decision = Assisted(policy, ontology, entry, given, score, answer, Offered)
    BY <1>1, VerdictWays DEF Ruled
  <2>2. decision.candidates \subseteq Offered
    BY <2>1, Subsets DEF Assisted
  <2>3. answer.given /\ decision.action = "UPSERT" => decision.candidates # {}
    BY <2>1, ModelUpserts DEF Assisted
  <2> QED BY <2>2, <2>3
<1> QED BY <1>1, VerdictsGrounded, PTL

(* Where the loop stands: nobody ahead of the one whose turn it is was     *)
(* skipped, and an answer, once there is one, is the last thing heard.     *)
Tried(n, before) ==
    \A m \in 1 .. n - 1 :
        Order[m] \in Configured => \E i \in 1 .. before : requests[i].provider = Order[m]

InOrder ==
    /\ turn \in Nat
    /\ requests \in Seq([provider : Providers, reply : Answer])
    /\ decision = Pending
       => /\ \A i \in 1 .. Len(requests) : ~requests[i].reply.given
          /\ Tried(turn, Len(requests))
    /\ answer.given
       => /\ requests # <<>>
          /\ requests[Len(requests)].reply = answer
          /\ AnsweredInTurn(requests[Len(requests)])

LEMMA OrderKept == UNCHANGED inputs => Order' = Order
BY DEF inputs, Order, Offered, Found

(* A request is noted at the end, and leaves those before it as they were. *)
LEMMA Noted ==
    ASSUME InOrder, NEW reply \in Answer, Order[turn] \in Configured, Note(reply)
    PROVE  LET n == Len(requests)
           IN  /\ n \in Nat
               /\ requests' \in Seq([provider : Providers, reply : Answer])
               /\ Len(requests') = n + 1
               /\ requests'[n + 1] = [provider |-> Order[turn], reply |-> reply]
               /\ \A i \in 1 .. n : requests'[i] = requests[i]
<1> DEFINE last == [provider |-> Order[turn], reply |-> reply]
           R == [provider : Providers, reply : Answer]
<1>1. last \in R
  BY GateAssumptions DEF GateAssumptions
<1>2. requests \in Seq(R) /\ requests' = Append(requests, last)
  BY DEF InOrder, Note
<1> HIDE DEF last, R
<1>3. /\ Len(requests) \in Nat /\ Append(requests, last) \in Seq(R)
      /\ Len(Append(requests, last)) = Len(requests) + 1
      /\ Append(requests, last)[Len(requests) + 1] = last
      /\ \A i \in 1 .. Len(requests) : Append(requests, last)[i] = requests[i]
  BY <1>1, <1>2, AppendProperties
<1> QED BY <1>2, <1>3 DEF last, R

LEMMA InOrderPreserved == Grounded /\ InOrder /\ [GateNext]_gateVars => InOrder'
<1> SUFFICES ASSUME Grounded, InOrder, [GateNext]_gateVars PROVE InOrder'
  OBVIOUS
<1> USE DEF InOrder
<1>1. UNCHANGED inputs
  BY DEF GateNext, Evaluate, PassOver, Fail, Reply, Exhaust, gateVars
<1>2. Order' = Order
  BY <1>1, OrderKept
<1>3. decision = Pending => ~answer.given
  BY DEF Grounded, Silence
<1>4. ~Silence.given
  BY DEF Silence
<1>5. CASE Evaluate
  BY <1>2, <1>3, <1>5 DEF Evaluate, Tried
<1>6. CASE PassOver
  <2>1. /\ decision = Pending /\ turn' = turn + 1 /\ Order[turn] \notin Configured
        /\ UNCHANGED <<requests, answer, decision>>
    BY <1>6 DEF PassOver, InTurn
  <2>2. Tried(turn, Len(requests))
    BY <2>1
  <2>3. \A m \in 1 .. turn' - 1 : m \in 1 .. turn - 1 \/ m = turn
    BY <2>1
  <2>4. Tried(turn, Len(requests))'
    BY <1>2, <2>1, <2>2, <2>3 DEF Tried
  <2> QED BY <1>3, <2>1, <2>4
<1>7. CASE Fail
  <2>1. /\ decision = Pending /\ Order[turn] \in Configured /\ Note(Silence)
        /\ turn \in Nat /\ turn' \in {turn, turn + 1}
        /\ UNCHANGED <<answer, decision>>
    BY <1>7 DEF Fail, InTurn
  <2> DEFINE n == Len(requests)
  <2>2. /\ n \in Nat /\ Len(requests') = n + 1
        /\ requests' \in Seq([provider : Providers, reply : Answer])
        /\ requests'[n + 1] = [provider |-> Order[turn], reply |-> Silence]
        /\ \A i \in 1 .. n : requests'[i] = requests[i]
    BY <2>1, Noted, SilenceTyped
  <2>3. Tried(turn, n) /\ \A i \in 1 .. n : ~requests[i].reply.given
    BY <2>1
  <2> HIDE DEF n
  <2>4. \A i \in 1 .. n + 1 : i \in 1 .. n \/ i = n + 1
    BY <2>2
  <2>5. \A i \in 1 .. n + 1 : ~requests'[i].reply.given
    BY <1>4, <2>2, <2>3, <2>4
  <2>6. ASSUME NEW m \in 1 .. turn' - 1, Order[m] \in Configured
        PROVE  \E i \in 1 .. n + 1 : requests'[i].provider = Order[m]
    <3>1. CASE m = turn
      BY <2>2, <3>1
    <3>2. CASE m # turn
      <4>1. m \in 1 .. turn - 1
        <5>1. turn \in Nat /\ (turn' = turn \/ turn' = turn + 1)
          BY <2>1
        <5> HIDE DEF InOrder
        <5> QED BY <5>1, <3>2
      <4>2. PICK i \in 1 .. n : requests[i].provider = Order[m]
        BY <2>3, <2>6, <4>1 DEF Tried
      <4> QED BY <2>2, <4>2
    <3> QED BY <3>1, <3>2
  <2>7. Tried(turn, Len(requests))'
    BY <1>2, <2>2, <2>6 DEF Tried
  <2> QED BY <1>3, <2>1, <2>2, <2>5, <2>7
<1>8. ASSUME NEW reply \in Replies, Reply(reply) PROVE InOrder'
  <2>1. reply \in Answer /\ reply.given
    BY GateAssumptions DEF GateAssumptions
  <2>2. /\ decision = Pending /\ turn \in DOMAIN Order /\ Order[turn] \in Configured
        /\ Note(reply) /\ answer' = reply /\ decision' = VerdictOn(reply) /\ turn' = turn
    BY <1>8 DEF Reply, InTurn
  <2> DEFINE n == Len(requests)
  <2>3. /\ n \in Nat /\ Len(requests') = n + 1
        /\ requests' \in Seq([provider : Providers, reply : Answer])
        /\ requests'[n + 1] = [provider |-> Order[turn], reply |-> reply]
        /\ \A i \in 1 .. n : requests'[i] = requests[i]
    BY <2>1, <2>2, Noted
  <2>4. decision' # Pending
    BY <2>1, <2>2, VerdictTyped, GateAssumptions DEF GateAssumptions, Grounded
  <2>5. Tried(turn, n) /\ \A i \in 1 .. n : ~requests[i].reply.given
    BY <2>2
  <2> HIDE DEF n
  <2>6. requests' # <<>> /\ (n + 1) - 1 = n
    BY <2>3
  <2>7. AnsweredInTurn(requests[Len(requests)])'
    <3>1. \A i \in 1 .. n : ~requests'[i].reply.given
      BY <2>3, <2>5
    <3>2. \A m \in 1 .. turn - 1 : Order[m] \in Configured
             => \E i \in 1 .. n : requests'[i].provider = Order[m]
      BY <2>3, <2>5 DEF Tried
    <3>3. Order[turn] = requests'[Len(requests')].provider
      BY <2>3
    <3>4. \A i \in 1 .. Len(requests') - 1 : ~requests'[i].reply.given
      BY <2>3, <2>6, <3>1
    <3>5. \A m \in 1 .. turn - 1 : Order'[m] \in Configured
             => \E i \in 1 .. Len(requests') - 1 : requests'[i].provider = Order'[m]
      BY <1>2, <2>3, <2>6, <3>2
    <3>6. turn \in DOMAIN Order' /\ Order'[turn] = requests'[Len(requests')].provider
      BY <1>2, <2>2, <3>3
    <3> HIDE DEF InOrder
    <3> QED BY <3>4, <3>5, <3>6 DEF AnsweredInTurn
  <2> QED BY <2>2, <2>3, <2>4, <2>6, <2>7
<1>9. CASE Exhaust
  BY <1>2, <1>3, <1>9 DEF Exhaust, Tried
<1>10. CASE UNCHANGED gateVars
  <2>1. UNCHANGED <<turn, requests, answer, decision>>
    BY <1>10 DEF gateVars
  <2> QED BY <1>2, <2>1 DEF Tried, AnsweredInTurn
<1> QED BY <1>5, <1>6, <1>7, <1>8, <1>9, <1>10 DEF GateNext

LEMMA AskedInOrder == GateSpec => [](Grounded /\ InOrder)
<1>1. GateInit => Grounded /\ InOrder
  BY GroundedInitially DEF GateInit, InOrder, Tried, Silence
<1>2. Grounded /\ InOrder /\ [GateNext]_gateVars => Grounded' /\ InOrder'
  BY GroundedPreserved, InOrderPreserved
<1> QED BY <1>1, <1>2, PTL DEF GateSpec

(* Theorem: unless inference is off or the event is an explicit write that *)
(* bypasses it, an entry that requires the model is upserted only on the   *)
(* first valid answer in the policy's order, as that answer recommends and *)
(* picks; for any policies, orders, providers and courses of the requests. *)
THEOREM RequiredModelsConsent == GateSpec => []RequiredModelConsents
<1>1. ASSUME Grounded, InOrder PROVE RequiredModelConsents
  <2> SUFFICES ASSUME Decided, entry.llm = "REQUIRE", decision.action = "UPSERT",
                      policy.inference,
                      ~(policy.writeBypass /\ entry.write /\ entry.default = "UPSERT")
      PROVE /\ requests # <<>>
            /\ LET last == requests[Len(requests)]
               IN  /\ last.reply.given /\ last.reply.recommendation = "UPSERT"
                   /\ last.reply.confidence >= policy.confident \/ policy.persistUncertain
                   /\ decision.candidates # {}
                   /\ decision.candidates \subseteq Selected(last.reply, Offered)
                   /\ AnsweredInTurn(last)
    BY DEF RequiredModelConsents
  <2>1. decision = Assisted(policy, ontology, entry, given, score, answer, Offered)
    <3>1. decision = VerdictOn(answer)
      BY <1>1 DEF Grounded, Decided
    <3> QED BY <3>1 DEF VerdictOn, Decide, Ruled, Found, Offered
  <2> DEFINE picked == Selected(answer, Offered)
             action == ModelAction(policy, ontology, answer, picked)
  <2>2. answer.given /\ action = "UPSERT"
    BY <2>1 DEF Assisted
  <2>3. decision.candidates = Validated(policy, ontology, picked)
    BY <2>1, <2>2 DEF Assisted
  <2>4. /\ answer.recommendation = "UPSERT"
        /\ answer.confidence >= policy.confident \/ policy.persistUncertain
        /\ Validated(policy, ontology, picked) # {}
    BY <2>2 DEF ModelAction
  <2>5. Validated(policy, ontology, picked) \subseteq picked
    BY DEF Validated
  <2> QED BY <1>1, <2>2, <2>3, <2>4, <2>5 DEF InOrder
<1> QED BY <1>1, AskedInOrder, PTL

(* Theorem: the model is not asked about what the rules settle.            *)
THEOREM RulesComeFirst == GateSpec => []ModelBypassed
<1>1. ASSUME Grounded PROVE ModelBypassed
  BY <1>1, VerdictWays DEF ModelBypassed, Ruled
<1> QED BY <1>1, VerdictsGrounded, PTL

(* Theorem: one-off events persist by explicit bypass or by the model only.*)
THEOREM OneOffsNeedReason == GateSpec => []RepetitionRequired
<1>1. ASSUME Grounded PROVE RepetitionRequired
  <2> SUFFICES ASSUME Decided, decision.action = "UPSERT", score < policy.persist
      PROVE entry.bypass \/ (decision.invoked /\ answer.given)
    BY DEF RepetitionRequired
  <2> Inputs
    BY <1>1 DEF Grounded
  <2>1. score \in Nat /\ policy.persist \in Nat
    BY UnitAssumption DEF Inputs, Policy, Fraction
  <2>2. \/ RepeatAction(policy, entry, Offered, score) = "UPSERT"
        \/ decision.invoked /\ answer.given
    BY <1>1, VerdictWays DEF Ruled, Assisted
  <2> QED BY <2>1, <2>2, RepeatUpserts
<1> QED BY <1>1, VerdictsGrounded, PTL
=============================================================================
