----------------------------- MODULE MCMemoryStore -----------------------------
EXTENDS MemoryStore, TLC

CONSTANTS u1, u2, k1, k2

Entry(cardinality, relation, object, embeds, expires) ==
    [cardinality |-> cardinality, relation |-> relation, object |-> object,
     embeds |-> embeds, expires |-> expires]

(* Slots: an address, and a goal that only workflows write.                *)
Slots == ("address" :> Entry("ONE_ACTIVE", FALSE, TRUE, TRUE, FALSE))
      @@ ("goal" :> Entry("ONE_ACTIVE", FALSE, FALSE, TRUE, TRUE))

(* A slot whose values have no entity: its queries run on unflushed rows.  *)
Plain == "plain" :> Entry("ONE_ACTIVE", FALSE, FALSE, FALSE, TRUE)

(* Collections: customers as relations, topics that are reinforced, and    *)
(* the slot beside them.                                                   *)
Collections == ("customer" :> Entry("MANY_UNIQUE_BY_OBJECT", TRUE, TRUE, FALSE, FALSE))
            @@ ("topic" :> Entry("MANY_SCORED", FALSE, TRUE, TRUE, TRUE))
            @@ Plain

(* A fact type with many values that is not a relation.                    *)
Notes == "note" :> Entry("MANY_UNIQUE_BY_OBJECT", FALSE, TRUE, FALSE, FALSE)

(* The strongest source, a weaker one, and one as weak as that.            *)
Precedence == ("explicit" :> 2) @@ ("inferred" :> 1) @@ ("imported" :> 1)
TwoSources == ("explicit" :> 2) @@ ("inferred" :> 1)

Decide(user, source, candidates, workflow, intent) ==
    [user |-> user, source |-> source, candidates |-> candidates, template |-> Absent,
     workflow |-> workflow, intent |-> intent]

Single(user, source, type, key) ==
    Decide(user, source, <<[type |-> type, key |-> key]>>, Absent, Absent)

Forget(user, type, key, relation) ==
    [user |-> user, type |-> type, key |-> key, relation |-> relation]

Pair(source, type, key, other) ==
    Decide(u1, source, <<[type |-> type, key |-> key], [type |-> type, key |-> other]>>,
           Absent, Absent)

SlotDecisions ==
    {Single(u1, source, "address", key) : source \in Sources, key \in Keys}
    \cup {Single(u2, "inferred", "address", k1), Pair("inferred", "address", k2, k1)}
    \cup {Decide(u1, "explicit", <<[type |-> "address", key |-> k1]>>, key, "goal") : key \in Keys}

PlainDecisions ==
    {Single(u1, source, "plain", key) : source \in Sources, key \in Keys}
    \cup {Pair("explicit", "plain", k1, k2), Pair("explicit", "plain", k1, k1),
          Pair("inferred", "plain", k2, k1),
          Decide(u1, "explicit", <<[type |-> "plain", key |-> k1], [type |-> Absent, key |-> k1]>>,
                 Absent, Absent)}

(* An API entry whose template names the relation.                         *)
Named(d) == [d EXCEPT !.template = "works_with"]
NoTemplates == {}
OneTemplate == {"works_with"}

CollectionDecisions ==
    {Single(u1, "explicit", type, key) : type \in {"customer", "topic"}, key \in Keys}
    \cup {Named(Single(u1, "explicit", "customer", k1)),
          Decide(u1, "explicit", <<[type |-> "topic", key |-> k1], [type |-> "topic", key |-> k1]>>,
                 Absent, Absent),
          Decide(u1, "explicit", <<[type |-> "customer", key |-> k1], [type |-> "topic", key |-> k1]>>,
                 Absent, Absent)}

MixedDecisions == CollectionDecisions \cup PlainDecisions
NoteDecisions == {Single(u1, "explicit", "note", k1)}

(* A workflow's goals as relations, which a candidate may supersede.       *)
LinkedGoals == "goal" :> Entry("ONE_ACTIVE", TRUE, TRUE, FALSE, FALSE)
GoalDecisions == {Decide(u1, "explicit", <<[type |-> "goal", key |-> k1]>>, k2, "goal")}

ForgetSlots == {Forget(u1, Absent, Absent, Absent), Forget(u1, "address", k2, Absent)}
ForgetPlain == {Forget(u1, Absent, Absent, Absent)}
ForgetCollections == {Forget(u1, Absent, k1, "customer"), Forget(u1, "topic", Absent, Absent)}

Typos == {<<k1, k2>>}
NoTypos == {}
=============================================================================
