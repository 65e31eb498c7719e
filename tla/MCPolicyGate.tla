------------------------------ MODULE MCPolicyGate ------------------------------
EXTENDS PolicyGate, TLC

CONSTANTS topic, address, query, place, lookup, booking, local, remote, gone

(* Three rules, each with a filter the others lack, and a default that is  *)
(* not configured; a provider listed twice.                                *)
Rule(families, modes, types, ceiling, order) ==
    [families |-> families, modes |-> modes, types |-> types, ceiling |-> ceiling, order |-> order]

SomeGate ==
    [rules |-> <<Rule({booking}, {}, {}, 4, <<remote>>),
                 Rule({}, {}, {topic}, 1, <<gone, local, remote, local>>),
                 Rule({}, {"REQUIRE"}, {}, 2, <<remote, local>>)>>,
     default |-> gone]

(* The default policy and its single-switch variants.                      *)
Default(levels) ==
    [hardBlock |-> levels, hardBypass |-> TRUE, writeBypass |-> TRUE, inference |-> TRUE,
     confident |-> 2, persistUncertain |-> TRUE, persist |-> 2, observe |-> 1,
     gate |-> SomeGate]

Variants(p) ==
    {p, [p EXCEPT !.hardBypass = FALSE], [p EXCEPT !.writeBypass = FALSE],
     [p EXCEPT !.inference = FALSE], [p EXCEPT !.persistUncertain = FALSE]}

SomePolicies == UNION {Variants(Default(levels)) : levels \in {{3, 4}, {4}, {}}}

Rules(enabled, ceiling) ==
    (topic :> [enabled |-> TRUE, ceiling |-> 1]) @@ (address :> [enabled |-> enabled, ceiling |-> ceiling])

SomeOntologies == {Rules(TRUE, 2), Rules(TRUE, 4), Rules(FALSE, 2)}

Api(write, default, bypass, llm, blocked) ==
    [forget |-> FALSE, write |-> write, default |-> default, bypass |-> bypass, llm |-> llm,
     family |-> lookup, hint |-> 1, types |-> {topic, address}, extractors |-> {query, place},
     allowed |-> {query}, blocked |-> blocked]

SomeEntries ==
    {Api(write, default, bypass, llm, {}) :
        write \in BOOLEAN, default \in {"BLOCK", "OBSERVE", "UPSERT"}, bypass \in BOOLEAN,
        llm \in {"DISABLED", "ASSIST", "REQUIRE"}}
    \cup {[Api(TRUE, "OBSERVE", FALSE, "DISABLED", {}) EXCEPT !.forget = TRUE],
          [Api(FALSE, "OBSERVE", FALSE, "ASSIST", {}) EXCEPT !.hint = 4],
          [Api(FALSE, "OBSERVE", FALSE, "REQUIRE", {}) EXCEPT !.family = booking],
          [Api(FALSE, "OBSERVE", FALSE, "ASSIST", {}) EXCEPT !.types = {address}],
          [Api(FALSE, "SESSION", FALSE, "ASSIST", {}) EXCEPT !.types = {topic}],
          \* Addresses may be remembered, but their text is not for the model.
          [Api(FALSE, "OBSERVE", FALSE, "ASSIST", {place}) EXCEPT !.types = {address}]}

Fields == {<<>>, query :> 1, place :> 2, (query :> 1) @@ (place :> 2)}

SomeEvents ==
    {[fields |-> f, classifier |-> level, override |-> 0] : f \in Fields, level \in {1, 2, 4}}
    \cup {[fields |-> query :> 1, classifier |-> 1, override |-> 3]}

Says(recommendation, confidence, picked) ==
    [given |-> TRUE, recommendation |-> recommendation, confidence |-> confidence, picked |-> picked]

SomeReplies ==
    {Says("BLOCK", 3, {<<topic, query>>}),
     Says("UPSERT", 3, {}),
     Says("UPSERT", 3, {<<topic, query>>, <<address, place>>}),
     Says("UPSERT", 1, {<<address, query>>, <<address, place>>})}
=============================================================================
