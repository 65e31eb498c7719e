------------------------------- MODULE PolicyGate -------------------------------
(***************************************************************************)
(* One decision under any policy that operators publish: the inputs of     *)
(* Decision chosen freely, the inference providers asked one after the     *)
(* other, and what the verdicts must be like.                              *)
(*                                                                         *)
(* Whether the event goes to a model at all is Decide's own answer for a   *)
(* silent one.  Each request to a provider either returns a valid answer   *)
(* or fails (timeout, HTTP error, unparsable text); which, and with what   *)
(* answer, is not ours to choose.                                          *)
(***************************************************************************)
EXTENDS Decision

CONSTANTS
    Policies, Ontologies, Entries, EventInputs, Replies, \* the inputs considered
    Configured,  \* providers that are registered, enabled and have their key
    Retried,     \* those of kind ollama, which repeat a failed request once
    Pending      \* no verdict yet

ASSUME GateAssumptions ==
    /\ Policies \subseteq Policy
    /\ Ontologies \subseteq Ontology
    /\ Entries \subseteq ApiEntry
    /\ EventInputs \subseteq EventFields
    /\ Replies \subseteq {a \in Answer : a.given}
    /\ Configured \subseteq Providers
    /\ Retried \subseteq Providers
    /\ Pending \notin Verdict

VARIABLES
    policy, ontology, entry, given, score,
    turn,      \* place of the provider whose turn it is, 0 before the loop
    again,     \* its first request has failed and is repeated
    requests,  \* the requests sent so far: provider and reply
    answer,    \* inference_result
    decision

inputs == <<policy, ontology, entry, given, score>>
gateVars == <<inputs, turn, again, requests, answer, decision>>

(* What the deterministic rules found in the event, and what of it is      *)
(* offered to a model.                                                     *)
Found == Extracted(ontology, entry, given)
Offered == Validated(policy, ontology, Found)

Order == ProviderIds(policy, entry, Offered)
VerdictOn(reply) == Decide(policy, ontology, entry, given, score, reply)

GateInit ==
    /\ policy \in Policies
    /\ ontology \in Ontologies
    /\ entry \in Entries
    /\ given \in EventInputs
    /\ score \in Fraction
    /\ turn = 0 /\ again = FALSE
    /\ requests = <<>>
    /\ answer = Silence
    /\ decision = Pending

(* The rules settle the event, or leave it to the model.                   *)
Evaluate ==
    /\ decision = Pending /\ turn = 0
    /\ IF VerdictOn(Silence).invoked
       THEN turn' = 1 /\ UNCHANGED decision
       ELSE decision' = VerdictOn(Silence) /\ UNCHANGED turn
    /\ UNCHANGED <<inputs, again, requests, answer>>

InTurn == decision = Pending /\ turn \in DOMAIN Order

(* get_inference_provider raises: the provider is passed over.             *)
PassOver ==
    /\ InTurn /\ Order[turn] \notin Configured
    /\ turn' = turn + 1
    /\ UNCHANGED <<inputs, again, requests, answer, decision>>

Note(reply) == requests' = Append(requests, [provider |-> Order[turn], reply |-> reply])

(* A request fails.  Ollama's is repeated once, unless what was raised is  *)
(* not of the kinds that infer catches.                                    *)
Fail ==
    /\ InTurn /\ Order[turn] \in Configured
    /\ Note(Silence)
    /\ \/ Order[turn] \in Retried /\ ~again /\ again' = TRUE /\ UNCHANGED turn
       \/ turn' = turn + 1 /\ again' = FALSE
    /\ UNCHANGED <<inputs, answer, decision>>

(* Slip: without the break, whoever answers last has its way.              *)
ReplyAndGoOn(reply) ==
    /\ InTurn /\ Order[turn] \in Configured
    /\ Note(reply)
    /\ answer' = reply
    /\ turn' = turn + 1 /\ again' = FALSE
    /\ UNCHANGED <<inputs, decision>>

(* A valid answer ends the loop and decides.                               *)
Reply(reply) ==
    /\ InTurn /\ Order[turn] \in Configured
    /\ Note(reply)
    /\ answer' = reply
    /\ decision' = VerdictOn(reply)
    /\ UNCHANGED <<inputs, turn, again>>

(* Nobody is left to ask.                                                  *)
Exhaust ==
    /\ decision = Pending /\ turn > Len(Order)
    /\ decision' = VerdictOn(answer)
    /\ UNCHANGED <<inputs, turn, again, requests, answer>>

GateNext == Evaluate \/ PassOver \/ Fail \/ (\E reply \in Replies : Reply(reply)) \/ Exhaust
GateSpec == GateInit /\ [][GateNext]_gateVars

Decided == decision # Pending
-----------------------------------------------------------------------------
GateTypeOK ==
    /\ turn \in Nat /\ again \in BOOLEAN
    /\ requests \in Seq([provider : Providers, reply : Answer])
    /\ answer \in Answer
    /\ decision \in Verdict \cup {Pending}

(* Nothing is upserted if anything found in the event is at a blocked      *)
(* level or above the ceiling of its type: neither that candidate nor the  *)
(* harmless ones beside it, whatever the model says and whatever switch    *)
(* of the policy is on.  No source of sensitivity is outvoted by another.  *)
NothingBlockedPersists ==
    Decided /\ decision.action = "UPSERT"
    => /\ \A c \in Found : Admissible(policy, ontology, c)
       /\ decision.candidates \subseteq Found
       /\ \A c \in decision.candidates :
             /\ entry.hint <= ontology[c.type].ceiling
             /\ given.fields[c.extractor] <= ontology[c.type].ceiling
             /\ given.classifier <= ontology[c.type].ceiling
             /\ given.override <= ontology[c.type].ceiling

(* Model output only narrows: it can add no candidate, upsert without a    *)
(* valid one, or lower a level.                                            *)
ModelOnlyNarrows ==
    Decided /\ decision.invoked
    => /\ decision.candidates \subseteq Validated(policy, ontology, Found)
       /\ answer.given /\ decision.action = "UPSERT" => decision.candidates # {}

(* No provider ahead of this one in the order was skipped: each was not    *)
(* to be had, or was asked before and failed.  Nor was any asked after.    *)
AnsweredInTurn(last) ==
    /\ \A i \in 1 .. Len(requests) - 1 : ~requests[i].reply.given
    /\ \E n \in DOMAIN Order :
          /\ Order[n] = last.provider
          /\ \A m \in 1 .. n - 1 :
                Order[m] \in Configured
                => \E i \in 1 .. Len(requests) - 1 : requests[i].provider = Order[m]

(* An entry that requires the model is upserted only with one's consent:   *)
(* what is persisted was picked, with an upsert recommended and confidence *)
(* enough, by the first provider in the policy's order that gave a valid   *)
(* answer, whatever failed before it.  Two kinds of events are not the     *)
(* model's: explicit writes that bypass it, and all where the policy has   *)
(* inference switched off.                                                 *)
RequiredModelConsents ==
    Decided /\ entry.llm = "REQUIRE" /\ decision.action = "UPSERT"
    => \/ ~policy.inference
       \/ policy.writeBypass /\ entry.write /\ entry.default = "UPSERT"
       \/ /\ requests # <<>>
          /\ LET last == requests[Len(requests)]
             IN  /\ last.reply.given /\ last.reply.recommendation = "UPSERT"
                 /\ last.reply.confidence >= policy.confident \/ policy.persistUncertain
                 /\ decision.candidates # {}
                 /\ decision.candidates \subseteq Selected(last.reply, Offered)
                 /\ AnsweredInTurn(last)

(* Forgets, hard blocks and explicit writes are settled without the model. *)
ModelBypassed ==
    Decided /\ decision.invoked
    => /\ ~entry.forget
       /\ ~(policy.hardBypass /\ given.classifier \in policy.hardBlock)
       /\ ~(policy.writeBypass /\ entry.write /\ entry.default = "UPSERT")
       /\ ~Blocked(policy, ontology, Found)

(* Below the threshold only an explicit bypass or the model persists.      *)
RepetitionRequired ==
    Decided /\ decision.action = "UPSERT" /\ score < policy.persist
    => entry.bypass \/ (decision.invoked /\ answer.given)

(* The rest is what the specification asks and the code does not do.       *)

(* S4_RESTRICTED: always blocked, whatever the configuration.              *)
RestrictedAlwaysBlocked ==
    Decided /\ ~entry.forget /\ given.classifier = 4 => decision.action = "BLOCK"

(* Prompts exclude the blocked field paths.                                *)
PromptExcludesBlocked ==
    Decided /\ decision.invoked => decision.prompt \cap entry.blocked = {}
=============================================================================
