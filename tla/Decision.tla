-------------------------------- MODULE Decision --------------------------------
(***************************************************************************)
(* evaluate_event: what the policy layer decides about one event, given    *)
(* the active bundle, the repeat score of its signal and the answer of the *)
(* inference providers.                                                    *)
(*                                                                         *)
(* Sensitivity levels are their rank, S0_PUBLIC = 0 .. S4_RESTRICTED = 4.  *)
(* Each extractor reads the field of the same name.  ProviderIds is the    *)
(* order in which providers are tried; PolicyGate tries them.              *)
(***************************************************************************)
EXTENDS Integers, Sequences

CONSTANTS
    Types,       \* memory types
    Extractors,  \* the names of EXTRACTOR_REGISTRY
    Families,    \* capability families of API entries
    Providers,   \* the provider ids a policy may name
    Unit         \* repeat scores and confidences are multiples of 1 / Unit

ASSUME UnitAssumption == Unit \in Nat \ {0}

Level == 0 .. 4
Fraction == 0 .. Unit

Mode == {"DISABLED", "ASSIST", "REQUIRE"}

(* A rule of the provider gate.  A filter that names nothing admits all;   *)
(* a rule without max_sensitivity has the ceiling 4.                       *)
ProviderRule == [families : SUBSET Families, modes : SUBSET Mode, types : SUBSET Types,
                 ceiling : Level, order : Seq(Providers) \ {<<>>}]
ProviderGate == [rules : Seq(ProviderRule), default : Providers]

Policy == [hardBlock : SUBSET Level,    \* sensitivity.hard_block_levels
           hardBypass : BOOLEAN,        \* model_inference.hard_rule_bypass
           writeBypass : BOOLEAN,       \* model_inference.explicit_write_bypass
           inference : BOOLEAN,         \* model_inference.enabled
           confident : Fraction,        \* low_confidence_threshold
           persistUncertain : BOOLEAN,  \* allow_low_confidence_persist
           persist : Fraction,          \* frequency.thresholds
           observe : Fraction,
           gate : ProviderGate]         \* model_inference.provider_gate

TypeRule == [enabled : BOOLEAN, ceiling : Level]
Ontology == [Types -> TypeRule]

(* An enabled API ontology entry.                                          *)
ApiEntry == [forget : BOOLEAN,             \* default_action FORGET or DELETE_FORGET
          write : BOOLEAN,              \* method_semantics WRITE
          default : {"BLOCK", "OBSERVE", "SESSION", "UPSERT"},
          bypass : BOOLEAN,             \* repeat_policy BYPASS
          llm : Mode,
          family : Families,
          hint : Level,
          types : SUBSET Types,
          extractors : SUBSET Extractors,
          allowed : SUBSET Extractors,  \* llm_allowed_field_paths
          blocked : SUBSET Extractors]  \* llm_blocked_field_paths

(* fields: those present, with the level their extractor assigns;          *)
(* classifier: the level found in the names and values of all fields.      *)
EventFields == [fields : UNION {[F -> Level] : F \in SUBSET Extractors},
          classifier : 1 .. 4,
          override : Level]             \* 0 when the tenant sets none

(* A validated StructuredInferenceResponse, or none (given is FALSE).      *)
Answer == [given : BOOLEAN, recommendation : {"UPSERT", "OBSERVE", "BLOCK"},
           confidence : Fraction, picked : SUBSET (Types \X Extractors)]
Silence == [given |-> FALSE, recommendation |-> "OBSERVE", confidence |-> 0, picked |-> {}]

Candidate == [type : Types, extractor : Extractors, level : Level]
Action == {"BLOCK", "OBSERVE", "SESSION", "UPSERT", "FORGET"}

(* prompt: the fields whose values the model is shown.                     *)
Verdict == [action : Action, candidates : SUBSET Candidate,
            invoked : BOOLEAN, prompt : SUBSET Extractors]

Ruled(action, candidates) ==
    [action |-> action, candidates |-> candidates, invoked |-> FALSE, prompt |-> {}]
-----------------------------------------------------------------------------
Max2(m, n) == IF m > n THEN m ELSE n

EffectiveLevel(entry, event, x) ==
    Max2(Max2(entry.hint, event.fields[x]), Max2(event.classifier, event.override))

(* _extract_candidates: every type is tried with every extractor.          *)
Extracted(ontology, entry, event) ==
    {[type |-> t, extractor |-> x, level |-> EffectiveLevel(entry, event, x)] :
        t \in {u \in entry.types : ontology[u].enabled},
        x \in entry.extractors \cap DOMAIN event.fields}

(* validate_candidate_set                                                  *)
Blocks(policy, ontology, c) ==
    /\ ontology[c.type].enabled
    /\ \/ c.level \in policy.hardBlock
       \/ c.level > ontology[c.type].ceiling

Admissible(policy, ontology, c) ==
    ontology[c.type].enabled /\ ~Blocks(policy, ontology, c)

(* Slip: a blocked candidate is dropped and the others go on.              *)
BlockedIfAll(policy, ontology, candidates) ==
    candidates # {} /\ \A c \in candidates : Blocks(policy, ontology, c)

Blocked(policy, ontology, candidates) ==
    \E c \in candidates : Blocks(policy, ontology, c)

Validated(policy, ontology, candidates) ==
    {c \in candidates : Admissible(policy, ontology, c)}

(* _build_repeat_action                                                    *)
RepeatAction(policy, entry, candidates, score) ==
    IF candidates = {} THEN "OBSERVE"
    ELSE IF entry.bypass THEN entry.default
    ELSE IF score >= policy.persist THEN "UPSERT"
    ELSE IF score >= policy.observe \/ entry.default = "UPSERT" THEN "OBSERVE"
    ELSE entry.default
-----------------------------------------------------------------------------
(* select_inference_provider_ids: the first rule that fits; a set of       *)
(* candidates that is empty exceeds no ceiling but has none of the types.  *)
Fits(rule, entry, candidates) ==
    /\ rule.families = {} \/ entry.family \in rule.families
    /\ rule.modes = {} \/ entry.llm \in rule.modes
    /\ rule.types = {} \/ \E c \in candidates : c.type \in rule.types
    /\ \A c \in candidates : c.level <= rule.ceiling

(* _unique: a name that comes again is left out.                           *)
Unique(order) ==
    LET unique[n \in 0 .. Len(order)] ==
            IF n = 0 THEN <<>>
            ELSE IF \E m \in 1 .. n - 1 : order[m] = order[n] THEN unique[n - 1]
            ELSE Append(unique[n - 1], order[n])
    IN  unique[Len(order)]

ProviderIds(policy, entry, candidates) ==
    LET rules == policy.gate.rules
        fitting == {i \in DOMAIN rules : Fits(rules[i], entry, candidates)}
    IN  IF fitting = {} THEN <<policy.gate.default>>
        ELSE Unique(rules[CHOOSE i \in fitting : \A j \in fitting : i <= j].order)
-----------------------------------------------------------------------------
(* Slip: the model may bring candidates of its own.                        *)
SelectedFreely(answer, candidates) ==
    {[type |-> p[1], extractor |-> p[2], level |-> 0] : p \in answer.picked}

(* _selection_to_result: indexes outside the list are ignored.             *)
Selected(answer, candidates) ==
    {c \in candidates : <<c.type, c.extractor>> \in answer.picked}

ModelAction(policy, ontology, answer, selected) ==
    LET valid == Validated(policy, ontology, selected)
    IN  IF Blocked(policy, ontology, selected) \/ answer.recommendation = "BLOCK" THEN "BLOCK"
        ELSE IF /\ answer.recommendation = "UPSERT"
                /\ valid # {}
                /\ answer.confidence >= policy.confident \/ policy.persistUncertain
        THEN "UPSERT"
        ELSE "OBSERVE"

(* filter_prompt_fields, and the candidates _render_messages adds.         *)
Prompt(entry, event, candidates) ==
    ((entry.allowed \ entry.blocked) \cap DOMAIN event.fields)
    \cup {c.extractor : c \in candidates}

Assisted(policy, ontology, entry, event, score, answer, candidates) ==
    LET selected == Selected(answer, candidates)
    IN  [action |-> IF answer.given THEN ModelAction(policy, ontology, answer, selected)
                    ELSE IF entry.llm = "REQUIRE" THEN "OBSERVE"
                    ELSE RepeatAction(policy, entry, candidates, score),
         candidates |-> IF answer.given THEN Validated(policy, ontology, selected) ELSE candidates,
         invoked |-> TRUE,
         prompt |-> Prompt(entry, event, candidates)]

Decide(policy, ontology, entry, event, score, answer) ==
    LET extracted == Extracted(ontology, entry, event)
        candidates == Validated(policy, ontology, extracted)
    IN  IF entry.forget THEN Ruled("FORGET", {})
        ELSE IF policy.hardBypass /\ event.classifier \in policy.hardBlock THEN Ruled("BLOCK", {})
        ELSE IF Blocked(policy, ontology, extracted)
        THEN Ruled("BLOCK", IF candidates # {} THEN candidates ELSE extracted)
        ELSE IF policy.writeBypass /\ entry.write /\ entry.default = "UPSERT"
        THEN Ruled(RepeatAction(policy, entry, candidates, score), candidates)
        ELSE IF policy.inference /\ entry.llm # "DISABLED"
        THEN Assisted(policy, ontology, entry, event, score, answer, candidates)
        ELSE Ruled(RepeatAction(policy, entry, candidates, score), candidates)
=============================================================================
