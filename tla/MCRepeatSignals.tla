---------------------------- MODULE MCRepeatSignals ----------------------------
EXTENDS RepeatSignals, TLC

CONSTANTS topic, customer, openDocument, createDeal, searchCustomers, read, write

(* Reads are judged by repetition, writes bypass the rule and concern the  *)
(* topic too.                                                              *)
EntryOf ==
    (openDocument :> [candidates |-> <<topic>>, source |-> read, repeat |-> TRUE])
    @@ (createDeal :> [candidates |-> <<customer, topic>>, source |-> write, repeat |-> FALSE])
    @@ (searchCustomers :> [candidates |-> <<topic, customer>>, source |-> read, repeat |-> TRUE])

(* Forty hundredths for the decayed weight, eight for each session, two    *)
(* for each day, three for each source.                                    *)
WeightsOfPolicy == [decayed |-> 40, sessions |-> 40, days |-> 10, sources |-> 9]

ASSUME PolicyIsSensible == OneSessionFallsShort /\ TwoSessionsSuffice

(* The specification treats requests alike, and sessions.                  *)
Symmetry == Permutations(Events) \cup Permutations(Sessions)
=============================================================================
