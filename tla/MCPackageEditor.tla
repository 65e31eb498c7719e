--------------------------- MODULE MCPackageEditor ---------------------------
(* A package like the starter's: two modules, and a workflow that refers   *)
(* to entries of both in every way.  One entry was copied over from the    *)
(* other module and still states the key of that one.                      *)
EXTENDS PackageEditor

Entry(module, id) == [entry_id |-> Plain(id), module_key |-> Plain(module), api_named |-> TRUE]

Checkout == [workflow_key |-> Plain("checkout"),
             participant_entry_ids |-> <<Plain("register"), Plain("charge")>>,
             relationship_edges |-> <<[from_entry_id |-> Plain("register"), to_entry_id |-> Plain("charge")]>>,
             intent_rules |-> <<[observed_entry_ids |-> <<Plain("charge")>>, summarized |-> TRUE]>>]

MCStartPackages ==
    {[modules |-> <<[module_key |-> Plain("orders"), entries |-> <<Entry("orders", "register")>>],
                    [module_key |-> Plain("payment"), entries |-> <<Entry("orders", "charge")>>]>>,
      workflows |-> <<Checkout>>]}

MCTexts == {"", "module", "workflow", "orders", "payment", "register", "charge", "checkout", "x"}

MCTyped == {NoName, Plain("x"), Plain("charge")}
=============================================================================
