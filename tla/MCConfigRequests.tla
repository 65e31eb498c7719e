-------------------------- MODULE MCConfigRequests --------------------------
(***************************************************************************)
(* Two overlapping requests on one slot.  One kind of document stands for  *)
(* a bundle: the races are between the steps of the requests, not between  *)
(* the kinds.  "bad" is content that validation rejects.                   *)
(***************************************************************************)
EXTENDS ConfigRequests, TLC

MCKinds == {"bundle"}
MCDefinitionsOf == [bundle |-> {"good", "bad"}]
MCHasError(k, defs) == defs[k] = "bad"
MCRaises(defs) == FALSE
MCOwners == {[scope |-> "global", tenant |-> NoTenant]}

Symmetry == Permutations(DocIds) \cup Permutations(Requests)
=============================================================================
