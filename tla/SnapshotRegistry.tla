-------------------------- MODULE SnapshotRegistry --------------------------
(***************************************************************************)
(* What the control plane promises the runtime, with documents, statuses   *)
(* and publication rows abstracted away: a register per slot (environment, *)
(* scope, tenant) that serves one immutable snapshot, changed only by      *)
(* publishing a valid snapshot or by going back to one that was published  *)
(* in that slot before.                                                    *)
(***************************************************************************)
CONSTANTS Slots, Publishable, NoSnapshot

VARIABLES serving,   \* slot |-> the snapshot in force, or NoSnapshot
          released   \* slot |-> every snapshot ever in force

registryVars == <<serving, released>>

Init == /\ serving = [s \in Slots |-> NoSnapshot]
        /\ released = [s \in Slots |-> {}]

Serve(s, snapshot) == /\ serving' = [serving EXCEPT ![s] = snapshot]
                      /\ released' = [released EXCEPT ![s] = @ \cup {snapshot}]

(* A snapshot not yet released in the slot has to be publishable; going    *)
(* back to a released one is always possible.                              *)
Next == \E s \in Slots : \E snapshot \in released'[s] :
            /\ snapshot \in released[s] \cup Publishable
            /\ Serve(s, snapshot)

Spec == Init /\ [][Next]_registryVars
=============================================================================
