------------------------------ MODULE MCJobLedger ------------------------------
EXTENDS JobLedger, TLC

CONSTANTS r1, r2, r3

(* One job of each kind.                                                   *)
OneOfEach == (r1 :> "persist") @@ (r2 :> "forget") @@ (r3 :> "admin")
=============================================================================
