------------------------ MODULE MCTransactionMachine ------------------------
(* Instances of TransactionMachine for TLC: the allowlist, task map and     *)
(* ceilings of policy.ts (A1), tight ceilings that a few runs reach, and a  *)
(* preference list of three services.                                       *)
EXTENDS TransactionMachine, TLC

A1TaskMap  == "security" :> <<"sitehealth">> @@ "tax" :> <<"vat-api">>
              @@ "compliance" :> <<"vat-api", "sitehealth">> @@ "admin" :> <<>>
A1PerService == "sitehealth" :> 100 @@ "vat-api" :> 25

(* Prices that differ, so that a ceiling can admit one service and not the  *)
(* other.                                                                   *)
MixedPrice      == "sitehealth" :> 1 @@ "vat-api" :> 2

ThreeTaskMap    == "audit" :> <<"sitehealth", "vat-api", "third">>
ThreePrice      == "sitehealth" :> 1 @@ "vat-api" :> 1 @@ "third" :> 1
ThreePerService == "sitehealth" :> 100 @@ "vat-api" :> 25 @@ "third" :> 25

OneTx    == {<<"t1", 0>>}
(* A caller whose second id is the one of an alternative to the first. *)
AltIds   == {<<"t1", 0>>, <<"t1", 1>>}
=============================================================================
