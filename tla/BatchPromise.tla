---------------------------- MODULE BatchPromise ----------------------------
(***************************************************************************)
(* What POST /snapshot/batch promises for the items it was paid for: every  *)
(* item gets one result, which is never replaced, and the answer is given   *)
(* once and holds a result for every item.                                  *)
(***************************************************************************)
CONSTANTS Items, Outcomes, Empty
VARIABLES results, answered

Init == results = [i \in Items |-> Empty] /\ answered = FALSE

Report(i, r) ==
  /\ ~answered /\ results[i] = Empty
  /\ results' = [results EXCEPT ![i] = r]
  /\ UNCHANGED answered

Answer ==
  /\ ~answered /\ \A i \in Items : results[i] # Empty
  /\ answered' = TRUE
  /\ UNCHANGED results

Next == Answer \/ \E i \in Items, r \in Outcomes : Report(i, r)
Spec == Init /\ [][Next]_<<results, answered>>
=============================================================================
