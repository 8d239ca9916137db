-------------------------- MODULE BatchScans_proofs --------------------------
(***************************************************************************)
(* For every size of batch and of pool: no item is lost or worked on twice, *)
(* and the pool implements BatchPromise.                                    *)
(***************************************************************************)
EXTENDS BatchScans, TLAPS

(* A worker returns only when every item has been handed out. *)
DoneAtEnd == \A w \in Workers : stage[w] = "done" => nextIndex > BatchSize

(* A worker that scans works on an item of the request. *)
ScansAnItem == \A w \in Workers : stage[w] \in Scanning => item[w] \in Items

BatchInv == TypeOK /\ SlotsAccounted /\ DoneAtEnd /\ ScansAnItem

(* Steps that differ only in where the pipeline goes next. *)
ReportsAtOnce(w, r) ==
  /\ Takes(w)
  /\ nextIndex <= BatchSize
  /\ Fill(nextIndex, r)
  /\ UNCHANGED workerVars
MovesOn(w) ==
  /\ stage[w] \in Scanning
  /\ \E to \in Scanning : stage' = [stage EXCEPT ![w] = to]
  /\ \E h \in 0..MaxHops : hop' = [hop EXCEPT ![w] = h]
  /\ UNCHANGED <<nextIndex, results, late, content, item>>
EndsWith(w, r) == Ends(w, Scanning, r)

(* Every step of a worker is of one of five kinds. *)
LEMMA StepKinds ==
  ASSUME TypeOK, NEW w \in Workers, Works(w)
  PROVE  \/ NothingLeft(w)
         \/ ReportsAtOnce(w, "late") \/ ReportsAtOnce(w, "invalid")
         \/ StartsScan(w)
         \/ MovesOn(w)
         \/ \E r \in {"snapshot", "unreachable", "error"} : EndsWith(w, r)
<1>1. CASE Pulls(w)
  BY <1>1 DEF Pulls, TooLate, InvalidUrl, ReportsAtOnce
<1>2. CASE HostAllowed(w) \/ Answered(w) \/ BodyRead(w)
  <2>1. hop[w] \in 0..MaxHops /\ hop = [hop EXCEPT ![w] = hop[w]]
    BY DEF TypeOK
  <2>2. QED  BY <1>2, <2>1 DEF HostAllowed, Answered, BodyRead, Moves, MovesOn, Scanning
<1>3. CASE Redirected(w)
  <2>1. hop[w] + 1 \in 0..MaxHops
    BY <1>3, BatchAssumption DEF Redirected, TypeOK
  <2>2. QED  BY <1>3, <2>1 DEF Redirected, Moves, MovesOn, Scanning
<1>4. CASE Probed(w)
  <2>1. hop[w] \in 0..MaxHops /\ hop = [hop EXCEPT ![w] = hop[w]]
    BY DEF TypeOK
  <2>2. QED  BY <1>4, <2>1 DEF Probed, Moves, MovesOn, Ends, EndsWith, Scanning
<1>5. CASE HostBlocked(w) \/ TooManyRedirects(w) \/ FetchFails(w)
             \/ ContentChecked(w) \/ ScanThrows(w)
  BY <1>5 DEF HostBlocked, TooManyRedirects, FetchFails, ContentChecked,
              ScanThrows, Ends, EndsWith, Scanning
<1>6. QED  BY <1>1, <1>2, <1>3, <1>4, <1>5 DEF Works, Boxed, Unboxed

LEMMA WorkersExist == 1 \in Workers
  BY BatchAssumption DEF Workers

LEMMA InitBatch == Init => BatchInv
<1> SUFFICES ASSUME Init PROVE BatchInv
  OBVIOUS
<1>1. TypeOK
  <2>1. /\ results \in [Items -> Outcomes \cup {Empty}]
        /\ stage \in [Workers -> Scanning \cup {"pull", "done"}]
    BY DEF Init
  <2>2. item \in [Workers -> Items \cup {0}] /\ hop \in [Workers -> 0..MaxHops]
    BY BatchAssumption DEF Init
  <2>3. nextIndex \in Nat \ {0}
    BY DEF Init
  <2>4. late \in BOOLEAN /\ content \in BOOLEAN
    BY DEF Init
  <2>5. QED  BY <2>1, <2>2, <2>3, <2>4 DEF TypeOK
<1>2. \A w \in Workers : stage[w] = "pull"
  BY DEF Init
<1>3. \A i \in Items : results[i] = Empty /\ ~(i < nextIndex)
  BY BatchAssumption DEF Init, Items
<1>4. SlotsAccounted
  BY <1>2, <1>3 DEF SlotsAccounted, Holds, Scanning
<1>5. DoneAtEnd /\ ScansAnItem
  BY <1>2 DEF DoneAtEnd, ScansAnItem, Scanning
<1>6. QED  BY <1>1, <1>4, <1>5 DEF BatchInv

(* The shape of the state is kept by every step. *)
LEMMA ShapeKept == TypeOK /\ [Next]_vars => TypeOK'
<1> SUFFICES ASSUME TypeOK, [Next]_vars PROVE TypeOK'
  OBVIOUS
<1> USE BatchAssumption
<1>1. CASE UNCHANGED vars
  BY <1>1 DEF TypeOK, vars, workerVars
<1>2. CASE DeadlinePasses
  BY <1>2 DEF TypeOK, DeadlinePasses, workerVars
<1>3. ASSUME NEW w \in Workers, Works(w) PROVE TypeOK'
  <2>1. CASE NothingLeft(w)
    BY <2>1 DEF NothingLeft, Takes, TypeOK
  <2>2. ASSUME NEW r \in Outcomes, ReportsAtOnce(w, r) PROVE TypeOK'
    <3>1. results' \in [Items -> Outcomes \cup {Empty}]
      BY <2>2 DEF ReportsAtOnce, Fill, TypeOK
    <3>2. nextIndex' \in Nat \ {0}
      BY <2>2 DEF ReportsAtOnce, Takes, TypeOK
    <3>3. QED  BY <2>2, <3>1, <3>2 DEF ReportsAtOnce, Takes, TypeOK, workerVars
  <2>3. CASE StartsScan(w)
    BY <2>3 DEF StartsScan, Takes, TypeOK, Items, Scanning
  <2>4. CASE MovesOn(w)
    BY <2>4 DEF MovesOn, TypeOK
  <2>5. CASE \E r \in {"snapshot", "unreachable", "error"} : EndsWith(w, r)
    BY <2>5 DEF EndsWith, Ends, Fill, TypeOK, Outcomes, Items
  <2>6. "late" \in Outcomes /\ "invalid" \in Outcomes
    BY DEF Outcomes
  <2>7. QED  BY <1>3, <2>1, <2>2, <2>3, <2>4, <2>5, <2>6, StepKinds
<1>4. QED  BY <1>1, <1>2, <1>3 DEF Next

(* What is reported is not Empty. *)
LEMMA OutcomesAreReports == \A r \in Outcomes : r # Empty
  BY BatchAssumption DEF Outcomes

LEMMA SlotsKept == BatchInv /\ [Next]_vars => SlotsAccounted' /\ DoneAtEnd'
<1> SUFFICES ASSUME BatchInv, [Next]_vars PROVE SlotsAccounted' /\ DoneAtEnd'
  OBVIOUS
<1> USE BatchAssumption DEF BatchInv
<1>1. CASE UNCHANGED vars
  BY <1>1 DEF SlotsAccounted, DoneAtEnd, Holds, vars, workerVars
<1>2. CASE DeadlinePasses
  BY <1>2 DEF DeadlinePasses, SlotsAccounted, DoneAtEnd, Holds, workerVars
<1>3. ASSUME NEW w \in Workers, Works(w)
      PROVE  SlotsAccounted' /\ DoneAtEnd'
  <2>1. CASE NothingLeft(w)
    BY <2>1 DEF NothingLeft, Takes, TypeOK, SlotsAccounted, DoneAtEnd, Holds,
                Items, Scanning
  <2>2. ASSUME NEW r \in Outcomes, ReportsAtOnce(w, r)
        PROVE  SlotsAccounted' /\ DoneAtEnd'
    BY <2>2, OutcomesAreReports
    DEF ReportsAtOnce, Takes, Fill, TypeOK, SlotsAccounted, DoneAtEnd, Holds,
        Items, Scanning, workerVars
  <2>3. CASE StartsScan(w)
    <3>1. nextIndex \in Items /\ nextIndex' = nextIndex + 1 /\ results' = results
      BY <2>3 DEF StartsScan, Takes, TypeOK, Items
    <3>2. \A v \in Workers, i \in Items :
            Holds(v, i)' <=> (IF v = w THEN i = nextIndex ELSE Holds(v, i))
      BY <2>3 DEF StartsScan, Holds, TypeOK, Scanning
    <3>3. ~Holds(w, 0) /\ \A i \in Items : ~Holds(w, i)
      BY <2>3 DEF StartsScan, Takes, Holds, Scanning
    <3>4. results[nextIndex] = Empty /\ \A v \in Workers : ~Holds(v, nextIndex)
      BY <3>1 DEF SlotsAccounted, TypeOK, Items
    <3>5. SlotsAccounted'
      BY <3>1, <3>2, <3>3, <3>4 DEF SlotsAccounted, TypeOK, Items
    <3>6. DoneAtEnd'
      BY <2>3 DEF StartsScan, Takes, TypeOK, DoneAtEnd
    <3>7. QED  BY <3>5, <3>6
  <2>4. CASE MovesOn(w)
    <3>1. \A v \in Workers, i \in Items : Holds(v, i)' <=> Holds(v, i)
      BY <2>4 DEF MovesOn, Holds, TypeOK
    <3>2. SlotsAccounted'
      BY <2>4, <3>1 DEF MovesOn, SlotsAccounted
    <3>3. DoneAtEnd'
      BY <2>4 DEF MovesOn, DoneAtEnd, TypeOK, Scanning
    <3>4. QED  BY <3>2, <3>3
  <2>5. ASSUME NEW r \in Outcomes, EndsWith(w, r)
        PROVE  SlotsAccounted' /\ DoneAtEnd'
    <3>1. \A v \in Workers, i \in Items :
            Holds(v, i)' <=> v # w /\ Holds(v, i)
      BY <2>5 DEF EndsWith, Ends, Holds, TypeOK, Scanning
    <3>2. \A i \in Items :
            results'[i] = IF i = item[w] THEN r ELSE results[i]
      BY <2>5 DEF EndsWith, Ends, Fill, TypeOK
    <3>3. nextIndex' = nextIndex /\ Holds(w, item[w])
      BY <2>5 DEF EndsWith, Ends, Holds
    <3>4. \A i \in Items : Holds(w, i) => i = item[w]
      BY DEF Holds
    <3>5. SlotsAccounted'
      BY <3>1, <3>2, <3>3, <3>4, OutcomesAreReports DEF SlotsAccounted
    <3>6. DoneAtEnd'
      BY <2>5 DEF EndsWith, Ends, DoneAtEnd, TypeOK, Scanning
    <3>7. QED  BY <3>5, <3>6
  <2>6. {"late", "invalid", "snapshot", "unreachable", "error"} = Outcomes
    BY DEF Outcomes
  <2>7. QED  BY <1>3, <2>1, <2>2, <2>3, <2>4, <2>5, <2>6, StepKinds
<1>4. QED  BY <1>1, <1>2, <1>3 DEF Next

LEMMA ItemsKept == BatchInv /\ [Next]_vars => ScansAnItem'
<1> SUFFICES ASSUME BatchInv, [Next]_vars PROVE ScansAnItem'
  OBVIOUS
<1> USE BatchAssumption DEF BatchInv, ScansAnItem
<1>1. CASE UNCHANGED vars
  BY <1>1 DEF vars, workerVars
<1>2. CASE DeadlinePasses
  BY <1>2 DEF DeadlinePasses, workerVars
<1>3. ASSUME NEW w \in Workers, Works(w) PROVE ScansAnItem'
  <2>1. CASE NothingLeft(w)
    BY <2>1 DEF NothingLeft, TypeOK, Scanning
  <2>2. CASE ReportsAtOnce(w, "late") \/ ReportsAtOnce(w, "invalid")
    BY <2>2 DEF ReportsAtOnce, workerVars
  <2>3. CASE StartsScan(w)
    BY <2>3 DEF StartsScan, Takes, TypeOK, Items
  <2>4. CASE MovesOn(w)
    BY <2>4 DEF MovesOn, TypeOK
  <2>5. CASE \E r \in {"snapshot", "unreachable", "error"} : EndsWith(w, r)
    BY <2>5 DEF EndsWith, Ends, TypeOK, Scanning
  <2>6. QED  BY <1>3, <2>1, <2>2, <2>3, <2>4, <2>5, StepKinds
<1>4. QED  BY <1>1, <1>2, <1>3 DEF Next

(* The invariant of the pool, which the theorems below rest on. *)
LEMMA BatchInvariant == Spec => []BatchInv
<1>1. BatchInv /\ [Next]_vars => BatchInv'
  BY ShapeKept, SlotsKept, ItemsKept DEF BatchInv
<1>2. QED  BY InitBatch, <1>1, PTL DEF Spec
-----------------------------------------------------------------------------
(* The shape of the state is kept, and no chain of redirects is longer than *)
(* fetchWithChain allows.                                                   *)
THEOREM BatchTypeCorrect == Spec => []TypeOK
  BY BatchInvariant, PTL DEF BatchInv

(* No domain of a batch is lost, and none is scanned by two workers,        *)
(* whatever the size of the batch and of the pool.                          *)
THEOREM NoItemLost == Spec => []SlotsAccounted
  BY BatchInvariant, PTL DEF BatchInv

(* Behind an item reported late nothing is being scanned either, and the    *)
(* deadline has passed.                                                     *)
LateInv ==
  \A i \in Items : results[i] = "late" =>
    /\ late
    /\ \A j \in Items : i < j => /\ results[j] \in {"late", Empty}
                                 /\ \A w \in Workers : ~Holds(w, j)

(* The next item has not been touched, nor have those after it. *)
LEMMA NextUntouched ==
  ASSUME BatchInv, NEW j \in Items, ~(j < nextIndex)
  PROVE  results[j] = Empty /\ \A w \in Workers : ~Holds(w, j)
BY DEF BatchInv, SlotsAccounted

LEMMA LateKept == BatchInv /\ LateInv /\ [Next]_vars => LateInv'
<1> SUFFICES ASSUME BatchInv, LateInv, [Next]_vars PROVE LateInv'
  OBVIOUS
<1> USE BatchAssumption
<1>1. CASE UNCHANGED vars
  BY <1>1 DEF LateInv, Holds, vars, workerVars
<1>2. CASE DeadlinePasses
  BY <1>2 DEF DeadlinePasses, LateInv, Holds, workerVars
<1>3. ASSUME NEW w \in Workers, Works(w) PROVE LateInv'
  <2>1. CASE NothingLeft(w)
    BY <2>1 DEF NothingLeft, Takes, LateInv, Holds, BatchInv, TypeOK, Scanning
  <2>2. CASE TooLate(w)
    <3>1. /\ late' = late /\ late /\ nextIndex \in Items /\ UNCHANGED <<stage, item>>
          /\ results' = [results EXCEPT ![nextIndex] = "late"]
      BY <2>2 DEF TooLate, Takes, Fill, workerVars, BatchInv, TypeOK, Items
    <3>2. \A j \in Items : nextIndex < j => ~(j < nextIndex)
      BY <3>1 DEF Items
    <3>3. \A i \in Items : results'[i] = IF i = nextIndex THEN "late" ELSE results[i]
      BY <3>1 DEF BatchInv, TypeOK
    <3>4. QED  BY <3>1, <3>2, <3>3, NextUntouched DEF LateInv, Holds
  <2>3. CASE InvalidUrl(w) \/ StartsScan(w)
    <3>1. ~late /\ \A i \in Items : results'[i] # "late"
      BY <2>3 DEF InvalidUrl, StartsScan, Takes, Fill, LateInv, BatchInv, TypeOK
    <3>2. QED  BY <3>1 DEF LateInv
  <2>4. CASE MovesOn(w)
    <3>1. \A v \in Workers, i \in Items : Holds(v, i)' <=> Holds(v, i)
      BY <2>4 DEF MovesOn, Holds, BatchInv, TypeOK
    <3>2. QED  BY <2>4, <3>1 DEF MovesOn, LateInv
  <2>5. ASSUME NEW r \in {"snapshot", "unreachable", "error"}, EndsWith(w, r)
        PROVE  LateInv'
    <3>1. \A v \in Workers, i \in Items : Holds(v, i)' <=> v # w /\ Holds(v, i)
      BY <2>5 DEF EndsWith, Ends, Holds, BatchInv, TypeOK, Scanning
    <3>2. /\ \A i \in Items : results'[i] = IF i = item[w] THEN r ELSE results[i]
          /\ late' = late /\ r # "late"
      BY <2>5 DEF EndsWith, Ends, Fill, BatchInv, TypeOK
    <3>3. Holds(w, item[w])
      BY <2>5 DEF EndsWith, Ends, Holds
    <3>4. QED  BY <3>1, <3>2, <3>3 DEF LateInv
  <2>6. CASE Pulls(w)
    BY <2>1, <2>2, <2>3, <2>6 DEF Pulls
  <2>7. CASE Boxed(w) \/ Unboxed(w) \/ ScanThrows(w)
    <3>1. stage[w] # "pull"
      BY <2>7 DEF Boxed, Unboxed, ScanThrows, HostAllowed, HostBlocked, BodyRead, Probed,
         ContentChecked, Redirected, TooManyRedirects, Answered, FetchFails, Moves, Ends,
         Scanning
    <3>2. ~NothingLeft(w) /\ ~StartsScan(w) /\ \A r : ~ReportsAtOnce(w, r)
      BY <3>1 DEF NothingLeft, StartsScan, ReportsAtOnce, Takes
    <3>3. QED  BY <1>3, <2>4, <2>5, <3>2, StepKinds DEF BatchInv
  <2>8. QED  BY <1>3, <2>6, <2>7 DEF Works
<1>4. QED  BY <1>1, <1>2, <1>3 DEF Next

(* batch.ts deadline: once an item is reported late, every later one is     *)
(* too, and none of them has been looked at.                                *)
THEOREM LateStaysSuffix == Spec => []LateIsSuffix
<1>1. Init => LateInv
  BY BatchAssumption DEF Init, LateInv
<1>2. LateInv => LateIsSuffix
  BY DEF LateInv, LateIsSuffix
<1>3. QED  BY <1>1, <1>2, LateKept, BatchInvariant, PTL DEF Spec

(* When the pool has returned, every slot is written. *)
LEMMA ReturnedInFull ==
  BatchInv /\ Returned => \A i \in Items : results[i] # Empty
<1> SUFFICES ASSUME BatchInv, Returned PROVE \A i \in Items : results[i] # Empty
  OBVIOUS
<1>1. nextIndex > BatchSize
  BY WorkersExist DEF BatchInv, DoneAtEnd, Returned
<1>2. \A i \in Items : i < nextIndex
  BY <1>1, BatchAssumption DEF BatchInv, TypeOK, Items
<1>3. \A i \in Items, w \in Workers : ~Holds(w, i)
  BY DEF Returned, Holds, Scanning
<1>4. QED  BY <1>2, <1>3 DEF BatchInv, SlotsAccounted

LEMMA StepKeepsPromise ==
  BatchInv /\ BatchInv' /\ [Next]_vars => [Promise!Next]_<<results, Returned>>
<1> SUFFICES ASSUME BatchInv, BatchInv', [Next]_vars
             PROVE  [Promise!Next]_<<results, Returned>>
  OBVIOUS
<1>1. CASE UNCHANGED vars
  BY <1>1 DEF vars, workerVars, Returned
<1>2. CASE DeadlinePasses
  BY <1>2 DEF DeadlinePasses, workerVars, Returned
<1>3. ASSUME NEW w \in Workers, Works(w)
      PROVE  [Promise!Next]_<<results, Returned>>
  <2>1. CASE NothingLeft(w)
    <3>1. ~Returned /\ results' = results
      BY <2>1 DEF NothingLeft, Takes, Returned
    <3>2. CASE ~Returned'
      <4>1. Returned' = Returned
        BY <3>1, <3>2 DEF Returned
      <4>2. QED  BY <3>1, <4>1
    <3>3. CASE Returned'
      <4>1. (BatchInv /\ Returned => \A i \in Items : results[i] # Empty)'
        BY ReturnedInFull, PTL
      <4>2. \A i \in Items : results[i] # Empty
        BY <3>1, <3>3, <4>1
      <4>3. Returned' = TRUE
        BY <3>3 DEF Returned
      <4>4. Promise!Answer
        BY <3>1, <4>2, <4>3 DEF Promise!Answer
      <4>5. QED  BY <4>4 DEF Promise!Next
    <3>4. QED  BY <3>2, <3>3
  <2>2. ASSUME NEW r \in Outcomes, ReportsAtOnce(w, r)
        PROVE  [Promise!Next]_<<results, Returned>>
    <3>1. ~Returned /\ stage' = stage
      BY <2>2 DEF ReportsAtOnce, Takes, Returned, workerVars
    <3>2. nextIndex \in Items /\ results[nextIndex] = Empty
      BY <2>2 DEF ReportsAtOnce, BatchInv, TypeOK, SlotsAccounted, Items
    <3>3. results' = [results EXCEPT ![nextIndex] = r]
      BY <2>2 DEF ReportsAtOnce, Fill
    <3>4. Returned' = Returned
      BY <3>1 DEF Returned
    <3>5. Promise!Report(nextIndex, r)
      BY <3>1, <3>2, <3>3, <3>4 DEF Promise!Report
    <3>6. QED  BY <3>2, <3>5 DEF Promise!Next
  <2>3. CASE StartsScan(w)
    <3>1. ~Returned /\ ~Returned' /\ results' = results
      BY <2>3 DEF StartsScan, Takes, Returned, BatchInv, TypeOK
    <3>2. Returned' = Returned
      BY <3>1 DEF Returned
    <3>3. QED  BY <3>1, <3>2
  <2>4. CASE MovesOn(w)
    <3>1. ~Returned /\ ~Returned' /\ results' = results
      BY <2>4 DEF MovesOn, Returned, BatchInv, TypeOK, Scanning
    <3>2. Returned' = Returned
      BY <3>1 DEF Returned
    <3>3. QED  BY <3>1, <3>2
  <2>5. ASSUME NEW r \in Outcomes, EndsWith(w, r)
        PROVE  [Promise!Next]_<<results, Returned>>
    <3>1. ~Returned /\ ~Returned'
      BY <2>5 DEF EndsWith, Ends, Returned, BatchInv, TypeOK, Scanning
    <3>2. Holds(w, item[w]) /\ item[w] \in Items
      BY <2>5 DEF EndsWith, Ends, Holds, BatchInv, ScansAnItem
    <3>3. results[item[w]] = Empty
      BY <3>2 DEF BatchInv, SlotsAccounted
    <3>4. results' = [results EXCEPT ![item[w]] = r]
      BY <2>5 DEF EndsWith, Ends, Fill
    <3>5. Returned' = Returned
      BY <3>1 DEF Returned
    <3>6. Promise!Report(item[w], r)
      BY <3>1, <3>3, <3>4, <3>5 DEF Promise!Report
    <3>7. QED  BY <3>2, <3>6 DEF Promise!Next
  <2>6. {"late", "invalid", "snapshot", "unreachable", "error"} = Outcomes
    BY DEF Outcomes
  <2>7. QED  BY <1>3, <2>1, <2>2, <2>3, <2>4, <2>5, <2>6, StepKinds DEF BatchInv
<1>4. QED  BY <1>1, <1>2, <1>3 DEF Next

(* The pool implements BatchPromise: one result for every domain, never     *)
(* replaced, and no answer without all of them.                             *)
THEOREM BatchKeepsPromise == Spec => AnswersInFull
<1>1. Init => Promise!Init
  <2>1. Init => ~Returned /\ results = [i \in Items |-> Empty]
    BY WorkersExist DEF Init, Returned
  <2>2. Init => Returned = FALSE
    BY <2>1 DEF Returned
  <2>3. QED  BY <2>1, <2>2 DEF Promise!Init
<1>2. QED  BY <1>1, StepKeepsPromise, BatchInvariant, PTL
           DEF Spec, AnswersInFull, Promise!Spec
=============================================================================
