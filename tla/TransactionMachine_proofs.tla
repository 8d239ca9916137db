----------------------- MODULE TransactionMachine_proofs -----------------------
(***************************************************************************)
(* Proofs about TransactionMachine for every allowlist, policy, number of   *)
(* runs and set of transaction ids.                                         *)
(***************************************************************************)
EXTENDS TransactionMachine, SequenceTheorems, TLAPS

(* Appending to the ledger leaves its entries where they are. *)
LEMMA AppendEntry ==
  ASSUME NEW l \in Seq(Entries), NEW e \in Entries
  PROVE  /\ Append(l, e) \in Seq(Entries)
         /\ Len(l) \in Nat
         /\ Len(Append(l, e)) = Len(l) + 1
         /\ DOMAIN l = 1..Len(l)
         /\ DOMAIN Append(l, e) = DOMAIN l \cup {Len(l) + 1}
         /\ \A i \in DOMAIN l : Append(l, e)[i] = l[i]
         /\ Append(l, e)[Len(l) + 1] = e
  BY AppendProperties

(* What one more entry does to the guard: it settles the question for its   *)
(* own transaction when it is a payment event, and nothing otherwise.       *)
LEMMA GuardAfterAppend ==
  ASSUME NEW l \in Seq(Entries), NEW e \in Entries, NEW tx
  PROVE  /\ e.tx # tx \/ e.attempt = NoAttempt
              => (CanIssuePayment(Append(l, e), tx) <=> CanIssuePayment(l, tx))
         /\ e.tx = tx /\ e.attempt # NoAttempt
              => (CanIssuePayment(Append(l, e), tx) <=> e.status = "failed")
<1> DEFINE m == Append(l, e)
           last == Len(l) + 1
<1>1. /\ Len(l) \in Nat /\ DOMAIN l = 1..Len(l)
      /\ DOMAIN m = DOMAIN l \cup {last}
      /\ \A i \in DOMAIN l : m[i] = l[i]
      /\ m[last] = e
  BY AppendEntry
<1> HIDE DEF m
<1>2. ASSUME e.tx # tx \/ e.attempt = NoAttempt
      PROVE  CanIssuePayment(m, tx) <=> CanIssuePayment(l, tx)
  <2>1. PaymentEvents(m, tx) = PaymentEvents(l, tx)
    BY <1>1, <1>2 DEF PaymentEvents
  <2>2. \A i \in PaymentEvents(l, tx) : m[i] = l[i]
    BY <1>1 DEF PaymentEvents
  <2>3. QED BY <2>1, <2>2 DEF CanIssuePayment
<1>3. ASSUME e.tx = tx, e.attempt # NoAttempt
      PROVE  CanIssuePayment(m, tx) <=> e.status = "failed"
  <2>1. last \in PaymentEvents(m, tx)
    BY <1>1, <1>3 DEF PaymentEvents
  <2>2. \A i \in PaymentEvents(m, tx) : i \in Nat /\ i <= last
    BY <1>1 DEF PaymentEvents
  <2>3. QED BY <1>1, <2>1, <2>2 DEF CanIssuePayment
<1>4. QED BY <1>2, <1>3 DEF m
-----------------------------------------------------------------------------
(* Entries the machine writes have the type of entries. *)
LEMMA BlankEntry ==
  ASSUME NEW tx \in Txs, NEW s \in Services \cup {NoService}, NEW at \in Nat
  PROVE  /\ Entry(tx, s, at) \in Entries
         /\ Entry(tx, s, at).tx = tx
         /\ Entry(tx, s, at).service = s
         /\ Entry(tx, s, at).attempt = NoAttempt
         /\ Entry(tx, s, at).status = None
         /\ Entry(tx, s, at).nonce = NoNonce
  BY DEF Entry, Entries, NoAttempt

(* The innermost frame of a run that has started. *)
LEMMA FrameType ==
  ASSUME TypeOK, pc # "idle"
  PROVE  /\ Len(stack) \in Nat \ {0}
         /\ Frame \in Frames /\ Frame.tx \in Txs
         /\ Frame.service \in Services \cup {NoService}
         /\ FrameEntry \in Entries /\ FrameEntry.tx = Frame.tx
         /\ FrameEntry.attempt = NoAttempt /\ FrameEntry.status = None
         /\ FrameEntry.nonce = NoNonce
<1>1. stack \in Seq(Frames) /\ stack # <<>> BY DEF TypeOK
<1>2. Len(stack) \in Nat \ {0} BY <1>1, EmptySeq, LenProperties
<1>3. Frame \in Frames BY <1>1, <1>2, ElementOfSeq DEF Frame
<1>4. Frame.tx \in Txs /\ Frame.service \in Services \cup {NoService}
  BY <1>3 DEF Frames
<1>5. now \in Nat BY DEF TypeOK
<1> DEFINE e == Entry(Frame.tx, Frame.service, now)
<1>6. /\ e \in Entries /\ e.tx = Frame.tx /\ e.attempt = NoAttempt
      /\ e.status = None /\ e.nonce = NoNonce
  BY <1>4, <1>5, BlankEntry
<1>7. QED BY <1>2, <1>3, <1>4, <1>6 DEF FrameEntry
-----------------------------------------------------------------------------
(* A service has been chosen before the machine pays for it. *)
ServiceChosen == pc \in {"pay"} \cup Inside =>
                   Frame.service \in Services /\ attempt # NoAttempt

TypeInv == TypeOK /\ ServiceChosen

LEMMA PaymentEntryType ==
  ASSUME ConstantsAssumption, TypeInv, pc \in {"pay"} \cup Inside,
         NEW d \in Decisions \cup {None}, NEW n \in (Txs \X Nat) \cup {NoNonce},
         NEW s \in Statuses \cup {None}, NEW o \in Outcomes \cup {None}
  PROVE  /\ PaymentEntry(d, n, s, o) \in Entries
         /\ PaymentEntry(d, n, s, o).tx = Frame.tx
         /\ PaymentEntry(d, n, s, o).attempt = attempt
         /\ PaymentEntry(d, n, s, o).status = s
         /\ PaymentEntry(d, n, s, o).nonce = n
<1>1. pc # "idle" BY DEF Inside
<1>2. attempt \in Nat /\ PriceCents[Frame.service] \in Nat
  BY DEF TypeInv, TypeOK, ServiceChosen, ConstantsAssumption
<1>3. FrameEntry \in Entries /\ FrameEntry.tx = Frame.tx
  BY <1>1, FrameType DEF TypeInv
<1>4. QED BY <1>2, <1>3 DEF PaymentEntry, Entries

LEMMA NonceType ==
  ASSUME TypeInv, pc # "idle"
  PROVE  Nonce \in Txs \X Nat
BY FrameType DEF Nonce, TypeInv, TypeOK

LEMMA TypeInit == Init => TypeInv
<1> USE DEF Init, TypeInv, TypeOK, ServiceChosen, Inside
<1>1. <<>> \in Seq(Entries) /\ <<>> \in Seq(Frames) BY EmptySeq
<1>2. QED BY <1>1

(* Every step that selects a service keeps the stack a stack of frames. *)
LEMMA SelectedType ==
  ASSUME ConstantsAssumption, TypeInv, NEW s \in Services, Selected(s)
  PROVE  /\ stack' \in Seq(Frames) /\ stack' # <<>>
         /\ Len(stack') = Len(stack)
         /\ stack'[Len(stack')].service = s
         /\ stack'[Len(stack')].tx = Frame.tx
<1>1. stack \in Seq(Frames) /\ Len(stack) \in Nat \ {0} /\ Frame \in Frames
  BY FrameType DEF Selected, TypeInv, TypeOK
<1>2. stack' = [stack EXCEPT ![Len(stack)] = [Frame EXCEPT !.service = s]]
  BY DEF Selected, Frame
<1>3. [Frame EXCEPT !.service = s] \in Frames BY <1>1 DEF Frames
<1>4. /\ stack' \in Seq(Frames) /\ Len(stack') = Len(stack)
      /\ stack'[Len(stack)] = [Frame EXCEPT !.service = s]
  BY <1>1, <1>2, <1>3, ExceptSeq
<1>5. QED BY <1>1, <1>3, <1>4, EmptySeq DEF Frames

(* A step preserves TypeInv when it writes a well-typed entry, leaves the   *)
(* run's frames as they are, and moves to a place of the run.               *)
LEMMA TypeRecord ==
  ASSUME TypeInv, pc # "idle", pc' # "idle", NEW e \in Entries, Record(e),
         UNCHANGED <<enabled, disabled, now, runs, stack>>,
         pc' \in Inside \cup {"discover", "pay", "close"},
         pc' \in {"pay"} \cup Inside =>
            pc \in {"pay"} \cup Inside /\ attempt' # NoAttempt,
         attempt' \in Nat, outcome' \in Outcomes \cup {None},
         charged' \subseteq Txs \X Nat
  PROVE  TypeInv'
<1>1. ledger' \in Seq(Entries)
  BY AppendEntry DEF Record, TypeInv, TypeOK
<1>2. ServiceChosen' BY DEF TypeInv, ServiceChosen, Frame
<1>3. QED BY <1>1, <1>2 DEF TypeInv, TypeOK

LEMMA TypeQuiet ==
  ASSUME TypeInv, pc # "idle", pc' # "idle",
         UNCHANGED <<ledger, enabled, disabled, now, runs, stack>>,
         pc' \in Inside \cup {"discover", "pay", "close"},
         pc' \in {"pay"} \cup Inside =>
            pc \in {"pay"} \cup Inside /\ attempt' # NoAttempt,
         attempt' \in Nat, outcome' \in Outcomes \cup {None},
         charged' \subseteq Txs \X Nat
  PROVE  TypeInv'
<1>1. ServiceChosen' BY DEF TypeInv, ServiceChosen, Frame
<1>2. QED BY <1>1 DEF TypeInv, TypeOK

LEMMA TypeStep ==
  ASSUME ConstantsAssumption, TypeInv, [Next]_vars
  PROVE  TypeInv'
<1> USE DEF TypeInv
<1>1. CASE UNCHANGED vars
  BY <1>1 DEF TypeOK, ServiceChosen, vars, machineVars, policyVars, Frame
<1>2. ASSUME NEW task \in Tasks, NEW tx \in Submitted, Run(task, tx)
      PROVE  TypeInv'
  <2> DEFINE f == [task |-> task, tx |-> tx, exclude |-> NoService,
                   service |-> NoService]
  <2>1. f \in Frames BY DEF Frames, ConstantsAssumption
  <2>2. stack' \in Seq(Frames) /\ stack' # <<>>
    <3>1. stack' = Append(<<>>, f) BY <1>2 DEF Run
    <3>2. QED BY <2>1, <3>1, EmptySeq, AppendProperties
  <2>3. QED BY <1>2, <2>2 DEF Run, TypeOK, ServiceChosen, Inside, policyVars
<1>3. CASE TooDeep
  BY <1>3, TypeQuiet DEF TooDeep, Finish, TypeOK, policyVars, Outcomes, Inside
<1>4. CASE NoCandidate
  BY <1>4, TypeQuiet DEF NoCandidate, Finish, TypeOK, policyVars, Outcomes, Inside
<1>5. ASSUME NEW s \in Services, ServiceDisabled(s) PROVE TypeInv'
  BY <1>5, SelectedType
  DEF ServiceDisabled, Finish, TypeOK, ServiceChosen, policyVars, Outcomes, Inside
<1>6. ASSUME NEW s \in Services, NEW d \in Decisions, CheckSpendPolicy(s, d)
      PROVE  ledger' \in Seq(Entries)
  <2>1. Frame.tx \in Txs BY <1>6, FrameType DEF CheckSpendPolicy, Selected
  <2>2. Entry(Frame.tx, s, now) \in Entries BY <2>1, BlankEntry DEF TypeOK
  <2>3. PriceCents[s] \in Nat BY DEF ConstantsAssumption
  <2>4. [Entry(Frame.tx, s, now) EXCEPT !.price = PriceCents[s],
                                        !.decision = d] \in Entries
    BY <2>2, <2>3 DEF Entries
  <2>5. QED BY <1>6, <2>4, AppendEntry DEF CheckSpendPolicy, Record, TypeOK
<1>7. ASSUME NEW s \in Services, NEW d \in Decisions, PolicyRejects(s, d)
      PROVE  TypeInv'
  <2>1. ledger' \in Seq(Entries) BY <1>6, <1>7 DEF PolicyRejects
  <2>2. QED
    BY <1>7, <2>1, SelectedType DEF PolicyRejects, CheckSpendPolicy, Finish, TypeOK,
       ServiceChosen, policyVars, Outcomes, Inside
<1>8. ASSUME NEW s \in Services, PolicyAccepts(s) PROVE TypeInv'
  <2>1. ledger' \in Seq(Entries) BY <1>6, <1>8 DEF PolicyAccepts, Decisions
  <2>2. Frame'.service = s
    BY <1>8, SelectedType DEF PolicyAccepts, CheckSpendPolicy, Frame
  <2>3. TypeOK'
    BY <1>8, <2>1, SelectedType DEF PolicyAccepts, CheckSpendPolicy, TypeOK,
       policyVars, Inside
  <2>4. attempt' # NoAttempt BY <1>8 DEF PolicyAccepts, NoAttempt
  <2>5. ServiceChosen' BY <2>2, <2>4 DEF ServiceChosen
  <2>6. QED BY <2>3, <2>5
<1>9. CASE PayKilled
  <2>1. PaymentEntry("rejected-kill", NoNonce, None, "aborted-kill") \in Entries
    BY <1>9, PaymentEntryType DEF PayKilled, PayTurn, Decisions, Outcomes
  <2>2. QED BY <1>9, <2>1, TypeRecord DEF PayKilled, PayTurn, Finish, TypeOK,
               policyVars, Outcomes, Inside
<1>10. CASE DuplicatePrevented
  <2>1. PaymentEntry("rejected-per-tx", NoNonce, None,
                     "duplicate-payment-prevented") \in Entries
    BY <1>10, PaymentEntryType DEF DuplicatePrevented, PayTurn, Decisions, Outcomes
  <2>2. QED BY <1>10, <2>1, TypeRecord DEF DuplicatePrevented, PayTurn, Finish,
               TypeOK, policyVars, Outcomes, Inside
<1>11. CASE NonceReuseThrows
  BY <1>11, EmptySeq DEF NonceReuseThrows, TypeOK, ServiceChosen, Inside,
     policyVars
<1>12. CASE IssuePayment
  BY <1>12, TypeQuiet DEF IssuePayment, PayTurn, TypeOK, ServiceChosen, policyVars,
     Inside
<1>13. CASE PayRetriesExhausted
  BY <1>13, TypeQuiet DEF PayRetriesExhausted, Finish, TypeOK, policyVars, Outcomes,
     Inside
<1>14. ASSUME pc \in Inside, NEW status \in Statuses
       PROVE  /\ PaymentEntry("accepted", Nonce, status, None) \in Entries
              /\ PaymentEntry(None, NoNonce, status, None) \in Entries
  BY <1>14, PaymentEntryType, NonceType DEF Inside, Decisions
<1>15. attempt + 1 # NoAttempt /\ 1 # NoAttempt
  BY DEF TypeOK, NoAttempt
<1>16. CASE PaymentSettled
  <2>1. charged' \subseteq Txs \X Nat
    BY <1>16, NonceType DEF PaymentSettled, TypeOK
  <2>2. QED BY <1>14, <1>15, <1>16, <2>1, TypeRecord DEF PaymentSettled, RecordPayment,
               TypeOK, policyVars, Inside, Statuses
<1>17. CASE PaymentFailed
  BY <1>14, <1>15, <1>17, TypeRecord DEF PaymentFailed, RecordPayment, TypeOK,
     policyVars, Inside, Statuses
<1>18. CASE PaymentAmbiguous
  BY <1>14, <1>18, TypeRecord DEF PaymentAmbiguous, RecordPayment, TypeOK,
     ServiceChosen, policyVars, Inside, Statuses
<1>19. CASE TransferLands
  <2>1. charged' \subseteq Txs \X Nat
    BY <1>19, NonceType DEF TransferLands, TypeOK
  <2>2. QED BY <1>19, <2>1 DEF TransferLands, TypeOK, ServiceChosen, machineVars,
               policyVars, Frame
<1>20. CASE SettlementVerified
  BY <1>14, <1>15, <1>20, TypeRecord DEF SettlementVerified, RecordVerification,
     TypeOK, policyVars, Inside, Statuses
<1>21. CASE FailureVerified
  BY <1>14, <1>15, <1>21, TypeRecord DEF FailureVerified, RecordVerification,
     TypeOK, policyVars, Inside, Statuses
<1>22. ASSUME pc = "consuming", NEW r \in Results
       PROVE  [FrameEntry EXCEPT !.result = r] \in Entries
  <2>1. FrameEntry \in Entries BY <1>22, FrameType
  <2>2. QED BY <2>1 DEF Entries
<1>23. CASE ServiceSucceeds
  BY <1>22, <1>23, TypeRecord DEF ServiceSucceeds, RecordService, Finish, TypeOK,
     policyVars, Inside, Outcomes, Results
<1>24. CASE ServiceFails
  <2>1. /\ attempt' \in Nat /\ outcome' \in Outcomes \cup {None}
        /\ pc' \in {"consuming", "close"}
        /\ pc' = "consuming" => attempt' # NoAttempt
    BY <1>15, <1>24 DEF ServiceFails, Finish, TypeOK, Outcomes
  <2>2. QED BY <1>22, <1>24, <2>1, TypeRecord
            DEF ServiceFails, RecordService, TypeOK, policyVars, Inside, Results
<1>25. CASE ServiceFatal
  <2>1. ledger' \in Seq(Entries)
    BY <1>22, <1>25, AppendEntry DEF ServiceFatal, RecordService, Record, TypeOK,
       Results
  <2>2. CASE HasAlternative(Frame)
    <3> DEFINE f == [task |-> Frame.task, tx |-> <<Frame.tx[1], Frame.tx[2] + 1>>,
                     exclude |-> Frame.service, service |-> NoService]
    <3>1. f \in Frames
      BY <1>25, FrameType DEF ServiceFatal, Frames, Txs
    <3>2. stack' \in Seq(Frames) /\ stack' # <<>>
      <4>1. stack \in Seq(Frames) BY DEF TypeOK
      <4>2. stack' = Append(stack, f) BY <1>25, <2>2 DEF ServiceFatal
      <4>3. QED BY <3>1, <4>1, <4>2, AppendProperties
    <3>3. pc' = "discover" /\ UNCHANGED outcome
      BY <1>25, <2>2 DEF ServiceFatal
    <3>4. QED BY <1>25, <2>1, <3>2, <3>3
              DEF ServiceFatal, TypeOK, ServiceChosen, Inside, policyVars
  <2>3. CASE ~HasAlternative(Frame)
    BY <1>25, <2>1, <2>3 DEF ServiceFatal, Finish, TypeOK, ServiceChosen, Inside,
       policyVars, Outcomes
  <2>4. QED BY <2>2, <2>3
<1>26. CASE Close
  <2>1. FrameEntry \in Entries /\ Len(stack) \in Nat \ {0}
    BY <1>26, FrameType DEF Close
  <2>2. [FrameEntry EXCEPT !.outcome = outcome] \in Entries
    BY <2>1 DEF Entries, TypeOK
  <2>3. ledger' \in Seq(Entries)
    BY <1>26, <2>2, AppendEntry DEF Close, Record, TypeOK
  <2>4. /\ stack' \in Seq(Frames)
        /\ Len(stack') = Len(stack) - 1
    <3>1. \A i \in 1 .. Len(stack) - 1 : stack[i] \in Frames
      BY <2>1, ElementOfSeq DEF TypeOK
    <3>2. Len(stack) \in Nat \ {0} BY <2>1
    <3>3. PICK n \in Nat : Len(stack) = n + 1
      <4>1. \A k \in Nat \ {0} : k - 1 \in Nat /\ k = (k - 1) + 1
        OBVIOUS
      <4>2. QED BY <3>2, <4>1, Zenon
    <3>4. /\ SubSeq(stack, 1, n) \in Seq(Frames)
          /\ Len(SubSeq(stack, 1, n)) = IF 1 <= n THEN n - 1 + 1 ELSE 0
      <4>1. \A i \in 1 .. n : stack[i] \in Frames BY <3>1, <3>3
      <4>2. QED BY <4>1, SubSeqProperties
    <3>5. stack' = SubSeq(stack, 1, n) BY <1>26, <3>3 DEF Close
    <3>6. QED BY <3>3, <3>4, <3>5
  <2>5. stack' = <<>> <=> Len(stack) = 1
    <3>1. stack' = <<>> => Len(stack') = 0 BY EmptySeq
    <3>2. stack' # <<>> => Len(stack') # 0 BY <2>4, EmptySeq
    <3>3. QED BY <2>1, <2>4, <3>1, <3>2
  <2>6. /\ pc' \in {"close", "idle"} /\ pc' = "idle" <=> stack' = <<>>
        /\ attempt' \in Nat /\ outcome' \in Outcomes \cup {None}
    <3>1. CASE Len(stack) > 1
      BY <1>26, <2>1, <2>5, <3>1 DEF Close, TypeOK
    <3>2. CASE Len(stack) = 1
      BY <1>26, <2>1, <2>5, <3>2 DEF Close, TypeOK
    <3>3. QED BY <1>26, <3>1, <3>2 DEF Close
  <2>7. QED BY <1>26, <2>3, <2>4, <2>6
            DEF Close, TypeOK, ServiceChosen, Inside, policyVars
<1>27. CASE FlipKillSwitch
  BY <1>27 DEF FlipKillSwitch, TypeOK, ServiceChosen, machineVars, Frame
<1>28. ASSUME NEW s \in Services, ToggleService(s) PROVE TypeInv'
  BY <1>28 DEF ToggleService, TypeOK, ServiceChosen, machineVars, Frame
<1>29. CASE Tick
  BY <1>29 DEF Tick, TypeOK, ServiceChosen, machineVars, policyVars, Frame
<1>30. QED
  BY <1>1, <1>2, <1>3, <1>4, <1>5, <1>7, <1>8, <1>9, <1>10, <1>11, <1>12, <1>13,
     <1>16, <1>17, <1>18, <1>19, <1>20, <1>21, <1>23, <1>24, <1>25, <1>26, <1>27,
     <1>28, <1>29
  DEF Next, Machine, Environment, Discover, Pay, WorldAnswers

(* The state keeps its types in every behavior.                             *)
THEOREM TypeCorrect == Spec => []TypeOK
<1>1. TypeInv /\ [Next]_vars => TypeInv'
  BY TypeStep, ConstantsAssumption
<1>2. TypeInv => TypeOK BY DEF TypeInv
<1>3. QED BY TypeInit, <1>1, <1>2, PTL DEF Spec
-----------------------------------------------------------------------------
(***************************************************************************)
(* No double payment.  AtMostOneCharge is not inductive: why a second       *)
(* payment is not issued lies in the ledger.  The strengthening says that   *)
(* every charge has been recorded as settled, except the one a pending      *)
(* verification is about to find; that a settled transaction is closed to   *)
(* the guard canIssuePayment for good; and that a payment in flight belongs *)
(* to a transaction not settled before.                                     *)
(***************************************************************************)
SettledNonces == {<<ledger[i].tx, ledger[i].attempt>> : i \in Settled}

ChargesRecorded ==
  \A n \in charged : n \in SettledNonces \/ (pc = "verifying" /\ n = Nonce)
SettledCharged == SettledNonces \subseteq charged
SettledBlocks  == \A i \in Settled : ~CanIssuePayment(ledger, ledger[i].tx)
SettledOnce    == \A i, j \in Settled : ledger[i].tx = ledger[j].tx => i = j
UnpaidInFlight ==
  pc \in {"paying", "verifying"} => \A i \in Settled : ledger[i].tx # Frame.tx

LedgerInv == SettledCharged /\ SettledBlocks /\ SettledOnce
MoneyInv  == ChargesRecorded /\ LedgerInv /\ UnpaidInFlight

LEMMA MoneyInit == Init => MoneyInv
<1> SUFFICES ASSUME Init PROVE MoneyInv OBVIOUS
<1>1. Settled = {} /\ charged = {} /\ pc = "idle"
  BY DEF Init, Settled
<1>2. SettledNonces = {} BY <1>1 DEF SettledNonces
<1>3. QED BY <1>1, <1>2 DEF MoneyInv, LedgerInv, ChargesRecorded, SettledCharged,
            SettledBlocks, SettledOnce, UnpaidInFlight

(* An entry that settles nothing, and is no failure of a settled            *)
(* transaction, disturbs nothing about the settled ones.                    *)
LEMMA QuietEntry ==
  ASSUME TypeInv, LedgerInv, NEW e \in Entries, Record(e), e.status # "settled",
         charged \subseteq charged',
         e.attempt # NoAttempt /\ e.status = "failed"
           => \A i \in Settled : ledger[i].tx # e.tx
  PROVE  /\ LedgerInv' /\ SettledNonces' = SettledNonces
         /\ Settled' = Settled /\ \A i \in Settled : ledger'[i] = ledger[i]
<1>1. /\ Len(ledger) \in Nat /\ DOMAIN ledger = 1..Len(ledger)
      /\ DOMAIN ledger' = DOMAIN ledger \cup {Len(ledger) + 1}
      /\ \A i \in DOMAIN ledger : ledger'[i] = ledger[i]
      /\ ledger'[Len(ledger) + 1] = e
  BY AppendEntry DEF Record, TypeInv, TypeOK
<1>2. Settled' = Settled /\ \A i \in Settled : ledger'[i] = ledger[i]
  BY <1>1 DEF Settled
<1>3. SettledNonces' = SettledNonces BY <1>2 DEF SettledNonces
<1>4. SettledBlocks'
  <2> SUFFICES ASSUME NEW i \in Settled
               PROVE  ~CanIssuePayment(ledger', ledger[i].tx)
    BY <1>2 DEF SettledBlocks
  <2>1. ~CanIssuePayment(ledger, ledger[i].tx) BY DEF LedgerInv, SettledBlocks
  <2>2. ledger \in Seq(Entries) /\ ledger' = Append(ledger, e)
    BY DEF Record, TypeInv, TypeOK
  <2>3. CASE e.tx # ledger[i].tx \/ e.attempt = NoAttempt
    BY <2>1, <2>2, <2>3, GuardAfterAppend
  <2>4. CASE e.tx = ledger[i].tx /\ e.attempt # NoAttempt
    BY <2>2, <2>4, GuardAfterAppend
  <2>5. QED BY <2>3, <2>4
<1>5. QED BY <1>2, <1>3, <1>4 DEF LedgerInv, SettledCharged, SettledOnce

(* The entry that settles a transaction for the first time. *)
LEMMA SettlingEntry ==
  ASSUME TypeInv, LedgerInv, NEW e \in Entries, Record(e), e.status = "settled",
         e.attempt # NoAttempt, charged' = charged \cup {<<e.tx, e.attempt>>},
         \A i \in Settled : ledger[i].tx # e.tx
  PROVE  /\ LedgerInv'
         /\ SettledNonces' = SettledNonces \cup {<<e.tx, e.attempt>>}
<1> DEFINE last == Len(ledger) + 1
<1>1. /\ Len(ledger) \in Nat /\ DOMAIN ledger = 1..Len(ledger)
      /\ DOMAIN ledger' = DOMAIN ledger \cup {last}
      /\ \A i \in DOMAIN ledger : ledger'[i] = ledger[i]
      /\ ledger'[last] = e
  BY AppendEntry DEF Record, TypeInv, TypeOK
<1> HIDE DEF last
<1>2. Settled' = Settled \cup {last} /\ \A i \in Settled : ledger'[i] = ledger[i]
  BY <1>1 DEF Settled
<1>3. SettledNonces' = SettledNonces \cup {<<e.tx, e.attempt>>}
  BY <1>1, <1>2 DEF SettledNonces
<1>4. SettledBlocks'
  <2> SUFFICES ASSUME NEW i \in Settled'
               PROVE  ~CanIssuePayment(ledger', ledger'[i].tx)
    BY DEF SettledBlocks
  <2>1. ledger \in Seq(Entries) /\ ledger' = Append(ledger, e)
    BY DEF Record, TypeInv, TypeOK
  <2>2. CASE i = last
    BY <1>1, <2>1, <2>2, GuardAfterAppend
  <2>3. CASE i \in Settled
    <3>1. ~CanIssuePayment(ledger, ledger[i].tx) /\ e.tx # ledger[i].tx
      BY <2>3 DEF LedgerInv, SettledBlocks
    <3>2. QED BY <1>2, <2>1, <2>3, <3>1, GuardAfterAppend
  <2>4. QED BY <1>2, <2>2, <2>3
<1>5. SettledOnce' BY <1>1, <1>2 DEF SettledOnce, LedgerInv
<1>6. QED BY <1>3, <1>4, <1>5 DEF LedgerInv, SettledCharged

(* A step that leaves ledger and charges alone, inside one phase. *)
LEMMA QuietStep ==
  ASSUME MoneyInv, UNCHANGED <<ledger, charged>>, pc # "verifying",
         pc' \notin {"paying", "verifying"}
  PROVE  MoneyInv'
BY DEF MoneyInv, LedgerInv, ChargesRecorded, SettledCharged, SettledBlocks,
       SettledOnce, UnpaidInFlight, SettledNonces, Settled

LEMMA MoneyStep ==
  ASSUME ConstantsAssumption, TypeInv, MoneyInv, [Next]_vars
  PROVE  MoneyInv'
<1>1. CASE UNCHANGED vars
  BY <1>1 DEF vars, machineVars, MoneyInv, LedgerInv, ChargesRecorded,
     SettledCharged, SettledBlocks, SettledOnce, UnpaidInFlight, SettledNonces,
     Settled, Frame, Nonce
<1>2. ASSUME NEW e \in Entries, Record(e), e.status # "settled",
             e.attempt # NoAttempt => e.status # "failed", UNCHANGED charged,
             pc # "verifying", pc' \notin {"paying", "verifying"}
      PROVE  MoneyInv'
  <2>1. LedgerInv' /\ SettledNonces' = SettledNonces
    BY <1>2, QuietEntry DEF MoneyInv
  <2>2. QED BY <1>2, <2>1 DEF MoneyInv, ChargesRecorded, UnpaidInFlight
<1>3. ASSUME NEW task \in Tasks, NEW tx \in Submitted, Run(task, tx)
      PROVE  MoneyInv'
  BY <1>3, QuietStep DEF Run
<1>4. CASE TooDeep \/ NoCandidate \/ \E s \in Services : ServiceDisabled(s)
  BY <1>4, QuietStep DEF TooDeep, NoCandidate, ServiceDisabled, Selected, Finish
<1>5. ASSUME NEW s \in Services, NEW d \in Decisions, CheckSpendPolicy(s, d),
             pc' \notin {"paying", "verifying"}
      PROVE  MoneyInv'
  <2> DEFINE e == [Entry(Frame.tx, s, now) EXCEPT !.price = PriceCents[s],
                                                  !.decision = d]
  <2>1. pc = "discover" /\ Record(e) /\ UNCHANGED charged
    BY <1>5 DEF CheckSpendPolicy, Selected
  <2>2. Entry(Frame.tx, s, now) \in Entries /\ Entry(Frame.tx, s, now).status = None
    <3>1. Frame.tx \in Txs BY <2>1, FrameType DEF TypeInv
    <3>2. now \in Nat BY DEF TypeInv, TypeOK
    <3>3. QED BY <3>1, <3>2, BlankEntry
  <2>3. PriceCents[s] \in Nat BY DEF ConstantsAssumption
  <2>4. e \in Entries /\ e.status = None BY <2>2, <2>3 DEF Entries
  <2> HIDE DEF e
  <2>5. QED BY <1>2, <1>5, <2>1, <2>4 DEF None
<1>6. ASSUME NEW s \in Services, NEW d \in Decisions, PolicyRejects(s, d)
      PROVE  MoneyInv'
  BY <1>5, <1>6 DEF PolicyRejects, Finish
<1>7. ASSUME NEW s \in Services, PolicyAccepts(s) PROVE MoneyInv'
  BY <1>5, <1>7 DEF PolicyAccepts, Decisions
<1>8. CASE PayKilled
  <2> DEFINE e == PaymentEntry("rejected-kill", NoNonce, None, "aborted-kill")
  <2>1. e \in Entries /\ e.status = None
    BY <1>8, PaymentEntryType DEF PayKilled, PayTurn, Decisions, Outcomes
  <2>2. QED BY <1>2, <1>8, <2>1 DEF PayKilled, PayTurn, Finish, None
<1>9. CASE DuplicatePrevented
  <2> DEFINE e == PaymentEntry("rejected-per-tx", NoNonce, None,
                               "duplicate-payment-prevented")
  <2>1. e \in Entries /\ e.status = None
    BY <1>9, PaymentEntryType DEF DuplicatePrevented, PayTurn, Decisions, Outcomes
  <2>2. QED BY <1>2, <1>9, <2>1 DEF DuplicatePrevented, PayTurn, Finish, None
<1>10. CASE NonceReuseThrows \/ PayRetriesExhausted
  BY <1>10, QuietStep DEF NonceReuseThrows, PayRetriesExhausted, PayTurn, Finish
<1>11. CASE IssuePayment
  <2>1. \A i \in Settled : ledger[i].tx # Frame.tx
    BY <1>11 DEF IssuePayment, MoneyInv, LedgerInv, SettledBlocks
  <2>2. QED
    BY <1>11, <2>1 DEF IssuePayment, PayTurn, MoneyInv, LedgerInv, ChargesRecorded,
       SettledCharged, SettledBlocks, SettledOnce, UnpaidInFlight, SettledNonces,
       Settled, Frame
<1>12. ASSUME pc \in {"paying", "verifying"}, NEW status \in Statuses
       PROVE  LET p == PaymentEntry("accepted", Nonce, status, None)
                  v == PaymentEntry(None, NoNonce, status, None)
              IN  /\ p \in Entries /\ v \in Entries
                  /\ p.tx = Frame.tx /\ v.tx = Frame.tx
                  /\ p.attempt = attempt /\ v.attempt = attempt
                  /\ p.status = status /\ v.status = status
                  /\ attempt # NoAttempt
                  /\ \A i \in Settled : ledger[i].tx # Frame.tx
  <2>1. pc \in {"pay"} \cup Inside /\ pc # "idle" BY <1>12 DEF Inside
  <2>2. Nonce \in Txs \X Nat BY <2>1, NonceType
  <2>3. "accepted" \in Decisions BY DEF Decisions
  <2>4. attempt # NoAttempt BY <2>1 DEF TypeInv, ServiceChosen
  <2>5. \A i \in Settled : ledger[i].tx # Frame.tx
    BY <1>12 DEF MoneyInv, UnpaidInFlight
  <2> DEFINE p == PaymentEntry("accepted", Nonce, status, None)
             v == PaymentEntry(None, NoNonce, status, None)
  <2>6. /\ p \in Entries /\ p.tx = Frame.tx /\ p.attempt = attempt
        /\ p.status = status
    BY <2>1, <2>2, <2>3, PaymentEntryType
  <2>7. /\ v \in Entries /\ v.tx = Frame.tx /\ v.attempt = attempt
        /\ v.status = status
    BY <2>1, PaymentEntryType
  <2>8. QED BY <2>4, <2>5, <2>6, <2>7
<1>13. CASE PaymentSettled
  <2> DEFINE e == PaymentEntry("accepted", Nonce, "settled", None)
  <2>1. /\ e \in Entries /\ Record(e) /\ e.status = "settled"
        /\ e.attempt # NoAttempt /\ <<e.tx, e.attempt>> = Nonce
        /\ \A i \in Settled : ledger[i].tx # e.tx
    BY <1>12, <1>13 DEF PaymentSettled, RecordPayment, Statuses, Nonce
  <2> HIDE DEF e
  <2>2. LedgerInv' /\ SettledNonces' = SettledNonces \cup {Nonce}
    BY <1>13, <2>1, SettlingEntry DEF PaymentSettled, MoneyInv
  <2>3. QED BY <1>13, <2>2
            DEF PaymentSettled, MoneyInv, ChargesRecorded, UnpaidInFlight
<1>14. CASE PaymentFailed
  <2> DEFINE e == PaymentEntry("accepted", Nonce, "failed", None)
  <2>1. /\ e \in Entries /\ Record(e) /\ e.status = "failed"
        /\ \A i \in Settled : ledger[i].tx # e.tx
    BY <1>12, <1>14 DEF PaymentFailed, RecordPayment, Statuses
  <2> HIDE DEF e
  <2>2. LedgerInv' /\ SettledNonces' = SettledNonces
    BY <1>14, <2>1, QuietEntry DEF PaymentFailed, MoneyInv
  <2>3. QED BY <1>14, <2>2
            DEF PaymentFailed, MoneyInv, ChargesRecorded, UnpaidInFlight
<1>15. CASE PaymentAmbiguous
  <2> DEFINE e == PaymentEntry("accepted", Nonce, "ambiguous", None)
  <2>1. /\ e \in Entries /\ Record(e) /\ e.status \notin {"settled", "failed"}
        /\ \A i \in Settled : ledger[i].tx # Frame.tx
    BY <1>12, <1>15 DEF PaymentAmbiguous, RecordPayment, Statuses
  <2> HIDE DEF e
  <2>2. /\ LedgerInv' /\ SettledNonces' = SettledNonces
        /\ Settled' = Settled /\ \A i \in Settled : ledger'[i] = ledger[i]
    BY <1>15, <2>1, QuietEntry DEF PaymentAmbiguous, MoneyInv
  <2>3. UnpaidInFlight'
    BY <1>15, <2>1, <2>2 DEF PaymentAmbiguous, UnpaidInFlight, Frame
  <2>4. QED BY <1>15, <2>2, <2>3 DEF PaymentAmbiguous, MoneyInv, ChargesRecorded
<1>16. CASE TransferLands
  BY <1>16 DEF TransferLands, machineVars, MoneyInv, LedgerInv, ChargesRecorded,
     SettledCharged, SettledBlocks, SettledOnce, UnpaidInFlight, SettledNonces,
     Settled, Frame, Nonce
<1>17. CASE SettlementVerified
  <2> DEFINE e == PaymentEntry(None, NoNonce, "settled", None)
  <2>1. /\ e \in Entries /\ Record(e) /\ e.status = "settled"
        /\ e.attempt # NoAttempt /\ <<e.tx, e.attempt>> = Nonce
        /\ \A i \in Settled : ledger[i].tx # e.tx
    BY <1>12, <1>17 DEF SettlementVerified, RecordVerification, Statuses, Nonce
  <2>2. Nonce \in charged BY <1>17 DEF SettlementVerified, VerifySettlement
  <2> HIDE DEF e
  <2>3. LedgerInv' /\ SettledNonces' = SettledNonces \cup {Nonce}
    BY <1>17, <2>1, <2>2, SettlingEntry DEF SettlementVerified, MoneyInv
  <2>4. QED BY <1>17, <2>3
            DEF SettlementVerified, MoneyInv, ChargesRecorded, UnpaidInFlight
<1>18. CASE FailureVerified
  <2> DEFINE e == PaymentEntry(None, NoNonce, "failed", None)
  <2>1. /\ e \in Entries /\ Record(e) /\ e.status = "failed"
        /\ \A i \in Settled : ledger[i].tx # e.tx
    BY <1>12, <1>18 DEF FailureVerified, RecordVerification, Statuses
  <2>2. Nonce \notin charged BY <1>18 DEF FailureVerified, VerifySettlement
  <2> HIDE DEF e
  <2>3. LedgerInv' /\ SettledNonces' = SettledNonces
    BY <1>18, <2>1, QuietEntry DEF FailureVerified, MoneyInv
  <2>4. QED BY <1>18, <2>2, <2>3
            DEF FailureVerified, MoneyInv, ChargesRecorded, UnpaidInFlight
<1>19. ASSUME pc \in {"consuming", "close"}
       PROVE  /\ \A r \in Results :
                    /\ [FrameEntry EXCEPT !.result = r] \in Entries
                    /\ [FrameEntry EXCEPT !.result = r].status = None
              /\ [FrameEntry EXCEPT !.outcome = outcome] \in Entries
              /\ [FrameEntry EXCEPT !.outcome = outcome].status = None
  <2>1. FrameEntry \in Entries /\ FrameEntry.status = None
    BY <1>19, FrameType DEF TypeInv
  <2>2. outcome \in Outcomes \cup {None} BY DEF TypeInv, TypeOK
  <2>3. QED BY <2>1, <2>2 DEF Entries
<1>20. CASE ServiceSucceeds \/ ServiceFails \/ ServiceFatal
  BY <1>2, <1>19, <1>20
  DEF ServiceSucceeds, ServiceFails, ServiceFatal, RecordService, Finish, Results, None
<1>21. CASE Close
  BY <1>2, <1>19, <1>21 DEF Close, None
<1>22. CASE FlipKillSwitch \/ Tick \/ \E s \in Services : ToggleService(s)
  BY <1>22 DEF FlipKillSwitch, Tick, ToggleService, machineVars, MoneyInv, LedgerInv,
     ChargesRecorded, SettledCharged, SettledBlocks, SettledOnce, UnpaidInFlight,
     SettledNonces, Settled, Frame, Nonce
<1>23. QED
  BY <1>1, <1>3, <1>4, <1>6, <1>7, <1>8, <1>9, <1>10, <1>11, <1>13, <1>14, <1>15,
     <1>16, <1>17, <1>18, <1>20, <1>21, <1>22
  DEF Next, Machine, Environment, Discover, Pay, WorldAnswers

LEMMA MoneyInvariant == Spec => [](TypeInv /\ MoneyInv)
<1>1. Init => TypeInv /\ MoneyInv BY TypeInit, MoneyInit
<1>2. TypeInv /\ MoneyInv /\ [Next]_vars => (TypeInv /\ MoneyInv)'
  BY TypeStep, MoneyStep, ConstantsAssumption
<1>3. QED BY <1>1, <1>2, PTL DEF Spec

(* Money moves at most once for a transaction.                              *)
THEOREM NoDoublePayment == Spec => []AtMostOneCharge
<1>1. MoneyInv => AtMostOneCharge
  BY DEF MoneyInv, LedgerInv, ChargesRecorded, SettledOnce, UnpaidInFlight,
     SettledNonces, AtMostOneCharge, Nonce
<1>2. QED BY <1>1, MoneyInvariant, PTL

(* The ledger's settled payments are exactly the charges.                   *)
THEOREM LedgerReconciles == Spec => []Reconciled
<1>1. MoneyInv => Reconciled
  BY DEF MoneyInv, LedgerInv, ChargesRecorded, SettledCharged, SettledOnce,
     SettledNonces, Reconciled
<1>2. QED BY <1>1, MoneyInvariant, PTL
-----------------------------------------------------------------------------
(***************************************************************************)
(* The machine keeps the buyer's promise OncePerTransaction.                *)
(***************************************************************************)
Paid     == {n[1] : n \in charged}
InFlight == IF pc \in {"paying", "verifying"} THEN {Frame.tx} ELSE {}

(* A payment is only ever issued or awaited for an unpaid transaction. *)
LEMMA UnpaidWhenIssued ==
  ASSUME MoneyInv, IssuePayment \/ pc = "paying"
                   \/ (pc = "verifying" /\ Nonce \notin charged)
  PROVE  Frame.tx \notin Paid
<1>1. \A i \in Settled : ledger[i].tx # Frame.tx
  BY DEF IssuePayment, MoneyInv, LedgerInv, SettledBlocks, UnpaidInFlight
<1>2. \A n \in charged : n \in SettledNonces
  BY DEF IssuePayment, PayTurn, MoneyInv, ChargesRecorded
<1>3. QED BY <1>1, <1>2 DEF Paid, SettledNonces

LEMMA PromiseStep ==
  ASSUME ConstantsAssumption, TypeInv, MoneyInv, [Next]_vars
  PROVE  Promise!Next \/ UNCHANGED <<Paid, InFlight>>
<1> USE DEF Promise!Next, Promise!Issue, Promise!Charge, Promise!Resolve
<1>1. CASE UNCHANGED vars
  BY <1>1 DEF vars, machineVars, Paid, InFlight, Frame
<1>2. ASSUME pc \notin {"paying", "verifying"}, pc' \notin {"paying", "verifying"},
             UNCHANGED charged
      PROVE  UNCHANGED <<Paid, InFlight>>
  BY <1>2 DEF Paid, InFlight
<1>3. CASE (\E task \in Tasks, tx \in Submitted : Run(task, tx)) \/ Discover
  BY <1>2, <1>3 DEF Run, Discover, TooDeep, NoCandidate, ServiceDisabled,
     PolicyRejects, PolicyAccepts, CheckSpendPolicy, Selected, Finish
<1>4. CASE PayKilled \/ DuplicatePrevented \/ NonceReuseThrows \/ PayRetriesExhausted
  BY <1>2, <1>4 DEF PayKilled, DuplicatePrevented, NonceReuseThrows,
     PayRetriesExhausted, PayTurn, Finish
<1>5. CASE ServiceSucceeds \/ ServiceFails \/ ServiceFatal \/ Close
  BY <1>2, <1>5 DEF ServiceSucceeds, ServiceFails, ServiceFatal, Close, Finish
<1>6. CASE IssuePayment
  <2>1. Frame.tx \notin Paid BY <1>6, UnpaidWhenIssued
  <2>2. Frame.tx \in Txs BY <1>6, FrameType DEF IssuePayment, PayTurn, TypeInv
  <2>3. InFlight = {} /\ InFlight' = {Frame.tx} /\ UNCHANGED Paid
    BY <1>6 DEF IssuePayment, PayTurn, InFlight, Paid, Frame
  <2>4. Promise!Issue BY <2>1, <2>2, <2>3 DEF InFlight, Paid
  <2>5. QED BY <2>4
<1>7. CASE PaymentSettled
  <2>1. Frame.tx \notin Paid BY <1>7, UnpaidWhenIssued DEF PaymentSettled
  <2>2. InFlight = {Frame.tx} /\ InFlight' = {} /\ Paid' = Paid \cup {Frame.tx}
    <3>1. charged' = charged \cup {Nonce} /\ Nonce[1] = Frame.tx
      BY <1>7 DEF PaymentSettled, Nonce
    <3>2. Paid' = Paid \cup {Nonce[1]} BY <3>1 DEF Paid
    <3>3. QED BY <1>7, <3>1, <3>2 DEF PaymentSettled, InFlight
  <2>3. Promise!Charge(Frame.tx) BY <2>1, <2>2 DEF InFlight, Paid
  <2>4. QED BY <2>2, <2>3 DEF InFlight
<1>8. CASE PaymentFailed \/ SettlementVerified \/ FailureVerified
  <2>1. InFlight = {Frame.tx} /\ InFlight' = {} /\ UNCHANGED Paid
    BY <1>8 DEF PaymentFailed, SettlementVerified, FailureVerified, InFlight, Paid
  <2>2. Promise!Resolve BY <2>1 DEF InFlight, Paid
  <2>3. QED BY <2>2
<1>9. CASE PaymentAmbiguous
  BY <1>9 DEF PaymentAmbiguous, InFlight, Paid, Frame
<1>10. CASE TransferLands
  <2>1. Frame.tx \notin Paid BY <1>10, UnpaidWhenIssued DEF TransferLands
  <2>2. InFlight = {Frame.tx} /\ UNCHANGED InFlight /\ Paid' = Paid \cup {Frame.tx}
    BY <1>10 DEF TransferLands, machineVars, InFlight, Paid, Nonce, Frame
  <2>3. Promise!Charge(Frame.tx) BY <2>1, <2>2 DEF InFlight, Paid
  <2>4. QED BY <2>2, <2>3 DEF InFlight
<1>11. CASE FlipKillSwitch \/ Tick \/ \E s \in Services : ToggleService(s)
  BY <1>11 DEF FlipKillSwitch, Tick, ToggleService, machineVars, Paid, InFlight, Frame
<1>12. QED
  BY <1>1, <1>3, <1>4, <1>5, <1>6, <1>7, <1>8, <1>9, <1>10, <1>11
  DEF Next, Machine, Environment, Pay, WorldAnswers

(* Every step of the machine is a step its promise allows.                  *)
THEOREM KeepsPromise == Spec => PaysOnce
<1>1. Init => Promise!Init
  BY DEF Init, Promise!Init
<1>2. TypeInv /\ MoneyInv /\ [Next]_vars
        => Promise!Next \/ UNCHANGED <<Paid, InFlight>>
  BY PromiseStep, ConstantsAssumption
<1>3. QED
  BY <1>1, <1>2, MoneyInvariant, PTL
  DEF Spec, PaysOnce, Promise!Spec, Paid, InFlight
=============================================================================
