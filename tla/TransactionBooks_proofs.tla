----------------------- MODULE TransactionBooks_proofs -----------------------
(***************************************************************************)
(* What the ledger says of nonces, retries and services, of alternatives,   *)
(* of deliveries and closings, and of what was spent, for every policy,     *)
(* price list and calendar and every order of re-runs.                      *)
(***************************************************************************)
EXTENDS TransactionMachine_proofs, Totals_proofs, FiniteSetTheorems

Attempts == 1 .. 1 + MaxPaymentRetries

(* A nonce names the transaction and the attempt of its entry, and attempts *)
(* stay within the loop of payWithRetries.                                  *)
NoncesSpelled ==
  \A i \in DOMAIN ledger :
    ledger[i].nonce # NoNonce => /\ ledger[i].nonce = <<ledger[i].tx, ledger[i].attempt>>
                                 /\ ledger[i].attempt \in Attempts

(* The nonce of a payment in flight is new. *)
NonceFree == pc = "paying" => attempt \in Attempts /\ ~NonceUsed(ledger, Nonce)

(* The service being consumed is paid for. *)
ServicePaid ==
  pc = "consuming" => \E j \in Settled : /\ ledger[j].tx = Frame.tx
                                         /\ ledger[j].service = Frame.service

Books    == NoncesSpelled /\ NoncesUnique /\ PaidBeforeService
BooksInv == Books /\ NonceFree /\ ServicePaid

LEMMA BooksInit == Init => BooksInv
BY DEF Init, BooksInv, Books, NoncesSpelled, NoncesUnique, PaidBeforeService,
       NonceFree, ServicePaid

(* An entry keeps the books in order when its nonce is its own and new and  *)
(* the service it reports on is paid for.                                   *)
LEMMA BookEntry ==
  ASSUME TypeInv, Books, NEW e \in Entries, Record(e),
         e.nonce # NoNonce => /\ e.nonce = <<e.tx, e.attempt>> /\ e.attempt \in Attempts
                              /\ ~NonceUsed(ledger, e.nonce),
         e.result # None => \E j \in Settled : /\ ledger[j].tx = e.tx
                                               /\ ledger[j].service = e.service
  PROVE  /\ Books'
         /\ Settled \subseteq Settled' /\ \A i \in Settled : ledger'[i] = ledger[i]
         /\ e.status = "settled" => \E j \in Settled' : ledger'[j] = e
<1> DEFINE last == Len(ledger) + 1
<1>1. /\ Len(ledger) \in Nat /\ DOMAIN ledger = 1..Len(ledger)
      /\ DOMAIN ledger' = DOMAIN ledger \cup {last}
      /\ \A i \in DOMAIN ledger : ledger'[i] = ledger[i] /\ i < last
      /\ ledger'[last] = e /\ last \notin DOMAIN ledger
  BY AppendEntry DEF Record, TypeInv, TypeOK
<1> HIDE DEF last
<1>2. Settled \subseteq Settled' /\ \A i \in Settled : ledger'[i] = ledger[i]
  BY <1>1 DEF Settled
<1>3. e.status = "settled" => \E j \in Settled' : ledger'[j] = e
  BY <1>1 DEF Settled
<1>4. NoncesSpelled'
  BY <1>1 DEF Books, NoncesSpelled
<1>5. NoncesUnique'
  BY <1>1 DEF Books, NoncesUnique, NonceUsed
<1>6. PaidBeforeService'
  <2> SUFFICES ASSUME NEW i \in DOMAIN ledger', ledger'[i].result # None
               PROVE  \E j \in Settled' : /\ j < i
                                          /\ ledger'[j].tx = ledger'[i].tx
                                          /\ ledger'[j].service = ledger'[i].service
    BY DEF PaidBeforeService
  <2>1. CASE i \in DOMAIN ledger
    BY <1>1, <1>2, <2>1 DEF Books, PaidBeforeService
  <2>2. CASE i = last
    BY <1>1, <1>2, <2>2 DEF Settled
  <2>3. QED  BY <1>1, <2>1, <2>2
<1>7. QED  BY <1>2, <1>3, <1>4, <1>5, <1>6 DEF Books

(* Entries of the pay loop are of the frame's service and report no result. *)
LEMMA PaymentEntryBooks ==
  ASSUME TypeInv, pc \in {"pay"} \cup Inside, NEW d, NEW n, NEW s, NEW o
  PROVE  /\ PaymentEntry(d, n, s, o).service = Frame.service
         /\ PaymentEntry(d, n, s, o).result = None
<1>1. /\ FrameEntry \in Entries /\ FrameEntry.service = Frame.service
      /\ FrameEntry.result = None
  BY FrameType DEF FrameEntry, Entry, TypeInv, Inside
<1>2. QED  BY <1>1 DEF PaymentEntry, Entries

(* A step that writes nothing, issues nothing and starts no consumption. *)
LEMMA QuietBooks ==
  ASSUME BooksInv, UNCHANGED ledger,
         pc' \in {"paying", "consuming"} => UNCHANGED <<pc, stack, attempt>>
  PROVE  BooksInv'
BY DEF BooksInv, Books, NoncesSpelled, NoncesUnique, PaidBeforeService, NonceFree,
       ServicePaid, Settled, Frame, Nonce

(* A step that writes an entry without a nonce or a result, and leaves the  *)
(* World or stays out of it.                                                *)
LEMMA PlainBooks ==
  ASSUME TypeInv, BooksInv, NEW e \in Entries, Record(e),
         e.nonce = NoNonce, e.result = None, pc' \notin {"paying", "consuming"}
  PROVE  BooksInv'
<1>1. Books'
  BY BookEntry DEF BooksInv
<1>2. QED  BY <1>1 DEF BooksInv, NonceFree, ServicePaid

LEMMA BooksStep ==
  ASSUME ConstantsAssumption, TypeInv, BooksInv, [Next]_vars
  PROVE  BooksInv'
<1>1. CASE UNCHANGED vars
  BY <1>1, QuietBooks DEF vars, machineVars
<1>2. ASSUME NEW task \in Tasks, NEW tx \in Submitted, Run(task, tx)
      PROVE  BooksInv'
  BY <1>2, QuietBooks DEF Run
<1>3. CASE TooDeep \/ NoCandidate \/ \E s \in Services : ServiceDisabled(s)
  BY <1>3, QuietBooks DEF TooDeep, NoCandidate, ServiceDisabled, Selected, Finish
<1>4. ASSUME NEW s \in Services, NEW d \in Decisions, CheckSpendPolicy(s, d),
             pc' \notin {"paying", "consuming"}
      PROVE  BooksInv'
  <2> DEFINE blank == Entry(Frame.tx, s, now)
             e == [blank EXCEPT !.price = PriceCents[s], !.decision = d]
  <2>1. pc = "discover" /\ Record(e)
    BY <1>4 DEF CheckSpendPolicy, Selected
  <2>2. Frame.tx \in Txs /\ now \in Nat /\ PriceCents[s] \in Nat
    BY <2>1, FrameType DEF TypeInv, TypeOK, ConstantsAssumption
  <2>3. blank \in Entries /\ blank.nonce = NoNonce
    BY <2>2, BlankEntry
  <2>4. blank.result = None
    BY DEF Entry
  <2>5. e \in Entries /\ e.nonce = NoNonce /\ e.result = None
    <3> HIDE DEF blank
    <3>1. QED  BY <2>2, <2>3, <2>4 DEF Entries
  <2> HIDE DEF e
  <2>6. QED  BY <1>4, <2>1, <2>5, PlainBooks
<1>5. ASSUME NEW s \in Services, NEW d \in Decisions, PolicyRejects(s, d)
      PROVE  BooksInv'
  BY <1>4, <1>5 DEF PolicyRejects, Finish
<1>6. ASSUME NEW s \in Services, PolicyAccepts(s) PROVE BooksInv'
  BY <1>4, <1>6 DEF PolicyAccepts, Decisions
<1>7. CASE PayKilled
  <2> DEFINE e == PaymentEntry("rejected-kill", NoNonce, None, "aborted-kill")
  <2>1. pc \in {"pay"} \cup Inside /\ Record(e) /\ pc' \notin {"paying", "consuming"}
    BY <1>7 DEF PayKilled, PayTurn, Finish
  <2>2. e \in Entries /\ e.nonce = NoNonce
    BY <2>1, PaymentEntryType DEF Decisions, Outcomes
  <2>3. e.result = None
    BY <2>1, PaymentEntryBooks
  <2> HIDE DEF e
  <2>4. QED  BY <2>1, <2>2, <2>3, PlainBooks
<1>8. CASE DuplicatePrevented
  <2> DEFINE e == PaymentEntry("rejected-per-tx", NoNonce, None,
                               "duplicate-payment-prevented")
  <2>1. pc \in {"pay"} \cup Inside /\ Record(e) /\ pc' \notin {"paying", "consuming"}
    BY <1>8 DEF DuplicatePrevented, PayTurn, Finish
  <2>2. e \in Entries /\ e.nonce = NoNonce
    BY <2>1, PaymentEntryType DEF Decisions, Outcomes
  <2>3. e.result = None
    BY <2>1, PaymentEntryBooks
  <2> HIDE DEF e
  <2>4. QED  BY <2>1, <2>2, <2>3, PlainBooks
<1>9. CASE NonceReuseThrows \/ PayRetriesExhausted
  BY <1>9, QuietBooks DEF NonceReuseThrows, PayRetriesExhausted, PayTurn, Finish
<1>10. CASE IssuePayment
  <2>1. attempt \in Attempts
    BY <1>10 DEF IssuePayment, PayTurn, TypeInv, TypeOK, ServiceChosen, NoAttempt,
       Attempts, ConstantsAssumption
  <2>2. NonceFree'
    BY <1>10, <2>1 DEF IssuePayment, NonceFree, Nonce, Frame, NonceUsed
  <2>3. QED
    BY <1>10, <2>2 DEF IssuePayment, BooksInv, Books, NoncesSpelled, NoncesUnique,
       PaidBeforeService, ServicePaid, Settled
<1>11. ASSUME pc = "paying", NEW status \in Statuses, RecordPayment(status)
       PROVE  /\ Books'
              /\ status = "settled" =>
                   \E j \in Settled' : /\ ledger'[j].tx = Frame.tx
                                       /\ ledger'[j].service = Frame.service
  <2> DEFINE e == PaymentEntry("accepted", Nonce, status, None)
  <2>1. pc \in {"pay"} \cup Inside /\ "accepted" \in Decisions /\ Nonce \in Txs \X Nat
    BY <1>11, NonceType DEF Inside, Decisions
  <2>2. /\ e \in Entries /\ e.tx = Frame.tx /\ e.attempt = attempt
        /\ e.status = status /\ e.nonce = Nonce
        /\ e.service = Frame.service /\ e.result = None
    BY <2>1, PaymentEntryType, PaymentEntryBooks
  <2>3. Record(e)
    BY <1>11 DEF RecordPayment
  <2>4. Nonce = <<Frame.tx, attempt>> /\ attempt \in Attempts /\ ~NonceUsed(ledger, Nonce)
    BY <1>11 DEF Nonce, BooksInv, NonceFree
  <2> HIDE DEF e
  <2>5. Books' /\ (e.status = "settled" => \E j \in Settled' : ledger'[j] = e)
    BY <2>2, <2>3, <2>4, BookEntry DEF BooksInv
  <2>6. QED  BY <2>2, <2>5
<1>12. CASE PaymentSettled
  BY <1>11, <1>12
     DEF PaymentSettled, BooksInv, NonceFree, ServicePaid, Statuses, Frame
<1>13. CASE PaymentFailed
  BY <1>11, <1>13 DEF PaymentFailed, BooksInv, NonceFree, ServicePaid, Statuses
<1>14. CASE PaymentAmbiguous
  BY <1>11, <1>14
     DEF PaymentAmbiguous, BooksInv, NonceFree, ServicePaid, Statuses
<1>15. CASE TransferLands
  BY <1>15, QuietBooks DEF TransferLands, machineVars
<1>16. CASE SettlementVerified
  <2> DEFINE e == PaymentEntry(None, NoNonce, "settled", None)
  <2>1. pc \in {"pay"} \cup Inside
    BY <1>16 DEF SettlementVerified, Inside
  <2>2. /\ e \in Entries /\ e.tx = Frame.tx /\ e.status = "settled"
        /\ e.nonce = NoNonce /\ e.service = Frame.service /\ e.result = None
    <3>1. e \in Entries /\ e.tx = Frame.tx /\ e.status = "settled" /\ e.nonce = NoNonce
      BY <2>1, PaymentEntryType DEF Statuses
    <3>2. QED  BY <2>1, <3>1, PaymentEntryBooks
  <2>3. Record(e)
    BY <1>16 DEF SettlementVerified, RecordVerification
  <2> HIDE DEF e
  <2>4. Books' /\ \E j \in Settled' : ledger'[j] = e
    BY <2>2, <2>3, BookEntry DEF BooksInv
  <2>5. QED
    BY <1>16, <2>2, <2>4 DEF SettlementVerified, BooksInv, NonceFree, ServicePaid, Frame
<1>17. CASE FailureVerified
  <2> DEFINE e == PaymentEntry(None, NoNonce, "failed", None)
  <2>1. pc \in {"pay"} \cup Inside /\ Record(e) /\ pc' \notin {"paying", "consuming"}
    BY <1>17 DEF FailureVerified, RecordVerification, Inside
  <2>2. e \in Entries /\ e.nonce = NoNonce
    <3>1. /\ FrameEntry \in Entries /\ attempt \in Nat
          /\ PriceCents[Frame.service] \in Nat
      BY <2>1, FrameType
         DEF TypeInv, TypeOK, ServiceChosen, ConstantsAssumption, Inside
    <3>2. QED  BY <3>1 DEF PaymentEntry, Entries, Statuses
  <2>3. e.result = None
    BY <2>1, PaymentEntryBooks
  <2> HIDE DEF e
  <2>4. QED  BY <2>1, <2>2, <2>3, PlainBooks
<1>18. ASSUME pc = "consuming", NEW r \in Results, RecordService(r),
              pc' = "consuming" => UNCHANGED stack, pc' # "paying"
       PROVE  BooksInv'
  <2> DEFINE e == [FrameEntry EXCEPT !.result = r]
  <2>1. /\ FrameEntry \in Entries /\ FrameEntry.tx = Frame.tx
        /\ FrameEntry.nonce = NoNonce
    BY <1>18, FrameType DEF TypeInv
  <2>2. FrameEntry.service = Frame.service
    BY DEF FrameEntry, Entry
  <2>3. /\ e \in Entries /\ e.tx = Frame.tx /\ e.nonce = NoNonce
        /\ e.service = Frame.service
    BY <2>1, <2>2 DEF Entries
  <2>4. Record(e)
    BY <1>18 DEF RecordService
  <2> HIDE DEF e
  <2>5. /\ Books'
        /\ Settled \subseteq Settled' /\ \A i \in Settled : ledger'[i] = ledger[i]
    BY <1>18, <2>3, <2>4, BookEntry DEF BooksInv, ServicePaid
  <2>6. QED  BY <1>18, <2>5 DEF BooksInv, NonceFree, ServicePaid, Frame
<1>19. CASE ServiceSucceeds \/ ServiceFails \/ ServiceFatal
  BY <1>18, <1>19 DEF ServiceSucceeds, ServiceFails, ServiceFatal, Finish, Results
<1>20. CASE Close
  <2> DEFINE e == [FrameEntry EXCEPT !.outcome = outcome]
  <2>1. /\ FrameEntry \in Entries /\ FrameEntry.nonce = NoNonce
        /\ outcome \in Outcomes \cup {None}
    BY <1>20, FrameType DEF Close, TypeInv, TypeOK
  <2>2. FrameEntry.result = None
    BY DEF FrameEntry, Entry
  <2>3. e \in Entries /\ e.nonce = NoNonce /\ e.result = None
    BY <2>1, <2>2 DEF Entries
  <2>4. Record(e) /\ pc' \notin {"paying", "consuming"}
    BY <1>20 DEF Close
  <2> HIDE DEF e
  <2>5. QED  BY <2>3, <2>4, PlainBooks
<1>21. CASE FlipKillSwitch \/ Tick \/ \E s \in Services : ToggleService(s)
  BY <1>21, QuietBooks DEF FlipKillSwitch, Tick, ToggleService, machineVars
<1>22. QED
  BY <1>1, <1>2, <1>3, <1>5, <1>6, <1>7, <1>8, <1>9, <1>10, <1>12, <1>13, <1>14,
     <1>15, <1>16, <1>17, <1>19, <1>20, <1>21
  DEF Next, Machine, Environment, Discover, Pay, WorldAnswers

LEMMA BooksInvariant == Spec => [](TypeInv /\ BooksInv)
<1>1. Init => TypeInv /\ BooksInv BY TypeInit, BooksInit
<1>2. TypeInv /\ BooksInv /\ [Next]_vars => (TypeInv /\ BooksInv)'
  BY TypeStep, BooksStep, ConstantsAssumption
<1>3. QED BY <1>1, <1>2, PTL DEF Spec
-----------------------------------------------------------------------------
(* state-machine.ts: a nonce is written to the ledger by one payment only,  *)
(* whatever ids callers submit again, "-alt" ids of their own included.     *)
THEOREM NoncesStayUnique == Spec => []NoncesUnique
<1>1. BooksInv => NoncesUnique BY DEF BooksInv, Books
<1>2. QED BY <1>1, BooksInvariant, PTL

(* state-machine.ts: a service is consumed only after a settled payment of  *)
(* the same transaction to that service, also when an id is run again for a *)
(* task that another service serves.                                        *)
THEOREM NoServiceUnpaid == Spec => []PaidBeforeService
<1>1. BooksInv => PaidBeforeService BY DEF BooksInv, Books
<1>2. QED BY <1>1, BooksInvariant, PTL

(* The payments of a transaction differ in their attempts. *)
LEMMA CapFromNonces ==
  ASSUME ConstantsAssumption, TypeInv, BooksInv, NEW tx
  PROVE  Cardinality(PaymentsFor(ledger, tx)) <= 1 + MaxPaymentRetries
<1> DEFINE payments == PaymentsFor(ledger, tx)
           attemptOf == [i \in payments |-> ledger[i].attempt]
<1>1. attemptOf \in Injection(payments, Attempts)
  <2>1. \A i \in payments : ledger[i].attempt \in Attempts
    BY DEF PaymentsFor, BooksInv, Books, NoncesSpelled
  <2>2. \A i, j \in payments : ledger[i].attempt = ledger[j].attempt => i = j
    BY DEF PaymentsFor, BooksInv, Books, NoncesSpelled, NoncesUnique
  <2>3. QED  BY <2>1, <2>2 DEF Injection, IsInjective
<1>2. 1 + MaxPaymentRetries \in Nat
  BY DEF ConstantsAssumption
<1>3. IsFiniteSet(Attempts) /\ Cardinality(Attempts) = 1 + MaxPaymentRetries
  BY <1>2, FS_Interval DEF Attempts
<1>4. QED  BY <1>1, <1>3, FS_Injection

(* policy.ts maxPaymentRetries: the cap holds over the life of a            *)
(* transaction id, however often it is run, not just within one run.        *)
THEOREM RetryCapHolds == Spec => []RetriesCapped
<1>1. TypeInv /\ BooksInv => RetriesCapped
  BY CapFromNonces, ConstantsAssumption DEF RetriesCapped
<1>2. QED BY <1>1, BooksInvariant, PTL

(* policy.ts killSwitch: every attempt of every payment starts with the     *)
(* switch on, a retry after a failed verification and an alternative        *)
(* included.                                                                *)
THEOREM KillSwitchHolds == Spec => KillStopsPayments
<1>1. [Next]_vars => [StartsPayment => enabled]_vars
  BY DEF Next, Machine, Environment, Discover, Pay, WorldAnswers, StartsPayment, vars,
     machineVars, Run, TooDeep, NoCandidate, ServiceDisabled, PolicyRejects,
     PolicyAccepts, CheckSpendPolicy, Selected, Finish, PayKilled, DuplicatePrevented,
     NonceReuseThrows, IssuePayment, PayTurn, PayRetriesExhausted, PaymentSettled,
     PaymentFailed, PaymentAmbiguous, TransferLands, SettlementVerified,
     FailureVerified, ServiceSucceeds, ServiceFails, ServiceFatal, Close,
     FlipKillSwitch, ToggleService, Tick
<1>2. QED BY <1>1, PTL DEF Spec, KillStopsPayments
-----------------------------------------------------------------------------
(* The frames are a submitted transaction and its alternatives, in order,   *)
(* and only the last of them, if any, is too deep.                          *)
Chain ==
  /\ \A k \in DOMAIN stack : /\ stack[k].tx[1] = stack[1].tx[1]
                             /\ stack[k].tx[2] = stack[1].tx[2] + k - 1
  /\ pc # "idle" => stack[1].tx \in Submitted
  /\ Len(stack) <= MaxDepth + 2
  /\ pc \in {"pay"} \cup Inside => Len(stack) <= MaxDepth + 1

SameFrames ==
  /\ Len(stack') = Len(stack) /\ DOMAIN stack' = DOMAIN stack
  /\ \A k \in DOMAIN stack : stack'[k].tx = stack[k].tx

LEMMA StackType ==
  ASSUME TypeInv
  PROVE  /\ stack \in Seq(Frames) /\ Len(stack) \in Nat /\ DOMAIN stack = 1 .. Len(stack)
         /\ pc = "idle" => DOMAIN stack = {}
         /\ pc # "idle" => Len(stack) \in DOMAIN stack /\ 1 \in DOMAIN stack
         /\ \A k \in DOMAIN stack : stack[k].tx[1] \in Roots /\ stack[k].tx[2] \in Nat
                                    /\ stack[k].tx = <<stack[k].tx[1], stack[k].tx[2]>>
<1>1. stack \in Seq(Frames) /\ Len(stack) \in Nat /\ DOMAIN stack = 1 .. Len(stack)
  BY LenProperties DEF TypeInv, TypeOK
<1>2. pc = "idle" => DOMAIN stack = {}
  BY <1>1, EmptySeq DEF TypeInv, TypeOK
<1>3. pc # "idle" => Len(stack) \in DOMAIN stack /\ 1 \in DOMAIN stack
  BY <1>1, FrameType DEF TypeInv
<1>4. \A k \in DOMAIN stack : stack[k] \in Frames
  BY <1>1, ElementOfSeq
<1>5. QED  BY <1>1, <1>2, <1>3, <1>4 DEF Frames, Txs

LEMMA SelectedFrames ==
  ASSUME TypeInv, NEW s \in Services, Selected(s)
  PROVE  SameFrames /\ Len(stack) <= MaxDepth + 1
<1>1. stack \in Seq(Frames) /\ Len(stack) \in DOMAIN stack /\ Len(stack) \in Nat
  BY StackType DEF Selected
<1>2. stack' = [stack EXCEPT ![Len(stack)] = [stack[Len(stack)] EXCEPT !.service = s]]
  BY DEF Selected
<1>3. stack[Len(stack)] \in Frames
  BY <1>1, ElementOfSeq
<1>4. [stack[Len(stack)] EXCEPT !.service = s] \in Frames
  BY <1>3 DEF Frames
<1>5. [stack[Len(stack)] EXCEPT !.service = s].tx = stack[Len(stack)].tx
  BY <1>3 DEF Frames
<1>6. DOMAIN stack' = DOMAIN stack /\ Len(stack') = Len(stack)
  BY <1>1, <1>2, <1>4, ExceptSeq
<1>7. \A k \in DOMAIN stack : stack'[k].tx = stack[k].tx
  BY <1>1, <1>2, <1>5
<1>8. Len(stack) <= MaxDepth + 1
  BY <1>1 DEF Selected, Depth, MaxDepth
<1>9. QED  BY <1>6, <1>7, <1>8 DEF SameFrames

LEMMA ChainKept ==
  ASSUME TypeInv, Chain, SameFrames, pc # "idle",
         pc' \in {"pay"} \cup Inside =>
           pc \in {"pay"} \cup Inside \/ Len(stack) <= MaxDepth + 1
  PROVE  Chain'
BY StackType DEF Chain, SameFrames

LEMMA FatalFrames ==
  ASSUME TypeInv, TypeInv', pc = "consuming",
         stack' = Append(stack, [task |-> Frame.task,
                                 tx |-> <<Frame.tx[1], Frame.tx[2] + 1>>,
                                 exclude |-> Frame.service, service |-> NoService])
  PROVE  /\ Len(stack') = Len(stack) + 1
         /\ DOMAIN stack' = DOMAIN stack \cup {Len(stack) + 1}
         /\ \A k \in DOMAIN stack : stack'[k] = stack[k]
         /\ stack'[Len(stack) + 1].tx = <<Frame.tx[1], Frame.tx[2] + 1>>
<1>1. /\ stack \in Seq(Frames) /\ Frame \in Frames
      /\ Frame.tx[1] \in Roots /\ Frame.tx[2] \in Nat /\ Frame.service \in Services
  BY StackType, FrameType DEF TypeInv, ServiceChosen, Inside, Frames, Txs
<1> DEFINE f == [task |-> Frame.task, tx |-> <<Frame.tx[1], Frame.tx[2] + 1>>,
                 exclude |-> Frame.service, service |-> NoService]
<1>2. f \in Frames /\ f.tx = <<Frame.tx[1], Frame.tx[2] + 1>>
  BY <1>1 DEF Frames, Txs
<1> HIDE DEF f
<1>3. stack' = Append(stack, f)
  BY DEF f
<1>4. QED  BY <1>1, <1>2, <1>3, AppendProperties

LEMMA PoppedFrames ==
  ASSUME TypeInv, pc # "idle", stack' = SubSeq(stack, 1, Len(stack) - 1)
  PROVE  /\ Len(stack') = Len(stack) - 1
         /\ DOMAIN stack' = 1 .. Len(stack) - 1
         /\ \A k \in DOMAIN stack' : k \in DOMAIN stack /\ stack'[k] = stack[k]
<1>1. /\ stack \in Seq(Frames) /\ Len(stack) \in Nat /\ DOMAIN stack = 1 .. Len(stack)
      /\ Len(stack) \in DOMAIN stack
  BY StackType
<1>2. Len(stack) - 1 \in Nat /\ Len(stack) - 1 <= Len(stack)
  BY <1>1
<1>3. QED  BY <1>1, <1>2, SubSeqProperties
-----------------------------------------------------------------------------
LEMMA ChainStep ==
  ASSUME ConstantsAssumption, TypeInv, TypeInv', Chain, [Next]_vars
  PROVE  Chain'
<1>1. CASE UNCHANGED <<pc, stack>>
  BY <1>1 DEF Chain
<1>2. ASSUME NEW task \in Tasks, NEW tx \in Submitted, Run(task, tx)
      PROVE  Chain'
  <2> DEFINE f == [task |-> task, tx |-> tx, exclude |-> NoService, service |-> NoService]
  <2>1. stack' = <<f>> /\ f.tx = tx /\ pc' = "discover"
    BY <1>2 DEF Run
  <2> HIDE DEF f
  <2>2. Len(stack') = 1 /\ DOMAIN stack' = {1} /\ stack'[1].tx = tx
    BY <2>1
  <2>3. tx[2] \in Nat
    BY ConstantsAssumption DEF ConstantsAssumption, Txs
  <2>4. QED  BY <2>1, <2>2, <2>3 DEF Chain, MaxDepth, Inside
<1>3. CASE TooDeep \/ NoCandidate
  BY <1>3, ChainKept DEF TooDeep, NoCandidate, Finish, SameFrames, Inside
<1>4. ASSUME NEW s \in Services, Selected(s), pc' # "idle"
      PROVE  Chain'
  BY <1>4, ChainKept, SelectedFrames DEF Selected
<1>5. CASE \E s \in Services : ServiceDisabled(s)
  BY <1>4, <1>5 DEF ServiceDisabled, Finish
<1>6. CASE \E s \in Services, d \in Decisions : PolicyRejects(s, d)
  BY <1>4, <1>6 DEF PolicyRejects, CheckSpendPolicy, Finish
<1>7. CASE \E s \in Services : PolicyAccepts(s)
  BY <1>4, <1>7 DEF PolicyAccepts, CheckSpendPolicy
<1>8. CASE PayKilled \/ DuplicatePrevented \/ IssuePayment \/ PayRetriesExhausted
  BY <1>8, ChainKept
     DEF PayKilled, DuplicatePrevented, IssuePayment, PayRetriesExhausted, PayTurn,
         Finish, SameFrames, Inside
<1>9. CASE NonceReuseThrows
  <2>1. stack' = <<>> /\ pc' = "idle"
    BY <1>9 DEF NonceReuseThrows
  <2>2. Len(stack') = 0 /\ DOMAIN stack' = {}
    BY <2>1, EmptySeq
  <2>3. QED  BY <2>1, <2>2 DEF Chain, MaxDepth, Inside
<1>10. CASE PaymentSettled \/ PaymentFailed \/ PaymentAmbiguous \/ SettlementVerified
            \/ FailureVerified \/ ServiceSucceeds \/ ServiceFails
  BY <1>10, ChainKept
     DEF PaymentSettled, PaymentFailed, PaymentAmbiguous, SettlementVerified,
         FailureVerified, ServiceSucceeds, ServiceFails, Finish, SameFrames, Inside
<1>11. CASE ServiceFatal
  <2>1. CASE UNCHANGED stack
    BY <1>11, <2>1, ChainKept DEF ServiceFatal, Finish, SameFrames, Inside
  <2>2. CASE ~UNCHANGED stack
    <3> DEFINE last == Len(stack) + 1
    <3>1. pc = "consuming" /\ pc' = "discover" /\ Frame = stack[Len(stack)]
      BY <1>11, <2>2 DEF ServiceFatal, Frame
    <3>2. /\ Len(stack') = last
          /\ DOMAIN stack' = DOMAIN stack \cup {last}
          /\ \A k \in DOMAIN stack : stack'[k] = stack[k]
          /\ stack'[last].tx = <<Frame.tx[1], Frame.tx[2] + 1>>
      BY <1>11, <2>2, FatalFrames DEF ServiceFatal
    <3>3. /\ Len(stack) \in Nat /\ Len(stack) \in DOMAIN stack /\ 1 \in DOMAIN stack
          /\ stack[1].tx[2] \in Nat
      BY <3>1, StackType
    <3>4. Len(stack) <= MaxDepth + 1
      BY <3>1 DEF Chain, Inside
    <3>5. /\ stack'[last].tx[1] = stack[1].tx[1]
          /\ stack'[last].tx[2] = stack[1].tx[2] + last - 1
      <4>1. /\ Frame.tx[1] = stack[1].tx[1]
            /\ Frame.tx[2] = stack[1].tx[2] + Len(stack) - 1
        BY <3>1, <3>3 DEF Chain
      <4>2. stack'[last].tx[1] = Frame.tx[1] /\ stack'[last].tx[2] = Frame.tx[2] + 1
        BY <3>2
      <4>3. last = Len(stack) + 1
        OBVIOUS
      <4> HIDE DEF last
      <4>4. stack[1].tx[2] + Len(stack) - 1 + 1 = stack[1].tx[2] + last - 1
        BY <3>3, <4>3
      <4>5. QED  BY <4>1, <4>2, <4>4
    <3> HIDE DEF last
    <3>6. \A k \in DOMAIN stack' : /\ stack'[k].tx[1] = stack'[1].tx[1]
                                   /\ stack'[k].tx[2] = stack'[1].tx[2] + k - 1
      <4>1. stack'[1] = stack[1]
        BY <3>2, <3>3
      <4>2. \A k \in DOMAIN stack : /\ stack'[k].tx[1] = stack'[1].tx[1]
                                    /\ stack'[k].tx[2] = stack'[1].tx[2] + k - 1
        BY <3>2, <4>1 DEF Chain
      <4>3. QED  BY <3>2, <3>5, <4>1, <4>2
    <3>7. Len(stack') <= MaxDepth + 2
      BY <3>2, <3>3, <3>4 DEF MaxDepth, last
    <3>8. QED  BY <3>1, <3>2, <3>3, <3>6, <3>7 DEF Chain, Inside
  <2>3. QED  BY <2>1, <2>2
<1>12. CASE Close
  <2>1. pc = "close" /\ stack' = SubSeq(stack, 1, Len(stack) - 1)
    BY <1>12 DEF Close
  <2>2. /\ Len(stack') = Len(stack) - 1
        /\ DOMAIN stack' = 1 .. Len(stack) - 1
        /\ \A k \in DOMAIN stack' : k \in DOMAIN stack /\ stack'[k] = stack[k]
    BY <2>1, PoppedFrames
  <2>3. Len(stack) \in Nat /\ pc' \in {"close", "idle"} /\ (pc' # "idle" => Len(stack) > 1)
    BY <1>12, StackType DEF Close
  <2>4. \A k \in DOMAIN stack' : 1 \in DOMAIN stack'
    BY <2>2, <2>3
  <2>5. pc' # "idle" => stack'[1].tx \in Submitted
    BY <2>1, <2>2, <2>3 DEF Chain
  <2>6. QED  BY <2>2, <2>3, <2>4, <2>5 DEF Chain, MaxDepth, Inside
<1>13. CASE TransferLands \/ FlipKillSwitch \/ Tick \/ \E s \in Services : ToggleService(s)
  BY <1>1, <1>13 DEF TransferLands, FlipKillSwitch, Tick, ToggleService, machineVars
<1>14. QED
  BY <1>1, <1>2, <1>3, <1>5, <1>6, <1>7, <1>8, <1>9, <1>10, <1>11, <1>12, <1>13
  DEF Next, Machine, Environment, Discover, Pay, WorldAnswers, vars, machineVars

(* Every charge is of a submitted transaction or one of its first three     *)
(* alternatives.                                                            *)
ChargesInChain ==
  \A n \in charged : \E tx \in Submitted : /\ n[1][1] = tx[1]
                                           /\ n[1][2] \in tx[2] .. tx[2] + MaxDepth

LEMMA ChargeInChain ==
  ASSUME ConstantsAssumption, TypeInv, Chain, ChargesInChain, pc \in Inside,
         charged' = charged \cup {Nonce}
  PROVE  ChargesInChain'
<1>1. /\ Len(stack) \in DOMAIN stack /\ Len(stack) \in Nat /\ Len(stack) >= 1
      /\ 1 \in DOMAIN stack /\ stack[1].tx[2] \in Nat
  BY StackType DEF Inside
<1>2. /\ stack[1].tx \in Submitted /\ Len(stack) <= MaxDepth + 1
      /\ Frame.tx[1] = stack[1].tx[1] /\ Frame.tx[2] = stack[1].tx[2] + Len(stack) - 1
  BY <1>1 DEF Chain, Inside, Frame
<1>3. Frame.tx[2] \in stack[1].tx[2] .. stack[1].tx[2] + MaxDepth
  BY <1>1, <1>2 DEF MaxDepth
<1>4. Nonce[1] = Frame.tx
  BY DEF Nonce
<1>5. QED  BY <1>2, <1>3, <1>4 DEF ChargesInChain

LEMMA ChargesStep ==
  ASSUME ConstantsAssumption, TypeInv, Chain, ChargesInChain, [Next]_vars
  PROVE  ChargesInChain'
<1>1. CASE UNCHANGED charged
  BY <1>1 DEF ChargesInChain
<1>2. CASE PaymentSettled \/ TransferLands
  BY <1>2, ChargeInChain DEF PaymentSettled, TransferLands, Inside
<1>3. QED
  BY <1>1, <1>2
  DEF Next, Machine, Environment, Discover, Pay, WorldAnswers, vars, Run, TooDeep,
      NoCandidate, ServiceDisabled, PolicyRejects, PolicyAccepts, CheckSpendPolicy,
      PayKilled, DuplicatePrevented, NonceReuseThrows, IssuePayment, PayRetriesExhausted,
      PaymentFailed, PaymentAmbiguous, SettlementVerified, FailureVerified,
      ServiceSucceeds, ServiceFails, ServiceFatal, Close, FlipKillSwitch, ToggleService,
      Tick

LEMMA ChainInvariant == Spec => [](TypeInv /\ Chain /\ ChargesInChain)
<1>1. Init => TypeInv /\ Chain /\ ChargesInChain
  <2>1. Init => Chain
    <3>1. Init => Len(stack) = 0 /\ DOMAIN stack = {} /\ pc = "idle"
      BY EmptySeq DEF Init
    <3>2. QED  BY <3>1 DEF Chain, MaxDepth, Inside
  <2>2. QED  BY <2>1, TypeInit DEF Init, ChargesInChain
<1>2. TypeInv /\ Chain /\ ChargesInChain /\ [Next]_vars => (TypeInv /\ Chain /\ ChargesInChain)'
  BY TypeStep, ChainStep, ChargesStep, ConstantsAssumption
<1>3. QED BY <1>1, <1>2, PTL DEF Spec

(* state-machine.ts MAX_DEPTH: money moves for a submitted transaction and  *)
(* its first three alternatives only, however long a preference list is.    *)
THEOREM ChargesStayInChain == Spec => []ChargesInChain
BY ChainInvariant, PTL

(* The same for callers who submit ids of their own making, never one that  *)
(* the machine has derived: no "-alt-alt-alt-alt" is ever paid.             *)
THEOREM FallbacksStayBounded ==
  ASSUME Submitted \subseteq Roots \X {0}
  PROVE  Spec => []FallbacksBounded
<1>1. ChargesInChain => FallbacksBounded
  BY DEF ChargesInChain, FallbacksBounded, MaxDepth
<1>2. QED BY <1>1, ChainInvariant, PTL
-----------------------------------------------------------------------------
OnStack(st, tx) == \E k \in DOMAIN st : st[k].tx = tx

Delivered(l, tx) == \E j \in DOMAIN l : /\ l[j].result = "success"
                                        /\ l[j].tx[1] = tx[1]
                                        /\ l[j].tx[2] >= tx[2]

(* A run that returns has an outcome, "completed" only after a success. *)
Returning ==
  pc = "close" => /\ outcome # None
                  /\ outcome = "completed" => Delivered(ledger, Frame.tx)

(* The two ways of PaymentsClosed. *)
Closed(l, i)  == \E j \in DOMAIN l : /\ i < j /\ l[j].tx = l[i].tx
                                     /\ l[j].outcome # None
Usurped(l, i) == \E j \in 1 .. (i - 1) : /\ l[j].tx[1] = l[i].tx[1]
                                         /\ l[j].tx[2] > l[i].tx[2]
                                         /\ l[j].nonce # NoNonce

(* A payment of an outer frame, or an earlier one of the innermost frame,   *)
(* when the machine is at p in a frame of tx, in its attempt n.             *)
Behind(e, p, tx, n) ==
  \/ e.tx[2] < tx[2]
  \/ /\ e.tx[2] = tx[2] /\ p # "discover"
     /\ p \in {"pay", "paying"} => e.attempt < n
     /\ p = "verifying" => e.attempt <= n

(* A settled payment that is not resolved belongs to a frame of the run,    *)
(* and no payment of a frame yet to come has been written after it.         *)
Open(i) ==
  /\ OnStack(stack, ledger[i].tx)
  /\ pc \notin {"idle", "close"} =>
       \A j \in DOMAIN ledger : i < j /\ ledger[j].nonce # NoNonce =>
                                  Behind(ledger[j], pc, Frame.tx, attempt)

Closing  == \A i \in Settled : Closed(ledger, i) \/ Usurped(ledger, i) \/ Open(i)
CloseInv == CompletedDelivered /\ Returning /\ Closing

(* What one more entry changes. *)
LEMMA CloseEntry ==
  ASSUME TypeInv, CloseInv, NEW e \in Entries, Record(e),
         e.outcome = "completed" => Delivered(ledger, e.tx),
         e.status = "settled" => OnStack(stack', e.tx),
         \A tx \in Txs : OnStack(stack, tx) =>
                            OnStack(stack', tx) \/ (e.tx = tx /\ e.outcome # None),
         pc' \notin {"idle", "close"} =>
           /\ pc \notin {"idle", "close"}
           /\ \A x \in Entries : Behind(x, pc, Frame.tx, attempt)
                                   => Behind(x, pc', Frame'.tx, attempt')
           /\ e.nonce # NoNonce => Behind(e, pc', Frame'.tx, attempt')
  PROVE  /\ CompletedDelivered' /\ Closing'
         /\ \A tx : Delivered(ledger, tx) => Delivered(ledger', tx)
         /\ e.result = "success" => Delivered(ledger', e.tx)
<1> DEFINE last == Len(ledger) + 1
<1>1. /\ Len(ledger) \in Nat /\ DOMAIN ledger = 1..Len(ledger)
      /\ DOMAIN ledger' = DOMAIN ledger \cup {last}
      /\ \A i \in DOMAIN ledger : ledger'[i] = ledger[i] /\ i < last
      /\ ledger'[last] = e /\ last \notin DOMAIN ledger /\ last \in Nat
  BY AppendEntry DEF Record, TypeInv, TypeOK
<1>2. \A i \in DOMAIN ledger : ledger[i] \in Entries
  BY ElementOfSeq, <1>1 DEF TypeInv, TypeOK
<1>3. \A x \in Entries : x.tx \in Txs /\ x.tx[1] \in Roots /\ x.tx[2] \in Nat
  BY DEF Entries, Txs
<1> HIDE DEF last
<1>4. CompletedDelivered'
  <2> SUFFICES ASSUME NEW i \in DOMAIN ledger', ledger'[i].outcome = "completed"
               PROVE  \E j \in 1..(i - 1) : /\ ledger'[j].result = "success"
                                            /\ ledger'[j].tx[1] = ledger'[i].tx[1]
                                            /\ ledger'[j].tx[2] >= ledger'[i].tx[2]
    BY DEF CompletedDelivered
  <2>1. CASE i \in DOMAIN ledger
    <3>1. PICK j \in 1..(i - 1) : /\ ledger[j].result = "success"
                                  /\ ledger[j].tx[1] = ledger[i].tx[1]
                                  /\ ledger[j].tx[2] >= ledger[i].tx[2]
      BY <1>1, <2>1 DEF CloseInv, CompletedDelivered
    <3>2. j \in DOMAIN ledger
      BY <1>1, <2>1
    <3>3. QED  BY <1>1, <2>1, <3>1, <3>2
  <2>2. CASE i = last
    <3>1. PICK j \in DOMAIN ledger : /\ ledger[j].result = "success"
                                     /\ ledger[j].tx[1] = e.tx[1]
                                     /\ ledger[j].tx[2] >= e.tx[2]
      BY <1>1, <2>2 DEF Delivered
    <3>2. j \in 1..(last - 1)
      BY <1>1
    <3>3. QED  BY <1>1, <2>2, <3>1, <3>2
  <2>3. QED  BY <1>1, <2>1, <2>2
<1>5. ASSUME NEW i \in Settled'
      PROVE  Closed(ledger', i) \/ Usurped(ledger', i) \/ Open(i)'
  <2>1. CASE i = last
    <3>1. OnStack(stack', ledger'[i].tx)
      BY <1>1, <2>1 DEF Settled
    <3>2. \A j \in DOMAIN ledger' : ~(i < j)
      BY <1>1, <2>1
    <3>3. QED  BY <3>1, <3>2 DEF Open
  <2>2. CASE i \in DOMAIN ledger
    <3>1. i \in Settled /\ ledger'[i] = ledger[i] /\ i < last /\ ledger[i].tx \in Txs
      BY <1>1, <1>2, <1>3, <1>5, <2>2 DEF Settled
    <3>2. CASE Closed(ledger, i)
      BY <1>1, <3>1, <3>2 DEF Closed
    <3>3. CASE Usurped(ledger, i)
      <4>1. PICK j \in 1 .. (i - 1) : /\ ledger[j].tx[1] = ledger[i].tx[1]
                                      /\ ledger[j].tx[2] > ledger[i].tx[2]
                                      /\ ledger[j].nonce # NoNonce
        BY <3>3 DEF Usurped
      <4>2. j \in DOMAIN ledger
        BY <1>1, <2>2
      <4>3. ledger'[j] = ledger[j]
        BY <1>1, <4>2
      <4>4. QED  BY <3>1, <4>1, <4>3 DEF Usurped
    <3>4. CASE Open(i)
      <4>1. CASE e.tx = ledger[i].tx /\ e.outcome # None
        BY <1>1, <3>1, <4>1 DEF Closed
      <4>2. CASE ~(e.tx = ledger[i].tx /\ e.outcome # None)
        <5>1. OnStack(stack', ledger'[i].tx)
          BY <3>1, <3>4, <4>2 DEF Open
        <5>2. ASSUME pc' \notin {"idle", "close"}, NEW j \in DOMAIN ledger', i < j,
                     ledger'[j].nonce # NoNonce
              PROVE  Behind(ledger'[j], pc', Frame'.tx, attempt')
          <6>1. CASE j \in DOMAIN ledger
            BY <1>1, <1>2, <3>4, <5>2, <6>1 DEF Open
          <6>2. CASE j = last
            BY <1>1, <5>2, <6>2
          <6>3. QED  BY <1>1, <6>1, <6>2
        <5>3. QED  BY <5>1, <5>2 DEF Open
      <4>3. QED  BY <4>1, <4>2
    <3>5. QED  BY <3>1, <3>2, <3>3, <3>4 DEF CloseInv, Closing
  <2>3. QED  BY <1>1, <1>5, <2>1, <2>2 DEF Settled
<1>6. \A tx : Delivered(ledger, tx) => Delivered(ledger', tx)
  BY <1>1 DEF Delivered
<1>7. e.result = "success" => Delivered(ledger', e.tx)
  BY <1>1, <1>3 DEF Delivered
<1>8. QED  BY <1>4, <1>5, <1>6, <1>7 DEF Closing

(* A step that writes nothing. *)
LEMMA CloseQuiet ==
  ASSUME CloseInv, UNCHANGED ledger,
         \A tx : OnStack(stack, tx) => OnStack(stack', tx),
         pc' \notin {"idle", "close"} =>
           /\ pc \notin {"idle", "close"}
           /\ \A x : Behind(x, pc, Frame.tx, attempt) => Behind(x, pc', Frame'.tx, attempt'),
         pc' = "close" => outcome' \notin {None, "completed"}
  PROVE  CloseInv'
<1>1. CompletedDelivered' /\ Returning'
  BY DEF CloseInv, CompletedDelivered, Returning
<1>2. Settled' = Settled
  BY DEF Settled
<1>3. ASSUME NEW i \in Settled
      PROVE  Closed(ledger', i) \/ Usurped(ledger', i) \/ Open(i)'
  BY <1>3 DEF CloseInv, Closing, Open
<1>4. QED  BY <1>1, <1>2, <1>3 DEF CloseInv, Closing
-----------------------------------------------------------------------------
LEMMA OnFrame ==
  ASSUME TypeInv, pc # "idle"
  PROVE  /\ OnStack(stack, Frame.tx) /\ Frame.tx \in Txs
         /\ Frame.tx[1] \in Roots /\ Frame.tx[2] \in Nat
BY StackType, FrameType DEF OnStack, Frame, TypeInv

LEMMA OnSameFrames ==
  ASSUME TypeInv, pc # "idle", SameFrames
  PROVE  /\ \A tx : OnStack(stack, tx) => OnStack(stack', tx)
         /\ Frame'.tx = Frame.tx
BY StackType DEF OnStack, SameFrames, Frame

LEMMA KeptFrames ==
  ASSUME UNCHANGED stack PROVE SameFrames
BY DEF SameFrames

(* An entry of the run that leaves it in place or lets it return. *)
LEMMA CloseRecord ==
  ASSUME TypeInv, CloseInv, pc \notin {"idle", "close"}, SameFrames,
         NEW e \in Entries, Record(e), e.tx = Frame.tx, e.outcome # "completed",
         pc' # "close" =>
           /\ \A x \in Entries : Behind(x, pc, Frame.tx, attempt)
                                   => Behind(x, pc', Frame.tx, attempt')
           /\ e.nonce # NoNonce => Behind(e, pc', Frame.tx, attempt'),
         pc' = "close" => /\ outcome' # None
                          /\ outcome' = "completed" => e.result = "success"
  PROVE  CloseInv'
<1>1. /\ \A tx : OnStack(stack, tx) => OnStack(stack', tx)
      /\ Frame'.tx = Frame.tx
  BY OnSameFrames
<1>2. OnStack(stack', Frame.tx)
  BY <1>1, OnFrame
<1>3. /\ CompletedDelivered' /\ Closing'
      /\ e.result = "success" => Delivered(ledger', e.tx)
  BY <1>1, <1>2, CloseEntry
<1>4. Returning'
  BY <1>1, <1>3 DEF Returning
<1>5. QED  BY <1>3, <1>4 DEF CloseInv

(* The entries the machine writes. *)
LEMMA EntriesOfFrame ==
  ASSUME ConstantsAssumption, TypeInv, pc # "idle"
  PROVE  /\ FrameEntry \in Entries
         /\ FrameEntry.tx = Frame.tx /\ FrameEntry.outcome = None
         /\ FrameEntry.nonce = NoNonce /\ FrameEntry.status = None
BY FrameType DEF TypeInv, FrameEntry, Entry

(* Payments behind the machine stay behind it, and so does the one it makes.  *)
Shifts ==
  pc' # "close" =>
    \A x \in Entries : Behind(x, pc, Frame.tx, attempt)
                         \/ (pc = "paying" /\ x.tx = Frame.tx /\ x.attempt = attempt)
                       => Behind(x, pc', Frame.tx, attempt')

LEMMA CloseStep ==
  ASSUME ConstantsAssumption, TypeInv, TypeInv', MoneyInv, BooksInv, Chain, CloseInv,
         [Next]_vars
  PROVE  CloseInv'
<1>1. ASSUME UNCHANGED <<ledger, machineVars>> PROVE CloseInv'
  BY <1>1 DEF machineVars, CloseInv, CompletedDelivered, Returning, Closing, Settled, Open,
     Frame
<1>2. ASSUME NEW task \in Tasks, NEW tx \in Submitted, Run(task, tx)
      PROVE  CloseInv'
  <2>1. pc = "idle" /\ UNCHANGED ledger /\ pc' = "discover"
    BY <1>2 DEF Run
  <2>2. \A i \in Settled : ~OnStack(stack, ledger[i].tx)
    BY <2>1, StackType DEF OnStack
  <2>3. \A i \in Settled : Closed(ledger, i) \/ Usurped(ledger, i)
    BY <2>2 DEF CloseInv, Closing, Open
  <2>4. QED
    BY <2>1, <2>3 DEF CloseInv, CompletedDelivered, Returning, Closing, Settled
<1>3. ASSUME pc \notin {"idle", "close"}, SameFrames, UNCHANGED ledger,
             pc' = "close", outcome' \notin {None, "completed"}
      PROVE  CloseInv'
  BY <1>3, OnSameFrames, CloseQuiet
<1>4. CASE TooDeep \/ NoCandidate \/ PayRetriesExhausted
  BY <1>3, <1>4, KeptFrames DEF TooDeep, NoCandidate, PayRetriesExhausted, Finish, None
<1>5. CASE \E s \in Services : ServiceDisabled(s)
  BY <1>3, <1>5, SelectedFrames DEF ServiceDisabled, Selected, Finish, None
<1>6. ASSUME NEW s \in Services, NEW d \in Decisions, CheckSpendPolicy(s, d),
             \/ pc' = "close" /\ outcome' \notin {None, "completed"}
             \/ pc' = "pay"
      PROVE  CloseInv'
  <2> DEFINE blank == Entry(Frame.tx, s, now)
             e == [blank EXCEPT !.price = PriceCents[s], !.decision = d]
  <2>1. pc = "discover" /\ Record(e) /\ SameFrames
    BY <1>6, SelectedFrames DEF CheckSpendPolicy, Selected
  <2>2. Frame.tx \in Txs /\ now \in Nat /\ PriceCents[s] \in Nat
    BY <2>1, FrameType DEF TypeInv, TypeOK, ConstantsAssumption
  <2>3. /\ blank \in Entries /\ blank.tx = Frame.tx /\ blank.nonce = NoNonce
        /\ blank.outcome = None
    BY <2>2, BlankEntry DEF Entry
  <2>4. e \in Entries /\ e.tx = Frame.tx /\ e.nonce = NoNonce /\ e.outcome = None
    <3> HIDE DEF blank
    <3>1. QED  BY <2>2, <2>3 DEF Entries
  <2> HIDE DEF e
  <2>5. \A x : Behind(x, pc, Frame.tx, attempt) => Behind(x, "pay", Frame.tx, attempt')
    BY <2>1 DEF Behind
  <2>6. QED  BY <1>6, <2>1, <2>4, <2>5, CloseRecord DEF None
<1>7. CASE \E s \in Services, d \in Decisions : PolicyRejects(s, d)
  BY <1>6, <1>7 DEF PolicyRejects, Finish, None
<1>8. CASE \E s \in Services : PolicyAccepts(s)
  BY <1>6, <1>8 DEF PolicyAccepts, Decisions
<1>9. ASSUME pc \in {"pay"} \cup Inside, UNCHANGED stack,
             NEW d \in Decisions \cup {None}, NEW n \in (Txs \X Nat) \cup {NoNonce},
             NEW s \in Statuses \cup {None}, NEW o \in Outcomes \cup {None},
             Record(PaymentEntry(d, n, s, o)), o # "completed",
             pc' = "close" => outcome' \notin {None, "completed"},
             pc' # "close" => n = NoNonce \/ pc = "paying",
             Shifts
      PROVE  CloseInv'
  <2> DEFINE e == PaymentEntry(d, n, s, o)
  <2>0. FrameEntry \in Entries /\ FrameEntry.tx = Frame.tx
        /\ attempt \in Nat /\ PriceCents[Frame.service] \in Nat
    <3>1. pc # "idle" /\ pc \in {"pay"} \cup Inside
      BY <1>9 DEF Inside
    <3>2. QED
      BY <3>1, EntriesOfFrame DEF TypeInv, TypeOK, ServiceChosen, ConstantsAssumption
  <2>1. /\ e \in Entries /\ e.tx = Frame.tx /\ e.attempt = attempt
        /\ e.nonce = n /\ e.outcome = o
    BY <1>9, <2>0 DEF PaymentEntry, Entries
  <2>2. Record(e) /\ pc \notin {"idle", "close"} /\ SameFrames
    BY <1>9, KeptFrames DEF Inside
  <2> HIDE DEF e
  <2>3. pc' # "close" =>
          /\ \A x \in Entries : Behind(x, pc, Frame.tx, attempt)
                                  => Behind(x, pc', Frame.tx, attempt')
          /\ e.nonce # NoNonce => Behind(e, pc', Frame.tx, attempt')
    BY <1>9, <2>1 DEF Shifts
  <2>4. QED  BY <1>9, <2>1, <2>2, <2>3, CloseRecord
<1>10. CASE PayKilled
  BY <1>9, <1>10 DEF PayKilled, PayTurn, Finish, Decisions, Outcomes, None, Shifts
<1>11. CASE DuplicatePrevented
  BY <1>9, <1>11 DEF DuplicatePrevented, PayTurn, Finish, Decisions, Outcomes, None, Shifts
<1>12. CASE IssuePayment
  <2>1. \A x : Behind(x, "pay", Frame.tx, attempt) => Behind(x, "paying", Frame.tx, attempt)
    BY DEF Behind
  <2>2. QED
    BY <1>12, <2>1, CloseQuiet DEF IssuePayment, PayTurn, Frame
<1>13. attempt \in Nat /\ \A x \in Entries : x.attempt \in Nat /\ x.tx[2] \in Nat
  BY DEF TypeInv, TypeOK, Entries, Txs
<1>14. pc \in Inside => Nonce \in Txs \X Nat /\ Frame.tx[2] \in Nat
  BY NonceType, OnFrame DEF Inside
<1>15. CASE PaymentSettled
  <2>1. Shifts
    BY <1>13, <1>14, <1>15 DEF PaymentSettled, Shifts, Behind
  <2>2. QED
    BY <1>9, <1>14, <1>15, <2>1
       DEF PaymentSettled, RecordPayment, Inside, Decisions, Statuses, None
<1>16. CASE PaymentFailed
  <2>1. Shifts
    BY <1>13, <1>14, <1>16 DEF PaymentFailed, Shifts, Behind
  <2>2. QED
    BY <1>9, <1>14, <1>16, <2>1
       DEF PaymentFailed, RecordPayment, Inside, Decisions, Statuses, None
<1>17. CASE PaymentAmbiguous
  <2>1. Shifts
    BY <1>13, <1>14, <1>17 DEF PaymentAmbiguous, Shifts, Behind
  <2>2. QED
    BY <1>9, <1>14, <1>17, <2>1
       DEF PaymentAmbiguous, RecordPayment, Inside, Decisions, Statuses, None
<1>18. CASE SettlementVerified
  <2>1. Shifts
    BY <1>13, <1>14, <1>18 DEF SettlementVerified, Shifts, Behind
  <2>2. QED
    BY <1>9, <1>18, <2>1
       DEF SettlementVerified, RecordVerification, Inside, Statuses, None
<1>19. CASE FailureVerified
  <2>1. Shifts
    BY <1>13, <1>14, <1>19 DEF FailureVerified, Shifts, Behind
  <2>2. QED
    BY <1>9, <1>19, <2>1
       DEF FailureVerified, RecordVerification, Inside, Statuses, None
<1>20. CASE TransferLands \/ FlipKillSwitch \/ Tick \/ \E s \in Services : ToggleService(s)
  BY <1>1, <1>20 DEF TransferLands, FlipKillSwitch, Tick, ToggleService
<1>21. CASE NonceReuseThrows
  <2>1. /\ pc = "pay" /\ CanIssuePayment(ledger, Frame.tx) /\ NonceUsed(ledger, Nonce)
        /\ UNCHANGED ledger /\ pc' = "idle"
    BY <1>21 DEF NonceReuseThrows, PayTurn
  <2>2. PICK j \in DOMAIN ledger : ledger[j].nonce = <<Frame.tx, attempt>>
    BY <2>1 DEF NonceUsed, Nonce
  <2>3. ledger[j].nonce # NoNonce
    BY <2>2 DEF NoNonce
  <2>4. ledger[j].tx = Frame.tx /\ ledger[j].attempt = attempt
    <3>1. ledger[j].nonce = <<ledger[j].tx, ledger[j].attempt>>
      BY <2>3 DEF BooksInv, Books, NoncesSpelled
    <3>2. <<ledger[j].tx, ledger[j].attempt>> = <<Frame.tx, attempt>>
      BY <2>2, <3>1
    <3>3. QED  BY <3>2
  <2>5. DOMAIN ledger = 1 .. Len(ledger) /\ Len(ledger) \in Nat
    BY LenProperties DEF TypeInv, TypeOK
  <2>6. ASSUME NEW i \in Settled, Open(i) PROVE Usurped(ledger, i)
    <3>1. PICK k \in DOMAIN stack : stack[k].tx = ledger[i].tx
      BY <2>6 DEF Open, OnStack
    <3>2. ledger[i].tx # Frame.tx
      BY <2>1 DEF MoneyInv, LedgerInv, SettledBlocks
    <3>3. /\ DOMAIN stack = 1 .. Len(stack) /\ Len(stack) \in DOMAIN stack
          /\ Len(stack) \in Nat /\ 1 \in DOMAIN stack /\ stack[1].tx[2] \in Nat
      BY <2>1, StackType
    <3>4. k # Len(stack) /\ k \in Nat /\ k < Len(stack)
      BY <3>1, <3>2, <3>3 DEF Frame
    <3>5. /\ Frame.tx[1] = stack[1].tx[1] /\ Frame.tx[2] = stack[1].tx[2] + Len(stack) - 1
          /\ ledger[i].tx[1] = stack[1].tx[1] /\ ledger[i].tx[2] = stack[1].tx[2] + k - 1
      BY <3>1, <3>3 DEF Chain, Frame
    <3>6. ledger[j].tx[1] = ledger[i].tx[1] /\ ledger[j].tx[2] > ledger[i].tx[2]
      BY <2>4, <3>3, <3>4, <3>5
    <3>7. ~Behind(ledger[j], pc, Frame.tx, attempt)
      BY <1>13, <2>1, <2>4, <3>3, <3>4, <3>5 DEF Behind
    <3>8. ~(i < j)
      BY <2>1, <2>3, <2>6, <3>7 DEF Open
    <3>9. j \in 1 .. (i - 1)
      BY <2>4, <2>5, <3>2, <3>8 DEF Settled
    <3>10. QED  BY <2>3, <3>6, <3>9 DEF Usurped
  <2>7. \A i \in Settled : Closed(ledger, i) \/ Usurped(ledger, i)
    BY <2>6 DEF CloseInv, Closing
  <2>8. QED
    BY <2>1, <2>7 DEF CloseInv, CompletedDelivered, Returning, Closing, Settled
<1>22. ASSUME pc = "consuming", NEW r \in Results, RecordService(r)
       PROVE  \E e \in Entries : /\ Record(e) /\ e.tx = Frame.tx /\ e.outcome = None
                                  /\ e.nonce = NoNonce /\ e.status = None /\ e.result = r
  <2> DEFINE e == [FrameEntry EXCEPT !.result = r]
  <2>1. /\ FrameEntry \in Entries
        /\ FrameEntry.tx = Frame.tx /\ FrameEntry.outcome = None
        /\ FrameEntry.nonce = NoNonce /\ FrameEntry.status = None
    BY <1>22, EntriesOfFrame
  <2>2. /\ e \in Entries /\ e.tx = Frame.tx /\ e.outcome = None
        /\ e.nonce = NoNonce /\ e.status = None /\ e.result = r
    BY <2>1 DEF Entries
  <2>3. Record(e)
    BY <1>22 DEF RecordService
  <2> HIDE DEF e
  <2>4. QED  BY <2>2, <2>3
<1>23. ASSUME pc = "consuming", UNCHANGED stack, NEW r \in Results, RecordService(r),
              \/ pc' = "consuming"
              \/ /\ pc' = "close" /\ outcome' # None
                 /\ outcome' = "completed" => r = "success"
       PROVE  CloseInv'
  <2>1. PICK e \in Entries : /\ Record(e) /\ e.tx = Frame.tx /\ e.outcome = None
                             /\ e.nonce = NoNonce /\ e.status = None /\ e.result = r
    BY <1>22, <1>23
  <2>2. SameFrames
    BY <1>23, KeptFrames
  <2>3. \A x : Behind(x, "consuming", Frame.tx, attempt)
                => Behind(x, "consuming", Frame.tx, attempt')
    BY DEF Behind
  <2>4. QED  BY <1>23, <2>1, <2>2, <2>3, CloseRecord DEF None
<1>24. CASE ServiceSucceeds \/ ServiceFails
  BY <1>23, <1>24 DEF ServiceSucceeds, ServiceFails, Finish, Results, None
<1>25. CASE ServiceFatal
  <2>1. CASE UNCHANGED stack
    <3>1. pc = "consuming" /\ "fatal" \in Results /\ RecordService("fatal")
      BY <1>25 DEF ServiceFatal, Results
    <3>2. (pc' = "close" /\ outcome' = "escalated") \/ pc' = "discover"
      BY <1>25 DEF ServiceFatal, Finish
    <3>3. pc' # "discover"
      <4>1. SUFFICES ASSUME pc' = "discover" PROVE FALSE
        OBVIOUS
      <4>2. stack' = Append(stack, [task |-> Frame.task,
                                    tx |-> <<Frame.tx[1], Frame.tx[2] + 1>>,
                                    exclude |-> Frame.service, service |-> NoService])
        BY <1>25, <4>1 DEF ServiceFatal, Finish
      <4>3. Len(stack') = Len(stack) + 1 /\ Len(stack) \in Nat
        BY <3>1, <4>2, FatalFrames, StackType
      <4>4. QED  BY <2>1, <4>3
    <3>4. QED  BY <1>23, <2>1, <3>1, <3>2, <3>3 DEF None
  <2>2. CASE ~UNCHANGED stack
    <3>1. pc = "consuming" /\ pc' = "discover" /\ "fatal" \in Results
          /\ RecordService("fatal")
      BY <1>25, <2>2 DEF ServiceFatal, Results
    <3>2. /\ Len(stack') = Len(stack) + 1
          /\ DOMAIN stack' = DOMAIN stack \cup {Len(stack) + 1}
          /\ \A k \in DOMAIN stack : stack'[k] = stack[k]
          /\ stack'[Len(stack) + 1].tx = <<Frame.tx[1], Frame.tx[2] + 1>>
      BY <1>25, <2>2, FatalFrames DEF ServiceFatal
    <3>3. PICK e \in Entries : /\ Record(e) /\ e.tx = Frame.tx /\ e.outcome = None
                               /\ e.nonce = NoNonce /\ e.status = None
      BY <1>22, <3>1
    <3>4. \A tx : OnStack(stack, tx) => OnStack(stack', tx)
      BY <3>2 DEF OnStack
    <3>5. Frame.tx[2] \in Nat /\ Frame'.tx[2] = Frame.tx[2] + 1
      BY <3>1, <3>2, OnFrame DEF Frame
    <3>6. \A x \in Entries : Behind(x, pc, Frame.tx, attempt)
                               => Behind(x, pc', Frame'.tx, attempt')
      BY <1>13, <3>5 DEF Behind
    <3>7. CompletedDelivered' /\ Closing'
      BY <3>1, <3>3, <3>4, <3>6, CloseEntry DEF None
    <3>8. QED  BY <3>1, <3>7 DEF CloseInv, Returning
  <2>3. QED  BY <2>1, <2>2
<1>26. CASE Close
  <2> DEFINE e == [FrameEntry EXCEPT !.outcome = outcome]
  <2>1. /\ pc = "close" /\ Record(e) /\ outcome # None
        /\ outcome = "completed" => Delivered(ledger, Frame.tx)
        /\ stack' = SubSeq(stack, 1, Len(stack) - 1)
    BY <1>26 DEF Close, CloseInv, Returning
  <2>2. /\ FrameEntry \in Entries /\ outcome \in Outcomes \cup {None}
        /\ FrameEntry.tx = Frame.tx /\ FrameEntry.status = None
    BY <2>1, EntriesOfFrame DEF TypeInv, TypeOK
  <2>3. e \in Entries /\ e.tx = Frame.tx /\ e.outcome = outcome /\ e.status = None
    BY <2>2 DEF Entries
  <2> HIDE DEF e
  <2>4. /\ Len(stack') = Len(stack) - 1
        /\ DOMAIN stack' = 1 .. Len(stack) - 1
        /\ \A k \in DOMAIN stack' : k \in DOMAIN stack /\ stack'[k] = stack[k]
        /\ DOMAIN stack = 1 .. Len(stack) /\ Len(stack) \in Nat
        /\ Len(stack) \in DOMAIN stack /\ 1 \in DOMAIN stack /\ stack[1].tx[2] \in Nat
    BY <2>1, PoppedFrames, StackType
  <2>5. \A tx : OnStack(stack, tx) => OnStack(stack', tx) \/ tx = Frame.tx
    BY <2>4 DEF OnStack, Frame
  <2>6. \/ Len(stack) > 1 /\ UNCHANGED <<pc, outcome>>
        \/ Len(stack) = 1 /\ pc' = "idle"
    BY <1>26 DEF Close
  <2>7. /\ CompletedDelivered' /\ Closing'
        /\ \A tx : Delivered(ledger, tx) => Delivered(ledger', tx)
    BY <2>1, <2>3, <2>5, <2>6, CloseEntry DEF None
  <2>8. CASE Len(stack) > 1 /\ UNCHANGED <<pc, outcome>>
    <3>1. Frame'.tx[1] = Frame.tx[1] /\ Frame'.tx[2] <= Frame.tx[2] /\ Frame'.tx[2] \in Nat
          /\ Frame.tx[2] \in Nat
      <4>1. Len(stack') \in DOMAIN stack /\ Frame' = stack[Len(stack')]
        BY <2>4, <2>8 DEF Frame
      <4>2. /\ Frame'.tx[1] = stack[1].tx[1]
            /\ Frame'.tx[2] = stack[1].tx[2] + Len(stack') - 1
            /\ Frame.tx[1] = stack[1].tx[1]
            /\ Frame.tx[2] = stack[1].tx[2] + Len(stack) - 1
        BY <2>4, <4>1 DEF Chain, Frame
      <4>3. QED  BY <2>4, <2>8, <4>2
    <3>2. Delivered(ledger, Frame.tx) => Delivered(ledger, Frame'.tx)
      <4>1. \A j \in DOMAIN ledger : ledger[j].tx[2] \in Nat
        <5>1. \A j \in DOMAIN ledger : ledger[j] \in Entries
          BY ElementOfSeq, LenProperties DEF TypeInv, TypeOK
        <5>2. QED  BY <1>13, <5>1
      <4>2. QED  BY <3>1, <4>1 DEF Delivered
    <3>3. QED  BY <2>1, <2>7, <2>8, <3>2 DEF CloseInv, Returning
  <2>9. CASE Len(stack) = 1 /\ pc' = "idle"
    BY <2>7, <2>9 DEF CloseInv, Returning
  <2>10. QED  BY <2>6, <2>8, <2>9
<1>27. QED
  BY <1>1, <1>2, <1>4, <1>5, <1>7, <1>8, <1>10, <1>11, <1>12, <1>15, <1>16, <1>17, <1>18,
     <1>19, <1>20, <1>21, <1>24, <1>25, <1>26
  DEF Next, Machine, Environment, Discover, Pay, WorldAnswers, vars

LEMMA CloseInit == Init => CloseInv
BY DEF Init, CloseInv, CompletedDelivered, Returning, Closing, Settled

LEMMA CloseInvariant == Spec => [](TypeInv /\ CloseInv)
<1>1. Init => CloseInv
  BY CloseInit
<1>2. /\ TypeInv /\ MoneyInv /\ BooksInv /\ Chain /\ CloseInv /\ TypeInv' /\ [Next]_vars
        => CloseInv'
  BY CloseStep, ConstantsAssumption
<1>3. QED BY <1>1, <1>2, MoneyInvariant, BooksInvariant, ChainInvariant, PTL DEF Spec

-----------------------------------------------------------------------------
(* state-machine.ts, final("completed"): a transaction closed as completed  *)
(* was delivered, by its own service or by the one of an alternative, even  *)
(* when its id is run again or is that of an alternative.                   *)
THEOREM CompletionsDelivered == Spec => []CompletedDelivered
<1>1. CloseInv => CompletedDelivered BY DEF CloseInv
<1>2. QED BY <1>1, CloseInvariant, PTL

(* state-machine.ts, final(): between runs no settled payment is left       *)
(* without a closing entry, but where the nonce-reuse throw met an id that  *)
(* a caller had paid under before.                                          *)
THEOREM PaymentsGetClosed == Spec => []PaymentsClosed
<1>1. TypeInv /\ CloseInv => PaymentsClosed
  BY StackType DEF CloseInv, Closing, Open, OnStack, Closed, Usurped, PaymentsClosed
<1>2. QED BY <1>1, CloseInvariant, PTL
-----------------------------------------------------------------------------
(* The settled spend of a period is a total over entries of the ledger. *)
Prices(l) == [i \in DOMAIN l |-> l[i].price]
SettledWithin(l, since, until) ==
  {i \in DOMAIN l : l[i].status = "settled" /\ l[i].at \in since .. until}

LEMMA SpendIsTotal ==
  ASSUME NEW l \in Seq(Entries), NEW a, NEW b
  PROVE  /\ IsFiniteSet(SettledWithin(l, a, b))
         /\ \A i \in SettledWithin(l, a, b) : Prices(l)[i] \in Nat
         /\ SettledSpendCents(l, a, b) = Total(SettledWithin(l, a, b), Prices(l))
<1> DEFINE S == SettledWithin(l, a, b)
           Priced(g) == g = [s \in SUBSET S |->
              IF s = {} THEN 0 ELSE l[Taken(s)].price + g[s \ {Taken(s)}]]
<1>1. S \subseteq DOMAIN l /\ DOMAIN l = 1 .. Len(l) /\ Len(l) \in Nat
  BY DEF SettledWithin
<1>2. IsFiniteSet(S) /\ \A i \in S : Prices(l)[i] = l[i].price /\ Prices(l)[i] \in Nat
  <2>1. IsFiniteSet(1 .. Len(l))
    BY <1>1, FS_Interval
  <2>2. IsFiniteSet(S)
    BY <1>1, <2>1, FS_Subset
  <2>3. \A i \in DOMAIN l : l[i] \in Entries
    BY <1>1, ElementOfSeq
  <2>4. \A i \in DOMAIN l : l[i].price \in Nat
    BY <2>3 DEF Entries
  <2>5. QED  BY <1>1, <2>2, <2>4 DEF Prices
<1>3. ASSUME NEW g PROVE Priced(g) <=> Computes(g, S, Prices(l))
  <2>1. \A s \in SUBSET S :
          (IF s = {} THEN 0 ELSE l[Taken(s)].price + g[s \ {Taken(s)}])
          = (IF s = {} THEN 0 ELSE Prices(l)[Taken(s)] + g[s \ {Taken(s)}])
    BY <1>2, TakenIsElement
  <2> HIDE DEF S
  <2>2. [s \in SUBSET S |-> IF s = {} THEN 0 ELSE l[Taken(s)].price + g[s \ {Taken(s)}]]
        = [s \in SUBSET S |-> IF s = {} THEN 0 ELSE Prices(l)[Taken(s)] + g[s \ {Taken(s)}]]
    BY <2>1
  <2>3. QED  BY <2>2 DEF Computes
<1> DEFINE g == CHOOSE g : Priced(g)
<1>4. Priced(g)
  <2>1. \E h : Priced(h)
    BY <1>2, <1>3, ComputationExists
  <2> HIDE DEF Priced
  <2>2. QED  BY <2>1, Zenon
<1>5. SettledSpendCents(l, a, b) = g[S]
  BY Zenon DEF SettledSpendCents, MapThenSumSet, MapThenFoldSet, Taken, SettledWithin
<1>6. PICK h : Computes(h, S, Prices(l)) /\ Total(S, Prices(l)) = h[S]
  <2>1. \E h : Computes(h, S, Prices(l))
    BY <1>2, ComputationExists
  <2> HIDE DEF S
  <2>2. QED  BY <2>1, TotalComputed
<1>7. g[S] = h[S]
  <2>1. Computes(g, S, Prices(l))
    BY <1>3, <1>4
  <2> HIDE DEF g, S
  <2>2. QED  BY <1>2, <1>6, <2>1, ComputationsAgree
<1>8. QED  BY <1>2, <1>5, <1>6, <1>7
-----------------------------------------------------------------------------
LEMMA SpendType ==
  ASSUME NEW l \in Seq(Entries), NEW a, NEW b
  PROVE  SettledSpendCents(l, a, b) \in Nat
BY SpendIsTotal, TotalType

(* What counts is which entries lie within the period. *)
LEMMA SpendWithin ==
  ASSUME NEW l \in Seq(Entries), NEW a, NEW b, NEW c, NEW d,
         \A i \in DOMAIN l : l[i].at \in a .. b <=> l[i].at \in c .. d
  PROVE  SettledSpendCents(l, a, b) = SettledSpendCents(l, c, d)
<1>1. SettledWithin(l, a, b) = SettledWithin(l, c, d)
  BY DEF SettledWithin
<1>2. QED  BY <1>1, SpendIsTotal

LEMMA SpendAppend ==
  ASSUME NEW l \in Seq(Entries), NEW e \in Entries, NEW a, NEW b
  PROVE  SettledSpendCents(Append(l, e), a, b)
           = SettledSpendCents(l, a, b)
             + (IF e.status = "settled" /\ e.at \in a .. b THEN e.price ELSE 0)
<1> DEFINE m == Append(l, e)
           last == Len(l) + 1
           S == SettledWithin(l, a, b)
           T == SettledWithin(m, a, b)
<1>1. /\ m \in Seq(Entries) /\ DOMAIN m = DOMAIN l \cup {last} /\ last \notin DOMAIN l
      /\ \A i \in DOMAIN l : m[i] = l[i]
      /\ m[last] = e
  BY AppendEntry
<1> HIDE DEF m, last
<1>2. /\ IsFiniteSet(S) /\ \A i \in S : Prices(l)[i] \in Nat
      /\ \A i \in T : Prices(m)[i] \in Nat
      /\ SettledSpendCents(l, a, b) = Total(S, Prices(l))
      /\ SettledSpendCents(m, a, b) = Total(T, Prices(m))
  BY <1>1, SpendIsTotal
<1>3. T = IF e.status = "settled" /\ e.at \in a .. b THEN S \cup {last} ELSE S
  BY <1>1 DEF SettledWithin
<1>4. /\ last \notin S /\ Prices(m)[last] = e.price
      /\ \A i \in S : Prices(m)[i] = Prices(l)[i]
  BY <1>1 DEF SettledWithin, Prices
<1> HIDE DEF S, T
<1>5. Total(S, Prices(m)) = Total(S, Prices(l)) /\ Total(S, Prices(l)) \in Nat
  BY <1>2, <1>4, TotalSame, TotalType
<1>6. CASE e.status = "settled" /\ e.at \in a .. b
  <2>1. T = S \cup {last}
    BY <1>3, <1>6
  <2>2. Total(T, Prices(m)) = Total(S, Prices(m)) + Prices(m)[last]
    BY <1>2, <1>4, <2>1, TotalWith
  <2>3. QED  BY <1>2, <1>4, <1>5, <1>6, <2>2 DEF m
<1>7. CASE ~(e.status = "settled" /\ e.at \in a .. b)
  BY <1>2, <1>3, <1>5, <1>7 DEF m
<1>8. QED  BY <1>6, <1>7

(* The day or month of t, in a calendar of periods of length D. *)
PeriodStart(t, D) == t - (t % D)

LEMMA PeriodAround ==
  ASSUME NEW D \in Nat \ {0}, NEW t \in Nat
  PROVE  /\ PeriodStart(t, D) \in Nat
         /\ PeriodStart(t, D) <= t /\ t <= PeriodStart(t, D) + D - 1
BY DEF PeriodStart

(* Two periods are the same, or one ends before the other begins.           *)
LEMMA PeriodsApart ==
  ASSUME NEW D \in Nat \ {0}, NEW t \in Nat, NEW u \in Nat, t <= u
  PROVE  \/ PeriodStart(t, D) = PeriodStart(u, D)
         \/ PeriodStart(t, D) + D - 1 < PeriodStart(u, D)
<1> DEFINE a == t \div D
           b == u \div D
<1>1. /\ a \in Int /\ b \in Int
      /\ PeriodStart(t, D) = D * a /\ PeriodStart(u, D) = D * b
  BY DEF PeriodStart
<1>2. u <= D * b + D - 1 /\ D * a <= t
  BY <1>1, PeriodAround
<1> HIDE DEF a, b
<1>3. D * a \in Int /\ D * b \in Int
  BY <1>1
<1>4. CASE a = b
  BY <1>1, <1>4
<1>5. CASE a < b
  <2>1. D * (a + 1) <= D * b /\ D * (a + 1) = D * a + D
    BY <1>1, <1>5
  <2>2. QED  BY <1>1, <1>3, <2>1
<1>6. CASE b < a
  <2>1. D * (b + 1) <= D * a /\ D * (b + 1) = D * b + D
    BY <1>1, <1>6
  <2>2. QED  BY <1>2, <1>3, <2>1
<1>7. QED  BY <1>1, <1>4, <1>5, <1>6
-----------------------------------------------------------------------------
(* No entry is from the future. *)
Stamped == \A i \in DOMAIN ledger : ledger[i].at <= now

(* The ceiling of every period of length D. *)
Within(l, t, D, cap) == SettledSpendCents(l, PeriodStart(t, D), PeriodStart(t, D) + D - 1) <= cap
AlwaysWithin(l, upTo, D, cap) == \A t \in 0 .. upTo : Within(l, t, D, cap)

(* What checkSpendPolicy has found stays true until the payment settles:    *)
(* the price fits under both ceilings.                                      *)
Fits(l, t, D, cap, price) == SettledSpendCents(l, PeriodStart(t, D), t) + price <= cap
Headroom ==
  pc \in {"pay", "paying", "verifying"} =>
    /\ Fits(ledger, now, DayLength, DailyCents, PriceCents[Frame.service])
    /\ Fits(ledger, now, MonthLength, MonthlyCents, PriceCents[Frame.service])

SpendInv == Stamped /\ CeilingsHold /\ Headroom

LEMMA CeilingsAre ==
  CeilingsHold <=> /\ AlwaysWithin(ledger, now, DayLength, DailyCents)
                   /\ AlwaysWithin(ledger, now, MonthLength, MonthlyCents)
BY DEF CeilingsHold, AlwaysWithin, Within, PeriodStart, DayStart, MonthStart

(* A tick opens at most a period in which nothing is spent. *)
LEMMA TickWithin ==
  ASSUME NEW l \in Seq(Entries), NEW t \in Nat, \A i \in DOMAIN l : l[i].at <= t,
         NEW D \in Nat \ {0}, NEW cap \in Nat, AlwaysWithin(l, t, D, cap)
  PROVE  AlwaysWithin(l, t + 1, D, cap)
<1> DEFINE start == PeriodStart(t, D)
           next == PeriodStart(t + 1, D)
<1>1. /\ next <= t + 1 /\ start \in Nat /\ next \in Nat
      /\ start = next \/ start + D - 1 < next
      /\ t <= start + D - 1
  <2>1. t + 1 \in Nat /\ t <= t + 1
    OBVIOUS
  <2>2. start \in Nat /\ t <= start + D - 1
    BY PeriodAround
  <2>3. next \in Nat /\ next <= t + 1
    BY <2>1, PeriodAround
  <2>4. start = next \/ start + D - 1 < next
    BY <2>1, PeriodsApart
  <2>5. QED  BY <2>2, <2>3, <2>4
<1>2. CASE start = next
  <2>1. Within(l, t, D, cap)
    BY DEF AlwaysWithin
  <2>2. Within(l, t + 1, D, cap)
    BY <1>2, <2>1 DEF Within
  <2>3. QED  BY <2>2 DEF AlwaysWithin
<1>3. CASE start + D - 1 < next
  <2>1. next = t + 1
    BY <1>1, <1>3
  <2>2. SettledWithin(l, next, next + D - 1) = {}
    <3>1. \A i \in DOMAIN l : l[i].at \in Nat
      <4>1. \A i \in DOMAIN l : l[i] \in Entries
        BY ElementOfSeq
      <4>2. QED  BY <4>1 DEF Entries
    <3> HIDE DEF next
    <3>2. QED  BY <2>1, <3>1 DEF SettledWithin
  <2>3. SettledSpendCents(l, next, next + D - 1) = 0
    <3> HIDE DEF next
    <3>1. IsFiniteSet({})
      BY FS_EmptySet
    <3>2. Total({}, Prices(l)) = 0
      BY <3>1, TotalTaken
    <3>3. QED  BY <2>2, <3>2, SpendIsTotal
  <2>4. Within(l, t + 1, D, cap)
    BY <2>3 DEF Within
  <2>5. QED  BY <2>4 DEF AlwaysWithin
<1>4. QED  BY <1>1, <1>2, <1>3

(* An entry of today leaves the periods that are over as they were, and the *)
(* current one within its ceiling if it fits.                               *)
LEMMA AppendWithin ==
  ASSUME NEW l \in Seq(Entries), NEW t \in Nat, \A i \in DOMAIN l : l[i].at <= t,
         NEW e \in Entries, e.at = t,
         NEW D \in Nat \ {0}, NEW cap \in Nat, AlwaysWithin(l, t, D, cap),
         e.status = "settled" => Fits(l, t, D, cap, e.price)
  PROVE  AlwaysWithin(Append(l, e), t, D, cap)
<1> SUFFICES ASSUME NEW u \in 0 .. t PROVE Within(Append(l, e), u, D, cap)
  BY DEF AlwaysWithin
<1> DEFINE start == PeriodStart(t, D)
           from == PeriodStart(u, D)
           to == from + D - 1
           before == SettledSpendCents(l, from, to)
           after == SettledSpendCents(Append(l, e), from, to)
<1>1. before \in Nat /\ before <= cap
  BY SpendType DEF AlwaysWithin, Within
<1>2. /\ from \in Nat /\ to \in Int /\ from <= u /\ start \in Nat /\ start <= t
      /\ t <= start + D - 1
      /\ from = start \/ to < start
  <2>1. u \in Nat /\ u <= t
    OBVIOUS
  <2>2. start \in Nat /\ start <= t /\ t <= start + D - 1
    BY PeriodAround
  <2>3. from \in Nat /\ from <= u
    BY <2>1, PeriodAround
  <2>4. from = start \/ to < start
    BY <2>1, PeriodsApart
  <2>5. QED  BY <2>2, <2>3, <2>4
<1>3. after = before + (IF e.status = "settled" /\ e.at \in from .. to THEN e.price ELSE 0)
  BY SpendAppend
<1>4. CASE e.status = "settled" /\ e.at \in from .. to
  <2>1. from = start
    BY <1>2, <1>4
  <2>2. \A i \in DOMAIN l : l[i].at \in start .. t <=> l[i].at \in from .. to
    <3>1. \A i \in DOMAIN l : l[i].at \in Nat
      <4>1. \A i \in DOMAIN l : l[i] \in Entries
        BY ElementOfSeq
      <4>2. QED  BY <4>1 DEF Entries
    <3> HIDE DEF from, start
    <3>2. QED  BY <1>2, <2>1, <3>1
  <2>3. SettledSpendCents(l, start, t) = before
    <3> HIDE DEF start, from, to
    <3>1. QED  BY <2>2, SpendWithin
  <2>4. before + e.price <= cap
    BY <1>4, <2>3 DEF Fits
  <2> HIDE DEF before, after, from, to
  <2>5. after <= cap
    BY <1>3, <1>4, <2>4
  <2>6. QED  BY <2>5 DEF Within, after, to, from
<1>5. CASE ~(e.status = "settled" /\ e.at \in from .. to)
  <2> HIDE DEF before, after, from, to
  <2>1. after <= cap
    BY <1>1, <1>3, <1>5
  <2>2. QED  BY <2>1 DEF Within, after, to, from
<1>6. QED  BY <1>4, <1>5
-----------------------------------------------------------------------------
Paying == {"pay", "paying", "verifying"}

(* A step that writes nothing and does not enter the pay loop. *)
LEMMA QuietSpend ==
  ASSUME SpendInv, UNCHANGED <<ledger, now>>,
         pc' \in Paying => pc \in Paying /\ UNCHANGED stack
  PROVE  SpendInv'
BY DEF SpendInv, Stamped, CeilingsHold, DayStart, MonthStart, Headroom, Paying, Fits, Frame

(* An entry of today keeps the ceilings if it is not settled, or fits. *)
LEMMA EntrySpend ==
  ASSUME ConstantsAssumption, TypeInv, SpendInv, NEW e \in Entries, Record(e),
         e.at = now, UNCHANGED now,
         e.status = "settled" =>
           pc \in Paying /\ e.price = PriceCents[Frame.service]
  PROVE  /\ Stamped' /\ CeilingsHold'
         /\ e.status # "settled" /\ pc \in Paying /\ pc' \in Paying /\ UNCHANGED stack
              => Headroom'
<1>1. /\ ledger \in Seq(Entries) /\ now \in Nat /\ ledger' = Append(ledger, e)
      /\ DayLength \in Nat \ {0} /\ MonthLength \in Nat \ {0}
      /\ DailyCents \in Nat /\ MonthlyCents \in Nat
  BY DEF TypeInv, TypeOK, ConstantsAssumption, Record
<1>2. Stamped'
  BY <1>1, AppendEntry DEF SpendInv, Stamped
<1>3. \A i \in DOMAIN ledger : ledger[i].at <= now
  BY DEF SpendInv, Stamped
<1>4. /\ AlwaysWithin(ledger, now, DayLength, DailyCents)
      /\ AlwaysWithin(ledger, now, MonthLength, MonthlyCents)
  BY CeilingsAre DEF SpendInv
<1>5. e.status = "settled" => /\ Fits(ledger, now, DayLength, DailyCents, e.price)
                              /\ Fits(ledger, now, MonthLength, MonthlyCents, e.price)
  BY DEF SpendInv, Headroom, Paying
<1>6. AlwaysWithin(Append(ledger, e), now, DayLength, DailyCents)
  BY <1>1, <1>3, <1>4, <1>5, AppendWithin
<1>7. AlwaysWithin(Append(ledger, e), now, MonthLength, MonthlyCents)
  BY <1>1, <1>3, <1>4, <1>5, AppendWithin
<1>8. CeilingsHold'
  BY <1>1, <1>6, <1>7
     DEF CeilingsHold, AlwaysWithin, Within, PeriodStart, DayStart, MonthStart
<1>9. ASSUME e.status # "settled", pc \in Paying, pc' \in Paying, UNCHANGED stack
      PROVE  Headroom'
  <2>1. \A a, b : SettledSpendCents(ledger', a, b) = SettledSpendCents(ledger, a, b)
    <3> TAKE a, b
    <3>1. SettledSpendCents(ledger, a, b) \in Nat
      BY <1>1, SpendType
    <3>2. SettledSpendCents(ledger', a, b) = SettledSpendCents(ledger, a, b) + 0
      BY <1>1, <1>9, SpendAppend
    <3>3. QED  BY <3>1, <3>2
  <2>2. QED  BY <1>9, <2>1 DEF SpendInv, Headroom, Paying, Fits, Frame
<1>10. QED  BY <1>2, <1>8, <1>9

(* An accepted price fits. *)
LEMMA AcceptedFits ==
  ASSUME ConstantsAssumption, TypeInv, NEW s \in Services, SpendDecision(s) = "accepted"
  PROVE  /\ Fits(ledger, now, DayLength, DailyCents, PriceCents[s])
         /\ Fits(ledger, now, MonthLength, MonthlyCents, PriceCents[s])
<1> DEFINE daily == SettledSpendCents(ledger, DayStart(now), now)
           monthly == SettledSpendCents(ledger, MonthStart(now), now)
<1>1. daily \in Nat /\ monthly \in Nat
  BY SpendType DEF TypeInv, TypeOK
<1>2. /\ PriceCents[s] \in Nat /\ DailyCents \in Nat /\ MonthlyCents \in Nat
  BY DEF ConstantsAssumption
<1>3. ~(daily + PriceCents[s] > DailyCents) /\ ~(monthly + PriceCents[s] > MonthlyCents)
  BY DEF SpendDecision
<1> HIDE DEF daily, monthly
<1>4. daily + PriceCents[s] <= DailyCents /\ monthly + PriceCents[s] <= MonthlyCents
  BY <1>1, <1>2, <1>3
<1>5. QED  BY <1>4 DEF daily, monthly, Fits, PeriodStart, DayStart, MonthStart

LEMMA SpendInit == Init => SpendInv
<1> SUFFICES ASSUME Init PROVE SpendInv
  OBVIOUS
<1>1. ledger \in Seq(Entries) /\ now = 0 /\ ledger = <<>> /\ pc = "idle"
  BY EmptySeq DEF Init
<1>2. \A a, b : SettledSpendCents(ledger, a, b) = 0
  <2> TAKE a, b
  <2>1. SettledWithin(ledger, a, b) = {}
    BY <1>1 DEF SettledWithin
  <2>2. Total({}, Prices(ledger)) = 0
    BY FS_EmptySet, TotalTaken
  <2>3. QED  BY <1>1, <2>1, <2>2, SpendIsTotal
<1>3. CeilingsHold
  BY <1>2, ConstantsAssumption DEF CeilingsHold, ConstantsAssumption
<1>4. QED  BY <1>1, <1>3 DEF SpendInv, Stamped, Headroom
-----------------------------------------------------------------------------
LEMMA SpendStep ==
  ASSUME ConstantsAssumption, TypeInv, SpendInv, [Next]_vars
  PROVE  SpendInv'
<1>1. CASE UNCHANGED vars
  BY <1>1, QuietSpend DEF vars, machineVars
<1>2. ASSUME NEW task \in Tasks, NEW tx \in Submitted, Run(task, tx)
      PROVE  SpendInv'
  BY <1>2, QuietSpend DEF Run, Paying
<1>3. CASE TooDeep \/ NoCandidate \/ \E s \in Services : ServiceDisabled(s)
  BY <1>3, QuietSpend DEF TooDeep, NoCandidate, ServiceDisabled, Finish, Paying
<1>4. ASSUME NEW s \in Services, NEW d \in Decisions, CheckSpendPolicy(s, d)
      PROVE  /\ Stamped' /\ CeilingsHold' /\ stack' # <<>>
             /\ d = "accepted" => Headroom'
  <2> DEFINE blank == Entry(Frame.tx, s, now)
             e == [blank EXCEPT !.price = PriceCents[s], !.decision = d]
  <2>1. pc = "discover" /\ Record(e) /\ UNCHANGED now /\ d = SpendDecision(s)
    BY <1>4 DEF CheckSpendPolicy, Selected
  <2>2. Frame.tx \in Txs /\ now \in Nat /\ PriceCents[s] \in Nat
    BY <2>1, FrameType DEF TypeInv, TypeOK, ConstantsAssumption
  <2>3. blank \in Entries /\ blank.at = now /\ blank.status = None
    BY <2>2, BlankEntry DEF Entry
  <2>4. e \in Entries /\ e.at = now /\ e.status = None
    <3> HIDE DEF blank
    <3>1. QED  BY <2>2, <2>3 DEF Entries
  <2> HIDE DEF e
  <2>5. e.status # "settled"
    BY <2>4 DEF None
  <2>6. Stamped' /\ CeilingsHold'
    BY <2>1, <2>4, <2>5, EntrySpend
  <2>7. ASSUME d = "accepted" PROVE Headroom'
    <3>1. \A a, b : SettledSpendCents(ledger', a, b) = SettledSpendCents(ledger, a, b)
      <4> TAKE a, b
      <4>1. ledger \in Seq(Entries) /\ ledger' = Append(ledger, e)
        BY <2>1 DEF TypeInv, TypeOK, Record
      <4>2. SettledSpendCents(ledger, a, b) \in Nat
        BY <4>1, SpendType
      <4>3. SettledSpendCents(ledger', a, b) = SettledSpendCents(ledger, a, b) + 0
        BY <2>4, <2>5, <4>1, SpendAppend
      <4>4. QED  BY <4>2, <4>3
    <3>2. Frame'.service = s
      BY <1>4, SelectedType DEF CheckSpendPolicy, Frame
    <3>3. /\ Fits(ledger, now, DayLength, DailyCents, PriceCents[s])
          /\ Fits(ledger, now, MonthLength, MonthlyCents, PriceCents[s])
      BY <2>1, <2>7, AcceptedFits
    <3>4. QED  BY <2>1, <3>1, <3>2, <3>3 DEF Headroom, Fits
  <2>8. QED  BY <1>4, <2>6, <2>7, SelectedType DEF CheckSpendPolicy
<1>5. ASSUME NEW s \in Services, NEW d \in Decisions, PolicyRejects(s, d)
      PROVE  SpendInv'
  BY <1>4, <1>5 DEF PolicyRejects, Finish, SpendInv, Headroom
<1>6. ASSUME NEW s \in Services, PolicyAccepts(s) PROVE SpendInv'
  BY <1>4, <1>6 DEF PolicyAccepts, Decisions, SpendInv
<1>7. ASSUME pc \in {"pay"} \cup Inside, UNCHANGED now,
             NEW d \in Decisions \cup {None}, NEW n \in (Txs \X Nat) \cup {NoNonce},
             NEW s \in Statuses \cup {None}, NEW o \in Outcomes \cup {None},
             Record(PaymentEntry(d, n, s, o)),
             s = "settled" => pc \in Paying,
             pc' \in Paying => pc \in Paying /\ s # "settled" /\ UNCHANGED stack
      PROVE  SpendInv'
  <2> DEFINE e == PaymentEntry(d, n, s, o)
  <2>1. /\ FrameEntry \in Entries /\ FrameEntry.at = now
        /\ attempt \in Nat /\ PriceCents[Frame.service] \in Nat
    <3>1. pc # "idle" /\ pc \in {"pay"} \cup Inside
      BY <1>7 DEF Inside
    <3>2. FrameEntry \in Entries /\ FrameEntry.at = now
      BY <3>1, FrameType DEF TypeInv, FrameEntry, Entry
    <3>3. attempt \in Nat /\ PriceCents[Frame.service] \in Nat
      BY <3>1 DEF TypeInv, TypeOK, ServiceChosen, ConstantsAssumption
    <3>4. QED  BY <3>2, <3>3
  <2>2. /\ e \in Entries /\ e.status = s
        /\ e.at = now /\ e.price = PriceCents[Frame.service]
    BY <1>7, <2>1 DEF PaymentEntry, Entries
  <2>3. Record(e)
    BY <1>7
  <2> HIDE DEF e
  <2>4. /\ Stamped' /\ CeilingsHold'
        /\ s # "settled" /\ pc \in Paying /\ pc' \in Paying /\ UNCHANGED stack => Headroom'
    BY <1>7, <2>2, <2>3, EntrySpend
  <2>5. Headroom'
    BY <1>7, <2>4 DEF Headroom, Paying
  <2>6. QED  BY <2>4, <2>5 DEF SpendInv
<1>8. CASE PayKilled
  BY <1>7, <1>8 DEF PayKilled, PayTurn, Finish, Decisions, Outcomes, Paying, None
<1>9. CASE DuplicatePrevented
  BY <1>7, <1>9 DEF DuplicatePrevented, PayTurn, Finish, Decisions, Outcomes, Paying, None
<1>10. CASE NonceReuseThrows \/ IssuePayment \/ PayRetriesExhausted
  BY <1>10, QuietSpend DEF NonceReuseThrows, IssuePayment, PayRetriesExhausted, PayTurn,
     Finish, Paying
<1>11. pc # "idle" => Nonce \in Txs \X Nat
  BY NonceType
<1>12. CASE PaymentSettled
  BY <1>7, <1>11, <1>12
     DEF PaymentSettled, RecordPayment, Inside, Decisions, Statuses, Paying
<1>13. CASE PaymentFailed
  BY <1>7, <1>11, <1>13
     DEF PaymentFailed, RecordPayment, Inside, Decisions, Statuses, Paying
<1>14. CASE PaymentAmbiguous
  BY <1>7, <1>11, <1>14
     DEF PaymentAmbiguous, RecordPayment, Inside, Decisions, Statuses, Paying
<1>15. CASE TransferLands
  BY <1>15, QuietSpend DEF TransferLands, machineVars
<1>16. CASE SettlementVerified
  BY <1>7, <1>16
     DEF SettlementVerified, RecordVerification, Inside, Statuses, Paying
<1>17. CASE FailureVerified
  BY <1>7, <1>17
     DEF FailureVerified, RecordVerification, Inside, Statuses, Paying
<1>18. ASSUME pc # "idle", NEW e \in Entries, Record(e), e.at = now, e.status = None,
              UNCHANGED now, pc' \notin Paying
       PROVE  SpendInv'
  <2>1. e.status # "settled"
    BY <1>18 DEF None
  <2>2. QED  BY <1>18, <2>1, EntrySpend DEF SpendInv, Headroom, Paying
<1>19. ASSUME pc # "idle"
       PROVE  FrameEntry \in Entries /\ FrameEntry.at = now /\ FrameEntry.status = None
  BY <1>19, FrameType DEF TypeInv, FrameEntry, Entry
<1>20. ASSUME pc = "consuming", NEW r \in Results, RecordService(r), UNCHANGED now,
              pc' \notin Paying
       PROVE  SpendInv'
  <2> DEFINE e == [FrameEntry EXCEPT !.result = r]
  <2>1. e \in Entries /\ e.at = now /\ e.status = None
    BY <1>19, <1>20 DEF Entries
  <2>2. Record(e)
    BY <1>20 DEF RecordService
  <2> HIDE DEF e
  <2>3. QED  BY <1>18, <1>20, <2>1, <2>2
<1>21. CASE ServiceSucceeds \/ ServiceFails \/ ServiceFatal
  BY <1>20, <1>21 DEF ServiceSucceeds, ServiceFails, ServiceFatal, Finish, Results, Paying
<1>22. CASE Close
  <2> DEFINE e == [FrameEntry EXCEPT !.outcome = outcome]
  <2>1. pc = "close" /\ Record(e) /\ UNCHANGED now /\ pc' \notin Paying
    BY <1>22 DEF Close, Paying
  <2>2. e \in Entries /\ e.at = now /\ e.status = None
    BY <1>19, <2>1 DEF Entries, TypeInv, TypeOK
  <2> HIDE DEF e
  <2>3. QED  BY <1>18, <2>1, <2>2
<1>23. CASE FlipKillSwitch \/ \E s \in Services : ToggleService(s)
  BY <1>23, QuietSpend DEF FlipKillSwitch, ToggleService, machineVars
<1>24. CASE Tick
  <2>1. /\ now' = now + 1 /\ UNCHANGED ledger /\ pc = "idle" /\ pc' = "idle"
        /\ ledger \in Seq(Entries) /\ now \in Nat
        /\ DayLength \in Nat \ {0} /\ MonthLength \in Nat \ {0}
        /\ DailyCents \in Nat /\ MonthlyCents \in Nat
    BY <1>24 DEF Tick, machineVars, TypeInv, TypeOK, ConstantsAssumption
  <2>2. \A i \in DOMAIN ledger : ledger[i].at <= now
    BY DEF SpendInv, Stamped
  <2>3. Stamped'
    <3>1. \A i \in DOMAIN ledger : ledger[i].at \in Nat
      <4>1. \A i \in DOMAIN ledger : ledger[i] \in Entries
        BY <2>1, ElementOfSeq
      <4>2. QED  BY <4>1 DEF Entries
    <3>2. QED  BY <2>1, <2>2, <3>1 DEF Stamped
  <2>4. /\ AlwaysWithin(ledger, now + 1, DayLength, DailyCents)
        /\ AlwaysWithin(ledger, now + 1, MonthLength, MonthlyCents)
    <3>1. /\ AlwaysWithin(ledger, now, DayLength, DailyCents)
          /\ AlwaysWithin(ledger, now, MonthLength, MonthlyCents)
      BY CeilingsAre DEF SpendInv
    <3>2. AlwaysWithin(ledger, now + 1, DayLength, DailyCents)
      BY <2>1, <2>2, <3>1, TickWithin
    <3>3. AlwaysWithin(ledger, now + 1, MonthLength, MonthlyCents)
      BY <2>1, <2>2, <3>1, TickWithin
    <3>4. QED  BY <3>2, <3>3
  <2>5. CeilingsHold'
    BY <2>1, <2>4
       DEF CeilingsHold, AlwaysWithin, Within, PeriodStart, DayStart, MonthStart
  <2>6. QED  BY <2>1, <2>3, <2>5 DEF SpendInv, Headroom
<1>25. QED
  BY <1>1, <1>2, <1>3, <1>5, <1>6, <1>8, <1>9, <1>10, <1>12, <1>13, <1>14, <1>15,
     <1>16, <1>17, <1>21, <1>22, <1>23, <1>24
  DEF Next, Machine, Environment, Discover, Pay, WorldAnswers

LEMMA SpendInvariant == Spec => [](TypeInv /\ SpendInv)
<1>1. Init => TypeInv /\ SpendInv BY TypeInit, SpendInit
<1>2. TypeInv /\ SpendInv /\ [Next]_vars => (TypeInv /\ SpendInv)'
  BY TypeStep, SpendStep, ConstantsAssumption
<1>3. QED BY <1>1, <1>2, PTL DEF Spec

(* policy.ts ceilings: settled spend stays within the daily and the monthly *)
(* ceiling in every day and month, retries, alternatives, re-runs and       *)
(* payments that settle only on verification included.                      *)
THEOREM CeilingsAlwaysHold == Spec => []CeilingsHold
<1>1. SpendInv => CeilingsHold BY DEF SpendInv
<1>2. QED BY <1>1, SpendInvariant, PTL
===============================================================================
