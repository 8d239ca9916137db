------------------------- MODULE TransactionMachine -------------------------
(***************************************************************************)
(* The autonomous purchase machine (src/src/autonomous/state-machine.ts)    *)
(* running transactions one after the other against one ledger, one policy  *)
(* object and an injected World.                                            *)
(*                                                                          *)
(* run() is synchronous: nothing interleaves with it except what happens    *)
(* inside a call into the World (pc = "paying", "verifying", "consuming"),  *)
(* and between two runs (pc = "idle").  There the operator may flip the     *)
(* kill switch or disable a service: the machine holds the caller's policy  *)
(* object and reads it again at each check.                                 *)
(***************************************************************************)
EXTENDS TransactionLedger

CONSTANTS
  Services,            \* ServiceId
  Roots,               \* transaction ids a caller makes up
  Submitted,           \* ids callers submit: pairs <<root, alts>>
  Tasks, TaskMap,      \* task |-> services in preference order
  Allowlist,           \* ids of policy.eligibleServices
  PriceCents,          \* service |-> priceCents
  PerTxCents, PerServiceCents, DailyCents, MonthlyCents,
  MaxPaymentRetries, MaxServiceRetries,
  DayLength, MonthLength,  \* calendar of `now`, in ticks
  Horizon,             \* bound: the clock stops here
  MaxRuns              \* bound: number of calls of run()

NoService == "no service"
MaxDepth  == 3
Txs       == Roots \X Nat

ASSUME ConstantsAssumption ==
  /\ Submitted \subseteq Txs
  /\ Tasks \subseteq DOMAIN TaskMap
  /\ \A task \in Tasks : TaskMap[task] \in Seq(Services)
  /\ Allowlist \subseteq Services
  /\ NoService \notin Services
  /\ PriceCents \in [Services -> Nat]
  /\ PerServiceCents \in [Services -> Nat]
  /\ PerTxCents \in Nat /\ DailyCents \in Nat /\ MonthlyCents \in Nat
  /\ MaxPaymentRetries \in Nat /\ MaxServiceRetries \in Nat
  /\ DayLength \in Nat \ {0} /\ MonthLength \in Nat \ {0}
  /\ Horizon \in Nat /\ MaxRuns \in Nat

VARIABLES
  ledger,    \* the entries recorded so far
  enabled,   \* policy.killSwitch.autonomousCommerceEnabled
  disabled,  \* policy.killSwitch.disabledServices
  now,       \* the caller's clock; fixed while a run lasts
  runs,      \* number of runs started
  pc,        \* where the machine is
  stack,     \* frames of runInternal, the innermost last
  attempt,   \* loop counter of payWithRetries / consumeWithRetries
  outcome,   \* TxOutcome being returned, when pc = "close"
  charged    \* the World's truth: nonces whose money moved on chain

machineVars == <<pc, stack, attempt, outcome>>
policyVars  == <<enabled, disabled>>
vars == <<ledger, machineVars, policyVars, now, runs, charged>>

Frame    == stack[Len(stack)]
(* Mutant: the first alternative is not counted. *)
AlternativesAfterFirst == Len(stack) - 2

Depth    == Len(stack) - 1
Nonce    == <<Frame.tx, attempt>>
Inside   == {"paying", "verifying", "consuming"}   \* control is in the World

(* SettlementStatus; "pending" and "unknown", which the machine and the     *)
(* ledger treat alike, are "ambiguous".                                     *)
Statuses  == {"settled", "ambiguous", "failed"}
Outcomes  == {"completed", "aborted-ineligible", "aborted-policy",
              "aborted-kill", "escalated", "duplicate-payment-prevented"}
Decisions == {"accepted", "rejected-per-tx", "rejected-per-service",
              "rejected-daily", "rejected-monthly", "rejected-kill"}
Results   == {"success", "failure", "fatal"}
Frames    == [task : Tasks, tx : Txs, exclude : Services \cup {NoService},
              service : Services \cup {NoService}]
Entries   == [tx : Txs, service : Services \cup {NoService}, price : Nat,
              decision : Decisions \cup {None}, attempt : Nat,
              nonce : (Txs \X Nat) \cup {NoNonce},
              status : Statuses \cup {None}, result : Results \cup {None},
              outcome : Outcomes \cup {None}, at : Nat]

-----------------------------------------------------------------------------
(* selectServices: the positions in the task's preference order whose       *)
(* service is allowlisted and not the excluded one.                         *)
Candidates(f) ==
  {i \in DOMAIN TaskMap[f.task] : /\ TaskMap[f.task][i] \in Allowlist
                                  /\ TaskMap[f.task][i] # f.exclude}

(* candidates[0] *)
Preferred(f, s) ==
  \E i \in Candidates(f) : /\ \A j \in Candidates(f) : i <= j
                           /\ TaskMap[f.task][i] = s

HasAlternative(f) == \E i \in Candidates(f) : TaskMap[f.task][i] # f.service

DayStart(t)   == t - (t % DayLength)
MonthStart(t) == t - (t % MonthLength)

(* Mutant: the ceilings are compared with the spend so far only. *)
SpendDecisionAfterwards(s) ==
  IF ~enabled                               THEN "rejected-kill"
  ELSE IF PriceCents[s] > PerTxCents         THEN "rejected-per-tx"
  ELSE IF PriceCents[s] > PerServiceCents[s] THEN "rejected-per-service"
  ELSE IF SettledSpendCents(ledger, DayStart(now), now) > DailyCents
                                             THEN "rejected-daily"
  ELSE IF SettledSpendCents(ledger, MonthStart(now), now) > MonthlyCents
                                             THEN "rejected-monthly"
  ELSE "accepted"

(* checkSpendPolicy: the first ceiling the price breaches names the verdict. *)
SpendDecision(s) ==
  LET price   == PriceCents[s]
      daily   == SettledSpendCents(ledger, DayStart(now), now)
      monthly == SettledSpendCents(ledger, MonthStart(now), now)
  IN IF ~enabled                           THEN "rejected-kill"
     ELSE IF price > PerTxCents             THEN "rejected-per-tx"
     ELSE IF price > PerServiceCents[s]     THEN "rejected-per-service"
     ELSE IF daily + price > DailyCents     THEN "rejected-daily"
     ELSE IF monthly + price > MonthlyCents THEN "rejected-monthly"
     ELSE "accepted"

-----------------------------------------------------------------------------
Record(e) == ledger' = Append(ledger, e)
FrameEntry == Entry(Frame.tx, Frame.service, now)
(* An entry of the pay loop: a payment, its verification or a refusal. *)
PaymentEntry(decision, nonce, status, refusal) ==
  [FrameEntry EXCEPT !.price = PriceCents[Frame.service], !.attempt = attempt,
                     !.decision = decision, !.nonce = nonce,
                     !.status = status, !.outcome = refusal]

(* Leave runInternal with outcome o; Close records it. *)
Finish(o) == /\ pc' = "close"
             /\ outcome' = o

Init ==
  /\ ledger = <<>> /\ enabled = TRUE /\ disabled = {} /\ now = 0 /\ runs = 0
  /\ pc = "idle" /\ stack = <<>> /\ attempt = 0 /\ outcome = None
  /\ charged = {}

(* A caller runs a transaction; the id may have been used before. *)
Run(task, tx) ==
  /\ pc = "idle" /\ runs < MaxRuns
  /\ runs' = runs + 1
  /\ pc' = "discover"
  /\ stack' = <<[task |-> task, tx |-> tx, exclude |-> NoService,
                 service |-> NoService]>>
  /\ UNCHANGED <<ledger, policyVars, now, attempt, outcome, charged>>

TooDeep ==
  /\ pc = "discover" /\ Depth > MaxDepth
  /\ Finish("escalated")
  /\ UNCHANGED <<ledger, policyVars, now, runs, stack, attempt, charged>>

NoCandidate ==
  /\ pc = "discover" /\ Depth <= MaxDepth
  /\ Candidates(Frame) = {}
  /\ Finish("aborted-ineligible")
  /\ UNCHANGED <<ledger, policyVars, now, runs, stack, attempt, charged>>

Selected(s) ==
  /\ pc = "discover" /\ Depth <= MaxDepth
  /\ Preferred(Frame, s)
  /\ stack' = [stack EXCEPT ![Len(stack)].service = s]

ServiceDisabled(s) ==
  /\ Selected(s)
  /\ s \in disabled
  /\ Finish("aborted-ineligible")
  /\ UNCHANGED <<ledger, policyVars, now, runs, attempt, charged>>

(* The policy check of an enabled service, recorded whatever it decides. *)
CheckSpendPolicy(s, decision) ==
  /\ Selected(s)
  /\ s \notin disabled
  /\ decision = SpendDecision(s)
  /\ Record([Entry(Frame.tx, s, now) EXCEPT !.price = PriceCents[s],
                                            !.decision = decision])
  /\ UNCHANGED <<policyVars, now, runs, charged>>

PolicyRejects(s, decision) ==
  /\ decision # "accepted"
  /\ CheckSpendPolicy(s, decision)
  /\ Finish(IF decision = "rejected-kill" THEN "aborted-kill"
                                          ELSE "aborted-policy")
  /\ UNCHANGED attempt

PolicyAccepts(s) ==
  /\ CheckSpendPolicy(s, "accepted")
  /\ pc' = "pay"
  /\ attempt' = 1
  /\ UNCHANGED outcome
-----------------------------------------------------------------------------
(* Mutant: one retry too many. *)
PayTurnOffByOne == pc = "pay" /\ attempt <= 2 + MaxPaymentRetries

(* payWithRetries, the top of its loop: pc = "pay". *)
PayTurn == pc = "pay" /\ attempt <= 1 + MaxPaymentRetries

PayKilled ==
  /\ PayTurn /\ ~enabled
  /\ Record(PaymentEntry("rejected-kill", NoNonce, None, "aborted-kill"))
  /\ Finish("aborted-kill")
  /\ UNCHANGED <<policyVars, now, runs, stack, attempt, charged>>

(* Mutant: an id that is already paid goes straight to consumption. *)
DuplicateConsumes ==
  /\ PayTurn /\ enabled
  /\ ~CanIssuePayment(ledger, Frame.tx)
  /\ pc' = "consuming" /\ attempt' = 1
  /\ UNCHANGED <<ledger, policyVars, now, runs, stack, outcome, charged>>

DuplicatePrevented ==
  /\ PayTurn /\ enabled
  /\ ~CanIssuePayment(ledger, Frame.tx)
  /\ Record(PaymentEntry("rejected-per-tx", NoNonce, None,
                         "duplicate-payment-prevented"))
  /\ Finish("escalated")
  /\ UNCHANGED <<policyVars, now, runs, stack, attempt, charged>>

(* `throw new Error("nonce reuse detected")` leaves every frame at once. *)
NonceReuseThrows ==
  /\ PayTurn /\ enabled
  /\ CanIssuePayment(ledger, Frame.tx)
  /\ NonceUsed(ledger, Nonce)
  /\ pc' = "idle" /\ stack' = <<>> /\ attempt' = 0 /\ outcome' = None
  /\ UNCHANGED <<ledger, policyVars, now, runs, charged>>

IssuePayment ==
  /\ PayTurn /\ enabled
  /\ CanIssuePayment(ledger, Frame.tx)
  /\ ~NonceUsed(ledger, Nonce)
  /\ pc' = "paying"
  /\ UNCHANGED <<ledger, policyVars, now, runs, stack, attempt, outcome, charged>>

PayRetriesExhausted ==
  /\ pc = "pay" /\ attempt > 1 + MaxPaymentRetries
  /\ Finish("escalated")
  /\ UNCHANGED <<ledger, policyVars, now, runs, stack, attempt, charged>>

(* Payments issued and verifications, by the status the World reported. *)
RecordPayment(status) == Record(PaymentEntry("accepted", Nonce, status, None))
(* Mutant: the verification is not written to the ledger. *)
VerificationUnrecorded(status) == UNCHANGED ledger

RecordVerification(status) == Record(PaymentEntry(None, NoNonce, status, None))

PaymentSettled ==
  /\ pc = "paying"
  /\ charged' = charged \cup {Nonce}
  /\ RecordPayment("settled")
  /\ pc' = "consuming" /\ attempt' = 1
  /\ UNCHANGED <<policyVars, now, runs, stack, outcome>>

(* Mutant: the next attempt starts at once, past the checks of the loop. *)
PaymentRetriedAtOnce ==
  /\ pc = "paying"
  /\ RecordPayment("failed")
  /\ attempt' = attempt + 1
  /\ pc' = IF attempt <= MaxPaymentRetries THEN "paying" ELSE "pay"
  /\ UNCHANGED <<policyVars, now, runs, stack, outcome, charged>>

PaymentFailed ==
  /\ pc = "paying"
  /\ RecordPayment("failed")
  /\ pc' = "pay" /\ attempt' = attempt + 1
  /\ UNCHANGED <<policyVars, now, runs, stack, outcome, charged>>

PaymentAmbiguous ==
  /\ pc = "paying"
  /\ RecordPayment("ambiguous")
  /\ pc' = "verifying"
  /\ UNCHANGED <<policyVars, now, runs, stack, attempt, outcome, charged>>

(* World: an ambiguous transfer goes through while it is being verified. *)
TransferLands ==
  /\ pc = "verifying" /\ Nonce \notin charged
  /\ charged' = charged \cup {Nonce}
  /\ UNCHANGED <<ledger, machineVars, policyVars, now, runs>>

(* Mutant: an ambiguous payment is taken for a failed one. *)
AmbiguousIsFailed == "failed"

(* The World resolves an ambiguous payment by what happened on chain, and   *)
(* "failed" is final.                                                       *)
VerifySettlement == IF Nonce \in charged THEN "settled" ELSE "failed"

SettlementVerified ==
  /\ pc = "verifying" /\ VerifySettlement = "settled"
  /\ RecordVerification("settled")
  /\ pc' = "consuming" /\ attempt' = 1
  /\ UNCHANGED <<policyVars, now, runs, stack, outcome, charged>>

(* Mutant: the machine asks again until the chain confirms. *)
PollsUntilSettled ==
  /\ pc = "verifying" /\ VerifySettlement = "failed"
  /\ UNCHANGED vars

FailureVerified ==
  /\ pc = "verifying" /\ VerifySettlement = "failed"
  /\ RecordVerification("failed")
  /\ pc' = "pay" /\ attempt' = attempt + 1
  /\ UNCHANGED <<policyVars, now, runs, stack, outcome, charged>>
-----------------------------------------------------------------------------
(* consumeWithRetries: pc = "consuming", inside world.serviceOutcome. *)
RecordService(result) == Record([FrameEntry EXCEPT !.result = result])

ServiceSucceeds ==
  /\ pc = "consuming"
  /\ RecordService("success")
  /\ Finish("completed")
  /\ UNCHANGED <<policyVars, now, runs, stack, attempt, charged>>

(* Mutant: running out of retries completes the transaction. *)
RetriesExhaustedCompletes ==
  /\ pc = "consuming"
  /\ RecordService("failure")
  /\ \/ /\ attempt <= MaxServiceRetries
        /\ attempt' = attempt + 1
        /\ UNCHANGED <<pc, outcome>>
     \/ /\ attempt > MaxServiceRetries
        /\ Finish("completed")
        /\ UNCHANGED attempt
  /\ UNCHANGED <<policyVars, now, runs, stack, charged>>

ServiceFails ==
  /\ pc = "consuming"
  /\ RecordService("failure")
  /\ \/ /\ attempt <= MaxServiceRetries
        /\ attempt' = attempt + 1
        /\ UNCHANGED <<pc, outcome>>
     \/ /\ attempt > MaxServiceRetries
        /\ Finish("escalated")
        /\ UNCHANGED attempt
  /\ UNCHANGED <<policyVars, now, runs, stack, charged>>

(* A fatal result buys the task again from the next candidate, as the new   *)
(* transaction `${txId}-alt` that excludes the service that failed.         *)
ServiceFatal ==
  /\ pc = "consuming"
  /\ RecordService("fatal")
  /\ \/ /\ HasAlternative(Frame)
        /\ stack' = Append(stack,
             [task |-> Frame.task, tx |-> <<Frame.tx[1], Frame.tx[2] + 1>>,
              exclude |-> Frame.service, service |-> NoService])
        /\ pc' = "discover"
        /\ UNCHANGED outcome
     \/ /\ ~HasAlternative(Frame)
        /\ Finish("escalated")
        /\ UNCHANGED stack
  /\ UNCHANGED <<policyVars, now, runs, attempt, charged>>

(* Mutant: the result of the alternative is returned without closing the    *)
(* transaction that bought it.                                              *)
CloseInnermostOnly ==
  /\ pc = "close"
  /\ Record([FrameEntry EXCEPT !.outcome = outcome])
  /\ stack' = SubSeq(stack, 1, Len(stack) - 1)
  /\ pc' = "idle" /\ outcome' = None /\ attempt' = 0
  /\ UNCHANGED <<policyVars, now, runs, charged>>

(* final(): close the innermost transaction.  Its caller, if any, closes    *)
(* next and with the same outcome (altResult.outcome).                      *)
Close ==
  /\ pc = "close"
  /\ Record([FrameEntry EXCEPT !.outcome = outcome])
  /\ stack' = SubSeq(stack, 1, Len(stack) - 1)
  /\ \/ /\ Len(stack) > 1
        /\ UNCHANGED <<pc, outcome, attempt>>
     \/ /\ Len(stack) = 1
        /\ pc' = "idle" /\ outcome' = None /\ attempt' = 0
  /\ UNCHANGED <<policyVars, now, runs, charged>>
-----------------------------------------------------------------------------
(* The operator, who acts while the machine is idle or inside the World. *)
FlipKillSwitch ==
  /\ pc \in Inside \cup {"idle"}
  /\ enabled' = ~enabled
  /\ UNCHANGED <<ledger, machineVars, disabled, now, runs, charged>>

ToggleService(s) ==
  /\ pc \in Inside \cup {"idle"}
  /\ disabled' = IF s \in disabled THEN disabled \ {s} ELSE disabled \cup {s}
  /\ UNCHANGED <<ledger, machineVars, enabled, now, runs, charged>>

(* Callers pass a later `now` to a later run. *)
Tick ==
  /\ pc = "idle" /\ now < Horizon
  /\ now' = now + 1
  /\ UNCHANGED <<ledger, machineVars, policyVars, runs, charged>>

Discover ==
  \/ TooDeep
  \/ NoCandidate
  \/ \E s \in Services : ServiceDisabled(s)
  \/ \E s \in Services, d \in Decisions : PolicyRejects(s, d)
  \/ \E s \in Services : PolicyAccepts(s)

Pay == PayKilled \/ DuplicatePrevented \/ NonceReuseThrows \/ IssuePayment
         \/ PayRetriesExhausted

WorldAnswers ==
  \/ PaymentSettled \/ PaymentFailed \/ PaymentAmbiguous
  \/ SettlementVerified \/ FailureVerified
  \/ ServiceSucceeds \/ ServiceFails \/ ServiceFatal

Machine == Discover \/ Pay \/ WorldAnswers \/ Close

Environment ==
  \/ \E task \in Tasks, tx \in Submitted : Run(task, tx)
  \/ TransferLands \/ FlipKillSwitch \/ Tick
  \/ \E s \in Services : ToggleService(s)

Next == Machine \/ Environment
Spec == Init /\ [][Next]_vars

(* run() is synchronous code and every World call returns. *)
FairSpec == Spec /\ WF_vars(Machine)
-----------------------------------------------------------------------------
(* The shape of the state: entries, frames and counters keep their types,   *)
(* and there is a frame exactly while a run lasts.                          *)
TypeOK ==
  /\ ledger \in Seq(Entries)
  /\ enabled \in BOOLEAN /\ disabled \subseteq Services
  /\ now \in Nat /\ runs \in Nat
  /\ pc \in Inside \cup {"idle", "discover", "pay", "close"}
  /\ stack \in Seq(Frames)
  /\ pc = "idle" <=> stack = <<>>
  /\ attempt \in Nat
  /\ outcome \in Outcomes \cup {None}
  /\ charged \subseteq Txs \X Nat

Settled == {i \in DOMAIN ledger : ledger[i].status = "settled"}

(* No double payment: over all attempts, verifications and re-runs of a     *)
(* transaction, money moves for one nonce of it at most.                    *)
AtMostOneCharge == \A m, n \in charged : m[1] = n[1] => m = n

(* Reconciliation has nothing to report: outside a verification, what the   *)
(* ledger counts as settled is what the chain charged, counted once.        *)
Reconciled ==
  pc # "verifying" =>
    /\ {<<ledger[i].tx, ledger[i].attempt>> : i \in Settled} = charged
    /\ \A i, j \in Settled : ledger[i].tx = ledger[j].tx => i = j

(* A nonce is written to the ledger by one payment only, whatever ids       *)
(* callers reuse.                                                           *)
NoncesUnique ==
  \A i, j \in DOMAIN ledger :
    ledger[i].nonce = ledger[j].nonce => i = j \/ ledger[i].nonce = NoNonce

(* A service is consumed only under a settled payment of the same           *)
(* transaction to the same service, even when an id is run again for a      *)
(* task another service serves.                                             *)
PaidBeforeService ==
  \A i \in DOMAIN ledger : ledger[i].result # None =>
    \E j \in Settled : /\ j < i
                       /\ ledger[j].tx = ledger[i].tx
                       /\ ledger[j].service = ledger[i].service

(* A transaction closed as completed has a successful service result of its *)
(* own or of one of its alternatives.                                       *)
CompletedDelivered ==
  \A i \in DOMAIN ledger : ledger[i].outcome = "completed" =>
    \E j \in 1..(i - 1) : /\ ledger[j].result = "success"
                          /\ ledger[j].tx[1] = ledger[i].tx[1]
                          /\ ledger[j].tx[2] >= ledger[i].tx[2]

(* The kill switch stops payments, not only transactions: every attempt of  *)
(* every payment, a retry and an alternative included, starts with the      *)
(* switch on, however often an operator flipped it while money was moving.  *)
StartsPayment == pc' = "paying" /\ (pc # "paying" \/ attempt' # attempt)
KillStopsPayments == [][StartsPayment => enabled]_vars

(* The retry cap holds over the life of a transaction id, not just a run.   *)
RetriesCapped ==
  \A i \in DOMAIN ledger :
    Cardinality(PaymentsFor(ledger, ledger[i].tx)) <= 1 + MaxPaymentRetries

(* Settled spend of every calendar day and month stays within its ceiling,  *)
(* alternatives and re-runs included.                                       *)
CeilingsHold ==
  \A t \in 0..now :
    /\ SettledSpendCents(ledger, DayStart(t), DayStart(t) + DayLength - 1)
         <= DailyCents
    /\ SettledSpendCents(ledger, MonthStart(t), MonthStart(t) + MonthLength - 1)
         <= MonthlyCents

(* Between runs, every settled payment has been followed by a closing entry *)
(* of its transaction, except when the machine threw on the id of one of    *)
(* its alternatives: a caller had submitted that id and paid under it.      *)
PaymentsClosed ==
  pc = "idle" =>
    \A i \in Settled :
      \/ \E j \in DOMAIN ledger : /\ i < j /\ ledger[j].tx = ledger[i].tx
                                 /\ ledger[j].outcome # None
      \/ \E j \in 1..(i - 1) : /\ ledger[j].tx[1] = ledger[i].tx[1]
                              /\ ledger[j].tx[2] > ledger[i].tx[2]
                              /\ ledger[j].nonce # NoNonce

(* Alternatives are bought at most three deep, however long a task's        *)
(* preference list is.                                                      *)
FallbacksBounded == \A n \in charged : n[1][2] <= 3

(* Every run ends. *)
Terminates == (pc # "idle") ~> (pc = "idle")
-----------------------------------------------------------------------------
(* A statement of the documents that the code does not keep.                *)

(* Plan, section 7: "policy exceeded -> ABORT (never pay)": a transaction   *)
(* closed as aborted by policy was not paid.                                *)
AbortedNeverPaid ==
  \A i \in DOMAIN ledger : ledger[i].outcome = "aborted-policy" =>
    \A j \in Settled : ledger[j].tx # ledger[i].tx
-----------------------------------------------------------------------------
(* What the machine promises its caller, see OncePerTransaction.            *)
Promise == INSTANCE OncePerTransaction WITH
  Transactions <- Txs,
  paid     <- {n[1] : n \in charged},
  inFlight <- IF pc \in {"paying", "verifying"} THEN {Frame.tx} ELSE {}
PaysOnce == Promise!Spec
=============================================================================
