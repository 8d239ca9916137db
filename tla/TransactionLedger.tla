-------------------------- MODULE TransactionLedger --------------------------
(***************************************************************************)
(* The append-only transaction ledger of the autonomous buyer               *)
(* (src/src/autonomous/ledger.ts), as operators on the sequence of its      *)
(* entries.  A transaction id is the pair <<root, alts>>: the id the caller *)
(* submitted and the number of "-alt" suffixes the machine has appended.    *)
(* A nonce `${txId}:pay:${attempt}` is the pair <<txId, attempt>>.          *)
(* An entry keeps the fields some decision or property reads; the audit     *)
(* text (agentId, request, policyLimitCents, network, retryCount,           *)
(* errorOrDispute) is left out.                                             *)
(***************************************************************************)
EXTENDS Integers, Sequences, FiniteSetsExt

None      == "none"
NoAttempt == 0          \* paymentAttempt: null; attempts are 1-based
NoNonce   == <<>>

(* An entry in which every optional field is null. *)
Entry(tx, service, at) ==
  [ tx       |-> tx,       service |-> service, price   |-> 0,
    decision |-> None,     attempt |-> NoAttempt, nonce  |-> NoNonce,
    status   |-> None,     result  |-> None,    outcome |-> None,
    at       |-> at ]

(* settledSpendCents(since, until), both ends included. *)
SettledSpendCents(ledger, since, until) ==
  MapThenSumSet(LAMBDA i : ledger[i].price,
                {i \in DOMAIN ledger : /\ ledger[i].status = "settled"
                                       /\ ledger[i].at \in since .. until})

(* paymentsFor(txId): the payments issued, which alone carry a nonce. *)
PaymentsFor(ledger, tx) ==
  {i \in DOMAIN ledger : /\ ledger[i].tx = tx
                         /\ ledger[i].attempt # NoAttempt
                         /\ ledger[i].nonce # NoNonce}

(* The entries lastPaymentFor(txId) picks the last of: payments, their      *)
(* verifications, and the refusals of the pay loop.                         *)
PaymentEvents(ledger, tx) ==
  {i \in DOMAIN ledger : ledger[i].tx = tx /\ ledger[i].attempt # NoAttempt}

(* canIssuePayment(txId).ok: no payment event yet, or the last one failed. *)
CanIssuePayment(ledger, tx) ==
  \/ PaymentEvents(ledger, tx) = {}
  \/ \E i \in PaymentEvents(ledger, tx) :
        /\ \A j \in PaymentEvents(ledger, tx) : j <= i
        /\ ledger[i].status = "failed"

(* Mutant: only settled payments reserve their nonce. *)
NonceSettled(ledger, nonce) ==
  \E i \in DOMAIN ledger : ledger[i].nonce = nonce /\ ledger[i].status = "settled"

NonceUsed(ledger, nonce) == \E i \in DOMAIN ledger : ledger[i].nonce = nonce
=============================================================================
