---------------------------- MODULE LivePayments ----------------------------
(***************************************************************************)
(* A purchase through the live World (src/src/autonomous/live-world.ts), as *)
(* src/scripts/a2-run.cjs runs it: one transaction, one eligible service.   *)
(*                                                                          *)
(* run() is synchronous and the methods of LiveWorld are async: what the    *)
(* machine gets of each call is a promise, which is none of the statuses it *)
(* compares it with, and the exchanges go on after the run has returned.    *)
(* An exchange is a request for the 402 challenge and, once that is         *)
(* answered, a request that carries a signed payment.                       *)
(***************************************************************************)
EXTENDS TransactionLedger

CONSTANTS Tx, Service, PriceCents, MaxPaymentRetries

VARIABLES
  ledger,     \* the entries recorded so far
  running,    \* has run() not returned yet?
  attempt,    \* loop counter of payWithRetries
  exchanges,  \* attempt |-> "challenge" or "payment" while its exchange waits
              \* for the answer to that, else the status it resolved to, or
              \* "rejected"
  charged     \* attempts whose payment was settled on chain

vars == <<ledger, running, attempt, exchanges, charged>>

Nonce(n) == <<Tx, n>>
Promised == "a promise"    \* settlementStatus: Promise { <pending> }

Init == /\ ledger = <<[Entry(Tx, Service, 0) EXCEPT !.price = PriceCents,
                                                    !.decision = "accepted"]>>
        /\ running = TRUE /\ attempt = 1 /\ exchanges = <<>> /\ charged = {}
-----------------------------------------------------------------------------
PaymentEntry(decision, nonce, status) ==
  [Entry(Tx, Service, 0) EXCEPT !.price = PriceCents, !.attempt = attempt,
     !.decision = decision, !.nonce = nonce, !.status = status]

(* An attempt: the exchange starts, its promise is no outcome, and neither  *)
(* is the promise of the verification, so that it is recorded as failed.    *)
PayAttempt ==
  /\ running /\ attempt <= 1 + MaxPaymentRetries
  /\ CanIssuePayment(ledger, Tx) /\ ~NonceUsed(ledger, Nonce(attempt))
  /\ exchanges' = Append(exchanges, "challenge")
  /\ ledger' = ledger \o <<PaymentEntry("accepted", Nonce(attempt), Promised),
                           PaymentEntry(None, NoNonce, "failed")>>
  /\ attempt' = attempt + 1
  /\ UNCHANGED <<running, charged>>

(* The retries are exhausted: final(), and run() returns. *)
Escalate ==
  /\ running /\ attempt > 1 + MaxPaymentRetries
  /\ ledger' = Append(ledger, [Entry(Tx, Service, 0) EXCEPT !.outcome = "escalated"])
  /\ running' = FALSE
  /\ UNCHANGED <<attempt, exchanges, charged>>
-----------------------------------------------------------------------------
(* No continuation of an exchange runs before run() has returned. *)
Step(n, from, to) ==
  /\ ~running /\ n \in DOMAIN exchanges /\ exchanges[n] = from
  /\ exchanges' = [exchanges EXCEPT ![n] = to]
  /\ UNCHANGED <<ledger, running, attempt>>

(* The challenge: 402 is answered with a payment, another status ends the   *)
(* exchange.                                                                *)
Challenged(n) ==
  /\ \E to \in {"payment", "failed"} : Step(n, "challenge", to)
  /\ UNCHANGED charged

(* An error in the request for a challenge, or in a verification, is caught *)
(* nowhere and ends the process.  What it has sent may still be settled.    *)
Rejected ==
  /\ ~running
  /\ exchanges' = [n \in DOMAIN exchanges |->
                     IF exchanges[n] = "challenge" THEN "rejected" ELSE exchanges[n]]
  /\ UNCHANGED <<ledger, running, attempt, charged>>

(* The payment: the facilitator may settle it, whatever the caller sees of  *)
(* the answer: a 200, another status, or an error.                          *)
Answered(n) ==
  /\ \E to \in {"settled", "failed", "unknown"} : Step(n, "payment", to)
  /\ charged' \in {charged, charged \cup {n}}

Next == PayAttempt \/ Escalate \/ Rejected
          \/ \E n \in DOMAIN exchanges : Challenged(n) \/ Answered(n)
Spec == Init /\ [][Next]_vars
-----------------------------------------------------------------------------
(* Statements of the documents that the code does not keep.                 *)

(* ledger.ts: "a new pay is allowed only if there is no prior attempt, or   *)
(* the prior attempt is CONFIRMED failed": money moves once for the         *)
(* transaction, over all its attempts.                                      *)
PaidAtMostOnce == \A m, n \in charged : m = n
=============================================================================
