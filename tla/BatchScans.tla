----------------------------- MODULE BatchScans -----------------------------
(***************************************************************************)
(* Batch scans (src/src/batch.ts): a fixed pool of workers takes the        *)
(* domains of one request in order and runs the snapshot pipeline           *)
(* (src/src/snapshot.ts) on each, against a wall-clock deadline.            *)
(*                                                                          *)
(* stage[w] is the await at which worker w is:                              *)
(*   pull     the top of its loop                                           *)
(*   lookup   the host check of the current hop, two DNS-over-HTTPS queries *)
(*   fetch    the request of the current hop, aborted after 8 seconds       *)
(*   body     reading the answer of the last hop                            *)
(*   probes   DNS records and TLS handshake, in parallel                    *)
(*   content  facts from D1 and the crawl, when the request asked for it    *)
(*   done     the worker has returned                                       *)
(* Between two awaits the code is synchronous; a worker that reports items  *)
(* as late does so without a pause, which the model lets others interrupt.  *)
(***************************************************************************)
EXTENDS Integers

CONSTANTS
  BatchSize,      \* the number of domains in the request
  Concurrency,    \* workers in the pool, as configured
  MaxHops,        \* redirects followed: maxHops of fetchWithChain
  ValidItems,     \* the domains that parse as http or https URLs
  Empty           \* the content of a slot nobody has written

ASSUME BatchAssumption ==
  /\ BatchSize \in Nat \ {0} /\ Concurrency \in Nat \ {0}
  /\ MaxHops \in Nat
  /\ ValidItems \subseteq 1..BatchSize
  /\ Empty \notin {"snapshot", "unreachable", "late", "invalid", "error"}

Items    == 1..BatchSize
Workers  == 1..(IF Concurrency < BatchSize THEN Concurrency ELSE BatchSize)
Outcomes == {"snapshot", "unreachable", "late", "invalid", "error"}
Scanning == {"lookup", "fetch", "body", "probes", "content"}

VARIABLES
  nextIndex,    \* the next domain to take
  results,      \* the answer, one slot for each domain
  late,         \* has the deadline passed?
  content,      \* does the request ask for the content sub-scan?
  stage, item, hop    \* of each worker

workerVars == <<stage, item, hop>>
vars == <<nextIndex, results, late, content, workerVars>>

Init ==
  /\ nextIndex = 1
  /\ results = [i \in Items |-> Empty]
  /\ late = FALSE
  /\ content \in BOOLEAN
  /\ stage = [w \in Workers |-> "pull"]
  /\ item = [w \in Workers |-> 0]
  /\ hop = [w \in Workers |-> 0]
-----------------------------------------------------------------------------
(* worker: `const index = nextIndex++` and what follows it at once.         *)
Takes(w) ==
  /\ stage[w] = "pull"
  /\ nextIndex' = nextIndex + 1
  /\ UNCHANGED <<late, content>>

Fill(i, r) == results' = [results EXCEPT ![i] = r]

NothingLeft(w) ==
  /\ Takes(w)
  /\ nextIndex > BatchSize
  /\ stage' = [stage EXCEPT ![w] = "done"]
  /\ UNCHANGED <<results, item, hop>>

TooLate(w) ==
  /\ Takes(w)
  /\ nextIndex <= BatchSize /\ late
  /\ Fill(nextIndex, "late")
  /\ UNCHANGED workerVars

(* Mutant: the URL is checked before the clock. *)
InvalidEvenLate(w) ==
  /\ Takes(w)
  /\ nextIndex <= BatchSize
  /\ nextIndex \notin ValidItems
  /\ Fill(nextIndex, "invalid")
  /\ UNCHANGED workerVars

InvalidUrl(w) ==
  /\ Takes(w)
  /\ nextIndex <= BatchSize /\ ~late
  /\ nextIndex \notin ValidItems
  /\ Fill(nextIndex, "invalid")
  /\ UNCHANGED workerVars

(* Mutant: the index is read now and advanced after the scan. *)
StartsUnclaimed(w) ==
  /\ stage[w] = "pull"
  /\ nextIndex <= BatchSize /\ ~late
  /\ nextIndex \in ValidItems
  /\ stage' = [stage EXCEPT ![w] = "lookup"]
  /\ item' = [item EXCEPT ![w] = nextIndex]
  /\ hop' = [hop EXCEPT ![w] = 0]
  /\ UNCHANGED <<nextIndex, late, content, results>>

StartsScan(w) ==
  /\ Takes(w)
  /\ nextIndex <= BatchSize /\ ~late
  /\ nextIndex \in ValidItems
  /\ stage' = [stage EXCEPT ![w] = "lookup"]
  /\ item' = [item EXCEPT ![w] = nextIndex]
  /\ hop' = [hop EXCEPT ![w] = 0]
  /\ UNCHANGED results

Pulls(w) == NothingLeft(w) \/ TooLate(w) \/ InvalidUrl(w) \/ StartsScan(w)
-----------------------------------------------------------------------------
(* runSecuritySnapshot: one await after the other, or straight to its end.  *)
Moves(w, from, to) ==
  /\ stage[w] = from
  /\ stage' = [stage EXCEPT ![w] = to]
  /\ UNCHANGED <<nextIndex, results, late, content, item>>

Ends(w, from, r) ==
  /\ stage[w] \in from
  /\ stage' = [stage EXCEPT ![w] = "pull"]
  /\ Fill(item[w], r)
  /\ UNCHANGED <<nextIndex, late, content, item, hop>>

(* A lookup that fails does not block the host. *)
HostAllowed(w) == Moves(w, "lookup", "fetch") /\ UNCHANGED hop
HostBlocked(w) == Ends(w, {"lookup"}, "unreachable")

(* Mutant: the hop counter is set back by every redirect. *)
RedirectResets(w) == Moves(w, "fetch", "lookup") /\ hop' = [hop EXCEPT ![w] = 0]

(* Mutant: redirects are followed without a limit. *)
RedirectUnlimited(w) ==
  Moves(w, "fetch", "lookup") /\ hop' = [hop EXCEPT ![w] = @ + 1]

(* Every hop is looked up again before it is fetched. *)
Redirected(w) ==
  /\ hop[w] < MaxHops
  /\ Moves(w, "fetch", "lookup")
  /\ hop' = [hop EXCEPT ![w] = @ + 1]

TooManyRedirects(w) == hop[w] = MaxHops /\ Ends(w, {"fetch"}, "unreachable")

(* An answer that is no redirect, or one that does not say where to. *)
Answered(w)   == Moves(w, "fetch", "body") /\ UNCHANGED hop
FetchFails(w) == Ends(w, {"fetch"}, "unreachable")

(* A body that cannot be read is no failure, neither are failing probes. *)
BodyRead(w) == Moves(w, "body", "probes") /\ UNCHANGED hop
Probed(w) ==
  \/ ~content /\ Ends(w, {"probes"}, "snapshot")
  \/ content /\ Moves(w, "probes", "content") /\ UNCHANGED hop

(* Nor is a sub-scan that fails: its part of the snapshot is left out. *)
ContentChecked(w) == Ends(w, {"content"}, "snapshot")

(* Mutant: an exception leaves the worker, and with it the batch. *)
ThrowEscapes(w) ==
  /\ stage[w] \in Scanning
  /\ stage' = [stage EXCEPT ![w] = "done"]
  /\ UNCHANGED <<nextIndex, results, late, content, item, hop>>

(* scanOne's backstop for a scan that throws after all. *)
ScanThrows(w) == Ends(w, Scanning, "error")
-----------------------------------------------------------------------------
DeadlinePasses ==
  /\ ~late /\ late' = TRUE
  /\ UNCHANGED <<nextIndex, results, content, workerVars>>

(* The awaits that no timer of the code ends, and those that one does. *)
Unboxed(w) == HostAllowed(w) \/ HostBlocked(w) \/ BodyRead(w) \/ Probed(w)
                \/ ContentChecked(w)
Boxed(w)   == Redirected(w) \/ TooManyRedirects(w) \/ Answered(w)
                \/ FetchFails(w)

Works(w) == Pulls(w) \/ Boxed(w) \/ Unboxed(w) \/ ScanThrows(w)

Next == DeadlinePasses \/ \E w \in Workers : Works(w)
Spec == Init /\ [][Next]_vars

(* Every await ends, with an answer or with an error. *)
FairSpec == Spec /\ \A w \in Workers : WF_vars(Works(w))

(* Only the timers of the code can be relied upon. *)
TimersSpec == Spec /\ \A w \in Workers : WF_vars(Pulls(w) \/ Boxed(w))
-----------------------------------------------------------------------------
Returned == \A w \in Workers : stage[w] = "done"
Holds(w, i) == stage[w] \in Scanning /\ item[w] = i

(* The shape of the state.  No chain of redirects is longer than MaxHops.   *)
TypeOK ==
  /\ nextIndex \in Nat \ {0}
  /\ results \in [Items -> Outcomes \cup {Empty}]
  /\ late \in BOOLEAN /\ content \in BOOLEAN
  /\ stage \in [Workers -> Scanning \cup {"pull", "done"}]
  /\ item \in [Workers -> Items \cup {0}]
  /\ hop \in [Workers -> 0..MaxHops]

(* No item is lost and none is worked on twice: those handed out are either *)
(* reported or in the hands of one worker, who alone will report them.      *)
SlotsAccounted ==
  /\ \A i \in Items :
       i < nextIndex <=> results[i] # Empty \/ \E w \in Workers : Holds(w, i)
  /\ \A i \in Items, v, w \in Workers : Holds(v, i) /\ Holds(w, i) => v = w
  /\ \A i \in Items, w \in Workers : Holds(w, i) => results[i] = Empty

(* The deadline cuts the request in two: once an item is reported late, no  *)
(* later one has been looked at, not even its URL.                          *)
LateIsSuffix ==
  \A i, j \in Items :
    i < j /\ results[i] = "late" => results[j] \in {"late", Empty}

(* The pool keeps what the batch promises, see BatchPromise. *)
Promise == INSTANCE BatchPromise WITH answered <- Returned
AnswersInFull == Promise!Spec

(* A batch whose awaits all end is answered. *)
BatchEnds == <>Returned

(* batch.ts: items in flight run to completion, each "individually          *)
(* time-boxed inside runSecuritySnapshot": a scan that starts ends, by the  *)
(* timers of the code alone.                                                *)
ScansTimeBoxed ==
  \A i \in Items : (\E w \in Workers : Holds(w, i)) ~> results[i] # Empty
=============================================================================
