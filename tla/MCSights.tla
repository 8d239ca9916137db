------------------------------ MODULE MCSights ------------------------------
(* What scans see in the instances of History: a site that is clean, served *)
(* in the clear, or unreachable.                                            *)
EXTENDS Comparator

CleanSite ==
  [reached |-> TRUE, hops |-> 1, usedHttps |-> TRUE, status |-> 200,
   weakCipher |-> FALSE, protocol |-> "TLS 1.3", server |-> "nginx",
   cloudflare |-> FALSE, cms |-> "none", dns |-> {"hasA"},
   headers |-> [h \in HeaderKeys |-> {}], content |-> NoContent]

Clean   == SnapshotOf(CleanSite)
Failing == SnapshotOf([CleanSite EXCEPT !.usedHttps = FALSE])
Down    == SnapshotOf([CleanSite EXCEPT !.reached = FALSE])
=============================================================================
