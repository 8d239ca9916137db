---------------------------- MODULE ObservedSite ----------------------------
(***************************************************************************)
(* One site observed again and again: the last three snapshots of it, in    *)
(* the order taken.  What the verdict and the comparator promise is about   *)
(* every pair and every triple of observations, so it is stated over this   *)
(* window.                                                                  *)
(***************************************************************************)
EXTENDS Comparator

CONSTANT Sites    \* what a scan of the site can meet

ASSUME SitesAssumption ==
  \A s \in Sites :
    /\ {s.reached, s.usedHttps, s.weakCipher} \subseteq BOOLEAN
    /\ s.status \in Nat
    /\ s.content # NoContent =>
         /\ s.content.pages \in Nat
         /\ s.content.findings \in Seq(Range(s.content.findings))
         /\ ContentResult(s.content) # NoContent

VARIABLE seen

Init == seen = <<>>

Observe(site) ==
  seen' = Append(IF Len(seen) = 3 THEN Tail(seen) ELSE seen, SnapshotOf(site))

Next == \E site \in Sites : Observe(site)
Spec == Init /\ [][Next]_seen
-----------------------------------------------------------------------------
(* The hard cap: an error about money or a compliance deadline on the pages *)
(* fails the site, however good everything else is.                         *)
CriticalFails ==
  \A i \in DOMAIN seen : LET content == seen[i].content IN
    /\ content # NoContent
    /\ \E j \in DOMAIN content.findings : Grave(content.findings, j)
    => seen[i].verdict = "FAIL"

(* PASS means nothing is known against the site: transport, status, header  *)
(* issues beyond the low ones and findings of a content check that read     *)
(* something.                                                               *)
PassIsClean ==
  \A i \in DOMAIN seen : seen[i].verdict = "PASS" =>
    /\ seen[i].usedHttps /\ ~seen[i].weakCipher /\ seen[i].status \in 200..299
    /\ HeaderIssues(seen[i]) \subseteq {"low"}
    /\ seen[i].content # NoContent =>
         seen[i].content.pages > 0 /\ seen[i].content.findings = <<>>

(* Is b as a in every respect that is scored, or worse?  A content check    *)
(* that was not made found nothing.                                         *)
HeaderWorse(v, w) == w = Absent \/ (v # Absent /\ w # Absent /\ v \subseteq w)
ContentWorse(c, d) ==
  \/ c = NoContent
  \/ /\ d # NoContent
     /\ d.pages <= c.pages /\ IsPrefix(c.findings, d.findings)
NoBetter(a, b) ==
  \/ b.httpError
  \/ /\ ~a.httpError
     /\ b.usedHttps => a.usedHttps
     /\ a.weakCipher => b.weakCipher
     /\ b.status \in 200..299 => a.status \in 200..299
     /\ \A h \in HeaderKeys : HeaderWorse(a.headers[h], b.headers[h])
     /\ ContentWorse(a.content, b.content)

(* A permissive Referrer-Policy earns points, but is the graver issue: a    *)
(* site that stops sending it falls in score, and may rise from WARN.       *)
DropsPermissive(a, b) ==
  LET v == a.headers["referrerPolicy"] IN
  v # Absent /\ "permissive" \in v /\ b.headers["referrerPolicy"] = Absent

(* No finding ever improves the verdict: a site that is worse in whatever   *)
(* combination of respects neither scores nor, but for that one header,     *)
(* ranks higher.                                                            *)
Rank == [FAIL |-> 0, WARN |-> 1, PASS |-> 2]
WorseNeverReadsBetter ==
  \A i, j \in DOMAIN seen : NoBetter(seen[i], seen[j]) =>
    /\ seen[j].verdictScore <= seen[i].verdictScore
    /\ DropsPermissive(seen[i], seen[j])
         \/ Rank[seen[j].verdict] <= Rank[seen[i].verdict]

(* A verdict move always alerts: it is "material-or-worse by construction"  *)
(* (alerting.ts), whatever else changed or recovered with it.               *)
VerdictMovesAlert ==
  \A i, j \in DOMAIN seen :
    seen[i].verdict # seen[j].verdict => ShouldAlert(seen[i], seen[j])

(* Whoever is alerted to a deterioration is alerted to its recovery: two    *)
(* observations alert in both orders or in neither.                         *)
RecoveriesAlert ==
  \A i, j \in DOMAIN seen :
    ShouldAlert(seen[i], seen[j]) => ShouldAlert(seen[j], seen[i])

(* A reader who follows the changes step by step misses nothing: a field    *)
(* that differs between two observations differs in one of the steps that   *)
(* lead from the one to the other.  Two exceptions: the observation in      *)
(* between must have a content part whenever the two ends have one; and     *)
(* when it lacks a fact of both ends, changed claims of that fact are told  *)
(* by other fields, those of the fact's going and coming back.              *)
StepsTellAll ==
  Len(seen) = 3
    /\ (seen[2].content = NoContent =>
          NoContent \in {seen[1].content, seen[3].content})
    => \A f \in Fields(seen[1], seen[3]) :
         \/ f \in Fields(seen[1], seen[2]) \cup Fields(seen[2], seen[3])
         \/ /\ f[1] = "claims"
            /\ <<"fact", f[2]>> \in Fields(seen[1], seen[2]) \cap Fields(seen[2], seen[3])
=============================================================================
