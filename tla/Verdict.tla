------------------------------ MODULE Verdict ------------------------------
(***************************************************************************)
(* How a scan is scored: the security headers (src/src/header-scoring.ts),  *)
(* the content findings (src/src/content-check.ts) and the verdict that     *)
(* blends them with the transport (src/src/verdict.ts).                     *)
(*                                                                          *)
(* A header's value is Absent or a set of features, the flaws the scorer    *)
(* looks for among them.  Findings of the content check are a sequence of   *)
(* [type, factKey, severity, impact], one per page and claim; impact is     *)
(* that of the fact.                                                        *)
(***************************************************************************)
EXTENDS Integers, Sequences, FiniteSetsExt

CONSTANTS Absent, NoContent

ValueHeaders == {"strictTransportSecurity", "contentSecurityPolicy"}
HeaderKeys   == ValueHeaders \cup {"xFrameOptions", "xContentTypeOptions",
                                   "referrerPolicy", "permissionsPolicy"}

(* What a header is worth, and how grave it is not to send it. *)
Full(h) == CASE h = "contentSecurityPolicy" -> 20
             [] h \in {"strictTransportSecurity", "xFrameOptions"} -> 10
             [] OTHER -> 5
MissingSeverity(h) == CASE h \in ValueHeaders -> "high"
                        [] h = "xFrameOptions" -> "medium"
                        [] OTHER -> "low"

(* Every flaw with its severity and the points it costs. *)
Flaw(name, severity, penalty) ==
  [name |-> name, severity |-> severity, penalty |-> penalty]
Flaws(h) ==
  CASE h = "strictTransportSecurity" ->
         {Flaw("no max-age", "high", 8), Flaw("short max-age", "medium", 3),
          Flaw("no subdomains", "low", 1)}
    [] h = "contentSecurityPolicy" ->
         {Flaw("unsafe-inline", "high", 10), Flaw("unsafe-eval", "high", 6),
          Flaw("wildcard", "medium", 4), Flaw("no frame-ancestors", "low", 1)}
    [] h = "xFrameOptions" ->
         {Flaw("allow-from", "low", 8), Flaw("unrecognized", "medium", 10)}
    [] h = "xContentTypeOptions" -> {Flaw("not nosniff", "low", 5)}
    [] h = "referrerPolicy" -> {Flaw("permissive", "medium", 3)}
    [] OTHER -> {}

(* HSTS is neither scored nor an issue on a site without HTTPS. *)
Scored(scan) == IF scan.usedHttps THEN HeaderKeys
                                  ELSE HeaderKeys \ {"strictTransportSecurity"}
Found(scan, h) == {f \in Flaws(h) : f.name \in scan.headers[h]}

Points(scan, h) ==
  IF scan.headers[h] = Absent THEN 0
  ELSE Max({0, Full(h) - MapThenSumSet(LAMBDA f : f.penalty, Found(scan, h))})

Severities(scan, h) == IF scan.headers[h] = Absent THEN {MissingSeverity(h)}
                       ELSE {f.severity : f \in Found(scan, h)}
HeaderIssues(scan) == UNION {Severities(scan, h) : h \in Scored(scan)}

(* Math.round(points / 55 * 100) *)
HeaderScore(scan) ==
  (200 * MapThenSumSet(LAMBDA h : Points(scan, h), Scored(scan)) + 55) \div 110

-----------------------------------------------------------------------------
Count(findings, severity) ==
  Cardinality({i \in DOMAIN findings : findings[i].severity = severity})
Grave(findings, i) == /\ findings[i].severity = "critical"
                      /\ findings[i].impact \in {"money", "compliance-deadline"}

Deducted(findings) ==
  Max({0, 100 - 30 * Count(findings, "critical")
              - 15 * Count(findings, "material")
              -  5 * Count(findings, "informational")})

(* Mutant: the deduction for a critical finding stands in for the hard cap. *)
ContentScoreUncapped(content) ==
  IF content.pages = 0 THEN 0 ELSE Deducted(content.findings)

(* scoreContent: deductions, then the hard cap; no page read scores zero. *)
ContentScore(content) ==
  IF content.pages = 0 THEN 0
  ELSE IF \E i \in DOMAIN content.findings : Grave(content.findings, i)
  THEN Min({35, Deducted(content.findings)})
  ELSE Deducted(content.findings)

ContentStatus(content) ==
  IF ContentScore(content) < 40 THEN "FAIL"
  ELSE IF /\ ContentScore(content) >= 75
          /\ Count(content.findings, "critical") = 0
          /\ Count(content.findings, "material") = 0
  THEN "PASS" ELSE "WARN"
-----------------------------------------------------------------------------
(* Does the verdict have an issue to name?  The medium ones are named when  *)
(* fewer than three high ones are.                                          *)
HasTopIssue(scan) ==
  \/ ~scan.usedHttps \/ scan.weakCipher
  \/ HeaderIssues(scan) \cap {"high", "medium"} # {}
  \/ scan.content # NoContent /\ scan.content.findings # <<>>

(* The transport caps the score of a site that answered. *)
TransportCap(scan) ==
  Min({100} \cup (IF scan.usedHttps THEN {} ELSE {20})
            \cup (IF scan.weakCipher THEN {60} ELSE {})
            \cup (IF scan.status \in 200..299 THEN {} ELSE {40}))

(* Mutant: the content score takes the place of the header score. *)
VerdictScoreOfContent(scan) ==
  Min({TransportCap(scan),
       IF scan.content = NoContent THEN HeaderScore(scan)
                                   ELSE ContentScore(scan.content)})

(* buildVerdict of a site that answered: the lowest of all. *)
VerdictScore(scan) ==
  Min({HeaderScore(scan), TransportCap(scan),
       IF scan.content = NoContent THEN 100 ELSE ContentScore(scan.content)})

(* Mutant: a score of 75 passes whatever the issues. *)
VerdictByScore(scan) == IF VerdictScore(scan) >= 75 THEN "PASS"
                        ELSE IF VerdictScore(scan) >= 40 THEN "WARN" ELSE "FAIL"

VerdictStatus(scan) ==
  IF VerdictScore(scan) >= 75 /\ ~HasTopIssue(scan) THEN "PASS"
  ELSE IF VerdictScore(scan) >= 40 THEN "WARN"
  ELSE "FAIL"
=============================================================================
