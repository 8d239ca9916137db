----------------------------- MODULE Comparator -----------------------------
(***************************************************************************)
(* The snapshot comparator (src/src/history.ts): which fields of two        *)
(* observations of a site differ, how grave each difference is, and whether *)
(* the difference as a whole raises an alert (src/src/alerting.ts).         *)
(*                                                                          *)
(* A snapshot is what SiteScan returns, reduced to what the comparator and  *)
(* the verdict read of it: facts maps the fact keys found to                *)
(* [claims, impact].                                                        *)
(***************************************************************************)
EXTENDS SiteScan, SequencesExt

DnsKeys == {"hasA", "hasAAAA", "hasMX", "hasTXT"}

(* Observation quality. *)
SnapshotStatus(s) ==
  IF s.httpError THEN "failed" ELSE IF s.dnsEvaluated THEN "complete" ELSE "partial"

Delta(a, b) == IF a < b THEN b - a ELSE a - b
Tier(grave, tier, otherwise) == IF grave THEN tier ELSE otherwise
Changed(differs, field, tier) ==
  IF differs THEN {[field |-> field, materiality |-> tier]} ELSE {}

(* Mutant: only the worst move is more than information. *)
VerdictDiffWorstOnly(a, b) ==
  Changed(a.verdict # b.verdict, <<"verdict", "status">>,
          Tier(a.verdict = "PASS" /\ b.verdict = "FAIL", "critical", "informational"))

VerdictDiff(a, b) ==
  Changed(a.verdict # b.verdict, <<"verdict", "status">>,
          Tier(a.verdict = "PASS" /\ b.verdict = "FAIL", "critical", "material"))

(* The fields that carry a security signal. *)
SecurityDiff(a, b) ==
  Changed(a.usedHttps # b.usedHttps, <<"tls", "usedHttps">>,
          Tier(a.usedHttps, "critical", "material"))
  \cup VerdictDiff(a, b)
  \cup Changed(a.weakCipher # b.weakCipher, <<"tls", "weakCipher">>,
          Tier(b.weakCipher, "critical", "material"))
  \cup Changed(a.status # b.status, <<"http", "status">>, "material")

(* Presence of a header, and the value of the two that weigh most. *)
HeaderDiff(a, b) ==
  {[field |-> <<"header", k>>, materiality |-> "material"] :
     k \in {k \in HeaderKeys :
              \/ (a.headers[k] = Absent) # (b.headers[k] = Absent)
              \/ k \in ValueHeaders /\ a.headers[k] # b.headers[k]}}

(* The fields that inform only. *)
InformationalDiff(a, b) ==
  Changed(a.protocol # b.protocol, <<"tls", "protocol">>, "informational")
  \cup Changed(a.headerScore # b.headerScore, <<"headerScore", "score">>, "informational")
  \cup Changed(a.verdictScore # b.verdictScore, <<"verdict", "score">>, "informational")
  \cup Changed(a.server # b.server, <<"tech", "server">>, "informational")
  \cup Changed(a.cloudflare # b.cloudflare, <<"tech", "cloudflare">>, "informational")
  \cup Changed(a.cms # b.cms, <<"tech", "cms">>, "informational")
  \cup Changed(a.hops # b.hops, <<"http", "hops">>, "informational")
  \cup {[field |-> <<"dns", k>>, materiality |-> "informational"] :
          k \in {k \in DnsKeys : (k \in a.dns) # (k \in b.dns)}}

(* A fact that appears or disappears is a field of its own, content.facts.K; *)
(* a fact that stays differs in another, content.facts.K.claims.  The       *)
(* impact of a fact seen before is the earlier one's.                       *)
FactImpact(f, t, k) == IF k \in DOMAIN f THEN f[k].impact ELSE t[k].impact
FactChange(field, f, t, k) ==
  [field |-> <<field, k>>,
   materiality |-> Tier(FactImpact(f, t, k) \in {"money", "compliance-deadline"},
                        "critical", "material")]

CameOrWent(f, t) == (DOMAIN f \ DOMAIN t) \cup (DOMAIN t \ DOMAIN f)
Reclaimed(f, t)  == {k \in DOMAIN f \cap DOMAIN t : f[k].claims # t[k].claims}
FactDiff(f, t) ==
  {FactChange("fact", f, t, k) : k \in CameOrWent(f, t)}
  \cup {FactChange("claims", f, t, k) : k \in Reclaimed(f, t)}

(* Mutant: a small move of the content score is noise. *)
ContentScoreJumps(a, b) ==
  Changed(Delta(a.content.score, b.content.score) >= 15,
          <<"content", "score">>, "material")

ContentScoreDiff(a, b) ==
  Changed(a.content.score # b.content.score, <<"content", "score">>,
          Tier(Delta(a.content.score, b.content.score) >= 15,
               "material", "informational"))

CriticalKeys(content) ==
  {<<f.type, f.factKey>> :
     f \in {f \in Range(content.findings) : f.severity = "critical"}}
CriticalDiff(c, d) ==
  {[field |-> <<"critical", k>>, materiality |-> "critical"] :
     k \in CriticalKeys(d) \ CriticalKeys(c)}
  \cup {[field |-> <<"critical", k>>, materiality |-> "material"] :
     k \in CriticalKeys(c) \ CriticalKeys(d)}

ContentDiff(a, b) ==
  IF a.content = NoContent \/ b.content = NoContent
  THEN Changed(a.content # b.content, <<"content", "presence">>, "material")
  ELSE Changed(a.content.status # b.content.status, <<"content", "status">>, "material")
       \cup ContentScoreDiff(a, b)
       \cup FactDiff(a.content.facts, b.content.facts)
       \cup CriticalDiff(a.content, b.content)

DiffSnapshots(a, b) ==
  SecurityDiff(a, b) \cup HeaderDiff(a, b) \cup InformationalDiff(a, b)
    \cup ContentDiff(a, b)

(* Highest tier of a field, else the score-delta rule. *)
Tiers(diff) == {c.materiality : c \in diff}

(* Mutant: the score-delta rule forgets that scores also fall. *)
RisesOnly(a, b) ==
  IF "critical" \in Tiers(DiffSnapshots(a, b)) THEN "critical"
  ELSE IF \/ "material" \in Tiers(DiffSnapshots(a, b))
          \/ b.verdictScore - a.verdictScore >= 15 THEN "material"
  ELSE "informational"

RecordMateriality(a, b) ==
  IF "critical" \in Tiers(DiffSnapshots(a, b)) THEN "critical"
  ELSE IF \/ "material" \in Tiers(DiffSnapshots(a, b))
          \/ Delta(a.verdictScore, b.verdictScore) >= 15 THEN "material"
  ELSE "informational"

(* Comparable changes alert when material or worse. *)
ShouldAlert(a, b) == RecordMateriality(a, b) \in {"critical", "material"}
Fields(a, b) == {c.field : c \in DiffSnapshots(a, b)}
=============================================================================
