----------------------------- MODULE SiteScan -----------------------------
(***************************************************************************)
(* What runSecuritySnapshot (src/src/snapshot.ts) returns for a site:       *)
(* header score and verdict are computed from what the scan met.            *)
(*                                                                          *)
(* A site is [reached, hops, usedHttps, status, weakCipher, protocol,       *)
(* server, cloudflare, cms, dns, headers, content]; content is what the     *)
(* sub-scan found, [pages, facts, findings], or NoContent when it was not   *)
(* asked for or failed.                                                     *)
(***************************************************************************)
EXTENDS Verdict

ContentResult(content) ==
  [pages |-> content.pages, facts |-> content.facts,
   findings |-> content.findings, score |-> ContentScore(content),
   status |-> ContentStatus(content)]

(* The request failed: FAIL, and nothing else was looked at. *)
Unreachable(site) ==
  [httpError |-> TRUE, dnsEvaluated |-> FALSE, usedHttps |-> FALSE,
   weakCipher |-> FALSE, protocol |-> "none", status |-> 0,
   hops |-> site.hops, verdict |-> "FAIL", verdictScore |-> 0,
   headerScore |-> 0, server |-> "none", cloudflare |-> FALSE,
   cms |-> "none", dns |-> {}, headers |-> [h \in HeaderKeys |-> Absent],
   content |-> NoContent]

Answered(site) ==
  [httpError |-> FALSE, dnsEvaluated |-> TRUE, usedHttps |-> site.usedHttps,
   weakCipher |-> site.weakCipher, protocol |-> site.protocol,
   status |-> site.status, hops |-> site.hops,
   verdict |-> VerdictStatus(site), verdictScore |-> VerdictScore(site),
   headerScore |-> HeaderScore(site), server |-> site.server,
   cloudflare |-> site.cloudflare, cms |-> site.cms, dns |-> site.dns,
   headers |-> site.headers,
   content |-> IF site.content = NoContent THEN NoContent
               ELSE ContentResult(site.content)]

SnapshotOf(site) == IF site.reached THEN Answered(site) ELSE Unreachable(site)
=============================================================================
