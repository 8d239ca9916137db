---------------------------- MODULE ContentCheck ----------------------------
(***************************************************************************)
(* The content check of a site (src/src/content-check.ts): following        *)
(* redirects, choosing and deduplicating the pages of the crawl, extracting *)
(* claims and classifying them against the facts.                           *)
(*                                                                          *)
(* A URL is [protocol, host, path, query].  A site maps URLs to answers     *)
(* [kind, to, says, links]: a "page", whatever its HTTP status; a           *)
(* "redirect"; or "lost" (a redirect without a location, or a host the      *)
(* guard blocks).  A fetched page is [url, ok, says, links], url being the  *)
(* final one.                                                               *)
(*                                                                          *)
(* A page says a set of passages, each the text between two full stops as a *)
(* sequence of items: "words" with the terms of the patterns that occur in  *)
(* them; an "amount", which is any number that the patterns take for one,   *)
(* after an R or, case being ignored, after a word that ends in r; or a     *)
(* "date".  What an amount or a date is about is in the eye of the reader:  *)
(* the program does not see it.  Both are written as in Figures; the tail   *)
(* of an amount is what follows it and looks like more of it, further       *)
(* digits or a letter that reads as a unit.                                 *)
(***************************************************************************)
EXTENDS Figures, GroundTruth, SiteScan

CONSTANTS MaxRedirects, MaxPages

GraveImpacts == {"money", "compliance-deadline"}
-----------------------------------------------------------------------------
(* fetchPageText: where each of the requests goes. *)
Trail(site, u) ==
  LET hop[n \in 0 .. MaxRedirects + 1] ==
        IF n = 0 THEN u
        ELSE IF site[hop[n - 1]].kind = "redirect" THEN site[hop[n - 1]].to
        ELSE hop[n - 1]
  IN hop

Unread(u)        == [url |-> u, ok |-> FALSE, says |-> {}, links |-> <<>>]
Read(u, answer)  == [url |-> u, ok |-> TRUE, says |-> answer.says,
                     links |-> answer.links]

(* Without a network error: the page the trail leads to.  Too many          *)
(* redirects leave the location that was not requested any more.            *)
Fetched(site, u) ==
  LET last == Trail(site, u)[MaxRedirects]
  IN IF site[last].kind = "page" THEN Read(last, site[last])
     ELSE Unread(Trail(site, u)[MaxRedirects + 1])

(* Any request of the trail may fail. *)
FetchResults(site, u) ==
  {Fetched(site, u)} \cup {Unread(Trail(site, u)[n]) : n \in 0 .. MaxRedirects}

(* parseSitemapUrls, extractInternalLinks: one host, every URL once. *)
OnHost(urls, host) ==
  FoldLeft(LAMBDA kept, u :
             IF u.host # host \/ Contains(kept, u) THEN kept ELSE Append(kept, u),
           <<>>, urls)

(* The sitemap if it could be read and lists anything, else the links of    *)
(* the target.                                                              *)
Discovered(target, locs) ==
  OnHost(IF locs # <<>> THEN locs ELSE target.links, target.url.host)
(* Mutant: the limit on pages is not applied. *)
PlannedUncapped(target, locs) == Discovered(target, locs)
Planned(target, locs) ==
  LET found == Discovered(target, locs)
  IN SubSeq(found, 1, Min({Len(found), MaxPages - 1}))

(* canonicalPageKey, and the path that findings name. *)
PageKey(u) == <<u.protocol, u.host, u.path>>

(* Mutant: a page that was found twice is scanned twice. *)
WithRepeats(pages) == DOMAIN pages
(* The first page of every key, also when it could not be read. *)
Deduped(pages) ==
  {i \in DOMAIN pages : \A j \in 1 .. i - 1 :
                           PageKey(pages[j].url) # PageKey(pages[i].url)}
Scanned(pages) == {i \in Deduped(pages) : pages[i].ok}
-----------------------------------------------------------------------------
(* extractClaimsFromText.  A context pattern looks for groups of words, one *)
(* after the other, and then for the next figure of its kind; it starts     *)
(* again after that figure.  A full stop ends the search, also the point in *)
(* a number that it passes.  The length of the windows is left out: the     *)
(* passages of a model lie within it.                                       *)
IsMoneyFact(fact) == fact.unit = "ZAR"
KindOf(fact)      == IF IsMoneyFact(fact) THEN "amount" ELSE "date"
Mentions(page) ==
  {item \in UNION {Range(passage) : passage \in page.says} : item.kind # "words"}

Stops(item) == item.kind = "amount" /\ "." \in Range(item.figure.marks \o item.tail.marks)
(* How many groups of the words it has found after each item. *)
Matched(words, kind, passage) ==
  LET found[n \in 0 .. Len(passage)] ==
        IF n = 0 THEN 0
        ELSE CASE passage[n].kind = "words" ->
                    IF found[n - 1] < Len(words)
                         /\ words[found[n - 1] + 1] \cap passage[n].terms # {}
                    THEN found[n - 1] + 1 ELSE found[n - 1]
               [] passage[n].kind = kind /\ found[n - 1] = Len(words) -> 0
               [] OTHER -> IF Stops(passage[n]) THEN 0 ELSE found[n - 1]
  IN found
InContext(p, page, m) ==
  \E passage \in page.says : \E n \in DOMAIN passage :
    passage[n] = m /\ Matched(p.words, m.kind, passage)[n - 1] = Len(p.words)

(* What is taken of a figure: a context pattern runs on over its tail, as   *)
(* no word boundary ends its capture; a value pattern takes the digits it   *)
(* looks for, if the figure begins with them, whichever marks they have.    *)
RunOn(m) ==
  IF m.kind = "date" \/ m.figure.unit # 1 THEN m.figure
  ELSE [groups |-> m.figure.groups \o m.tail.groups,
        marks  |-> m.figure.marks \o m.tail.marks, unit |-> m.tail.unit]
Start(figure, n) ==
  [groups |-> SubSeq(figure.groups, 1, n), marks |-> SubSeq(figure.marks, 1, n - 1),
   unit   |-> IF n = Len(figure.groups) THEN figure.unit ELSE 1]
Starts(m) ==
  IF m.kind = "amount" THEN {Start(m.figure, n) : n \in DOMAIN m.figure.groups} ELSE {}
Expressions(m) == {RunOn(m)} \cup Starts(m)

Takes(p, page, m, raw) ==
  \/ p.kind = "context" /\ raw = RunOn(m) /\ InContext(p, page, m)
  \/ p.kind = "value" /\ raw \in Starts(m) /\ ReadAmount(raw) = p.figure

(* The expressions that a page is taken to claim about a fact. *)
Captured(page, fact, patterns, m) ==
  {raw \in Expressions(m) :
     /\ m.kind = KindOf(fact)
     /\ \E p \in patterns : p.key = fact.key /\ Takes(p, page, m, raw)}
Claimed(page, fact, patterns) ==
  UNION {Captured(page, fact, patterns, m) : m \in Mentions(page)}
ClaimsOf(page, fact, patterns) ==
  IF IsMoneyFact(fact)
  THEN {NormalizeMoney(f) : f \in {f \in Claimed(page, fact, patterns) : IsMoney(f)}}
  ELSE {NormalizeMonthDay(f) : f \in {f \in Claimed(page, fact, patterns) : IsMonthDay(f)}}

TopicPresent(page, fact, patterns) ==
  \E p \in patterns, item \in UNION {Range(passage) : passage \in page.says} :
    /\ p.key = fact.key /\ p.kind = "keyword"
    /\ item.kind = "words" /\ item.terms \cap p.words[1] # {}
-----------------------------------------------------------------------------
(* classifyPages.  In what follows, in is what a check has read: [pages,    *)
(* facts, superseded, patterns], facts mapping keys to active rows.         *)
SeverityForImpact(impact) ==
  CASE impact \in GraveImpacts -> "critical"
    [] impact = "compliance-threshold" -> "material"
    [] OTHER -> "informational"

Claims(in, i, k) == ClaimsOf(in.pages[i], in.facts[k], in.patterns)
AllClaims(in, k) == UNION {Claims(in, i, k) : i \in Scanned(in.pages)}

(* claimsByPage goes by path: the last page with claims gives the path its  *)
(* claims.                                                                  *)
OfPath(in, i, k) ==
  {j \in Scanned(in.pages) : /\ in.pages[j].url.path = in.pages[i].url.path
                             /\ Claims(in, j, k) # {}}
PathClaims(in, i, k) ==
  LET pages == OfPath(in, i, k)
  IN IF pages = {} THEN {} ELSE Claims(in, Max(pages), k)

SupersededValues(in, k) == {r.value : r \in {r \in in.superseded : r.key = k}}

FindingOf(in, type, k, severity, page, claim) ==
  [type |-> type, factKey |-> k, severity |-> severity,
   impact |-> in.facts[k].impact, page |-> page, claim |-> claim]

(* Mutant: the claims of a page replace those of an earlier one before they *)
(* are compared.                                                            *)
ContradictionsByPath(in) ==
  {FindingOf(in, "cross-page-contradiction", k,
             SeverityForImpact(in.facts[k].impact), 0,
             UNION {PathClaims(in, i, k) : i \in Scanned(in.pages)}) :
     k \in {k \in DOMAIN in.facts :
        Cardinality(UNION {PathClaims(in, i, k) : i \in Scanned(in.pages)}) >= 2}}

Contradictions(in) ==
  {FindingOf(in, "cross-page-contradiction", k,
             SeverityForImpact(in.facts[k].impact), 0, AllClaims(in, k)) :
     k \in {k \in DOMAIN in.facts : Cardinality(AllClaims(in, k)) >= 2}}

WrongFigures(in, i, k) ==
  {FindingOf(in, IF v \in SupersededValues(in, k) THEN "figure-stale"
                                                  ELSE "figure-mismatch",
             k, SeverityForImpact(in.facts[k].impact), i, {v}) :
     v \in PathClaims(in, i, k) \ {in.facts[k].value}}

AbsentFigures(in, i, k) ==
  IF /\ PathClaims(in, i, k) = {}
     /\ TopicPresent(in.pages[i], in.facts[k], in.patterns)
     /\ in.facts[k].impact \in GraveImpacts
  THEN {FindingOf(in, "absent-required-figure", k, "informational", i, {})}
  ELSE {}

PageFindings(in) ==
  UNION {WrongFigures(in, i, k) \cup AbsentFigures(in, i, k) :
           i \in Scanned(in.pages), k \in DOMAIN in.facts}
Findings(in) == Contradictions(in) \cup PageFindings(in)

(* What the check returns, as SiteScan takes it. *)
CheckedContent(in) ==
  [pages    |-> Cardinality(Scanned(in.pages)),
   facts    |-> [k \in DOMAIN in.facts |-> [claims |-> AllClaims(in, k),
                                            impact |-> in.facts[k].impact]],
   findings |-> SetToSeq(Findings(in))]
=============================================================================
