---------------------------- MODULE ContentScans ----------------------------
(***************************************************************************)
(* A content scan (src/src/snapshot.ts, runContentCheck) against a          *)
(* ground-truth store that an operator is loading and a site that does not  *)
(* always answer.                                                           *)
(*                                                                          *)
(* The loader's SQL runs statement by statement without a transaction       *)
(* (`wrangler d1 execute` takes none) and may be cut off anywhere; the scan *)
(* reads the active facts, the superseded ones and the patterns with three  *)
(* statements of its own, then fetches the target, the sitemap and, in      *)
(* parallel, the planned pages.                                             *)
(***************************************************************************)
EXTENDS ContentCheck

CONSTANTS
  Releases,       \* what operators load: sequences of statements
  Home,           \* the URL scanned
  Sites,          \* the sites it may find: [answers, sitemap]
  Today,          \* asOf
  MaxLoads        \* bound: number of loads started

ASSUME ContentAssumption ==
  /\ MaxRedirects \in Nat /\ MaxPages \in Nat \ {0} /\ Today \in 0 .. Forever - 1
  /\ MaxLoads \in Nat

ASSUME ReleasesAssumption == \A r \in Releases : r \in Seq(Range(r))

(* Every URL that is written anywhere leads to an answer; a page is finite. *)
ASSUME SitesAssumption ==
  \A s \in Sites :
    LET urls == DOMAIN s.answers IN
    /\ Home \in urls /\ s.sitemap \in Seq(urls)
    /\ \A u \in urls : /\ s.answers[u].to \in urls
                       /\ s.answers[u].links \in Seq(urls)
                       /\ IsFiniteSet(Mentions(s.answers[u]))
                       /\ \A m \in Mentions(s.answers[u]) : IsFiniteSet(Expressions(m))

VARIABLES
  table,      \* D1 table ground_truth
  patterns,   \* D1 table fact_patterns
  release,    \* the statements of the last load started
  executed,   \* how many of them were executed
  loading,    \* is that load still running?
  loads,      \* number of loads so far
  site,       \* the site
  scan        \* the scan: where it is and what it has read

store == <<table, patterns>>
loader == <<release, executed, loading, loads>>
vars  == <<store, loader, site, scan>>

Steps == {"idle", "superseded", "patterns", "target", "sitemap", "rest", "done", "skipped"}

Init ==
  /\ table = <<>> /\ patterns = {}
  /\ release = <<>> /\ executed = 0 /\ loading = FALSE /\ loads = 0
  /\ site \in Sites
  /\ scan = [pc |-> "idle", facts |-> <<>>, superseded |-> {}, patterns |-> {},
             pages |-> <<>>, awaiting |-> {}]
-----------------------------------------------------------------------------
(* The operator runs the loader's output, perhaps not for the first time. *)
StartLoad(r) ==
  /\ ~loading /\ loads < MaxLoads
  /\ release' = r /\ executed' = 0 /\ loading' = TRUE /\ loads' = loads + 1
  /\ UNCHANGED <<store, site, scan>>

Statement == release[executed + 1]
MoreToLoad == loading /\ executed < Len(release)
Executes ==
  /\ executed' = executed + 1
  /\ UNCHANGED <<release, loading, loads, site>>

LoadFact ==
  /\ MoreToLoad /\ Statement.into = "ground_truth"
  /\ Executes
  /\ table' = Upsert(table, Statement.row)
  /\ UNCHANGED <<patterns, scan>>

LoadPattern ==
  /\ MoreToLoad /\ Statement.into = "fact_patterns"
  /\ Executes
  /\ patterns' = patterns \cup {Statement.row}
  /\ UNCHANGED <<table, scan>>

(* The file is through, or wrangler is cut off. *)
LoadEnds ==
  /\ loading
  /\ loading' = FALSE
  /\ UNCHANGED <<store, release, executed, loads, site, scan>>
-----------------------------------------------------------------------------
ScanStep(next) == /\ scan' = next
                  /\ UNCHANGED <<store, loader, site>>

ReadFacts ==
  /\ scan.pc = "idle"
  /\ ScanStep([scan EXCEPT !.pc = "superseded", !.facts = Active(table, Today)])

ReadSuperseded ==
  /\ scan.pc = "superseded"
  /\ ScanStep([scan EXCEPT !.pc = "patterns",
                           !.superseded = Superseded(table, Today)])

ReadPatterns ==
  /\ scan.pc = "patterns"
  /\ ScanStep([scan EXCEPT !.pc = "target",
                 !.patterns = PatternsFor(patterns, DOMAIN scan.facts)])

(* A failed read skips the content part; the snapshot goes without it. *)
StoreUnavailable ==
  /\ scan.pc \in {"idle", "superseded", "patterns"}
  /\ ScanStep([scan EXCEPT !.pc = "skipped"])

FetchTarget ==
  /\ scan.pc = "target"
  /\ \E page \in FetchResults(site.answers, Home) :
       ScanStep([scan EXCEPT !.pc = "sitemap", !.pages = <<page>>])

(* The sitemap, if it answers, decides what else is fetched. *)
FetchSitemap ==
  /\ scan.pc = "sitemap"
  /\ \E locs \in {site.sitemap, <<>>} :
       LET planned == Planned(scan.pages[1], locs)
       IN ScanStep([scan EXCEPT
            !.pc = IF planned = <<>> THEN "done" ELSE "rest",
            !.pages = @ \o [i \in DOMAIN planned |-> Unread(planned[i])],
            !.awaiting = 2 .. Len(planned) + 1])

FetchPage(i) ==
  /\ scan.pc = "rest" /\ i \in scan.awaiting
  /\ \E page \in FetchResults(site.answers, scan.pages[i].url) :
       ScanStep([scan EXCEPT !.pages[i] = page, !.awaiting = @ \ {i},
                             !.pc = IF scan.awaiting = {i} THEN "done" ELSE "rest"])

Loads == \/ \E r \in Releases : StartLoad(r)
         \/ LoadFact \/ LoadPattern \/ LoadEnds
Scans == \/ ReadFacts \/ ReadSuperseded \/ ReadPatterns \/ StoreUnavailable
         \/ FetchTarget \/ FetchSitemap \/ \E i \in scan.awaiting : FetchPage(i)

Next == Loads \/ Scans
Spec == Init /\ [][Next]_vars
-----------------------------------------------------------------------------
Finished == scan.pc = "done"
Pages    == Scanned(scan.pages)

(* How a reader takes what the patterns take from a page. *)
ReadAs(fact, figure) ==
  IF IsMoneyFact(fact) THEN ReadAmount(figure) ELSE NormalizeMonthDay(figure)
Reads(i, k) ==
  {ReadAs(scan.facts[k], figure) :
     figure \in Claimed(scan.pages[i], scan.facts[k], scan.patterns)}

(* Whatever a page says about a fact, a reader takes for the approved       *)
(* figure.                                                                  *)
Correct(i, k) ==
  \A m \in Mentions(scan.pages[i]) :
    m.about = k => ReadAs(scan.facts[k], m.figure) = scan.facts[k].value

(* What the patterns of a fact take from a page is a figure about that      *)
(* fact, the whole of it and no more.                                       *)
TakenAsMeant(i, k) ==
  \A m \in Mentions(scan.pages[i]) :
    \A raw \in Captured(scan.pages[i], scan.facts[k], scan.patterns, m) :
      m.about = k /\ raw = m.figure

(* Pages, patterns and rows keep their shape; the crawl is bounded. *)
TypeOK ==
  /\ \A k \in DOMAIN table : table[k].key = k
  /\ executed \in 0 .. Len(release) /\ loading \in BOOLEAN
  /\ loads \in 0 .. MaxLoads /\ site \in Sites
  /\ scan.pc \in Steps
  /\ scan.awaiting \subseteq DOMAIN scan.pages
  /\ Len(scan.pages) <= MaxPages
  /\ scan.pc = "rest" <=> scan.awaiting # {}

(* A figure that the patterns of a fact about money or a deadline take, and *)
(* that a reader would take for another than the approved one, fails the    *)
(* site, on whichever page it stands, also when a later page overwrites the *)
(* claims of its path.                                                      *)
WrongFigureFails ==
  Finished =>
    \A k \in DOMAIN scan.facts :
      /\ scan.facts[k].impact \in GraveImpacts
      /\ \E i \in Pages : Reads(i, k) \ {scan.facts[k].value} # {}
      => ContentStatus(CheckedContent(scan)) = "FAIL"

(* No false alarm: a site that says nothing wrong about the facts, and from *)
(* which the patterns take what is meant, is blamed for nothing but figures *)
(* it leaves out.  The second condition is not met by every honest page: a  *)
(* figure of another matter that follows the words of a fact is taken for   *)
(* it, and a figure is taken with the letter of a following word (R17 712   *)
(* monthly).                                                                *)
NoFalseAlarm ==
  Finished
    /\ (\A k \in DOMAIN scan.facts, i \in Pages : Correct(i, k) /\ TakenAsMeant(i, k))
    => \A f \in Findings(scan) : f.type = "absent-required-figure"

(* A finding is about the page it names: the page itself makes the claim,   *)
(* as far as its path is its own, and is blamed for it once however often   *)
(* the crawl came across it.                                                *)
FindingsAttributed ==
  LET found == PageFindings(scan) IN
  Finished => \A f \in found :
    /\ (\A i \in Pages \ {f.page} :
          scan.pages[i].url.path # scan.pages[f.page].url.path)
       => f.claim \subseteq Claims(scan, f.page, f.factKey)
    /\ \A g \in found :
         /\ PageKey(scan.pages[f.page].url) = PageKey(scan.pages[g.page].url)
         /\ [f EXCEPT !.page = g.page] = g
         => f = g

(* Loading converges: once a load has run to its end, the store holds the   *)
(* last row of every fact of the file and every pattern of it, whatever     *)
(* earlier loads left behind half done.                                     *)
Executed(into) == {n \in 1 .. executed : release[n].into = into}
LoadConverges ==
  executed = Len(release) =>
    /\ \A n \in Executed("ground_truth") :
         (\A m \in Executed("ground_truth") :
            m > n => release[m].row.key # release[n].row.key)
         => /\ release[n].row.key \in DOMAIN table
            /\ table[release[n].row.key] = release[n].row
    /\ {release[n].row : n \in Executed("fact_patterns")} \subseteq patterns
=============================================================================
