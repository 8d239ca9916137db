--------------------------- MODULE HistoryReaders ---------------------------
(***************************************************************************)
(* A reader of the history (src/src/index.ts GET /history and GET /report,  *)
(* src/src/history.ts) while invocations write it.                          *)
(*                                                                          *)
(* Paging is a request per page, each handing back the cursor of the last   *)
(* one; a report is one request with three statements.  Rows come newest    *)
(* first, in any order among rows of equal time.  GET /changes and          *)
(* GET /alerts page and list their tables the same way.                     *)
(***************************************************************************)
EXTENDS History, FiniteSetsExt

CONSTANTS
  AskedLimit,               \* what the query says of the limit
  DefaultLimit, MaxLimit    \* parseListLimit's

ASSUME LimitAssumption == DefaultLimit \in Nat \ {0} /\ MaxLimit \in Nat \ {0}

VARIABLE reader   \* [pc, domain, before, rows, changes, content, began]

allVars == <<vars, reader>>

NoCursor == Horizon + 1    \* no `before` in the query
NoReader == [pc |-> "idle", domain |-> "none", before |-> NoCursor, rows |-> <<>>,
             changes |-> {}, content |-> NoRow, began |-> {}]

InitR == Init /\ reader = NoReader
-----------------------------------------------------------------------------
ParseListLimit(asked, default, max) ==
  IF asked \in Nat \ {0} THEN Min({asked, max}) ELSE default
Limit == ParseListLimit(AskedLimit, DefaultLimit, MaxLimit)

RowsOf(domain) == {i \in Rows : snapshots[i].domain = domain}

(* Mutant: the cursor's own row is part of the next page. *)
OlderOrEqual(rows, before) == {i \in rows : snapshots[i].at <= before}
Older(rows, before) == {i \in rows : snapshots[i].at < before}

(* ORDER BY scanned_at DESC LIMIT n *)
NewestFirst(rows) ==
  {listing \in SetToSeqs(rows) :
     \A k, l \in DOMAIN listing :
       k < l => snapshots[listing[k]].at >= snapshots[listing[l]].at}
Listings(rows, n) ==
  {SubSeq(listing, 1, Min({n, Len(listing)})) : listing \in NewestFirst(rows)}

(* Mutant: ORDER BY scanned_at without DESC. *)
OldestRaw(domain) == Oldest(Earlier(domain, NoCursor))
(* getLatestSnapshotRaw: any of the newest complete rows. *)
LatestRaw(domain) == Latest(Earlier(domain, NoCursor))

(* toChangeEntry, what the report shows of a change. *)
ChangeEntry(c) ==
  [to |-> changes[c].to, materiality |-> Materiality(changes[c].from, changes[c].to)]
-----------------------------------------------------------------------------
Reads(next) == reader' = next /\ UNCHANGED vars

(* began is not in the program: the rows stored when the reading began. *)
Asks(domain, pc) ==
  /\ reader.pc = "idle"
  /\ Reads([NoReader EXCEPT !.pc = pc, !.domain = domain, !.began = RowsOf(domain)])
AskHistory(domain) == Asks(domain, "page")
AskReport(domain)  == Asks(domain, "listing")

(* listSnapshotHistory: a full page has a nextBefore, which the reader      *)
(* follows.                                                                 *)
ReadPage ==
  /\ reader.pc = "page"
  /\ \E page \in Listings(Older(RowsOf(reader.domain), reader.before), Limit) :
       IF Len(page) = Limit
       THEN Reads([reader EXCEPT !.rows = @ \o page,
                                 !.before = snapshots[Last(page)].at])
       ELSE Reads([reader EXCEPT !.rows = @ \o page, !.pc = "read"])

(* GET /report: the newest hundred rows, the newest changes, and the        *)
(* newest complete row in full; then buildDigest.                           *)
ReadListing ==
  /\ reader.pc = "listing"
  /\ \E listing \in Listings(RowsOf(reader.domain), MaxLimit) :
       Reads([reader EXCEPT !.pc = "changes", !.rows = listing])

ReadChanges ==
  /\ reader.pc = "changes"
  /\ Reads([reader EXCEPT !.pc = "raw",
       !.changes = {ChangeEntry(c) : c \in {c \in DOMAIN changes :
                                              changes[c].domain = reader.domain}}])

ReadRaw ==
  /\ reader.pc = "raw"
  /\ \/ \E i \in LatestRaw(reader.domain) :
          Reads([reader EXCEPT !.pc = "digest", !.content = i])
     \/ /\ LatestRaw(reader.domain) = {}
        /\ Reads([reader EXCEPT !.pc = "digest"])

(* "history storage unavailable", "report unavailable" *)
ReadFails ==
  /\ "storage" \in Faults /\ reader.pc \in {"page", "listing", "changes", "raw"}
  /\ Reads(NoReader)

Reader == \/ \E domain \in Domains : AskHistory(domain) \/ AskReport(domain)
          \/ ReadPage \/ ReadListing \/ ReadChanges \/ ReadRaw \/ ReadFails

NextR == Reader \/ (Next /\ UNCHANGED reader)
SpecR == InitR /\ [][NextR]_allVars /\ Fairness
-----------------------------------------------------------------------------
(* A reader who follows nextBefore to the end has every row that was stored *)
(* when he began, newest first and once, whatever was stored meanwhile; he  *)
(* may miss a row only if it has the time of one he was shown.              *)
PagesComplete ==
  /\ \A k, l \in DOMAIN reader.rows : k < l =>
       /\ reader.rows[k] # reader.rows[l]
       /\ snapshots[reader.rows[k]].at >= snapshots[reader.rows[l]].at
  /\ reader.pc = "read" =>
       \A i \in reader.began : \E k \in DOMAIN reader.rows :
         snapshots[reader.rows[k]].at = snapshots[i].at

(* The content findings of a report are those of a complete scan, no older  *)
(* than any complete one the report counts or lists a change of, although   *)
(* rows are stored between its three reads.                                 *)
ReportCurrent ==
  reader.pc = "digest" =>
    \A i \in Range(reader.rows) \cup {e.to : e \in reader.changes} :
      SnapshotStatus(snapshots[i].seen) = "complete" =>
        /\ reader.content \in RowsOf(reader.domain)
        /\ SnapshotStatus(snapshots[reader.content].seen) = "complete"
        /\ snapshots[reader.content].at >= snapshots[i].at
=============================================================================
