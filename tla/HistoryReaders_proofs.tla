----------------------- MODULE HistoryReaders_proofs -----------------------
(***************************************************************************)
(* For any number of invocations writing the history, under every fault:    *)
(* what a reader of it is shown.                                            *)
(***************************************************************************)
EXTENDS HistoryReaders, History_proofs

Time(i) == snapshots[i].at

LEMMA LimitPositive == Limit \in Nat \ {0}
<1>1. CASE AskedLimit \in Nat \ {0}
  <2>1. Min({AskedLimit, MaxLimit}) \in {AskedLimit, MaxLimit}
    BY <1>1, LesserOfTwo, LimitAssumption
  <2>2. QED  BY <1>1, <2>1, LimitAssumption DEF Limit, ParseListLimit
<1>2. CASE AskedLimit \notin Nat \ {0}
  BY <1>2, LimitAssumption DEF Limit, ParseListLimit
<1>3. QED  BY <1>1, <1>2

(* SetToSeqs: each element of a finite set once. *)
LEMMA Arranged ==
  ASSUME NEW S, IsFiniteSet(S), NEW s \in SetToSeqs(S)
  PROVE  /\ s \in Seq(S)
         /\ \A k, l \in DOMAIN s : k # l => s[k] # s[l]
         /\ \A x \in S : \E k \in DOMAIN s : s[k] = x
<1> DEFINE c == Cardinality(S)
<1>1. c \in Nat
  BY FS_CardinalityType
<1>2. s \in [1..c -> S] /\ \A k, l \in 1..c : k # l => s[k] # s[l]
  BY DEF SetToSeqs
<1>3. s \in Injection(1..c, S)
  BY <1>2 DEF Injection, IsInjective
<1>4. Cardinality(1..c) = c
  BY <1>1, FS_Interval
<1>5. s \in Surjection(1..c, S)
  BY <1>3, <1>4, FS_Injection
<1>6. QED  BY <1>1, <1>2, <1>5 DEF Surjection

(* ORDER BY scanned_at DESC LIMIT n: the n newest rows, each once. *)
LEMMA Listed ==
  ASSUME TypeOK, NEW rows, rows \subseteq Rows, NEW n \in Nat \ {0},
         NEW page \in Listings(rows, n)
  PROVE  /\ page \in Seq(rows) /\ Len(page) \in 0 .. n
         /\ \A k, l \in DOMAIN page :
              k < l => page[k] # page[l] /\ Time(page[k]) >= Time(page[l])
         /\ \A i \in rows :
              \/ \E k \in DOMAIN page : page[k] = i
              \/ Len(page) = n /\ \A k \in DOMAIN page : Time(page[k]) >= Time(i)
<1>1. PICK listing \in NewestFirst(rows) :
        page = SubSeq(listing, 1, Min({n, Len(listing)}))
  BY DEF Listings
<1>2. IsFiniteSet(rows)
  <2>1. IsFiniteSet(Rows)
    BY Types, RowsFinite DEF Rows
  <2>2. QED  BY <2>1, FS_Subset
<1>3. /\ listing \in Seq(rows)
      /\ \A k, l \in DOMAIN listing : k # l => listing[k] # listing[l]
      /\ \A x \in rows : \E k \in DOMAIN listing : listing[k] = x
      /\ \A k, l \in DOMAIN listing : k < l => Time(listing[k]) >= Time(listing[l])
  BY <1>2, Arranged DEF NewestFirst, Time
<1> DEFINE m == Min({n, Len(listing)})
<1>4. m \in {n, Len(listing)} /\ m <= n /\ m <= Len(listing) /\ m \in Nat
  <2>1. Len(listing) \in Nat
    BY <1>3
  <2>2. PICK l \in Nat : l = Len(listing)
    BY <2>1
  <2>3. Min({n, l}) \in {n, l} /\ Min({n, l}) <= n /\ Min({n, l}) <= l
    <3>1. n \in Int /\ l \in Int
      OBVIOUS
    <3>2. QED  BY <3>1, LesserOfTwo, Zenon
  <2>4. m = Min({n, l})
    BY <2>2
  <2> HIDE DEF m
  <2>5. QED  BY <2>2, <2>3, <2>4
<1> HIDE DEF m
<1>5. /\ page \in Seq(rows) /\ Len(page) = m
      /\ \A k \in 1 .. m : page[k] = listing[k]
  <2>1. \A k \in 1 .. m : listing[k] \in rows
    BY <1>3, <1>4
  <2>2. /\ SubSeq(listing, 1, m) \in Seq(rows)
        /\ Len(SubSeq(listing, 1, m)) = IF 1 <= m THEN m - 1 + 1 ELSE 0
        /\ \A k \in 1 .. m - 1 + 1 : SubSeq(listing, 1, m)[k] = listing[1 + k - 1]
    BY <1>4, <2>1, SubSeqProperties
  <2>3. page = SubSeq(listing, 1, m)
    BY <1>1 DEF m
  <2>4. QED  BY <1>4, <2>2, <2>3
<1>6. DOMAIN page = 1 .. m
  BY <1>5
<1>7. \A k, l \in DOMAIN page :
        k < l => page[k] # page[l] /\ Time(page[k]) >= Time(page[l])
  <2> SUFFICES ASSUME NEW k \in 1 .. m, NEW l \in 1 .. m, k < l
               PROVE  page[k] # page[l] /\ Time(page[k]) >= Time(page[l])
    BY <1>6
  <2>1. k \in DOMAIN listing /\ l \in DOMAIN listing /\ k # l
    BY <1>3, <1>4
  <2>2. page[k] = listing[k] /\ page[l] = listing[l]
    BY <1>5
  <2>3. QED  BY <1>3, <2>1, <2>2
<1>8. ASSUME NEW i \in rows, ~\E k \in DOMAIN page : page[k] = i
      PROVE  Len(page) = n /\ \A k \in DOMAIN page : Time(page[k]) >= Time(i)
  <2>1. PICK l \in DOMAIN listing : listing[l] = i
    BY <1>3
  <2>2. l \in 1 .. Len(listing) /\ Len(listing) \in Nat
    BY <1>3
  <2>3. m < l
    BY <1>4, <1>5, <1>6, <1>8, <2>1, <2>2
  <2>4. m = n
    BY <1>4, <2>2, <2>3
  <2>5. ASSUME NEW k \in DOMAIN page PROVE Time(page[k]) >= Time(i)
    <3>1. k \in DOMAIN listing /\ k < l /\ page[k] = listing[k]
      BY <1>3, <1>4, <1>5, <1>6, <2>2, <2>3
    <3>2. QED  BY <1>3, <2>1, <3>1
  <2>6. QED  BY <1>5, <2>4, <2>5
<1>9. QED  BY <1>4, <1>5, <1>7, <1>8
-----------------------------------------------------------------------------
(* Nothing is dated after the clock stops, so that no cursor at all is      *)
(* beyond every row.                                                        *)
Dated ==
  /\ now <= Horizon
  /\ \A w \in Workers : work[w].at <= Horizon
  /\ \A i \in Rows : snapshots[i].at <= Horizon

LEMMA ActsDate ==
  ASSUME TypeOK, NEW w \in Workers, Acts(w)
  PROVE  work'[w].at \in {work[w].at, now, 0}
<1> USE DEF DomainDone, Goto, Resting, JobType
<1>0. work \in [Workers -> JobType] /\ work[w] \in JobType
  BY Types
<1>1. CASE CronFires(w) \/ \E d \in Domains : Request(w, d)
  BY <1>0, <1>1 DEF CronFires, Request, Invoke
<1>2. CASE ScanStarts(w) \/ Ends(w) \/ \E s \in Sightings : ScanReturns(w, s)
  BY <1>0, <1>2 DEF ScanStarts, Ends, ScanReturns
<1>3. CASE InsertSnapshot(w) \/ \E b \in BOOLEAN : InsertSnapshotFails(w, b)
  BY <1>0, <1>3 DEF InsertSnapshot, InsertSnapshotFails
<1>4. CASE NothingToCompare(w) \/ SelectPriorFails(w)
             \/ \E i \in DOMAIN snapshots : SelectPrior(w, i)
  BY <1>0, <1>4 DEF NothingToCompare, SelectPriorFails, SelectPrior
<1>5. CASE InsertChange(w) \/ \E b \in BOOLEAN : InsertChangeFails(w, b)
  BY <1>0, <1>5 DEF InsertChange, InsertChangeFails
<1>6. CASE Delivered(w) \/ Undelivered(w)
  BY <1>0, <1>6 DEF Delivered, Undelivered
<1>7. CASE InsertAlert(w) \/ \E b \in BOOLEAN : InsertAlertFails(w, b)
  BY <1>0, <1>7 DEF InsertAlert, InsertAlertFails
<1>8. CASE Evicted(w)
  BY <1>0, <1>8 DEF Evicted
<1>9. QED  BY <1>1, <1>2, <1>3, <1>4, <1>5, <1>6, <1>7, <1>8
           DEF Acts, Works, StorageFails

LEMMA DatedKept == HistoryInv /\ Dated /\ [Next]_vars => Dated'
<1> SUFFICES ASSUME HistoryInv, Dated, [Next]_vars PROVE Dated'
  OBVIOUS
<1>1. CASE Deploy \/ Tick \/ UNCHANGED vars
  <2>1. UNCHANGED <<work, snapshots>>
    BY <1>1 DEF Deploy, Tick, tables, vars
  <2>2. now' <= Horizon
    BY <1>1, HistoryAssumption
       DEF Dated, Deploy, Tick, vars, clock, HistoryInv, TypeOK
  <2>3. QED  BY <2>1, <2>2 DEF Dated, Rows
<1>2. ASSUME NEW w \in Workers, Acts(w) PROVE Dated'
  <2>1. /\ Stores(w) /\ UNCHANGED now
        /\ \A v \in Workers \ {w} : work'[v] = work[v]
        /\ work'[w].at \in {work[w].at, now, 0}
    BY <1>2, ActsStore, ActsDate DEF HistoryInv
  <2>2. \A v \in Workers : work'[v].at <= Horizon
    BY <2>1, HistoryAssumption DEF Dated
  <2>3. CASE UNCHANGED snapshots
    BY <2>1, <2>2, <2>3 DEF Dated, Rows
  <2>4. CASE StoresRow(w)
    <3> DEFINE new == Len(snapshots) + 1
    <3>1. /\ snapshots \in Seq(RowType) /\ snapshots' \in Seq(RowType)
          /\ Grown(snapshots, snapshots') /\ Len(snapshots') = new
          /\ snapshots'[new].at = work[w].at
      <4>1. snapshots \in Seq(RowType) /\ snapshots' \in Seq(RowType)
        BY <2>1, TablesGrow, Types DEF HistoryInv
      <4>2. snapshots'[new] = [domain |-> Domain(w), at |-> work[w].at,
                  version |-> work[w].version, seen |-> work[w].seen, by |-> w]
        BY <2>4, RowStored DEF StoresRow
      <4>3. snapshots' = Append(snapshots, [domain |-> Domain(w), at |-> work[w].at,
                  version |-> work[w].version, seen |-> work[w].seen, by |-> w])
        BY <2>4 DEF StoresRow, StoreSnapshot
      <4>4. Len(snapshots') = new
        BY <4>1, <4>3
      <4> HIDE DEF new
      <4>5. QED  BY <2>1, <4>1, <4>2, <4>4, TablesGrow
    <3>2. \A i \in Rows' : i \in Rows \/ i = new
      BY <3>1 DEF Rows
    <3> HIDE DEF new
    <3>3. \A i \in Rows' : snapshots'[i].at <= Horizon
      BY <3>1, <3>2 DEF Dated, Grown, Rows
    <3>4. QED  BY <2>1, <2>2, <3>3 DEF Dated
  <2>5. QED  BY <2>1, <2>3, <2>4
             DEF Stores, StoresNothing, StoresChange, Tells, StoresAlert, tables
<1>3. QED  BY <1>1, <1>2 DEF Next, Arrivals, Progress, Acts
-----------------------------------------------------------------------------
(* What a reader holds, of the table S of rows. *)
Entries == [to : Nat, materiality : {"critical", "material", "informational"}]
ReaderType ==
  [pc : {"idle", "page", "read", "listing", "changes", "raw", "digest"},
   domain : Domains \cup {"none"}, before : Nat, rows : Seq(Nat),
   changes : SUBSET Entries, content : Nat, began : SUBSET Nat]

RowsIn(S, domain) == {i \in DOMAIN S : S[i].domain = domain}

NewestShownFirst(r, S) ==
  \A k, l \in DOMAIN r.rows : k < l =>
    r.rows[k] # r.rows[l] /\ S[r.rows[k]].at >= S[r.rows[l]].at

ShownAt(r, S, i) == \E k \in DOMAIN r.rows : S[r.rows[k]].at = S[i].at

(* The pages reach back to the cursor: every row of the beginning that is   *)
(* no older was shown, or one of its time.                                  *)
ReadUpTo(r, S) ==
  /\ \A k \in DOMAIN r.rows : S[r.rows[k]].at >= r.before
  /\ \A i \in r.began : S[i].at >= r.before => ShownAt(r, S, i)

Current(r, S) ==
  \A i \in Range(r.rows) \cup {e.to : e \in r.changes} :
    SnapshotStatus(S[i].seen) = "complete" =>
      /\ r.content \in RowsIn(S, r.domain)
      /\ SnapshotStatus(S[r.content].seen) = "complete"
      /\ S[r.content].at >= S[i].at

OfDomain(r, S) ==
  /\ r.rows \in Seq(RowsIn(S, r.domain))
  /\ r.began \subseteq RowsIn(S, r.domain)
  /\ \A e \in r.changes : e.to \in RowsIn(S, r.domain)

Holds(r, S) ==
  /\ r \in ReaderType
  /\ OfDomain(r, S)
  /\ NewestShownFirst(r, S)
  /\ r.pc = "page" => ReadUpTo(r, S)
  /\ r.pc = "read" => \A i \in r.began : ShownAt(r, S, i)
  /\ r.pc = "digest" => Current(r, S)

ReadersInv == HistoryInv /\ Dated /\ Holds(reader, snapshots)

LEMMA HeldShape ==
  ASSUME Holds(reader, snapshots)
  PROVE  PagesComplete /\ ReportCurrent
<1>1. RowsIn(snapshots, reader.domain) = RowsOf(reader.domain)
  BY DEF RowsIn, RowsOf, Rows
<1>2. PagesComplete
  BY DEF Holds, NewestShownFirst, ShownAt, PagesComplete
<1>3. ReportCurrent
  BY <1>1 DEF Holds, Current, ReportCurrent
<1>4. QED  BY <1>2, <1>3

(* Rows stored meanwhile take nothing from what the reader holds. *)
LEMMA HeldKept ==
  ASSUME NEW S, NEW T, Grown(S, T), NEW r, Holds(r, S)
  PROVE  Holds(r, T)
<1>1. \A i \in RowsIn(S, r.domain) : i \in RowsIn(T, r.domain) /\ T[i] = S[i]
  BY DEF Grown, RowsIn
<1>2. r \in ReaderType /\ r.rows \in Seq(RowsIn(S, r.domain)) /\ OfDomain(r, S)
  BY DEF Holds, OfDomain
<1>3. \A k \in DOMAIN r.rows : r.rows[k] \in RowsIn(S, r.domain)
  BY <1>2
<1>4. r.rows \in Seq(RowsIn(T, r.domain))
  <2>1. RowsIn(S, r.domain) \subseteq RowsIn(T, r.domain)
    BY <1>1
  <2>2. QED  BY <1>2, <2>1, SeqMonotonic
<1>5. OfDomain(r, T)
  BY <1>1, <1>2, <1>4 DEF OfDomain
<1>6. NewestShownFirst(r, T)
  BY <1>1, <1>3 DEF Holds, NewestShownFirst
<1>7. \A i \in r.began : ShownAt(r, S, i) => ShownAt(r, T, i)
  BY <1>1, <1>2, <1>3 DEF ShownAt, OfDomain
<1>8. r.pc = "page" => ReadUpTo(r, T)
  BY <1>1, <1>2, <1>3, <1>7 DEF Holds, ReadUpTo, OfDomain
<1>9. r.pc = "digest" => Current(r, T)
  <2> SUFFICES ASSUME r.pc = "digest",
                      NEW i \in Range(r.rows) \cup {e.to : e \in r.changes},
                      SnapshotStatus(T[i].seen) = "complete"
               PROVE  /\ r.content \in RowsIn(T, r.domain)
                      /\ SnapshotStatus(T[r.content].seen) = "complete"
                      /\ T[r.content].at >= T[i].at
    BY DEF Current
  <2>1. i \in RowsIn(S, r.domain)
    BY <1>2, <1>3 DEF Range, OfDomain
  <2>2. SnapshotStatus(S[i].seen) = "complete"
    BY <1>1, <2>1
  <2>3. /\ r.content \in RowsIn(S, r.domain)
        /\ SnapshotStatus(S[r.content].seen) = "complete"
        /\ S[r.content].at >= S[i].at
    BY <2>2 DEF Holds, Current
  <2>4. QED  BY <1>1, <2>1, <2>3
<1>10. QED  BY <1>2, <1>5, <1>6, <1>7, <1>8, <1>9 DEF Holds
-----------------------------------------------------------------------------
(* The reader's own steps. *)
LEMMA AsksHolds ==
  ASSUME ReadersInv, NEW domain \in Domains, AskHistory(domain) \/ AskReport(domain)
  PROVE  Holds(reader', snapshots)
<1>1. PICK pc \in {"page", "listing"} :
        reader' = [NoReader EXCEPT !.pc = pc, !.domain = domain,
                                   !.began = RowsOf(domain)]
  BY DEF AskHistory, AskReport, Asks, Reads
<1>2. RowsOf(domain) = RowsIn(snapshots, domain) /\ RowsOf(domain) \subseteq Nat
  <2>1. snapshots \in Seq(RowType)
    BY Types DEF ReadersInv, HistoryInv
  <2>2. QED  BY <2>1 DEF RowsOf, RowsIn, Rows
<1>3. /\ reader'.pc = pc /\ reader'.domain = domain /\ reader'.before = Horizon + 1
      /\ reader'.rows = <<>> /\ reader'.changes = {} /\ reader'.content = NoRow
      /\ reader'.began = RowsOf(domain)
  BY <1>1 DEF NoReader, NoCursor
<1>4. reader' \in ReaderType
  <2>1. reader' = [pc |-> pc, domain |-> domain, before |-> Horizon + 1, rows |-> <<>>,
                   changes |-> {}, content |-> 0, began |-> RowsOf(domain)]
    BY <1>1 DEF NoReader, NoCursor, NoRow
  <2>2. /\ <<>> \in Seq(Nat) /\ {} \in SUBSET Entries /\ Horizon + 1 \in Nat
        /\ RowsOf(domain) \in SUBSET Nat
    BY <1>2, HistoryAssumption
  <2>3. QED  BY <2>1, <2>2 DEF ReaderType
<1>5. \A i \in RowsOf(domain) : ~(snapshots[i].at >= Horizon + 1)
  <2>1. \A i \in Rows : snapshots[i].at <= Horizon /\ snapshots[i].at \in Nat
    <3>1. snapshots \in Seq(RowType)
      BY Types DEF ReadersInv, HistoryInv
    <3>2. \A i \in Rows : snapshots[i] \in RowType
      BY <3>1 DEF Rows
    <3>3. QED  BY <3>2 DEF ReadersInv, Dated, RowType
  <2>2. QED  BY <2>1, HistoryAssumption DEF RowsOf
<1>6. QED
  BY <1>2, <1>3, <1>4, <1>5
     DEF Holds, OfDomain, NewestShownFirst, ReadUpTo, Current

LEMMA ReadPageHolds ==
  ASSUME ReadersInv, ReadPage
  PROVE  Holds(reader', snapshots)
<1> DEFINE older == Older(RowsOf(reader.domain), reader.before)
<1>0. /\ reader.pc = "page" /\ reader \in ReaderType /\ TypeOK
      /\ OfDomain(reader, snapshots) /\ NewestShownFirst(reader, snapshots)
      /\ ReadUpTo(reader, snapshots)
      /\ RowsOf(reader.domain) = RowsIn(snapshots, reader.domain)
  BY DEF ReadPage, ReadersInv, HistoryInv, Holds, RowsOf, RowsIn, Rows
<1>1. PICK page \in Listings(older, Limit) :
        \/ /\ Len(page) = Limit
           /\ reader' = [reader EXCEPT !.rows = @ \o page,
                                       !.before = snapshots[Last(page)].at]
        \/ /\ Len(page) # Limit
           /\ reader' = [reader EXCEPT !.rows = @ \o page, !.pc = "read"]
  BY DEF ReadPage, Reads
<1>2. /\ older \subseteq Rows
      /\ \A i \in older : /\ snapshots[i].domain = reader.domain
                          /\ snapshots[i].at < reader.before
  BY DEF Older, RowsOf
<1> HIDE DEF older
<1>3. /\ page \in Seq(older) /\ Len(page) \in 0 .. Limit /\ Limit \in Nat \ {0}
      /\ \A k, l \in DOMAIN page :
           k < l => page[k] # page[l] /\ Time(page[k]) >= Time(page[l])
      /\ \A i \in older :
           \/ \E k \in DOMAIN page : page[k] = i
           \/ Len(page) = Limit /\ \A k \in DOMAIN page : Time(page[k]) >= Time(i)
  BY <1>0, <1>2, LimitPositive, Listed
<1>4. \A i \in Rows : snapshots[i].at \in Nat /\ i \in Nat
  <2>1. snapshots \in Seq(RowType)
    BY <1>0, Types
  <2>2. \A i \in Rows : snapshots[i] \in RowType /\ i \in Nat
    BY <2>1 DEF Rows
  <2>3. QED  BY <2>2 DEF RowType
<1> DEFINE rows == reader.rows \o page
<1>5. /\ reader.rows \in Seq(RowsIn(snapshots, reader.domain))
      /\ page \in Seq(RowsIn(snapshots, reader.domain))
  <2>1. older \subseteq RowsIn(snapshots, reader.domain)
    BY <1>2 DEF RowsIn, Rows
  <2>2. QED  BY <1>0, <1>3, <2>1, SeqMonotonic DEF OfDomain
<1>6. /\ rows \in Seq(RowsIn(snapshots, reader.domain))
      /\ DOMAIN rows = 1 .. Len(reader.rows) + Len(page)
      /\ \A k \in 1 .. Len(reader.rows) : rows[k] = reader.rows[k]
      /\ \A k \in 1 .. Len(page) : rows[Len(reader.rows) + k] = page[k]
  BY <1>5, ConcatProperties
<1>7. Len(reader.rows) \in Nat /\ DOMAIN reader.rows = 1 .. Len(reader.rows)
      /\ Len(page) \in Nat /\ DOMAIN page = 1 .. Len(page)
  BY <1>5
<1> HIDE DEF rows
<1>8. /\ reader'.rows = rows /\ reader'.domain = reader.domain
      /\ reader'.began = reader.began /\ reader'.changes = reader.changes
      /\ \/ /\ Len(page) = Limit
            /\ reader'.pc = "page" /\ reader'.before = snapshots[Last(page)].at
         \/ Len(page) # Limit /\ reader'.pc = "read"
  BY <1>0, <1>1 DEF rows, ReaderType
<1>9. reader' \in ReaderType
  <2>1. rows \in Seq(Nat)
    <3>1. RowsIn(snapshots, reader.domain) \subseteq Nat
      BY <1>4 DEF RowsIn, Rows
    <3>2. QED  BY <1>6, <3>1, SeqMonotonic
  <2>2. Len(page) = Limit => snapshots[Last(page)].at \in Nat
    BY <1>2, <1>3, <1>4, <1>7 DEF Last
  <2>3. reader' = IF Len(page) = Limit
                  THEN [reader EXCEPT !.rows = rows, !.before = snapshots[Last(page)].at]
                  ELSE [reader EXCEPT !.rows = rows, !.pc = "read"]
    BY <1>1 DEF rows
  <2>4. QED  BY <1>0, <2>1, <2>2, <2>3 DEF ReaderType
<1>10. OfDomain(reader', snapshots)
  BY <1>0, <1>6, <1>8 DEF OfDomain
<1>11. \A k \in DOMAIN rows :
         \/ k \in DOMAIN reader.rows /\ rows[k] = reader.rows[k]
         \/ k - Len(reader.rows) \in DOMAIN page /\ k > Len(reader.rows)
              /\ rows[k] = page[k - Len(reader.rows)]
  <2> SUFFICES ASSUME NEW k \in DOMAIN rows, k \notin DOMAIN reader.rows
               PROVE  /\ k - Len(reader.rows) \in DOMAIN page /\ k > Len(reader.rows)
                      /\ rows[k] = page[k - Len(reader.rows)]
    BY <1>6, <1>7
  <2>1. k - Len(reader.rows) \in 1 .. Len(page) /\ k > Len(reader.rows)
        /\ Len(reader.rows) + (k - Len(reader.rows)) = k
    <3>1. PICK m \in Nat, n \in Nat : m = Len(reader.rows) /\ n = Len(page)
      BY <1>7
    <3>2. k \in 1 .. m + n /\ k \notin 1 .. m
      BY <1>6, <1>7, <3>1
    <3>3. k - m \in 1 .. n /\ k > m /\ m + (k - m) = k
      BY <3>2
    <3>4. QED  BY <3>1, <3>3
  <2>2. QED  BY <1>6, <1>7, <2>1
<1>12. /\ \A k \in DOMAIN reader.rows :
             reader.rows[k] \in Rows /\ Time(reader.rows[k]) >= reader.before
       /\ \A k \in DOMAIN page :
             page[k] \in Rows /\ Time(page[k]) < reader.before
  BY <1>0, <1>2, <1>3, <1>5 DEF ReadUpTo, Time, RowsIn, Rows
<1>13. NewestShownFirst(reader', snapshots)
  <2> SUFFICES ASSUME NEW k \in DOMAIN rows, NEW l \in DOMAIN rows, k < l
               PROVE  rows[k] # rows[l] /\ Time(rows[k]) >= Time(rows[l])
    BY <1>8 DEF NewestShownFirst, Time
  <2>1. CASE l \in DOMAIN reader.rows
    BY <1>0, <1>6, <1>7, <2>1 DEF NewestShownFirst, Time
  <2>2. CASE k \in DOMAIN reader.rows /\ l \notin DOMAIN reader.rows
    <3>1. Time(rows[k]) >= reader.before /\ Time(rows[l]) < reader.before
      BY <1>6, <1>7, <1>11, <1>12, <2>2
    <3>2. Time(rows[k]) \in Nat /\ Time(rows[l]) \in Nat /\ reader.before \in Nat
      BY <1>0, <1>4, <1>11, <1>12 DEF Time, ReaderType
    <3>3. QED  BY <3>1, <3>2
  <2>3. CASE k \notin DOMAIN reader.rows /\ l \notin DOMAIN reader.rows
    <3>1. k - Len(reader.rows) < l - Len(reader.rows)
      BY <1>6, <1>7
    <3>2. QED  BY <1>3, <1>11, <2>3, <3>1
  <2>4. QED  BY <1>6, <1>7, <2>1, <2>2, <2>3
<1>14. ASSUME NEW i \in reader.began, Time(i) >= reader.before
       PROVE  ShownAt(reader', snapshots, i)
  <2>1. PICK k \in DOMAIN reader.rows : Time(reader.rows[k]) = Time(i)
    BY <1>0, <1>14 DEF ReadUpTo, ShownAt, Time
  <2>2. k \in DOMAIN rows /\ rows[k] = reader.rows[k]
    BY <1>6, <1>7
  <2>3. QED  BY <1>8, <2>1, <2>2 DEF ShownAt, Time
<1>15. ASSUME NEW l \in DOMAIN page
       PROVE  \E k \in DOMAIN rows : rows[k] = page[l]
  <2>1. Len(reader.rows) + l \in DOMAIN rows
    BY <1>6, <1>7
  <2>2. QED  BY <1>6, <1>7, <2>1
<1>16. ASSUME NEW i \in reader.began, ~(Time(i) >= reader.before)
       PROVE  \/ ShownAt(reader', snapshots, i)
              \/ Len(page) = Limit /\ ~(Time(i) >= snapshots[Last(page)].at)
  <2>1. i \in Rows /\ i \in older
    BY <1>0, <1>4, <1>16 DEF OfDomain, older, Older, Time, RowsIn, Rows, ReaderType
  <2>2. CASE \E l \in DOMAIN page : page[l] = i
    BY <1>8, <1>15, <2>2 DEF ShownAt
  <2>3. CASE Len(page) = Limit /\ \A l \in DOMAIN page : Time(page[l]) >= Time(i)
    <3>1. Len(page) \in DOMAIN page
      BY <1>3, <1>7, <2>3
    <3>2. Time(Last(page)) >= Time(i) /\ Last(page) \in Rows
      BY <1>12, <2>3, <3>1 DEF Last
    <3>3. CASE Time(Last(page)) = Time(i)
      <4>1. PICK k \in DOMAIN rows : rows[k] = Last(page)
        BY <1>15, <3>1 DEF Last
      <4>2. QED  BY <1>8, <3>3, <4>1 DEF ShownAt, Time
    <3>4. CASE Time(Last(page)) # Time(i)
      BY <1>4, <2>1, <2>3, <3>2, <3>4 DEF Time
    <3>5. QED  BY <3>3, <3>4
  <2>4. QED  BY <1>3, <2>1, <2>2, <2>3
<1>17. CASE Len(page) = Limit
  <2>1. \A k \in DOMAIN rows : Time(rows[k]) >= snapshots[Last(page)].at
    <3> SUFFICES ASSUME NEW k \in DOMAIN rows
                 PROVE  Time(rows[k]) >= Time(Last(page))
      BY DEF Time
    <3>1. Len(page) \in DOMAIN page /\ Last(page) = page[Len(page)]
      BY <1>3, <1>7, <1>17 DEF Last
    <3>2. /\ Time(Last(page)) \in Nat /\ Time(Last(page)) < reader.before
          /\ reader.before \in Nat /\ Time(rows[k]) \in Nat
      BY <1>0, <1>4, <1>11, <1>12, <3>1 DEF Time, ReaderType
    <3>3. CASE k \in DOMAIN reader.rows
      <4>1. Time(rows[k]) >= reader.before
        BY <1>6, <1>7, <1>12, <3>3
      <4>2. QED  BY <3>2, <4>1
    <3>4. CASE k \notin DOMAIN reader.rows
      <4>1. PICK l \in DOMAIN page : rows[k] = page[l]
        BY <1>11, <3>4
      <4>2. CASE l = Len(page)
        BY <3>1, <3>2, <4>1, <4>2
      <4>3. CASE l < Len(page)
        BY <1>3, <3>1, <4>1, <4>3
      <4>4. QED  BY <1>7, <4>2, <4>3
    <3>5. QED  BY <3>3, <3>4
  <2>2. \A i \in reader.began :
          Time(i) >= snapshots[Last(page)].at => ShownAt(reader', snapshots, i)
    BY <1>14, <1>16
  <2>3. ReadUpTo(reader', snapshots)
    BY <1>8, <1>17, <2>1, <2>2 DEF ReadUpTo, Time
  <2>4. QED  BY <1>8, <1>9, <1>10, <1>13, <1>17, <2>3 DEF Holds
<1>18. CASE Len(page) # Limit
  <2>1. \A i \in reader.began : ShownAt(reader', snapshots, i)
    BY <1>14, <1>16, <1>18
  <2>2. QED  BY <1>8, <1>9, <1>10, <1>13, <1>18, <2>1 DEF Holds
<1>19. QED  BY <1>17, <1>18

LEMMA ReadListingHolds ==
  ASSUME ReadersInv, ReadListing
  PROVE  Holds(reader', snapshots)
<1>0. /\ reader.pc = "listing" /\ reader \in ReaderType /\ TypeOK
      /\ OfDomain(reader, snapshots)
      /\ RowsOf(reader.domain) = RowsIn(snapshots, reader.domain)
  BY DEF ReadListing, ReadersInv, HistoryInv, Holds, RowsOf, RowsIn, Rows
<1>1. PICK listing \in Listings(RowsOf(reader.domain), MaxLimit) :
        reader' = [reader EXCEPT !.pc = "changes", !.rows = listing]
  BY DEF ReadListing, Reads
<1>2. RowsOf(reader.domain) \subseteq Rows
  BY DEF RowsOf
<1>3. /\ listing \in Seq(RowsOf(reader.domain))
      /\ \A k, l \in DOMAIN listing :
           k < l => listing[k] # listing[l] /\ Time(listing[k]) >= Time(listing[l])
  BY <1>0, <1>2, Listed, LimitAssumption
<1>4. listing \in Seq(Nat)
  <2>1. snapshots \in Seq(RowType)
    BY <1>0, Types
  <2>2. RowsOf(reader.domain) \subseteq Nat
    BY <1>2, <2>1 DEF Rows
  <2>3. QED  BY <1>3, <2>2, SeqMonotonic
<1>5. /\ reader' \in ReaderType /\ reader'.pc = "changes" /\ reader'.rows = listing
      /\ reader'.domain = reader.domain /\ reader'.began = reader.began
      /\ reader'.changes = reader.changes
  BY <1>0, <1>1, <1>4 DEF ReaderType
<1>6. NewestShownFirst(reader', snapshots)
  BY <1>3, <1>5 DEF NewestShownFirst, Time
<1>7. OfDomain(reader', snapshots)
  BY <1>0, <1>3, <1>5 DEF OfDomain
<1>8. QED  BY <1>5, <1>6, <1>7 DEF Holds

LEMMA ReadChangesHolds ==
  ASSUME ReadersInv, ReadChanges
  PROVE  Holds(reader', snapshots)
<1> DEFINE told == {ChangeEntry(c) : c \in {c \in DOMAIN changes :
                                              changes[c].domain = reader.domain}}
<1>0. /\ reader \in ReaderType /\ TypeOK /\ ChangesAnchored
      /\ OfDomain(reader, snapshots) /\ NewestShownFirst(reader, snapshots)
      /\ reader' = [reader EXCEPT !.pc = "raw", !.changes = told]
  BY DEF ReadChanges, Reads, ReadersInv, HistoryInv, Holds
<1>1. \A e \in told : e \in Entries /\ e.to \in RowsIn(snapshots, reader.domain)
  <2> SUFFICES ASSUME NEW c \in DOMAIN changes, changes[c].domain = reader.domain
               PROVE  /\ ChangeEntry(c) \in Entries
                      /\ ChangeEntry(c).to \in RowsIn(snapshots, reader.domain)
    OBVIOUS
  <2>1. changes[c].to \in RowsIn(snapshots, reader.domain)
    BY <1>0 DEF ChangesAnchored, RowsIn, Rows
  <2>2. changes[c].to \in Nat
    <3>1. changes \in Seq(ChangeType)
      BY <1>0, Types
    <3>2. changes[c] \in ChangeType
      BY <3>1
    <3>3. QED  BY <3>2 DEF ChangeType
  <2>3. Materiality(changes[c].from, changes[c].to)
          \in {"critical", "material", "informational"}
    BY DEF Materiality, RecordMateriality
  <2>4. QED  BY <2>1, <2>2, <2>3 DEF ChangeEntry, Entries
<1> HIDE DEF told
<1>2. told \in SUBSET Entries
  BY <1>1
<1>3. /\ reader' \in ReaderType /\ reader'.pc = "raw" /\ reader'.rows = reader.rows
      /\ reader'.domain = reader.domain /\ reader'.began = reader.began
      /\ reader'.changes = told
  BY <1>0, <1>2 DEF ReaderType
<1>4. NewestShownFirst(reader', snapshots)
  BY <1>0, <1>3 DEF NewestShownFirst
<1>5. OfDomain(reader', snapshots)
  BY <1>0, <1>1, <1>3 DEF OfDomain
<1>6. QED  BY <1>3, <1>4, <1>5 DEF Holds

(* The newest complete row is read last: it is as new as any that the       *)
(* reader counts or has a change of.                                        *)
LEMMA ReadRawHolds ==
  ASSUME ReadersInv, ReadRaw
  PROVE  Holds(reader', snapshots)
<1> DEFINE complete == Earlier(reader.domain, NoCursor)
<1>0. /\ reader \in ReaderType /\ TypeOK /\ Dated /\ snapshots \in Seq(RowType)
      /\ OfDomain(reader, snapshots) /\ NewestShownFirst(reader, snapshots)
  BY Types DEF ReadersInv, HistoryInv, Holds
<1>1. PICK i \in Nat :
        /\ reader' = [reader EXCEPT !.pc = "digest", !.content = i]
        /\ i \in LatestRaw(reader.domain) \/ LatestRaw(reader.domain) = {}
  <2>1. LatestRaw(reader.domain) \subseteq Nat
    BY <1>0 DEF LatestRaw, Latest, Earlier
  <2>2. ReadRaw => \/ \E i \in LatestRaw(reader.domain) :
                       reader' = [reader EXCEPT !.pc = "digest", !.content = i]
                   \/ /\ LatestRaw(reader.domain) = {}
                      /\ reader' = [reader EXCEPT !.pc = "digest"]
    BY DEF ReadRaw, Reads
  <2>3. [reader EXCEPT !.pc = "digest"]
          = [reader EXCEPT !.pc = "digest", !.content = reader.content]
    BY <1>0 DEF ReaderType
  <2>4. reader.content \in Nat
    BY <1>0 DEF ReaderType
  <2>5. QED  BY <2>1, <2>2, <2>3, <2>4
<1>2. /\ reader' \in ReaderType /\ reader'.pc = "digest" /\ reader'.rows = reader.rows
      /\ reader'.domain = reader.domain /\ reader'.began = reader.began
      /\ reader'.changes = reader.changes /\ reader'.content = i
  BY <1>0, <1>1 DEF ReaderType
<1>3. \A j \in RowsIn(snapshots, reader.domain) :
        SnapshotStatus(snapshots[j].seen) = "complete" => j \in complete
  <2>1. \A j \in Rows : snapshots[j] \in RowType
    BY <1>0 DEF Rows
  <2>2. \A j \in Rows : snapshots[j].at \in Nat /\ snapshots[j].at <= Horizon
    BY <1>0, <2>1 DEF Dated, RowType
  <2>3. \A j \in Rows : snapshots[j].at < NoCursor
    BY <2>2, HistoryAssumption DEF NoCursor
  <2>4. QED  BY <2>3 DEF RowsIn, Earlier, Rows
<1>4. complete # {} => LatestRaw(reader.domain) # {}
  <2> SUFFICES ASSUME complete # {} PROVE LatestRaw(reader.domain) # {}
    OBVIOUS
  <2> DEFINE at == [j \in Rows |-> snapshots[j].at]
  <2>1. complete \subseteq Rows /\ IsFiniteSet(complete)
    <3>1. complete \subseteq Rows
      BY DEF Earlier, Rows
    <3>2. IsFiniteSet(Rows)
      BY <1>0, RowsFinite DEF Rows
    <3>3. QED  BY <3>1, <3>2, FS_Subset
  <2>2. \A j \in complete : at[j] \in Int
    <3>1. \A j \in Rows : snapshots[j] \in RowType
      BY <1>0 DEF Rows
    <3>2. QED  BY <2>1, <3>1 DEF RowType
  <2> HIDE DEF complete
  <2>3. PICK k \in complete : \A j \in complete : at[j] <= at[k]
    BY <2>1, <2>2, LargestExists, Zenon
  <2>4. QED  BY <2>1, <2>3 DEF LatestRaw, Latest, complete
<1>5. ASSUME NEW j \in RowsIn(snapshots, reader.domain),
             SnapshotStatus(snapshots[j].seen) = "complete"
      PROVE  /\ i \in RowsIn(snapshots, reader.domain)
             /\ SnapshotStatus(snapshots[i].seen) = "complete"
             /\ snapshots[i].at >= snapshots[j].at
  <2>1. j \in complete
    BY <1>3, <1>5
  <2>2. i \in LatestRaw(reader.domain)
    BY <1>1, <1>4, <2>1
  <2>3. i \in complete /\ snapshots[j].at <= snapshots[i].at
    BY <2>1, <2>2 DEF LatestRaw, Latest
  <2>4. snapshots[j].at \in Nat /\ snapshots[i].at \in Nat
    <3>1. \A k \in DOMAIN snapshots : snapshots[k] \in RowType
      BY <1>0
    <3>2. i \in DOMAIN snapshots /\ j \in DOMAIN snapshots
      BY <2>3 DEF Earlier, RowsIn
    <3>3. QED  BY <3>1, <3>2 DEF RowType
  <2>5. QED  BY <2>3, <2>4 DEF Earlier, RowsIn
<1>6. \A j \in Range(reader.rows) \cup {e.to : e \in reader.changes} :
        j \in RowsIn(snapshots, reader.domain)
  BY <1>0 DEF OfDomain, Range
<1>7. Current(reader', snapshots)
  BY <1>2, <1>5, <1>6 DEF Current
<1>8. NewestShownFirst(reader', snapshots) /\ OfDomain(reader', snapshots)
  BY <1>0, <1>2 DEF NewestShownFirst, OfDomain
<1>9. QED  BY <1>2, <1>7, <1>8 DEF Holds

LEMMA NothingHeld == Holds(NoReader, snapshots)
<1>1. NoReader \in ReaderType
  <2>1. <<>> \in Seq(Nat) /\ {} \in SUBSET Entries /\ Horizon + 1 \in Nat
    BY HistoryAssumption
  <2>2. QED  BY <2>1 DEF NoReader, NoCursor, NoRow, ReaderType
<1>2. /\ NoReader.pc = "idle" /\ NoReader.rows = <<>> /\ NoReader.began = {}
      /\ NoReader.changes = {}
  BY DEF NoReader
<1>3. QED  BY <1>1, <1>2 DEF Holds, OfDomain, NewestShownFirst

LEMMA ReadersStep == ReadersInv /\ [NextR]_allVars => ReadersInv'
<1> SUFFICES ASSUME ReadersInv, [NextR]_allVars PROVE ReadersInv'
  OBVIOUS
<1>1. CASE Reader
  <2>1. UNCHANGED vars
    BY <1>1 DEF Reader, AskHistory, AskReport, Asks, ReadPage, ReadListing, ReadChanges,
                ReadRaw, ReadFails, Reads
  <2>2. HistoryInv' /\ Dated'
    BY <2>1, HistoryStep, DatedKept DEF ReadersInv
  <2>3. Holds(reader', snapshots)
    BY <1>1, AsksHolds, ReadPageHolds, ReadListingHolds, ReadChangesHolds, ReadRawHolds,
       NothingHeld DEF Reader, ReadFails, Reads
  <2>4. UNCHANGED snapshots
    BY <2>1 DEF vars, tables
  <2>5. QED  BY <2>2, <2>3, <2>4 DEF ReadersInv
<1>2. CASE (Next /\ UNCHANGED reader) \/ UNCHANGED allVars
  <2>1. [Next]_vars /\ UNCHANGED reader
    BY <1>2 DEF allVars
  <2>2. HistoryInv' /\ Dated'
    BY <2>1, HistoryStep, DatedKept DEF ReadersInv
  <2>3. Grown(snapshots, snapshots')
    <3>1. snapshots \in Seq(RowType)
      BY Types DEF ReadersInv, HistoryInv
    <3>2. CASE UNCHANGED snapshots
      BY <3>1, <3>2, Unchanged
    <3>3. ASSUME NEW w \in Workers, Acts(w) PROVE Grown(snapshots, snapshots')
      BY <3>3, ActsStore, TablesGrow DEF ReadersInv, HistoryInv
    <3>4. QED  BY <2>1, <3>2, <3>3, StepKinds DEF StoresNothing, tables
  <2>4. Holds(reader, snapshots')
    BY <2>3, HeldKept DEF ReadersInv
  <2>5. QED  BY <2>1, <2>2, <2>4 DEF ReadersInv
<1>3. QED  BY <1>1, <1>2 DEF NextR

LEMMA ReadersInit == InitR => ReadersInv
<1> SUFFICES ASSUME InitR PROVE ReadersInv
  OBVIOUS
<1>1. HistoryInv
  BY HistoryInit DEF InitR
<1>2. Dated
  BY HistoryAssumption DEF InitR, Init, Dated, Rows, Resting
<1>3. Holds(reader, snapshots)
  BY NothingHeld DEF InitR
<1>4. QED  BY <1>1, <1>2, <1>3 DEF ReadersInv

LEMMA ReadersInvariant == SpecR => []ReadersInv
  BY ReadersInit, ReadersStep, PTL DEF SpecR

(* A reader who follows the cursor to the end was shown every row stored    *)
(* when he began, or one of its time, newest first and none twice, whatever *)
(* page size he asked for and however invocations store rows meanwhile.     *)
THEOREM PagesStayComplete == SpecR => []PagesComplete
<1>1. ReadersInv => PagesComplete
  BY HeldShape DEF ReadersInv
<1>2. QED  BY <1>1, ReadersInvariant, PTL

(* The content findings of a report are those of a complete scan, no older  *)
(* than any complete one the report counts or lists a change of, although   *)
(* rows are stored between its three reads.                                 *)
THEOREM ReportsStayCurrent == SpecR => []ReportCurrent
<1>1. ReadersInv => ReportCurrent
  BY HeldShape DEF ReadersInv
<1>2. QED  BY <1>1, ReadersInvariant, PTL
=============================================================================
