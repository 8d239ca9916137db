--------------------------- MODULE History_proofs ---------------------------
(***************************************************************************)
(* For any number of invocations, domains, builds and scans, under every    *)
(* fault: what History stores stays consistent, and a scan loses its change *)
(* or its alert only to a fault of its own invocation.                      *)
(***************************************************************************)
EXTENDS HistoryAudit, Totals_proofs, SequenceTheorems

Comparing == {"prior", "change", "deliver", "alert"}
HasPrior  == {"change", "deliver", "alert"}
HasChange == {"deliver", "alert"}

(* The row an invocation compares is the one it stored. *)
StoredRow(w) ==
  /\ work[w].to \in Rows
  /\ snapshots[work[w].to].domain = Domain(w)
  /\ snapshots[work[w].to].at = work[w].at
  /\ snapshots[work[w].to].version = work[w].version

(* In the table S, from is a complete row of the domain and the build of    *)
(* to, the newest of those that were stored before to.                      *)
Anchors(S, from, to) ==
  /\ from \in DOMAIN S
  /\ S[from].domain = S[to].domain /\ S[from].version = S[to].version
  /\ SnapshotStatus(S[from].seen) = "complete" /\ S[from].at < S[to].at
  /\ \A i \in DOMAIN S :
       /\ S[i].domain = S[to].domain /\ SnapshotStatus(S[i].seen) = "complete"
       /\ S[i].at < S[to].at /\ i < to
       => S[i].at <= S[from].at

(* The change an invocation alerts of is the one it stored, and nobody has  *)
(* alerted of it.                                                           *)
StoredChange(w) ==
  /\ work[w].change \in DOMAIN changes
  /\ changes[work[w].change] =
       [domain |-> Domain(w), from |-> work[w].from, to |-> work[w].to]
  /\ Materiality(work[w].from, work[w].to) \in Graves
  /\ \A a \in DOMAIN alerts : alerts[a].change # work[w].change

Sound(w) ==
  /\ work[w].pc \notin {"idle", "next"} => work[w].queue # <<>>
  /\ work[w].pc = "insert" => work[w].seen \in Sightings
  /\ work[w].to # NoRow <=> work[w].pc \in Comparing
  /\ work[w].pc \in Comparing => StoredRow(w)
  /\ work[w].pc \in HasPrior => Anchors(snapshots, work[w].from, work[w].to)
  /\ work[w].pc \in {"prior", "change"} =>
       \A c \in DOMAIN changes : changes[c].to # work[w].to
  /\ work[w].pc \in HasChange => StoredChange(w)
  /\ work[w].delivered => work[w].pc = "alert" /\ work[w].change \in received

(* No two invocations are at work on one row. *)
OwnRows ==
  \A v, w \in Workers : work[v].to = work[w].to /\ work[v].to # NoRow => v = w

ChangesAnchored ==
  \A c \in DOMAIN changes :
    /\ changes[c].to \in Rows
    /\ snapshots[changes[c].to].domain = changes[c].domain
    /\ Anchors(snapshots, changes[c].from, changes[c].to)
    /\ \A d \in DOMAIN changes : changes[d].to = changes[c].to => d = c

HistoryInv ==
  /\ TypeOK
  /\ \A w \in Workers : Sound(w)
  /\ OwnRows
  /\ ChangesAnchored
  /\ AlertsMatch
  /\ ToldOfChanges
-----------------------------------------------------------------------------
(* Tables only grow, at their end. *)
Grown(s, t) ==
  /\ DOMAIN s \subseteq DOMAIN t
  /\ \A i \in DOMAIN s : t[i] = s[i]
  /\ \A i \in DOMAIN t, j \in DOMAIN s : i < j => i \in DOMAIN s

LEMMA Appending ==
  ASSUME NEW S, NEW s \in Seq(S), NEW x \in S
  PROVE  /\ Append(s, x) \in Seq(S)
         /\ DOMAIN s = 1 .. Len(s) /\ Len(s) \in Nat
         /\ DOMAIN Append(s, x) = 1 .. Len(s) + 1
         /\ \A i \in 1 .. Len(s) : Append(s, x)[i] = s[i]
         /\ Append(s, x)[Len(s) + 1] = x
         /\ Grown(s, Append(s, x))
  BY DEF Grown

LEMMA Unchanged ==
  ASSUME NEW S, NEW s \in Seq(S)
  PROVE  Grown(s, s)
  BY DEF Grown

(* The records of the tables and of the invocations. *)
RowType    == [domain : Domains, at : Nat, version : Nat, seen : Sightings,
               by : Workers]
ChangeType == [domain : Domains, from : Nat, to : Nat]
AlertType  == [domain : Domains, change : Nat, materiality : Graves,
               delivered : BOOLEAN]
JobType    == [pc : Steps, queue : Seq(Domains), version : Nat, at : Nat,
               seen : Sightings \cup {Unseen}, to : Nat, from : Nat,
               change : Nat, delivered : BOOLEAN]

LEMMA Types ==
  TypeOK <=>
    /\ snapshots \in Seq(RowType) /\ changes \in Seq(ChangeType)
    /\ alerts \in Seq(AlertType) /\ received \subseteq Nat
    /\ work \in [Workers -> JobType]
    /\ version \in Nat /\ now \in Nat /\ calls \in Nat
  BY DEF TypeOK, RowType, ChangeType, AlertType, JobType

(* An anchor stays one, and a change as grave as it was. *)
LEMMA AnchorsKept ==
  ASSUME TypeOK, Grown(snapshots, snapshots'),
         NEW from, NEW to \in Rows, Anchors(snapshots, from, to)
  PROVE  Anchors(snapshots', from, to)
  BY DEF Anchors, Grown, Rows

LEMMA MaterialityKept ==
  ASSUME Grown(snapshots, snapshots'), NEW from \in Rows, NEW to \in Rows
  PROVE  Materiality(from, to)' = Materiality(from, to)
  BY DEF Grown, Rows, Materiality
(* What an invocation knows stays true while others work. *)
LEMMA SoundKept ==
  ASSUME TypeOK, NEW w \in Workers, Sound(w), work'[w] = work[w],
         Grown(snapshots, snapshots'), Grown(changes, changes'),
         Grown(alerts, alerts'), received \subseteq received',
         \A c \in DOMAIN changes' \ DOMAIN changes : changes'[c].to # work[w].to,
         work[w].pc \in HasChange =>
           \A a \in DOMAIN alerts' \ DOMAIN alerts : alerts'[a].change # work[w].change
  PROVE  Sound(w)'
<1>1. work[w].pc \in Comparing => StoredRow(w)'
  BY DEF Sound, StoredRow, Grown, Rows, Domain
<1>2. work[w].pc \in HasPrior => Anchors(snapshots', work[w].from, work[w].to)
  BY AnchorsKept DEF Sound, StoredRow, HasPrior, Comparing
<1>3. work[w].pc \in {"prior", "change"} =>
        \A c \in DOMAIN changes' : changes'[c].to # work[w].to
  BY DEF Sound, Grown
<1>4. work[w].pc \in HasChange => StoredChange(w)'
  <2> SUFFICES ASSUME work[w].pc \in HasChange PROVE StoredChange(w)'
    OBVIOUS
  <2>1. PICK from, to : from = work[w].from /\ to = work[w].to
    OBVIOUS
  <2>2. from \in Rows /\ to \in Rows
    BY <2>1 DEF Sound, StoredRow, HasPrior, HasChange, Comparing, Anchors, Rows
  <2>3. Materiality(from, to)' = Materiality(from, to)
    BY <2>2, MaterialityKept
  <2>4. Materiality(work[w].from, work[w].to)' \in Graves
    BY <2>1, <2>3 DEF Sound, StoredChange, Materiality
  <2>5. \A a \in DOMAIN alerts' : alerts'[a].change # work[w].change
    BY DEF Sound, StoredChange, Grown
  <2>6. QED  BY <2>4, <2>5 DEF Sound, StoredChange, Grown, Domain
<1>5. QED  BY <1>1, <1>2, <1>3, <1>4 DEF Sound
-----------------------------------------------------------------------------
(* What the four writes do to what is stored. *)
LEMMA RowStored ==
  ASSUME HistoryInv, NEW w \in Workers, At(w, "insert"), StoreSnapshot(w)
  PROVE  LET new == Len(snapshots) + 1 IN
         /\ snapshots' \in Seq(RowType) /\ Grown(snapshots, snapshots')
         /\ new \notin Rows /\ new \in Rows' /\ new \in Nat \ {NoRow}
         /\ snapshots'[new] = [domain |-> Domain(w), at |-> work[w].at,
                               version |-> work[w].version,
                               seen |-> work[w].seen, by |-> w]
<1> DEFINE row == [domain |-> Domain(w), at |-> work[w].at,
                   version |-> work[w].version, seen |-> work[w].seen, by |-> w]
<1>1. work[w] \in JobType /\ snapshots \in Seq(RowType)
  BY Types DEF HistoryInv
<1>2. work[w].queue \in Seq(Domains) /\ work[w].queue # <<>> /\ work[w].seen \in Sightings
  BY <1>1 DEF HistoryInv, Sound, At, JobType
<1>3. Domain(w) \in Domains
  BY <1>2, HeadTailProperties DEF Domain
<1>4. row \in RowType
  BY <1>1, <1>2, <1>3 DEF RowType, JobType
<1>5. snapshots' = Append(snapshots, row)
  BY DEF StoreSnapshot
<1>6. QED  BY <1>1, <1>4, <1>5, Appending DEF Rows, NoRow

LEMMA ChangeStored ==
  ASSUME HistoryInv, NEW w \in Workers, At(w, "change"), StoreChange(w)
  PROVE  LET new == Len(changes) + 1 IN
         /\ changes' \in Seq(ChangeType) /\ Grown(changes, changes')
         /\ new \notin DOMAIN changes /\ DOMAIN changes' = DOMAIN changes \cup {new}
         /\ new \in Nat
         /\ changes'[new] = [domain |-> Domain(w), from |-> work[w].from,
                             to |-> work[w].to]
<1> DEFINE row == [domain |-> Domain(w), from |-> work[w].from, to |-> work[w].to]
<1>1. work[w] \in JobType /\ changes \in Seq(ChangeType)
  BY Types DEF HistoryInv
<1>2. work[w].queue \in Seq(Domains) /\ work[w].queue # <<>>
  BY <1>1 DEF HistoryInv, Sound, At, JobType
<1>3. Domain(w) \in Domains
  BY <1>2, HeadTailProperties DEF Domain
<1>4. row \in ChangeType
  BY <1>1, <1>3 DEF ChangeType, JobType
<1>5. changes' = Append(changes, row)
  BY DEF StoreChange
<1>6. QED  BY <1>1, <1>4, <1>5, Appending

LEMMA AlertStored ==
  ASSUME HistoryInv, NEW w \in Workers, At(w, "alert"), StoreAlert(w)
  PROVE  LET new == Len(alerts) + 1 IN
         /\ alerts' \in Seq(AlertType) /\ Grown(alerts, alerts')
         /\ new \notin DOMAIN alerts /\ DOMAIN alerts' = DOMAIN alerts \cup {new}
         /\ alerts'[new] = [domain |-> Domain(w), change |-> work[w].change,
                            materiality |-> Materiality(work[w].from, work[w].to),
                            delivered |-> work[w].delivered]
<1> DEFINE row == [domain |-> Domain(w), change |-> work[w].change,
                   materiality |-> Materiality(work[w].from, work[w].to),
                   delivered |-> work[w].delivered]
<1>1. work[w] \in JobType /\ alerts \in Seq(AlertType)
  BY Types DEF HistoryInv
<1>2. /\ work[w].queue \in Seq(Domains) /\ work[w].queue # <<>>
      /\ Materiality(work[w].from, work[w].to) \in Graves
  BY <1>1 DEF HistoryInv, Sound, At, JobType, StoredChange, HasChange
<1>3. Domain(w) \in Domains
  BY <1>2, HeadTailProperties DEF Domain
<1>4. row \in AlertType
  BY <1>1, <1>2, <1>3 DEF AlertType, JobType
<1>5. alerts' = Append(alerts, row)
  BY DEF StoreAlert
<1>6. QED  BY <1>1, <1>4, <1>5, Appending

(* The kinds of steps, by what they store. *)
StoresNothing == UNCHANGED <<tables, received>>
StoresRow(w) ==
  At(w, "insert") /\ StoreSnapshot(w) /\ UNCHANGED <<changes, alerts, received>>
StoresChange(w) ==
  At(w, "change") /\ StoreChange(w) /\ UNCHANGED <<snapshots, alerts, received>>
Tells(w) ==
  /\ At(w, "deliver") /\ received' = received \cup {work[w].change}
  /\ UNCHANGED tables
StoresAlert(w) ==
  At(w, "alert") /\ StoreAlert(w) /\ UNCHANGED <<snapshots, changes, received>>
Stores(w) ==
  StoresNothing \/ StoresRow(w) \/ StoresChange(w) \/ Tells(w) \/ StoresAlert(w)

Acts(w) == \/ CronFires(w) \/ \E d \in Domains : Request(w, d)
           \/ Works(w) \/ StorageFails(w) \/ Evicted(w)

LEMMA StepKinds ==
  [Next]_vars => \/ \E w \in Workers : Acts(w)
                 \/ StoresNothing /\ UNCHANGED work /\ version' \in {version, version + 1}
                       /\ now' \in {now, now + 1} /\ UNCHANGED calls
  BY DEF Next, Arrivals, Progress, Acts, StoresNothing, vars, tables, clock, Deploy, Tick

LEMMA ActsStore ==
  ASSUME TypeOK, NEW w \in Workers, Acts(w)
  PROVE  /\ Stores(w)
         /\ \A v \in Workers \ {w} : work'[v] = work[v]
         /\ UNCHANGED <<version, now>> /\ calls' \in {calls, calls + 1}
<1> USE DEF tables, clock, DomainDone, Goto
<1>0. work \in [Workers -> JobType]
  BY Types
<1>1. CASE CronFires(w) \/ \E d \in Domains : Request(w, d)
  BY <1>0, <1>1 DEF CronFires, Request, Invoke, Stores, StoresNothing
<1>2. CASE ScanStarts(w) \/ Ends(w) \/ \E s \in Sightings : ScanReturns(w, s)
  BY <1>0, <1>2 DEF ScanStarts, Ends, ScanReturns, Stores, StoresNothing
<1>3. CASE InsertSnapshot(w) \/ \E b \in BOOLEAN : InsertSnapshotFails(w, b)
  BY <1>0, <1>3 DEF InsertSnapshot, InsertSnapshotFails, Stores, StoresNothing, StoresRow
<1>4. CASE NothingToCompare(w) \/ SelectPriorFails(w)
             \/ \E i \in DOMAIN snapshots : SelectPrior(w, i)
  BY <1>0, <1>4 DEF NothingToCompare, SelectPriorFails, SelectPrior, Stores, StoresNothing
<1>5. CASE InsertChange(w) \/ \E b \in BOOLEAN : InsertChangeFails(w, b)
  BY <1>0, <1>5 DEF InsertChange, InsertChangeFails, Stores, StoresNothing, StoresChange
<1>6. CASE Delivered(w) \/ Undelivered(w)
  BY <1>0, <1>6 DEF Delivered, Undelivered, Stores, StoresNothing, Tells
<1>7. CASE InsertAlert(w) \/ \E b \in BOOLEAN : InsertAlertFails(w, b)
  BY <1>0, <1>7 DEF InsertAlert, InsertAlertFails, Stores, StoresNothing, StoresAlert
<1>8. CASE Evicted(w)
  BY <1>0, <1>8 DEF Evicted, Stores, StoresNothing
<1>9. QED  BY <1>1, <1>2, <1>3, <1>4, <1>5, <1>6, <1>7, <1>8
           DEF Acts, Works, StorageFails
-----------------------------------------------------------------------------
(* Tables grow by every kind of step and keep their types. *)
LEMMA TablesGrow ==
  ASSUME HistoryInv, NEW w \in Workers, Stores(w)
  PROVE  /\ snapshots' \in Seq(RowType) /\ Grown(snapshots, snapshots')
         /\ changes' \in Seq(ChangeType) /\ Grown(changes, changes')
         /\ alerts' \in Seq(AlertType) /\ Grown(alerts, alerts')
         /\ received' \subseteq Nat /\ received \subseteq received'
<1>0. /\ snapshots \in Seq(RowType) /\ changes \in Seq(ChangeType)
      /\ alerts \in Seq(AlertType) /\ received \subseteq Nat
      /\ work[w] \in JobType
  BY Types DEF HistoryInv
<1>1. /\ Grown(snapshots, snapshots) /\ Grown(changes, changes)
      /\ Grown(alerts, alerts)
  BY <1>0, Unchanged
<1>2. CASE StoresNothing
  BY <1>0, <1>1, <1>2 DEF StoresNothing, tables
<1>3. CASE StoresRow(w)
  BY <1>0, <1>1, <1>3, RowStored DEF StoresRow
<1>4. CASE StoresChange(w)
  BY <1>0, <1>1, <1>4, ChangeStored DEF StoresChange
<1>5. CASE Tells(w)
  BY <1>0, <1>1, <1>5 DEF Tells, tables, JobType
<1>6. CASE StoresAlert(w)
  BY <1>0, <1>1, <1>6, AlertStored DEF StoresAlert
<1>7. QED  BY <1>2, <1>3, <1>4, <1>5, <1>6 DEF Stores

(* A new change is of the row its invocation stored: of no row another      *)
(* invocation is at work on, and of none that ends a change already.        *)
LEMMA ChangesAnchoredKept ==
  ASSUME HistoryInv, NEW w \in Workers, Stores(w)
  PROVE  ChangesAnchored'
<1>1. Grown(snapshots, snapshots')
  BY TablesGrow
<1>2. \A c \in DOMAIN changes :
        /\ changes[c].to \in Rows'
        /\ snapshots'[changes[c].to].domain = changes[c].domain
        /\ Anchors(snapshots', changes[c].from, changes[c].to)
  BY <1>1, AnchorsKept DEF HistoryInv, ChangesAnchored, Grown, Rows
<1>3. CASE UNCHANGED changes
  BY <1>2, <1>3 DEF HistoryInv, ChangesAnchored
<1>4. CASE StoresChange(w)
  <2> DEFINE new == Len(changes) + 1
  <2>1. /\ DOMAIN changes' = DOMAIN changes \cup {new} /\ new \notin DOMAIN changes
        /\ \A c \in DOMAIN changes : changes'[c] = changes[c]
        /\ changes'[new] = [domain |-> Domain(w), from |-> work[w].from,
                            to |-> work[w].to]
    BY <1>4, ChangeStored DEF StoresChange, Grown
  <2>2. /\ work[w].to \in Rows /\ snapshots[work[w].to].domain = Domain(w)
        /\ Anchors(snapshots, work[w].from, work[w].to)
        /\ \A c \in DOMAIN changes : changes[c].to # work[w].to
        /\ UNCHANGED snapshots
    BY <1>4 DEF HistoryInv, Sound, At, StoresChange, StoredRow, Comparing, HasPrior
  <2>4. Anchors(snapshots', work[w].from, work[w].to)
    BY <2>2
  <2>6. \A c \in DOMAIN changes' :
          /\ changes'[c].to \in Rows'
          /\ snapshots'[changes'[c].to].domain = changes'[c].domain
          /\ Anchors(snapshots', changes'[c].from, changes'[c].to)
    <3> TAKE c \in DOMAIN changes'
    <3>1. CASE c = new
      BY <2>1, <2>2, <2>4, <3>1 DEF Rows
    <3>2. CASE c \in DOMAIN changes
      BY <1>2, <2>1, <3>2
    <3>3. QED  BY <2>1, <3>1, <3>2
  <2>7. \A c, d \in DOMAIN changes' : changes'[d].to = changes'[c].to => d = c
    BY <2>1, <2>2 DEF HistoryInv, ChangesAnchored
  <2>8. QED  BY <2>6, <2>7 DEF ChangesAnchored
<1>5. QED  BY <1>3, <1>4 DEF Stores, StoresNothing, StoresRow, Tells, StoresAlert, tables

(* How grave the change c is, by the rows in S. *)
Gravity(S, c) == RecordMateriality(S[c.from].seen, S[c.to].seen)

(* Of a stored change, both ends are stored, and stay as grave. *)
LEMMA GravityKept ==
  ASSUME HistoryInv, NEW w \in Workers, Stores(w), NEW c \in DOMAIN changes
  PROVE  /\ c \in DOMAIN changes' /\ changes'[c] = changes[c]
         /\ Gravity(snapshots', changes[c]) = Gravity(snapshots, changes[c])
<1>1. Grown(snapshots, snapshots') /\ Grown(changes, changes')
  BY TablesGrow
<1>2. changes[c].from \in Rows /\ changes[c].to \in Rows
  BY DEF HistoryInv, ChangesAnchored, Anchors, Rows
<1>3. QED  BY <1>1, <1>2 DEF Grown, Rows, Gravity

LEMMA AlertsMatchKept ==
  ASSUME HistoryInv, NEW w \in Workers, Stores(w)
  PROVE  AlertsMatch'
<1>1. \A a \in DOMAIN alerts :
        LET c == alerts[a].change IN
        /\ c \in DOMAIN changes'
        /\ changes'[c].domain = alerts[a].domain
        /\ Gravity(snapshots', changes'[c]) = alerts[a].materiality
        /\ alerts[a].delivered => c \in received'
        /\ \A b \in DOMAIN alerts : alerts[b].change = c => b = a
  BY TablesGrow, GravityKept DEF HistoryInv, AlertsMatch, Materiality, Gravity
<1>2. CASE UNCHANGED alerts
  BY <1>1, <1>2 DEF AlertsMatch, Materiality, Gravity
<1>3. CASE StoresAlert(w)
  <2> DEFINE new == Len(alerts) + 1
  <2>1. /\ DOMAIN alerts' = DOMAIN alerts \cup {new}
        /\ \A a \in DOMAIN alerts : alerts'[a] = alerts[a]
        /\ alerts'[new] = [domain |-> Domain(w), change |-> work[w].change,
                           materiality |-> Materiality(work[w].from, work[w].to),
                           delivered |-> work[w].delivered]
        /\ new \notin DOMAIN alerts
    BY <1>3, AlertStored DEF StoresAlert, Grown
  <2>2. StoredChange(w) /\ (work[w].delivered => work[w].change \in received)
    BY <1>3 DEF StoresAlert, HistoryInv, Sound, At, HasChange
  <2>3. UNCHANGED <<snapshots, changes, received>>
    BY <1>3 DEF StoresAlert
  <2> HIDE DEF new
  <2>4. /\ work[w].change \in DOMAIN changes'
        /\ changes'[work[w].change].domain = Domain(w)
        /\ Gravity(snapshots', changes'[work[w].change])
             = Materiality(work[w].from, work[w].to)
    BY <2>2, <2>3 DEF StoredChange, Materiality, Gravity
  <2>5. \A a \in DOMAIN alerts : alerts[a].change # work[w].change
    BY <2>2 DEF StoredChange
  <2>6. QED  BY <1>1, <2>1, <2>2, <2>3, <2>4, <2>5 DEF AlertsMatch, Materiality, Gravity
<1>4. QED  BY <1>2, <1>3 DEF Stores, StoresNothing, StoresRow, Tells, StoresChange, tables

LEMMA ToldOfChangesKept ==
  ASSUME HistoryInv, NEW w \in Workers, Stores(w)
  PROVE  ToldOfChanges'
<1>1. \A c \in received :
        /\ c \in DOMAIN changes'
        /\ Gravity(snapshots', changes'[c]) \in Graves
  BY GravityKept DEF HistoryInv, ToldOfChanges, Materiality, Gravity
<1>2. CASE UNCHANGED received
  BY <1>1, <1>2 DEF ToldOfChanges, Materiality, Gravity
<1>3. CASE Tells(w)
  <2>1. StoredChange(w)
    BY <1>3 DEF Tells, HistoryInv, Sound, At, HasChange
  <2>2. LET c == work[w].change IN
        /\ c \in DOMAIN changes'
        /\ Gravity(snapshots', changes'[c]) \in Graves
    BY <2>1, <1>3 DEF StoredChange, Tells, tables, Materiality, Gravity
  <2>3. received' = received \cup {work[w].change}
    BY <1>3 DEF Tells
  <2>4. QED  BY <1>1, <2>2, <2>3 DEF ToldOfChanges, Materiality, Gravity
<1>4. QED  BY <1>2, <1>3 DEF Stores, StoresNothing, StoresRow, StoresAlert, StoresChange, tables
-----------------------------------------------------------------------------
(* The step of one invocation: its own state stays sound, and the row it is *)
(* at work on, if any, is the one it had or a new one.                      *)
Advances(w) ==
  /\ work' \in [Workers -> JobType]
  /\ Sound(w)'
  /\ work'[w].to \in {NoRow, work[w].to} \/ work'[w].to \notin Rows

LEMMA Turning ==
  ASSUME TypeOK, NEW w \in Workers, NEW job \in JobType,
         work' = [work EXCEPT ![w] = job]
  PROVE  work' \in [Workers -> JobType] /\ work'[w] = job
  BY Types

LEMMA RestsSound ==
  ASSUME TypeOK, NEW w \in Workers, NEW job \in JobType,
         work' = [work EXCEPT ![w] = job],
         job.pc \in {"idle", "next"}, job.to = NoRow, job.delivered = FALSE
  PROVE  Advances(w)
  BY Turning DEF Advances, Sound, Comparing, HasPrior, HasChange

LEMMA DoneSound ==
  ASSUME HistoryInv, NEW w \in Workers, work[w].pc \notin {"idle", "next"},
         DomainDone(w)
  PROVE  Advances(w)
<1> DEFINE job == [Resting EXCEPT !.pc = "next", !.queue = Tail(work[w].queue),
                                  !.version = work[w].version]
<1>1. TypeOK /\ work[w] \in JobType /\ work[w].queue # <<>>
  BY Types DEF HistoryInv, Sound
<1>2. Tail(work[w].queue) \in Seq(Domains)
  BY <1>1, HeadTailProperties DEF JobType
<1>3. job \in JobType /\ job.pc = "next" /\ job.to = NoRow /\ job.delivered = FALSE
  BY <1>1, <1>2 DEF JobType, Resting, Steps, NoRow
<1>4. work' = [work EXCEPT ![w] = job]
  BY DEF DomainDone
<1>5. QED  BY <1>1, <1>3, <1>4, RestsSound

LEMMA ActsAdvance ==
  ASSUME HistoryInv, NEW w \in Workers, Acts(w)
  PROVE  Advances(w)
<1> DEFINE job == work[w]
<1>0. /\ TypeOK /\ job \in JobType /\ work \in [Workers -> JobType] /\ Sound(w)
      /\ version \in Nat /\ now \in Nat
  BY Types DEF HistoryInv
<1>1. CASE CronFires(w) \/ \E d \in Domains : Request(w, d)
  <2>1. PICK queue \in Seq(Domains) : Invoke(w, queue)
    <3>1. CASE CronFires(w)
      BY <3>1, HistoryAssumption DEF CronFires
    <3>2. ASSUME NEW d \in Domains, Request(w, d) PROVE Invoke(w, <<d>>)
      BY <3>2 DEF Request
    <3>3. \A d \in Domains : <<d>> \in Seq(Domains)
      OBVIOUS
    <3>4. QED  BY <1>1, <3>1, <3>2, <3>3
  <2>2. /\ [job EXCEPT !.pc = "next", !.queue = queue, !.version = version] \in JobType
        /\ job.to = NoRow /\ job.delivered = FALSE
    BY <1>0, <2>1 DEF Invoke, At, Sound, JobType, Steps, Comparing
  <2>3. work' = [work EXCEPT ![w] = [job EXCEPT !.pc = "next", !.queue = queue,
                                                !.version = version]]
    BY <1>0, <2>1 DEF Invoke
  <2>4. QED  BY <1>0, <2>2, <2>3, RestsSound DEF JobType
<1>2. CASE Ends(w) \/ Evicted(w)
  <2>1. /\ Resting \in JobType
        /\ Resting.pc = "idle" /\ Resting.to = NoRow /\ Resting.delivered = FALSE
    BY DEF Resting, JobType, Steps, NoRow
  <2>2. work' = [work EXCEPT ![w] = Resting]
    BY <1>2 DEF Ends, Evicted
  <2>3. QED  BY <1>0, <2>1, <2>2, RestsSound
<1>3. CASE ScanStarts(w) \/ \E s \in Sightings : ScanReturns(w, s)
  <2>1. PICK t \in Nat, s \in Sightings \cup {Unseen}, pc \in {"scan", "insert"} :
          /\ work' = [work EXCEPT ![w].pc = pc, ![w].at = t, ![w].seen = s]
          /\ pc = "insert" => s \in Sightings
    <3>1. CASE ScanStarts(w)
      <4>1. work' = [work EXCEPT ![w].pc = "scan", ![w].at = now, ![w].seen = job.seen]
        BY <1>0, <3>1 DEF ScanStarts, JobType
      <4>2. job.seen \in Sightings \cup {Unseen}
        BY <1>0 DEF JobType
      <4>3. QED  BY <1>0, <4>1, <4>2
    <3>2. ASSUME NEW s \in Sightings, ScanReturns(w, s)
          PROVE  work' = [work EXCEPT ![w].pc = "insert", ![w].at = job.at, ![w].seen = s]
      BY <1>0, <3>2 DEF ScanReturns, JobType
    <3>3. job.at \in Nat
      BY <1>0 DEF JobType
    <3>4. QED  BY <1>3, <3>1, <3>2, <3>3
  <2>2. job.queue # <<>> /\ job.to = NoRow /\ job.delivered = FALSE
    BY <1>0, <1>3 DEF ScanStarts, ScanReturns, At, Sound, JobType, Comparing
  <2>3. /\ work' \in [Workers -> JobType]
        /\ work'[w].pc \in {"scan", "insert"} /\ work'[w].queue = job.queue
        /\ work'[w].to = NoRow /\ work'[w].delivered = FALSE
        /\ work'[w].pc = "insert" => work'[w].seen \in Sightings
    BY <1>0, <2>1, <2>2 DEF JobType, Steps
  <2>4. QED  BY <2>2, <2>3 DEF Advances, Sound, Comparing, HasPrior, HasChange
<1>4. CASE InsertSnapshot(w)
  <2>1. /\ work' = [work EXCEPT ![w].pc = "prior", ![w].to = Len(snapshots) + 1]
        /\ At(w, "insert") /\ StoreSnapshot(w) /\ UNCHANGED changes
    BY <1>4 DEF InsertSnapshot
  <2> DEFINE new == Len(snapshots) + 1
  <2>2. /\ new \notin Rows /\ new \in Rows' /\ new \in Nat \ {NoRow}
        /\ snapshots'[new].domain = Domain(w) /\ snapshots'[new].at = job.at
        /\ snapshots'[new].version = job.version
    <3>1. /\ new \notin Rows /\ new \in Rows' /\ new \in Nat \ {NoRow}
          /\ snapshots'[new] = [domain |-> Domain(w), at |-> job.at,
                                version |-> job.version, seen |-> job.seen, by |-> w]
      BY <2>1, RowStored
    <3> HIDE DEF new, job
    <3>2. QED  BY <3>1
  <2> HIDE DEF new
  <2>3. /\ work' \in [Workers -> JobType]
        /\ work'[w] = [job EXCEPT !.pc = "prior", !.to = new]
    <3>1. work' = [work EXCEPT ![w] = [job EXCEPT !.pc = "prior", !.to = new]]
      BY <1>0, <2>1 DEF new
    <3>2. [job EXCEPT !.pc = "prior", !.to = new] \in JobType
      BY <1>0, <2>2 DEF JobType, Steps
    <3>3. QED  BY <1>0, <3>1, <3>2, Turning
  <2>4. \A c \in DOMAIN changes : changes[c].to # new
    BY <2>2 DEF HistoryInv, ChangesAnchored
  <2>5. /\ work'[w].pc = "prior" /\ work'[w].to = new /\ work'[w].queue = job.queue
        /\ work'[w].at = job.at /\ work'[w].version = job.version
        /\ work'[w].delivered = job.delivered
    BY <1>0, <2>3 DEF JobType
  <2>6. StoredRow(w)'
    BY <2>2, <2>5 DEF StoredRow, Domain
  <2>7. job.queue # <<>> /\ job.delivered = FALSE
    BY <1>0, <2>1 DEF At, Sound, JobType
  <2>8. Sound(w)'
    BY <2>1, <2>2, <2>4, <2>5, <2>6, <2>7 DEF Sound, Comparing, HasPrior, HasChange
  <2>9. QED  BY <2>2, <2>3, <2>5, <2>8 DEF Advances
<1>5. CASE NothingToCompare(w) \/ SelectPriorFails(w)
             \/ \E b \in BOOLEAN : InsertSnapshotFails(w, b) \/ InsertChangeFails(w, b)
                                     \/ InsertAlertFails(w, b)
  BY <1>5, DoneSound DEF NothingToCompare, SelectPriorFails, InsertSnapshotFails,
                         InsertChangeFails, InsertAlertFails, At
<1>6. CASE \E i \in DOMAIN snapshots : SelectPrior(w, i)
  <2>1. PICK i \in DOMAIN snapshots : SelectPrior(w, i)
    BY <1>6
  <2>2. /\ work' = [work EXCEPT ![w].pc = "change", ![w].from = i]
        /\ UNCHANGED <<snapshots, changes>> /\ At(w, "prior") /\ i \in Nat
    BY <1>0, <2>1, Types DEF SelectPrior, tables
  <2>3. StoredRow(w)
    BY <1>0, <2>2 DEF Sound, At, Comparing
  <2>4. Anchors(snapshots, i, job.to)
    BY <2>1, <2>3 DEF SelectPrior, Prior, Latest, Earlier, StoredRow, Anchors
  <2>5. QED
    BY <1>0, <2>2, <2>3, <2>4
       DEF Advances, Sound, StoredRow, Domain, Rows, At, JobType, Steps, Comparing,
           HasPrior, HasChange
<1>7. CASE InsertChange(w) /\ ~Alerting(w)
  BY <1>7, DoneSound DEF InsertChange, At
<1>8. CASE InsertChange(w) /\ Alerting(w)
  <2>1. /\ work' = [work EXCEPT ![w].pc = "deliver", ![w].change = Len(changes) + 1]
        /\ At(w, "change") /\ StoreChange(w) /\ UNCHANGED <<snapshots, alerts>>
    BY <1>8 DEF InsertChange
  <2>2. work' \in [Workers -> JobType]
    BY <1>0, <2>1, ChangeStored DEF JobType, Steps
  <2>3. \A a \in DOMAIN alerts : alerts[a].change # Len(changes) + 1
    BY <2>1, ChangeStored DEF HistoryInv, AlertsMatch
  <2>4. StoredChange(w)'
    BY <1>0, <1>8, <2>1, <2>3, ChangeStored
       DEF StoredChange, Alerting, Materiality, Graves, Domain, JobType
  <2>5. StoredRow(w)' /\ Anchors(snapshots', work'[w].from, work'[w].to)
    BY <1>0, <2>1 DEF Sound, StoredRow, Domain, Rows, At, JobType, Comparing, HasPrior
  <2>6. Sound(w)'
    BY <1>0, <2>1, <2>4, <2>5 DEF Sound, At, JobType, Comparing, HasPrior, HasChange
  <2>7. QED  BY <1>0, <2>1, <2>2, <2>6 DEF Advances
<1>9. CASE Delivered(w) \/ Undelivered(w)
  <2>1. PICK d \in BOOLEAN :
          /\ work' = [work EXCEPT ![w].pc = "alert", ![w].delivered = d]
          /\ d => received' = received \cup {job.change}
    <3>1. CASE Delivered(w)
      BY <3>1 DEF Delivered
    <3>2. CASE Undelivered(w)
      <4>1. job.delivered = FALSE
        BY <1>0, <3>2 DEF Sound, At, Undelivered, JobType
      <4>2. work' = [work EXCEPT ![w].pc = "alert", ![w].delivered = FALSE]
        BY <1>0, <3>2, <4>1 DEF Undelivered, Goto, JobType
      <4>3. QED  BY <4>2
    <3>3. QED  BY <1>9, <3>1, <3>2
  <2>2. At(w, "deliver") /\ UNCHANGED tables
    BY <1>9 DEF Delivered, Undelivered
  <2>3. StoredRow(w) /\ Anchors(snapshots, job.from, job.to) /\ StoredChange(w)
    BY <1>0, <2>2 DEF Sound, At, Comparing, HasPrior, HasChange
  <2>4. work' \in [Workers -> JobType]
    BY <1>0, <2>1 DEF JobType, Steps
  <2>5. /\ StoredRow(w)' /\ Anchors(snapshots', work'[w].from, work'[w].to)
        /\ StoredChange(w)'
    BY <1>0, <2>1, <2>2, <2>3
       DEF StoredRow, StoredChange, Domain, Rows, Materiality, tables, JobType
  <2>6. Sound(w)'
    BY <1>0, <2>1, <2>2, <2>5 DEF Sound, At, JobType, Comparing, HasPrior, HasChange
  <2>7. QED  BY <1>0, <2>1, <2>4, <2>6 DEF Advances
<1>10. CASE InsertAlert(w)
  BY <1>10, DoneSound DEF InsertAlert, At
<1>11. QED
  BY <1>1, <1>2, <1>3, <1>4, <1>5, <1>6, <1>7, <1>8, <1>9, <1>10
     DEF Acts, Works, StorageFails
-----------------------------------------------------------------------------
(* A step of one invocation keeps what the others know: it stores at most a *)
(* change of its own row, or an alert of its own change.                    *)
LEMMA OthersSound ==
  ASSUME HistoryInv, NEW w \in Workers, Stores(w),
         NEW v \in Workers \ {w}, work'[v] = work[v]
  PROVE  Sound(v)'
<1>0. TypeOK /\ Sound(v) /\ Sound(w) /\ OwnRows
  BY DEF HistoryInv
<1>1. \A c \in DOMAIN changes' \ DOMAIN changes : changes'[c].to # work[v].to
  <2> SUFFICES ASSUME StoresChange(w)
               PROVE  \A c \in DOMAIN changes' \ DOMAIN changes :
                        changes'[c].to # work[v].to
    BY DEF Stores, StoresNothing, StoresRow, Tells, StoresAlert, tables
  <2>1. work[w].to # NoRow
    BY <1>0 DEF Sound, StoresChange, At, Comparing
  <2>2. \A c \in DOMAIN changes' \ DOMAIN changes : changes'[c].to = work[w].to
    <3> DEFINE new == Len(changes) + 1
    <3>1. /\ DOMAIN changes' = DOMAIN changes \cup {new}
          /\ changes'[new] = [domain |-> Domain(w), from |-> work[w].from,
                              to |-> work[w].to]
      BY ChangeStored DEF StoresChange
    <3> HIDE DEF new
    <3>2. QED  BY <3>1
  <2>3. QED  BY <1>0, <2>1, <2>2 DEF OwnRows
<1>2. work[v].pc \in HasChange =>
        \A a \in DOMAIN alerts' \ DOMAIN alerts : alerts'[a].change # work[v].change
  <2> SUFFICES ASSUME StoresAlert(w), work[v].pc \in HasChange
               PROVE  \A a \in DOMAIN alerts' \ DOMAIN alerts :
                        alerts'[a].change # work[v].change
    BY DEF Stores, StoresNothing, StoresRow, Tells, StoresChange, tables
  <2>1. /\ changes[work[w].change].to = work[w].to
        /\ changes[work[v].change].to = work[v].to
        /\ work[w].to # NoRow
    BY <1>0 DEF Sound, StoresAlert, At, StoredChange, HasChange, Comparing
  <2>2. work[v].change # work[w].change
    BY <1>0, <2>1 DEF OwnRows
  <2>3. \A a \in DOMAIN alerts' \ DOMAIN alerts : alerts'[a].change = work[w].change
    <3> DEFINE new == Len(alerts) + 1
    <3>1. /\ DOMAIN alerts' = DOMAIN alerts \cup {new}
          /\ alerts'[new] = [domain |-> Domain(w), change |-> work[w].change,
                             materiality |-> Materiality(work[w].from, work[w].to),
                             delivered |-> work[w].delivered]
      BY AlertStored DEF StoresAlert
    <3> HIDE DEF new
    <3>2. QED  BY <3>1
  <2>4. QED  BY <2>2, <2>3
<1>3. QED  BY <1>0, <1>1, <1>2, TablesGrow, SoundKept

LEMMA OwnRowsKept ==
  ASSUME HistoryInv, NEW w \in Workers, Advances(w),
         \A v \in Workers \ {w} : work'[v] = work[v]
  PROVE  OwnRows'
<1>1. \A v \in Workers : work[v].to = NoRow \/ work[v].to \in Rows
  BY DEF HistoryInv, Sound, StoredRow
<1>2. \A v \in Workers \ {w} : work'[v].to = work'[w].to => work'[v].to = NoRow
  BY <1>1 DEF HistoryInv, OwnRows, Advances
<1>3. QED  BY <1>2 DEF HistoryInv, OwnRows

LEMMA HistoryStep == HistoryInv /\ [Next]_vars => HistoryInv'
<1> SUFFICES ASSUME HistoryInv, [Next]_vars PROVE HistoryInv'
  OBVIOUS
<1>0. TypeOK
  BY DEF HistoryInv
<1>1. ASSUME NEW w \in Workers, Acts(w) PROVE HistoryInv'
  <2>1. /\ Stores(w) /\ Advances(w)
        /\ \A v \in Workers \ {w} : work'[v] = work[v]
        /\ version' = version /\ now' = now /\ calls' \in {calls, calls + 1}
    BY <1>0, <1>1, ActsStore, ActsAdvance
  <2>2. TypeOK'
    <3>1. version' \in Nat /\ now' \in Nat /\ calls' \in Nat
      BY <1>0, <2>1, Types
    <3>2. /\ snapshots' \in Seq(RowType) /\ changes' \in Seq(ChangeType)
          /\ alerts' \in Seq(AlertType) /\ received' \subseteq Nat
      BY <2>1, TablesGrow
    <3>3. QED
      BY <2>1, <3>1, <3>2 DEF Advances, TypeOK, RowType, ChangeType, AlertType, JobType
  <2>3. \A v \in Workers : Sound(v)'
    BY <2>1, OthersSound DEF Advances
  <2>4. OwnRows'
    BY <2>1, OwnRowsKept
  <2>5. ChangesAnchored' /\ AlertsMatch' /\ ToldOfChanges'
    BY <2>1, ChangesAnchoredKept, AlertsMatchKept, ToldOfChangesKept
  <2>6. QED  BY <2>2, <2>3, <2>4, <2>5 DEF HistoryInv
<1>2. CASE /\ StoresNothing /\ UNCHANGED work /\ version' \in {version, version + 1}
           /\ now' \in {now, now + 1} /\ UNCHANGED calls
  <2>1. TypeOK'
    BY <1>0, <1>2, Types
       DEF StoresNothing, tables, TypeOK, RowType, ChangeType, AlertType, JobType
  <2>2. \A v \in Workers : Sound(v)'
    BY <1>2 DEF HistoryInv, Sound, StoredRow, StoredChange, Domain, Rows, Materiality,
                StoresNothing, tables
  <2>3. OwnRows' /\ ChangesAnchored' /\ AlertsMatch' /\ ToldOfChanges'
    BY <1>2 DEF HistoryInv, OwnRows, ChangesAnchored, AlertsMatch, ToldOfChanges, Rows,
                Materiality, StoresNothing, tables
  <2>4. QED  BY <2>1, <2>2, <2>3 DEF HistoryInv
<1>3. QED  BY <1>1, <1>2, StepKinds

LEMMA HistoryInit == Init => HistoryInv
<1> SUFFICES ASSUME Init PROVE HistoryInv
  OBVIOUS
<1>1. Resting \in JobType
  BY DEF Resting, JobType, Steps, NoRow
<1>2. TypeOK
  BY <1>1, Types DEF Init
<1>3. \A w \in Workers : Sound(w)
  BY DEF Init, Sound, Resting, Comparing, HasPrior, HasChange
<1>4. OwnRows /\ ChangesAnchored /\ AlertsMatch /\ ToldOfChanges
  BY DEF Init, Resting, OwnRows, ChangesAnchored, AlertsMatch, ToldOfChanges
<1>5. QED  BY <1>2, <1>3, <1>4 DEF HistoryInv

LEMMA HistoryInvariant == Spec => []HistoryInv
  BY HistoryInit, HistoryStep, PTL DEF Spec
-----------------------------------------------------------------------------
(* Tables, invocations and bounds keep their types under every fault.       *)
THEOREM HistoryTypeCorrect == Spec => []TypeOK
<1>1. HistoryInv => TypeOK
  BY DEF HistoryInv
<1>2. QED  BY <1>1, HistoryInvariant, PTL

(* compare-on-write (history.ts): whatever fails or runs at the same time,  *)
(* every row of changes joins two stored rows of its domain and its build,  *)
(* an earlier complete one and a later one: GET /changes never meets a row  *)
(* it cannot explain.                                                       *)
THEOREM ChangesAreGrounded == Spec => []ChangesGrounded
<1>1. HistoryInv => ChangesGrounded
  BY DEF HistoryInv, ChangesAnchored, Anchors, ChangesGrounded, Rows
<1>2. QED  BY <1>1, HistoryInvariant, PTL

(* ORDER BY scanned_at DESC LIMIT 1 (history.ts): a change never skips a    *)
(* complete observation that was stored when it was computed, and no two    *)
(* changes end at one observation, however invocations interleave.          *)
THEOREM ChangesStayAStep == Spec => []ChangesAreSteps
<1>1. HistoryInv => ChangesAreSteps
  BY DEF HistoryInv, ChangesAnchored, Anchors, Earlier, ChangesAreSteps, Rows
<1>2. QED  BY <1>1, HistoryInvariant, PTL

(* alerting.ts: an alert is of one stored change, with the materiality GET  *)
(* /changes recomputes; a change has one alert at most, and one marked      *)
(* delivered reached the webhook, wherever a storage error, a refused call  *)
(* or an eviction cut the invocation short.                                 *)
THEOREM AlertsStayTrue == Spec => []AlertsMatch
<1>1. HistoryInv => AlertsMatch
  BY DEF HistoryInv
<1>2. QED  BY <1>1, HistoryInvariant, PTL

(* scheduled.ts: the webhook is called after the change is stored, so its   *)
(* owner hears of no change that GET /changes does not show, and of none    *)
(* that is less than material.                                              *)
THEOREM WebhookHearsOfChanges == Spec => []ToldOfChanges
<1>1. HistoryInv => ToldOfChanges
  BY DEF HistoryInv
<1>2. QED  BY <1>1, HistoryInvariant, PTL
-----------------------------------------------------------------------------
(* What is lost, and only to faults (HistoryAudit): a row whose invocation  *)
(* is done with it and was not cut short is settled, and stays so.          *)

(* The row an invocation is at work on is of its own making. *)
Signed == \A w \in Workers : work[w].to # NoRow => snapshots[work[w].to].by = w

(* ChainComplete, of one row of the table S and the changes C. *)
EarlierThan(S, to) ==
  {i \in DOMAIN S : /\ S[i].domain = S[to].domain
                    /\ SnapshotStatus(S[i].seen) = "complete"
                    /\ S[i].at < S[to].at}
Linked(S, C, to) ==
  (\E i \in EarlierThan(S, to) : i < to) =>
    \/ \E c \in DOMAIN C : C[c].to = to
    \/ \E i \in EarlierThan(S, to) :
         /\ S[i].version # S[to].version
         /\ \A j \in EarlierThan(S, to) : j < to => S[j].at <= S[i].at

(* CronAlerts, of one row. *)
Told(S, C, A, to) ==
  \A c \in DOMAIN C :
    C[c].to = to /\ S[to].by \in Crons /\ Gravity(S, C[c]) \in Graves
    => \E a \in DOMAIN A : A[a].change = c

Settled(S, C, A, to) == Linked(S, C, to) /\ Told(S, C, A, to)
AllSettled == \A to \in Rows \ cut : Done(to) => Settled(snapshots, changes, alerts, to)

AuditInv == HistoryInv /\ Signed /\ AllSettled

LEMMA SettledShape ==
  ASSUME HistoryInv, AllSettled
  PROVE  ChainComplete /\ CronAlerts
<1>1. ChainComplete
  BY DEF AllSettled, Settled, Linked, EarlierThan, Earlier, ChainComplete
<1>2. CronAlerts
  <2> SUFFICES ASSUME NEW c \in DOMAIN changes,
                      snapshots[changes[c].to].by \in Crons,
                      Done(changes[c].to), changes[c].to \notin cut,
                      Materiality(changes[c].from, changes[c].to) \in Graves
               PROVE  \E a \in DOMAIN alerts : alerts[a].change = c
    BY DEF CronAlerts
  <2>1. changes[c].to \in Rows
    BY DEF HistoryInv, ChangesAnchored
  <2>2. Told(snapshots, changes, alerts, changes[c].to)
    BY <2>1 DEF AllSettled, Settled
  <2>3. QED  BY <2>2 DEF Told, Gravity, Materiality
<1>3. QED  BY <1>1, <1>2

LEMMA RowsFinite == ASSUME NEW S, NEW s \in Seq(S) PROVE IsFiniteSet(DOMAIN s)
BY FS_Interval

(* What settles a row is stored for good. *)
LEMMA SettledKept ==
  ASSUME HistoryInv, NEW w \in Workers, Stores(w), NEW to \in Rows,
         Settled(snapshots, changes, alerts, to),
         \A c \in DOMAIN changes' \ DOMAIN changes : changes'[c].to # to
  PROVE  Settled(snapshots', changes', alerts', to)
<1>1. Grown(snapshots, snapshots') /\ Grown(changes, changes') /\ Grown(alerts, alerts')
  BY TablesGrow
<1>2. Linked(snapshots', changes', to)
  <2>1. \A j \in EarlierThan(snapshots', to) :
          j < to => j \in EarlierThan(snapshots, to) /\ snapshots'[j] = snapshots[j]
    BY <1>1 DEF Grown, EarlierThan, Rows
  <2>2. \A j \in EarlierThan(snapshots, to) :
          j \in EarlierThan(snapshots', to) /\ snapshots'[j] = snapshots[j]
    BY <1>1 DEF Grown, EarlierThan, Rows
  <2>3. snapshots'[to] = snapshots[to]
    BY <1>1 DEF Grown, Rows
  <2>4. (\E c \in DOMAIN changes : changes[c].to = to)
          => \E c \in DOMAIN changes' : changes'[c].to = to
    BY <1>1 DEF Grown
  <2>5. QED  BY <2>1, <2>2, <2>3, <2>4 DEF Settled, Linked
<1>3. Told(snapshots', changes', alerts', to)
  <2> SUFFICES ASSUME NEW c \in DOMAIN changes', changes'[c].to = to,
                      snapshots'[to].by \in Crons,
                      Gravity(snapshots', changes'[c]) \in Graves
               PROVE  \E a \in DOMAIN alerts' : alerts'[a].change = c
    BY DEF Told
  <2>1. c \in DOMAIN changes
    OBVIOUS
  <2>2. changes[c].to = to /\ Gravity(snapshots, changes[c]) \in Graves
    BY <2>1, GravityKept
  <2>3. snapshots[to].by \in Crons
    BY <1>1 DEF Grown, Rows
  <2>4. \E a \in DOMAIN alerts : alerts[a].change = c
    BY <2>1, <2>2, <2>3 DEF Settled, Told
  <2>5. QED  BY <1>1, <2>4 DEF Grown
<1>4. QED  BY <1>2, <1>3 DEF Settled

(* An invocation that works on leaves its row settled. *)
LEMMA LeavesSettled ==
  ASSUME HistoryInv, Signed, NEW w \in Workers, Works(w), Stores(w),
         NEW to \in Rows, work[w].to = to, work'[w].to # to
  PROVE  Settled(snapshots', changes', alerts', to)
<1>0. /\ work \in [Workers -> JobType] /\ work[w] \in JobType
      /\ TypeOK /\ Sound(w) /\ to # NoRow /\ snapshots \in Seq(RowType)
      /\ work[w].pc \in Comparing /\ StoredRow(w) /\ snapshots[to].by = w
  <2>1. Rows \subseteq Nat \ {NoRow}
    BY Types DEF HistoryInv, Rows, NoRow
  <2>2. QED  BY <2>1, Types DEF HistoryInv, Sound, Signed
<1>1. CASE NothingToCompare(w)
  <2>0. UNCHANGED <<snapshots, changes, alerts>> /\ At(w, "prior")
    BY <1>1 DEF NothingToCompare, tables
  <2>1. \A c \in DOMAIN changes : changes[c].to # to
    BY <2>0 DEF HistoryInv, Sound, At
  <2>2. EarlierThan(snapshots, to) = Earlier(Domain(w), work[w].at)
    BY <1>0 DEF EarlierThan, Earlier, StoredRow
  <2>3. CASE Prior(w) = {}
    <3>1. \A i \in EarlierThan(snapshots, to) : ~(i < to)
      <4>1. SUFFICES ASSUME NEW k \in EarlierThan(snapshots, to) PROVE FALSE
        OBVIOUS
      <4>2. IsFiniteSet(EarlierThan(snapshots, to))
        <5>1. IsFiniteSet(DOMAIN snapshots)
          BY <1>0, RowsFinite
        <5>2. EarlierThan(snapshots, to) \in SUBSET DOMAIN snapshots
          BY DEF EarlierThan
        <5>3. QED  BY <5>1, <5>2, FS_Subset
      <4> DEFINE at == [i \in Rows |-> snapshots[i].at]
      <4>3. \A i \in EarlierThan(snapshots, to) : at[i] \in Int
        <5>1. \A i \in DOMAIN snapshots : snapshots[i] \in RowType
          BY <1>0
        <5>2. QED  BY <5>1 DEF EarlierThan, Rows, RowType
      <4>4. PICK i \in EarlierThan(snapshots, to) :
              \A j \in EarlierThan(snapshots, to) : at[j] <= at[i]
        BY <4>1, <4>2, <4>3, LargestExists, Zenon
      <4>5. QED  BY <2>2, <2>3, <4>4 DEF Prior, Latest, EarlierThan, Rows
    <3>2. QED  BY <2>0, <2>1, <3>1 DEF Settled, Linked, Told
  <2>4. ASSUME NEW i \in Prior(w), snapshots[i].version # work[w].version
        PROVE  Linked(snapshots, changes, to)
    BY <1>0, <2>2, <2>4 DEF Prior, Latest, Linked, StoredRow
  <2>5. QED  BY <1>1, <2>0, <2>1, <2>3, <2>4 DEF NothingToCompare, Settled, Told
<1>2. CASE InsertChange(w) /\ ~Alerting(w)
  <2>1. At(w, "change") /\ StoreChange(w) /\ UNCHANGED <<snapshots, alerts>>
    BY <1>2 DEF InsertChange
  <2> DEFINE new == Len(changes) + 1
  <2>2. /\ DOMAIN changes' = DOMAIN changes \cup {new}
        /\ changes'[new] = [domain |-> Domain(w), from |-> work[w].from, to |-> to]
        /\ \A c \in DOMAIN changes : changes'[c] = changes[c] /\ changes[c].to # to
    BY <2>1, ChangeStored DEF Grown, HistoryInv, Sound, At
  <2> HIDE DEF new
  <2>3. Linked(snapshots', changes', to)
    BY <2>2 DEF Linked
  <2>4. Gravity(snapshots', changes'[new]) = Materiality(work[w].from, work[w].to)
    BY <2>1, <2>2 DEF Gravity, Materiality
  <2>5. snapshots'[to].by = w
    BY <1>0, <2>1
  <2>6. Told(snapshots', changes', alerts', to)
    BY <1>2, <2>2, <2>4, <2>5 DEF Told, Alerting, Graves
  <2>7. QED  BY <2>3, <2>6 DEF Settled
<1>3. CASE InsertAlert(w)
  <2>1. At(w, "alert") /\ StoreAlert(w) /\ UNCHANGED <<snapshots, changes>>
    BY <1>3 DEF InsertAlert
  <2>2. StoredChange(w)
    BY <1>0, <2>1 DEF Sound, At, HasChange
  <2>3. Linked(snapshots, changes, to)
    BY <2>2 DEF Linked, StoredChange
  <2>4. \A c \in DOMAIN changes : changes[c].to = to => c = work[w].change
    BY <2>2 DEF StoredChange, HistoryInv, ChangesAnchored
  <2>5. \E a \in DOMAIN alerts' : alerts'[a].change = work[w].change
    <3>1. /\ Len(alerts) + 1 \in DOMAIN alerts'
          /\ alerts'[Len(alerts) + 1] =
               [domain |-> Domain(w), change |-> work[w].change,
                materiality |-> Materiality(work[w].from, work[w].to),
                delivered |-> work[w].delivered]
      BY <2>1, AlertStored
    <3>2. QED  BY <3>1
  <2>6. QED  BY <2>1, <2>3, <2>4, <2>5 DEF Settled, Told
<1>4. NothingToCompare(w) \/ (InsertChange(w) /\ ~Alerting(w)) \/ InsertAlert(w)
  <2>1. ~(ScanStarts(w) \/ Ends(w) \/ (\E s \in Sightings : ScanReturns(w, s))
          \/ InsertSnapshot(w))
    BY <1>0 DEF ScanStarts, Ends, ScanReturns, InsertSnapshot, At, Comparing
  <2>2. \A i \in DOMAIN snapshots : ~SelectPrior(w, i)
    BY <1>0 DEF SelectPrior, JobType
  <2>3. ~(InsertChange(w) /\ Alerting(w))
    BY <1>0 DEF InsertChange, JobType
  <2>4. ~Delivered(w) /\ ~Undelivered(w)
    BY <1>0 DEF Delivered, Undelivered, Goto, JobType
  <2>5. QED  BY <2>1, <2>2, <2>3, <2>4 DEF Works
<1>5. QED  BY <1>1, <1>2, <1>3, <1>4

(* The step of one invocation. *)
LEMMA SignedKept ==
  ASSUME HistoryInv, Signed, NEW w \in Workers, Acts(w)
  PROVE  Signed'
<1>0. /\ Stores(w) /\ Advances(w) /\ Grown(snapshots, snapshots')
      /\ \A v \in Workers \ {w} : work'[v] = work[v]
  BY ActsStore, ActsAdvance, TablesGrow DEF HistoryInv
<1>1. \A v \in Workers : work[v].to # NoRow =>
        work[v].to \in Rows /\ snapshots[work[v].to].by = v
  BY DEF HistoryInv, Sound, StoredRow, Signed
<1>2. \A v \in Workers : work[v].to # NoRow => snapshots'[work[v].to].by = v
  BY <1>0, <1>1 DEF Grown, Rows
<1>3. ASSUME work'[w].to # NoRow, work'[w].to \notin Rows
      PROVE  snapshots'[work'[w].to].by = w
  <2>1. work'[w].to \in Rows'
    BY <1>0, <1>3 DEF Advances, Sound, StoredRow
  <2>2. StoresRow(w)
    BY <1>0, <1>3, <2>1 DEF Stores, StoresNothing, StoresChange, Tells, StoresAlert,
                            tables, Rows
  <2>3. /\ snapshots \in Seq(RowType) /\ snapshots' \in Seq(RowType)
        /\ snapshots' = Append(snapshots, [domain |-> Domain(w), at |-> work[w].at,
                            version |-> work[w].version, seen |-> work[w].seen, by |-> w])
    BY <1>0, <2>2, TablesGrow, Types DEF HistoryInv, StoresRow, StoreSnapshot
  <2>4. work'[w].to = Len(snapshots) + 1
    BY <1>3, <2>1, <2>3 DEF Rows
  <2>5. snapshots'[Len(snapshots) + 1] =
          [domain |-> Domain(w), at |-> work[w].at,
           version |-> work[w].version, seen |-> work[w].seen, by |-> w]
    BY <2>2, RowStored DEF StoresRow
  <2>6. QED  BY <2>4, <2>5
<1>4. ASSUME NEW v \in Workers, work'[v].to # NoRow
      PROVE  snapshots'[work'[v].to].by = v
  <2>1. CASE v # w
    BY <1>0, <1>2, <1>4, <2>1
  <2>2. CASE v = w /\ work'[w].to = work[w].to
    BY <1>2, <1>4, <2>2
  <2>3. CASE v = w /\ work'[w].to # work[w].to
    BY <1>0, <1>3, <1>4, <2>3 DEF Advances
  <2>4. QED  BY <2>1, <2>2, <2>3
<1>5. QED  BY <1>4 DEF Signed

LEMMA AllSettledKept ==
  ASSUME AuditInv, NEW w \in Workers, Acts(w), cut \subseteq cut',
         \/ Works(w) \/ CutShort(w)
         \/ work'[w].to = work[w].to /\ UNCHANGED snapshots
  PROVE  AllSettled'
<1>0. /\ HistoryInv /\ Signed /\ AllSettled /\ Stores(w)
      /\ Grown(snapshots, snapshots') /\ Grown(changes, changes')
      /\ \A v \in Workers \ {w} : work'[v] = work[v]
      /\ work[w].to # NoRow <=> work[w].pc \in Comparing
  BY ActsStore, TablesGrow DEF AuditInv, HistoryInv, Sound
<1>1. SUFFICES ASSUME NEW to \in Rows' \ cut', Done(to)'
               PROVE  Settled(snapshots', changes', alerts', to)
  BY DEF AllSettled
<1>2. to \notin cut /\ to # NoRow
  <2>1. snapshots' \in Seq(RowType)
    BY <1>0, TablesGrow
  <2>2. QED  BY <2>1 DEF Rows, NoRow
<1>3. CASE to \notin Rows
  <2>1. StoresRow(w)
    BY <1>0, <1>3 DEF Stores, StoresNothing, StoresChange, Tells, StoresAlert,
                      tables, Rows
  <2>2. At(w, "insert") /\ ~UNCHANGED snapshots
    BY <1>3, <2>1 DEF StoresRow, Rows
  <2>3. CASE Works(w)
    <3>1. InsertSnapshot(w)
      BY <2>2, <2>3
         DEF Works, At, ScanStarts, Ends, ScanReturns, NothingToCompare, SelectPrior,
             InsertChange, Delivered, Undelivered, InsertAlert
    <3>2. work'[w].to = Len(snapshots) + 1
      <4>1. work \in [Workers -> JobType]
        BY <1>0, Types DEF HistoryInv
      <4>2. QED  BY <3>1, <4>1 DEF InsertSnapshot, JobType
    <3>3. to = Len(snapshots) + 1
      <4>1. /\ snapshots \in Seq(RowType) /\ snapshots' \in Seq(RowType)
            /\ snapshots' = Append(snapshots, [domain |-> Domain(w), at |-> work[w].at,
                version |-> work[w].version, seen |-> work[w].seen, by |-> w])
        BY <1>0, <2>1, TablesGrow, Types DEF HistoryInv, StoresRow, StoreSnapshot
      <4>2. QED  BY <1>3, <4>1 DEF Rows
    <3>4. QED  BY <1>1, <3>2, <3>3 DEF Done
  <2>4. CASE CutShort(w)
    BY <1>1, <1>2, <1>3, <2>2, <2>4 DEF CutShort, Rows
  <2>5. QED  BY <2>2, <2>3, <2>4
<1>4. CASE to \in Rows /\ work[w].to # to
  <2>1. Done(to)
    BY <1>0, <1>1, <1>4 DEF Done
  <2>2. Settled(snapshots, changes, alerts, to)
    BY <1>0, <1>2, <1>4, <2>1 DEF AllSettled
  <2>3. \A c \in DOMAIN changes' \ DOMAIN changes : changes'[c].to # to
    <3>1. CASE UNCHANGED changes
      BY <3>1
    <3>2. CASE StoresChange(w)
      <4>1. /\ DOMAIN changes' = DOMAIN changes \cup {Len(changes) + 1}
            /\ changes'[Len(changes) + 1] =
                 [domain |-> Domain(w), from |-> work[w].from, to |-> work[w].to]
        BY <1>0, <3>2, ChangeStored DEF StoresChange
      <4>2. changes'[Len(changes) + 1].to # to
        BY <1>4, <4>1
      <4>3. QED  BY <4>1, <4>2
    <3>3. QED  BY <1>0, <3>1, <3>2
               DEF Stores, StoresNothing, StoresRow, Tells, StoresAlert, tables
  <2>4. QED  BY <1>0, <1>4, <2>2, <2>3, SettledKept
<1>5. CASE to \in Rows /\ work[w].to = to
  <2>1. work'[w].to # to
    BY <1>1 DEF Done
  <2>2. CASE Works(w)
    BY <1>0, <1>5, <2>1, <2>2, LeavesSettled
  <2>3. CASE CutShort(w)
    <3>1. ~At(w, "insert")
      BY <1>0, <1>2, <1>5 DEF At, Comparing
    <3>2. QED  BY <1>1, <1>2, <1>5, <2>3, <3>1 DEF CutShort
  <2>4. QED  BY <1>5, <2>1, <2>2, <2>3
<1>6. QED  BY <1>3, <1>4, <1>5

LEMMA AuditStep == AuditInv /\ [NextA]_<<vars, cut>> => AuditInv'
<1> SUFFICES ASSUME AuditInv, [NextA]_<<vars, cut>> PROVE AuditInv'
  OBVIOUS
<1>1. [Next]_vars
  BY DEF NextA, Next, Progress
<1>2. HistoryInv'
  BY <1>1, HistoryStep DEF AuditInv
<1>3. CASE UNCHANGED <<snapshots, changes, alerts, work, cut>>
  BY <1>2, <1>3 DEF AuditInv, Signed, AllSettled, Done, Rows
<1>4. ASSUME NEW w \in Workers, Acts(w), cut \subseteq cut',
             \/ Works(w) \/ CutShort(w)
             \/ work'[w].to = work[w].to /\ UNCHANGED snapshots
      PROVE  AuditInv'
  <2>1. AllSettled'
    BY <1>4, AllSettledKept
  <2>2. Signed'
    BY <1>4, SignedKept DEF AuditInv
  <2>3. QED  BY <1>2, <2>1, <2>2 DEF AuditInv
<1>5. ASSUME NEW w \in Workers, CronFires(w) \/ \E d \in Domains : Request(w, d),
             UNCHANGED cut
      PROVE  AuditInv'
  <2>1. work \in [Workers -> JobType]
    BY Types DEF AuditInv, HistoryInv
  <2>2. work'[w].to = work[w].to /\ UNCHANGED snapshots
    BY <1>5, <2>1 DEF CronFires, Request, Invoke, tables, JobType
  <2>3. QED  BY <1>4, <1>5, <2>2 DEF Acts
<1>6. CASE (Deploy \/ Tick) /\ UNCHANGED cut
  BY <1>3, <1>6 DEF Deploy, Tick, tables
<1>7. CASE UNCHANGED <<vars, cut>>
  BY <1>3, <1>7 DEF vars, tables
<1>8. CASE Arrivals /\ UNCHANGED cut
  BY <1>5, <1>8 DEF Arrivals
<1>9. ASSUME NEW w \in Workers, Works(w), UNCHANGED cut PROVE AuditInv'
  BY <1>4, <1>9 DEF Acts
<1>10. ASSUME NEW w \in Workers, StorageFails(w) \/ Evicted(w), CutShort(w)
       PROVE  AuditInv'
  BY <1>4, <1>10 DEF Acts, CutShort
<1>11. QED  BY <1>6, <1>7, <1>8, <1>9, <1>10 DEF NextA

LEMMA AuditInit == InitA => AuditInv
<1>1. InitA => HistoryInv
  BY HistoryInit DEF InitA
<1>2. InitA => Signed /\ AllSettled
  BY DEF InitA, Init, Signed, AllSettled, Rows, Resting
<1>3. QED  BY <1>1, <1>2 DEF AuditInv

(* What holds of History holds of it when it is audited. *)
LEMMA AuditIsHistory == SpecA => Spec
<1>1. InitA => Init
  BY DEF InitA
<1>2. [NextA]_<<vars, cut>> => [Next]_vars
  BY DEF NextA, Next, Progress
<1>3. QED  BY <1>1, <1>2, PTL DEF SpecA, Spec

LEMMA AuditInvariant == SpecA => []AuditInv
  BY AuditInit, AuditStep, PTL DEF SpecA

(* No change is lost but by a fault of its own invocation: whatever fails   *)
(* elsewhere and in whatever order invocations run, an observation that had *)
(* an earlier complete one ends a change, unless the newest of the earlier  *)
(* ones comes from another build.                                           *)
THEOREM ChainStaysComplete == SpecA => []ChainComplete
<1>1. AuditInv => ChainComplete
  BY SettledShape DEF AuditInv
<1>2. QED  BY <1>1, AuditInvariant, PTL

(* Every grave change a cron scan detects is alerted, unless a fault cut    *)
(* that very scan short.                                                    *)
THEOREM GraveChangesAlert == SpecA => []CronAlerts
<1>1. AuditInv => CronAlerts
  BY SettledShape DEF AuditInv
<1>2. QED  BY <1>1, AuditInvariant, PTL
=============================================================================
