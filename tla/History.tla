------------------------------ MODULE History ------------------------------
(***************************************************************************)
(* Compare-on-write history of site scans: src/src/history.ts, the cron     *)
(* handler src/src/scheduled.ts and the alerts of src/src/alerting.ts, over *)
(* one D1 database.                                                         *)
(*                                                                          *)
(* A worker is one invocation of the Worker: a paid GET                     *)
(* /snapshot/run?history=true scans one domain, a cron event scans the      *)
(* configured domains one after the other and alerts.  Invocations run      *)
(* concurrently and interleave at every await: the scan, each D1 statement  *)
(* and the webhook call.  A D1 statement is atomic, but the caller may see  *)
(* it fail whether or not it was applied; an invocation may be evicted.     *)
(* Rows are numbered by AUTOINCREMENT, so a table is a sequence of rows.    *)
(***************************************************************************)
EXTENDS Comparator

CONSTANTS
  Crons, Requests,     \* invocations
  Domains,             \* history keys (domainKey)
  Monitored,           \* MONITOR_DOMAINS, a sequence of domains
  Sightings, Unseen,   \* what a scan can return; nothing returned yet
  Webhook,             \* BOOLEAN: ALERT_WEBHOOK_URL is set
  Faults,              \* what may fail: "storage", "webhook", "eviction"
  Horizon,             \* bound: the clock stops here
  MaxVersion,          \* bound: number of scanner/scoring versions deployed
  MaxInvocations       \* bound: number of invocations

Workers == Crons \cup Requests
NoRow   == 0

ASSUME HistoryAssumption ==
  /\ Crons \cap Requests = {}
  /\ Monitored \in Seq(Domains)
  /\ Webhook \in BOOLEAN /\ Faults \subseteq {"storage", "webhook", "eviction"}
  /\ Horizon \in Nat /\ MaxVersion \in Nat /\ MaxInvocations \in Nat

VARIABLES
  snapshots,  \* table snapshots: [domain, at, version, seen, by]
  changes,    \* table changes: [domain, from, to]
  alerts,     \* table alerts: [domain, change, materiality, delivered]
  received,   \* changes the webhook's owner was told about
  work,       \* worker |-> its invocation
  version,    \* SCANNER_VERSION and SCORING_VERSION of the deployed build
  now,
  calls       \* number of invocations so far

tables == <<snapshots, changes, alerts>>
clock  == <<version, now, calls>>
vars   == <<tables, received, work, clock>>

Steps   == {"idle", "next", "scan", "insert", "prior", "change", "deliver", "alert"}
Resting == [pc |-> "idle", queue |-> <<>>, version |-> 0, at |-> 0,
            seen |-> Unseen, to |-> NoRow, from |-> NoRow, change |-> NoRow,
            delivered |-> FALSE]

Domain(w) == Head(work[w].queue)
At(w, pc) == work[w].pc = pc
Goto(w, pc) == work' = [work EXCEPT ![w].pc = pc]

(* The worker is done with the domain at the head of its queue. *)
DomainDone(w) ==
  work' = [work EXCEPT ![w] = [Resting EXCEPT !.pc = "next",
                                 !.queue   = Tail(work[w].queue),
                                 !.version = work[w].version]]
-----------------------------------------------------------------------------
Init ==
  /\ snapshots = <<>> /\ changes = <<>> /\ alerts = <<>> /\ received = {}
  /\ work = [w \in Workers |-> Resting]
  /\ version = 1 /\ now = 0 /\ calls = 0

(* The invocation runs the build deployed when it starts. *)
Invoke(w, queue) ==
  /\ At(w, "idle") /\ calls < MaxInvocations
  /\ calls' = calls + 1
  /\ work' = [work EXCEPT ![w].pc = "next", ![w].queue = queue,
                          ![w].version = version]
  /\ UNCHANGED <<tables, received, version, now>>

CronFires(w)  == w \in Crons /\ Monitored # <<>> /\ Invoke(w, Monitored)
Request(w, d) == w \in Requests /\ Invoke(w, <<d>>)

(* snapshot.timestamp is taken when the scan starts. *)
ScanStarts(w) ==
  /\ At(w, "next") /\ work[w].queue # <<>>
  /\ work' = [work EXCEPT ![w].pc = "scan", ![w].at = now]
  /\ UNCHANGED <<tables, received, clock>>

Ends(w) ==
  /\ At(w, "next") /\ work[w].queue = <<>>
  /\ work' = [work EXCEPT ![w] = Resting]
  /\ UNCHANGED <<tables, received, clock>>

ScanReturns(w, s) ==
  /\ At(w, "scan")
  /\ work' = [work EXCEPT ![w].pc = "insert", ![w].seen = s]
  /\ UNCHANGED <<tables, received, clock>>

(* insertSnapshotRow *)
StoreSnapshot(w) ==
  snapshots' = Append(snapshots,
    [domain |-> Domain(w), at |-> work[w].at, version |-> work[w].version,
     seen |-> work[w].seen, by |-> w])

InsertSnapshot(w) ==
  /\ At(w, "insert")
  /\ StoreSnapshot(w)
  /\ work' = [work EXCEPT ![w].pc = "prior", ![w].to = Len(snapshots) + 1]
  /\ UNCHANGED <<changes, alerts, received, clock>>

(* Mutant: a storage error leaves the loop over the domains. *)
InsertSnapshotFailsRun(w, applied) ==
  /\ "storage" \in Faults /\ At(w, "insert")
  /\ IF applied THEN StoreSnapshot(w) ELSE UNCHANGED snapshots
  /\ work' = [work EXCEPT ![w] = [Resting EXCEPT !.pc = "next"]]
  /\ UNCHANGED <<changes, alerts, received, clock>>

(* Any storage error ends the domain: runSnapshotWithHistory degrades to a  *)
(* change that is not comparable.                                           *)
InsertSnapshotFails(w, applied) ==
  /\ "storage" \in Faults /\ At(w, "insert")
  /\ IF applied THEN StoreSnapshot(w) ELSE UNCHANGED snapshots
  /\ DomainDone(w)
  /\ UNCHANGED <<changes, alerts, received, clock>>

(* Mutant: partial and failed observations anchor comparisons too. *)
EarlierOfAnyStatus(domain, at) ==
  {i \in DOMAIN snapshots : snapshots[i].domain = domain /\ snapshots[i].at < at}

(* getPriorCompleteSnapshot: newest complete row of the domain taken before *)
(* this scan; rows of equal time come in no particular order.               *)
Earlier(domain, at) ==
  {i \in DOMAIN snapshots : /\ snapshots[i].domain = domain
                            /\ SnapshotStatus(snapshots[i].seen) = "complete"
                            /\ snapshots[i].at < at}
(* Mutant: ORDER BY scanned_at without DESC. *)
Oldest(rows) == {i \in rows : \A j \in rows : snapshots[j].at >= snapshots[i].at}
Latest(rows) == {i \in rows : \A j \in rows : snapshots[j].at <= snapshots[i].at}
Prior(w)     == Latest(Earlier(Domain(w), work[w].at))

(* Mutant: an observation equal to the prior one is not recorded as a step. *)
NothingNew(w) ==
  /\ At(w, "prior")
  /\ \/ Prior(w) = {}
     \/ \E i \in Prior(w) : \/ snapshots[i].version # work[w].version
                           \/ snapshots[i].seen = work[w].seen
  /\ DomainDone(w)
  /\ UNCHANGED <<tables, received, clock>>

NothingToCompare(w) ==
  /\ At(w, "prior")
  /\ \/ Prior(w) = {}
     \/ \E i \in Prior(w) : snapshots[i].version # work[w].version
  /\ DomainDone(w)
  /\ UNCHANGED <<tables, received, clock>>

SelectPrior(w, i) ==
  /\ At(w, "prior") /\ i \in Prior(w)
  /\ snapshots[i].version = work[w].version
  /\ work' = [work EXCEPT ![w].pc = "change", ![w].from = i]
  /\ UNCHANGED <<tables, received, clock>>

SelectPriorFails(w) ==
  /\ "storage" \in Faults /\ At(w, "prior")
  /\ DomainDone(w)
  /\ UNCHANGED <<tables, received, clock>>

(* insertChangeRow; the changed fields follow from the two snapshots. *)
StoreChange(w) ==
  changes' = Append(changes, [domain |-> Domain(w), from |-> work[w].from,
                              to |-> work[w].to])

Materiality(from, to) == RecordMateriality(snapshots[from].seen, snapshots[to].seen)
(* Mutant: every change of a cron scan alerts. *)
AlertingAlways(w) == w \in Crons
(* Mutant: only critical changes alert. *)
AlertingCritical(w) == /\ w \in Crons
                       /\ Materiality(work[w].from, work[w].to) = "critical"
Alerting(w) == /\ w \in Crons
               /\ Materiality(work[w].from, work[w].to) \in {"critical", "material"}

InsertChange(w) ==
  /\ At(w, "change")
  /\ StoreChange(w)
  /\ IF Alerting(w)
     THEN work' = [work EXCEPT ![w].pc = "deliver", ![w].change = Len(changes) + 1]
     ELSE DomainDone(w)
  /\ UNCHANGED <<snapshots, alerts, received, clock>>

(* Mutant: the alert goes out although the change was not stored. *)
AlertsUnstored(w, applied) ==
  /\ "storage" \in Faults /\ At(w, "change") /\ Alerting(w)
  /\ IF applied THEN StoreChange(w) ELSE UNCHANGED changes
  /\ Goto(w, "deliver")
  /\ UNCHANGED <<snapshots, alerts, received, clock>>

InsertChangeFails(w, applied) ==
  /\ "storage" \in Faults /\ At(w, "change")
  /\ IF applied THEN StoreChange(w) ELSE UNCHANGED changes
  /\ DomainDone(w)
  /\ UNCHANGED <<snapshots, alerts, received, clock>>

(* deliverAlert: one POST, never repeated.  A call that times out may have  *)
(* been received; one that is refused was not.                              *)
Delivered(w) ==
  /\ At(w, "deliver") /\ Webhook
  /\ received' = received \cup {work[w].change}
  /\ work' = [work EXCEPT ![w].pc = "alert", ![w].delivered = TRUE]
  /\ UNCHANGED <<tables, clock>>

Undelivered(w) ==
  /\ At(w, "deliver") /\ (~Webhook \/ "webhook" \in Faults)
  /\ \/ UNCHANGED received
     \/ Webhook /\ received' = received \cup {work[w].change}
  /\ Goto(w, "alert")
  /\ UNCHANGED <<tables, clock>>

(* Mutant: the alert refers to the snapshot. *)
StoreAlertOfSnapshot(w) ==
  alerts' = Append(alerts,
    [domain |-> Domain(w), change |-> work[w].to,
     materiality |-> Materiality(work[w].from, work[w].to),
     delivered |-> work[w].delivered])

StoreAlert(w) ==
  alerts' = Append(alerts,
    [domain |-> Domain(w), change |-> work[w].change,
     materiality |-> Materiality(work[w].from, work[w].to),
     delivered |-> work[w].delivered])

InsertAlert(w) ==
  /\ At(w, "alert")
  /\ StoreAlert(w)
  /\ DomainDone(w)
  /\ UNCHANGED <<snapshots, changes, received, clock>>

(* The error is logged and swallowed. *)
InsertAlertFails(w, applied) ==
  /\ "storage" \in Faults /\ At(w, "alert")
  /\ IF applied THEN StoreAlert(w) ELSE UNCHANGED alerts
  /\ DomainDone(w)
  /\ UNCHANGED <<snapshots, changes, received, clock>>
-----------------------------------------------------------------------------
Evicted(w) ==
  /\ "eviction" \in Faults /\ ~At(w, "idle")
  /\ work' = [work EXCEPT ![w] = Resting]
  /\ UNCHANGED <<tables, received, clock>>

Deploy ==
  /\ version < MaxVersion
  /\ version' = version + 1
  /\ UNCHANGED <<tables, received, work, now, calls>>

Tick ==
  /\ now < Horizon
  /\ now' = now + 1
  /\ UNCHANGED <<tables, received, work, version, calls>>

Works(w) ==
  \/ ScanStarts(w) \/ Ends(w)
  \/ \E s \in Sightings : ScanReturns(w, s)
  \/ InsertSnapshot(w) \/ NothingToCompare(w)
  \/ \E i \in DOMAIN snapshots : SelectPrior(w, i)
  \/ InsertChange(w)
  \/ Delivered(w) \/ Undelivered(w)
  \/ InsertAlert(w)

StorageFails(w) ==
  \/ \E b \in BOOLEAN : InsertSnapshotFails(w, b)
  \/ SelectPriorFails(w)
  \/ \E b \in BOOLEAN : InsertChangeFails(w, b) \/ InsertAlertFails(w, b)

Progress(w) == Works(w) \/ StorageFails(w)

Arrivals ==
  \/ \E w \in Workers : CronFires(w)
  \/ \E w \in Workers, d \in Domains : Request(w, d)

Next ==
  \/ \E w \in Workers : Progress(w) \/ Evicted(w)
  \/ Arrivals \/ Deploy \/ Tick

Spec == Init /\ [][Next]_vars

(* Assumed, more than the code secures: every await of an invocation ends.  *)
(* The site's own answer is awaited with a timer; the host lookup           *)
(* (ssrf-guard.ts), the DNS records (dns-check.ts), a body (snapshot.ts),   *)
(* D1 and the webhook (alerting.ts) are awaited without one.  The platform  *)
(* may evict an invocation that is stuck: then it does not go on, it ends,  *)
(* and the domains left in its queue are not scanned.                       *)
Fairness == \A w \in Workers : WF_vars(Progress(w))
-----------------------------------------------------------------------------
Rows   == DOMAIN snapshots
Graves == {"critical", "material"}
Done(to) == \A w \in Workers : work[w].to # to

(* Tables, invocations and bounds keep their types. *)
TypeOK ==
  /\ snapshots \in Seq([domain : Domains, at : Nat, version : Nat,
                         seen : Sightings, by : Workers])
  /\ changes \in Seq([domain : Domains, from : Nat, to : Nat])
  /\ alerts \in Seq([domain : Domains, change : Nat, materiality : Graves,
                      delivered : BOOLEAN])
  /\ received \subseteq Nat
  /\ work \in [Workers ->
       [pc : Steps, queue : Seq(Domains), version : Nat, at : Nat,
        seen : Sightings \cup {Unseen}, to : Nat, from : Nat, change : Nat,
        delivered : BOOLEAN]]
  /\ version \in Nat /\ now \in Nat /\ calls \in Nat

(* A change relates two stored observations of its own domain, made by the  *)
(* same build, from a complete one to a later one: GET /changes finds both  *)
(* ends of every row.                                                       *)
ChangesGrounded ==
  \A c \in DOMAIN changes :
    LET from == changes[c].from  to == changes[c].to IN
    /\ {from, to} \subseteq Rows
    /\ {snapshots[from].domain, snapshots[to].domain} = {changes[c].domain}
    /\ SnapshotStatus(snapshots[from].seen) = "complete"
    /\ snapshots[from].version = snapshots[to].version
    /\ snapshots[from].at < snapshots[to].at

(* Changes are steps: no complete observation that was already stored lies  *)
(* between the two ends, and an observation is the end of one change.       *)
ChangesAreSteps ==
  \A c \in DOMAIN changes :
    LET from == changes[c].from  to == changes[c].to IN
    /\ \A i \in Earlier(changes[c].domain, snapshots[to].at) :
          i < to => snapshots[i].at <= snapshots[from].at
    /\ \A d \in DOMAIN changes : changes[d].to = to => d = c

(* An alert is about one stored change of its domain, at least as grave as  *)
(* material and as grave as GET /changes recomputes it; a change has one    *)
(* alert at most, and an alert marked delivered reached the webhook.        *)
AlertsMatch ==
  \A a \in DOMAIN alerts :
    LET c == alerts[a].change IN
    /\ c \in DOMAIN changes
    /\ changes[c].domain = alerts[a].domain
    /\ Materiality(changes[c].from, changes[c].to) = alerts[a].materiality
    /\ alerts[a].delivered => c \in received
    /\ \A b \in DOMAIN alerts : alerts[b].change = c => b = a

(* The webhook hears of stored, grave changes only, also when a storage     *)
(* error or an eviction cuts the invocation short.                          *)
ToldOfChanges ==
  received \subseteq {c \in DOMAIN changes :
                       Materiality(changes[c].from, changes[c].to) \in Graves}

(* Per-domain isolation: however D1 and the webhook fail on one domain, a   *)
(* cron invocation whose awaits all end and that is not evicted goes on to  *)
(* scan every monitored domain.                                             *)
EveryDomainScanned ==
  \A w \in Crons : \A i \in DOMAIN Monitored :
    At(w, "next") /\ work[w].queue = Monitored
      ~> At(w, "scan") /\ Domain(w) = Monitored[i]
-----------------------------------------------------------------------------
(* A statement of the documents that the code does not keep.                *)

(* scheduled.ts: the scheduled scan "records/delivers alerts on             *)
(* material/critical changes": when a grave difference lies between two     *)
(* consecutive scheduled observations of a domain, the second one alerts.   *)
Scheduled(i) == /\ snapshots[i].by \in Crons
                /\ SnapshotStatus(snapshots[i].seen) = "complete"
MonitoredChangesAlert ==
  \A i, j \in Rows :
    /\ i < j /\ Scheduled(i) /\ Scheduled(j) /\ Done(j)
    /\ snapshots[i].domain = snapshots[j].domain
    /\ snapshots[i].version = snapshots[j].version
    /\ snapshots[i].at < snapshots[j].at
    /\ \A k \in i + 1 .. j - 1 : ~Scheduled(k)
    /\ Materiality(i, j) \in Graves
    => \E a \in DOMAIN alerts : changes[alerts[a].change].to = j
=============================================================================
