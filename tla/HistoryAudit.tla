---------------------------- MODULE HistoryAudit ----------------------------
(* What History loses to faults: the same steps, and a record of the rows   *)
(* whose own invocation a storage error or an eviction cut short.           *)
EXTENDS History

VARIABLE cut    \* set of row numbers

InitA == Init /\ cut = {}

(* The row the invocation was at work on, or the one a failed INSERT left   *)
(* behind; nothing, if none was stored.                                     *)
CutShort(w) ==
  cut' = cut \cup
    ((IF At(w, "insert") THEN DOMAIN snapshots' \ DOMAIN snapshots
                         ELSE {work[w].to}) \ {NoRow})

NextA ==
  \/ \E w \in Workers : (StorageFails(w) \/ Evicted(w)) /\ CutShort(w)
  \/ \E w \in Workers : Works(w) /\ UNCHANGED cut
  \/ (Arrivals \/ Deploy \/ Tick) /\ UNCHANGED cut

SpecA == InitA /\ [][NextA]_<<vars, cut>>
-----------------------------------------------------------------------------
(* No change is lost but by a fault of its own invocation: an observation   *)
(* that had an earlier complete one when it was stored ends a change,       *)
(* unless the newest of the earlier ones comes from another build.  A fault *)
(* costs no other invocation its change.                                    *)
ChainComplete ==
  \A to \in Rows \ cut :
    LET earlier == Earlier(snapshots[to].domain, snapshots[to].at) IN
    Done(to) /\ (\E i \in earlier : i < to) =>
      \/ \E c \in DOMAIN changes : changes[c].to = to
      \/ \E i \in earlier :
           /\ snapshots[i].version # snapshots[to].version
           /\ \A j \in earlier : j < to => snapshots[j].at <= snapshots[i].at

(* Every grave change that a cron scan detects is alerted, whether or not   *)
(* the webhook answers, unless a fault cut that very scan short.            *)
CronAlerts ==
  \A c \in DOMAIN changes :
    /\ snapshots[changes[c].to].by \in Crons
    /\ Done(changes[c].to) /\ changes[c].to \notin cut
    /\ Materiality(changes[c].from, changes[c].to) \in Graves
    => \E a \in DOMAIN alerts : alerts[a].change = c
=============================================================================
