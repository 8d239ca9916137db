--------------------------- MODULE FindingsReview ---------------------------
(***************************************************************************)
(* Rulings on content findings (src/src/index.ts, POST /findings/review and *)
(* GET /findings; migration 0004): reviewers rule on the findings of a scan *)
(* of ContentScans, each with a SELECT and then an INSERT or an UPDATE.     *)
(*                                                                          *)
(* (domain, finding_key) is UNIQUE and the domain is the one scanned, so    *)
(* the table maps finding keys to statuses.  A finding key is a finding's   *)
(* type and fact: findings on several pages share it.                       *)
(***************************************************************************)
EXTENDS ContentScans

CONSTANTS
  Reviewers,
  MaxReviews,          \* bound: number of reviews posted
  MaxLoadsReviewed     \* bound: loads run before the findings are reviewed

VARIABLES
  rulings,   \* D1 table findings_review: finding key |-> status
  review,    \* reviewer |-> [pc, key, status, exists]
  reviews,   \* number of reviews so far
  told       \* not in the program: key |-> the rulings that may stand

reviewVars == <<rulings, review, reviews, told>>

Statuses == {"confirmed", "false-positive", "pending"}
NoReview == [pc |-> "idle", key |-> <<>>, status |-> "pending", exists |-> FALSE]

InitF ==
  /\ Init
  /\ rulings = <<>> /\ told = <<>> /\ reviews = 0
  /\ review = [r \in Reviewers |-> NoReview]
-----------------------------------------------------------------------------
FindingKey(f) == <<f.type, f.factKey>>

(* GET /findings: what it says of the review of a finding. *)
ReviewOf(f) ==
  IF FindingKey(f) \in DOMAIN rulings THEN rulings[FindingKey(f)] ELSE "pending"

At(r, pc)  == review[r].pc = pc
Key(r)     == review[r].key
Put(map, key, value) ==
  [k \in DOMAIN map \cup {key} |-> IF k = key THEN value ELSE map[k]]
Replied(r) == review' = [review EXCEPT ![r] = NoReview]

(* The ruling a reviewer is told is stored stands alone; one he is told     *)
(* failed may stand or not.                                                 *)
Acknowledged(r) == told' = Put(told, Key(r), {review[r].status})
Doubtful(r)     == told' = Put(told, Key(r), {review[r].status} \cup
                     IF Key(r) \in DOMAIN told THEN told[Key(r)] ELSE {"pending"})

(* A reviewer rules on a finding that he was shown. *)
PostReview(r) ==
  /\ Finished /\ loads <= MaxLoadsReviewed /\ ~loading
  /\ reviews < MaxReviews /\ At(r, "idle")
  /\ \E f \in Findings(scan), status \in Statuses :
       review' = [review EXCEPT ![r] = [NoReview EXCEPT !.pc = "select",
                                          !.key = FindingKey(f), !.status = status]]
  /\ reviews' = reviews + 1
  /\ UNCHANGED <<rulings, told>>

SelectRow(r) ==
  /\ At(r, "select")
  /\ review' = [review EXCEPT ![r].pc = "write",
                              ![r].exists = Key(r) \in DOMAIN rulings]
  /\ UNCHANGED <<rulings, reviews, told>>

(* UPDATE of the row that was found, or INSERT of one that is still free. *)
Writes(r) ==
  /\ At(r, "write")
  /\ review[r].exists \/ Key(r) \notin DOMAIN rulings
  /\ rulings' = Put(rulings, Key(r), review[r].status)

WriteRuling(r) ==
  /\ Writes(r) /\ Acknowledged(r) /\ Replied(r)
  /\ UNCHANGED reviews

(* Mutant: INSERT OR IGNORE. *)
InsertIgnored(r) ==
  /\ At(r, "write") /\ ~review[r].exists /\ Key(r) \in DOMAIN rulings
  /\ Acknowledged(r) /\ Replied(r)
  /\ UNCHANGED <<rulings, reviews>>

(* Another reviewer's INSERT came first: the UNIQUE constraint fails and    *)
(* "review storage unavailable".                                            *)
InsertConflicts(r) ==
  /\ At(r, "write") /\ ~review[r].exists /\ Key(r) \in DOMAIN rulings
  /\ Replied(r)
  /\ UNCHANGED <<rulings, reviews, told>>

(* A storage error, before or after the statement took effect. *)
ReviewFails(r) ==
  /\ ~At(r, "idle") /\ Replied(r)
  /\ \/ UNCHANGED <<rulings, told>>
     \/ Writes(r) /\ Doubtful(r)
  /\ UNCHANGED reviews

Reviewing ==
  \E r \in Reviewers :
    \/ PostReview(r) \/ SelectRow(r) \/ WriteRuling(r) \/ InsertConflicts(r) \/ ReviewFails(r)

(* Bound: the scan and the store rest while its findings are reviewed; they *)
(* share no table with the reviews.                                         *)
NextF == \/ Reviewing /\ UNCHANGED vars
         \/ reviews = 0 /\ Next /\ UNCHANGED reviewVars
SpecF == InitF /\ [][NextF]_<<vars, reviewVars>>
-----------------------------------------------------------------------------
(* A ruling that a reviewer was told is recorded stands until another one   *)
(* of the same key is recorded or may have been: GET /findings shows no     *)
(* other, however the statements of two reviewers interleave.               *)
RulingsKept ==
  Finished => \A f \in Findings(scan) :
    FindingKey(f) \in DOMAIN told => ReviewOf(f) \in told[FindingKey(f)]
=============================================================================
