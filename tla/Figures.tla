------------------------------ MODULE Figures ------------------------------
(***************************************************************************)
(* How figures written on a page are normalized                             *)
(* (src/src/content-check.ts) and how a reader takes them.                  *)
(*                                                                          *)
(* An amount as written is [groups, marks, unit]: groups of digits, each    *)
(* [digits, width], the mark between every two of them, and the multiplier  *)
(* ("k", "m") that follows.  R2,3m is the groups 2 and 3, the mark "," and  *)
(* the unit 1000000.  A date as written is [day, month].  Normalized, an    *)
(* amount is an integer and a date is month * 100 + day.                    *)
(***************************************************************************)
EXTENDS Integers, Sequences, FiniteSetsExt, SequencesExt

Power10(n) == LET p[k \in 0..n] == IF k = 0 THEN 1 ELSE 10 * p[k - 1] IN p[n]

Width(groups)  == FoldLeft(LAMBDA w, g : w + g.width, 0, groups)
Digits(groups) ==
  FoldLeft(LAMBDA v, g : v * Power10(g.width) + g.digits, 0, groups)

MarkedBy(s, marks) == {i \in DOMAIN s.marks : s.marks[i] \in marks}
After(s, i)        == SubSeq(s.groups, i + 1, Len(s.groups))

(* The number with its decimal point after group i, or without one when i   *)
(* is 0, times the unit, rounded half up.                                   *)
Amount(s, i) ==
  LET scale == IF i = 0 THEN 1 ELSE Power10(Width(After(s, i)))
  IN (2 * Digits(s.groups) * s.unit + scale) \div (2 * scale)
PointAmong(points) == IF points = {} THEN 0 ELSE Max(points)

(* Mutant: commas always separate thousands. *)
NoDecimalComma(s) == {}
(* A single comma before one or two digits is a decimal point. *)
DecimalComma(s) ==
  {i \in MarkedBy(s, {","}) :
     MarkedBy(s, {",", "."}) = {i} /\ Width(After(s, i)) \in {1, 2}}

(* White space goes, a decimal comma becomes a point, other commas go; what *)
(* is left is a number unless it has two points.                            *)
DecimalMarks(s)   == MarkedBy(s, {"."}) \cup DecimalComma(s)
IsMoney(s)        == Cardinality(DecimalMarks(s)) <= 1
NormalizeMoney(s) == Amount(s, PointAmong(DecimalMarks(s)))

(* A day from 1 to 31 of a known month; other dates are no claims. *)
IsMonthDay(s)        == s.month \in 1..12 /\ s.day \in 1..31
NormalizeMonthDay(s) == s.month * 100 + s.day

(* How a reader takes an amount: a mark before a group of three digits      *)
(* separates thousands, whichever mark it is; another one is the decimal    *)
(* point.                                                                   *)
ReadAmount(s) ==
  Amount(s, PointAmong({i \in MarkedBy(s, {",", "."}) : s.groups[i + 1].width # 3}))
=============================================================================
