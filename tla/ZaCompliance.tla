---------------------------- MODULE ZaCompliance ----------------------------
(***************************************************************************)
(* The approved seed of the ground-truth store                              *)
(* (src/ground-truth/za-compliance.ts): five current facts, none            *)
(* superseded, and their patterns.  The regular expressions are reduced to  *)
(* the words they look for and the figures they match; the value patterns   *)
(* of a fact, which differ in spelling, are one.                            *)
(***************************************************************************)
EXTENDS GroundTruth

ApprovedAt == 20260820
VatChange  == 20260401

Current(key, value, unit, impact, from) ==
  [key |-> key, value |-> value, unit |-> unit, impact |-> impact,
   from |-> from, until |-> Forever]

VatMandatory == Current("vat.mandatory", 2300000, "ZAR", "compliance-threshold", VatChange)
UifCeiling   == Current("uif.ceiling", 17712, "ZAR", "money", ApprovedAt)
RoeDeadline  == Current("coida.roe", 630, "month-day", "compliance-deadline", ApprovedAt)
Emp501End    == Current("emp501.end", 531, "month-day", "compliance-deadline", ApprovedAt)
VatVoluntary == Current("vat.voluntary", 120000, "ZAR", "compliance-threshold", VatChange)

Facts == <<VatMandatory, UifCeiling, RoeDeadline, Emp501End, VatVoluntary>>

Pattern(kind, row, words) ==
  [key |-> row.key, kind |-> kind, words |-> words,
   figure |-> IF kind = "value" THEN row.value ELSE 0]

Context(row) ==
  CASE row = VatMandatory -> <<{"compulsory", "mandatory", "must register",
                                "required to register", "registration threshold"}>>
    [] row = UifCeiling   -> <<{"UIF", "unemployment insurance"},
                               {"ceiling", "cap", "maximum", "monthly limit"}>>
    [] row = VatVoluntary -> <<{"voluntarily register", "voluntary registration",
                                "optional registration"}>>
    [] row = RoeDeadline  -> <<{"return of earnings", "COIDA", "ROE"}>>
    [] row = Emp501End    -> <<{"EMP501", "annual reconciliation"}>>

Topic(row) ==
  CASE row = VatMandatory -> <<{"VAT", "value-added tax"}>>
    [] row = UifCeiling   -> <<{"UIF", "unemployment insurance"}>>
    [] row = RoeDeadline  -> <<{"return of earnings", "COIDA"}>>
    [] row = Emp501End    -> <<{"EMP501"}>>

(* Deadlines have no value patterns, the voluntary threshold no topic.      *)
Patterns(row) ==
  {Pattern("context", row, Context(row))}
    \cup (IF row.unit = "ZAR" THEN {Pattern("value", row, <<>>)} ELSE {})
    \cup (IF row = VatVoluntary THEN {} ELSE {Pattern("keyword", row, Topic(row))})
=============================================================================
