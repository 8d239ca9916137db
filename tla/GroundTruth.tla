---------------------------- MODULE GroundTruth ----------------------------
(***************************************************************************)
(* The ground-truth store (src/src/ground-truth.ts, migration 0002) and the *)
(* statements its loader emits (src/scripts/load-ground-truth.ts).          *)
(*                                                                          *)
(* fact_key is UNIQUE: the table maps a key to its row                      *)
(* [key, value, unit, impact, from, until], until being Forever while the   *)
(* fact is current.  A pattern is [key, kind, words, figure]: "context"     *)
(* patterns look for groups of words in a row before a figure, "keyword"    *)
(* ones for one group of words, "value" ones for a figure.                  *)
(***************************************************************************)
EXTENDS Integers, Sequences, Functions

Forever == 99991231    \* applies_until IS NULL

(* loadActiveFacts: applies_from <= asOf < applies_until. *)
Active(table, asOf) ==
  Restrict(table, {k \in DOMAIN table : /\ table[k].from <= asOf
                                        /\ asOf < table[k].until})

(* loadSupersededFacts: the rows whose window has ended. *)
Superseded(table, asOf) == {r \in Range(table) : r.until <= asOf}

(* loadFactPatterns *)
PatternsFor(patterns, keys) == {p \in patterns : p.key \in keys}

(* Mutant: ON CONFLICT DO NOTHING. *)
InsertIfNew(table, row) ==
  [k \in DOMAIN table \cup {row.key} |-> IF k \in DOMAIN table THEN table[k] ELSE row]

(* INSERT ... ON CONFLICT(fact_key) DO UPDATE *)
Upsert(table, row) ==
  [k \in DOMAIN table \cup {row.key} |-> IF k = row.key THEN row ELSE table[k]]

(* What the loader writes: a statement per fact, then one per pattern. *)
FactStatement(row)  == [into |-> "ground_truth", row |-> row]
PatternStatement(p) == [into |-> "fact_patterns", row |-> p]
=============================================================================
