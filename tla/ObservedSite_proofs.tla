------------------------ MODULE ObservedSite_proofs ------------------------
(***************************************************************************)
(* For every site a scan can meet: what verdicts and changes promise of any *)
(* two and three observations.                                              *)
(***************************************************************************)
EXTENDS ObservedSite, Totals_proofs, SequenceTheorems

Snapshots == {SnapshotOf(site) : site \in Sites}
SeenInv   == seen \in Seq(Snapshots) /\ Len(seen) <= 3

LEMMA SeenInvariant == Spec => []SeenInv
<1>1. Init => SeenInv
  BY DEF Init, SeenInv
<1>2. SeenInv /\ [Next]_seen => SeenInv'
  <2> SUFFICES ASSUME SeenInv, NEW site \in Sites, Observe(site) PROVE SeenInv'
    BY DEF Next, SeenInv
  <2>1. SnapshotOf(site) \in Snapshots
    BY DEF Snapshots
  <2> DEFINE kept == IF Len(seen) = 3 THEN Tail(seen) ELSE seen
  <2>2. kept \in Seq(Snapshots) /\ Len(kept) <= 2
    <3>1. seen \in Seq(Snapshots) /\ Len(seen) \in Nat /\ Len(seen) <= 3
      BY DEF SeenInv
    <3>2. CASE Len(seen) = 3
      <4>1. seen # <<>>
        BY <3>2
      <4>2. Tail(seen) \in Seq(Snapshots) /\ Len(Tail(seen)) = Len(seen) - 1
        BY <3>1, <4>1, HeadTailProperties
      <4>3. kept = Tail(seen)
        BY <3>2
      <4> HIDE DEF kept
      <4>4. QED  BY <3>1, <3>2, <4>2, <4>3
    <3>3. CASE Len(seen) # 3
      <4>1. kept = seen
        BY <3>3
      <4>2. Len(seen) <= 2
        <5>1. PICK n \in Nat : n = Len(seen)
          BY <3>1
        <5>2. n <= 3 /\ n # 3
          BY <3>1, <3>3, <5>1
        <5>3. n <= 2
          BY <5>2
        <5>4. QED  BY <5>1, <5>3
      <4> HIDE DEF kept
      <4>3. QED  BY <3>1, <4>1, <4>2
    <3>4. QED  BY <3>2, <3>3
  <2>3. seen' = Append(kept, SnapshotOf(site))
    BY DEF Observe
  <2> HIDE DEF kept
  <2>4. QED  BY <2>1, <2>2, <2>3, AppendProperties DEF SeenInv
<1>3. QED  BY <1>1, <1>2, PTL DEF Spec

(* A snapshot seen is that of a site. *)
LEMMA SeenSite ==
  ASSUME SeenInv, NEW i \in DOMAIN seen
  PROVE  \E site \in Sites : seen[i] = SnapshotOf(site)
<1>1. seen[i] \in Snapshots
  BY DEF SeenInv
<1>2. QED  BY <1>1 DEF Snapshots
-----------------------------------------------------------------------------
(* A verdict that moves is a material field. *)
LEMMA MoveAlerts ==
  ASSUME NEW a, NEW b, a.verdict # b.verdict
  PROVE  ShouldAlert(a, b)
<1> DEFINE tier == Tier(a.verdict = "PASS" /\ b.verdict = "FAIL", "critical", "material")
           move == [field |-> <<"verdict", "status">>, materiality |-> tier]
<1>1. move \in VerdictDiff(a, b)
  BY DEF VerdictDiff, Changed
<1>2. move \in DiffSnapshots(a, b)
  BY <1>1 DEF DiffSnapshots, SecurityDiff
<1>3. tier \in {"critical", "material"}
  BY DEF Tier
<1>4. move.materiality = tier
  OBVIOUS
<1> HIDE DEF move, tier
<1>5. tier \in Tiers(DiffSnapshots(a, b))
  BY <1>2, <1>4 DEF Tiers
<1>6. QED  BY <1>3, <1>5 DEF ShouldAlert, RecordMateriality

(* A verdict move always alerts, whatever else changed with it. *)
THEOREM VerdictMovesAlwaysAlert == Spec => []VerdictMovesAlert
<1>1. VerdictMovesAlert
  BY MoveAlerts DEF VerdictMovesAlert
<1>2. QED  BY <1>1, PTL
-----------------------------------------------------------------------------
LEMMA FewFinite ==
  ASSUME NEW a, NEW b, NEW c, NEW d
  PROVE  /\ IsFiniteSet({a}) /\ IsFiniteSet({a, b})
         /\ IsFiniteSet({a, b, c}) /\ IsFiniteSet({a, b, c, d})
<1>1. IsFiniteSet({a} \cup {b}) /\ IsFiniteSet({a} \cup {b} \cup {c})
      /\ IsFiniteSet({a} \cup {b} \cup {c} \cup {d})
  BY FS_Singleton, FS_Union
<1>2. /\ {a} \cup {b} = {a, b} /\ {a} \cup {b} \cup {c} = {a, b, c}
      /\ {a} \cup {b} \cup {c} \cup {d} = {a, b, c, d}
  OBVIOUS
<1>3. QED  BY <1>1, <1>2, FS_Singleton

LEMMA FlawsType ==
  ASSUME NEW h
  PROVE  /\ IsFiniteSet(Flaws(h))
         /\ \A f \in Flaws(h) : /\ f.penalty \in Nat
                               /\ f.severity \in {"high", "medium", "low"}
<1> DEFINE F == Flaws(h)
           Typed(f) == f.penalty \in Nat /\ f.severity \in {"high", "medium", "low"}
<1>1. ASSUME NEW name, NEW severity \in {"high", "medium", "low"}, NEW n \in Nat
      PROVE  Typed(Flaw(name, severity, n))
  BY DEF Flaw
<1>2. IsFiniteSet(F) /\ \A f \in F : Typed(f)
  <2>1. CASE h = "strictTransportSecurity"
    <3>1. F = {Flaw("no max-age", "high", 8), Flaw("short max-age", "medium", 3),
               Flaw("no subdomains", "low", 1)}
      BY <2>1 DEF Flaws
    <3> HIDE DEF F, Typed
    <3>2. QED  BY <1>1, <3>1, FewFinite
  <2>2. CASE h = "contentSecurityPolicy"
    <3>1. F = {Flaw("unsafe-inline", "high", 10), Flaw("unsafe-eval", "high", 6),
               Flaw("wildcard", "medium", 4), Flaw("no frame-ancestors", "low", 1)}
      BY <2>2 DEF Flaws
    <3> HIDE DEF F, Typed
    <3>2. QED  BY <1>1, <3>1, FewFinite
  <2>3. CASE h = "xFrameOptions"
    <3>1. F = {Flaw("allow-from", "low", 8), Flaw("unrecognized", "medium", 10)}
      BY <2>3 DEF Flaws
    <3> HIDE DEF F, Typed
    <3>2. QED  BY <1>1, <3>1, FewFinite
  <2>4. CASE h = "xContentTypeOptions"
    <3>1. F = {Flaw("not nosniff", "low", 5)}
      BY <2>4 DEF Flaws
    <3> HIDE DEF F, Typed
    <3>2. QED  BY <1>1, <3>1, FewFinite
  <2>5. CASE h = "referrerPolicy"
    <3>1. F = {Flaw("permissive", "medium", 3)}
      BY <2>5 DEF Flaws
    <3> HIDE DEF F, Typed
    <3>2. QED  BY <1>1, <3>1, FewFinite
  <2>6. CASE h \notin HeaderKeys \ {"permissionsPolicy"}
    <3>1. F = {}
      BY <2>6 DEF Flaws, HeaderKeys, ValueHeaders
    <3> HIDE DEF F
    <3>2. QED  BY <3>1, FS_EmptySet
  <2>7. QED  BY <2>1, <2>2, <2>3, <2>4, <2>5, <2>6 DEF HeaderKeys, ValueHeaders
<1>3. QED  BY <1>2
-----------------------------------------------------------------------------
(* The header score is a total of points, which are what the flaws found    *)
(* leave of the header's worth.                                             *)
Penalties(scan, h) == [f \in Found(scan, h) |-> f.penalty]
PointsOf(scan)     == [h \in Scored(scan) |-> Points(scan, h)]

LEMMA FoundFinite == ASSUME NEW scan, NEW h PROVE IsFiniteSet(Found(scan, h))
BY FlawsType, FS_Subset DEF Found

LEMMA KeysFinite == ASSUME NEW scan PROVE IsFiniteSet(Scored(scan))
<1>1. IsFiniteSet({"strictTransportSecurity", "contentSecurityPolicy"})
  BY FewFinite
<1>2. IsFiniteSet({"xFrameOptions", "xContentTypeOptions", "referrerPolicy",
                   "permissionsPolicy"})
  BY FewFinite
<1>3. IsFiniteSet(HeaderKeys)
  BY <1>1, <1>2, FS_Union DEF HeaderKeys, ValueHeaders
<1>4. Scored(scan) \subseteq HeaderKeys
  BY DEF Scored
<1>5. QED  BY <1>3, <1>4, FS_Subset

LEMMA PenaltyTotal ==
  ASSUME NEW scan, NEW h
  PROVE  MapThenSumSet(LAMBDA f : f.penalty, Found(scan, h))
           = Total(Found(scan, h), Penalties(scan, h))
<1> DEFINE S == Found(scan, h)
           Summed(g) == g = [s \in SUBSET S |->
              IF s = {} THEN 0 ELSE Taken(s).penalty + g[s \ {Taken(s)}]]
<1>1. IsFiniteSet(S)
  BY FoundFinite
<1>2. ASSUME NEW g PROVE Summed(g) <=> Computes(g, S, Penalties(scan, h))
  <2>1. \A s \in SUBSET S :
          (IF s = {} THEN 0 ELSE Taken(s).penalty + g[s \ {Taken(s)}])
          = (IF s = {} THEN 0 ELSE Penalties(scan, h)[Taken(s)] + g[s \ {Taken(s)}])
    BY TakenIsElement DEF Penalties
  <2> HIDE DEF S
  <2>2. [s \in SUBSET S |-> IF s = {} THEN 0 ELSE Taken(s).penalty + g[s \ {Taken(s)}]]
        = [s \in SUBSET S |-> IF s = {} THEN 0 ELSE Penalties(scan, h)[Taken(s)] + g[s \ {Taken(s)}]]
    BY <2>1
  <2>3. QED  BY <2>2 DEF Computes
<1> DEFINE g == CHOOSE g : Summed(g)
<1>3. Summed(g)
  <2>1. \E h_ : Summed(h_)
    BY <1>1, <1>2, ComputationExists
  <2> HIDE DEF Summed
  <2>2. QED  BY <2>1, Zenon
<1>4. MapThenSumSet(LAMBDA f : f.penalty, Found(scan, h)) = g[S]
  BY Zenon DEF MapThenSumSet, MapThenFoldSet, Taken
<1>5. PICK k : Computes(k, S, Penalties(scan, h)) /\ Total(S, Penalties(scan, h)) = k[S]
  <2>1. \E k : Computes(k, S, Penalties(scan, h))
    BY <1>1, ComputationExists
  <2> HIDE DEF S
  <2>2. QED  BY <2>1, TotalComputed
<1>6. g[S] = k[S]
  <2>1. Computes(g, S, Penalties(scan, h))
    BY <1>2, <1>3
  <2> HIDE DEF g, S
  <2>2. QED  BY <1>1, <1>5, <2>1, ComputationsAgree
<1>7. QED  BY <1>4, <1>5, <1>6

LEMMA PointsTotal ==
  ASSUME NEW scan
  PROVE  MapThenSumSet(LAMBDA h : Points(scan, h), Scored(scan))
           = Total(Scored(scan), PointsOf(scan))
<1> DEFINE S == Scored(scan)
           Summed(g) == g = [s \in SUBSET S |->
              IF s = {} THEN 0 ELSE Points(scan, Taken(s)) + g[s \ {Taken(s)}]]
<1>1. IsFiniteSet(S)
  BY KeysFinite
<1>2. ASSUME NEW g PROVE Summed(g) <=> Computes(g, S, PointsOf(scan))
  <2>1. \A s \in SUBSET S :
          (IF s = {} THEN 0 ELSE Points(scan, Taken(s)) + g[s \ {Taken(s)}])
          = (IF s = {} THEN 0 ELSE PointsOf(scan)[Taken(s)] + g[s \ {Taken(s)}])
    BY TakenIsElement DEF PointsOf
  <2> HIDE DEF S
  <2>2. [s \in SUBSET S |-> IF s = {} THEN 0 ELSE Points(scan, Taken(s)) + g[s \ {Taken(s)}]]
        = [s \in SUBSET S |-> IF s = {} THEN 0 ELSE PointsOf(scan)[Taken(s)] + g[s \ {Taken(s)}]]
    BY <2>1
  <2>3. QED  BY <2>2 DEF Computes
<1> DEFINE g == CHOOSE g : Summed(g)
<1>3. Summed(g)
  <2>1. \E h_ : Summed(h_)
    BY <1>1, <1>2, ComputationExists
  <2> HIDE DEF Summed
  <2>2. QED  BY <2>1, Zenon
<1>4. MapThenSumSet(LAMBDA h : Points(scan, h), Scored(scan)) = g[S]
  BY Zenon DEF MapThenSumSet, MapThenFoldSet, Taken
<1>5. PICK k : Computes(k, S, PointsOf(scan)) /\ Total(S, PointsOf(scan)) = k[S]
  <2>1. \E k : Computes(k, S, PointsOf(scan))
    BY <1>1, ComputationExists
  <2> HIDE DEF S
  <2>2. QED  BY <2>1, TotalComputed
<1>6. g[S] = k[S]
  <2>1. Computes(g, S, PointsOf(scan))
    BY <1>2, <1>3
  <2> HIDE DEF g, S
  <2>2. QED  BY <1>1, <1>5, <2>1, ComputationsAgree
<1>7. QED  BY <1>4, <1>5, <1>6
-----------------------------------------------------------------------------
LEMMA Floored ==
  ASSUME NEW x \in Int
  PROVE  Max({0, x}) \in {0, x} /\ Max({0, x}) \in Nat /\ x <= Max({0, x})
<1>1. IsFiniteSet({0, x})
  BY FewFinite
<1>2. Max({0, x}) \in {0, x} /\ \A y \in {0, x} : y <= Max({0, x})
  BY <1>1, MaxOf
<1> DEFINE m == Max({0, x})
<1> HIDE DEF m
<1>3. m \in {0, x} /\ 0 <= m /\ x <= m
  BY <1>2 DEF m
<1>4. m \in Nat
  BY <1>3
<1>5. QED  BY <1>3, <1>4 DEF m

LEMMA FlooredMonotone ==
  ASSUME NEW x \in Int, NEW y \in Int, x <= y
  PROVE  Max({0, x}) <= Max({0, y})
BY Floored

Lost(scan, h) == Total(Found(scan, h), Penalties(scan, h))

LEMMA LostType == ASSUME NEW scan, NEW h PROVE Lost(scan, h) \in Nat
<1>1. \A f \in Found(scan, h) : Penalties(scan, h)[f] \in Nat
  BY FlawsType DEF Penalties, Found
<1>2. QED  BY <1>1, FoundFinite, TotalType DEF Lost

LEMMA PointsAre ==
  ASSUME NEW scan, NEW h
  PROVE  /\ Full(h) \in Nat
         /\ Points(scan, h) = IF scan.headers[h] = Absent THEN 0
                              ELSE Max({0, Full(h) - Lost(scan, h)})
         /\ Points(scan, h) \in Nat
<1>1. Full(h) \in Nat
  BY DEF Full
<1>2. Full(h) - Lost(scan, h) \in Int
  BY <1>1, LostType
<1>3. Points(scan, h) = IF scan.headers[h] = Absent THEN 0
                        ELSE Max({0, Full(h) - Lost(scan, h)})
  BY PenaltyTotal DEF Points, Lost
<1>4. QED  BY <1>1, <1>2, <1>3, Floored

(* A header that is gone, or has more flaws, earns no more. *)
LEMMA PointsNoBetter ==
  ASSUME NEW a, NEW b, NEW h, HeaderWorse(a.headers[h], b.headers[h])
  PROVE  Points(b, h) <= Points(a, h)
<1>1. CASE b.headers[h] = Absent
  <2>1. Points(b, h) = 0 /\ Points(a, h) \in Nat
    BY <1>1, PointsAre
  <2>2. \A n \in Nat : 0 <= n
    OBVIOUS
  <2>3. QED  BY <2>1, <2>2, Zenon
<1>2. CASE b.headers[h] # Absent
  <2>1. a.headers[h] # Absent /\ Found(a, h) \subseteq Found(b, h)
    BY <1>2 DEF HeaderWorse, Found
  <2>2. Lost(a, h) <= Lost(b, h)
    <3>1. /\ \A f \in Found(b, h) : Penalties(b, h)[f] \in Nat
          /\ \A f \in Found(a, h) : /\ Penalties(a, h)[f] \in Nat
                                    /\ Penalties(a, h)[f] <= Penalties(b, h)[f]
      BY <2>1, FlawsType DEF Penalties, Found
    <3>2. QED  BY <2>1, <3>1, FoundFinite, TotalMonotone DEF Lost
  <2>3. Full(h) - Lost(b, h) <= Full(h) - Lost(a, h)
        /\ Full(h) - Lost(b, h) \in Int /\ Full(h) - Lost(a, h) \in Int
    <3>1. \A w, x, y \in Nat : x <= y => /\ w - y <= w - x
                                        /\ w - y \in Int /\ w - x \in Int
      OBVIOUS
    <3>2. Full(h) \in Nat /\ Lost(a, h) \in Nat /\ Lost(b, h) \in Nat
      BY LostType, PointsAre
    <3>3. QED  BY <2>2, <3>1, <3>2, Zenon
  <2>4. QED  BY <1>2, <2>1, <2>3, FlooredMonotone, PointsAre
<1>3. QED  BY <1>1, <1>2

Sent(scan) == Total(Scored(scan), PointsOf(scan))

LEMMA HeaderScoreIs ==
  ASSUME NEW scan
  PROVE  /\ Sent(scan) \in Nat
         /\ HeaderScore(scan) = (200 * Sent(scan) + 55) \div 110
         /\ HeaderScore(scan) \in Nat
<1>1. \A h \in Scored(scan) : PointsOf(scan)[h] \in Nat
  BY PointsAre DEF PointsOf
<1>2. Sent(scan) \in Nat
  BY <1>1, KeysFinite, TotalType DEF Sent
<1>3. HeaderScore(scan) = (200 * Sent(scan) + 55) \div 110
  BY PointsTotal DEF HeaderScore, Sent
<1>4. (200 * Sent(scan) + 55) \div 110 \in Nat
  BY <1>2
<1>5. QED  BY <1>2, <1>3, <1>4

LEMMA HeaderScoreNoBetter ==
  ASSUME NEW a, NEW b, b.usedHttps => a.usedHttps,
         \A h \in HeaderKeys : HeaderWorse(a.headers[h], b.headers[h])
  PROVE  HeaderScore(b) <= HeaderScore(a)
<1>1. Scored(b) \subseteq Scored(a) /\ Scored(a) \subseteq HeaderKeys
  BY DEF Scored
<1>2. \A h \in Scored(b) : /\ PointsOf(b)[h] \in Nat
                          /\ PointsOf(b)[h] <= PointsOf(a)[h]
  BY <1>1, PointsAre, PointsNoBetter DEF PointsOf
<1>3. \A h \in Scored(a) : PointsOf(a)[h] \in Nat
  BY PointsAre DEF PointsOf
<1>4. Sent(b) <= Sent(a)
  BY <1>1, <1>2, <1>3, KeysFinite, TotalMonotone DEF Sent
<1>5. \A x, y \in Nat : x <= y => (200 * x + 55) \div 110 <= (200 * y + 55) \div 110
  OBVIOUS
<1>6. QED  BY <1>4, <1>5, HeaderScoreIs

(* The transport's caps. *)
Caps(scan) == {100} \cup (IF scan.usedHttps THEN {} ELSE {20})
                    \cup (IF scan.weakCipher THEN {60} ELSE {})
                    \cup (IF scan.status \in 200..299 THEN {} ELSE {40})

LEMMA CapIs ==
  ASSUME NEW scan
  PROVE  /\ TransportCap(scan) \in Caps(scan) /\ TransportCap(scan) \in Nat
         /\ \A x \in Caps(scan) : TransportCap(scan) <= x
<1>1. Caps(scan) \subseteq {100, 20, 60, 40} /\ 100 \in Caps(scan)
  BY DEF Caps
<1>2. IsFiniteSet(Caps(scan))
  BY <1>1, FewFinite, FS_Subset
<1>3. TransportCap(scan) = Min(Caps(scan))
  BY DEF TransportCap, Caps
<1>4. QED  BY <1>1, <1>2, <1>3, MinOf

LEMMA CapNoBetter ==
  ASSUME NEW a, NEW b, b.usedHttps => a.usedHttps, a.weakCipher => b.weakCipher,
         b.status \in 200..299 => a.status \in 200..299
  PROVE  TransportCap(b) <= TransportCap(a)
<1>1. Caps(a) \subseteq Caps(b)
  BY DEF Caps
<1>2. QED  BY <1>1, CapIs
-----------------------------------------------------------------------------
(* What a content check found. *)
IsChecked(c) == c.pages \in Nat /\ c.findings \in Seq(Range(c.findings))
Having(fs, severity) == {i \in DOMAIN fs : fs[i].severity = severity}

LEMMA CountType ==
  ASSUME NEW fs, fs \in Seq(Range(fs)), NEW severity
  PROVE  IsFiniteSet(Having(fs, severity)) /\ Count(fs, severity) \in Nat
<1>1. DOMAIN fs = 1..Len(fs) /\ Len(fs) \in Nat
  BY LenProperties
<1>2. IsFiniteSet(1..Len(fs))
  BY <1>1, FS_Interval
<1>3. Having(fs, severity) \in SUBSET (1..Len(fs))
  BY <1>1 DEF Having
<1>4. IsFiniteSet(Having(fs, severity))
  BY <1>2, <1>3, FS_Subset
<1>5. Count(fs, severity) = Cardinality(Having(fs, severity))
  BY DEF Count, Having
<1>6. QED  BY <1>4, <1>5, FS_CardinalityType

LEMMA PrefixKeeps ==
  ASSUME NEW fs, fs \in Seq(Range(fs)), NEW gs, gs \in Seq(Range(gs)),
         IsPrefix(fs, gs), NEW i \in DOMAIN fs
  PROVE  i \in DOMAIN gs /\ gs[i] = fs[i]
<1>1. PICK m \in Nat : m = Len(fs) /\ DOMAIN fs = 1..m
  BY LenProperties
<1>2. PICK n \in Nat : n = Len(gs) /\ DOMAIN gs = 1..n
  BY LenProperties
<1>3. m <= n /\ SubSeq(fs, 1, m) = SubSeq(gs, 1, m)
  BY <1>1, <1>2 DEF IsPrefix
<1>4. i \in 1..m /\ i \in 1..n
  BY <1>1, <1>2, <1>3
<1>5. SubSeq(fs, 1, m)[i] = fs[i]
  BY <1>1, <1>4
<1>6. SubSeq(gs, 1, m)[i] = gs[i]
  BY <1>4
<1>7. QED  BY <1>2, <1>3, <1>4, <1>5, <1>6

LEMMA CountNoLess ==
  ASSUME NEW fs, fs \in Seq(Range(fs)), NEW gs, gs \in Seq(Range(gs)),
         IsPrefix(fs, gs), NEW severity
  PROVE  Count(fs, severity) <= Count(gs, severity)
<1>1. Having(fs, severity) \in SUBSET Having(gs, severity)
  BY PrefixKeeps DEF Having
<1>2. IsFiniteSet(Having(gs, severity))
  BY CountType
<1>3. /\ Count(fs, severity) = Cardinality(Having(fs, severity))
      /\ Count(gs, severity) = Cardinality(Having(gs, severity))
  BY DEF Count, Having
<1>4. QED  BY <1>1, <1>2, <1>3, FS_Subset

LEMMA DeductedType ==
  ASSUME NEW fs, fs \in Seq(Range(fs))
  PROVE  Deducted(fs) \in Nat /\ Deducted(fs) <= 100
<1>1. /\ Count(fs, "critical") \in Nat /\ Count(fs, "material") \in Nat
      /\ Count(fs, "informational") \in Nat
  BY CountType
<1> DEFINE left == 100 - 30 * Count(fs, "critical") - 15 * Count(fs, "material")
                       - 5 * Count(fs, "informational")
<1>2. left \in Int /\ left <= 100
  BY <1>1
<1>3. Deducted(fs) = Max({0, left})
  BY Zenon DEF Deducted
<1> HIDE DEF left
<1> DEFINE m == Max({0, left})
<1>4. m \in {0, left} /\ m \in Nat
  BY <1>2, Floored
<1> HIDE DEF m
<1>5. m <= 100
  BY <1>2, <1>4
<1>6. QED  BY <1>3, <1>4, <1>5 DEF m

LEMMA DeductedNoBetter ==
  ASSUME NEW fs, fs \in Seq(Range(fs)), NEW gs, gs \in Seq(Range(gs)),
         IsPrefix(fs, gs)
  PROVE  Deducted(gs) <= Deducted(fs)
<1> DEFINE Left(x, y, z) == 100 - 30 * x - 15 * y - 5 * z
<1>1. /\ Count(fs, "critical") \in Nat /\ Count(fs, "material") \in Nat
      /\ Count(fs, "informational") \in Nat /\ Count(gs, "critical") \in Nat
      /\ Count(gs, "material") \in Nat /\ Count(gs, "informational") \in Nat
  BY CountType
<1>2. /\ Count(fs, "critical") <= Count(gs, "critical")
      /\ Count(fs, "material") <= Count(gs, "material")
      /\ Count(fs, "informational") <= Count(gs, "informational")
  BY CountNoLess
<1>3. \A x, y, z, u, v, w \in Nat :
        x <= u /\ y <= v /\ z <= w =>
          /\ Left(u, v, w) \in Int /\ Left(x, y, z) \in Int
          /\ Left(u, v, w) <= Left(x, y, z)
  OBVIOUS
<1> DEFINE kept == Left(Count(fs, "critical"), Count(fs, "material"),
                        Count(fs, "informational"))
           left == Left(Count(gs, "critical"), Count(gs, "material"),
                        Count(gs, "informational"))
<1>4. Deducted(fs) = Max({0, kept}) /\ Deducted(gs) = Max({0, left})
  BY Zenon DEF Deducted
<1> HIDE DEF Left
<1>5. left \in Int /\ kept \in Int /\ left <= kept
  BY <1>1, <1>2, <1>3
<1> HIDE DEF left, kept
<1>6. QED  BY <1>4, <1>5, FlooredMonotone

HasGrave(c) == \E i \in DOMAIN c.findings : Grave(c.findings, i)

LEMMA ContentScoreIs ==
  ASSUME NEW c, IsChecked(c)
  PROVE  /\ ContentScore(c) \in Nat
         /\ Deducted(c.findings) \in Nat /\ Deducted(c.findings) <= 100
         /\ c.pages = 0 => ContentScore(c) = 0
         /\ HasGrave(c) => ContentScore(c) <= 35
         /\ ContentScore(c) <= Deducted(c.findings)
         /\ c.pages # 0 /\ ~HasGrave(c) => ContentScore(c) = Deducted(c.findings)
<1> DEFINE d == Deducted(c.findings)
<1>1. d \in Nat /\ d <= 100
  BY DeductedType DEF IsChecked
<1>2. Min({35, d}) \in {35, d} /\ Min({35, d}) <= 35 /\ Min({35, d}) <= d
  <2>1. 35 \in Int /\ d \in Int
    BY <1>1
  <2> HIDE DEF d
  <2>2. QED  BY <2>1, LesserOfTwo, Zenon
<1>3. ContentScore(c) = IF c.pages = 0 THEN 0
                        ELSE IF HasGrave(c) THEN Min({35, d}) ELSE d
  BY DEF ContentScore, HasGrave
<1> DEFINE m == Min({35, d})
<1> HIDE DEF d, m
<1>4. m \in {35, d} /\ m <= 35 /\ m <= d /\ m \in Nat
  BY <1>1, <1>2 DEF m
<1>5. ContentScore(c) = IF c.pages = 0 THEN 0 ELSE IF HasGrave(c) THEN m ELSE d
  BY <1>3 DEF m
<1>6. QED  BY <1>1, <1>4, <1>5 DEF d

(* Fewer pages read and more findings score no more. *)
LEMMA ContentScoreNoBetter ==
  ASSUME NEW c, IsChecked(c), NEW d, IsChecked(d),
         d.pages <= c.pages, IsPrefix(c.findings, d.findings)
  PROVE  ContentScore(d) <= ContentScore(c)
<1>1. Deducted(d.findings) <= Deducted(c.findings)
  BY DeductedNoBetter DEF IsChecked
<1>2. HasGrave(c) => HasGrave(d)
  BY PrefixKeeps DEF HasGrave, Grave, IsChecked
<1>3. c.pages \in Nat /\ d.pages \in Nat
  BY DEF IsChecked
<1>4. c.pages = 0 => d.pages = 0
  BY <1>3
<1>5. CASE d.pages = 0
  <2>1. ContentScore(d) = 0 /\ ContentScore(c) \in Nat
    BY <1>5, ContentScoreIs
  <2>2. QED  BY <2>1
<1>6. CASE d.pages # 0 /\ ~HasGrave(c)
  <2>1. ContentScore(c) = Deducted(c.findings)
    BY <1>4, <1>6, ContentScoreIs
  <2>2. /\ ContentScore(d) <= Deducted(d.findings) /\ ContentScore(d) \in Nat
        /\ Deducted(d.findings) \in Nat /\ Deducted(c.findings) \in Nat
    BY ContentScoreIs
  <2>3. QED  BY <1>1, <2>1, <2>2
<1>7. CASE d.pages # 0 /\ HasGrave(c)
  <2>1. ContentScore(d) <= 35
    BY <1>2, <1>7, ContentScoreIs
  <2>2. /\ ContentScore(d) <= Deducted(d.findings) /\ ContentScore(d) \in Nat
        /\ Deducted(d.findings) \in Nat /\ Deducted(c.findings) \in Nat
        /\ ContentScore(c) \in Nat
    BY ContentScoreIs
  <2>3. ContentScore(c) \in {35, Deducted(c.findings)}
    <3>1. ContentScore(c) = Min({35, Deducted(c.findings)})
      BY <1>4, <1>7 DEF ContentScore, HasGrave
    <3>2. 35 \in Int /\ Deducted(c.findings) \in Int
      BY <2>2
    <3>3. QED  BY <3>1, <3>2, LesserOfTwo, Zenon
  <2>4. QED  BY <1>1, <2>1, <2>2, <2>3
<1>8. QED  BY <1>5, <1>6, <1>7
-----------------------------------------------------------------------------
(* The verdict score is the lowest of three. *)
IsScan(scan) == scan.content # NoContent => IsChecked(scan.content)
ContentPart(scan) == IF scan.content = NoContent THEN 100 ELSE ContentScore(scan.content)

LEMMA VerdictScoreIs ==
  ASSUME NEW scan, IsScan(scan)
  PROVE  /\ HeaderScore(scan) \in Nat /\ TransportCap(scan) \in Nat
         /\ ContentPart(scan) \in Nat /\ ContentPart(scan) <= 100
         /\ VerdictScore(scan) \in Nat
         /\ VerdictScore(scan)
              \in {HeaderScore(scan), TransportCap(scan), ContentPart(scan)}
         /\ VerdictScore(scan) <= HeaderScore(scan)
         /\ VerdictScore(scan) <= TransportCap(scan)
         /\ VerdictScore(scan) <= ContentPart(scan)
<1> DEFINE h == HeaderScore(scan)
           t == TransportCap(scan)
           p == ContentPart(scan)
<1>1. h \in Nat /\ t \in Nat
  BY HeaderScoreIs, CapIs
<1>2. p \in Nat /\ p <= 100
  <2>1. CASE scan.content = NoContent
    BY <2>1 DEF ContentPart
  <2>2. CASE scan.content # NoContent
    <3>1. PICK c : c = scan.content /\ IsChecked(c)
      BY <2>2 DEF IsScan
    <3>2. PICK n \in Nat, d \in Nat : /\ n = ContentScore(c) /\ d = Deducted(c.findings)
                                     /\ n <= d /\ d <= 100
      BY <3>1, ContentScoreIs
    <3>3. n <= 100
      BY <3>2
    <3>4. QED  BY <2>2, <3>1, <3>2, <3>3 DEF ContentPart
  <2>3. QED  BY <2>1, <2>2
<1>3. VerdictScore(scan) = Min({h, t, p})
  BY DEF VerdictScore, ContentPart
<1> HIDE DEF h, t, p
<1>4. IsFiniteSet({h, t, p}) /\ {h, t, p} # {} /\ {h, t, p} \subseteq Int
  <2>1. IsFiniteSet({h, t, p})
    BY FewFinite
  <2>2. {h, t, p} # {} /\ {h, t, p} \subseteq Int
    BY <1>1, <1>2
  <2>3. QED  BY <2>1, <2>2
<1>5. Min({h, t, p}) \in {h, t, p} /\ \A y \in {h, t, p} : Min({h, t, p}) <= y
  BY <1>4, MinOf
<1>6. QED  BY <1>1, <1>2, <1>3, <1>5 DEF h, t, p

(* What a snapshot says of the site. *)
LEMMA Reading ==
  ASSUME NEW site \in Sites
  PROVE  LET s == SnapshotOf(site) IN
         /\ IsScan(site)
         /\ site.reached =>
              /\ s.httpError = FALSE
              /\ s.usedHttps = site.usedHttps /\ s.weakCipher = site.weakCipher
              /\ s.status = site.status /\ s.headers = site.headers
              /\ s.verdict = VerdictStatus(site) /\ s.verdictScore = VerdictScore(site)
              /\ site.content = NoContent => s.content = NoContent
              /\ site.content # NoContent =>
                   /\ s.content # NoContent
                   /\ s.content.pages = site.content.pages
                   /\ s.content.findings = site.content.findings
                   /\ s.content.score = ContentScore(site.content)
         /\ ~site.reached => /\ s.httpError = TRUE /\ s.verdict = "FAIL"
                             /\ s.verdictScore = 0 /\ s.content = NoContent
<1>1. IsScan(site)
  BY SitesAssumption DEF IsScan, IsChecked
<1>2. CASE site.reached
  <2>1. SnapshotOf(site) = Answered(site)
    BY <1>2 DEF SnapshotOf
  <2>2. site.content # NoContent =>
          /\ ContentResult(site.content) # NoContent
          /\ ContentResult(site.content).pages = site.content.pages
          /\ ContentResult(site.content).findings = site.content.findings
          /\ ContentResult(site.content).score = ContentScore(site.content)
    BY SitesAssumption DEF ContentResult
  <2>3. QED  BY <1>1, <1>2, <2>1, <2>2 DEF Answered
<1>3. CASE ~site.reached
  BY <1>1, <1>3 DEF SnapshotOf, Unreachable
<1>4. QED  BY <1>2, <1>3
-----------------------------------------------------------------------------
(* A grave finding leaves 35 points at most, and 40 are needed for WARN. *)
LEMMA GraveFails ==
  ASSUME NEW site \in Sites, SnapshotOf(site).content # NoContent,
         HasGrave(SnapshotOf(site).content)
  PROVE  SnapshotOf(site).verdict = "FAIL"
<1>1. IsScan(site) /\ site.reached
  BY Reading
<1>2. /\ site.content # NoContent
      /\ SnapshotOf(site).content.findings = site.content.findings
      /\ SnapshotOf(site).verdict = VerdictStatus(site)
  BY <1>1, Reading
<1>3. PICK c : c = site.content /\ IsChecked(c) /\ HasGrave(c)
  BY <1>1, <1>2 DEF IsScan, HasGrave
<1>4. ContentPart(site) = ContentScore(c)
  BY <1>2, <1>3 DEF ContentPart
<1>5. PICK n \in Nat : n = VerdictScore(site)
  BY <1>1, VerdictScoreIs
<1>6. PICK m \in Nat : m = ContentScore(c) /\ m <= 35
  BY <1>3, ContentScoreIs
<1>7. n <= m
  BY <1>1, <1>4, <1>5, <1>6, VerdictScoreIs
<1>8. ~(n >= 75) /\ ~(n >= 40)
  BY <1>6, <1>7
<1>9. QED  BY <1>2, <1>5, <1>8 DEF VerdictStatus

(* A content check that finds an error about money or a deadline always     *)
(* fails the site (scoreContent's hard cap, blended by buildVerdict).       *)
THEOREM CriticalAlwaysFails == Spec => []CriticalFails
<1>1. SeenInv => CriticalFails
  <2> SUFFICES ASSUME SeenInv, NEW i \in DOMAIN seen, seen[i].content # NoContent,
                      \E j \in DOMAIN seen[i].content.findings :
                         Grave(seen[i].content.findings, j)
               PROVE  seen[i].verdict = "FAIL"
    BY DEF CriticalFails
  <2>1. PICK site \in Sites : seen[i] = SnapshotOf(site)
    BY SeenSite
  <2>2. HasGrave(SnapshotOf(site).content) /\ SnapshotOf(site).content # NoContent
    BY <2>1 DEF HasGrave
  <2>3. QED  BY <2>1, <2>2, GraveFails
<1>2. QED  BY <1>1, SeenInvariant, PTL
-----------------------------------------------------------------------------
(* The issues of a site are high, medium or low. *)
LEMMA IssueGrades ==
  ASSUME NEW scan
  PROVE  HeaderIssues(scan) \subseteq {"high", "medium", "low"}
<1>1. ASSUME NEW h PROVE Severities(scan, h) \subseteq {"high", "medium", "low"}
  <2>1. MissingSeverity(h) \in {"high", "medium", "low"}
    BY DEF MissingSeverity
  <2>2. \A f \in Found(scan, h) : f.severity \in {"high", "medium", "low"}
    BY FlawsType DEF Found
  <2>3. QED  BY <2>1, <2>2 DEF Severities
<1>2. QED  BY <1>1 DEF HeaderIssues

LEMMA SameIssues ==
  ASSUME NEW a, NEW b, a.usedHttps = b.usedHttps, a.headers = b.headers
  PROVE  HeaderIssues(a) = HeaderIssues(b)
<1>1. Scored(a) = Scored(b)
  BY DEF Scored
<1>2. ASSUME NEW h PROVE Severities(a, h) = Severities(b, h)
  BY DEF Severities, Found
<1>3. QED  BY <1>1, <1>2 DEF HeaderIssues

LEMMA PassedIsClean ==
  ASSUME NEW site \in Sites, SnapshotOf(site).verdict = "PASS"
  PROVE  LET s == SnapshotOf(site) IN
         /\ s.usedHttps /\ ~s.weakCipher /\ s.status \in 200..299
         /\ HeaderIssues(s) \subseteq {"low"}
         /\ s.content # NoContent => s.content.pages > 0 /\ s.content.findings = <<>>
<1> DEFINE s == SnapshotOf(site)
<1>1. /\ IsScan(site) /\ site.reached
      /\ s.verdict = VerdictStatus(site)
      /\ s.usedHttps = site.usedHttps /\ s.weakCipher = site.weakCipher
      /\ s.status = site.status /\ s.headers = site.headers
      /\ site.content = NoContent => s.content = NoContent
      /\ site.content # NoContent => /\ s.content.pages = site.content.pages
                                     /\ s.content.findings = site.content.findings
  BY Reading
<1>2. ~HasTopIssue(site) /\ VerdictScore(site) >= 75
  BY <1>1 DEF VerdictStatus
<1> HIDE DEF s
<1>3. PICK n \in Nat : n = VerdictScore(site) /\ n >= 75
  BY <1>1, <1>2, VerdictScoreIs
<1>4. /\ site.usedHttps /\ ~site.weakCipher
      /\ HeaderIssues(site) \cap {"high", "medium"} = {}
      /\ (site.content # NoContent => site.content.findings = <<>>)
  BY <1>2 DEF HasTopIssue
<1>5. site.status \in 200..299
  <2> SUFFICES ASSUME site.status \notin 200..299 PROVE FALSE
    OBVIOUS
  <2>1. 40 \in Caps(site)
    BY DEF Caps
  <2>2. PICK t \in Nat : t = TransportCap(site) /\ t <= 40 /\ n <= t
    BY <1>1, <1>3, <2>1, CapIs, VerdictScoreIs
  <2>3. QED  BY <1>3, <2>2
<1>6. HeaderIssues(s) \subseteq {"low"}
  BY <1>1, <1>4, IssueGrades, SameIssues
<1>7. site.content # NoContent => site.content.pages > 0
  <2> SUFFICES ASSUME site.content # NoContent PROVE site.content.pages > 0
    OBVIOUS
  <2>1. PICK c : c = site.content /\ IsChecked(c) /\ ContentPart(site) = ContentScore(c)
    BY <1>1 DEF IsScan, ContentPart
  <2>2. PICK p \in Nat : p = c.pages
    BY <2>1 DEF IsChecked
  <2>3. n <= ContentScore(c)
    BY <1>1, <1>3, <2>1, VerdictScoreIs
  <2>4. p # 0
    BY <1>3, <2>1, <2>2, <2>3, ContentScoreIs
  <2>5. p > 0
    BY <2>4
  <2>6. QED  BY <2>1, <2>2, <2>5
<1>8. QED  BY <1>1, <1>4, <1>5, <1>6, <1>7 DEF s

(* PASS is given only to a site that nothing is known against: a score of   *)
(* 75 leaves no transport cap below it, and no top issue was named.         *)
THEOREM PassStaysClean == Spec => []PassIsClean
<1>1. SeenInv => PassIsClean
  <2> SUFFICES ASSUME SeenInv, NEW i \in DOMAIN seen, seen[i].verdict = "PASS"
               PROVE  /\ seen[i].usedHttps /\ ~seen[i].weakCipher
                      /\ seen[i].status \in 200..299
                      /\ HeaderIssues(seen[i]) \subseteq {"low"}
                      /\ seen[i].content # NoContent =>
                           seen[i].content.pages > 0 /\ seen[i].content.findings = <<>>
    BY DEF PassIsClean
  <2>1. PICK site \in Sites : seen[i] = SnapshotOf(site)
    BY SeenSite
  <2>2. QED  BY <2>1, PassedIsClean
<1>2. QED  BY <1>1, SeenInvariant, PTL
-----------------------------------------------------------------------------
(* Sites compared: b is as a in every respect that is scored, or worse. *)
SiteNoBetter(a, b) ==
  /\ b.usedHttps => a.usedHttps
  /\ a.weakCipher => b.weakCipher
  /\ b.status \in 200..299 => a.status \in 200..299
  /\ \A h \in HeaderKeys : HeaderWorse(a.headers[h], b.headers[h])
  /\ \/ a.content = NoContent
     \/ /\ a.content # NoContent /\ b.content # NoContent
        /\ b.content.pages <= a.content.pages
        /\ IsPrefix(a.content.findings, b.content.findings)

LEMMA ScoreNoBetter ==
  ASSUME NEW a, NEW b, IsScan(a), IsScan(b), SiteNoBetter(a, b)
  PROVE  VerdictScore(b) <= VerdictScore(a)
<1>1. HeaderScore(b) <= HeaderScore(a)
  BY HeaderScoreNoBetter DEF SiteNoBetter
<1>2. TransportCap(b) <= TransportCap(a)
  BY CapNoBetter DEF SiteNoBetter
<1>3. ContentPart(b) <= ContentPart(a)
  <2>1. CASE a.content = NoContent
    <3>1. ContentPart(a) = 100 /\ ContentPart(b) <= 100
      BY <2>1, VerdictScoreIs DEF ContentPart
    <3>2. QED  BY <3>1
  <2>2. CASE a.content # NoContent
    <3>1. /\ IsChecked(a.content) /\ IsChecked(b.content)
          /\ b.content.pages <= a.content.pages
          /\ IsPrefix(a.content.findings, b.content.findings)
          /\ ContentPart(a) = ContentScore(a.content)
          /\ ContentPart(b) = ContentScore(b.content)
      BY <2>2 DEF SiteNoBetter, IsScan, ContentPart
    <3>2. QED  BY <3>1, ContentScoreNoBetter
  <2>3. QED  BY <2>1, <2>2
<1>4. PICK i \in Nat, j \in Nat, k \in Nat, n \in Nat :
        /\ i = HeaderScore(a) /\ j = TransportCap(a) /\ k = ContentPart(a)
        /\ n = VerdictScore(a) /\ n \in {i, j, k}
  BY VerdictScoreIs
<1>5. PICK u \in Nat, v \in Nat, w \in Nat, m \in Nat :
        /\ u = HeaderScore(b) /\ v = TransportCap(b) /\ w = ContentPart(b)
        /\ m = VerdictScore(b) /\ m <= u /\ m <= v /\ m <= w
  BY VerdictScoreIs
<1>6. u <= i /\ v <= j /\ w <= k
  BY <1>1, <1>2, <1>3, <1>4, <1>5
<1>7. m <= n
  BY <1>4, <1>5, <1>6
<1>8. QED  BY <1>4, <1>5, <1>7

(* An issue of a is one of b, but for a permissive policy that is dropped. *)
LEMMA IssueStays ==
  ASSUME NEW a, NEW b, SiteNoBetter(a, b), ~DropsPermissive(a, b), b.usedHttps,
         NEW h \in HeaderKeys, Severities(a, h) \cap {"high", "medium"} # {}
  PROVE  Severities(b, h) \cap {"high", "medium"} # {}
<1>1. HeaderWorse(a.headers[h], b.headers[h])
  BY DEF SiteNoBetter
<1>2. CASE a.headers[h] = Absent
  <2>1. b.headers[h] = Absent
    BY <1>1, <1>2 DEF HeaderWorse
  <2>2. QED  BY <1>2, <2>1 DEF Severities
<1>3. CASE a.headers[h] # Absent /\ b.headers[h] # Absent
  <2>1. Found(a, h) \subseteq Found(b, h)
    BY <1>1, <1>3 DEF HeaderWorse, Found
  <2>2. QED  BY <1>3, <2>1 DEF Severities
<1>4. CASE a.headers[h] # Absent /\ b.headers[h] = Absent
  <2>1. PICK f \in Found(a, h) : f.severity \in {"high", "medium"}
    BY <1>4 DEF Severities
  <2>2. h \in {"strictTransportSecurity", "contentSecurityPolicy", "xFrameOptions"}
    <3>1. CASE h = "xContentTypeOptions"
      <4>1. f = Flaw("not nosniff", "low", 5)
        BY <2>1, <3>1 DEF Found, Flaws
      <4>2. QED  BY <2>1, <4>1 DEF Flaw
    <3>2. CASE h = "referrerPolicy"
      <4>1. f = Flaw("permissive", "medium", 3) /\ f.name \in a.headers[h]
        BY <2>1, <3>2 DEF Found, Flaws
      <4>2. f.name = "permissive"
        BY <4>1 DEF Flaw
      <4>3. QED  BY <1>4, <3>2, <4>1, <4>2 DEF DropsPermissive
    <3>3. CASE h = "permissionsPolicy"
      BY <2>1, <3>3 DEF Found, Flaws
    <3>4. QED  BY <3>1, <3>2, <3>3 DEF HeaderKeys, ValueHeaders
  <2>3. MissingSeverity(h) \in {"high", "medium"}
    BY <2>2 DEF MissingSeverity, ValueHeaders
  <2>4. QED  BY <1>4, <2>3 DEF Severities
<1>5. QED  BY <1>2, <1>3, <1>4

LEMMA TopIssueStays ==
  ASSUME NEW a, NEW b, IsScan(a), IsScan(b), SiteNoBetter(a, b),
         ~DropsPermissive(a, b), HasTopIssue(a)
  PROVE  HasTopIssue(b)
<1>1. CASE ~b.usedHttps
  BY <1>1 DEF HasTopIssue
<1>2. CASE b.usedHttps
  <2>1. a.usedHttps
    BY <1>2 DEF SiteNoBetter
  <2>2. CASE a.weakCipher
    BY <2>2 DEF SiteNoBetter, HasTopIssue
  <2>3. CASE HeaderIssues(a) \cap {"high", "medium"} # {}
    <3>1. PICK h \in HeaderKeys : Severities(a, h) \cap {"high", "medium"} # {}
      BY <2>3, <2>1 DEF HeaderIssues, Scored
    <3>2. Severities(b, h) \cap {"high", "medium"} # {}
      BY <1>2, <3>1, IssueStays
    <3>3. h \in Scored(b)
      BY <1>2 DEF Scored
    <3>4. HeaderIssues(b) \cap {"high", "medium"} # {}
      BY <3>2, <3>3 DEF HeaderIssues
    <3>5. QED  BY <3>4 DEF HasTopIssue
  <2>4. CASE a.content # NoContent /\ a.content.findings # <<>>
    <3>1. PICK fs, gs : /\ fs = a.content.findings /\ fs \in Seq(Range(fs)) /\ fs # <<>>
                        /\ gs = b.content.findings /\ gs \in Seq(Range(gs))
                        /\ IsPrefix(fs, gs) /\ b.content # NoContent
      BY <2>4 DEF SiteNoBetter, IsScan, IsChecked
    <3>2. 1 \in DOMAIN fs
      BY <3>1, EmptySeq, LenProperties
    <3>3. 1 \in DOMAIN gs
      BY <3>1, <3>2, PrefixKeeps
    <3>4. gs # <<>>
      BY <3>3
    <3>5. QED  BY <3>1, <3>4 DEF HasTopIssue
  <2>5. QED  BY <2>1, <2>2, <2>3, <2>4 DEF HasTopIssue
<1>3. QED  BY <1>1, <1>2

LEMMA NoBetterReading ==
  ASSUME NEW a \in Sites, NEW b \in Sites, a.reached, b.reached,
         NoBetter(SnapshotOf(a), SnapshotOf(b))
  PROVE  /\ IsScan(a) /\ IsScan(b) /\ SiteNoBetter(a, b)
         /\ DropsPermissive(SnapshotOf(a), SnapshotOf(b)) <=> DropsPermissive(a, b)
<1>1. /\ SnapshotOf(a).httpError = FALSE /\ SnapshotOf(b).httpError = FALSE
      /\ SnapshotOf(a).usedHttps = a.usedHttps /\ SnapshotOf(b).usedHttps = b.usedHttps
      /\ SnapshotOf(a).weakCipher = a.weakCipher /\ SnapshotOf(b).weakCipher = b.weakCipher
      /\ SnapshotOf(a).status = a.status /\ SnapshotOf(b).status = b.status
      /\ SnapshotOf(a).headers = a.headers /\ SnapshotOf(b).headers = b.headers
      /\ IsScan(a) /\ IsScan(b)
  BY Reading
<1>2. ContentWorse(SnapshotOf(a).content, SnapshotOf(b).content)
  BY <1>1 DEF NoBetter
<1>3. \/ a.content = NoContent
      \/ /\ a.content # NoContent /\ b.content # NoContent
         /\ b.content.pages <= a.content.pages
         /\ IsPrefix(a.content.findings, b.content.findings)
  <2> SUFFICES ASSUME a.content # NoContent
               PROVE  /\ b.content # NoContent
                      /\ b.content.pages <= a.content.pages
                      /\ IsPrefix(a.content.findings, b.content.findings)
    OBVIOUS
  <2>1. /\ SnapshotOf(a).content # NoContent
        /\ SnapshotOf(a).content.pages = a.content.pages
        /\ SnapshotOf(a).content.findings = a.content.findings
    BY Reading
  <2>2. /\ SnapshotOf(b).content # NoContent
        /\ SnapshotOf(b).content.pages <= SnapshotOf(a).content.pages
        /\ IsPrefix(SnapshotOf(a).content.findings, SnapshotOf(b).content.findings)
    BY <1>2, <2>1 DEF ContentWorse
  <2>3. /\ b.content # NoContent
        /\ SnapshotOf(b).content.pages = b.content.pages
        /\ SnapshotOf(b).content.findings = b.content.findings
    BY <2>2, Reading
  <2>4. QED  BY <2>1, <2>2, <2>3
<1>4. QED  BY <1>1, <1>3 DEF NoBetter, SiteNoBetter, DropsPermissive

LEMMA ScoreType ==
  ASSUME NEW site \in Sites
  PROVE  /\ SnapshotOf(site).verdictScore \in Nat
         /\ SnapshotOf(site).verdict \in {"PASS", "WARN", "FAIL"}
<1>1. CASE site.reached
  <2>1. /\ IsScan(site) /\ SnapshotOf(site).verdictScore = VerdictScore(site)
        /\ SnapshotOf(site).verdict = VerdictStatus(site)
    BY <1>1, Reading
  <2>2. VerdictScore(site) \in Nat
    BY <2>1, VerdictScoreIs
  <2>3. VerdictStatus(site) \in {"PASS", "WARN", "FAIL"}
    BY DEF VerdictStatus
  <2>4. QED  BY <2>1, <2>2, <2>3
<1>2. CASE ~site.reached
  <2>1. /\ SnapshotOf(site).verdictScore = 0
        /\ SnapshotOf(site).verdict = "FAIL"
    BY <1>2, Reading
  <2>2. QED  BY <2>1
<1>3. QED  BY <1>1, <1>2

LEMMA WorseReadsNoBetter ==
  ASSUME NEW a \in Sites, NEW b \in Sites, NoBetter(SnapshotOf(a), SnapshotOf(b))
  PROVE  /\ SnapshotOf(b).verdictScore <= SnapshotOf(a).verdictScore
         /\ \/ DropsPermissive(SnapshotOf(a), SnapshotOf(b))
            \/ Rank[SnapshotOf(b).verdict] <= Rank[SnapshotOf(a).verdict]
<1>1. /\ SnapshotOf(a).verdictScore \in Nat
      /\ SnapshotOf(a).verdict \in {"PASS", "WARN", "FAIL"}
  BY ScoreType
<1>2. /\ Rank["FAIL"] = 0 /\ Rank["WARN"] = 1 /\ Rank["PASS"] = 2
      /\ Rank[SnapshotOf(a).verdict] \in 0..2
  BY <1>1 DEF Rank
<1>3. CASE ~b.reached
  <2>1. SnapshotOf(b).verdictScore = 0 /\ SnapshotOf(b).verdict = "FAIL"
    BY <1>3, Reading
  <2>2. QED  BY <1>1, <1>2, <2>1
<1>4. CASE b.reached
  <2>1. a.reached
    BY <1>4, Reading DEF NoBetter
  <2>2. /\ IsScan(a) /\ IsScan(b) /\ SiteNoBetter(a, b)
        /\ DropsPermissive(SnapshotOf(a), SnapshotOf(b)) <=> DropsPermissive(a, b)
    BY <1>4, <2>1, NoBetterReading
  <2>3. /\ SnapshotOf(a).verdict = VerdictStatus(a)
        /\ SnapshotOf(b).verdict = VerdictStatus(b)
        /\ SnapshotOf(a).verdictScore = VerdictScore(a)
        /\ SnapshotOf(b).verdictScore = VerdictScore(b)
    BY <1>4, <2>1, Reading
  <2>4. PICK n \in Nat, m \in Nat : n = VerdictScore(a) /\ m = VerdictScore(b) /\ m <= n
    BY <2>2, ScoreNoBetter, VerdictScoreIs
  <2>5. ~DropsPermissive(a, b) /\ HasTopIssue(a) => HasTopIssue(b)
    BY <2>2, TopIssueStays
  <2>6. DropsPermissive(a, b) \/ Rank[VerdictStatus(b)] <= Rank[VerdictStatus(a)]
    <3>1. CASE VerdictStatus(a) = "PASS"
      <4>1. VerdictStatus(b) \in {"PASS", "WARN", "FAIL"}
        BY DEF VerdictStatus
      <4>2. QED  BY <1>2, <3>1, <4>1
    <3>2. CASE VerdictStatus(a) = "WARN"
      <4>1. VerdictStatus(b) = "PASS" => m >= 75 /\ ~HasTopIssue(b)
        BY <2>4 DEF VerdictStatus
      <4>2. n >= 75 => HasTopIssue(a)
        BY <2>4, <3>2 DEF VerdictStatus
      <4>3. m >= 75 => n >= 75
        BY <2>4
      <4>4. VerdictStatus(b) = "PASS" => DropsPermissive(a, b)
        BY <2>5, <4>1, <4>2, <4>3
      <4>5. VerdictStatus(b) \in {"PASS", "WARN", "FAIL"}
        BY DEF VerdictStatus
      <4>6. QED  BY <1>2, <3>2, <4>4, <4>5
    <3>3. CASE VerdictStatus(a) = "FAIL"
      <4>1. ~(n >= 40)
        BY <2>4, <3>3 DEF VerdictStatus
      <4>2. ~(m >= 40) /\ ~(m >= 75)
        BY <2>4, <4>1
      <4>3. VerdictStatus(b) = "FAIL"
        BY <2>4, <4>2 DEF VerdictStatus
      <4>4. QED  BY <1>2, <3>3, <4>3
    <3>4. QED  BY <1>1, <2>3, <3>1, <3>2, <3>3
  <2>7. QED  BY <2>2, <2>3, <2>4, <2>6
<1>5. QED  BY <1>3, <1>4

(* A site that is worse in any combination of respects neither scores nor,  *)
(* but for a permissive Referrer-Policy that it drops, ranks higher.        *)
THEOREM WorseNeverGains == Spec => []WorseNeverReadsBetter
<1>1. SeenInv => WorseNeverReadsBetter
  <2> SUFFICES ASSUME SeenInv, NEW i \in DOMAIN seen, NEW j \in DOMAIN seen,
                      NoBetter(seen[i], seen[j])
               PROVE  /\ seen[j].verdictScore <= seen[i].verdictScore
                      /\ \/ DropsPermissive(seen[i], seen[j])
                         \/ Rank[seen[j].verdict] <= Rank[seen[i].verdict]
    BY DEF WorseNeverReadsBetter
  <2>1. PICK a \in Sites : seen[i] = SnapshotOf(a)
    BY SeenSite
  <2>2. PICK b \in Sites : seen[j] = SnapshotOf(b)
    BY SeenSite
  <2>3. QED  BY <2>1, <2>2, WorseReadsNoBetter
<1>2. QED  BY <1>1, SeenInvariant, PTL
-----------------------------------------------------------------------------
(* Changes that alert. *)
Loud(diff) == \E c \in diff : c.materiality \in {"critical", "material"}

LEMMA AlertsAreLoud ==
  ASSUME NEW a, NEW b
  PROVE  ShouldAlert(a, b) <=> \/ Loud(DiffSnapshots(a, b))
                              \/ Delta(a.verdictScore, b.verdictScore) >= 15
BY DEF ShouldAlert, RecordMateriality, Tiers, Loud

LEMMA LoudChange ==
  ASSUME NEW differs \in BOOLEAN, NEW field, NEW tier
  PROVE  Loud(Changed(differs, field, tier))
           <=> differs /\ tier \in {"critical", "material"}
<1> DEFINE row == [field |-> field, materiality |-> tier]
<1>1. row.materiality = tier
  OBVIOUS
<1>2. CASE differs
  <2>1. Changed(differs, field, tier) = {row}
    BY <1>2 DEF Changed
  <2> HIDE DEF row
  <2>2. QED  BY <1>1, <1>2, <2>1 DEF Loud
<1>3. CASE ~differs
  <2>1. Changed(differs, field, tier) = {}
    BY <1>3 DEF Changed
  <2>2. QED  BY <1>3, <2>1 DEF Loud
<1>4. QED  BY <1>2, <1>3

LEMMA DeltaSymmetric ==
  ASSUME NEW x \in Nat, NEW y \in Nat
  PROVE  Delta(x, y) = Delta(y, x)
BY DEF Delta

LEMMA SecurityIsLoud ==
  ASSUME NEW a, NEW b
  PROVE  Loud(SecurityDiff(a, b)) <=> \/ a.usedHttps # b.usedHttps \/ a.verdict # b.verdict
                                     \/ a.weakCipher # b.weakCipher \/ a.status # b.status
<1>1. Loud(Changed(a.usedHttps # b.usedHttps, <<"tls", "usedHttps">>,
                   Tier(a.usedHttps, "critical", "material"))) <=> a.usedHttps # b.usedHttps
  BY LoudChange DEF Tier
<1>2. Loud(VerdictDiff(a, b)) <=> a.verdict # b.verdict
  BY LoudChange DEF Tier, VerdictDiff
<1>3. Loud(Changed(a.weakCipher # b.weakCipher, <<"tls", "weakCipher">>,
                   Tier(b.weakCipher, "critical", "material"))) <=> a.weakCipher # b.weakCipher
  BY LoudChange DEF Tier
<1>4. Loud(Changed(a.status # b.status, <<"http", "status">>, "material"))
        <=> a.status # b.status
  BY LoudChange
<1>5. QED  BY <1>1, <1>2, <1>3, <1>4 DEF SecurityDiff, Loud

LEMMA HeadersAreLoud ==
  ASSUME NEW a, NEW b
  PROVE  Loud(HeaderDiff(a, b)) <=>
           \E k \in HeaderKeys : \/ (a.headers[k] = Absent) # (b.headers[k] = Absent)
                                 \/ k \in ValueHeaders /\ a.headers[k] # b.headers[k]
<1> DEFINE Row(k) == [field |-> <<"header", k>>, materiality |-> "material"]
           K == {k \in HeaderKeys :
                   \/ (a.headers[k] = Absent) # (b.headers[k] = Absent)
                   \/ k \in ValueHeaders /\ a.headers[k] # b.headers[k]}
<1>1. HeaderDiff(a, b) = {Row(k) : k \in K}
  BY Zenon DEF HeaderDiff
<1>2. \A k : Row(k).materiality = "material"
  OBVIOUS
<1>3. K # {} <=> \E k \in HeaderKeys :
                   \/ (a.headers[k] = Absent) # (b.headers[k] = Absent)
                   \/ k \in ValueHeaders /\ a.headers[k] # b.headers[k]
  OBVIOUS
<1> HIDE DEF Row, K
<1>4. QED  BY <1>1, <1>2, <1>3 DEF Loud

LEMMA InformationIsNot ==
  ASSUME NEW a, NEW b
  PROVE  ~Loud(InformationalDiff(a, b))
BY DEF InformationalDiff, Loud, Changed

LEMMA FactsAreLoud ==
  ASSUME NEW f, NEW t
  PROVE  Loud(FactDiff(f, t)) <=> (CameOrWent(f, t) # {} \/ Reclaimed(f, t) # {})
<1> DEFINE Row(field, k) == FactChange(field, f, t, k)
           came == CameOrWent(f, t)
           kept == Reclaimed(f, t)
<1>1. FactDiff(f, t) = {Row("fact", k) : k \in came} \cup {Row("claims", k) : k \in kept}
  BY Zenon DEF FactDiff
<1>2. \A field, k : Row(field, k).materiality \in {"critical", "material"}
  BY DEF FactChange, Tier
<1> HIDE DEF Row, came, kept
<1>3. Loud(FactDiff(f, t)) <=> (came # {} \/ kept # {})
  BY <1>1, <1>2 DEF Loud
<1>4. QED  BY <1>3 DEF came, kept

LEMMA FactsBothWays ==
  ASSUME NEW f, NEW t
  PROVE  CameOrWent(f, t) = CameOrWent(t, f) /\ Reclaimed(f, t) = Reclaimed(t, f)
BY DEF CameOrWent, Reclaimed

LEMMA CriticalsAreLoud ==
  ASSUME NEW c, NEW d
  PROVE  Loud(CriticalDiff(c, d)) <=> CriticalKeys(c) # CriticalKeys(d)
<1> DEFINE Row(k, tier) == [field |-> <<"critical", k>>, materiality |-> tier]
           C == CriticalKeys(c)
           D == CriticalKeys(d)
<1>1. CriticalDiff(c, d) = {Row(k, "critical") : k \in D \ C}
                             \cup {Row(k, "material") : k \in C \ D}
  BY Zenon DEF CriticalDiff
<1>2. \A k, tier : Row(k, tier).materiality = tier
  OBVIOUS
<1> HIDE DEF Row, C, D
<1>3. C # D <=> (D \ C # {} \/ C \ D # {})
  OBVIOUS
<1>4. Loud(CriticalDiff(c, d)) <=> (D \ C # {} \/ C \ D # {})
  BY <1>1, <1>2 DEF Loud
<1>5. QED  BY <1>3, <1>4 DEF C, D

HasScore(s) == s.content # NoContent => s.content.score \in Nat

LEMMA ContentIsLoud ==
  ASSUME NEW a, NEW b, HasScore(a), HasScore(b), Loud(ContentDiff(a, b))
  PROVE  Loud(ContentDiff(b, a))
<1>1. CASE a.content = NoContent \/ b.content = NoContent
  <2>1. a.content # b.content
    BY <1>1, LoudChange DEF ContentDiff
  <2>2. ContentDiff(b, a) = Changed(b.content # a.content, <<"content", "presence">>, "material")
    BY <1>1 DEF ContentDiff
  <2>3. QED  BY <2>1, <2>2, LoudChange
<1>2. CASE a.content # NoContent /\ b.content # NoContent
  <2> DEFINE Status(x, y) == Changed(x.content.status # y.content.status,
                                     <<"content", "status">>, "material")
  <2>0. ASSUME NEW x, NEW y, x.content # NoContent, y.content # NoContent
        PROVE  Loud(ContentDiff(x, y)) <=>
                 \/ Loud(Status(x, y)) \/ Loud(ContentScoreDiff(x, y))
                 \/ Loud(FactDiff(x.content.facts, y.content.facts))
                 \/ Loud(CriticalDiff(x.content, y.content))
    <3>1. ContentDiff(x, y) = Status(x, y) \cup ContentScoreDiff(x, y)
              \cup FactDiff(x.content.facts, y.content.facts)
              \cup CriticalDiff(x.content, y.content)
      BY <2>0 DEF ContentDiff
    <3> HIDE DEF Status
    <3>2. QED  BY <3>1 DEF Loud
  <2>1. Loud(Status(a, b)) => Loud(Status(b, a))
    BY LoudChange
  <2>2. Loud(ContentScoreDiff(a, b)) => Loud(ContentScoreDiff(b, a))
    <3>1. PICK x \in Nat, y \in Nat : x = a.content.score /\ y = b.content.score
      BY <1>2 DEF HasScore
    <3>2. Delta(x, y) = Delta(y, x)
      BY DeltaSymmetric
    <3> DEFINE tier(d) == Tier(d >= 15, "material", "informational")
    <3>3. /\ ContentScoreDiff(a, b) = Changed(x # y, <<"content", "score">>, tier(Delta(x, y)))
          /\ ContentScoreDiff(b, a) = Changed(y # x, <<"content", "score">>, tier(Delta(y, x)))
      BY <3>1 DEF ContentScoreDiff
    <3> HIDE DEF tier
    <3>4. QED  BY <3>2, <3>3, LoudChange
  <2>3. Loud(FactDiff(a.content.facts, b.content.facts)) =>
          Loud(FactDiff(b.content.facts, a.content.facts))
    BY FactsAreLoud, FactsBothWays
  <2>4. Loud(CriticalDiff(a.content, b.content)) => Loud(CriticalDiff(b.content, a.content))
    BY CriticalsAreLoud
  <2> HIDE DEF Status
  <2>5. QED  BY <1>2, <2>0, <2>1, <2>2, <2>3, <2>4
<1>3. QED  BY <1>1, <1>2

LEMMA AlertsBothWays ==
  ASSUME NEW a, NEW b, HasScore(a), HasScore(b),
         a.verdictScore \in Nat, b.verdictScore \in Nat, ShouldAlert(a, b)
  PROVE  ShouldAlert(b, a)
<1>1. CASE Delta(a.verdictScore, b.verdictScore) >= 15
  <2>1. Delta(b.verdictScore, a.verdictScore) = Delta(a.verdictScore, b.verdictScore)
    BY DeltaSymmetric
  <2>2. QED  BY <1>1, <2>1, AlertsAreLoud
<1>2. CASE Loud(DiffSnapshots(a, b))
  <2>1. \/ Loud(SecurityDiff(a, b)) \/ Loud(HeaderDiff(a, b)) \/ Loud(ContentDiff(a, b))
    BY <1>2, InformationIsNot DEF DiffSnapshots, Loud
  <2>2. Loud(SecurityDiff(b, a)) \/ Loud(HeaderDiff(b, a)) \/ Loud(ContentDiff(b, a))
    <3>1. Loud(SecurityDiff(a, b)) => Loud(SecurityDiff(b, a))
      BY SecurityIsLoud
    <3>2. Loud(HeaderDiff(a, b)) => Loud(HeaderDiff(b, a))
      BY HeadersAreLoud
    <3>3. Loud(ContentDiff(a, b)) => Loud(ContentDiff(b, a))
      BY ContentIsLoud
    <3>4. QED  BY <2>1, <3>1, <3>2, <3>3
  <2>3. Loud(DiffSnapshots(b, a))
    BY <2>2 DEF DiffSnapshots, Loud
  <2>4. QED  BY <2>3, AlertsAreLoud
<1>3. QED  BY <1>1, <1>2, AlertsAreLoud

(* Two observations alert in both orders or in neither: of each part of the *)
(* comparator, what is material one way is material or critical the other.  *)
THEOREM RecoveriesAlwaysAlert == Spec => []RecoveriesAlert
<1>1. ASSUME NEW site \in Sites PROVE HasScore(SnapshotOf(site))
  <2>1. CASE site.reached /\ site.content # NoContent
    <3>1. PICK c : c = site.content /\ IsChecked(c)
      BY <2>1, Reading DEF IsScan
    <3>2. SnapshotOf(site).content.score = ContentScore(c) /\ ContentScore(c) \in Nat
      BY <2>1, <3>1, Reading, ContentScoreIs
    <3>3. QED  BY <3>2 DEF HasScore
  <2>2. CASE ~(site.reached /\ site.content # NoContent)
    <3>1. SnapshotOf(site).content = NoContent
      BY <2>2, Reading
    <3>2. QED  BY <3>1 DEF HasScore
  <2>3. QED  BY <2>1, <2>2
<1>2. SeenInv => RecoveriesAlert
  <2> SUFFICES ASSUME SeenInv, NEW i \in DOMAIN seen, NEW j \in DOMAIN seen,
                      ShouldAlert(seen[i], seen[j])
               PROVE  ShouldAlert(seen[j], seen[i])
    BY DEF RecoveriesAlert
  <2>1. PICK a \in Sites : seen[i] = SnapshotOf(a)
    BY SeenSite
  <2>2. PICK b \in Sites : seen[j] = SnapshotOf(b)
    BY SeenSite
  <2>3. ShouldAlert(SnapshotOf(a), SnapshotOf(b))
    BY <2>1, <2>2
  <2>4. /\ SnapshotOf(a).verdictScore \in Nat /\ SnapshotOf(b).verdictScore \in Nat
        /\ HasScore(SnapshotOf(a)) /\ HasScore(SnapshotOf(b))
    BY <1>1, ScoreType
  <2>5. ShouldAlert(SnapshotOf(b), SnapshotOf(a))
    BY <2>3, <2>4, AlertsBothWays
  <2>6. QED  BY <2>1, <2>2, <2>5
<1>3. QED  BY <1>2, SeenInvariant, PTL
-----------------------------------------------------------------------------
(* Is a change of the field among these? *)
Told(diff, field) == \E c \in diff : c.field = field

LEMMA ToldChange ==
  ASSUME NEW differs \in BOOLEAN, NEW field, NEW tier, NEW f
  PROVE  Told(Changed(differs, field, tier), f) <=> differs /\ f = field
<1> DEFINE row == [field |-> field, materiality |-> tier]
<1>1. row.field = field
  OBVIOUS
<1>2. CASE differs
  <2>1. Changed(differs, field, tier) = {row}
    BY <1>2 DEF Changed
  <2> HIDE DEF row
  <2>2. QED  BY <1>1, <1>2, <2>1 DEF Told
<1>3. CASE ~differs
  <2>1. Changed(differs, field, tier) = {}
    BY <1>3 DEF Changed
  <2>2. QED  BY <1>3, <2>1 DEF Told
<1>4. QED  BY <1>2, <1>3

LEMMA SecurityTold ==
  ASSUME NEW a, NEW b, NEW c, NEW f, Told(SecurityDiff(a, c), f)
  PROVE  Told(SecurityDiff(a, b), f) \/ Told(SecurityDiff(b, c), f)
<1>1. ASSUME NEW x, NEW y
      PROVE  Told(SecurityDiff(x, y), f) <=>
               \/ x.usedHttps # y.usedHttps /\ f = <<"tls", "usedHttps">>
               \/ x.verdict # y.verdict /\ f = <<"verdict", "status">>
               \/ x.weakCipher # y.weakCipher /\ f = <<"tls", "weakCipher">>
               \/ x.status # y.status /\ f = <<"http", "status">>
  <2> DEFINE clear == Tier(x.usedHttps, "critical", "material")
             weak  == Tier(y.weakCipher, "critical", "material")
             https == Changed(x.usedHttps # y.usedHttps, <<"tls", "usedHttps">>, clear)
             cipher == Changed(x.weakCipher # y.weakCipher, <<"tls", "weakCipher">>, weak)
             status == Changed(x.status # y.status, <<"http", "status">>, "material")
  <2>1. SecurityDiff(x, y) = https \cup VerdictDiff(x, y) \cup cipher \cup status
    BY Zenon DEF SecurityDiff
  <2> HIDE DEF clear, weak
  <2>2. Told(https, f) <=> x.usedHttps # y.usedHttps /\ f = <<"tls", "usedHttps">>
    BY ToldChange
  <2>3. Told(VerdictDiff(x, y), f) <=> x.verdict # y.verdict /\ f = <<"verdict", "status">>
    BY ToldChange DEF VerdictDiff
  <2>4. Told(cipher, f) <=> x.weakCipher # y.weakCipher /\ f = <<"tls", "weakCipher">>
    BY ToldChange
  <2>5. Told(status, f) <=> x.status # y.status /\ f = <<"http", "status">>
    BY ToldChange
  <2> HIDE DEF https, cipher, status
  <2>6. Told(SecurityDiff(x, y), f) <=> \/ Told(https, f) \/ Told(VerdictDiff(x, y), f)
                                       \/ Told(cipher, f) \/ Told(status, f)
    BY <2>1 DEF Told
  <2>7. QED  BY <2>2, <2>3, <2>4, <2>5, <2>6
<1>2. QED  BY <1>1

LEMMA HeadersTold ==
  ASSUME NEW a, NEW b, NEW c, NEW f, Told(HeaderDiff(a, c), f)
  PROVE  Told(HeaderDiff(a, b), f) \/ Told(HeaderDiff(b, c), f)
<1>1. ASSUME NEW x, NEW y
      PROVE  Told(HeaderDiff(x, y), f) <=>
               \E k \in HeaderKeys :
                  /\ f = <<"header", k>>
                  /\ \/ (x.headers[k] = Absent) # (y.headers[k] = Absent)
                     \/ k \in ValueHeaders /\ x.headers[k] # y.headers[k]
  BY DEF HeaderDiff, Told
<1>2. PICK k \in HeaderKeys :
        /\ f = <<"header", k>>
        /\ \/ (a.headers[k] = Absent) # (c.headers[k] = Absent)
           \/ k \in ValueHeaders /\ a.headers[k] # c.headers[k]
  BY <1>1
<1>3. \/ (a.headers[k] = Absent) # (b.headers[k] = Absent)
      \/ k \in ValueHeaders /\ a.headers[k] # b.headers[k]
      \/ (b.headers[k] = Absent) # (c.headers[k] = Absent)
      \/ k \in ValueHeaders /\ b.headers[k] # c.headers[k]
  BY <1>2
<1>4. QED  BY <1>1, <1>2, <1>3

LEMMA InformationTold ==
  ASSUME NEW a, NEW b, NEW c, NEW f, Told(InformationalDiff(a, c), f)
  PROVE  Told(InformationalDiff(a, b), f) \/ Told(InformationalDiff(b, c), f)
<1> DEFINE Moved(x, y) ==
      \/ x.protocol # y.protocol /\ f = <<"tls", "protocol">>
      \/ x.headerScore # y.headerScore /\ f = <<"headerScore", "score">>
      \/ x.verdictScore # y.verdictScore /\ f = <<"verdict", "score">>
      \/ x.server # y.server /\ f = <<"tech", "server">>
      \/ x.cloudflare # y.cloudflare /\ f = <<"tech", "cloudflare">>
      \/ x.cms # y.cms /\ f = <<"tech", "cms">>
      \/ x.hops # y.hops /\ f = <<"http", "hops">>
      \/ \E k \in DnsKeys : (k \in x.dns) # (k \in y.dns) /\ f = <<"dns", k>>
<1>1. ASSUME NEW x, NEW y PROVE Told(InformationalDiff(x, y), f) <=> Moved(x, y)
  <2> DEFINE Simple(differs, field) == Changed(differs, field, "informational")
             tls == Simple(x.protocol # y.protocol, <<"tls", "protocol">>)
             headerScore == Simple(x.headerScore # y.headerScore, <<"headerScore", "score">>)
             verdictScore == Simple(x.verdictScore # y.verdictScore, <<"verdict", "score">>)
             server == Simple(x.server # y.server, <<"tech", "server">>)
             cloudflare == Simple(x.cloudflare # y.cloudflare, <<"tech", "cloudflare">>)
             cms == Simple(x.cms # y.cms, <<"tech", "cms">>)
             hops == Simple(x.hops # y.hops, <<"http", "hops">>)
             Row(k) == [field |-> <<"dns", k>>, materiality |-> "informational"]
             dns == {Row(k) : k \in {k \in DnsKeys : (k \in x.dns) # (k \in y.dns)}}
  <2>1. Told(tls, f) <=> x.protocol # y.protocol /\ f = <<"tls", "protocol">>
    BY ToldChange
  <2>2. Told(headerScore, f) <=> x.headerScore # y.headerScore /\ f = <<"headerScore", "score">>
    BY ToldChange
  <2>3. Told(verdictScore, f) <=> x.verdictScore # y.verdictScore /\ f = <<"verdict", "score">>
    BY ToldChange
  <2>4. Told(server, f) <=> x.server # y.server /\ f = <<"tech", "server">>
    BY ToldChange
  <2>5. Told(cloudflare, f) <=> x.cloudflare # y.cloudflare /\ f = <<"tech", "cloudflare">>
    BY ToldChange
  <2>6. Told(cms, f) <=> x.cms # y.cms /\ f = <<"tech", "cms">>
    BY ToldChange
  <2>7. Told(hops, f) <=> x.hops # y.hops /\ f = <<"http", "hops">>
    BY ToldChange
  <2>8. Told(dns, f) <=> \E k \in DnsKeys : (k \in x.dns) # (k \in y.dns) /\ f = <<"dns", k>>
    <3>1. \A k : Row(k).field = <<"dns", k>>
      OBVIOUS
    <3> HIDE DEF Row
    <3>2. QED  BY <3>1 DEF Told
  <2>9. InformationalDiff(x, y) = tls \cup headerScore \cup verdictScore \cup server
                                    \cup cloudflare \cup cms \cup hops \cup dns
    BY Zenon DEF InformationalDiff
  <2> HIDE DEF tls, headerScore, verdictScore, server, cloudflare, cms, hops, dns
  <2>10. Told(InformationalDiff(x, y), f) <=>
           \/ Told(tls, f) \/ Told(headerScore, f) \/ Told(verdictScore, f) \/ Told(server, f)
           \/ Told(cloudflare, f) \/ Told(cms, f) \/ Told(hops, f) \/ Told(dns, f)
    BY <2>9 DEF Told
  <2>11. QED  BY <2>1, <2>2, <2>3, <2>4, <2>5, <2>6, <2>7, <2>8, <2>10
<1>2. Moved(a, c) => Moved(a, b) \/ Moved(b, c)
  OBVIOUS
<1> HIDE DEF Moved
<1>3. QED  BY <1>1, <1>2

LEMMA FactsToldAs ==
  ASSUME NEW x, NEW y, NEW f
  PROVE  Told(FactDiff(x, y), f) <=> \/ \E k \in CameOrWent(x, y) : f = <<"fact", k>>
                                     \/ \E k \in Reclaimed(x, y) : f = <<"claims", k>>
<1> DEFINE Row(field, k) == FactChange(field, x, y, k)
           came == CameOrWent(x, y)
           kept == Reclaimed(x, y)
<1>1. FactDiff(x, y) = {Row("fact", k) : k \in came} \cup {Row("claims", k) : k \in kept}
  BY Zenon DEF FactDiff
<1>2. \A field, k : Row(field, k).field = <<field, k>>
  BY DEF FactChange
<1> HIDE DEF Row, came, kept
<1>3. Told(FactDiff(x, y), f) <=> \/ \E k \in came : f = <<"fact", k>>
                                  \/ \E k \in kept : f = <<"claims", k>>
  BY <1>1, <1>2 DEF Told
<1>4. QED  BY <1>3 DEF came, kept

(* The fact went in the first step and came back in the second. *)
GoneBetween(d, e, f) ==
  /\ f[1] = "claims"
  /\ Told(d, <<"fact", f[2]>>) /\ Told(e, <<"fact", f[2]>>)

LEMMA FactsTold ==
  ASSUME NEW r, NEW s, NEW t, NEW f, Told(FactDiff(r, t), f)
  PROVE  \/ Told(FactDiff(r, s), f) \/ Told(FactDiff(s, t), f)
         \/ GoneBetween(FactDiff(r, s), FactDiff(s, t), f)
<1>1. CASE \E k \in CameOrWent(r, t) : f = <<"fact", k>>
  <2>1. PICK k \in CameOrWent(r, t) : f = <<"fact", k>>
    BY <1>1
  <2>2. k \in CameOrWent(r, s) \/ k \in CameOrWent(s, t)
    BY DEF CameOrWent
  <2>3. QED  BY <2>1, <2>2, FactsToldAs
<1>2. CASE \E k \in Reclaimed(r, t) : f = <<"claims", k>>
  <2>1. PICK k \in Reclaimed(r, t) : f = <<"claims", k>>
    BY <1>2
  <2>2. CASE k \in DOMAIN s
    <3>1. k \in Reclaimed(r, s) \/ k \in Reclaimed(s, t)
      BY <2>2 DEF Reclaimed
    <3>2. QED  BY <2>1, <3>1, FactsToldAs
  <2>3. CASE k \notin DOMAIN s
    <3>1. k \in CameOrWent(r, s) /\ k \in CameOrWent(s, t)
      BY <2>3 DEF Reclaimed, CameOrWent
    <3>2. /\ Told(FactDiff(r, s), <<"fact", k>>)
          /\ Told(FactDiff(s, t), <<"fact", k>>)
      BY <3>1, FactsToldAs
    <3>3. f[1] = "claims" /\ f[2] = k
      BY <2>1
    <3>4. QED  BY <3>2, <3>3 DEF GoneBetween
  <2>4. QED  BY <2>2, <2>3
<1>3. QED  BY <1>1, <1>2, FactsToldAs

LEMMA CriticalsTold ==
  ASSUME NEW r, NEW s, NEW t, NEW f, Told(CriticalDiff(r, t), f)
  PROVE  Told(CriticalDiff(r, s), f) \/ Told(CriticalDiff(s, t), f)
<1>1. ASSUME NEW x, NEW y
      PROVE  Told(CriticalDiff(x, y), f) <=>
               \E k \in CriticalKeys(x) \cup CriticalKeys(y) :
                  /\ f = <<"critical", k>>
                  /\ ~(k \in CriticalKeys(x) /\ k \in CriticalKeys(y))
  <2> DEFINE Row(k, tier) == [field |-> <<"critical", k>>, materiality |-> tier]
             X == CriticalKeys(x)
             Y == CriticalKeys(y)
  <2>1. CriticalDiff(x, y) = {Row(k, "critical") : k \in Y \ X}
                               \cup {Row(k, "material") : k \in X \ Y}
    BY Zenon DEF CriticalDiff
  <2>2. \A k, tier : Row(k, tier).field = <<"critical", k>>
    OBVIOUS
  <2> HIDE DEF Row, X, Y
  <2>3. Told(CriticalDiff(x, y), f) <=> \/ \E k \in Y \ X : f = <<"critical", k>>
                                       \/ \E k \in X \ Y : f = <<"critical", k>>
    BY <2>1, <2>2 DEF Told
  <2>4. QED  BY <2>3 DEF X, Y
<1>2. QED  BY <1>1

LEMMA ContentTold ==
  ASSUME NEW a, NEW b, NEW c, NEW f, Told(ContentDiff(a, c), f),
         b.content = NoContent => NoContent \in {a.content, c.content}
  PROVE  \/ Told(ContentDiff(a, b), f) \/ Told(ContentDiff(b, c), f)
         \/ GoneBetween(ContentDiff(a, b), ContentDiff(b, c), f)
<1>1. ASSUME NEW x, NEW y, x.content = NoContent \/ y.content = NoContent
      PROVE  Told(ContentDiff(x, y), f)
               <=> x.content # y.content /\ f = <<"content", "presence">>
  BY <1>1, ToldChange DEF ContentDiff
<1>2. CASE a.content = NoContent \/ c.content = NoContent
  <2>1. a.content # c.content /\ f = <<"content", "presence">>
    BY <1>1, <1>2
  <2>2. \/ (a.content = NoContent \/ b.content = NoContent) /\ a.content # b.content
        \/ (b.content = NoContent \/ c.content = NoContent) /\ b.content # c.content
    BY <1>2, <2>1
  <2>3. QED  BY <1>1, <2>1, <2>2
<1>3. CASE a.content # NoContent /\ c.content # NoContent
  <2>1. b.content # NoContent
    BY <1>3
  <2>2. ASSUME NEW x, NEW y, NEW g, x.content # NoContent, y.content # NoContent
        PROVE  Told(ContentDiff(x, y), g) <=>
                 \/ x.content.status # y.content.status /\ g = <<"content", "status">>
                 \/ x.content.score # y.content.score /\ g = <<"content", "score">>
                 \/ Told(FactDiff(x.content.facts, y.content.facts), g)
                 \/ Told(CriticalDiff(x.content, y.content), g)
    <3> DEFINE status == Changed(x.content.status # y.content.status,
                                 <<"content", "status">>, "material")
    <3>1. Told(status, g)
            <=> x.content.status # y.content.status /\ g = <<"content", "status">>
      BY ToldChange
    <3>2. Told(ContentScoreDiff(x, y), g)
            <=> x.content.score # y.content.score /\ g = <<"content", "score">>
      <4> DEFINE tier == Tier(Delta(x.content.score, y.content.score) >= 15,
                              "material", "informational")
                 score == Changed(x.content.score # y.content.score,
                                  <<"content", "score">>, tier)
      <4>1. ContentScoreDiff(x, y) = score
        BY Zenon DEF ContentScoreDiff
      <4> HIDE DEF tier
      <4>2. Told(score, g) <=> x.content.score # y.content.score /\ g = <<"content", "score">>
        BY ToldChange
      <4> HIDE DEF score
      <4>3. QED  BY <4>1, <4>2
    <3>3. ContentDiff(x, y) = status \cup ContentScoreDiff(x, y)
                                \cup FactDiff(x.content.facts, y.content.facts)
                                \cup CriticalDiff(x.content, y.content)
      BY <2>2, Zenon DEF ContentDiff
    <3> HIDE DEF status
    <3>4. Told(ContentDiff(x, y), g) <=>
            \/ Told(status, g) \/ Told(ContentScoreDiff(x, y), g)
            \/ Told(FactDiff(x.content.facts, y.content.facts), g)
            \/ Told(CriticalDiff(x.content, y.content), g)
      BY <3>3 DEF Told
    <3>5. QED  BY <3>1, <3>2, <3>4
  <2>3. \/ a.content.status # c.content.status /\ f = <<"content", "status">>
        \/ a.content.score # c.content.score /\ f = <<"content", "score">>
        \/ Told(FactDiff(a.content.facts, c.content.facts), f)
        \/ Told(CriticalDiff(a.content, c.content), f)
    BY <1>3, <2>2
  <2>4. Told(FactDiff(a.content.facts, c.content.facts), f) =>
          \/ Told(FactDiff(a.content.facts, b.content.facts), f)
          \/ Told(FactDiff(b.content.facts, c.content.facts), f)
          \/ GoneBetween(FactDiff(a.content.facts, b.content.facts),
                         FactDiff(b.content.facts, c.content.facts), f)
    BY FactsTold
  <2>5. Told(CriticalDiff(a.content, c.content), f) =>
          \/ Told(CriticalDiff(a.content, b.content), f)
          \/ Told(CriticalDiff(b.content, c.content), f)
    BY CriticalsTold
  <2>6. GoneBetween(FactDiff(a.content.facts, b.content.facts),
                    FactDiff(b.content.facts, c.content.facts), f)
          => GoneBetween(ContentDiff(a, b), ContentDiff(b, c), f)
    BY <1>3, <2>1, <2>2 DEF GoneBetween
  <2>7. QED  BY <1>3, <2>1, <2>2, <2>3, <2>4, <2>5, <2>6
<1>4. QED  BY <1>2, <1>3

LEMMA StepsTell ==
  ASSUME NEW a, NEW b, NEW c,
         b.content = NoContent => NoContent \in {a.content, c.content},
         NEW f \in Fields(a, c)
  PROVE  \/ f \in Fields(a, b) \cup Fields(b, c)
         \/ f[1] = "claims" /\ <<"fact", f[2]>> \in Fields(a, b) \cap Fields(b, c)
<1>1. ASSUME NEW x, NEW y, NEW g
      PROVE  g \in Fields(x, y) <=> \/ Told(SecurityDiff(x, y), g)
                                    \/ Told(HeaderDiff(x, y), g)
                                    \/ Told(InformationalDiff(x, y), g)
                                    \/ Told(ContentDiff(x, y), g)
  BY DEF Fields, DiffSnapshots, Told
<1>2. CASE Told(SecurityDiff(a, c), f)
  BY <1>1, <1>2, SecurityTold
<1>3. CASE Told(HeaderDiff(a, c), f)
  BY <1>1, <1>3, HeadersTold
<1>4. CASE Told(InformationalDiff(a, c), f)
  BY <1>1, <1>4, InformationTold
<1>5. CASE Told(ContentDiff(a, c), f)
  <2>1. \/ Told(ContentDiff(a, b), f) \/ Told(ContentDiff(b, c), f)
        \/ GoneBetween(ContentDiff(a, b), ContentDiff(b, c), f)
    BY <1>5, ContentTold
  <2>2. QED  BY <1>1, <2>1 DEF GoneBetween
<1>6. QED  BY <1>1, <1>2, <1>3, <1>4, <1>5

(* A field that differs between the ends differs in one of the steps; the   *)
(* claims of a fact that was away in between are told as its going and its  *)
(* coming back (history.ts: content.facts.K and content.facts.K.claims).    *)
THEOREM StepsAlwaysTellAll == Spec => []StepsTellAll
<1>1. StepsTellAll
  BY StepsTell DEF StepsTellAll
<1>2. QED  BY <1>1, PTL
=============================================================================
