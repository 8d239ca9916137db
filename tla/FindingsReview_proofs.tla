------------------------ MODULE FindingsReview_proofs ------------------------
(***************************************************************************)
(* For every site, release of facts, crawl and order of the loader's        *)
(* statements and the scan's reads: what a content scan reads and finds,    *)
(* what the store holds after a load, and which rulings stand.              *)
(***************************************************************************)
EXTENDS FindingsReview, Totals_proofs, SequenceTheorems

(* Reviews take no step of the scan. *)
LEMMA ReviewedIsScanned == SpecF => Spec
<1>1. InitF => Init
  BY DEF InitF
<1>2. [NextF]_<<vars, reviewVars>> => [Next]_vars
  BY DEF NextF, vars, reviewVars, store, loader
<1>3. QED  BY <1>1, <1>2, PTL DEF SpecF, Spec
-----------------------------------------------------------------------------
(* What GET /findings shows of a key is among the rulings that may stand. *)
Shown(key) == IF key \in DOMAIN rulings THEN rulings[key] ELSE "pending"
ToldInv    == \A key \in DOMAIN told : Shown(key) \in told[key]

LEMMA ToldStep == ToldInv /\ [NextF]_<<vars, reviewVars>> => ToldInv'
<1> SUFFICES ASSUME ToldInv, [NextF]_<<vars, reviewVars>> PROVE ToldInv'
  OBVIOUS
<1>1. CASE UNCHANGED <<rulings, told>>
  BY <1>1 DEF ToldInv, Shown
<1>2. CASE \E r \in Reviewers : WriteRuling(r)
  <2>1. PICK r \in Reviewers : /\ rulings' = Put(rulings, Key(r), review[r].status)
                               /\ told' = Put(told, Key(r), {review[r].status})
    BY <1>2 DEF WriteRuling, Writes, Acknowledged
  <2>2. QED  BY <2>1 DEF ToldInv, Shown, Put
<1>3. CASE \E r \in Reviewers : Writes(r) /\ Doubtful(r)
  <2>1. PICK r \in Reviewers :
          /\ rulings' = Put(rulings, Key(r), review[r].status)
          /\ told' = Put(told, Key(r), {review[r].status} \cup
                       IF Key(r) \in DOMAIN told THEN told[Key(r)] ELSE {"pending"})
    BY <1>3 DEF Writes, Doubtful
  <2>2. QED  BY <2>1 DEF ToldInv, Shown, Put
<1>4. QED
  BY <1>1, <1>2, <1>3 DEF NextF, Reviewing, PostReview, SelectRow, InsertConflicts,
     ReviewFails, reviewVars

(* A ruling that was acknowledged stands until another of the same key is   *)
(* recorded or may have been, for any number of reviewers and every         *)
(* interleaving of their SELECT and INSERT or UPDATE (POST /findings/review). *)
THEOREM RulingsStand == SpecF => []RulingsKept
<1>1. InitF => ToldInv
  BY DEF InitF, ToldInv
<1>2. ToldInv => RulingsKept
  BY DEF ToldInv, Shown, RulingsKept, ReviewOf
<1>3. QED  BY <1>1, <1>2, ToldStep, PTL DEF SpecF
-----------------------------------------------------------------------------
(* The rows that releases load, and the tables they make. *)
Loaded(into) == UNION {{r[n].row : n \in {n \in DOMAIN r : r[n].into = into}} : r \in Releases}
FactRows     == Loaded("ground_truth")
PatternRows  == Loaded("fact_patterns")
Tables       == UNION {[K -> FactRows] : K \in SUBSET {row.key : row \in FactRows}}
Keyed(t)     == t \in Tables /\ IsFiniteSet(DOMAIN t) /\ \A k \in DOMAIN t : t[k].key = k

StoreInv  == Keyed(table) /\ patterns \subseteq PatternRows
LoaderInv == /\ release \in Releases \cup {<<>>} /\ executed \in 0 .. Len(release)
             /\ loading \in BOOLEAN /\ loads \in 0 .. MaxLoads

LEMMA ReleaseType ==
  ASSUME LoaderInv
  PROVE  release \in Seq(Range(release)) /\ Len(release) \in Nat
         /\ DOMAIN release = 1 .. Len(release)
<1>1. release \in Seq(Range(release))
  <2>1. CASE release \in Releases
    BY <2>1, ReleasesAssumption
  <2>2. CASE release = <<>>
    BY <2>2
  <2>3. QED  BY <2>1, <2>2 DEF LoaderInv
<1>2. QED  BY <1>1, LenProperties

LEMMA StatementLoaded ==
  ASSUME LoaderInv, MoreToLoad
  PROVE  /\ executed + 1 \in 1 .. Len(release)
         /\ release \in Releases
         /\ Statement.row \in Loaded(Statement.into)
<1>1. executed + 1 \in 1 .. Len(release)
  <2>1. PICK n \in Nat : n = Len(release)
    BY ReleaseType
  <2>2. QED  BY <2>1 DEF LoaderInv, MoreToLoad
<1>2. release # <<>>
  BY <1>1
<1>3. release \in Releases /\ executed + 1 \in DOMAIN release
  BY <1>1, <1>2, ReleaseType DEF LoaderInv
<1>4. QED  BY <1>1, <1>3 DEF Statement, Loaded

LEMMA UpsertKeyed ==
  ASSUME NEW t, Keyed(t), NEW row \in FactRows
  PROVE  Keyed(Upsert(t, row))
<1> DEFINE K == DOMAIN t \cup {row.key}
           u == Upsert(t, row)
<1>1. PICK J \in SUBSET {r.key : r \in FactRows} : t \in [J -> FactRows]
  BY DEF Keyed, Tables
<1>2. K \in SUBSET {r.key : r \in FactRows}
  BY <1>1
<1>3. u = [k \in K |-> IF k = row.key THEN row ELSE t[k]]
  BY DEF Upsert
<1>4. u \in [K -> FactRows]
  BY <1>1, <1>3
<1>5. IsFiniteSet(K)
  BY FS_AddElement DEF Keyed
<1>6. \A k \in K : u[k].key = k
  BY <1>3 DEF Keyed
<1> HIDE DEF K, u
<1>7. DOMAIN u = K
  BY <1>4
<1>8. QED  BY <1>2, <1>4, <1>5, <1>6, <1>7 DEF Keyed, Tables, u

LEMMA StoreStep ==
  ASSUME StoreInv, LoaderInv, [Next]_vars
  PROVE  StoreInv' /\ LoaderInv'
<1>1. CASE \E r \in Releases : StartLoad(r)
  <2>1. PICK r \in Releases : StartLoad(r)
    BY <1>1
  <2>2. Len(r) \in Nat
    BY ReleasesAssumption, LenProperties
  <2>3. QED  BY <2>1, <2>2, ContentAssumption DEF StartLoad, StoreInv, LoaderInv, store
<1>2. CASE LoadFact
  <2>1. Keyed(table') /\ patterns' = patterns
    BY <1>2, StatementLoaded, UpsertKeyed DEF LoadFact, StoreInv, FactRows
  <2>2. executed' \in 0 .. Len(release)
    BY <1>2, StatementLoaded DEF LoadFact, Executes, LoaderInv
  <2>3. QED  BY <1>2, <2>1, <2>2 DEF LoadFact, Executes, StoreInv, LoaderInv
<1>3. CASE LoadPattern
  <2>1. patterns' \subseteq PatternRows /\ table' = table
    BY <1>3, StatementLoaded DEF LoadPattern, StoreInv, PatternRows
  <2>2. executed' \in 0 .. Len(release)
    BY <1>3, StatementLoaded DEF LoadPattern, Executes, LoaderInv
  <2>3. QED  BY <1>3, <2>1, <2>2 DEF LoadPattern, Executes, StoreInv, LoaderInv
<1>4. CASE LoadEnds
  BY <1>4 DEF LoadEnds, StoreInv, LoaderInv, store
<1>5. CASE Scans \/ UNCHANGED vars
  BY <1>5 DEF Scans, ReadFacts, ReadSuperseded, ReadPatterns, StoreUnavailable,
     FetchTarget, FetchSitemap, FetchPage, ScanStep, vars, store, loader, StoreInv, LoaderInv
<1>6. QED  BY <1>1, <1>2, <1>3, <1>4, <1>5 DEF Next, Loads

LEMMA StoreInit == Init => StoreInv /\ LoaderInv
<1> SUFFICES ASSUME Init PROVE StoreInv /\ LoaderInv
  OBVIOUS
<1>1. table = <<>> /\ DOMAIN table = {}
  BY DEF Init
<1>2. table \in [{} -> FactRows]
  BY <1>1
<1>3. Keyed(table)
  BY <1>1, <1>2, FS_EmptySet DEF Keyed, Tables
<1>4. /\ release = <<>> /\ executed = 0 /\ loading = FALSE /\ loads = 0
      /\ patterns = {} /\ Len(<<>>) = 0
  BY DEF Init
<1>5. executed \in 0 .. Len(release) /\ loads \in 0 .. MaxLoads
  BY <1>4, ContentAssumption
<1>6. QED  BY <1>3, <1>4, <1>5 DEF StoreInv, LoaderInv
-----------------------------------------------------------------------------
(* What has been executed of the running load, or of the last one, is in    *)
(* the store, but for rows that it replaced itself.                         *)
Converged ==
  /\ \A n \in Executed("ground_truth") :
       (\A m \in Executed("ground_truth") : m > n => release[m].row.key # release[n].row.key)
       => /\ release[n].row.key \in DOMAIN table
          /\ table[release[n].row.key] = release[n].row
  /\ {release[n].row : n \in Executed("fact_patterns")} \subseteq patterns

LEMMA ConvergedStep ==
  ASSUME StoreInv, LoaderInv, Converged, [Next]_vars
  PROVE  Converged'
<1>1. CASE \E r \in Releases : StartLoad(r)
  <2>1. executed' = 0
    BY <1>1 DEF StartLoad
  <2>2. Executed("ground_truth")' = {} /\ Executed("fact_patterns")' = {}
    BY <2>1 DEF Executed
  <2>3. QED  BY <2>2 DEF Converged
<1>2. CASE LoadFact \/ LoadPattern
  <2> DEFINE e == executed + 1
  <2>1. /\ executed \in Nat /\ executed' = e /\ release' = release
        /\ Statement = release[e] /\ Statement.into \in {"ground_truth", "fact_patterns"}
    BY <1>2 DEF LoadFact, LoadPattern, Executes, LoaderInv, Statement
  <2>2. 1 .. e = (1 .. executed) \cup {e}
    BY <2>1
  <2> HIDE DEF e
  <2>3. ASSUME NEW into
        PROVE  Executed(into)' = Executed(into)
                 \cup (IF release[e].into = into THEN {e} ELSE {})
    BY <2>1, <2>2 DEF Executed
  <2>4. \A n \in 1 .. executed : e > n
    BY <2>1 DEF e
  <2>5. CASE LoadFact
    <3>1. /\ Executed("ground_truth")' = Executed("ground_truth") \cup {e}
          /\ Executed("fact_patterns")' = Executed("fact_patterns")
          /\ table' = Upsert(table, release[e].row) /\ patterns' = patterns
      BY <2>1, <2>3, <2>5 DEF LoadFact
    <3>2. ASSUME NEW n \in Executed("ground_truth")',
                 \A m \in Executed("ground_truth")' :
                    m > n => release[m].row.key # release[n].row.key
          PROVE  /\ release[n].row.key \in DOMAIN table'
                 /\ table'[release[n].row.key] = release[n].row
      <4>1. CASE n = e
        BY <3>1, <4>1 DEF Upsert
      <4>2. CASE n # e
        <5>1. n \in Executed("ground_truth")
          BY <3>1, <3>2, <4>2
        <5>2. release[e].row.key # release[n].row.key
          BY <2>4, <3>1, <3>2, <5>1 DEF Executed
        <5>3. /\ release[n].row.key \in DOMAIN table
              /\ table[release[n].row.key] = release[n].row
          BY <3>1, <3>2, <5>1 DEF Converged
        <5>4. QED  BY <3>1, <5>2, <5>3 DEF Upsert
      <4>3. QED  BY <4>1, <4>2
    <3>3. {release'[n].row : n \in Executed("fact_patterns")'} \subseteq patterns'
      BY <2>1, <3>1 DEF Converged
    <3>4. QED  BY <2>1, <3>2, <3>3 DEF Converged
  <2>6. CASE LoadPattern
    <3>1. /\ Executed("ground_truth")' = Executed("ground_truth")
          /\ Executed("fact_patterns")' = Executed("fact_patterns") \cup {e}
          /\ table' = table /\ patterns' = patterns \cup {release[e].row}
      BY <2>1, <2>3, <2>6 DEF LoadPattern
    <3>2. QED  BY <2>1, <3>1 DEF Converged
  <2>7. QED  BY <1>2, <2>5, <2>6
<1>3. CASE LoadEnds \/ Scans \/ UNCHANGED vars
  BY <1>3 DEF LoadEnds, Scans, ReadFacts, ReadSuperseded, ReadPatterns, StoreUnavailable,
     FetchTarget, FetchSitemap, FetchPage, ScanStep, vars, store, loader, Converged, Executed
<1>4. QED  BY <1>1, <1>2, <1>3 DEF Next, Loads

(* Loading converges: a load that ran to its end leaves the last row of     *)
(* every fact and every pattern of its file, however many loads were cut    *)
(* off before it and wherever (scripts/load-ground-truth.ts).               *)
THEOREM LoadsConverge == Spec => []LoadConverges
<1>1. Init => Converged
  BY DEF Init, Converged, Executed
<1>2. Converged => LoadConverges
  BY DEF Converged, LoadConverges
<1>3. QED  BY <1>1, <1>2, StoreInit, StoreStep, ConvergedStep, PTL DEF Spec
-----------------------------------------------------------------------------
(* OnHost folds its list of URLs: g is the function by which it does.       *)
Step(kept, u, host) == IF u.host # host \/ Contains(kept, u) THEN kept ELSE Append(kept, u)
Folds(g, S, urls, host) ==
  g = [s \in SUBSET S |-> IF s = {} THEN <<>>
                          ELSE Step(g[s \ {Max(s)}], urls[Max(s)], host)]

Numbers(S) == S \subseteq Int

LEMMA FoldsAgree ==
  ASSUME NEW A, NEW B, NEW urls, NEW host, NEW g, NEW h,
         Folds(g, A, urls, host), Folds(h, B, urls, host),
         NEW S, IsFiniteSet(S), Numbers(S), S \subseteq A, S \subseteq B
  PROVE  g[S] = h[S]
<1> DEFINE C == {T \in SUBSET S : g[T] # h[T]}
<1>1. SUFFICES ASSUME S \in C PROVE FALSE
  BY DEF C
<1>2. PICK T \in C : \A U \in C : U \subseteq T => U = T
  <2>1. C # {} /\ C \subseteq SUBSET S
    BY <1>1
  <2> HIDE DEF C
  <2>2. QED  BY <2>1, MinimalSet
<1>3. T # {}
  BY DEF Folds
<1>4. Max(T) \in T
  <2>1. IsFiniteSet(T) /\ T \subseteq Int
    BY FS_Subset DEF Numbers
  <2>2. QED  BY <1>3, <2>1, MaxOf
<1> DEFINE x == Max(T)
<1> HIDE DEF x
<1>5. g[T \ {x}] = h[T \ {x}]
  BY <1>2, <1>4 DEF x
<1>6. /\ g[T] = Step(g[T \ {x}], urls[x], host)
      /\ h[T] = Step(h[T \ {x}], urls[x], host)
  BY <1>3 DEF Folds, x
<1>7. QED  BY <1>5, <1>6

LEMMA FoldExists ==
  ASSUME NEW S, IsFiniteSet(S), Numbers(S), NEW urls, NEW host
  PROVE  \E g : Folds(g, S, urls, host)
<1> DEFINE C == {T \in SUBSET S : ~\E g : Folds(g, T, urls, host)}
           V(U) == (CHOOSE g : Folds(g, U, urls, host))[U]
<1>1. SUFFICES ASSUME S \in C PROVE FALSE
  BY DEF C
<1>2. PICK T \in C : \A U \in C : U \subseteq T => U = T
  <2>1. C # {} /\ C \subseteq SUBSET S
    BY <1>1
  <2> HIDE DEF C
  <2>2. QED  BY <2>1, MinimalSet
<1>3. \A U \in SUBSET T : U # T => \E g : Folds(g, U, urls, host) /\ V(U) = g[U]
  <2> TAKE U \in SUBSET T
  <2> HAVE U # T
  <2>1. \E g : Folds(g, U, urls, host)
    BY <1>2
  <2> DEFINE g == CHOOSE g : Folds(g, U, urls, host)
  <2>2. Folds(g, U, urls, host)
    BY <2>1, Zenon
  <2>3. V(U) = g[U]
    BY Zenon
  <2>4. QED  BY <2>2, <2>3
<1> HIDE DEF V
<1>4. \A U \in SUBSET T : U # {} => Max(U) \in U
  <2> TAKE U \in SUBSET T
  <2> HAVE U # {}
  <2>1. IsFiniteSet(U) /\ U \subseteq Int
    BY FS_Subset DEF Numbers
  <2>2. QED  BY <2>1, MaxOf
<1> DEFINE next(s, v) == IF s = {} THEN <<>> ELSE Step(v, urls[Max(s)], host)
           h == [s \in SUBSET T |-> next(s, V(s \ {Max(s)}))]
<1>5. \A U \in SUBSET T : U # T => h[U] = V(U)
  <2> TAKE U \in SUBSET T
  <2> HAVE U # T
  <2>1. PICK g : Folds(g, U, urls, host) /\ V(U) = g[U]
    BY <1>3
  <2>2. CASE U = {}
    BY <2>1, <2>2 DEF Folds
  <2>3. CASE U # {}
    <3> DEFINE W == U \ {Max(U)}
    <3>1. W \in SUBSET T /\ W # T /\ W \subseteq U
      BY <1>4, <2>3
    <3>2. PICK k : Folds(k, W, urls, host) /\ V(W) = k[W]
      BY <1>3, <3>1
    <3>3. IsFiniteSet(W) /\ Numbers(W)
      BY <1>2, <3>1, FS_Subset DEF Numbers
    <3>4. k[W] = g[W]
      <4>1. W \subseteq U
        BY <3>1
      <4> HIDE DEF W
      <4>2. QED  BY <2>1, <3>2, <3>3, <4>1, FoldsAgree
    <3>5. g[U] = Step(g[W], urls[Max(U)], host)
      BY <2>1, <2>3 DEF Folds
    <3>6. h[U] = Step(V(W), urls[Max(U)], host)
      BY <2>3
    <3> HIDE DEF W, h
    <3>7. QED  BY <2>1, <3>2, <3>4, <3>5, <3>6
  <2>4. QED  BY <2>2, <2>3
<1>6. \A s \in SUBSET T : s # {} => V(s \ {Max(s)}) = h[s \ {Max(s)}]
  <2> TAKE s \in SUBSET T
  <2> HAVE s # {}
  <2>1. s \ {Max(s)} \in SUBSET T /\ s \ {Max(s)} # T
    BY <1>4
  <2> HIDE DEF h
  <2>2. QED  BY <1>5, <2>1
<1>7. \A s \in SUBSET T : next(s, V(s \ {Max(s)})) = next(s, h[s \ {Max(s)}])
  <2> HIDE DEF h
  <2>1. QED  BY <1>6
<1>8. h = [s \in SUBSET T |-> next(s, h[s \ {Max(s)}])]
  <2> DEFINE k == [s \in SUBSET T |-> next(s, h[s \ {Max(s)}])]
  <2>1. \A s \in SUBSET T : h[s] = next(s, V(s \ {Max(s)}))
    BY Zenon
  <2>2. \A s \in SUBSET T : k[s] = next(s, h[s \ {Max(s)}])
    BY Zenon
  <2>3. /\ h = [s \in DOMAIN h |-> h[s]] /\ DOMAIN h = SUBSET T
        /\ k = [s \in DOMAIN k |-> k[s]] /\ DOMAIN k = SUBSET T
    BY Zenon
  <2> HIDE DEF h, k, next
  <2>4. \A s \in SUBSET T : h[s] = k[s]
    BY <1>7, <2>1, <2>2
  <2>5. h = k
    BY <2>3, <2>4
  <2>6. QED  BY <2>5 DEF k
<1>9. Folds(h, T, urls, host)
  <2> HIDE DEF h
  <2>1. QED  BY <1>8 DEF Folds
<1>10. QED  BY <1>2, <1>9

LEMMA FoldType ==
  ASSUME NEW U, NEW urls \in Seq(U), NEW host, NEW g,
         Folds(g, DOMAIN urls, urls, host), IsFiniteSet(DOMAIN urls)
  PROVE  g[DOMAIN urls] \in Seq(U)
<1> DEFINE D == DOMAIN urls
           C == {T \in SUBSET D : g[T] \notin Seq(U)}
<1>1. SUFFICES ASSUME D \in C PROVE FALSE
  BY DEF C
<1>2. PICK T \in C : \A W \in C : W \subseteq T => W = T
  <2>1. C # {} /\ C \subseteq SUBSET D
    BY <1>1
  <2> HIDE DEF C, D
  <2>2. QED  BY <2>1, MinimalSet DEF D
<1>3. T # {}
  BY DEF Folds
<1>4. Max(T) \in T
  <2>1. IsFiniteSet(T) /\ T \subseteq Int
    BY FS_Subset, LenProperties
  <2>2. QED  BY <1>3, <2>1, MaxOf
<1> DEFINE x == Max(T)
<1> HIDE DEF x
<1>5. g[T \ {x}] \in Seq(U)
  BY <1>2, <1>4 DEF x
<1>6. urls[x] \in U
  BY <1>4, ElementOfSeq, LenProperties DEF x
<1>7. g[T] = Step(g[T \ {x}], urls[x], host)
  BY <1>3 DEF Folds, x
<1>8. Append(g[T \ {x}], urls[x]) \in Seq(U)
  BY <1>5, <1>6, AppendProperties
<1>9. QED  BY <1>5, <1>7, <1>8 DEF Step

(* What OnHost keeps is among what it was given. *)
LEMMA OnHostType ==
  ASSUME NEW U, NEW urls \in Seq(U), NEW host
  PROVE  OnHost(urls, host) \in Seq(U)
<1> DEFINE D == DOMAIN urls
<1>1. IsFiniteSet(D) /\ Numbers(D)
  BY FS_Interval, LenProperties DEF Numbers
<1> DEFINE g == CHOOSE g : Folds(g, D, urls, host)
<1>2. Folds(g, D, urls, host)
  <2>1. \E k : Folds(k, D, urls, host)
    <3> HIDE DEF D
    <3>1. QED  BY <1>1, FoldExists
  <2>2. QED  BY <2>1, Zenon
<1>3. OnHost(urls, host) = g[D]
  BY Zenon DEF OnHost, FoldLeft, MapThenFoldSet, Folds, Step
<1> HIDE DEF g
<1>4. QED  BY <1>1, <1>2, <1>3, FoldType
-----------------------------------------------------------------------------
(* Where redirects lead: f is the trail of n hops from u. *)
Hop(answers, v)        == IF answers[v].kind = "redirect" THEN answers[v].to ELSE v
Hops(f, N, answers, u) == f = [n \in 0 .. N |-> IF n = 0 THEN u ELSE Hop(answers, f[n - 1])]

LEMMA LeastOf ==
  ASSUME NEW S, IsFiniteSet(S), Numbers(S), S # {}
  PROVE  \E n \in S : \A k \in S : n <= k
<1>1. S \subseteq Int
  BY DEF Numbers
<1>2. QED  BY <1>1, MinOf

LEMMA HopsExist ==
  ASSUME NEW N \in Nat, NEW answers, NEW u
  PROVE  \E f : Hops(f, N, answers, u)
<1> DEFINE B == {n \in 0 .. N : ~\E f : Hops(f, n, answers, u)}
<1>1. SUFFICES ASSUME B # {} PROVE FALSE
  BY DEF B
<1>2. IsFiniteSet(B) /\ Numbers(B)
  <2>1. 0 \in Int /\ N \in Int
    OBVIOUS
  <2>2. IsFiniteSet(0 .. N)
    BY <2>1, FS_Interval, Zenon
  <2>3. B \in SUBSET (0 .. N)
    OBVIOUS
  <2>4. IsFiniteSet(B)
    BY <2>2, <2>3, FS_Subset, Zenon
  <2>5. Numbers(B)
    BY DEF Numbers
  <2>6. QED  BY <2>4, <2>5
<1>3. PICK n \in B : \A k \in B : n <= k
  <2> HIDE DEF B
  <2>1. QED  BY <1>1, <1>2, LeastOf, Zenon
<1>4. n \in Nat /\ n <= N
  OBVIOUS
<1>5. CASE n = 0
  <2> DEFINE f == [i \in 0 .. 0 |-> u]
  <2>1. Hops(f, 0, answers, u)
    BY DEF Hops
  <2>2. QED  BY <1>3, <1>5, <2>1
<1>6. CASE n # 0
  <2>1. n - 1 \in 0 .. N /\ ~(n <= n - 1)
    BY <1>4, <1>6
  <2>2. PICK g : Hops(g, n - 1, answers, u)
    BY <1>3, <2>1
  <2> DEFINE f == [i \in 0 .. n |-> IF i = n THEN Hop(answers, g[n - 1]) ELSE g[i]]
             v(h, i) == IF i = 0 THEN u ELSE Hop(answers, h[i - 1])
  <2>3. \A i \in 0 .. n - 1 : g[i] = v(g, i)
    BY <2>2 DEF Hops
  <2>4. \A i \in 0 .. n - 1 : f[i] = g[i] /\ i # n
    BY <1>4
  <2>5. \A i \in 0 .. n : f[i] = v(f, i)
    <3> TAKE i \in 0 .. n
    <3>1. CASE i = n
      <4>1. n - 1 \in 0 .. n - 1 /\ f[n] = Hop(answers, g[n - 1])
        BY <1>4, <1>6
      <4>2. f[n - 1] = g[n - 1]
        BY <2>4, <4>1
      <4> HIDE DEF f
      <4>3. QED  BY <1>6, <3>1, <4>1, <4>2
    <3>2. CASE i # n
      <4>1. i \in 0 .. n - 1 /\ (i # 0 => i - 1 \in 0 .. n - 1)
        BY <1>4, <3>2
      <4>2. f[i] = g[i] /\ (i # 0 => f[i - 1] = g[i - 1])
        BY <2>4, <4>1
      <4> HIDE DEF f
      <4>3. QED  BY <2>3, <4>1, <4>2
    <3>3. QED  BY <3>1, <3>2
  <2>6. f = [i \in 0 .. n |-> f[i]]
    BY Zenon
  <2> HIDE DEF f
  <2>7. f = [i \in 0 .. n |-> v(f, i)]
    BY <2>5, <2>6
  <2>8. Hops(f, n, answers, u)
    BY <2>7 DEF Hops
  <2>9. QED  BY <1>3, <2>8
<1>7. QED  BY <1>5, <1>6

LEMMA HopsType ==
  ASSUME NEW answers, \A w \in DOMAIN answers : answers[w].to \in DOMAIN answers,
         NEW u \in DOMAIN answers, NEW N \in Nat, NEW f, Hops(f, N, answers, u),
         NEW m \in 0 .. N
  PROVE  f[m] \in DOMAIN answers
<1> DEFINE B == {n \in 0 .. N : f[n] \notin DOMAIN answers}
<1>1. SUFFICES ASSUME B # {} PROVE FALSE
  BY DEF B
<1>2. IsFiniteSet(B) /\ Numbers(B)
  <2>1. 0 \in Int /\ N \in Int
    OBVIOUS
  <2>2. IsFiniteSet(0 .. N)
    BY <2>1, FS_Interval, Zenon
  <2>3. B \in SUBSET (0 .. N)
    OBVIOUS
  <2>4. IsFiniteSet(B)
    BY <2>2, <2>3, FS_Subset, Zenon
  <2>5. Numbers(B)
    BY DEF Numbers
  <2>6. QED  BY <2>4, <2>5
<1>3. PICK n \in B : \A k \in B : n <= k
  <2> HIDE DEF B
  <2>1. QED  BY <1>1, <1>2, LeastOf, Zenon
<1>4. n \in 0 .. N /\ f[n] = IF n = 0 THEN u ELSE Hop(answers, f[n - 1])
  BY DEF Hops
<1>5. n # 0
  BY <1>3, <1>4
<1>6. n - 1 \in 0 .. N /\ ~(n <= n - 1)
  BY <1>4, <1>5
<1>7. f[n - 1] \in DOMAIN answers
  BY <1>3, <1>6
<1>8. Hop(answers, f[n - 1]) \in DOMAIN answers
  BY <1>7 DEF Hop
<1>9. QED  BY <1>3, <1>4, <1>5, <1>8

LEMMA TrailType ==
  ASSUME NEW s \in Sites, NEW u \in DOMAIN s.answers, NEW n \in 0 .. MaxRedirects + 1
  PROVE  Trail(s.answers, u)[n] \in DOMAIN s.answers
<1>1. MaxRedirects + 1 \in Nat
  BY ContentAssumption
<1> DEFINE N == MaxRedirects + 1
           f == CHOOSE f : Hops(f, N, s.answers, u)
<1>2. Trail(s.answers, u) = f
  BY Zenon DEF Trail, Hops, Hop
<1>3. Hops(f, N, s.answers, u)
  <2>1. \E g : Hops(g, N, s.answers, u)
    BY <1>1, HopsExist
  <2>2. QED  BY <2>1, Zenon
<1>4. \A w \in DOMAIN s.answers : s.answers[w].to \in DOMAIN s.answers
  BY SitesAssumption
<1> HIDE DEF f, N
<1>5. N \in Nat /\ n \in 0 .. N
  BY <1>1 DEF N
<1>6. QED  BY <1>2, <1>3, <1>4, <1>5, HopsType

(* The pages that a crawl of the site can hold. *)
PagesOf(s) == {Unread(u) : u \in DOMAIN s.answers}
                \cup {Read(u, s.answers[u]) : u \in DOMAIN s.answers}

LEMMA FetchedPage ==
  ASSUME NEW s \in Sites, NEW u \in DOMAIN s.answers
  PROVE  FetchResults(s.answers, u) \subseteq PagesOf(s)
<1>1. /\ MaxRedirects \in 0 .. MaxRedirects + 1
      /\ MaxRedirects + 1 \in 0 .. MaxRedirects + 1
      /\ 0 .. MaxRedirects \subseteq 0 .. MaxRedirects + 1
  BY ContentAssumption
<1>2. /\ Trail(s.answers, u)[MaxRedirects] \in DOMAIN s.answers
      /\ Trail(s.answers, u)[MaxRedirects + 1] \in DOMAIN s.answers
  BY <1>1, TrailType
<1>3. Fetched(s.answers, u) \in PagesOf(s)
  BY <1>2 DEF Fetched, PagesOf
<1>4. \A n \in 0 .. MaxRedirects : Unread(Trail(s.answers, u)[n]) \in PagesOf(s)
  BY <1>1, TrailType DEF PagesOf
<1>5. QED  BY <1>3, <1>4 DEF FetchResults

LEMMA PageType ==
  ASSUME NEW s \in Sites, NEW page \in PagesOf(s)
  PROVE  /\ page.url \in DOMAIN s.answers /\ page.links \in Seq(DOMAIN s.answers)
         /\ page.ok => page.says = s.answers[page.url].says
         /\ ~page.ok => page.says = {}
<1>1. CASE \E u \in DOMAIN s.answers : page = Unread(u)
  BY <1>1 DEF Unread
<1>2. CASE \E u \in DOMAIN s.answers : page = Read(u, s.answers[u])
  <2>1. PICK u \in DOMAIN s.answers : page = Read(u, s.answers[u])
    BY <1>2
  <2>2. s.answers[u].links \in Seq(DOMAIN s.answers)
    BY SitesAssumption
  <2>3. QED  BY <2>1, <2>2 DEF Read
<1>3. QED  BY <1>1, <1>2 DEF PagesOf

LEMMA PrefixType ==
  ASSUME NEW U, NEW s \in Seq(U), NEW m \in Nat, m <= Len(s)
  PROVE  SubSeq(s, 1, m) \in Seq(U) /\ Len(SubSeq(s, 1, m)) = m
<1>1. PICK n \in Nat : n = Len(s) /\ DOMAIN s = 1 .. n
  BY LenProperties
<1>2. \A i \in 1 .. m : s[i] \in U
  BY <1>1, ElementOfSeq
<1>3. 1 \in Int /\ m \in Int /\ (m >= 1 \/ m = 0)
  OBVIOUS
<1>4. /\ SubSeq(s, 1, m) \in Seq(U)
      /\ Len(SubSeq(s, 1, m)) = IF 1 <= m THEN m - 1 + 1 ELSE 0
  BY ONLY <1>2, <1>3, SubSeqProperties, SMTT(20)
<1>5. QED  BY <1>3, <1>4

(* The pages planned are URLs of the site, one fewer than the limit.        *)
LEMMA PlannedType ==
  ASSUME NEW s \in Sites, NEW target \in PagesOf(s),
         NEW locs \in Seq(DOMAIN s.answers)
  PROVE  /\ Planned(target, locs) \in Seq(DOMAIN s.answers)
         /\ Len(Planned(target, locs)) \in Nat
         /\ Len(Planned(target, locs)) <= MaxPages - 1
<1> DEFINE U == DOMAIN s.answers
           found == Discovered(target, locs)
           m == Min({Len(found), MaxPages - 1})
<1>1. found \in Seq(U)
  <2>1. (IF locs # <<>> THEN locs ELSE target.links) \in Seq(U)
    BY PageType
  <2>2. QED  BY <2>1, OnHostType DEF Discovered
<1>2. Len(found) \in Int /\ Len(found) \in Nat /\ MaxPages - 1 \in Int /\ MaxPages - 1 \in Nat
  BY <1>1, ContentAssumption, LenProperties
<1>3. m \in {Len(found), MaxPages - 1} /\ m <= Len(found) /\ m <= MaxPages - 1
  BY <1>2, LesserOfTwo, Zenon
<1>4. Planned(target, locs) = SubSeq(found, 1, m)
  BY Zenon DEF Planned
<1> HIDE DEF found, m
<1>5. m \in Nat /\ m <= Len(found) /\ m <= MaxPages - 1
  BY <1>2, <1>3
<1>6. SubSeq(found, 1, m) \in Seq(U) /\ Len(SubSeq(found, 1, m)) = m
  <2> HIDE DEF U
  <2>1. QED  BY <1>1, <1>5, PrefixType, Zenon
<1>7. QED  BY <1>4, <1>5, <1>6
-----------------------------------------------------------------------------
(* What a scan has read so far, wherever it is. *)
Unfetched == {"idle", "superseded", "patterns", "target", "skipped"}
ScanInv ==
  /\ site \in Sites
  /\ scan \in [pc : Steps, facts : Tables, superseded : SUBSET FactRows,
               patterns : SUBSET PatternRows, pages : Seq(PagesOf(site)),
               awaiting : SUBSET Nat]
  /\ Keyed(scan.facts)
  /\ scan.awaiting \subseteq DOMAIN scan.pages
  /\ Len(scan.pages) <= MaxPages
  /\ scan.pc = "rest" <=> scan.awaiting # {}
  /\ scan.pc \in Unfetched => scan.pages = <<>>
  /\ scan.pc = "sitemap" => Len(scan.pages) = 1

LEMMA ActiveKeyed ==
  ASSUME NEW t, Keyed(t)
  PROVE  Keyed(Active(t, Today))
<1> DEFINE K == {k \in DOMAIN t : t[k].from <= Today /\ Today < t[k].until}
           u == Active(t, Today)
<1>1. PICK J \in SUBSET {r.key : r \in FactRows} : t \in [J -> FactRows]
  BY DEF Keyed, Tables
<1>2. u = [k \in K |-> t[k]]
  BY DEF Active, Restrict
<1>3. K \in SUBSET DOMAIN t /\ DOMAIN t = J
  BY <1>1
<1>4. IsFiniteSet(K)
  BY <1>3, FS_Subset DEF Keyed
<1> HIDE DEF K, u
<1>5. u \in [K -> FactRows]
  BY <1>1, <1>2, <1>3
<1>6. DOMAIN u = K /\ K \in SUBSET {r.key : r \in FactRows}
  BY <1>1, <1>2, <1>3
<1>7. \A k \in K : u[k].key = k
  BY <1>2, <1>3 DEF Keyed
<1>8. QED  BY <1>4, <1>5, <1>6, <1>7 DEF Keyed, Tables, u

LEMMA SupersededRows ==
  ASSUME NEW t, Keyed(t)
  PROVE  Superseded(t, Today) \in SUBSET FactRows
<1>1. PICK J \in SUBSET {r.key : r \in FactRows} : t \in [J -> FactRows]
  BY DEF Keyed, Tables
<1>2. QED  BY <1>1 DEF Superseded, Range

(* The planned pages, before any of them is fetched. *)
LEMMA UnreadPages ==
  ASSUME NEW s \in Sites, NEW p \in Seq(DOMAIN s.answers)
  PROVE  /\ [i \in DOMAIN p |-> Unread(p[i])] \in Seq(PagesOf(s))
         /\ Len([i \in DOMAIN p |-> Unread(p[i])]) = Len(p)
<1>1. PICK n \in Nat : n = Len(p) /\ DOMAIN p = 1 .. n
  BY LenProperties
<1>2. \A i \in 1 .. n : Unread(p[i]) \in PagesOf(s)
  BY <1>1, ElementOfSeq DEF PagesOf
<1> DEFINE f == [i \in 1 .. n |-> Unread(p[i])]
<1>3. f \in [1 .. n -> PagesOf(s)]
  BY <1>2
<1> HIDE DEF f
<1>4. f \in Seq(PagesOf(s)) /\ Len(f) = n
  BY <1>3
<1>5. QED  BY <1>1, <1>4 DEF f

LEMMA ScanInit == Init => ScanInv
<1> SUFFICES ASSUME Init PROVE ScanInv
  OBVIOUS
<1>1. <<>> \in [{} -> FactRows] /\ DOMAIN <<>> = {}
  OBVIOUS
<1>2. Keyed(<<>>) /\ <<>> \in Tables
  BY <1>1, FS_EmptySet DEF Keyed, Tables
<1>3. <<>> \in Seq(PagesOf(site)) /\ Len(<<>>) = 0
  BY EmptySeq
<1>4. scan = [pc |-> "idle", facts |-> <<>>, superseded |-> {}, patterns |-> {},
              pages |-> <<>>, awaiting |-> {}] /\ site \in Sites
  BY DEF Init
<1>5. scan \in [pc : Steps, facts : Tables, superseded : SUBSET FactRows,
               patterns : SUBSET PatternRows, pages : Seq(PagesOf(site)),
               awaiting : SUBSET Nat]
  BY <1>2, <1>3, <1>4 DEF Steps
<1>6. QED  BY <1>2, <1>3, <1>4, <1>5, ContentAssumption DEF ScanInv

LEMMA ReadStep ==
  ASSUME ScanInv, StoreInv, ReadFacts \/ ReadSuperseded \/ ReadPatterns \/ StoreUnavailable
  PROVE  ScanInv'
<1>1. site' = site
  BY DEF ReadFacts, ReadSuperseded, ReadPatterns, StoreUnavailable, ScanStep
<1>2. CASE ReadFacts
  <2>1. Keyed(Active(table, Today))
    BY ActiveKeyed DEF StoreInv
  <2>2. Active(table, Today) \in Tables
    BY <2>1 DEF Keyed
  <2> DEFINE facts == Active(table, Today)
  <2>3. scan.pc = "idle" /\ scan' = [scan EXCEPT !.pc = "superseded", !.facts = facts]
    BY <1>2 DEF ReadFacts, ScanStep
  <2> HIDE DEF facts
  <2>4. Keyed(facts) /\ facts \in Tables
    BY <2>1, <2>2 DEF facts
  <2>5. Keyed(scan'.facts)
    BY <2>3, <2>4 DEF ScanInv
  <2>6. QED  BY <1>1, <2>3, <2>4, <2>5 DEF ScanInv, Steps, Unfetched
<1>3. CASE ReadSuperseded
  <2>1. Superseded(table, Today) \in SUBSET FactRows
    BY SupersededRows DEF StoreInv
  <2> DEFINE rows == Superseded(table, Today)
  <2>2. scan.pc = "superseded" /\ scan' = [scan EXCEPT !.pc = "patterns", !.superseded = rows]
    BY <1>3 DEF ReadSuperseded, ScanStep
  <2> HIDE DEF rows
  <2>3. rows \in SUBSET FactRows
    BY <2>1 DEF rows
  <2>4. scan'.facts = scan.facts
    BY <2>2 DEF ScanInv
  <2>5. Keyed(scan'.facts)
    BY <2>4 DEF ScanInv
  <2>6. QED  BY <1>1, <2>2, <2>3, <2>5 DEF ScanInv, Steps, Unfetched
<1>4. CASE ReadPatterns
  <2>1. PatternsFor(patterns, DOMAIN scan.facts) \in SUBSET PatternRows
    BY DEF PatternsFor, StoreInv
  <2> DEFINE rows == PatternsFor(patterns, DOMAIN scan.facts)
  <2>2. scan.pc = "patterns" /\ scan' = [scan EXCEPT !.pc = "target", !.patterns = rows]
    BY <1>4 DEF ReadPatterns, ScanStep
  <2> HIDE DEF rows
  <2>3. rows \in SUBSET PatternRows
    BY <2>1 DEF rows
  <2>4. scan'.facts = scan.facts
    BY <2>2 DEF ScanInv
  <2>5. Keyed(scan'.facts)
    BY <2>4 DEF ScanInv
  <2>6. QED  BY <1>1, <2>2, <2>3, <2>5 DEF ScanInv, Steps, Unfetched
<1>5. CASE StoreUnavailable
  <2>1. scan.pc \in {"idle", "superseded", "patterns"} /\ scan' = [scan EXCEPT !.pc = "skipped"]
    BY <1>5 DEF StoreUnavailable, ScanStep
  <2>2. scan'.facts = scan.facts
    BY <2>1 DEF ScanInv
  <2>3. Keyed(scan'.facts)
    BY <2>2 DEF ScanInv
  <2>4. QED  BY <1>1, <2>1, <2>3 DEF ScanInv, Steps, Unfetched
<1>6. QED  BY <1>2, <1>3, <1>4, <1>5

LEMMA TargetStep ==
  ASSUME ScanInv, FetchTarget
  PROVE  ScanInv'
<1>1. PICK page \in FetchResults(site.answers, Home) :
        /\ scan.pc = "target" /\ site' = site
        /\ scan' = [scan EXCEPT !.pc = "sitemap", !.pages = <<page>>]
  BY DEF FetchTarget, ScanStep
<1>2. page \in PagesOf(site)
  BY FetchedPage, SitesAssumption DEF ScanInv
<1>3. <<page>> \in Seq(PagesOf(site)) /\ Len(<<page>>) = 1 /\ DOMAIN <<page>> = 1 .. 1
  BY <1>2
<1>4. scan'.facts = scan.facts
  BY <1>1 DEF ScanInv
<1>5. Keyed(scan'.facts)
  BY <1>4 DEF ScanInv
<1>6. 1 <= MaxPages
  BY ContentAssumption
<1> DEFINE pages == <<page>>
<1>7. scan' = [scan EXCEPT !.pc = "sitemap", !.pages = pages]
  BY <1>1
<1>8. pages \in Seq(PagesOf(site)) /\ Len(pages) = 1
  BY <1>3
<1> HIDE DEF pages
<1>9. QED  BY <1>1, <1>5, <1>6, <1>7, <1>8 DEF ScanInv, Steps, Unfetched

LEMMA SitemapStep ==
  ASSUME ScanInv, FetchSitemap
  PROVE  ScanInv'
<1>1. PICK locs \in {site.sitemap, <<>>} :
        LET planned == Planned(scan.pages[1], locs)
        IN /\ scan.pc = "sitemap" /\ site' = site
           /\ scan' = [scan EXCEPT
                !.pc = IF planned = <<>> THEN "done" ELSE "rest",
                !.pages = @ \o [i \in DOMAIN planned |-> Unread(planned[i])],
                !.awaiting = 2 .. Len(planned) + 1]
  BY DEF FetchSitemap, ScanStep
<1> DEFINE planned == Planned(scan.pages[1], locs)
           unread  == [i \in DOMAIN planned |-> Unread(planned[i])]
           pages   == scan.pages \o unread
           waiting == 2 .. Len(planned) + 1
<1>2. /\ scan.pc = "sitemap" /\ site' = site
      /\ scan' = [scan EXCEPT !.pc = IF planned = <<>> THEN "done" ELSE "rest",
                              !.pages = pages, !.awaiting = waiting]
  BY <1>1
<1>3. /\ site \in Sites /\ scan.pages \in Seq(PagesOf(site)) /\ Len(scan.pages) = 1
      /\ scan.pages[1] \in PagesOf(site)
  <2>1. site \in Sites /\ scan.pages \in Seq(PagesOf(site)) /\ Len(scan.pages) = 1
    BY <1>2 DEF ScanInv
  <2>2. QED  BY <2>1, ElementOfSeq
<1>4. locs \in Seq(DOMAIN site.answers)
  BY <1>3, SitesAssumption, EmptySeq
<1>5. /\ planned \in Seq(DOMAIN site.answers) /\ Len(planned) \in Nat
      /\ Len(planned) <= MaxPages - 1
  BY <1>3, <1>4, PlannedType
<1> HIDE DEF planned
<1>6. unread \in Seq(PagesOf(site)) /\ Len(unread) = Len(planned)
  BY <1>3, <1>5, UnreadPages
<1> HIDE DEF unread
<1>7. pages \in Seq(PagesOf(site)) /\ Len(pages) = 1 + Len(planned)
  <2>1. pages \in Seq(PagesOf(site)) /\ Len(pages) = Len(scan.pages) + Len(unread)
    BY <1>3, <1>6, ConcatProperties, Zenon
  <2>2. QED  BY <1>3, <1>6, <2>1
<1>8. DOMAIN pages = 1 .. Len(pages)
  BY <1>7, LenProperties
<1> HIDE DEF pages
<1>9. PICK n \in Nat : n = Len(planned)
  BY <1>5
<1>10. /\ waiting \subseteq DOMAIN pages /\ Len(pages) <= MaxPages
       /\ waiting \in SUBSET Nat
  BY <1>5, <1>7, <1>8, <1>9, ContentAssumption
<1>11. planned = <<>> <=> waiting = {}
  <2>1. planned = <<>> <=> n = 0
    BY <1>5, <1>9, LenProperties
  <2>2. n = 0 <=> 2 .. n + 1 = {}
    OBVIOUS
  <2>3. QED  BY <1>9, <2>1, <2>2
<1> HIDE DEF waiting
<1>12. scan'.facts = scan.facts
  BY <1>2 DEF ScanInv
<1>13. Keyed(scan'.facts)
  BY <1>12 DEF ScanInv
<1>14. QED  BY <1>2, <1>7, <1>10, <1>11, <1>13 DEF ScanInv, Steps, Unfetched

LEMMA PageStep ==
  ASSUME ScanInv, NEW i \in scan.awaiting, FetchPage(i)
  PROVE  ScanInv'
<1>1. PICK page \in FetchResults(site.answers, scan.pages[i].url) :
        /\ scan.pc = "rest" /\ site' = site
        /\ scan' = [scan EXCEPT !.pages[i] = page, !.awaiting = @ \ {i},
                                !.pc = IF scan.awaiting = {i} THEN "done" ELSE "rest"]
  BY DEF FetchPage, ScanStep
<1>2. scan.pages \in Seq(PagesOf(site)) /\ i \in DOMAIN scan.pages
  BY DEF ScanInv
<1>3. i \in 1 .. Len(scan.pages) /\ scan.pages[i] \in PagesOf(site) /\ site \in Sites
  BY <1>2, LenProperties, ElementOfSeq DEF ScanInv
<1>4. page \in PagesOf(site)
  BY <1>1, <1>3, PageType, FetchedPage
<1> DEFINE pages == [scan.pages EXCEPT ![i] = page]
<1>5. scan' = [scan EXCEPT !.pages = pages, !.awaiting = scan.awaiting \ {i},
                           !.pc = IF scan.awaiting = {i} THEN "done" ELSE "rest"]
  BY <1>1 DEF ScanInv
<1>6. /\ pages \in Seq(PagesOf(site)) /\ Len(pages) = Len(scan.pages)
      /\ DOMAIN pages = DOMAIN scan.pages
  BY <1>2, <1>3, <1>4, ExceptSeq
<1> HIDE DEF pages
<1>7. scan'.facts = scan.facts
  BY <1>5 DEF ScanInv
<1>8. Keyed(scan'.facts)
  BY <1>7 DEF ScanInv
<1>9. scan.awaiting = {i} <=> scan.awaiting \ {i} = {}
  OBVIOUS
<1> DEFINE pc   == IF scan.awaiting = {i} THEN "done" ELSE "rest"
           left == scan.awaiting \ {i}
<1>10. /\ pc \in {"done", "rest"} /\ left \in SUBSET Nat
       /\ left \subseteq DOMAIN scan.pages
       /\ pc = "rest" <=> left # {}
  BY <1>9 DEF ScanInv
<1> HIDE DEF pc, left
<1>11. scan' = [scan EXCEPT !.pages = pages, !.awaiting = left, !.pc = pc]
  BY <1>5 DEF pc, left
<1>12. QED  BY <1>1, <1>6, <1>8, <1>10, <1>11 DEF ScanInv, Steps, Unfetched

LEMMA ScanInvStep ==
  ASSUME ScanInv, StoreInv, [Next]_vars
  PROVE  ScanInv'
<1>1. CASE Loads \/ UNCHANGED vars
  <2>1. UNCHANGED <<site, scan>>
    BY <1>1 DEF Loads, StartLoad, LoadFact, LoadPattern, LoadEnds, Executes, vars
  <2>2. QED  BY <2>1 DEF ScanInv
<1>2. CASE Scans
  BY <1>2, ReadStep, TargetStep, SitemapStep, PageStep DEF Scans
<1>3. QED  BY <1>1, <1>2 DEF Next

LEMMA ScanAlways == Spec => [](StoreInv /\ LoaderInv /\ ScanInv)
<1>1. Init => StoreInv /\ LoaderInv /\ ScanInv
  BY StoreInit, ScanInit
<1>2. StoreInv /\ LoaderInv /\ ScanInv /\ [Next]_vars => (StoreInv /\ LoaderInv /\ ScanInv)'
  BY StoreStep, ScanInvStep
<1>3. QED  BY <1>1, <1>2, PTL DEF Spec

(* A crawl stays within its limit of pages, waits only for pages that it    *)
(* planned, and reports once it waits for none (runContentCheck), whatever  *)
(* redirects, sitemaps and failed requests it meets; the store keeps its    *)
(* key (migration 0002).                                                    *)
THEOREM ScanTypes == Spec => []TypeOK
<1>1. StoreInv /\ LoaderInv /\ ScanInv => TypeOK
  BY DEF StoreInv, LoaderInv, ScanInv, Keyed, TypeOK
<1>2. QED  BY <1>1, ScanAlways, PTL
-----------------------------------------------------------------------------
(* Findings and the claims they rest on. *)
LEMMA ScannedPages ==
  ASSUME ScanInv
  PROVE  /\ Pages \subseteq DOMAIN scan.pages
         /\ IsFiniteSet(Pages) /\ Numbers(Pages)
         /\ \A i \in Pages : scan.pages[i].ok /\ scan.pages[i] \in PagesOf(site)
<1>1. scan.pages \in Seq(PagesOf(site))
  BY DEF ScanInv
<1>2. PICK n \in Nat : DOMAIN scan.pages = 1 .. n /\ n = Len(scan.pages)
  BY <1>1, LenProperties
<1>3. Pages \in SUBSET (1 .. n) /\ \A i \in Pages : scan.pages[i].ok
  BY <1>2 DEF Pages, Scanned, Deduped
<1>4. IsFiniteSet(1 .. n)
  <2>1. 1 \in Int /\ n \in Int
    OBVIOUS
  <2>2. QED  BY <2>1, FS_Interval, Zenon
<1>5. IsFiniteSet(Pages)
  BY <1>3, <1>4, FS_Subset, Zenon
<1>6. \A i \in 1 .. n : scan.pages[i] \in PagesOf(site)
  BY <1>1, <1>2, ElementOfSeq
<1> HIDE DEF Pages
<1>7. Numbers(Pages)
  BY <1>3 DEF Numbers
<1>8. QED  BY <1>2, <1>3, <1>5, <1>6, <1>7

(* A path whose only scanned page is i has the claims of that page. *)
LEMMA OwnClaims ==
  ASSUME ScanInv, NEW i \in Pages, NEW k,
         \A j \in Pages \ {i} : scan.pages[j].url.path # scan.pages[i].url.path
  PROVE  PathClaims(scan, i, k) \subseteq Claims(scan, i, k)
<1>1. OfPath(scan, i, k) \subseteq {i}
  BY DEF OfPath, Pages
<1>2. CASE OfPath(scan, i, k) = {}
  BY <1>2 DEF PathClaims
<1>3. CASE OfPath(scan, i, k) # {}
  <2>1. OfPath(scan, i, k) = {i}
    BY <1>1, <1>3
  <2>2. IsFiniteSet({i}) /\ {i} \subseteq Int
    BY ScannedPages, FS_Singleton DEF Numbers
  <2>3. Max({i}) = i
    BY <2>2, MaxOf
  <2>4. PathClaims(scan, i, k) = Claims(scan, Max({i}), k)
    BY <1>3, <2>1 DEF PathClaims
  <2>5. QED  BY <2>3, <2>4
<1>4. QED  BY <1>2, <1>3

(* What a finding on a page is. *)
LEMMA PageFindingIs ==
  ASSUME NEW f \in PageFindings(scan)
  PROVE  \E i \in Pages, k \in DOMAIN scan.facts :
           /\ f.page = i /\ f.factKey = k /\ f.claim \subseteq PathClaims(scan, i, k)
           /\ f = [type |-> f.type, factKey |-> k, severity |-> f.severity,
                   impact |-> f.impact, page |-> i, claim |-> f.claim]
           /\ f.type # "absent-required-figure" =>
                \E v \in PathClaims(scan, i, k) : v # scan.facts[k].value
<1>1. PICK i \in Scanned(scan.pages), k \in DOMAIN scan.facts :
        f \in WrongFigures(scan, i, k) \cup AbsentFigures(scan, i, k)
  BY DEF PageFindings
<1>2. i \in Pages
  BY DEF Pages
<1>3. CASE f \in WrongFigures(scan, i, k)
  <2>1. PICK v \in PathClaims(scan, i, k) \ {scan.facts[k].value} :
          f = FindingOf(scan, IF v \in SupersededValues(scan, k) THEN "figure-stale"
                              ELSE "figure-mismatch",
                        k, SeverityForImpact(scan.facts[k].impact), i, {v})
    BY <1>3 DEF WrongFigures
  <2>2. QED  BY <1>2, <2>1 DEF FindingOf
<1>4. CASE f \in AbsentFigures(scan, i, k)
  <2>1. f = FindingOf(scan, "absent-required-figure", k, "informational", i, {})
    BY <1>4 DEF AbsentFigures
  <2>2. QED  BY <1>2, <2>1 DEF FindingOf
<1>5. QED  BY <1>1, <1>3, <1>4

(* A finding is about the page that it names and names every page once      *)
(* (classifyPages, dedupePages): with its path to itself a page is blamed   *)
(* for its own claims only, and no two findings differ in naming two        *)
(* spellings of one page.                                                   *)
THEOREM FindingsStayAttributed == Spec => []FindingsAttributed
<1>1. ScanInv => FindingsAttributed
  <2> SUFFICES ASSUME ScanInv, NEW f \in PageFindings(scan)
               PROVE  /\ (\A i \in Pages \ {f.page} :
                            scan.pages[i].url.path # scan.pages[f.page].url.path)
                         => f.claim \subseteq Claims(scan, f.page, f.factKey)
                      /\ \A g \in PageFindings(scan) :
                           /\ PageKey(scan.pages[f.page].url) = PageKey(scan.pages[g.page].url)
                           /\ [f EXCEPT !.page = g.page] = g
                           => f = g
    BY DEF FindingsAttributed
  <2>1. PICK i \in Pages, k \in DOMAIN scan.facts :
          /\ f.page = i /\ f.factKey = k /\ f.claim \subseteq PathClaims(scan, i, k)
          /\ f = [type |-> f.type, factKey |-> k, severity |-> f.severity,
                  impact |-> f.impact, page |-> i, claim |-> f.claim]
    BY PageFindingIs
  <2>2. (\A j \in Pages \ {f.page} : scan.pages[j].url.path # scan.pages[f.page].url.path)
        => f.claim \subseteq Claims(scan, f.page, f.factKey)
    BY <2>1, OwnClaims
  <2>3. ASSUME NEW g \in PageFindings(scan),
               PageKey(scan.pages[f.page].url) = PageKey(scan.pages[g.page].url),
               [f EXCEPT !.page = g.page] = g
        PROVE  f = g
    <3>1. g.page \in Pages
      BY PageFindingIs
    <3>2. \A m, n \in Pages :
            PageKey(scan.pages[m].url) = PageKey(scan.pages[n].url) => ~(m < n)
      <4> SUFFICES ASSUME NEW m \in Pages, NEW n \in Pages, m < n,
                          PageKey(scan.pages[m].url) = PageKey(scan.pages[n].url)
                   PROVE  FALSE
        OBVIOUS
      <4>1. m \in Int /\ n \in Int /\ m \in DOMAIN scan.pages
        BY ScannedPages DEF Numbers
      <4>2. \A j \in 1 .. n - 1 : PageKey(scan.pages[j].url) # PageKey(scan.pages[n].url)
        BY DEF Pages, Scanned, Deduped
      <4>3. m \in 1 .. n - 1
        <5>1. DOMAIN scan.pages = 1 .. Len(scan.pages) /\ Len(scan.pages) \in Nat
          BY LenProperties DEF ScanInv
        <5>2. QED  BY <4>1, <5>1
      <4>4. QED  BY <4>2, <4>3
    <3>3. i \in Int /\ g.page \in Int
      BY <3>1, ScannedPages DEF Numbers
    <3>4. i = g.page
      BY <2>1, <2>3, <3>1, <3>2, <3>3
    <3>5. [f EXCEPT !.page = g.page] = f
      BY <2>1, <3>4
    <3>6. QED  BY <2>3, <3>5
  <2>4. QED  BY <2>2, <2>3
<1>2. QED  BY <1>1, ScanAlways, PTL
-----------------------------------------------------------------------------
(* The amounts that are normalized as they are read: no point stands before *)
(* three digits, and of the commas only a single one before one or two last *)
(* digits does not.                                                         *)
MarksPlain(s) ==
  \A i \in DOMAIN s.marks :
    /\ s.marks[i] = "." => s.groups[i + 1].width # 3
    /\ s.marks[i] = "," => (s.groups[i + 1].width # 3 <=> i \in DecimalComma(s))

(* The amounts and dates that the pages of the sites say.                   *)
Said == UNION {UNION {Mentions(s.answers[u]) : u \in DOMAIN s.answers} : s \in Sites}

(* No page puts a point between the thousands of an amount.                 *)
AmountsPlain == \A m \in Said : m.kind = "amount" => MarksPlain(m.figure)

(* Nor does what the patterns could take for one.                           *)
ExpressionsPlain ==
  \A m \in Said : m.kind = "amount" => \A raw \in Expressions(m) : MarksPlain(raw)

(* What they could take is an amount or a date of the calendar.             *)
FiguresProper ==
  \A m \in Said : \A raw \in Expressions(m) :
    IF m.kind = "amount" THEN IsMoney(raw) ELSE IsMonthDay(raw)

LEMMA PlainIsRead ==
  ASSUME NEW s, MarksPlain(s)
  PROVE  NormalizeMoney(s) = ReadAmount(s)
<1> DEFINE points == {i \in MarkedBy(s, {",", "."}) : s.groups[i + 1].width # 3}
<1>1. DecimalComma(s) \subseteq {i \in DOMAIN s.marks : s.marks[i] = ","}
  BY DEF DecimalComma, MarkedBy
<1>2. ASSUME NEW i \in DOMAIN s.marks
      PROVE  i \in points <=> i \in DecimalMarks(s)
  <2> HIDE DEF DecimalComma
  <2>1. CASE s.marks[i] = "."
    BY <2>1 DEF MarksPlain, DecimalMarks, MarkedBy
  <2>2. CASE s.marks[i] = ","
    BY <2>2 DEF MarksPlain, DecimalMarks, MarkedBy
  <2>3. CASE s.marks[i] \notin {".", ","}
    BY <1>1, <2>3 DEF DecimalMarks, MarkedBy
  <2>4. QED  BY <2>1, <2>2, <2>3
<1>3. points \subseteq DOMAIN s.marks /\ DecimalMarks(s) \subseteq DOMAIN s.marks
  BY <1>1 DEF DecimalMarks, MarkedBy
<1>4. points = DecimalMarks(s)
  <2> HIDE DEF points
  <2>1. QED  BY <1>2, <1>3
<1>5. QED  BY <1>4, Zenon DEF NormalizeMoney, ReadAmount

(* The pages of a scan say what some page of the site does, and a claim is  *)
(* an expression for something that its page says.                          *)
LEMMA PagesSay ==
  ASSUME ScanInv, NEW i \in Pages
  PROVE  /\ Mentions(scan.pages[i]) \subseteq Said
         /\ IsFiniteSet(Mentions(scan.pages[i]))
         /\ \A m \in Mentions(scan.pages[i]) : IsFiniteSet(Expressions(m))
<1> DEFINE page == scan.pages[i]
           answer == site.answers[page.url]
<1>1. site \in Sites /\ page.ok /\ page \in PagesOf(site)
  BY ScannedPages DEF ScanInv
<1>2. page.url \in DOMAIN site.answers /\ page.says = answer.says
  BY <1>1, PageType
<1>3. Mentions(page) = Mentions(answer)
  BY <1>2, Zenon DEF Mentions
<1> HIDE DEF page
<1>4. Mentions(answer) \subseteq Said
  BY <1>1, <1>2 DEF Said
<1>5. /\ IsFiniteSet(Mentions(answer))
      /\ \A m \in Mentions(answer) : IsFiniteSet(Expressions(m))
  BY <1>1, <1>2, SitesAssumption
<1> HIDE DEF answer
<1>6. QED  BY <1>3, <1>4, <1>5 DEF page

LEMMA ClaimedIsSaid ==
  ASSUME ScanInv, NEW i \in Pages, NEW k,
         NEW raw \in Claimed(scan.pages[i], scan.facts[k], scan.patterns)
  PROVE  \E m \in Mentions(scan.pages[i]) :
           /\ m \in Said /\ m.kind = KindOf(scan.facts[k]) /\ raw \in Expressions(m)
           /\ raw \in Captured(scan.pages[i], scan.facts[k], scan.patterns, m)
<1>1. PICK m \in Mentions(scan.pages[i]) :
        raw \in Captured(scan.pages[i], scan.facts[k], scan.patterns, m)
  BY DEF Claimed
<1>2. m.kind = KindOf(scan.facts[k]) /\ raw \in Expressions(m)
  BY <1>1 DEF Captured
<1>3. QED  BY <1>1, <1>2, PagesSay

(* What a site says rightly, and is taken as it is meant, is claimed as     *)
(* approved.                                                                *)
LEMMA RightIsClaimed ==
  ASSUME ScanInv, AmountsPlain, NEW i \in Pages, NEW k,
         Correct(i, k), TakenAsMeant(i, k), NEW v \in Claims(scan, i, k)
  PROVE  v = scan.facts[k].value
<1> DEFINE fact == scan.facts[k]
           claimed == Claimed(scan.pages[i], fact, scan.patterns)
<1>1. v \in ClaimsOf(scan.pages[i], fact, scan.patterns)
  BY DEF Claims
<1>2. ASSUME NEW raw \in claimed
      PROVE  /\ ReadAs(fact, raw) = fact.value
             /\ IsMoneyFact(fact) => MarksPlain(raw)
  <2>1. PICK m \in Mentions(scan.pages[i]) :
          /\ m \in Said /\ m.kind = KindOf(fact)
          /\ raw \in Captured(scan.pages[i], fact, scan.patterns, m)
    BY <1>2, ClaimedIsSaid
  <2>2. m.about = k /\ raw = m.figure
    BY <2>1 DEF TakenAsMeant
  <2>3. ReadAs(fact, raw) = fact.value
    BY <2>1, <2>2 DEF Correct
  <2>4. IsMoneyFact(fact) => MarksPlain(raw)
    BY <2>1, <2>2 DEF AmountsPlain, KindOf
  <2>5. QED  BY <2>3, <2>4
<1>3. CASE IsMoneyFact(fact)
  <2>1. PICK raw \in claimed : v = NormalizeMoney(raw)
    BY <1>1, <1>3 DEF ClaimsOf
  <2> HIDE DEF claimed, fact
  <2>2. v = ReadAs(fact, raw)
    BY <1>2, <1>3, <2>1, PlainIsRead DEF ReadAs
  <2>3. QED  BY <1>2, <2>1, <2>2 DEF fact
<1>4. CASE ~IsMoneyFact(fact)
  <2>1. PICK raw \in claimed : v = NormalizeMonthDay(raw)
    BY <1>1, <1>4 DEF ClaimsOf
  <2> HIDE DEF claimed, fact
  <2>2. v = ReadAs(fact, raw)
    BY <1>4, <2>1 DEF ReadAs
  <2>3. QED  BY <1>2, <2>1, <2>2 DEF fact
<1>5. QED  BY <1>3, <1>4

LEMMA PathClaimsAreClaims ==
  ASSUME ScanInv, NEW i, NEW k
  PROVE  /\ PathClaims(scan, i, k) \subseteq AllClaims(scan, k)
         /\ OfPath(scan, i, k) # {} =>
              \E j \in Pages : Claims(scan, j, k) # {} /\ PathClaims(scan, i, k) = Claims(scan, j, k)
<1>1. CASE OfPath(scan, i, k) = {}
  BY <1>1 DEF PathClaims
<1>2. CASE OfPath(scan, i, k) # {}
  <2>1. OfPath(scan, i, k) \in SUBSET Pages
    BY DEF OfPath, Pages
  <2>2. IsFiniteSet(OfPath(scan, i, k)) /\ OfPath(scan, i, k) \subseteq Int
    BY <2>1, ScannedPages, FS_Subset DEF Numbers
  <2>3. Max(OfPath(scan, i, k)) \in OfPath(scan, i, k)
    BY <1>2, <2>2, MaxOf
  <2> DEFINE j == Max(OfPath(scan, i, k))
  <2>4. PathClaims(scan, i, k) = Claims(scan, j, k) /\ j \in OfPath(scan, i, k)
    BY <1>2, <2>3 DEF PathClaims
  <2> HIDE DEF j
  <2>5. j \in Pages /\ Claims(scan, j, k) # {}
    BY <2>1, <2>4 DEF OfPath
  <2>6. QED  BY <2>4, <2>5 DEF AllClaims, Pages
<1>3. QED  BY <1>1, <1>2

(* A site that says nothing wrong about the facts, and from which the       *)
(* patterns take what is meant, is blamed for nothing but figures it leaves *)
(* out (extractClaimsFromText, normalizeMoney, classifyPages), as long as   *)
(* no page separates thousands with a point, which normalizeMoney takes for *)
(* a decimal point.                                                         *)
THEOREM FalseAlarmsNever ==
  ASSUME AmountsPlain
  PROVE  Spec => []NoFalseAlarm
<1>1. ScanInv => NoFalseAlarm
  <2> SUFFICES ASSUME ScanInv,
                      \A k \in DOMAIN scan.facts, i \in Pages :
                        Correct(i, k) /\ TakenAsMeant(i, k),
                      NEW f \in Findings(scan), f.type # "absent-required-figure"
               PROVE  FALSE
    BY DEF NoFalseAlarm
  <2>1. \A k \in DOMAIN scan.facts : AllClaims(scan, k) \subseteq {scan.facts[k].value}
    <3> SUFFICES ASSUME NEW k \in DOMAIN scan.facts, NEW v \in AllClaims(scan, k)
                 PROVE  v = scan.facts[k].value
      OBVIOUS
    <3>1. PICK i \in Pages : v \in Claims(scan, i, k)
      BY DEF AllClaims, Pages
    <3>2. QED  BY <3>1, RightIsClaimed
  <2>2. CASE f \in Contradictions(scan)
    <3>1. PICK k \in DOMAIN scan.facts : Cardinality(AllClaims(scan, k)) >= 2
      BY <2>2 DEF Contradictions
    <3> DEFINE S == {scan.facts[k].value}
    <3>2. IsFiniteSet(S) /\ Cardinality(S) = 1
      BY FS_Singleton
    <3>3. AllClaims(scan, k) \in SUBSET S
      BY <2>1
    <3> HIDE DEF S
    <3>4. IsFiniteSet(AllClaims(scan, k)) /\ Cardinality(AllClaims(scan, k)) <= 1
      BY <3>2, <3>3, FS_Subset
    <3>5. Cardinality(AllClaims(scan, k)) \in Nat
      BY <3>4, FS_CardinalityType
    <3>6. QED  BY <3>1, <3>4, <3>5
  <2>3. CASE f \in PageFindings(scan)
    <3>1. PICK i \in Pages, k \in DOMAIN scan.facts :
            \E v \in PathClaims(scan, i, k) : v # scan.facts[k].value
      BY <2>3, PageFindingIs
    <3>2. QED  BY <2>1, <3>1, PathClaimsAreClaims
  <2>4. QED  BY <2>2, <2>3 DEF Findings
<1>2. QED  BY <1>1, ScanAlways, PTL
-----------------------------------------------------------------------------
(* What a check returns is finite. *)
LEMMA ImageFinite ==
  ASSUME NEW S, IsFiniteSet(S), NEW F
  PROVE  IsFiniteSet({F[x] : x \in S})
<1> DEFINE T == {F[x] : x \in S}
           g == [x \in S |-> F[x]]
<1>1. g \in Surjection(S, T)
  BY DEF Surjection
<1> HIDE DEF g, T
<1>2. IsFiniteSet(T)
  BY <1>1, FS_Surjection
<1>3. QED  BY <1>2 DEF T

LEMMA ClaimsFinite ==
  ASSUME ScanInv, NEW i \in Pages, NEW k
  PROVE  IsFiniteSet(Claims(scan, i, k))
<1> DEFINE page == scan.pages[i]
           fact == scan.facts[k]
           claimed == Claimed(page, fact, scan.patterns)
           M == Mentions(page)
           F == [m \in M |-> Captured(page, fact, scan.patterns, m)]
           parts == {F[m] : m \in M}
<1>1. IsFiniteSet(M) /\ \A m \in M : IsFiniteSet(Expressions(m))
  BY PagesSay
<1> HIDE DEF page, fact
<1>2. claimed = UNION parts
  BY DEF Claimed
<1>3. \A m \in M : F[m] \in SUBSET Expressions(m)
  BY DEF Captured
<1> HIDE DEF M, F, claimed
<1>4. \A T \in parts : IsFiniteSet(T)
  BY <1>1, <1>3, FS_Subset
<1>5. IsFiniteSet(parts)
  BY <1>1, ImageFinite
<1> HIDE DEF parts
<1>6. IsFiniteSet(claimed)
  BY <1>2, <1>4, <1>5, FS_UNION
<1> DEFINE money == {f \in claimed : IsMoney(f)}
           dates == {f \in claimed : IsMonthDay(f)}
           G == [f \in claimed |-> NormalizeMoney(f)]
           H == [f \in claimed |-> NormalizeMonthDay(f)]
<1>7. ClaimsOf(page, fact, scan.patterns) =
        IF IsMoneyFact(fact) THEN {G[f] : f \in money} ELSE {H[f] : f \in dates}
  BY DEF ClaimsOf, claimed
<1>8. money \in SUBSET claimed /\ dates \in SUBSET claimed
  OBVIOUS
<1> HIDE DEF money, dates, G, H
<1>9. IsFiniteSet(money) /\ IsFiniteSet(dates)
  BY <1>6, <1>8, FS_Subset
<1>10. IsFiniteSet({G[f] : f \in money}) /\ IsFiniteSet({H[f] : f \in dates})
  BY <1>9, ImageFinite
<1>11. QED  BY <1>7, <1>10 DEF Claims, page, fact

LEMMA AllClaimsFinite ==
  ASSUME ScanInv, NEW k
  PROVE  IsFiniteSet(AllClaims(scan, k))
<1> DEFINE F == [i \in Pages |-> Claims(scan, i, k)]
           parts == {F[i] : i \in Pages}
<1>1. AllClaims(scan, k) = UNION parts
  BY DEF AllClaims, Pages
<1>2. \A T \in parts : IsFiniteSet(T)
  BY ClaimsFinite
<1>3. IsFiniteSet(parts)
  <2> HIDE DEF F
  <2>1. QED  BY ScannedPages, ImageFinite
<1> HIDE DEF parts
<1>4. QED  BY <1>1, <1>2, <1>3, FS_UNION

LEMMA FindingsFinite ==
  ASSUME ScanInv
  PROVE  IsFiniteSet(Findings(scan))
<1> DEFINE K == DOMAIN scan.facts
<1>1. IsFiniteSet(K)
  BY DEF ScanInv, Keyed
<1>2. IsFiniteSet(Contradictions(scan))
  <2> DEFINE J == {k \in K : Cardinality(AllClaims(scan, k)) >= 2}
             F == [k \in K |-> FindingOf(scan, "cross-page-contradiction", k,
                     SeverityForImpact(scan.facts[k].impact), 0, AllClaims(scan, k))]
  <2>1. Contradictions(scan) = {F[k] : k \in J}
    BY DEF Contradictions
  <2>2. J \in SUBSET K
    OBVIOUS
  <2> HIDE DEF J, F, K
  <2>3. IsFiniteSet(J)
    BY <1>1, <2>2, FS_Subset
  <2>4. QED  BY <2>1, <2>3, ImageFinite
<1>3. ASSUME NEW i \in Pages, NEW k \in K
      PROVE  IsFiniteSet(WrongFigures(scan, i, k) \cup AbsentFigures(scan, i, k))
  <2> DEFINE wrong == PathClaims(scan, i, k) \ {scan.facts[k].value}
             F == [v \in wrong |->
                     FindingOf(scan, IF v \in SupersededValues(scan, k) THEN "figure-stale"
                                                                 ELSE "figure-mismatch",
                       k, SeverityForImpact(scan.facts[k].impact), i, {v})]
  <2>1. WrongFigures(scan, i, k) = {F[v] : v \in wrong}
    BY DEF WrongFigures
  <2>2. wrong \in SUBSET AllClaims(scan, k)
    BY PathClaimsAreClaims
  <2> HIDE DEF wrong, F
  <2>3. IsFiniteSet(wrong)
    BY <2>2, AllClaimsFinite, FS_Subset
  <2>4. IsFiniteSet(WrongFigures(scan, i, k))
    BY <2>1, <2>3, ImageFinite
  <2> DEFINE absent == FindingOf(scan, "absent-required-figure", k, "informational", i, {})
  <2>5. AbsentFigures(scan, i, k) \in SUBSET {absent} /\ IsFiniteSet({absent})
    BY FS_Singleton DEF AbsentFigures
  <2>6. IsFiniteSet(AbsentFigures(scan, i, k))
    BY <2>5, FS_Subset
  <2>7. QED  BY <2>4, <2>6, FS_Union
<1>4. IsFiniteSet(PageFindings(scan))
  <2> DEFINE B(i, k) == WrongFigures(scan, i, k) \cup AbsentFigures(scan, i, k)
             F == [p \in Pages \X K |-> B(p[1], p[2])]
             parts == {F[p] : p \in Pages \X K}
  <2>1. PageFindings(scan) \in SUBSET UNION parts
    <3>1. \A f \in PageFindings(scan) : \E i \in Pages, k \in K : f \in B(i, k)
      BY DEF PageFindings, Pages
    <3> HIDE DEF B
    <3>2. \A i \in Pages, k \in K : <<i, k>> \in Pages \X K /\ F[<<i, k>>] = B(i, k)
      OBVIOUS
    <3> HIDE DEF F, K
    <3>3. \A i \in Pages, k \in K : B(i, k) \in parts
      BY <3>2
    <3>4. QED  BY <3>1, <3>3
  <2>2. \A T \in parts : IsFiniteSet(T)
    BY <1>3
  <2>3. IsFiniteSet(parts)
    <3>1. IsFiniteSet(Pages \X K)
      BY <1>1, ScannedPages, FS_Product
    <3> HIDE DEF F, K
    <3>2. QED  BY <3>1, ImageFinite
  <2> HIDE DEF parts
  <2>4. IsFiniteSet(UNION parts)
    BY <2>2, <2>3, FS_UNION
  <2>5. QED  BY <2>1, <2>4, FS_Subset
<1>5. QED  BY <1>2, <1>4, FS_Union DEF Findings

(* SetToSeq lists every element. *)
LEMMA Listed ==
  ASSUME NEW S, IsFiniteSet(S)
  PROVE  /\ SetToSeq(S) \in Seq(S)
         /\ \A x \in S : \E i \in DOMAIN SetToSeq(S) : SetToSeq(S)[i] = x
<1> DEFINE n == Cardinality(S)
           s == SetToSeq(S)
<1>1. n \in Nat /\ ExistsBijection(1 .. n, S)
  BY FS_CardinalityType
<1>2. IsFiniteSet(1 .. n) /\ Cardinality(1 .. n) = n
  <2>1. 1 \in Int /\ n \in Int
    BY <1>1
  <2> HIDE DEF n
  <2>2. QED  BY <1>1, <2>1, FS_Interval
<1>3. \E f \in [1 .. n -> S] : IsInjective(f)
  BY <1>1 DEF ExistsBijection, Bijection, Injection, IsInjective
<1>4. s \in [1 .. n -> S] /\ IsInjective(s)
  BY <1>3, Zenon DEF SetToSeq
<1> HIDE DEF s
<1>5. s \in Injection(1 .. n, S)
  BY <1>4 DEF Injection, IsInjective
<1>6. s \in Surjection(1 .. n, S)
  BY <1>2, <1>5, FS_Injection
<1>7. \A x \in S : \E i \in 1 .. n : s[i] = x
  BY <1>6 DEF Surjection
<1> HIDE DEF n
<1>8. DOMAIN s = 1 .. n /\ s \in Seq(S)
  BY <1>1, <1>4
<1>9. QED  BY <1>7, <1>8 DEF s
-----------------------------------------------------------------------------
(* A critical finding about money or a deadline caps the score at 35, below *)
(* what does not fail.                                                      *)
LEMMA CountIs ==
  ASSUME NEW fs, fs \in Seq(Range(fs)), NEW severity
  PROVE  Count(fs, severity) \in Nat
<1> DEFINE having == {i \in DOMAIN fs : fs[i].severity = severity}
<1>1. PICK n \in Nat : DOMAIN fs = 1 .. n
  BY LenProperties
<1>2. IsFiniteSet(1 .. n)
  <2>1. 1 \in Int /\ n \in Int
    OBVIOUS
  <2>2. QED  BY <2>1, FS_Interval, Zenon
<1>3. having \in SUBSET (1 .. n)
  BY <1>1
<1>4. Count(fs, severity) = Cardinality(having)
  BY DEF Count
<1> HIDE DEF having
<1>5. IsFiniteSet(having)
  BY <1>2, <1>3, FS_Subset, Zenon
<1>6. QED  BY <1>4, <1>5, FS_CardinalityType

LEMMA GraveFails ==
  ASSUME NEW c, c.findings \in Seq(Range(c.findings)),
         NEW i \in DOMAIN c.findings, Grave(c.findings, i)
  PROVE  ContentStatus(c) = "FAIL"
<1> DEFINE left == 100 - 30 * Count(c.findings, "critical")
                       - 15 * Count(c.findings, "material")
                       -  5 * Count(c.findings, "informational")
           d == Deducted(c.findings)
<1>1. left \in Int
  BY CountIs
<1>2. d = Max({0, left})
  BY Zenon DEF Deducted
<1> HIDE DEF left
<1>3. d \in Int
  <2> DEFINE S == {0, left}
  <2>1. IsFiniteSet({0} \cup {left})
    BY FS_Singleton, FS_AddElement
  <2>2. S = {0} \cup {left} /\ S # {} /\ S \subseteq Int
    BY <1>1
  <2> HIDE DEF S
  <2>3. IsFiniteSet(S) /\ S # {} /\ S \subseteq Int
    BY <2>1, <2>2
  <2>4. Max(S) \in Int
    BY <2>3, MaxOf
  <2>5. QED  BY <1>2, <2>4 DEF S
<1>4. ContentScore(c) = IF c.pages = 0 THEN 0 ELSE Min({35, d})
  BY DEF ContentScore
<1> HIDE DEF d
<1>5. Min({35, d}) \in {35, d} /\ Min({35, d}) <= 35
  <2>1. 35 \in Int /\ d \in Int
    BY <1>3
  <2>2. QED  BY <2>1, LesserOfTwo, Zenon
<1> DEFINE m == Min({35, d})
<1> HIDE DEF m
<1>6. m \in Int /\ m <= 35 /\ ContentScore(c) = IF c.pages = 0 THEN 0 ELSE m
  BY <1>3, <1>4, <1>5 DEF m
<1>7. ContentScore(c) < 40
  BY <1>6
<1>8. QED  BY <1>7 DEF ContentStatus

(* A proper figure that the patterns capture is a claim of its page, with   *)
(* the value that a reader gives it.                                        *)
LEMMA ReadIsClaim ==
  ASSUME ScanInv, ExpressionsPlain, FiguresProper, NEW i \in Pages, NEW k,
         NEW v \in Reads(i, k)
  PROVE  v \in Claims(scan, i, k)
<1> DEFINE fact == scan.facts[k]
           claimed == Claimed(scan.pages[i], fact, scan.patterns)
<1>1. PICK raw \in claimed : v = ReadAs(fact, raw)
  BY DEF Reads
<1>2. PICK m \in Said : m.kind = KindOf(fact) /\ raw \in Expressions(m)
  BY ClaimedIsSaid
<1>3. /\ IF IsMoneyFact(fact) THEN IsMoney(raw) ELSE IsMonthDay(raw)
      /\ IsMoneyFact(fact) => MarksPlain(raw)
  BY <1>2 DEF FiguresProper, ExpressionsPlain, KindOf
<1>4. Claims(scan, i, k) =
        IF IsMoneyFact(fact)
        THEN {NormalizeMoney(f) : f \in {f \in claimed : IsMoney(f)}}
        ELSE {NormalizeMonthDay(f) : f \in {f \in claimed : IsMonthDay(f)}}
  BY DEF Claims, ClaimsOf
<1> HIDE DEF fact, claimed
<1>5. CASE IsMoneyFact(fact)
  <2>1. v = NormalizeMoney(raw)
    BY <1>1, <1>3, <1>5, PlainIsRead DEF ReadAs
  <2>2. QED  BY <1>1, <1>3, <1>4, <1>5, <2>1
<1>6. CASE ~IsMoneyFact(fact)
  <2>1. v = NormalizeMonthDay(raw)
    BY <1>1, <1>6 DEF ReadAs
  <2>2. QED  BY <1>1, <1>3, <1>4, <1>6, <2>1
<1>7. QED  BY <1>5, <1>6

(* Two claims about one fact are two, also when a later page of the path    *)
(* overwrites the first one.                                                *)
LEMMA WrongClaimIsFound ==
  ASSUME ScanInv, NEW i \in Pages, NEW k \in DOMAIN scan.facts,
         NEW v \in Claims(scan, i, k), v # scan.facts[k].value
  PROVE  \E f \in Findings(scan) :
           /\ f.severity = SeverityForImpact(scan.facts[k].impact)
           /\ f.impact = scan.facts[k].impact
<1>1. i \in OfPath(scan, i, k)
  BY DEF OfPath, Pages
<1>2. CASE PathClaims(scan, i, k) \subseteq {scan.facts[k].value}
  <2> DEFINE S == AllClaims(scan, k)
             w == scan.facts[k].value
             pair == {v} \cup {w}
  <2>1. PICK j \in Pages : Claims(scan, j, k) # {} /\ PathClaims(scan, i, k) = Claims(scan, j, k)
    BY <1>1, PathClaimsAreClaims
  <2>2. w \in PathClaims(scan, i, k)
    BY <1>2, <2>1
  <2>3. v \in S /\ w \in S
    BY <2>2, PathClaimsAreClaims DEF AllClaims, Pages
  <2>4. IsFiniteSet(S)
    BY AllClaimsFinite
  <2>5. v # w
    OBVIOUS
  <2> HIDE DEF S, w
  <2>6. pair \in SUBSET S
    BY <2>3
  <2>7. Cardinality(pair) = 2
    <3>1. IsFiniteSet({v}) /\ Cardinality({v}) = 1 /\ w \notin {v}
      BY <2>5, FS_Singleton
    <3> DEFINE one == {v}
    <3> HIDE DEF one
    <3>2. IsFiniteSet(one) /\ Cardinality(one) = 1 /\ w \notin one
      BY <3>1 DEF one
    <3>3. Cardinality(one \cup {w}) = 2
      <4>1. Cardinality(one \cup {w}) = IF w \in one THEN Cardinality(one) ELSE Cardinality(one) + 1
        BY <3>2, FS_AddElement, Zenon
      <4>2. QED  BY <3>2, <4>1
    <3>4. pair = one \cup {w}
      BY Zenon DEF one
    <3>5. QED  BY <3>3, <3>4
  <2>8. Cardinality(pair) <= Cardinality(S) /\ Cardinality(S) \in Nat
    BY <2>4, <2>6, FS_Subset, FS_CardinalityType
  <2>9. Cardinality(S) >= 2
    BY <2>7, <2>8
  <2> DEFINE f == FindingOf(scan, "cross-page-contradiction", k,
                    SeverityForImpact(scan.facts[k].impact), 0, AllClaims(scan, k))
  <2>10. f \in Contradictions(scan)
    BY <2>9 DEF Contradictions, S
  <2>11. QED  BY <2>10 DEF Findings, FindingOf
<1>3. CASE ~(PathClaims(scan, i, k) \subseteq {scan.facts[k].value})
  <2>1. PICK w \in PathClaims(scan, i, k) : w # scan.facts[k].value
    BY <1>3
  <2> DEFINE f == FindingOf(scan, IF w \in SupersededValues(scan, k) THEN "figure-stale"
                                                                ELSE "figure-mismatch",
                    k, SeverityForImpact(scan.facts[k].impact), i, {w})
  <2>2. f \in WrongFigures(scan, i, k)
    BY <2>1 DEF WrongFigures
  <2>3. f.severity = SeverityForImpact(scan.facts[k].impact)
        /\ f.impact = scan.facts[k].impact
    BY DEF FindingOf
  <2> HIDE DEF f
  <2>4. f \in PageFindings(scan)
    <3>1. i \in Scanned(scan.pages)
      BY DEF Pages
    <3> DEFINE B(j, l) == WrongFigures(scan, j, l) \cup AbsentFigures(scan, j, l)
               P == Scanned(scan.pages)
               K == DOMAIN scan.facts
    <3>2. f \in B(i, k) /\ i \in P /\ k \in K
      BY <2>2, <3>1
    <3>3. PageFindings(scan) = UNION {B(j, l) : j \in P, l \in K}
      BY SMT DEF PageFindings
    <3> HIDE DEF B, P, K
    <3>4. B(i, k) \in {B(j, l) : j \in P, l \in K}
      BY <3>2
    <3>5. QED  BY <3>2, <3>3, <3>4
  <2>5. QED  BY <2>3, <2>4 DEF Findings
<1>4. QED  BY <1>2, <1>3

(* A figure that the patterns of a fact about money or a deadline take, and *)
(* that reads otherwise than approved, fails the site, on whichever page it *)
(* stands (classifyPages, scoreContent), as long as what they take is an    *)
(* amount or a date and no thousands are separated with a point.            *)
THEOREM WrongFiguresFail ==
  ASSUME ExpressionsPlain, FiguresProper
  PROVE  Spec => []WrongFigureFails
<1>1. ScanInv => WrongFigureFails
  <2> SUFFICES ASSUME ScanInv, NEW k \in DOMAIN scan.facts,
                      scan.facts[k].impact \in GraveImpacts,
                      NEW i \in Pages, Reads(i, k) \ {scan.facts[k].value} # {}
               PROVE  ContentStatus(CheckedContent(scan)) = "FAIL"
    BY DEF WrongFigureFails
  <2>1. PICK v \in Reads(i, k) : v # scan.facts[k].value
    OBVIOUS
  <2>2. v \in Claims(scan, i, k)
    BY ReadIsClaim
  <2>3. PICK f \in Findings(scan) : /\ f.severity = SeverityForImpact(scan.facts[k].impact)
                                    /\ f.impact = scan.facts[k].impact
    BY <2>1, <2>2, WrongClaimIsFound
  <2>4. f.severity = "critical" /\ f.impact \in {"money", "compliance-deadline"}
    BY <2>3 DEF SeverityForImpact, GraveImpacts
  <2> DEFINE S == Findings(scan)
             c == CheckedContent(scan)
  <2>5. c.findings = SetToSeq(S)
    BY DEF CheckedContent
  <2> HIDE DEF S, c
  <2>6. /\ c.findings \in Seq(S)
        /\ \E n \in DOMAIN c.findings : c.findings[n] = f
    BY <2>5, FindingsFinite, Listed DEF S
  <2>7. c.findings \in Seq(Range(c.findings))
    BY <2>6, LenProperties DEF Range
  <2>8. PICK n \in DOMAIN c.findings : Grave(c.findings, n)
    BY <2>4, <2>6 DEF Grave
  <2>9. ContentStatus(c) = "FAIL"
    BY <2>7, <2>8, GraveFails
  <2>10. QED  BY <2>9 DEF c
<1>2. QED  BY <1>1, ScanAlways, PTL
=============================================================================
