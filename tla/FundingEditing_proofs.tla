------------------------ MODULE FundingEditing_proofs ------------------------
(***************************************************************************)
(* Proofs about FundingEditing, for any sources, years and names, any      *)
(* number of servers and of saves under way, and any menu of payloads.     *)
(***************************************************************************)
EXTENDS FundingEditing, FiniteSetTheorems, TLAPS

-----------------------------------------------------------------------------
(***************************************************************************)
(* Sums.  SumFunction adds up a function in the order in which CHOOSE      *)
(* picks its arguments; its recursion has one solution on a finite set.    *)
(***************************************************************************)
Pick(S) == CHOOSE x \in S : TRUE
\* g has the sum of a over each subset of T.
Adds(g, a, T) ==
    g = [S \in SUBSET T |-> IF S = {} THEN 0 ELSE a[Pick(S)] + g[S \ {Pick(S)}]]

LEMMA SumIsFold ==
    ASSUME NEW a
    PROVE  SumFunction(a) = (CHOOSE g : Adds(g, a, DOMAIN a))[DOMAIN a]
  BY DEF SumFunction, SumFunctionOnSet, FoldFunctionOnSet, MapThenFoldSet, Adds, Pick

\* A nonempty set of subsets of a finite set has a minimal one.
LEMMA MinimalSubset ==
    ASSUME NEW T, IsFiniteSet(T), NEW Bad \in SUBSET (SUBSET T), Bad # {}
    PROVE  \E S \in Bad : \A U \in Bad : U \subseteq S => U = S
  <1>1. IsWellFoundedOn(StrictSubsetOrdering(T), FiniteSubsetsOf(T))
    BY FS_StrictSubsetOrderingWellFounded
  <1>2. Bad \subseteq FiniteSubsetsOf(T)
    BY FS_FiniteSubsetsOfFinite
  <1>3. PICK S \in Bad : \A U \in Bad : <<U, S>> \notin StrictSubsetOrdering(T)
    BY <1>1, <1>2, WFMin
  <1> QED BY <1>3 DEF StrictSubsetOrdering

\* Two solutions agree where both are defined.
LEMMA SumsAgree ==
    ASSUME NEW a, NEW S, NEW T, IsFiniteSet(S), S \subseteq T,
           NEW f, NEW g, Adds(f, a, S), Adds(g, a, T)
    PROVE  f[S] = g[S]
  <1> DEFINE Bad == {U \in SUBSET S : f[U] # g[U]}
  <1>1. SUFFICES ASSUME Bad # {} PROVE FALSE
    OBVIOUS
  <1>a. Bad \in SUBSET (SUBSET S)
    OBVIOUS
  <1>2. PICK U \in Bad : \A V \in Bad : V \subseteq U => V = U
    <2> HIDE DEF Bad
    <2> QED BY <1>1, <1>a, MinimalSubset
  <1>3. /\ f[U] = IF U = {} THEN 0 ELSE a[Pick(U)] + f[U \ {Pick(U)}]
        /\ g[U] = IF U = {} THEN 0 ELSE a[Pick(U)] + g[U \ {Pick(U)}]
    <2>1. U \in SUBSET S /\ U \in SUBSET T
      OBVIOUS
    <2>2. f[U] = IF U = {} THEN 0 ELSE a[Pick(U)] + f[U \ {Pick(U)}]
      BY <2>1 DEF Adds
    <2>3. g[U] = IF U = {} THEN 0 ELSE a[Pick(U)] + g[U \ {Pick(U)}]
      BY <2>1 DEF Adds
    <2> QED BY <2>2, <2>3
  <1>4. U # {}
    BY <1>3
  <1>5. Pick(U) \in U
    BY <1>4 DEF Pick
  <1>6. f[U \ {Pick(U)}] = g[U \ {Pick(U)}]
    BY <1>2, <1>5
  <1> QED BY <1>3, <1>4, <1>6

\* The sum of natural numbers is one.
LEMMA SumExists ==
    ASSUME NEW T, IsFiniteSet(T), NEW a \in [T -> Nat]
    PROVE  \E g \in [SUBSET T -> Nat] : Adds(g, a, T)
  <1> DEFINE Has(S) == \E g \in [SUBSET S -> Nat] : Adds(g, a, S)
             Bad == {S \in SUBSET T : ~Has(S)}
  <1>1. SUFFICES ASSUME Bad # {} PROVE FALSE
    OBVIOUS
  <1>a. Bad \in SUBSET (SUBSET T)
    OBVIOUS
  <1>2. PICK S \in Bad : \A U \in Bad : U \subseteq S => U = S
    <2> HIDE DEF Bad
    <2> QED BY <1>1, <1>a, MinimalSubset
  <1> DEFINE G(U) == CHOOSE g : g \in [SUBSET U -> Nat] /\ Adds(g, a, U)
             g == [U \in SUBSET S |-> IF U = {} THEN 0
                     ELSE a[Pick(U)] + G(U \ {Pick(U)})[U \ {Pick(U)}]]
  <1>3. \A U \in SUBSET S : U # {} => Pick(U) \in U
    BY DEF Pick
  <1>4. \A U \in SUBSET S : U # S => G(U) \in [SUBSET U -> Nat] /\ Adds(G(U), a, U)
    <2>1. ASSUME NEW U \in SUBSET S, U # S PROVE Has(U)
      BY <1>2, <2>1
    <2> QED BY <2>1
  <1>5. g \in [SUBSET S -> Nat]
    <2>1. ASSUME NEW U \in SUBSET S, U # {}
          PROVE  a[Pick(U)] + G(U \ {Pick(U)})[U \ {Pick(U)}] \in Nat
      <3> DEFINE V == U \ {Pick(U)}
      <3>1. V \in SUBSET S /\ V # S /\ Pick(U) \in T
        BY <1>3, <2>1
      <3>2. G(V)[V] \in Nat
        <4> HIDE DEF G, V
        <4> QED BY <1>4, <3>1
      <3>3. a[Pick(U)] \in Nat
        BY <3>1
      <3> HIDE DEF G
      <3> QED BY <3>2, <3>3
    <2> HIDE DEF G
    <2> QED BY <2>1
  <1>6. ASSUME NEW U \in SUBSET S, U # {}
        PROVE  g[U] = a[Pick(U)] + g[U \ {Pick(U)}]
    <2> DEFINE V == U \ {Pick(U)}
    <2>1. V \in SUBSET S /\ V # S
      BY <1>3, <1>6
    <2>2. g[U] = a[Pick(U)] + G(V)[V]
      BY <1>6
    <2>3. G(V)[V] = g[V]
      <3>1. CASE V = {}
        <4>1. Adds(G(V), a, V)
          BY <1>4, <2>1
        <4>2. G(V)[V] = 0
          <5> HIDE DEF G, V
          <5> QED BY <3>1, <4>1 DEF Adds
        <4> QED BY <2>1, <3>1, <4>2
      <3>2. CASE V # {}
        <4> DEFINE W == V \ {Pick(V)}
        <4>1. W \in SUBSET S /\ W # S /\ W \subseteq V
          BY <1>3, <2>1, <3>2
        <4>2. g[V] = a[Pick(V)] + G(W)[W]
          BY <2>1, <3>2
        <4>3. Adds(G(V), a, V) /\ Adds(G(W), a, W)
          BY <1>4, <2>1, <4>1
        <4>4. G(V)[V] = a[Pick(V)] + G(V)[W]
          <5> HIDE DEF G, V
          <5> QED BY <3>2, <4>3 DEF Adds
        <4>5. IsFiniteSet(W)
          BY <4>1, FS_Subset
        <4>6. G(V)[W] = G(W)[W]
          <5> HIDE DEF G, V, W
          <5> QED BY <4>1, <4>3, <4>5, SumsAgree
        <4> QED BY <4>2, <4>4, <4>6
      <3> QED BY <3>1, <3>2
    <2> QED BY <2>2, <2>3
  <1>7. g[{}] = 0
    OBVIOUS
  <1>8. Adds(g, a, S)
    <2>1. g = [U \in SUBSET S |-> g[U]]
      OBVIOUS
    <2> HIDE DEF g
    <2> QED BY <1>5, <1>6, <1>7, <2>1 DEF Adds
  <1>9. Has(S)
    <2> HIDE DEF g
    <2> QED BY <1>5, <1>8
  <1> QED BY <1>9

LEMMA SumIsNatural ==
    ASSUME NEW T, IsFiniteSet(T), NEW a \in [T -> Nat]
    PROVE  SumFunction(a) \in Nat
  <1>1. PICK g \in [SUBSET T -> Nat] : Adds(g, a, T)
    BY SumExists
  <1>2. Adds((CHOOSE f : Adds(f, a, T)), a, T)
    BY <1>1
  <1>3. (CHOOSE f : Adds(f, a, T))[T] = g[T]
    BY <1>1, <1>2, SumsAgree
  <1>4. SumFunction(a) = (CHOOSE f : Adds(f, a, T))[T]
    BY SumIsFold
  <1> QED BY <1>3, <1>4

LEMMA SumOfZeros ==
    ASSUME NEW T, IsFiniteSet(T), NEW a \in [T -> Nat], \A x \in T : a[x] = 0
    PROVE  SumFunction(a) = 0
  <1> DEFINE g == [S \in SUBSET T |-> 0]
  <1>1. Adds(g, a, T)
    <2>1. \A S \in SUBSET T : S # {} => Pick(S) \in S /\ S \ {Pick(S)} \in SUBSET T
      BY DEF Pick
    <2>2. ASSUME NEW S \in SUBSET T
          PROVE  g[S] = IF S = {} THEN 0 ELSE a[Pick(S)] + g[S \ {Pick(S)}]
      BY <2>1
    <2>3. g = [S \in SUBSET T |-> g[S]]
      OBVIOUS
    <2> HIDE DEF g
    <2> QED BY <2>2, <2>3 DEF Adds
  <1>2. Adds((CHOOSE f : Adds(f, a, T)), a, T)
    BY <1>1
  <1>3. (CHOOSE f : Adds(f, a, T))[T] = g[T]
    BY <1>1, <1>2, SumsAgree
  <1>4. SumFunction(a) = (CHOOSE f : Adds(f, a, T))[T]
    BY SumIsFold
  <1> QED BY <1>3, <1>4

-----------------------------------------------------------------------------
(***************************************************************************)
(* What requests and threads are.                                          *)
(***************************************************************************)
YearLevels == {"FINANCIAL_START_YEAR", "FINANCIAL_END_YEAR"}
RenameOps == {"findStored", "names", "renames"}
PlaceholderOps == {"range", "createValues", "findCreated", "createContributors"}
UpsertOps == {"upsertValue", "upsertContributors", "deleteStale"}
EmptyOps == {"findEmptied", "deleteContributors", "deleteValues"}
OutsideOps == {"findOutside", "clearValues", "clearContributors"}
ProjectOps == {"project", "invalidate"}

OpsOf(level) ==
    CASE level = "FUNDING_SOURCES_SELECTED" -> {"nullColumns", "deleteTypes"}
      [] level = "ADDITIONAL_FUNDING_SOURCES_GIA_SELECTED" -> {"nullColumns"}
      [] level = "CONTRIBUTORS" -> RenameOps \cup PlaceholderOps
      [] level = "FUNDING_SOURCES_ESTIMATED_SPEND" -> UpsertOps \cup EmptyOps
      [] level = "CLEAR_STALE_DATA" -> EmptyOps
      [] level = "TIMELINE" -> {}
      [] OTHER -> OutsideOps
Ops == {"nullColumns", "deleteTypes"} \cup RenameOps \cup PlaceholderOps \cup UpsertOps
       \cup EmptyOps \cup OutsideOps \cup ProjectOps

Gifts == Contributed \X Names \X Nat
Pairs == Names \X (Names \cup {None})
Thread == [op : Ops, ids : SUBSET (Years \X Nat), years : SUBSET Years,
           sources : SUBSET Sources, names : SUBSET Names, amount : Amounts,
           entries : SUBSET Gifts, left : SUBSET (Gifts \cup Pairs)]

\* A thread works on ids that were given (b[y] of year y), and on what its statement is about.
ThreadTyped(t, b) ==
    /\ t \in Thread
    /\ \A id \in t.ids : id[2] \in 1 .. b[id[1]]
    /\ t.op \in RenameOps \cup PlaceholderOps => t.sources \subseteq Contributed
    /\ IF t.op = "renames" THEN t.left \subseteq Pairs ELSE t.left \subseteq Gifts

RequestTyped(q, b) ==
    /\ DOMAIN q = {"phase", "at", "save", "read", "before", "now", "later"}
    /\ q.phase \in {"idle", "loaded", "writing"}
    /\ q.phase # "idle" => q.at \in Instances /\ q.save \in Menu /\ q.read \in Projects
    /\ q.phase # "writing" => q.now = {} /\ q.later = {}
    /\ \A t \in q.now : ThreadTyped(t, b) /\ t.op \in OpsOf(q.save.level) \cup ProjectOps
    /\ q.later \in {{}, UpsertProject}
    /\ q.later # {} => \A t \in q.now : t.op \notin ProjectOps

TypeInv ==
    /\ TypeOK
    /\ DOMAIN req = Requests
    /\ \A r \in Requests : RequestTyped(req[r], born)

-----------------------------------------------------------------------------
(***************************************************************************)
(* Sums and payloads are of their type.                                    *)
(***************************************************************************)
LEMMA SumTyped ==
    ASSUME NEW a \in Amounts
    PROVE  Sum(a) \in Nat
  BY SourcesAssumption, SumIsNatural DEF Sum, Amounts

LEMMA NoAmountsTyped == NoAmounts \in Amounts /\ Sum(NoAmounts) = 0
  <1>1. NoAmounts \in [Sources -> Nat] /\ \A s \in Sources : NoAmounts[s] = 0
    BY DEF NoAmounts
  <1>2. SumFunction(NoAmounts) = 0
    <2> QED BY <1>1, SourcesAssumption, SumOfZeros
  <1> QED BY <1>1, <1>2 DEF Sum, Amounts

LEMMA WithoutTyped ==
    ASSUME NEW a \in Amounts, NEW S
    PROVE  WithoutSources(a, S) \in Amounts
  BY DEF WithoutSources, Amounts

LEMMA RowTyped ==
    ASSUME NEW row \in SpendRow, NEW p \in Projects
    PROVE  /\ StripDisabled(row, p) \in SpendRow
           /\ MergeContributors(row) \in Amounts
           /\ Entries(row) \in SUBSET Gifts
  <1>1. /\ row.amount \in [Sources -> 0 .. MaxAmount]
        /\ row.by \in [Contributed \X Names -> 0 .. MaxAmount]
    BY DEF SpendRow
  <1>2. MaxAmount \in Nat
    BY NumbersAssumption
  <1>3. StripDisabled(row, p) \in SpendRow
    BY <1>1, <1>2 DEF StripDisabled, SpendRow
  <1>4. ASSUME NEW s \in Contributed
        PROVE  SumFunction([n \in Names |-> row.by[<<s, n>>]]) \in Nat
    <2> DEFINE a == [n \in Names |-> row.by[<<s, n>>]]
    <2>1. a \in [Names -> Nat]
      BY <1>1, <1>2
    <2> HIDE DEF a
    <2>2. SumFunction(a) \in Nat
      BY <2>1, SourcesAssumption, SumIsNatural
    <2> QED BY <2>2 DEF a
  <1>5. MergeContributors(row) \in Amounts
    <2>1. ASSUME NEW s \in Sources
          PROVE  (IF s \in Contributed /\ row.amount[s] = 0
                  THEN SumFunction([n \in Names |-> row.by[<<s, n>>]])
                  ELSE row.amount[s]) \in Nat
      BY <1>1, <1>2, <1>4
    <2> QED BY <2>1 DEF MergeContributors, Amounts
  <1>6. Entries(row) \in SUBSET Gifts
    BY <1>1, <1>2 DEF Entries, Gifts
  <1> QED BY <1>3, <1>5, <1>6

LEMMA PayloadShapes ==
    ASSUME NEW save \in Menu
    PROVE  /\ save.level = "FUNDING_SOURCES_SELECTED" => save \in SelectSources
           /\ save.level = "ADDITIONAL_FUNDING_SOURCES_GIA_SELECTED" => save \in SelectAdditional
           /\ save.level = "CONTRIBUTORS" => save \in NameContributors
           /\ save.level = "FUNDING_SOURCES_ESTIMATED_SPEND" => save \in EstimatedSpend
           /\ save.level = "CLEAR_STALE_DATA" => save \in ClearStaleData
           /\ save.level \in YearLevels => save \in FinancialYear
           /\ save.level = "TIMELINE" => save \in DatePage
           /\ save.level \in {"FUNDING_SOURCES_SELECTED",
                              "ADDITIONAL_FUNDING_SOURCES_GIA_SELECTED", "CONTRIBUTORS",
                              "FUNDING_SOURCES_ESTIMATED_SPEND",
                              "CLEAR_STALE_DATA", "TIMELINE"} \cup YearLevels
  BY MenuAssumption DEF Payloads, SelectSources, SelectAdditional, NameContributors,
     FinancialYear, DatePage, ClearStaleData, EstimatedSpend, YearLevels

\* The years that a save writes: those it sends, or those that are stored.
LEMMA YearsSent ==
    ASSUME NEW save \in Menu, NEW p
    PROVE  /\ Start(save, p) \in Years \cup {None, p.start}
           /\ End(save, p) \in Years \cup {None, p.end}
           /\ save.level \notin YearLevels \cup {"TIMELINE", "CLEAR_STALE_DATA"} =>
                Start(save, p) = p.start /\ End(save, p) = p.end
           /\ save.level = "TIMELINE" =>
                Start(save, p) \in Years \cup {p.start} /\ End(save, p) \in Years \cup {p.end}
  <1>1. ASSUME NEW e \in {"start", "end"}, Sends(save, e)
        PROVE  /\ save.years[e] \in Years \cup {None}
               /\ save.level = "TIMELINE" => save.years[e] \in Years
               /\ save.level \in YearLevels \cup {"TIMELINE", "CLEAR_STALE_DATA"}
    <2>1. e \in DOMAIN save.years
      BY <1>1 DEF Sends
    <2>2. CASE save.level \in YearLevels
      <3>1. save \in FinancialYear
        BY <2>2, PayloadShapes
      <3> QED BY <2>1, <2>2, <3>1 DEF FinancialYear, YearLevels
    <2>3. CASE save.level = "TIMELINE"
      <3>1. save \in DatePage
        BY <2>3, PayloadShapes
      <3>2. PICK S \in SUBSET {"start", "end"} : save.years \in [S -> Years]
        BY <3>1 DEF DatePage
      <3> QED BY <2>1, <2>3, <3>2
    <2>4. CASE save.level = "CLEAR_STALE_DATA"
      <3>1. save \in ClearStaleData
        BY <2>4, PayloadShapes
      <3>2. PICK S \in SUBSET {"start", "end"} : save.years \in [S -> Years \cup {None}]
        BY <3>1 DEF ClearStaleData
      <3> QED BY <2>1, <2>4, <3>2
    <2> QED BY <1>1, <2>2, <2>3, <2>4 DEF Sends, YearLevels
  <1> QED BY <1>1 DEF Start, End

LEMMA SpendTyped ==
    ASSUME NEW save \in EstimatedSpend, NEW y \in DOMAIN save.rows
    PROVE  y \in Years /\ save.rows[y] \in SpendRow
  BY DEF EstimatedSpend

\* The project as a save writes it is of its type.
LEMMA SavedTyped ==
    ASSUME project \in Projects, NEW save \in Menu
    PROVE  Saved(save) \in Projects
  <1>1. /\ project.flag \in [Sources -> BOOLEAN] /\ project.growth \in BOOLEAN
        /\ project.start \in Years \cup {None} /\ project.end \in Years \cup {None}
        /\ project.names \in [Contributed -> SUBSET Names]
        /\ project = [flag |-> project.flag, growth |-> project.growth,
                      start |-> project.start, end |-> project.end,
                      names |-> project.names]
    BY DEF Projects
  <1>2. CASE save.level = "FUNDING_SOURCES_SELECTED"
    <2>1. save \in SelectSources
      BY <1>2, PayloadShapes
    <2>2. save.additional \in BOOLEAN
      BY <2>1 DEF SelectSources
    <2> DEFINE flag == [s \in Sources |->
                            IF s \in Additional THEN save.additional /\ project.flag[s]
                            ELSE s \in save.chosen]
               names == [c \in Contributed |->
                            IF c \in save.chosen THEN project.names[c] ELSE {}]
    <2>3. flag \in [Sources -> BOOLEAN]
      <3>1. ASSUME NEW s \in Sources
            PROVE  (IF s \in Additional THEN save.additional /\ project.flag[s]
                    ELSE s \in save.chosen) \in BOOLEAN
        <4>1. (save.additional /\ project.flag[s]) \in BOOLEAN /\ (s \in save.chosen) \in BOOLEAN
          OBVIOUS
        <4> QED BY <4>1, Zenon
      <3> QED BY <3>1, Zenon
    <2>4. names \in [Contributed -> SUBSET Names]
      BY <1>1
    <2>5. Saved(save) = [project EXCEPT !.flag = flag, !.growth = save.additional,
                                        !.names = names]
      BY <1>2, Zenon DEF Saved
    <2> HIDE DEF flag, names
    <2> QED BY <1>1, <2>2, <2>3, <2>4, <2>5 DEF Projects
  <1>3. CASE save.level = "ADDITIONAL_FUNDING_SOURCES_GIA_SELECTED"
    <2> DEFINE flag == [s \in Sources |->
                            IF s \in Additional THEN s \in save.chosen ELSE project.flag[s]]
    <2>1. flag \in [Sources -> BOOLEAN]
      <3>1. ASSUME NEW s \in Sources
            PROVE  (IF s \in Additional THEN s \in save.chosen ELSE project.flag[s])
                        \in BOOLEAN
        <4>1. (s \in save.chosen) \in BOOLEAN /\ project.flag[s] \in BOOLEAN
          BY <1>1
        <4> QED BY <4>1, Zenon
      <3> QED BY <3>1, Zenon
    <2>2. Saved(save) = [project EXCEPT !.flag = flag]
      BY <1>3 DEF Saved
    <2> HIDE DEF flag
    <2> QED BY <1>1, <2>1, <2>2 DEF Projects
  <1>4. CASE save.level = "CONTRIBUTORS"
    <2>1. save \in NameContributors
      BY <1>4, PayloadShapes
    <2>2. save.names \in SUBSET Names
      BY <2>1 DEF NameContributors
    <2> QED BY <1>1, <1>4, <2>2 DEF Saved, Projects
  <1>y. /\ Start(save, project) \in Years \cup {None}
        /\ End(save, project) \in Years \cup {None}
    BY <1>1, YearsSent
  <1>5. CASE save.level = "CLEAR_STALE_DATA"
    <2>1. save \in ClearStaleData
      BY <1>5, PayloadShapes
    <2>2. PICK S \in SUBSET Sources : save.flag \in [S -> BOOLEAN]
      BY <2>1 DEF ClearStaleData
    <2>3. PICK C \in SUBSET Contributed : save.names \in [C -> SUBSET Names]
      BY <2>1 DEF ClearStaleData
    <2>4. save.growth \in BOOLEAN \cup {None}
      BY <2>1 DEF ClearStaleData
    <2> DEFINE flag == [s \in Sources |->
                          IF s \in DOMAIN save.flag THEN save.flag[s] ELSE project.flag[s]]
               growth == IF save.growth = None THEN project.growth ELSE save.growth
               names == [c \in Contributed |->
                          IF c \in DOMAIN save.names THEN save.names[c] ELSE project.names[c]]
    <2>5. flag \in [Sources -> BOOLEAN]
      <3>1. ASSUME NEW s \in Sources
            PROVE  (IF s \in DOMAIN save.flag THEN save.flag[s] ELSE project.flag[s])
                        \in BOOLEAN
        BY <1>1, <2>2, Zenon
      <3> QED BY <3>1, Zenon
    <2>6. growth \in BOOLEAN
      BY <1>1, <2>4, Zenon
    <2>7. names \in [Contributed -> SUBSET Names]
      BY <1>1, <2>3
    <2>8. Saved(save) = [flag |-> flag, growth |-> growth, start |-> Start(save, project),
                         end |-> End(save, project), names |-> names]
      BY <1>5, Zenon DEF Saved
    <2> HIDE DEF flag, growth, names
    <2> QED BY <1>y, <2>5, <2>6, <2>7, <2>8 DEF Projects
  <1>6. CASE save.level \in {"FUNDING_SOURCES_ESTIMATED_SPEND", "TIMELINE"} \cup YearLevels
    <2>1. Saved(save) = [project EXCEPT !.start = Start(save, project),
                                        !.end = End(save, project)]
      BY <1>6 DEF Saved, YearLevels
    <2> QED BY <1>1, <1>y, <2>1 DEF Projects
  <1> QED BY <1>2, <1>3, <1>4, <1>5, <1>6, PayloadShapes

-----------------------------------------------------------------------------
(***************************************************************************)
(* The threads of a save are of their type, and so is what follows them.   *)
(***************************************************************************)
LEMMA DoTyped ==
    ASSUME NEW op \in Ops
    PROVE  /\ Do(op) \in Thread /\ Do(op).op = op
           /\ Do(op).ids = {} /\ Do(op).left = {} /\ Do(op).sources = {}
           /\ Do(op).years = {}
  BY NoAmountsTyped DEF Do, Blank, Thread

LEMMA NormalizersTyped ==
    ASSUME NEW b, NEW save \in Menu, NEW p \in Projects, NEW t \in Normalizers(save, p)
    PROVE  ThreadTyped(t, b) /\ t.op \in OpsOf(save.level) /\ t.op \notin ProjectOps
  <1>s. /\ Main \subseteq Sources /\ Contributed \subseteq Sources
        /\ Additional \subseteq Sources
    BY DEF Sources
  <1>1. CASE save.level = "FUNDING_SOURCES_SELECTED"
    <2>1. t \in SelectedThreads(save)
      BY <1>1 DEF Normalizers
    <2>2. PICK S \in SUBSET Sources :
             \/ t = [Do("nullColumns") EXCEPT !.sources = S]
             \/ t = [Do("deleteTypes") EXCEPT !.sources = S]
      BY <2>1, <1>s DEF SelectedThreads, Gone
    <2>3. Do("nullColumns") \in Thread /\ Do("deleteTypes") \in Thread
      BY DoTyped DEF Ops
    <2> QED BY <1>1, <2>2, <2>3, DoTyped
            DEF ThreadTyped, Thread, Ops, OpsOf, ProjectOps, RenameOps, PlaceholderOps
  <1>2. CASE save.level = "ADDITIONAL_FUNDING_SOURCES_GIA_SELECTED"
    <2>1. t \in AdditionalThreads(save)
      BY <1>2 DEF Normalizers
    <2>2. PICK S \in SUBSET Sources : t = [Do("nullColumns") EXCEPT !.sources = S]
      BY <2>1, <1>s DEF AdditionalThreads
    <2> QED BY <1>2, <2>2, DoTyped
            DEF ThreadTyped, Thread, Ops, OpsOf, ProjectOps, RenameOps, PlaceholderOps
  <1>3. CASE save.level = "CONTRIBUTORS"
    <2>1. t \in NamesThreads(save, p)
      BY <1>3 DEF Normalizers
    <2>2. save.source \in Contributed /\ save.names \in SUBSET Names
      BY <1>3, PayloadShapes DEF NameContributors
    <2>3. PICK op \in {"findStored", "range", "createValues"}, ys \in SUBSET Years :
             t = [op |-> op, ids |-> {}, years |-> ys, sources |-> {save.source},
                  names |-> save.names, amount |-> NoAmounts, entries |-> {}, left |-> {}]
      <3>1. CASE t = CleanupThread(save)
        BY <3>1 DEF CleanupThread, Do, Blank
      <3>2. CASE t = EnsureThread(save, p)
        <4>1. CASE None \in {p.start, p.end}
          <5>1. t = [op |-> "range", ids |-> {}, years |-> {}, sources |-> {save.source},
                     names |-> save.names, amount |-> NoAmounts, entries |-> {}, left |-> {}]
            BY <3>2, <4>1 DEF EnsureThread, Do, Blank
          <5> QED BY <5>1
        <4>2. CASE ~(None \in {p.start, p.end})
          <5> DEFINE ys == {y \in Years : InRange(y, p)}
          <5>1. t = [op |-> "createValues", ids |-> {}, years |-> ys,
                     sources |-> {save.source}, names |-> save.names,
                     amount |-> NoAmounts, entries |-> {}, left |-> {}]
            BY <3>2, <4>2 DEF EnsureThread, Do, Blank
          <5>2. ys \in SUBSET Years
            OBVIOUS
          <5> HIDE DEF ys
          <5> QED BY <5>1, <5>2
        <4> QED BY <4>1, <4>2
      <3> QED BY <2>1, <3>1, <3>2 DEF NamesThreads
    <2>4. t \in Thread
      BY <1>s, <2>2, <2>3, NoAmountsTyped DEF Thread, Ops, RenameOps, PlaceholderOps
    <2> QED BY <1>3, <2>2, <2>3, <2>4
            DEF ThreadTyped, OpsOf, ProjectOps, RenameOps, PlaceholderOps
  <1>4. CASE save.level = "FUNDING_SOURCES_ESTIMATED_SPEND"
    <2>1. PICK y \in DOMAIN save.rows : t = SpendThread(y, StripDisabled(save.rows[y], p))
      BY <1>4 DEF Normalizers, SpendThreads
    <2>2. y \in Years /\ save.rows[y] \in SpendRow
      BY <1>4, PayloadShapes, SpendTyped
    <2> DEFINE row == StripDisabled(save.rows[y], p)
    <2>3. MergeContributors(row) \in Amounts /\ Entries(row) \in SUBSET Gifts
      BY <2>2, RowTyped
    <2>4. CASE MergeContributors(row) = NoAmounts
      <3>1. t = [op |-> "findEmptied", ids |-> {}, years |-> {y}, sources |-> {},
                 names |-> {}, amount |-> NoAmounts, entries |-> {}, left |-> {}]
        BY <2>1, <2>4 DEF SpendThread, Do, Blank
      <3>2. t \in Thread
        BY <2>2, <3>1, NoAmountsTyped DEF Thread, Ops, EmptyOps
      <3> QED BY <1>4, <3>1, <3>2
              DEF ThreadTyped, OpsOf, ProjectOps, RenameOps, PlaceholderOps, EmptyOps
    <2>5. CASE MergeContributors(row) # NoAmounts
      <3> DEFINE amount == MergeContributors(row)
                 entries == Entries(row)
      <3>1. t = [op |-> "upsertValue", ids |-> {}, years |-> {y}, sources |-> {},
                 names |-> {}, amount |-> amount, entries |-> entries, left |-> entries]
        BY <2>1, <2>5 DEF SpendThread, Do, Blank
      <3> HIDE DEF amount, entries
      <3>2. amount \in Amounts /\ entries \in SUBSET Gifts
        BY <2>3 DEF amount, entries
      <3>3. t \in Thread
        BY <2>2, <3>1, <3>2 DEF Thread, Ops, UpsertOps
      <3> QED BY <1>4, <3>1, <3>2, <3>3
              DEF ThreadTyped, OpsOf, ProjectOps, RenameOps, PlaceholderOps, UpsertOps
    <2> QED BY <2>4, <2>5
  <1>5. CASE save.level = "CLEAR_STALE_DATA"
    <2>1. t = [Do("findEmptied") EXCEPT !.years = Years]
      BY <1>5 DEF Normalizers, ClearThreads
    <2> QED BY <1>5, <2>1, DoTyped
            DEF ThreadTyped, Thread, Ops, OpsOf, ProjectOps, RenameOps, PlaceholderOps,
                EmptyOps
  <1>6. CASE save.level \in YearLevels
    <2>1. t \in YearThreads(save, p)
      BY <1>6 DEF Normalizers, YearLevels
    <2>2. PICK ys \in SUBSET Years : t = [Do("findOutside") EXCEPT !.years = ys]
      BY <2>1 DEF YearThreads
    <2>3. OpsOf(save.level) = OutsideOps
      BY <1>6 DEF OpsOf, YearLevels
    <2> QED BY <2>2, <2>3, DoTyped
            DEF ThreadTyped, Thread, Ops, ProjectOps, RenameOps, PlaceholderOps,
                OutsideOps
  <1>7. CASE save.level = "TIMELINE"
    BY <1>7 DEF Normalizers
  <1> QED BY <1>1, <1>2, <1>3, <1>4, <1>5, <1>6, <1>7, PayloadShapes

LEMMA FollowingIs ==
    ASSUME NEW t \in Thread
    PROVE  /\ t.op \notin DOMAIN After => Following(t) = {}
           /\ t.op = "findStored" => Following(t) = {[t EXCEPT !.op = "names"]}
           /\ t.op = "range" => Following(t) = {[t EXCEPT !.op = "createValues"]}
           /\ t.op = "createValues" => Following(t) = {[t EXCEPT !.op = "findCreated"]}
           /\ t.op = "findCreated" => Following(t) = {[t EXCEPT !.op = "createContributors"]}
           /\ t.op = "upsertValue" => Following(t) = {[t EXCEPT !.op = "upsertContributors"]}
           /\ t.op = "upsertContributors" => Following(t) = {[t EXCEPT !.op = "deleteStale"]}
           /\ t.op = "findEmptied" => Following(t) = {[t EXCEPT !.op = "deleteContributors"]}
           /\ t.op = "deleteContributors" => Following(t) = {[t EXCEPT !.op = "deleteValues"]}
           /\ t.op = "deleteValues" => Following(t) = {}
           /\ t.op = "findOutside" => Following(t) = {[t EXCEPT !.op = "clearValues"]}
           /\ t.op = "clearValues" => Following(t) = {[t EXCEPT !.op = "clearContributors"]}
           /\ t.op = "project" => Following(t) = {[t EXCEPT !.op = "invalidate"]}
           /\ t.op = "invalidate" => Following(t) = {}
  BY DEF Following, After

\* What follows a thread is of its type, and of the same level.
LEMMA FollowingTyped ==
    ASSUME NEW t, NEW b, ThreadTyped(t, b), NEW u \in Following(t), NEW level,
           t.op \in OpsOf(level) \cup ProjectOps
    PROVE  /\ ThreadTyped(u, b) /\ u.op \in OpsOf(level) \cup ProjectOps
           /\ t.op \notin ProjectOps => u.op \notin ProjectOps
           /\ t.op \in ProjectOps => u.op \in ProjectOps
  <1>1. t \in Thread
    BY DEF ThreadTyped
  <1>2. t.op \in DOMAIN After /\ u = [t EXCEPT !.op = After[t.op]]
    BY DEF Following
  <1>3. /\ u.op = After[t.op] /\ u.op \in Ops /\ u.op # "renames" /\ t.op # "renames"
        /\ u.op \in RenameOps \cup PlaceholderOps => t.op \in RenameOps \cup PlaceholderOps
    BY <1>1, <1>2 DEF Thread, After, Ops, RenameOps, PlaceholderOps, UpsertOps, EmptyOps,
       OutsideOps, ProjectOps
  <1>4. u \in Thread /\ ThreadTyped(u, b)
    BY <1>1, <1>2, <1>3 DEF ThreadTyped, Thread
  <1>5. /\ u.op \in OpsOf(level) \cup ProjectOps
        /\ t.op \notin ProjectOps => u.op \notin ProjectOps
        /\ t.op \in ProjectOps => u.op \in ProjectOps
    <2>1. /\ t.op \in RenameOps => u.op \in RenameOps
          /\ t.op \in PlaceholderOps => u.op \in PlaceholderOps
          /\ t.op \in UpsertOps => u.op \in UpsertOps
          /\ t.op \in EmptyOps => u.op \in EmptyOps
          /\ t.op \in OutsideOps => u.op \in OutsideOps
          /\ t.op \in ProjectOps => u.op \in ProjectOps
          /\ t.op \notin {"nullColumns", "deleteTypes"}
      BY <1>2, <1>3 DEF After, RenameOps, PlaceholderOps, UpsertOps, EmptyOps, OutsideOps,
         ProjectOps
    <2>2. \A op \in RenameOps \cup PlaceholderOps \cup UpsertOps \cup EmptyOps
                    \cup OutsideOps : op \notin ProjectOps
      BY DEF RenameOps, PlaceholderOps, UpsertOps, EmptyOps, OutsideOps, ProjectOps
    <2>3. \/ OpsOf(level) = {"nullColumns", "deleteTypes"} \/ OpsOf(level) = {"nullColumns"}
          \/ OpsOf(level) = RenameOps \cup PlaceholderOps
          \/ OpsOf(level) = UpsertOps \cup EmptyOps
          \/ OpsOf(level) = EmptyOps \/ OpsOf(level) = OutsideOps \/ OpsOf(level) = {}
      BY DEF OpsOf
    <2> QED BY <2>1, <2>2, <2>3
  <1> QED BY <1>4, <1>5

-----------------------------------------------------------------------------
(***************************************************************************)
(* The type invariant.                                                     *)
(***************************************************************************)
LEMMA IdleTyped ==
    ASSUME NEW b
    PROVE  RequestTyped(Idle, b) /\ Idle.now = {} /\ Idle.later = {} /\ Idle.phase = "idle"
  BY DEF Idle, RequestTyped

\* What a request goes on with.
LEMMA ProceedIs ==
    ASSUME NEW q, DOMAIN q = {"phase", "at", "save", "read", "before", "now", "later"},
           NEW now, NEW later
    PROVE  /\ now # {} \/ later # {} =>
                /\ DOMAIN Proceed(q, now, later) = DOMAIN q
                /\ Proceed(q, now, later).phase = "writing"
                /\ Proceed(q, now, later).at = q.at
                /\ Proceed(q, now, later).save = q.save
                /\ Proceed(q, now, later).read = q.read
           /\ now # {} => Proceed(q, now, later).now = now /\ Proceed(q, now, later).later = later
           /\ now = {} /\ later # {} =>
                Proceed(q, now, later).now = later /\ Proceed(q, now, later).later = {}
           /\ now = {} /\ later = {} => Proceed(q, now, later) = Idle
  BY DEF Proceed

LEMMA UpsertTyped ==
    ASSUME NEW b, NEW u \in UpsertProject
    PROVE  ThreadTyped(u, b) /\ u.op = "project" /\ u.op \in ProjectOps
  <1>1. u = Do("project")
    BY DEF UpsertProject
  <1>2. "project" \in Ops
    BY DEF Ops, ProjectOps
  <1> QED BY <1>1, <1>2, DoTyped DEF ThreadTyped, RenameOps, PlaceholderOps, ProjectOps

LEMMA ProceedTyped ==
    ASSUME NEW b, NEW q, RequestTyped(q, b), q.phase # "idle", NEW now, NEW later,
           \A t \in now : ThreadTyped(t, b) /\ t.op \in OpsOf(q.save.level) \cup ProjectOps,
           later \in {{}, UpsertProject},
           later # {} => \A t \in now : t.op \notin ProjectOps
    PROVE  RequestTyped(Proceed(q, now, later), b)
  <1> DEFINE p == Proceed(q, now, later)
  <1>1. DOMAIN q = {"phase", "at", "save", "read", "before", "now", "later"}
    BY DEF RequestTyped
  <1>2. CASE now = {} /\ later = {}
    BY <1>1, <1>2, ProceedIs, IdleTyped
  <1>3. CASE now # {}
    <2>1. /\ DOMAIN p = DOMAIN q /\ p.phase = "writing" /\ p.at = q.at /\ p.save = q.save
          /\ p.read = q.read /\ p.now = now /\ p.later = later
      BY <1>1, <1>3, ProceedIs
    <2> HIDE DEF p
    <2>2. RequestTyped(p, b)
      BY <2>1 DEF RequestTyped
    <2> QED BY <2>2 DEF p
  <1>4. CASE now = {} /\ later # {}
    <2>1. /\ DOMAIN p = DOMAIN q /\ p.phase = "writing" /\ p.at = q.at /\ p.save = q.save
          /\ p.read = q.read /\ p.now = later /\ p.later = {}
      BY <1>1, <1>4, ProceedIs
    <2>2. later = UpsertProject
      BY <1>4
    <2> HIDE DEF p
    <2>3. RequestTyped(p, b)
      BY <2>1, <2>2, UpsertTyped DEF RequestTyped
    <2> QED BY <2>3 DEF p
  <1> QED BY <1>2, <1>3, <1>4

\* b and c are how often a year got a row, before and after a step: an id that
\* was given stays given.
LEMMA RequestStays ==
    ASSUME NEW b \in [Years -> Nat], NEW c \in [Years -> Nat], \A y \in Years : b[y] <= c[y],
           NEW q, RequestTyped(q, b)
    PROVE  RequestTyped(q, c)
  <1>1. ASSUME NEW t, ThreadTyped(t, b) PROVE ThreadTyped(t, c)
    BY <1>1 DEF ThreadTyped, Thread
  <1> QED BY <1>1 DEF RequestTyped

\* The threads us may follow thread t of request r.
MayFollow(r, t, us, b) ==
    \A u \in us : /\ ThreadTyped(u, b)
                  /\ u.op \in OpsOf(req[r].save.level) \cup ProjectOps
                  /\ t.op \notin ProjectOps => u.op \notin ProjectOps

\* A statement leaves the requests of their type, when the threads that its
\* own goes on with are.
LEMMA ResumeTyped ==
    ASSUME TypeInv, NEW r \in Requests, NEW t \in req[r].now, NEW us,
           NEW later, later \in {{}, req[r].later},
           Resume(r, (req[r].now \ {t}) \cup us, later), born' \in [Years -> Nat],
           \A y \in Years : born[y] <= born'[y], MayFollow(r, t, us, born')
    PROVE  DOMAIN req' = Requests /\ \A q \in Requests : RequestTyped(req'[q], born')
  <1>1. /\ DOMAIN req = Requests /\ born \in [Years -> Nat]
        /\ \A q \in Requests : RequestTyped(req[q], born)
        /\ DOMAIN req' = Requests /\ \A q \in Requests \ {r} : req'[q] = req[q]
        /\ req'[r] = Proceed(req[r], (req[r].now \ {t}) \cup us, later)
    BY DEF TypeInv, TypeOK, Resume
  <1>2. \A q \in Requests : RequestTyped(req[q], born')
    BY <1>1, RequestStays
  <1>3. req[r].phase # "idle"
    BY <1>1 DEF RequestTyped
  <1>4. /\ \A u \in req[r].now : /\ ThreadTyped(u, born')
                                /\ u.op \in OpsOf(req[r].save.level) \cup ProjectOps
        /\ req[r].later \in {{}, UpsertProject}
        /\ req[r].later # {} => \A u \in req[r].now : u.op \notin ProjectOps
    BY <1>2 DEF RequestTyped
  <1> DEFINE now == (req[r].now \ {t}) \cup us
  <1>5. /\ \A u \in now : ThreadTyped(u, born') /\ u.op \in OpsOf(req[r].save.level) \cup ProjectOps
        /\ later \in {{}, UpsertProject}
        /\ later # {} => \A u \in now : u.op \notin ProjectOps
    BY <1>4 DEF MayFollow
  <1> HIDE DEF now
  <1>6. RequestTyped(Proceed(req[r], now, later), born')
    BY <1>2, <1>3, <1>5, ProceedTyped
  <1> QED BY <1>1, <1>2, <1>6 DEF now

LEMMA ThreadIs ==
    ASSUME TypeInv, NEW r \in Requests, NEW t \in req[r].now
    PROVE  /\ ThreadTyped(t, born) /\ t \in Thread
           /\ t.op \in OpsOf(req[r].save.level) \cup ProjectOps
           /\ req[r].phase = "writing" /\ req[r].at \in Instances
           /\ req[r].save \in Menu /\ req[r].read \in Projects
           /\ \A id \in t.ids : id \in Years \X Nat /\ id[2] \in 1 .. born[id[1]]
  <1>1. RequestTyped(req[r], born)
    BY DEF TypeInv
  <1> QED BY <1>1 DEF RequestTyped, ThreadTyped, Thread

\* A thread that goes on with some of what it has, with other years, or with
\* the ids it found, is of its type.
LEMMA FewerSources ==
    ASSUME NEW t, NEW b, ThreadTyped(t, b), NEW S \in SUBSET t.sources
    PROVE  ThreadTyped([t EXCEPT !.sources = S], b)
  BY DEF ThreadTyped, Thread

LEMMA FewerLeft ==
    ASSUME NEW t, NEW b, ThreadTyped(t, b), t.op # "renames", NEW L \in SUBSET t.left
    PROVE  ThreadTyped([t EXCEPT !.left = L], b)
  BY DEF ThreadTyped, Thread

LEMMA OtherYears ==
    ASSUME NEW t, NEW b, ThreadTyped(t, b), NEW Y \in SUBSET Years
    PROVE  ThreadTyped([t EXCEPT !.years = Y], b)
  BY DEF ThreadTyped, Thread

LEMMA IdsFound ==
    ASSUME NEW t, NEW b, ThreadTyped(t, b), NEW I \in SUBSET (Years \X Nat),
           \A id \in I : id[2] \in 1 .. b[id[1]]
    PROVE  ThreadTyped([t EXCEPT !.ids = I], b)
  BY DEF ThreadTyped, Thread

LEMMA IdsTyped ==
    ASSUME TypeOK
    PROVE  \A y \in DOMAIN values : /\ Id(y) \in Years \X Nat /\ Id(y)[1] = y
                                    /\ Id(y)[2] = values[y].nth /\ Id(y)[2] \in 1 .. born[y]
  BY DEF TypeOK, Id, Rows

\* The tables of contributors and of values, when a statement changes one.
LEMMA ContributorsTyped ==
    ASSUME TypeOK, UNCHANGED <<project, values, born, cache, saves, serial, narrowed>>,
           DOMAIN contributors' \subseteq Keys,
           \A k \in DOMAIN contributors' :
               contributors'[k] \in Nat /\ k[1][2] \in 1 .. born[k[1][1]]
    PROVE  TypeOK'
  BY DEF TypeOK

LEMMA WithoutContributors ==
    ASSUME TypeOK, UNCHANGED <<project, values, born, cache, saves, serial, narrowed>>,
           NEW K, contributors' = Without(K)
    PROVE  TypeOK'
  <1>1. /\ DOMAIN contributors' \subseteq DOMAIN contributors
        /\ \A k \in DOMAIN contributors' : contributors'[k] = contributors[k]
    BY DEF Without
  <1> QED BY <1>1, ContributorsTyped DEF TypeOK

LEMMA ValuesTyped ==
    ASSUME TypeOK, UNCHANGED <<project, contributors, cache, saves, serial, narrowed>>,
           born' \in [Years -> Nat], \A y \in Years : born[y] <= born'[y],
           DOMAIN values' \subseteq Years,
           \A y \in DOMAIN values' : values'[y] \in Rows /\ values'[y].nth <= born'[y]
    PROVE  TypeOK'
  <1>1. \A k \in Keys : k[1][1] \in Years /\ k[1][2] \in Nat
    BY DEF Keys
  <1>2. \A k \in DOMAIN contributors : k[1][2] \in 1 .. born'[k[1][1]]
    BY <1>1 DEF TypeOK
  <1> QED BY <1>2 DEF TypeOK

LEMMA BornStays ==
    ASSUME TypeInv, UNCHANGED born
    PROVE  born' \in [Years -> Nat] /\ \A y \in Years : born[y] <= born'[y]
  BY DEF TypeInv, TypeOK

\* A statement that gives no id, and goes on with threads of its own level.
LEMMA OwnThreadsTyped ==
    ASSUME TypeInv, NEW r \in Requests, NEW t \in req[r].now, UNCHANGED born,
           NEW us, NEW later, later \in {{}, req[r].later},
           Resume(r, (req[r].now \ {t}) \cup us, later),
           \A u \in us : ThreadTyped(u, born),
           \A u \in us : u.op \in OpsOf(req[r].save.level) /\ u.op \notin ProjectOps
    PROVE  DOMAIN req' = Requests /\ \A q \in Requests : RequestTyped(req'[q], born')
  <1>1. MayFollow(r, t, us, born')
    BY DEF MayFollow
  <1>2. born' \in [Years -> Nat] /\ \A y \in Years : born[y] <= born'[y]
    BY BornStays
  <1> QED BY <1>1, <1>2, ResumeTyped

\* A statement that gives no id and goes on with no thread, or with the one
\* that follows.
LEMMA AdvanceTyped ==
    ASSUME TypeInv, NEW r \in Requests, NEW t \in req[r].now, NEW us, UNCHANGED born,
           Advance(r, t, us), us = {} \/ us = Following(t)
    PROVE  DOMAIN req' = Requests /\ \A q \in Requests : RequestTyped(req'[q], born')
  <1>1. MayFollow(r, t, us, born')
    BY ThreadIs, FollowingTyped DEF MayFollow
  <1> QED BY <1>1, BornStays, ResumeTyped DEF Advance

LEMMA NullColumnsTyped ==
    ASSUME TypeInv, NEW r \in Requests, NEW t \in req[r].now, NullColumns(r, t)
    PROVE  TypeInv'
  <1>1. DOMAIN req' = Requests /\ \A q \in Requests : RequestTyped(req'[q], born')
    BY AdvanceTyped DEF NullColumns
  <1>2. ASSUME NEW y \in DOMAIN values
        PROVE  values'[y] \in Rows /\ values'[y].nth <= born'[y]
    <2>1. values[y] \in Rows /\ values[y].nth <= born[y]
      BY DEF TypeInv, TypeOK
    <2> DEFINE a == WithoutSources(values[y].amount, t.sources)
    <2>2. a \in Amounts /\ Sum(a) \in Nat
      BY <2>1, WithoutTyped, SumTyped DEF Rows
    <2>3. values'[y] = [values[y] EXCEPT !.amount = a, !.total = Sum(a)]
      BY DEF NullColumns
    <2> HIDE DEF a
    <2> QED BY <2>1, <2>2, <2>3 DEF Rows, NullColumns
  <1>3. DOMAIN values' = DOMAIN values /\ DOMAIN values \subseteq Years /\ born \in [Years -> Nat]
    BY DEF NullColumns, TypeInv, TypeOK
  <1>4. TypeOK'
    BY <1>2, <1>3, BornStays, ValuesTyped DEF TypeInv, NullColumns
  <1> QED BY <1>1, <1>4 DEF TypeInv

LEMMA DeleteTypeTyped ==
    ASSUME TypeInv, NEW r \in Requests, NEW t \in req[r].now, DeleteType(r, t)
    PROVE  TypeInv'
  <1>1. PICK c \in t.sources :
            /\ contributors' = Without({k \in OfIds(Ids) : k[2] = c})
            /\ Advance(r, t, IF t.sources = {c} THEN {} ELSE {[t EXCEPT !.sources = @ \ {c}]})
    BY DEF DeleteType
  <1>2. UNCHANGED <<project, values, born, cache, saves, serial, narrowed>> /\ t.op = "deleteTypes"
    BY DEF DeleteType
  <1> DEFINE us == IF t.sources = {c} THEN {} ELSE {[t EXCEPT !.sources = @ \ {c}]}
  <1>3. \A u \in us : u = [t EXCEPT !.sources = t.sources \ {c}] /\ u.op = t.op
    BY ThreadIs DEF Thread
  <1>4. ThreadTyped([t EXCEPT !.sources = t.sources \ {c}], born')
    BY <1>2, ThreadIs, FewerSources
  <1>5. Advance(r, t, us)
    BY <1>1
  <1> HIDE DEF us
  <1>a. t.op \in OpsOf(req[r].save.level) /\ t.op \notin ProjectOps
    BY <1>2, ThreadIs DEF ProjectOps
  <1>6. DOMAIN req' = Requests /\ \A q \in Requests : RequestTyped(req'[q], born')
    <2>1. \A u \in us : ThreadTyped(u, born) /\ u.op \in OpsOf(req[r].save.level)
                         /\ u.op \notin ProjectOps
      BY <1>2, <1>3, <1>4, <1>a
    <2> QED BY <1>2, <1>5, <2>1, OwnThreadsTyped DEF Advance
  <1>7. TypeOK'
    BY <1>1, <1>2, WithoutContributors DEF TypeInv
  <1> QED BY <1>6, <1>7 DEF TypeInv

LEMMA FindTyped ==
    ASSUME TypeInv, NEW r \in Requests, NEW t \in req[r].now, Find(r, t)
    PROVE  TypeInv'
  <1> DEFINE ids == {Id(y) : y \in DOMAIN values \cap t.years}
             u == [t EXCEPT !.ids = ids]
             us == IF ids = {} /\ req[r].save.level # "CLEAR_STALE_DATA" THEN {} ELSE Following(u)
  <1>1. /\ UNCHANGED <<project, values, contributors, born, cache, saves, serial, narrowed>>
        /\ t.op \in {"findStored", "findCreated", "findEmptied", "findOutside"}
        /\ Advance(r, t, us)
    BY DEF Find
  <1>2. ids \in SUBSET (Years \X Nat) /\ \A id \in ids : id[2] \in 1 .. born[id[1]]
    BY IdsTyped DEF TypeInv
  <1>3. ThreadTyped(u, born) /\ u.op = t.op
    <2> HIDE DEF ids
    <2> QED BY <1>1, <1>2, ThreadIs, IdsFound DEF Thread
  <1>4. t.op \notin ProjectOps
    BY <1>1 DEF ProjectOps
  <1> HIDE DEF u
  <1>5. MayFollow(r, t, us, born')
    BY <1>1, <1>3, ThreadIs, FollowingTyped DEF MayFollow
  <1> HIDE DEF us
  <1>6. DOMAIN req' = Requests /\ \A q \in Requests : RequestTyped(req'[q], born')
    BY <1>1, <1>5, BornStays, ResumeTyped DEF Advance
  <1>7. TypeOK'
    BY <1>1 DEF TypeInv, TypeOK
  <1> QED BY <1>6, <1>7 DEF TypeInv

LEMMA ReadNamesTyped ==
    ASSUME TypeInv, NEW r \in Requests, NEW t \in req[r].now, ReadNames(r, t)
    PROVE  TypeInv'
  <1> DEFINE rows == {k \in OfIds(t.ids) : k[2] \in t.sources}
             stored == {k[3] : k \in rows}
             gone == stored \ t.names
  <1>1. UNCHANGED <<project, values, born, cache, saves, serial, narrowed>> /\ t.op = "names"
    BY DEF ReadNames
  <1>2. CASE t.names = {}
    <2>1. contributors' = Without(rows) /\ Advance(r, t, {})
      BY <1>2 DEF ReadNames
    <2>2. DOMAIN req' = Requests /\ \A q \in Requests : RequestTyped(req'[q], born')
      BY <1>1, <2>1, AdvanceTyped
    <2>3. TypeOK'
      BY <1>1, <2>1, WithoutContributors DEF TypeInv
    <2> QED BY <2>2, <2>3 DEF TypeInv
  <1>3. CASE t.names # {}
    <2>1. PICK f \in Pairings(gone, t.names \ stored) :
             Advance(r, t, IF gone = {} THEN {}
                           ELSE {[t EXCEPT !.op = "renames", !.left = {<<n, f[n]>> : n \in gone}]})
      BY <1>3 DEF ReadNames
    <2> DEFINE left == {<<n, f[n]>> : n \in gone}
               u == [t EXCEPT !.op = "renames", !.left = left]
               us == IF gone = {} THEN {} ELSE {u}
    <2>2. UNCHANGED contributors
      BY <1>3 DEF ReadNames
    <2>3. left \in SUBSET Pairs
      <3>1. stored \subseteq Names
        BY DEF OfIds, TypeInv, TypeOK, Keys
      <3>2. t.names \subseteq Names
        BY ThreadIs DEF Thread
      <3>3. f \in [gone -> (t.names \ stored) \cup {None}]
        BY DEF Pairings
      <3> HIDE DEF stored
      <3> QED BY <3>1, <3>2, <3>3 DEF Pairs
    <2> HIDE DEF left
    <2>4. ThreadTyped(u, born) /\ u.op = "renames"
      BY <1>1, <2>3, ThreadIs DEF ThreadTyped, Thread, Ops, RenameOps
    <2>5. "renames" \in OpsOf(req[r].save.level)
      BY <1>1, ThreadIs DEF OpsOf, RenameOps, PlaceholderOps, UpsertOps, EmptyOps,
         OutsideOps, ProjectOps
    <2>6. "renames" \notin ProjectOps
      BY DEF ProjectOps
    <2>7. Advance(r, t, us)
      BY <2>1 DEF left
    <2> HIDE DEF u, gone
    <2>8. DOMAIN req' = Requests /\ \A q \in Requests : RequestTyped(req'[q], born')
      <3>1. \A w \in us : w = u
        OBVIOUS
      <3> HIDE DEF us
      <3> QED BY <1>1, <2>4, <2>5, <2>6, <2>7, <3>1, OwnThreadsTyped DEF Advance
    <2>9. TypeOK'
      BY <1>1, <2>2 DEF TypeInv, TypeOK
    <2> QED BY <2>8, <2>9 DEF TypeInv
  <1> QED BY <1>2, <1>3

LEMMA RenameTyped ==
    ASSUME TypeInv, NEW r \in Requests, NEW t \in req[r].now, Rename(r, t)
    PROVE  TypeInv'
  <1>1. UNCHANGED <<project, values, born, cache, saves, serial, narrowed>> /\ t.op = "renames"
    BY DEF Rename
  <1>2. PICK e \in t.left :
        LET old == {k \in OfIds(t.ids) : k[2] \in t.sources /\ k[3] = e[1]}
            moved == {<<k[1], k[2], e[2]>> : k \in old}
            rest == IF t.left = {e} THEN {} ELSE {[t EXCEPT !.left = @ \ {e}]}
        IN  IF e[2] # None /\ moved \cap DOMAIN contributors # {}
            THEN /\ Resume(r, (req[r].now \ {t}) \cup rest, {})
                 /\ UNCHANGED contributors
            ELSE /\ contributors' =
                        IF e[2] = None THEN Without(old)
                        ELSE [k \in (DOMAIN contributors \ old) \cup moved |->
                                IF k \in moved THEN contributors[<<k[1], k[2], e[1]>>]
                                ELSE contributors[k]]
                 /\ Advance(r, t, rest)
    BY DEF Rename
  <1> DEFINE old == {k \in OfIds(t.ids) : k[2] \in t.sources /\ k[3] = e[1]}
             moved == {<<k[1], k[2], e[2]>> : k \in old}
             rest == IF t.left = {e} THEN {} ELSE {[t EXCEPT !.left = @ \ {e}]}
  <1>3. PICK later \in {{}, req[r].later} : Resume(r, (req[r].now \ {t}) \cup rest, later)
    BY <1>2 DEF Advance
  <1>4. e \in Pairs /\ t.left \subseteq Pairs
    BY <1>1, ThreadIs DEF ThreadTyped
  <1>5. \A u \in rest : ThreadTyped(u, born) /\ u.op = t.op
    BY <1>1, ThreadIs DEF ThreadTyped, Thread
  <1>6. DOMAIN req' = Requests /\ \A q \in Requests : RequestTyped(req'[q], born')
    <2> HIDE DEF rest
    <2>1. t.op \in OpsOf(req[r].save.level) /\ t.op \notin ProjectOps
      BY <1>1, ThreadIs DEF ProjectOps
    <2> QED BY <1>1, <1>3, <1>5, <2>1, OwnThreadsTyped
  <1>7. CASE UNCHANGED contributors
    <2>1. TypeOK'
      BY <1>1, <1>7 DEF TypeInv, TypeOK
    <2> QED BY <1>6, <2>1 DEF TypeInv
  <1>8. CASE contributors' = Without(old)
    <2>1. TypeOK'
      BY <1>1, <1>8, WithoutContributors DEF TypeInv
    <2> QED BY <1>6, <2>1 DEF TypeInv
  <1>9. CASE /\ e[2] # None
             /\ contributors' = [k \in (DOMAIN contributors \ old) \cup moved |->
                                IF k \in moved THEN contributors[<<k[1], k[2], e[1]>>]
                                ELSE contributors[k]]
    <2>1. e[2] \in Names
      BY <1>4, <1>9 DEF Pairs
    <2>2. ASSUME NEW k \in moved
          PROVE  /\ k \in Keys /\ k[1][2] \in 1 .. born[k[1][1]]
                 /\ contributors[<<k[1], k[2], e[1]>>] \in Nat
      <3>1. PICK o \in old : k = <<o[1], o[2], e[2]>>
        OBVIOUS
      <3>2. o \in DOMAIN contributors /\ o \in Keys /\ o[3] = e[1]
        BY DEF OfIds, TypeInv, TypeOK
      <3>3. o = <<k[1], k[2], e[1]>>
        BY <3>1, <3>2 DEF Keys
      <3>4. k \in Keys /\ k[1] = o[1]
        BY <2>1, <3>1, <3>2 DEF Keys
      <3> QED BY <3>2, <3>3, <3>4 DEF TypeInv, TypeOK
    <2>3. TypeOK'
      <3> HIDE DEF moved, old
      <3>1. \A k \in DOMAIN contributors' : /\ k \in Keys /\ contributors'[k] \in Nat
                                            /\ k[1][2] \in 1 .. born[k[1][1]]
        BY <1>9, <2>2 DEF TypeInv, TypeOK
      <3> QED BY <1>1, <3>1, ContributorsTyped DEF TypeInv
    <2> QED BY <1>6, <2>3 DEF TypeInv
  <1> QED BY <1>2, <1>7, <1>8, <1>9

LEMMA ReadRangeTyped ==
    ASSUME TypeInv, NEW r \in Requests, NEW t \in req[r].now, ReadRange(r, t)
    PROVE  TypeInv'
  <1> DEFINE ys == {y \in Years : InRange(y, project)}
             u == [t EXCEPT !.years = ys]
             us == IF None \in {project.start, project.end} THEN {} ELSE Following(u)
  <1>1. /\ UNCHANGED <<project, values, contributors, born, cache, saves, serial, narrowed>>
        /\ t.op = "range" /\ Advance(r, t, us)
    BY DEF ReadRange
  <1>2. ThreadTyped(u, born) /\ u.op = t.op
    <2>1. ys \in SUBSET Years
      OBVIOUS
    <2> HIDE DEF ys
    <2> QED BY <1>1, <2>1, ThreadIs, OtherYears DEF Thread
  <1> HIDE DEF u
  <1>3. MayFollow(r, t, us, born')
    BY <1>1, <1>2, ThreadIs, FollowingTyped DEF MayFollow
  <1> HIDE DEF us
  <1>4. DOMAIN req' = Requests /\ \A q \in Requests : RequestTyped(req'[q], born')
    BY <1>1, <1>3, BornStays, ResumeTyped DEF Advance
  <1>5. TypeOK'
    BY <1>1 DEF TypeInv, TypeOK
  <1> QED BY <1>4, <1>5 DEF TypeInv

\* A row that a year gets.
LEMMA NewRowTyped ==
    ASSUME TypeOK, NEW y \in Years, NEW a \in Amounts
    PROVE  NewRow(y, a) \in Rows /\ NewRow(y, a).nth = born[y] + 1
  BY SumTyped DEF TypeOK, NewRow, Rows

LEMMA CreateValuesTyped ==
    ASSUME TypeInv, NEW r \in Requests, NEW t \in req[r].now, CreateValues(r, t)
    PROVE  TypeInv'
  <1> DEFINE new == t.years \ DOMAIN values
  <1>1. /\ UNCHANGED <<project, contributors, cache, saves, serial, narrowed>>
        /\ values' = [y \in DOMAIN values \cup new |->
                            IF y \in new THEN NewRow(y, NoAmounts) ELSE values[y]]
        /\ born' = [y \in Years |-> IF y \in new THEN born[y] + 1 ELSE born[y]]
        /\ Advance(r, t, Following(t))
    BY DEF CreateValues
  <1>2. new \subseteq Years /\ DOMAIN values \subseteq Years
    BY ThreadIs DEF Thread, TypeInv, TypeOK
  <1>3. TypeOK
    BY DEF TypeInv
  <1> HIDE DEF new
  <1>4. born' \in [Years -> Nat] /\ \A y \in Years : born[y] <= born'[y]
    BY <1>1, <1>3 DEF TypeOK
  <1>5. ASSUME NEW y \in DOMAIN values'
        PROVE  values'[y] \in Rows /\ values'[y].nth <= born'[y]
    <2>1. CASE y \in new
      <3>1. values'[y] = NewRow(y, NoAmounts) /\ born'[y] = born[y] + 1 /\ y \in Years
        BY <1>1, <1>2, <2>1
      <3>2. NewRow(y, NoAmounts) \in Rows /\ NewRow(y, NoAmounts).nth = born[y] + 1
        BY <1>3, <3>1, NewRowTyped, NoAmountsTyped
      <3> QED BY <1>3, <3>1, <3>2 DEF TypeOK
    <2>2. CASE y \notin new
      <3>1. values'[y] = values[y] /\ born'[y] = born[y] /\ y \in DOMAIN values
        BY <1>1, <1>2, <2>2
      <3> QED BY <1>3, <3>1 DEF TypeOK
    <2> QED BY <2>1, <2>2
  <1>6. DOMAIN values' \subseteq Years
    BY <1>1, <1>2
  <1>7. TypeOK'
    BY <1>1, <1>3, <1>4, <1>5, <1>6, ValuesTyped
  <1>8. MayFollow(r, t, Following(t), born')
    <2>1. t.op # "renames" /\ RequestTyped(req[r], born')
      BY <1>3, <1>4, RequestStays DEF TypeInv, TypeOK, CreateValues
    <2>2. ThreadTyped(t, born')
      BY <2>1 DEF RequestTyped
    <2> QED BY <2>2, ThreadIs, FollowingTyped DEF MayFollow
  <1>9. DOMAIN req' = Requests /\ \A q \in Requests : RequestTyped(req'[q], born')
    BY <1>1, <1>4, <1>8, ResumeTyped DEF Advance
  <1> QED BY <1>7, <1>9 DEF TypeInv

LEMMA CreateContributorsTyped ==
    ASSUME TypeInv, NEW r \in Requests, NEW t \in req[r].now, CreateContributors(r, t)
    PROVE  TypeInv'
  <1> DEFINE new == (t.ids \X t.sources \X t.names) \ DOMAIN contributors
  <1>1. /\ UNCHANGED <<project, values, born, cache, saves, serial, narrowed>>
        /\ t.op = "createContributors" /\ Advance(r, t, {})
        /\ contributors' = [k \in DOMAIN contributors \cup new |->
                                IF k \in new THEN 0 ELSE contributors[k]]
    BY DEF CreateContributors
  <1>2. DOMAIN req' = Requests /\ \A q \in Requests : RequestTyped(req'[q], born')
    BY <1>1, AdvanceTyped
  <1>3. t.sources \subseteq Contributed /\ t.names \subseteq Names
    BY <1>1, ThreadIs DEF ThreadTyped, Thread, PlaceholderOps
  <1>4. ASSUME NEW k \in new
        PROVE  k \in Keys /\ k[1][2] \in 1 .. born[k[1][1]]
    BY <1>3, ThreadIs DEF Keys
  <1> HIDE DEF new
  <1>5. TypeOK'
    BY <1>1, <1>4, ContributorsTyped DEF TypeInv, TypeOK
  <1> QED BY <1>2, <1>5 DEF TypeInv

LEMMA UpsertValueTyped ==
    ASSUME TypeInv, NEW r \in Requests, NEW t \in req[r].now, UpsertValue(r, t)
    PROVE  TypeInv'
  <1>1. PICK y \in t.years :
        LET row == IF y \in DOMAIN values
                   THEN [values[y] EXCEPT !.amount = t.amount, !.total = Sum(t.amount)]
                   ELSE NewRow(y, t.amount)
        IN  /\ values' = [z \in DOMAIN values \cup {y} |-> IF z = y THEN row ELSE values[z]]
            /\ born' = [born EXCEPT ![y] = IF y \in DOMAIN values THEN @ ELSE @ + 1]
            /\ Advance(r, t, Following([t EXCEPT !.ids = {<<y, row.nth>>}]))
    BY DEF UpsertValue
  <1> DEFINE row == IF y \in DOMAIN values
                    THEN [values[y] EXCEPT !.amount = t.amount, !.total = Sum(t.amount)]
                    ELSE NewRow(y, t.amount)
             u == [t EXCEPT !.ids = {<<y, row.nth>>}]
  <1>2. /\ UNCHANGED <<project, contributors, cache, saves, serial, narrowed>> /\ t.op = "upsertValue"
    BY DEF UpsertValue
  <1>3. TypeOK /\ y \in Years /\ t.amount \in Amounts /\ Sum(t.amount) \in Nat
    BY ThreadIs, SumTyped DEF Thread, TypeInv
  <1>4. born' \in [Years -> Nat] /\ \A z \in Years : born[z] <= born'[z]
    BY <1>1, <1>3 DEF TypeOK
  <1>5. row \in Rows /\ row.nth <= born'[y] /\ row.nth \in 1 .. born'[y]
    <2>1. CASE y \in DOMAIN values
      <3>1. row = [values[y] EXCEPT !.amount = t.amount, !.total = Sum(t.amount)]
        BY <2>1
      <3>2. values[y] \in Rows /\ values[y].nth <= born[y] /\ born'[y] = born[y]
        BY <1>1, <1>3, <2>1 DEF TypeOK
      <3>3. row \in Rows /\ row.nth = values[y].nth
        <4> HIDE DEF row
        <4> QED BY <1>3, <3>1, <3>2 DEF Rows
      <3>4. values[y].nth \in Nat \ {0} /\ born[y] \in Nat
        BY <1>3, <3>2 DEF Rows, TypeOK
      <3> HIDE DEF row
      <3> QED BY <3>2, <3>3, <3>4
    <2>2. CASE y \notin DOMAIN values
      <3>1. row = NewRow(y, t.amount) /\ born'[y] = born[y] + 1 /\ born[y] \in Nat
        BY <1>1, <1>3, <2>2 DEF TypeOK
      <3> HIDE DEF row
      <3> QED BY <1>3, <3>1, NewRowTyped
    <2> QED BY <2>1, <2>2
  <1>6. /\ values' = [z \in DOMAIN values \cup {y} |-> IF z = y THEN row ELSE values[z]]
        /\ Advance(r, t, Following(u))
    BY <1>1
  <1> HIDE DEF row
  <1>7. TypeOK'
    <2>1. DOMAIN values' \subseteq Years
      BY <1>3, <1>6 DEF TypeOK
    <2>2. ASSUME NEW z \in DOMAIN values'
          PROVE  values'[z] \in Rows /\ values'[z].nth <= born'[z]
      <3>1. CASE z = y
        BY <1>5, <1>6, <3>1
      <3>2. CASE z # y
        <4>1. z \in DOMAIN values /\ values'[z] = values[z] /\ born'[z] = born[z]
          BY <1>1, <1>3, <1>6, <3>2 DEF TypeOK
        <4> QED BY <1>3, <4>1 DEF TypeOK
      <3> QED BY <3>1, <3>2
    <2> QED BY <1>2, <1>3, <1>4, <2>1, <2>2, ValuesTyped
  <1>8. ThreadTyped(u, born') /\ u.op = t.op
    <2>1. RequestTyped(req[r], born')
      BY <1>3, <1>4, RequestStays DEF TypeInv, TypeOK
    <2>2. ThreadTyped(t, born')
      BY <2>1 DEF RequestTyped
    <2>3. row.nth \in Nat
      BY <1>5 DEF Rows
    <2>4. {<<y, row.nth>>} \in SUBSET (Years \X Nat)
      BY <1>3, <2>3
    <2>5. \A id \in {<<y, row.nth>>} : id[2] \in 1 .. born'[id[1]]
      BY <1>5
    <2>6. ThreadTyped(u, born')
      <3> HIDE DEF row
      <3> QED BY <2>2, <2>4, <2>5, IdsFound
    <2>7. u.op = t.op
      BY <2>2 DEF ThreadTyped, Thread
    <2> QED BY <2>6, <2>7
  <1> HIDE DEF u
  <1>9. MayFollow(r, t, Following(u), born')
    BY <1>8, ThreadIs, FollowingTyped DEF MayFollow
  <1>10. DOMAIN req' = Requests /\ \A q \in Requests : RequestTyped(req'[q], born')
    BY <1>4, <1>6, <1>9, ResumeTyped DEF Advance
  <1> QED BY <1>7, <1>10 DEF TypeInv

LEMMA UpsertContributorsTyped ==
    ASSUME TypeInv, NEW r \in Requests, NEW t \in req[r].now, UpsertContributors(r, t)
    PROVE  TypeInv'
  <1>1. UNCHANGED <<project, values, born, cache, saves, serial, narrowed>> /\ t.op = "upsertContributors"
    BY DEF UpsertContributors
  <1>2. CASE t.left = {}
    <2>1. Advance(r, t, Following(t)) /\ UNCHANGED contributors
      BY <1>2 DEF UpsertContributors
    <2>2. DOMAIN req' = Requests /\ \A q \in Requests : RequestTyped(req'[q], born')
      BY <1>1, <2>1, AdvanceTyped
    <2>3. TypeOK'
      BY <1>1, <2>1 DEF TypeInv, TypeOK
    <2> QED BY <2>2, <2>3 DEF TypeInv
  <1>3. CASE t.left # {}
    <2>1. PICK e \in t.left, id \in t.ids :
            /\ contributors' = [k \in DOMAIN contributors \cup {<<id, e[1], e[2]>>} |->
                                  IF k = <<id, e[1], e[2]>> THEN e[3] ELSE contributors[k]]
            /\ Advance(r, t, {[t EXCEPT !.left = @ \ {e}]})
      BY <1>3 DEF UpsertContributors
    <2>2. e \in Gifts
      BY <1>1, ThreadIs DEF ThreadTyped
    <2> DEFINE n == <<id, e[1], e[2]>>
               u == [t EXCEPT !.left = t.left \ {e}]
    <2>3. n \in Keys /\ e[3] \in Nat /\ n[1][2] \in 1 .. born[n[1][1]]
      BY <2>2, ThreadIs DEF Gifts, Keys
    <2>4. ThreadTyped(u, born) /\ u.op = t.op
      BY <1>1, ThreadIs, FewerLeft DEF Thread
    <2>5. t.op \in OpsOf(req[r].save.level) /\ t.op \notin ProjectOps
      BY <1>1, ThreadIs DEF ProjectOps
    <2>6. Advance(r, t, {u})
      BY <2>1
    <2> HIDE DEF u, n
    <2>7. DOMAIN req' = Requests /\ \A q \in Requests : RequestTyped(req'[q], born')
      BY <1>1, <2>4, <2>5, <2>6, OwnThreadsTyped DEF Advance
    <2>8. TypeOK'
      <3>1. contributors' = [k \in DOMAIN contributors \cup {n} |->
                                  IF k = n THEN e[3] ELSE contributors[k]]
        BY <2>1 DEF n
      <3> QED BY <1>1, <2>3, <3>1, ContributorsTyped DEF TypeInv, TypeOK
    <2> QED BY <2>7, <2>8 DEF TypeInv
  <1> QED BY <1>2, <1>3

LEMMA DeletesTyped ==
    ASSUME TypeInv, NEW r \in Requests, NEW t \in req[r].now,
           DeleteStale(r, t) \/ DeleteContributors(r, t)
    PROVE  TypeInv'
  <1>1. /\ UNCHANGED <<project, values, born, cache, saves, serial, narrowed>>
        /\ Advance(r, t, {}) \/ Advance(r, t, Following(t))
        /\ \E K : contributors' = Without(K)
    BY DEF DeleteStale, DeleteContributors
  <1>2. DOMAIN req' = Requests /\ \A q \in Requests : RequestTyped(req'[q], born')
    BY <1>1, AdvanceTyped
  <1>3. TypeOK'
    BY <1>1, WithoutContributors DEF TypeInv
  <1> QED BY <1>2, <1>3 DEF TypeInv

LEMMA DeleteValuesTyped ==
    ASSUME TypeInv, NEW r \in Requests, NEW t \in req[r].now, DeleteValues(r, t)
    PROVE  TypeInv'
  <1>1. /\ UNCHANGED <<project, contributors, born, cache, saves, serial, narrowed>>
        /\ Advance(r, t, Following(t))
        /\ DOMAIN values' \subseteq DOMAIN values
        /\ \A y \in DOMAIN values' : values'[y] = values[y]
    BY DEF DeleteValues
  <1>2. DOMAIN req' = Requests /\ \A q \in Requests : RequestTyped(req'[q], born')
    BY <1>1, AdvanceTyped
  <1>3. TypeOK'
    BY <1>1 DEF TypeInv, TypeOK
  <1> QED BY <1>2, <1>3 DEF TypeInv

LEMMA ClearValuesTyped ==
    ASSUME TypeInv, NEW r \in Requests, NEW t \in req[r].now, ClearValues(r, t)
    PROVE  TypeInv'
  <1>1. /\ UNCHANGED <<project, contributors, born, cache, saves, serial, narrowed>>
        /\ Advance(r, t, Following(t))
        /\ values' = [y \in DOMAIN values |->
                        IF y \in RowsOf(t.ids)
                        THEN [values[y] EXCEPT !.amount = NoAmounts, !.total = 0] ELSE values[y]]
    BY DEF ClearValues
  <1>2. DOMAIN req' = Requests /\ \A q \in Requests : RequestTyped(req'[q], born')
    BY <1>1, AdvanceTyped
  <1>3. ASSUME NEW y \in DOMAIN values
        PROVE  values'[y] \in Rows /\ values'[y].nth <= born'[y]
    <2>1. values[y] \in Rows /\ values[y].nth <= born[y]
      BY DEF TypeInv, TypeOK
    <2>2. \/ values'[y] = [values[y] EXCEPT !.amount = NoAmounts, !.total = 0]
          \/ values'[y] = values[y]
      BY <1>1
    <2> QED BY <1>1, <2>1, <2>2, NoAmountsTyped DEF Rows
  <1>4. TypeOK'
    <2>1. DOMAIN values' = DOMAIN values
      BY <1>1
    <2> QED BY <1>1, <1>3, <2>1 DEF TypeInv, TypeOK
  <1> QED BY <1>2, <1>4 DEF TypeInv

LEMMA ClearContributorsTyped ==
    ASSUME TypeInv, NEW r \in Requests, NEW t \in req[r].now, ClearContributors(r, t)
    PROVE  TypeInv'
  <1>1. /\ UNCHANGED <<project, values, born, cache, saves, serial, narrowed>>
        /\ Advance(r, t, {})
        /\ DOMAIN contributors' = DOMAIN contributors
        /\ \A k \in DOMAIN contributors : contributors'[k] \in {0, contributors[k]}
    BY DEF ClearContributors
  <1>2. DOMAIN req' = Requests /\ \A q \in Requests : RequestTyped(req'[q], born')
    BY <1>1, AdvanceTyped
  <1>3. TypeOK'
    BY <1>1, ContributorsTyped DEF TypeInv, TypeOK
  <1> QED BY <1>2, <1>3 DEF TypeInv

LEMMA WriteProjectTyped ==
    ASSUME TypeInv, NEW r \in Requests, NEW t \in req[r].now, WriteProject(r, t)
    PROVE  TypeInv'
  <1>1. /\ UNCHANGED <<values, contributors, born, cache, saves, serial, narrowed>>
        /\ Advance(r, t, Following(t)) /\ project' = Saved(req[r].save)
    BY DEF WriteProject
  <1>2. DOMAIN req' = Requests /\ \A q \in Requests : RequestTyped(req'[q], born')
    BY <1>1, AdvanceTyped
  <1>3. project' \in Projects
    BY <1>1, ThreadIs, SavedTyped DEF TypeInv, TypeOK
  <1>4. TypeOK'
    BY <1>1, <1>3 DEF TypeInv, TypeOK
  <1> QED BY <1>2, <1>4 DEF TypeInv

LEMMA InvalidateTyped ==
    ASSUME TypeInv, NEW r \in Requests, NEW t \in req[r].now, Invalidate(r, t)
    PROVE  TypeInv'
  <1>1. /\ UNCHANGED <<project, values, contributors, born, saves, serial, narrowed>>
        /\ Advance(r, t, {}) /\ cache' = [cache EXCEPT ![req[r].at] = None]
    BY DEF Invalidate
  <1>2. DOMAIN req' = Requests /\ \A q \in Requests : RequestTyped(req'[q], born')
    BY <1>1, AdvanceTyped
  <1>3. TypeOK'
    BY <1>1 DEF TypeInv, TypeOK
  <1> QED BY <1>2, <1>3 DEF TypeInv

LEMMA FailTyped ==
    ASSUME TypeInv, NEW r \in Requests, NEW t \in req[r].now, Fail(r, t)
    PROVE  TypeInv'
  <1>1. /\ UNCHANGED <<project, values, contributors, born, cache, saves, serial, narrowed>>
        /\ Resume(r, (req[r].now \ {t}) \cup {}, {})
    BY DEF Fail
  <1>2. DOMAIN req' = Requests /\ \A q \in Requests : RequestTyped(req'[q], born')
    <2>1. MayFollow(r, t, {}, born')
      BY DEF MayFollow
    <2> QED BY <1>1, <2>1, BornStays, ResumeTyped
  <1>3. TypeOK'
    BY <1>1 DEF TypeInv, TypeOK
  <1> QED BY <1>2, <1>3 DEF TypeInv

LEMMA LoadTyped ==
    ASSUME TypeInv, NEW r \in Requests, NEW i \in Instances, NEW save \in Menu,
           Load(r, i, save)
    PROVE  TypeInv'
  <1> DEFINE p == IF cache[i] # None THEN cache[i] ELSE project
             q == [phase |-> "loaded", at |-> i, save |-> save, read |-> p,
                   before |-> contributors, now |-> {}, later |-> {}]
  <1>1. /\ UNCHANGED <<project, values, contributors, born, cache>>
        /\ saves < MaxSaves /\ saves' = saves + 1 /\ req' = [req EXCEPT ![r] = q]
    BY DEF Load
  <1>2. serial' \in BOOLEAN /\ narrowed' \in BOOLEAN
    BY DEF Load
  <1>3. p \in Projects
    BY DEF TypeInv, TypeOK
  <1> HIDE DEF p
  <1>4. RequestTyped(q, born)
    BY <1>3 DEF RequestTyped
  <1> HIDE DEF q
  <1>5. TypeOK'
    BY <1>1, <1>2, NumbersAssumption DEF TypeInv, TypeOK
  <1> QED BY <1>1, <1>4, <1>5 DEF TypeInv

LEMMA ValidateTyped ==
    ASSUME TypeInv, NEW r \in Requests, Validate(r)
    PROVE  TypeInv'
  <1> DEFINE q == req[r]
             p == IF Accepted(q.save, q.read) THEN Begin(q) ELSE Idle
  <1>1. /\ UNCHANGED <<project, values, contributors, born, saves, serial, narrowed>>
        /\ q.phase = "loaded" /\ req' = [req EXCEPT ![r] = p]
        /\ cache' = [cache EXCEPT ![q.at] = IF @ = None THEN q.read ELSE @]
    BY DEF Validate
  <1>2. /\ RequestTyped(q, born) /\ q.save \in Menu /\ q.read \in Projects
        /\ q.at \in Instances
    BY <1>1 DEF TypeInv, RequestTyped
  <1> HIDE DEF q
  <1>3. RequestTyped(Begin(q), born)
    <2>1. \A t \in Normalizers(q.save, q.read) :
             /\ ThreadTyped(t, born) /\ t.op \in OpsOf(q.save.level) \cup ProjectOps
             /\ t.op \notin ProjectOps
      BY <1>2, NormalizersTyped
    <2> QED BY <1>1, <1>2, <2>1, ProceedTyped DEF Begin
  <1>4. RequestTyped(p, born)
    BY <1>3, IdleTyped
  <1> HIDE DEF p
  <1>5. TypeOK'
    BY <1>1, <1>2 DEF TypeInv, TypeOK
  <1> QED BY <1>1, <1>4, <1>5 DEF TypeInv

LEMMA InitTyped ==
    ASSUME Init
    PROVE  TypeInv
  <1>1. PICK filled \in BOOLEAN, start \in Years, end \in Years :
           Stored(filled, start, end)
    BY DEF Init
  <1> DEFINE ys == IF filled THEN {end} ELSE {}
             cs == IF filled THEN Contributed ELSE {}
  <1>2. ys \subseteq Years /\ cs \subseteq Contributed /\ FirstName \in Names
    BY SourcesAssumption DEF FirstName
  <1>3. FilledAmount \in Amounts /\ Sum(FilledAmount) \in Nat
    <2>1. FilledAmount \in Amounts
      BY DEF FilledAmount, Amounts
    <2> QED BY <2>1, SumTyped
  <1>4. project \in Projects
    <2>1. [s \in Sources |-> filled] \in [Sources -> BOOLEAN]
      BY Zenon
    <2>2. [c \in Contributed |-> IF filled THEN {FirstName} ELSE {}]
             \in [Contributed -> SUBSET Names]
      BY <1>2
    <2> QED BY <1>1, <2>1, <2>2 DEF Projects, Stored
  <1>5. /\ values = [y \in ys |-> [nth |-> 1, amount |-> FilledAmount,
                                   total |-> Sum(FilledAmount)]]
        /\ contributors = [k \in {<<<<y, 1>>, c, FirstName>> : y \in ys, c \in cs} |-> 1]
        /\ born = [y \in Years |-> IF y \in ys THEN 1 ELSE 0]
    BY <1>1 DEF Stored
  <1> HIDE DEF ys, cs
  <1>6. TypeOK
    <2>1. /\ cache \in [Instances -> Projects \cup {None}]
          /\ saves \in 0 .. MaxSaves
      BY NumbersAssumption DEF Init
    <2>6. serial \in BOOLEAN /\ narrowed \in BOOLEAN
      BY Zenon DEF Init
    <2>2. DOMAIN values \subseteq Years /\ born \in [Years -> Nat]
      BY <1>2, <1>5
    <2>3. \A y \in DOMAIN values : values[y] \in Rows /\ values[y].nth <= born[y]
      BY <1>2, <1>3, <1>5 DEF Rows
    <2>4. ASSUME NEW k \in DOMAIN contributors
          PROVE  k \in Keys /\ contributors[k] \in Nat /\ k[1][2] \in 1 .. born[k[1][1]]
      <3>1. PICK y \in ys, c \in cs : k = <<<<y, 1>>, c, FirstName>>
        BY <1>5
      <3>2. contributors[k] = 1 /\ k[1] = <<y, 1>> /\ born[y] = 1
        BY <1>2, <1>5, <3>1
      <3> QED BY <1>2, <3>1, <3>2 DEF Keys
    <2> QED BY <1>4, <2>1, <2>2, <2>3, <2>4, <2>6 DEF TypeOK
  <1>7. DOMAIN req = Requests /\ \A r \in Requests : RequestTyped(req[r], born)
    BY IdleTyped DEF Init
  <1> QED BY <1>6, <1>7 DEF TypeInv

LEMMA StatementTyped ==
    ASSUME TypeInv, NEW r \in Requests, NEW t \in req[r].now, Statement(r, t)
    PROVE  TypeInv'
  BY NullColumnsTyped, DeleteTypeTyped, FindTyped, ReadNamesTyped, RenameTyped,
     ReadRangeTyped, CreateValuesTyped, CreateContributorsTyped, UpsertValueTyped,
     UpsertContributorsTyped, DeletesTyped, DeleteValuesTyped, ClearValuesTyped,
     ClearContributorsTyped, WriteProjectTyped, InvalidateTyped DEF Statement

LEMMA StutterTyped ==
    ASSUME TypeInv, UNCHANGED vars
    PROVE  TypeInv'
  BY DEF TypeInv, TypeOK, vars

LEMMA NextTyped ==
    ASSUME TypeInv, [Next]_vars
    PROVE  TypeInv'
  <1>1. CASE \E r \in Requests, i \in Instances, save \in Menu : Load(r, i, save)
    BY <1>1, LoadTyped
  <1>2. CASE \E r \in Requests : Validate(r)
    BY <1>2, ValidateTyped
  <1>3. CASE \E i \in Instances : Expire(i)
    BY <1>3 DEF TypeInv, TypeOK, Expire
  <1>4. CASE \E r \in Requests : \E t \in req[r].now : Statement(r, t) \/ Fail(r, t)
    BY <1>4, StatementTyped, FailTyped
  <1>5. CASE UNCHANGED vars
    BY <1>5, StutterTyped
  <1> QED BY <1>1, <1>2, <1>3, <1>4, <1>5 DEF Next

LEMMA AlwaysTyped == Spec => []TypeInv
  <1>1. Init => TypeInv
    BY InitTyped
  <1>2. TypeInv /\ [Next]_vars => TypeInv'
    BY NextTyped
  <1> QED BY <1>1, <1>2, PTL DEF Spec

(* The tables, the caches and the statements under way keep their shape,   *)
(* whatever saves run together, fail or read a stale cache: in particular  *)
(* a contributor's row only ever hangs on an id that a row of values had,  *)
(* although contributors are written by the id a statement found before    *)
(* (project-funding-contributors-service.js).                              *)
THEOREM FundingTypeCorrect == Spec => []TypeOK
  <1>1. TypeInv => TypeOK
    BY DEF TypeInv
  <1> QED BY <1>1, AlwaysTyped, PTL

-----------------------------------------------------------------------------
(***************************************************************************)
(* The totals.                                                             *)
(***************************************************************************)
LEMMA TotalOfChange ==
    ASSUME NEW row \in Rows, NEW a
    PROVE  LET new == [row EXCEPT !.amount = a, !.total = Sum(a)]
           IN  new.total = Sum(new.amount)
  BY DEF Rows

LEMMA StatementKeepsTotals ==
    ASSUME TypeInv, TotalIsSum, NEW r \in Requests, NEW t \in req[r].now, Statement(r, t)
    PROVE  TotalIsSum'
  <1>0. \A y \in DOMAIN values : values[y] \in Rows /\ values[y].total = Sum(values[y].amount)
    BY DEF TypeInv, TypeOK, TotalIsSum
  <1>1. CASE NullColumns(r, t)
    <2>1. ASSUME NEW y \in DOMAIN values
          PROVE  values'[y].total = Sum(values'[y].amount)
      <3> DEFINE a == WithoutSources(values[y].amount, t.sources)
      <3>1. values'[y] = [values[y] EXCEPT !.amount = a, !.total = Sum(a)]
        BY <1>1 DEF NullColumns
      <3> HIDE DEF a
      <3> QED BY <1>0, <3>1, TotalOfChange
    <2>2. DOMAIN values' = DOMAIN values
      BY <1>1 DEF NullColumns
    <2> QED BY <2>1, <2>2 DEF TotalIsSum
  <1>2. CASE CreateValues(r, t)
    <2> DEFINE new == t.years \ DOMAIN values
    <2>1. values' = [y \in DOMAIN values \cup new |->
                        IF y \in new THEN NewRow(y, NoAmounts) ELSE values[y]]
      BY <1>2 DEF CreateValues
    <2>2. \A y : NewRow(y, NoAmounts).total = Sum(NewRow(y, NoAmounts).amount)
      BY DEF NewRow
    <2> HIDE DEF new
    <2> QED BY <1>0, <2>1, <2>2 DEF TotalIsSum
  <1>3. CASE UpsertValue(r, t)
    <2>1. PICK y, row :
            /\ y \in t.years
            /\ values' = [z \in DOMAIN values \cup {y} |-> IF z = y THEN row ELSE values[z]]
            /\ row = IF y \in DOMAIN values
                     THEN [values[y] EXCEPT !.amount = t.amount, !.total = Sum(t.amount)]
                     ELSE NewRow(y, t.amount)
      BY <1>3 DEF UpsertValue
    <2>2. row.total = Sum(row.amount)
      <3>1. CASE y \in DOMAIN values
        BY <1>0, <2>1, <3>1, TotalOfChange
      <3>2. CASE y \notin DOMAIN values
        BY <2>1, <3>2 DEF NewRow
      <3> QED BY <3>1, <3>2
    <2> QED BY <1>0, <2>1, <2>2 DEF TotalIsSum
  <1>4. CASE DeleteValues(r, t)
    <2>1. DOMAIN values' \subseteq DOMAIN values /\ \A y \in DOMAIN values' : values'[y] = values[y]
      BY <1>4 DEF DeleteValues
    <2> QED BY <1>0, <2>1 DEF TotalIsSum
  <1>5. CASE ClearValues(r, t)
    <2>1. DOMAIN values' = DOMAIN values
      BY <1>5 DEF ClearValues
    <2>2. ASSUME NEW y \in DOMAIN values
          PROVE  values'[y].total = Sum(values'[y].amount)
      <3>1. \/ values'[y] = [values[y] EXCEPT !.amount = NoAmounts, !.total = 0]
            \/ values'[y] = values[y]
        BY <1>5 DEF ClearValues
      <3> QED BY <1>0, <3>1, NoAmountsTyped DEF Rows
    <2> QED BY <2>1, <2>2 DEF TotalIsSum
  <1>6. CASE UNCHANGED values
    BY <1>6 DEF TotalIsSum
  <1>7. \/ NullColumns(r, t) \/ CreateValues(r, t) \/ UpsertValue(r, t)
        \/ DeleteValues(r, t) \/ ClearValues(r, t) \/ UNCHANGED values
    BY DEF Statement, DeleteType, Find, ReadNames, Rename, ReadRange, CreateContributors,
       UpsertContributors, DeleteStale, DeleteContributors, ClearContributors,
       WriteProject, Invalidate
  <1> QED BY <1>1, <1>2, <1>3, <1>4, <1>5, <1>6, <1>7

(* The total of a year is the sum of its columns after every statement of  *)
(* every save, whichever of them run together, fail or were checked        *)
(* against a stale project: each UPDATE writes both                        *)
(* (project-funding-sources-service.js), and no reader sees them apart.    *)
THEOREM TotalsAreSums == Spec => []TotalIsSum
  <1>1. Init => TotalIsSum
    <2> SUFFICES ASSUME Init PROVE TotalIsSum
      OBVIOUS
    <2>1. PICK filled \in BOOLEAN, start \in Years, end \in Years :
             Stored(filled, start, end)
      BY DEF Init
    <2> QED BY <2>1 DEF Stored, TotalIsSum
  <1>2. TypeInv /\ TotalIsSum /\ [Next]_vars => TotalIsSum'
    <2> SUFFICES ASSUME TypeInv, TotalIsSum, [Next]_vars PROVE TotalIsSum'
      OBVIOUS
    <2>1. CASE \E r \in Requests : \E t \in req[r].now : Statement(r, t)
      BY <2>1, StatementKeepsTotals
    <2>2. CASE UNCHANGED values
      BY <2>2 DEF TotalIsSum
    <2>3. (\E r \in Requests : \E t \in req[r].now : Statement(r, t)) \/ UNCHANGED values
      BY DEF Next, Load, Validate, Expire, Fail, vars
    <2> QED BY <2>1, <2>2, <2>3
  <1> QED BY <1>1, <1>2, AlwaysTyped, PTL DEF Spec
-----------------------------------------------------------------------------
(***************************************************************************)
(* What holds while saves come one after the other.                        *)
(***************************************************************************)
RangeClean(p) ==
    ~narrowed => \A y \in Years : ~InRange(y, p) =>
        /\ y \in DOMAIN values => values[y].amount = NoAmounts
        /\ \A k \in DOMAIN contributors : k[1][1] = y => contributors[k] = 0

FlagsClean(p) ==
    \A s \in Sources : ~p.flag[s] =>
        /\ \A y \in DOMAIN values : values[y].amount[s] = 0
        /\ \A k \in DOMAIN contributors : k[2] = s => contributors[k] = 0

Orphanless == \A k \in DOMAIN contributors : k[1] \in Ids

\* The rows are as the project is about to be.
Ready(save) == RangeClean(Saved(save)) /\ FlagsClean(Saved(save))

\* What the statements before this one have done for it.
Claim(save, t) ==
    /\ t.op = "createContributors" => t.ids \subseteq Ids
    /\ t.op = "upsertValue" =>
           /\ \A s \in Sources : ~project.flag[s] => t.amount[s] = 0
           /\ \A e \in t.left : project.flag[e[1]]
    /\ t.op = "upsertContributors" =>
           /\ t.ids \subseteq Ids
           /\ \A e \in t.left : project.flag[e[1]]
    /\ t.op \in UpsertOps => \A y \in t.years : InRange(y, project)
    /\ t.op \in UpsertOps \cup EmptyOps => \A id \in t.ids : id[1] \in t.years
    /\ save.level = "CLEAR_STALE_DATA" =>
           /\ t.op = "findEmptied" => t.years = Years
           /\ t.op = "deleteContributors" => Ids \subseteq t.ids
           /\ t.op = "deleteValues" => DOMAIN contributors = {}
    /\ t.op = "deleteValues" => \A k \in DOMAIN contributors : k[1] \notin t.ids
    /\ t.op = "findOutside" => \A y \in Years : InRange(y, Saved(save)) \/ y \in t.years
    /\ t.op \in {"clearValues", "clearContributors"} =>
           \A y \in DOMAIN values : InRange(y, Saved(save)) \/ Id(y) \in t.ids
    /\ t.op = "clearContributors" =>
           \A y \in DOMAIN values : InRange(y, Saved(save)) \/ values[y].amount = NoAmounts
    /\ t.op = "project" => Ready(save)

\* The sources that a save drops.
Dropped(save) ==
    CASE save.level = "FUNDING_SOURCES_SELECTED" ->
            Gone(save) \cup (IF save.additional THEN {} ELSE Additional)
      [] save.level = "ADDITIONAL_FUNDING_SOURCES_GIA_SELECTED" -> Additional \ save.chosen
      [] OTHER -> {}

\* What a source that is dropped still has, a thread is about to remove.
Settling(save, now) ==
    \A s \in Dropped(save) :
        /\ \/ \A y \in DOMAIN values : values[y].amount[s] = 0
           \/ \E t \in now : t.op = "nullColumns" /\ s \in t.sources
        /\ \/ \A k \in DOMAIN contributors : k[2] # s
           \/ \E t \in now : t.op = "deleteTypes" /\ s \in t.sources

\* The threads of a save that run together do not meet.
Apart(save, now) ==
    \A t, u \in now : t # u =>
        /\ save.level \notin YearLevels \cup {"CLEAR_STALE_DATA"}
        /\ save.level = "FUNDING_SOURCES_ESTIMATED_SPEND" => t.years \cap u.years = {}
        /\ t.op \notin ProjectOps

Unwritten(q) == q.phase # "idle" /\ \A t \in q.now : t.op # "invalidate"

RequestInv(q) ==
    /\ Unwritten(q) => q.read = project
    /\ q.phase = "loaded" /\ ~narrowed => ~Narrows(q.save)
    /\ \A t \in q.now : Claim(q.save, t)
    /\ q.later # {} => q.now # {} /\ Settling(q.save, q.now)
    /\ Apart(q.save, q.now)

OneBusy == \A q, r \in Requests : req[q].phase # "idle" /\ req[r].phase # "idle" => q = r

RowsInv == Orphanless /\ RangeClean(project) /\ FlagsClean(project)
SerialInv == serial => RowsInv /\ OneBusy /\ \A r \in Requests : RequestInv(req[r])

-----------------------------------------------------------------------------
(***************************************************************************)
(* The request that a step goes on with; while saves are serial, it is the *)
(* only one under way.                                                     *)
(***************************************************************************)
LEMMA IdleInv == RequestInv(Idle)
  BY DEF RequestInv, Idle, Unwritten, Apart

LEMMA SavedStays ==
    ASSUME UNCHANGED project, NEW save
    PROVE  Saved(save)' = Saved(save)
  BY DEF Saved

LEMMA OthersIdle ==
    ASSUME TypeInv, SerialInv, serial, NEW r \in Requests, req[r].phase # "idle"
    PROVE  \A q \in Requests \ {r} : req[q].phase = "idle"
  BY DEF SerialInv, OneBusy

LEMMA GoIdle ==
    ASSUME TypeInv, SerialInv, serial, NEW r \in Requests, req[r].phase # "idle",
           req' = [req EXCEPT ![r] = Idle], RowsInv'
    PROVE  SerialInv'
  <1>1. /\ DOMAIN req = Requests /\ \A q \in Requests \ {r} : req'[q] = req[q]
        /\ req'[r] = Idle
    BY DEF TypeInv
  <1>2. \A q \in Requests : req'[q].phase = "idle" /\ req'[q].now = {} /\ req'[q].later = {}
    BY <1>1, OthersIdle, IdleTyped DEF TypeInv, RequestTyped
  <1>3. \A q \in Requests : RequestInv(req[q])'
    BY <1>2 DEF RequestInv, Unwritten, Apart
  <1>4. OneBusy'
    BY <1>2 DEF OneBusy
  <1> QED BY <1>3, <1>4 DEF SerialInv

LEMMA GoOn ==
    ASSUME TypeInv, SerialInv, serial, UNCHANGED project,
           NEW r \in Requests, Unwritten(req[r]), NEW save, save = req[r].save,
           NEW now, NEW later, later \in {{}, UpsertProject},
           req' = [req EXCEPT ![r] = Proceed(@, now, later)], RowsInv',
           \A u \in now : Claim(save, u)' /\ u.op \notin ProjectOps,
           Apart(save, now),
           later # {} /\ now # {} => Settling(save, now)',
           later # {} /\ now = {} => Ready(save)'
    PROVE  SerialInv'
  <1>1. /\ DOMAIN req = Requests /\ RequestTyped(req[r], born)
        /\ DOMAIN req' = Requests /\ \A q \in Requests \ {r} : req'[q] = req[q]
        /\ req'[r] = Proceed(req[r], now, later)
        /\ req[r].read = project /\ req[r].phase # "idle"
    BY DEF TypeInv, SerialInv, RequestInv, Unwritten
  <1>2. CASE now = {} /\ later = {}
    <2>1. DOMAIN req[r] = {"phase", "at", "save", "read", "before", "now", "later"}
      BY <1>1 DEF RequestTyped
    <2>2. Proceed(req[r], now, later) = Idle
      BY <1>2, <2>1, ProceedIs
    <2>3. req' = [req EXCEPT ![r] = Idle]
      BY <1>1, <2>2
    <2> QED BY <1>1, <2>3, GoIdle
  <1>3. CASE now # {} \/ later # {}
    <2>1. DOMAIN req[r] = {"phase", "at", "save", "read", "before", "now", "later"}
      BY <1>1 DEF RequestTyped
    <2>2. /\ req'[r].phase = "writing" /\ req'[r].save = save /\ req'[r].read = project
          /\ now # {} => req'[r].now = now /\ req'[r].later = later
          /\ now = {} => req'[r].now = UpsertProject /\ req'[r].later = {}
      <3> DEFINE p == Proceed(req[r], now, later)
      <3>1. /\ p.phase = "writing" /\ p.save = req[r].save /\ p.read = req[r].read
            /\ now # {} => p.now = now /\ p.later = later
            /\ now = {} /\ later # {} => p.now = later /\ p.later = {}
        BY <1>3, <2>1, ProceedIs
      <3> HIDE DEF p
      <3> QED BY <1>1, <1>3, <3>1 DEF p
    <2>3. \A q \in Requests \ {r} :
             req'[q].phase = "idle" /\ req'[q].now = {} /\ req'[q].later = {}
      BY <1>1, OthersIdle DEF TypeInv, RequestTyped
    <2>4. OneBusy'
      BY <2>3 DEF OneBusy
    <2>5. \A q \in Requests \ {r} : RequestInv(req[q])'
      BY <2>3 DEF RequestInv, Unwritten, Apart
    <2>6. RequestInv(req[r])'
      <3>1. (Unwritten(req[r]) => req[r].read = project)'
        BY <2>2
      <3>2. CASE now # {}
        BY <2>2, <3>1, <3>2 DEF RequestInv
      <3>3. CASE now = {}
        <4>1. UpsertProject = {Do("project")} /\ Do("project").op = "project"
          BY DoTyped DEF UpsertProject, Ops, ProjectOps
        <4>2. Ready(save)'
          BY <1>3, <3>3
        <4>3. Claim(save, Do("project"))'
          BY <4>1, <4>2 DEF Claim, UpsertOps, EmptyOps
        <4>4. Apart(save, UpsertProject)
          BY <4>1 DEF Apart
        <4>5. \A u \in UpsertProject : Claim(save, u)'
          BY <4>1, <4>3
        <4> QED BY <2>2, <3>1, <3>3, <4>4, <4>5 DEF RequestInv
      <3> QED BY <3>2, <3>3
    <2> QED BY <2>4, <2>5, <2>6 DEF SerialInv
  <1> QED BY <1>2, <1>3

\* Rows that are clean for the project are ready for a save that leaves its
\* range and flags alone, and for one whose sources are settled.
LEMMA SettledReady ==
    ASSUME TypeInv, TypeInv', UNCHANGED project, RowsInv', NEW save \in Menu,
           save.level \notin YearLevels \cup {"CLEAR_STALE_DATA", "TIMELINE"},
           Settling(save, {})'
    PROVE  Ready(save)'
  <1>1. /\ project \in Projects /\ Saved(save)' = Saved(save)
        /\ \A k \in DOMAIN contributors' : k[2] \in Contributed
    BY SavedStays DEF TypeInv, TypeOK, Keys
  <1>2. Saved(save).start = project.start /\ Saved(save).end = project.end
    <2> DEFINE start == Start(save, project)
               end == End(save, project)
    <2>1. start = project.start /\ end = project.end
      BY YearsSent
    <2>2. \/ Saved(save).start = project.start /\ Saved(save).end = project.end
          \/ Saved(save) = [project EXCEPT !.start = start, !.end = end]
      BY <1>1, PayloadShapes DEF Saved, Projects, YearLevels
    <2> HIDE DEF start, end
    <2> QED BY <1>1, <2>1, <2>2 DEF Projects
  <1>3. RangeClean(Saved(save))'
    BY <1>1, <1>2 DEF RowsInv, RangeClean, InRange
  <1>4. ASSUME NEW s \in Sources, ~Saved(save).flag[s]
        PROVE  \/ ~project.flag[s] \/ s \in Dropped(save)
    <2>1. CASE save.level = "FUNDING_SOURCES_SELECTED"
      <3>1. Saved(save).flag = [x \in Sources |->
                            IF x \in Additional THEN save.additional /\ project.flag[x]
                            ELSE x \in save.chosen]
        BY <1>1, <2>1 DEF Saved, Projects
      <3>2. s \in Main \cup Contributed \cup Additional
        BY DEF Sources
      <3> QED BY <1>4, <2>1, <3>1, <3>2 DEF Dropped, Gone
    <2>2. CASE save.level = "ADDITIONAL_FUNDING_SOURCES_GIA_SELECTED"
      <3>1. Saved(save).flag = [x \in Sources |->
                            IF x \in Additional THEN x \in save.chosen ELSE project.flag[x]]
        BY <1>1, <2>2 DEF Saved, Projects
      <3> QED BY <1>4, <2>2, <3>1 DEF Dropped
    <2>3. CASE save.level \notin {"FUNDING_SOURCES_SELECTED",
                                  "ADDITIONAL_FUNDING_SOURCES_GIA_SELECTED"}
      <3>1. Saved(save).flag = project.flag
        BY <1>1, <2>3, PayloadShapes DEF Saved, Projects, YearLevels
      <3> QED BY <1>4, <3>1
    <2> QED BY <2>1, <2>2, <2>3
  <1>5. FlagsClean(Saved(save))'
    BY <1>1, <1>4 DEF RowsInv, FlagsClean, Settling
  <1> QED BY <1>3, <1>5 DEF Ready

\* The threads that are left, and those that follow t, have after the step
\* what they need.
BesideClaim(save, rest) == \A u \in rest : Claim(save, u)'
Successors(save, t, us) ==
    /\ \A u, w \in us : u = w
    /\ \A u \in us : /\ Claim(save, u)' /\ u.op \notin ProjectOps
                     /\ save.level = "FUNDING_SOURCES_ESTIMATED_SPEND" => u.years = t.years

\* The threads beside t, when a statement of t removes and adds only what its
\* page may: a page of estimated spend, rows of the year of t; the page of
\* names, contributors.
LEMMA OtherClaims ==
    ASSUME TypeInv, SerialInv, serial, UNCHANGED project,
           NEW r \in Requests, NEW t \in req[r].now, NEW save, save = req[r].save,
           \A id \in Ids : id \in Ids' \/ (/\ save.level = "FUNDING_SOURCES_ESTIMATED_SPEND"
                                           /\ id[1] \in t.years),
           \A k \in DOMAIN contributors' :
              \/ k \in DOMAIN contributors \/ save.level = "CONTRIBUTORS"
              \/ save.level = "FUNDING_SOURCES_ESTIMATED_SPEND" /\ k[1][1] \in t.years
    PROVE  BesideClaim(save, req[r].now \ {t})
  <1> SUFFICES ASSUME NEW u \in req[r].now, u # t
               PROVE  Claim(save, u)'
    BY DEF BesideClaim
  <1>1. Claim(save, u) /\ Apart(save, req[r].now)
    BY DEF SerialInv, RequestInv
  <1>2. /\ save.level \notin YearLevels \cup {"CLEAR_STALE_DATA"} /\ u.op \notin ProjectOps
        /\ save.level = "FUNDING_SOURCES_ESTIMATED_SPEND" => t.years \cap u.years = {}
    BY <1>1 DEF Apart
  <1>3. u.op \in OpsOf(save.level) /\ save \in Menu
    BY <1>2, ThreadIs
  <1>4. CASE save.level \in {"FUNDING_SOURCES_SELECTED",
                             "ADDITIONAL_FUNDING_SOURCES_GIA_SELECTED"}
    <2>1. u.op \in {"nullColumns", "deleteTypes"}
      BY <1>3, <1>4 DEF OpsOf
    <2> QED BY <1>2, <1>4, <2>1 DEF Claim, UpsertOps, EmptyOps
  <1>5. CASE save.level = "CONTRIBUTORS"
    <2>1. u.op \in RenameOps \cup PlaceholderOps
      BY <1>3, <1>5 DEF OpsOf
    <2>2. u.op = "createContributors" => u.ids \subseteq Ids'
      BY <1>1, <1>5 DEF Claim
    <2> QED BY <1>2, <1>5, <2>1, <2>2
            DEF Claim, RenameOps, PlaceholderOps, UpsertOps, EmptyOps
  <1>6. CASE save.level = "FUNDING_SOURCES_ESTIMATED_SPEND"
    <2>1. u.op \in UpsertOps \cup EmptyOps
      BY <1>3, <1>6 DEF OpsOf
    <2>2. \A id \in u.ids : id[1] \in u.years
      BY <1>1, <2>1 DEF Claim
    <2>3. u.op = "upsertContributors" => u.ids \subseteq Ids'
      BY <1>1, <1>2, <1>6, <2>2 DEF Claim
    <2>4. u.op = "deleteValues" => \A k \in DOMAIN contributors' : k[1] \notin u.ids
      BY <1>1, <1>2, <1>6, <2>2 DEF Claim
    <2>5. u.op \notin {"createContributors", "findOutside", "clearValues",
                       "clearContributors", "project"}
      BY <2>1 DEF UpsertOps, EmptyOps
    <2> QED BY <1>1, <1>2, <1>6, <2>1, <2>2, <2>3, <2>4, <2>5 DEF Claim
  <1> QED BY <1>2, <1>3, <1>4, <1>5, <1>6, PayloadShapes DEF OpsOf, YearLevels

\* A statement that is not one of the project's, and goes on with one thread
\* at most.
LEMMA StepKeeps ==
    ASSUME TypeInv, TypeInv', SerialInv, serial, UNCHANGED project,
           NEW r \in Requests, NEW t \in req[r].now, t.op \notin ProjectOps,
           NEW save, save = req[r].save, NEW us,
           NEW now, now = (req[r].now \ {t}) \cup us,
           NEW later, later \in {{}, req[r].later}, Resume(r, now, later),
           RowsInv',
           BesideClaim(save, req[r].now \ {t}), Successors(save, t, us),
           later # {} => Settling(save, now)',
           (/\ later # {} /\ now = {}
            /\ save.level \in YearLevels \cup {"CLEAR_STALE_DATA"}) => Ready(save)'
    PROVE  SerialInv'
  <1>1. RequestInv(req[r]) /\ RequestTyped(req[r], born) /\ save \in Menu
        /\ req[r].phase = "writing"
    BY ThreadIs DEF SerialInv, TypeInv
  <1>2. Apart(save, req[r].now)
    BY <1>1 DEF RequestInv
  <1>3. \A u \in req[r].now : u.op \notin ProjectOps
    BY <1>2 DEF Apart
  <1>4. \A u \in now : Claim(save, u)' /\ u.op \notin ProjectOps
    BY <1>3 DEF BesideClaim, Successors
  <1>5. Unwritten(req[r])
    BY <1>1, <1>3 DEF Unwritten, ProjectOps
  <1>6. Apart(save, now)
    <2> SUFFICES ASSUME NEW u \in now, NEW w \in now, u # w
                 PROVE  /\ save.level \notin YearLevels \cup {"CLEAR_STALE_DATA"}
                        /\ save.level = "FUNDING_SOURCES_ESTIMATED_SPEND" =>
                               u.years \cap w.years = {}
                        /\ u.op \notin ProjectOps
      BY DEF Apart
    <2>1. CASE u \in us /\ w \in us
      BY <2>1 DEF Successors
    <2>2. CASE u \in us /\ w \notin us
      <3>1. /\ save.level \notin YearLevels \cup {"CLEAR_STALE_DATA"}
            /\ save.level = "FUNDING_SOURCES_ESTIMATED_SPEND" => t.years \cap w.years = {}
        BY <1>2, <2>2 DEF Apart
      <3> QED BY <1>4, <2>2, <3>1 DEF Successors
    <2>3. CASE u \notin us /\ w \in us
      <3>1. /\ save.level \notin YearLevels \cup {"CLEAR_STALE_DATA"}
            /\ save.level = "FUNDING_SOURCES_ESTIMATED_SPEND" => u.years \cap t.years = {}
        BY <1>2, <2>3 DEF Apart
      <3> QED BY <1>4, <2>3, <3>1 DEF Successors
    <2>4. CASE u \notin us /\ w \notin us
      BY <1>2, <2>4 DEF Apart
    <2> QED BY <2>1, <2>2, <2>3, <2>4
  <1>7. later \in {{}, UpsertProject}
    BY <1>1 DEF RequestTyped
  <1>8. later # {} /\ now = {} => Ready(save)'
    <2>1. t.op \in OpsOf(save.level)
      BY ThreadIs
    <2>2. save.level # "TIMELINE"
      BY <2>1 DEF OpsOf
    <2> QED BY <1>1, <2>2, SettledReady
  <1> QED BY <1>4, <1>5, <1>6, <1>7, <1>8, GoOn DEF Resume

LEMMA StepEnds ==
    ASSUME TypeInv, TypeInv', SerialInv, serial, UNCHANGED project,
           NEW r \in Requests, NEW t \in req[r].now, t.op \notin ProjectOps,
           NEW save, save = req[r].save, NEW now, now = req[r].now \ {t},
           Advance(r, t, {}) \/ Resume(r, now, {}), RowsInv', BesideClaim(save, now),
           req[r].later # {} => Settling(save, now)',
           (now = {} /\ save.level \in YearLevels \cup {"CLEAR_STALE_DATA"}) => Ready(save)'
    PROVE  SerialInv'
  <1>1. PICK later : later \in {{}, req[r].later} /\ Resume(r, now, later)
    <2>1. (req[r].now \ {t}) \cup {} = now
      OBVIOUS
    <2> QED BY <2>1 DEF Advance
  <1>2. PICK us : us = {}
    OBVIOUS
  <1>3. now = (req[r].now \ {t}) \cup us
    BY <1>2
  <1>4. Successors(save, t, us)
    BY <1>2 DEF Successors
  <1> QED BY <1>1, <1>3, <1>4, StepKeeps

LEMMA StepGoes ==
    ASSUME TypeInv, TypeInv', SerialInv, serial, UNCHANGED project,
           NEW r \in Requests, NEW t \in req[r].now, t.op \notin ProjectOps,
           NEW save, save = req[r].save, NEW u, NEW now, now = (req[r].now \ {t}) \cup {u},
           Advance(r, t, {u}) \/ Resume(r, now, {}), RowsInv',
           BesideClaim(save, req[r].now \ {t}), Claim(save, u)', u.op \notin ProjectOps,
           save.level = "FUNDING_SOURCES_ESTIMATED_SPEND" => u.years = t.years,
           req[r].later # {} => Settling(save, now)'
    PROVE  SerialInv'
  <1>1. PICK us : us = {u}
    OBVIOUS
  <1>2. now = (req[r].now \ {t}) \cup us
    BY <1>1
  <1>3. PICK later : later \in {{}, req[r].later} /\ Resume(r, now, later)
    BY DEF Advance
  <1>4. Successors(save, t, us)
    BY <1>1 DEF Successors
  <1>5. now # {}
    OBVIOUS
  <1> QED BY <1>2, <1>3, <1>4, <1>5, StepKeeps

-----------------------------------------------------------------------------
(***************************************************************************)
(* One lemma for each statement.                                           *)
(***************************************************************************)
LEMMA LevelOf ==
    ASSUME TypeInv, NEW r \in Requests, NEW t \in req[r].now
    PROVE  LET level == req[r].save.level
           IN  /\ t.op \in {"nullColumns", "deleteTypes"} =>
                      level \in {"FUNDING_SOURCES_SELECTED",
                                 "ADDITIONAL_FUNDING_SOURCES_GIA_SELECTED"}
               /\ t.op \in RenameOps \cup PlaceholderOps => level = "CONTRIBUTORS"
               /\ t.op \in UpsertOps => level = "FUNDING_SOURCES_ESTIMATED_SPEND"
               /\ t.op \in EmptyOps =>
                      level \in {"FUNDING_SOURCES_ESTIMATED_SPEND", "CLEAR_STALE_DATA"}
               /\ t.op \in OutsideOps => level \in YearLevels
  <1> DEFINE level == req[r].save.level
  <1>1. /\ t.op \in OpsOf(level) \cup ProjectOps /\ req[r].save \in Menu
        /\ level \in {"FUNDING_SOURCES_SELECTED",
                      "ADDITIONAL_FUNDING_SOURCES_GIA_SELECTED", "CONTRIBUTORS",
                      "FUNDING_SOURCES_ESTIMATED_SPEND", "CLEAR_STALE_DATA",
                      "TIMELINE"} \cup YearLevels
    BY ThreadIs, PayloadShapes
  <1> HIDE DEF level
  <1>2. /\ t.op \in {"nullColumns", "deleteTypes"} =>
               level \in {"FUNDING_SOURCES_SELECTED",
                          "ADDITIONAL_FUNDING_SOURCES_GIA_SELECTED"}
        /\ t.op \in RenameOps \cup PlaceholderOps => level = "CONTRIBUTORS"
        /\ t.op \in UpsertOps => level = "FUNDING_SOURCES_ESTIMATED_SPEND"
        /\ t.op \in EmptyOps =>
               level \in {"FUNDING_SOURCES_ESTIMATED_SPEND", "CLEAR_STALE_DATA"}
        /\ t.op \in OutsideOps => level \in YearLevels
    BY <1>1 DEF OpsOf, RenameOps, PlaceholderOps, UpsertOps, EmptyOps, OutsideOps,
       ProjectOps, YearLevels
  <1> QED BY <1>2 DEF level

LEMMA NothingDropped ==
    ASSUME NEW save, save.level \notin {"FUNDING_SOURCES_SELECTED",
                                        "ADDITIONAL_FUNDING_SOURCES_GIA_SELECTED"}
    PROVE  Dropped(save) = {}
  BY DEF Dropped

LEMMA SerialThread ==
    ASSUME TypeInv, SerialInv, serial, NEW r \in Requests, NEW t \in req[r].now
    PROVE  /\ Orphanless /\ RangeClean(project) /\ FlagsClean(project)
           /\ Claim(req[r].save, t) /\ Apart(req[r].save, req[r].now)
           /\ req[r].save.level \in YearLevels \cup {"CLEAR_STALE_DATA"} => req[r].now = {t}
  <1>1. Claim(req[r].save, t) /\ Apart(req[r].save, req[r].now) /\ RowsInv
    BY DEF SerialInv, RequestInv
  <1> QED BY <1>1 DEF Apart, RowsInv

LEMMA SameIds ==
    ASSUME DOMAIN values' = DOMAIN values,
           \A y \in DOMAIN values : values'[y].nth = values[y].nth
    PROVE  /\ Ids' = Ids /\ \A y \in DOMAIN values : Id(y)' = Id(y)
  BY DEF Ids, Id

\* Rows of contributors are removed, or their amounts set to nothing.
LEMMA FewerContributors ==
    ASSUME RowsInv, UNCHANGED <<project, values, narrowed>>,
           DOMAIN contributors' \subseteq DOMAIN contributors,
           \A k \in DOMAIN contributors' : contributors'[k] \in {0, contributors[k]}
    PROVE  RowsInv'
  <1>1. Ids' = Ids
    BY SameIds
  <1>2. Orphanless'
    BY <1>1 DEF RowsInv, Orphanless
  <1>3. RangeClean(project)'
    BY DEF RowsInv, RangeClean
  <1>4. FlagsClean(project)'
    BY DEF RowsInv, FlagsClean
  <1> QED BY <1>2, <1>3, <1>4 DEF RowsInv

LEMMA WithoutIsFewer ==
    ASSUME NEW K, contributors' = Without(K)
    PROVE  /\ DOMAIN contributors' = DOMAIN contributors \ K
           /\ \A k \in DOMAIN contributors' : contributors'[k] = contributors[k]
  BY DEF Without

LEMMA NullColumnsSerial ==
    ASSUME TypeInv, TypeInv', SerialInv, serial,
           NEW r \in Requests, NEW t \in req[r].now, NullColumns(r, t)
    PROVE  SerialInv'
  <1>1. /\ t.op = "nullColumns" /\ Advance(r, t, {})
        /\ UNCHANGED <<project, contributors, born, cache, saves, serial, narrowed>>
        /\ DOMAIN values' = DOMAIN values
    BY DEF NullColumns
  <1>2. \A y \in DOMAIN values :
           /\ values'[y].amount = WithoutSources(values[y].amount, t.sources)
           /\ values'[y].nth = values[y].nth
    BY DEF NullColumns, TypeInv, TypeOK, Rows
  <1>a. \A y \in DOMAIN values : \A s \in Sources :
           values'[y].amount[s] = IF s \in t.sources THEN 0 ELSE values[y].amount[s]
    BY <1>2 DEF WithoutSources
  <1>3. Ids' = Ids
    BY <1>1, <1>2, SameIds
  <1>4. PICK save : save = req[r].save
    OBVIOUS
  <1>5. PICK now : now = req[r].now \ {t}
    OBVIOUS
  <1>6. RowsInv /\ (req[r].later # {} => Settling(save, req[r].now))
    BY <1>4 DEF SerialInv, RequestInv
  <1>7. RowsInv'
    <2>1. Orphanless'
      BY <1>1, <1>3, <1>6 DEF RowsInv, Orphanless
    <2>2. WithoutSources(NoAmounts, t.sources) = NoAmounts
      BY DEF WithoutSources, NoAmounts
    <2>3. RangeClean(project)'
      BY <1>1, <1>2, <1>6, <2>2 DEF RowsInv, RangeClean
    <2>4. FlagsClean(project)'
      BY <1>1, <1>a, <1>6 DEF RowsInv, FlagsClean
    <2> QED BY <2>1, <2>3, <2>4 DEF RowsInv
  <1>8. t.op \notin ProjectOps /\ save.level \notin YearLevels \cup {"CLEAR_STALE_DATA"}
    BY <1>1, <1>4, LevelOf DEF ProjectOps, YearLevels
  <1>9. BesideClaim(save, now)
    BY <1>1, <1>3, <1>4, <1>5, OtherClaims
  <1>10. req[r].later # {} => Settling(save, now)'
    <2> SUFFICES ASSUME req[r].later # {}, NEW s \in Dropped(save)
                 PROVE  /\ \/ \A y \in DOMAIN values' : values'[y].amount[s] = 0
                           \/ \E u \in now : u.op = "nullColumns" /\ s \in u.sources
                        /\ \/ \A k \in DOMAIN contributors' : k[2] # s
                           \/ \E u \in now : u.op = "deleteTypes" /\ s \in u.sources
      BY DEF Settling
    <2>1. /\ \/ \A y \in DOMAIN values : values[y].amount[s] = 0
             \/ \E u \in req[r].now : u.op = "nullColumns" /\ s \in u.sources
          /\ \/ \A k \in DOMAIN contributors : k[2] # s
             \/ \E u \in req[r].now : u.op = "deleteTypes" /\ s \in u.sources
      BY <1>6 DEF Settling
    <2>2. s \in Sources
      BY DEF Dropped, Gone, Sources
    <2>3. \/ \A y \in DOMAIN values' : values'[y].amount[s] = 0
          \/ \E u \in now : u.op = "nullColumns" /\ s \in u.sources
      <3>1. CASE s \in t.sources
        BY <1>1, <1>a, <2>2, <3>1
      <3>2. CASE s \notin t.sources
        BY <1>1, <1>a, <1>5, <2>1, <2>2, <3>2
      <3> QED BY <3>1, <3>2
    <2> QED BY <1>1, <1>5, <2>1, <2>3
  <1> QED BY <1>1, <1>4, <1>5, <1>7, <1>8, <1>9, <1>10, StepEnds

LEMMA DeleteTypeSerial ==
    ASSUME TypeInv, TypeInv', SerialInv, serial,
           NEW r \in Requests, NEW t \in req[r].now, DeleteType(r, t)
    PROVE  SerialInv'
  <1>1. PICK c \in t.sources :
            /\ contributors' = Without({k \in OfIds(Ids) : k[2] = c})
            /\ Advance(r, t, IF t.sources = {c} THEN {} ELSE {[t EXCEPT !.sources = @ \ {c}]})
    BY DEF DeleteType
  <1>2. UNCHANGED <<project, values, born, cache, saves, serial, narrowed>> /\ t.op = "deleteTypes"
    BY DEF DeleteType
  <1>3. PICK save : save = req[r].save
    OBVIOUS
  <1>4. /\ DOMAIN contributors' = {k \in DOMAIN contributors : k[2] # c}
        /\ \A k \in DOMAIN contributors' : contributors'[k] = contributors[k]
    <2>1. {k \in OfIds(Ids) : k[2] = c} = {k \in DOMAIN contributors : k[2] = c}
      BY SerialThread DEF OfIds, Orphanless
    <2> QED BY <1>1, <2>1, WithoutIsFewer
  <1>5. Ids' = Ids /\ RowsInv'
    BY <1>2, <1>4, SameIds, FewerContributors DEF SerialInv
  <1>6. t.op \notin ProjectOps /\ save.level \notin YearLevels \cup {"CLEAR_STALE_DATA"}
        /\ save.level # "FUNDING_SOURCES_ESTIMATED_SPEND"
    BY <1>2, <1>3, LevelOf DEF ProjectOps, YearLevels
  <1>7. BesideClaim(save, req[r].now \ {t})
    BY <1>2, <1>3, <1>4, <1>5, OtherClaims
  <1>8. req[r].later # {} => Settling(save, req[r].now)
    BY <1>3 DEF SerialInv, RequestInv
  <1>9. \A s \in Dropped(save) :
           \A y \in DOMAIN values : values'[y].amount[s] = values[y].amount[s]
    BY <1>2
  <1>10. CASE t.sources = {c}
    <2>1. PICK now : now = req[r].now \ {t}
      OBVIOUS
    <2>2. req[r].later # {} => Settling(save, now)'
      BY <1>2, <1>4, <1>8, <1>10, <2>1 DEF Settling
    <2>3. Advance(r, t, {})
      BY <1>1, <1>10
    <2> QED BY <1>2, <1>3, <1>5, <1>6, <1>7, <2>1, <2>2, <2>3, StepEnds
  <1>11. CASE t.sources # {c}
    <2>1. PICK u : u = [t EXCEPT !.sources = t.sources \ {c}]
      OBVIOUS
    <2>2. u.op = "deleteTypes" /\ u.sources = t.sources \ {c}
      BY <1>2, <2>1, ThreadIs DEF Thread
    <2>3. PICK now : now = (req[r].now \ {t}) \cup {u}
      OBVIOUS
    <2>4. req[r].later # {} => Settling(save, now)'
      BY <1>2, <1>4, <1>8, <2>2, <2>3 DEF Settling
    <2>5. Advance(r, t, {u})
      BY <1>1, <1>11, <2>1
    <2>6. Claim(save, u)' /\ u.op \notin ProjectOps
      BY <1>6, <2>2 DEF Claim, UpsertOps, EmptyOps, ProjectOps
    <2> QED BY <1>2, <1>3, <1>5, <1>6, <1>7, <2>3, <2>4, <2>5, <2>6, StepGoes
  <1> QED BY <1>10, <1>11

\* Nothing is dropped by the other levels.
LEMMA NothingSettles ==
    ASSUME NEW save, save.level \notin {"FUNDING_SOURCES_SELECTED",
                                        "ADDITIONAL_FUNDING_SOURCES_GIA_SELECTED"}, NEW now
    PROVE  Settling(save, now)'
  BY NothingDropped DEF Settling

LEMMA SameTables ==
    ASSUME SerialInv, serial, UNCHANGED <<project, values, contributors>>,
           narrowed => narrowed'
    PROVE  RowsInv' /\ Ids' = Ids
  BY SameIds DEF SerialInv, RowsInv, Orphanless, RangeClean, FlagsClean

LEMMA FindSerial ==
    ASSUME TypeInv, TypeInv', SerialInv, serial,
           NEW r \in Requests, NEW t \in req[r].now, Find(r, t)
    PROVE  SerialInv'
  <1>0. PICK ids : ids = {Id(y) : y \in DOMAIN values \cap t.years}
    OBVIOUS
  <1>1. /\ UNCHANGED <<project, values, contributors, born, cache, saves, serial, narrowed>>
        /\ t.op \in {"findStored", "findCreated", "findEmptied", "findOutside"}
        /\ Advance(r, t, IF ids = {} /\ req[r].save.level # "CLEAR_STALE_DATA" THEN {}
                         ELSE Following([t EXCEPT !.ids = ids]))
    BY <1>0 DEF Find
  <1>2. PICK save : save = req[r].save
    OBVIOUS
  <1>3. RowsInv' /\ Ids' = Ids
    BY <1>1, SameTables
  <1>4. BesideClaim(save, req[r].now \ {t})
    BY <1>1, <1>2, <1>3, OtherClaims
  <1>5. t.op \notin ProjectOps /\ save.level \notin {"FUNDING_SOURCES_SELECTED",
                                        "ADDITIONAL_FUNDING_SOURCES_GIA_SELECTED"}
    BY <1>1, <1>2, LevelOf
       DEF ProjectOps, YearLevels, RenameOps, PlaceholderOps, EmptyOps, OutsideOps
  <1>6. /\ Claim(save, t) /\ Orphanless
        /\ \A y \in DOMAIN values : y \in Years /\ Id(y)[1] = y
    BY <1>2, SerialThread, IdsTyped DEF TypeInv, TypeOK
  <1>7. Saved(save)' = Saved(save)
    BY <1>1, SavedStays
  <1>8. CASE ids = {} /\ req[r].save.level # "CLEAR_STALE_DATA"
    <2>1. PICK now : now = req[r].now \ {t}
      OBVIOUS
    <2>2. Advance(r, t, {})
      BY <1>1, <1>8
    <2>3. ASSUME save.level \in YearLevels
          PROVE  Ready(save)'
      <3>1. t.op = "findOutside"
        BY <1>1, <1>2, <2>3, LevelOf DEF YearLevels, RenameOps, PlaceholderOps, EmptyOps
      <3>2. \A y \in DOMAIN values : InRange(y, Saved(save))
        BY <1>0, <1>6, <1>8, <3>1 DEF Claim
      <3>3. \A k \in DOMAIN contributors : k[1] \in Ids
        BY <1>6 DEF Orphanless
      <3>4. \A k \in DOMAIN contributors : InRange(k[1][1], Saved(save))
        BY <1>6, <3>2, <3>3 DEF Ids
      <3>5. RangeClean(Saved(save))'
        BY <1>1, <1>7, <3>2, <3>4 DEF RangeClean
      <3>6. Saved(save).flag = project.flag
        BY <2>3 DEF Saved, YearLevels, TypeInv, TypeOK, Projects
      <3>7. FlagsClean(Saved(save))'
        BY <1>1, <1>3, <1>7, <3>6 DEF FlagsClean, RowsInv
      <3> QED BY <3>5, <3>7 DEF Ready
    <2>4. Settling(save, now)'
      BY <1>5, NothingSettles
    <2> QED BY <1>1, <1>2, <1>3, <1>4, <1>5, <1>8, <2>1, <2>2, <2>3, <2>4, StepEnds
  <1>9. CASE ~(ids = {} /\ req[r].save.level # "CLEAR_STALE_DATA")
    <2>1. PICK f : f = [t EXCEPT !.ids = ids]
      OBVIOUS
    <2>2. f \in Thread /\ f.op = t.op /\ f.ids = ids /\ f.years = t.years
      <3>1. ids \in SUBSET (Years \X Nat)
        BY <1>0, IdsTyped DEF TypeInv
      <3> QED BY <2>1, <3>1, ThreadIs DEF Thread
    <2>3. PICK u : u = [f EXCEPT !.op = After[f.op]]
      OBVIOUS
    <2>4. Following(f) = {u}
      BY <1>1, <2>2, <2>3 DEF Following, After
    <2>5. /\ u.ids = ids /\ u.years = t.years
          /\ u.op = CASE t.op = "findStored" -> "names"
                      [] t.op = "findCreated" -> "createContributors"
                      [] t.op = "findEmptied" -> "deleteContributors"
                      [] OTHER -> "clearValues"
      BY <1>1, <2>2, <2>3 DEF After, Thread
    <2>6. PICK now : now = (req[r].now \ {t}) \cup {u}
      OBVIOUS
    <2>7. Advance(r, t, {u})
      BY <1>1, <1>9, <2>1, <2>4
    <2>8. u.op \notin ProjectOps
      BY <1>1, <2>5 DEF ProjectOps
    <2>9. Claim(save, u)'
      <3>1. ids \subseteq Ids /\ \A id \in ids : id[1] \in t.years
        BY <1>0, <1>6 DEF Ids
      <3>2. CASE t.op = "findStored"
        BY <2>5, <3>2, <1>1, <1>2, LevelOf DEF Claim, UpsertOps, EmptyOps, RenameOps
      <3>3. CASE t.op = "findCreated"
        BY <1>1, <1>2, <1>3, <2>5, <3>1, <3>3, LevelOf
           DEF Claim, UpsertOps, EmptyOps, PlaceholderOps
      <3>4. CASE t.op = "findEmptied"
        <4>1. save.level = "CLEAR_STALE_DATA" => Ids \subseteq ids
          <5> SUFFICES ASSUME save.level = "CLEAR_STALE_DATA", NEW id \in Ids
                       PROVE  id \in ids
            OBVIOUS
          <5>1. t.years = Years
            BY <1>6, <3>4 DEF Claim
          <5> QED BY <1>0, <1>6, <5>1 DEF Ids
        <4> QED BY <1>3, <2>5, <3>1, <3>4, <4>1 DEF Claim, UpsertOps, EmptyOps
      <3>5. CASE t.op = "findOutside"
        <4>1. \A y \in DOMAIN values : InRange(y, Saved(save)) \/ Id(y) \in ids
          BY <1>0, <1>6, <3>5 DEF Claim
        <4>2. \A y \in DOMAIN values : Id(y)' = Id(y)
          BY <1>1 DEF Id
        <4>3. save.level # "CLEAR_STALE_DATA"
          BY <1>2, <3>5, LevelOf DEF OutsideOps, YearLevels
        <4> QED BY <1>1, <1>7, <2>5, <3>5, <4>1, <4>2, <4>3 DEF Claim, UpsertOps, EmptyOps
      <3> QED BY <1>1, <3>2, <3>3, <3>4, <3>5
    <2>10. Settling(save, now)'
      BY <1>5, NothingSettles
    <2> QED BY <1>1, <1>2, <1>3, <1>4, <1>5, <2>5, <2>6, <2>7, <2>8, <2>9, <2>10, StepGoes
  <1> QED BY <1>8, <1>9

\* A step of the page of names: it claims nothing but for the rows it makes.
LEMMA NamesLevel ==
    ASSUME NEW save, save.level = "CONTRIBUTORS"
    PROVE  /\ save.level \notin YearLevels \cup {"CLEAR_STALE_DATA"}
           /\ save.level # "FUNDING_SOURCES_ESTIMATED_SPEND"
           /\ \A now : Settling(save, now)'
           /\ \A u : u.op \in {"renames", "createValues", "findCreated"} =>
                  Claim(save, u)' /\ u.op \notin ProjectOps
  <1>1. \A now : Settling(save, now)'
    BY NothingSettles
  <1>2. \A u : u.op \in {"renames", "createValues", "findCreated"} =>
                  Claim(save, u)' /\ u.op \notin ProjectOps
    BY DEF Claim, UpsertOps, EmptyOps, ProjectOps
  <1> QED BY <1>1, <1>2 DEF YearLevels

LEMMA NamesGoes ==
    ASSUME TypeInv, TypeInv', SerialInv, serial, UNCHANGED project,
           NEW r \in Requests, NEW t \in req[r].now, t.op \notin ProjectOps,
           NEW save, save = req[r].save, save.level = "CONTRIBUTORS",
           NEW u, u.op \in {"renames", "createValues", "findCreated"},
           NEW now, now = (req[r].now \ {t}) \cup {u},
           Advance(r, t, {u}) \/ Resume(r, now, {}), RowsInv',
           BesideClaim(save, req[r].now \ {t})
    PROVE  SerialInv'
  <1>1. /\ Claim(save, u)' /\ u.op \notin ProjectOps
        /\ save.level # "FUNDING_SOURCES_ESTIMATED_SPEND" /\ Settling(save, now)'
    BY NamesLevel
  <1> QED BY <1>1, StepGoes

LEMMA ReadNamesSerial ==
    ASSUME TypeInv, TypeInv', SerialInv, serial,
           NEW r \in Requests, NEW t \in req[r].now, ReadNames(r, t)
    PROVE  SerialInv'
  <1>1. UNCHANGED <<project, values, born, cache, saves, serial, narrowed>> /\ t.op = "names"
    BY DEF ReadNames
  <1>2. PICK save : save = req[r].save
    OBVIOUS
  <1>3. save.level = "CONTRIBUTORS" /\ t.op \notin ProjectOps
    BY <1>1, <1>2, LevelOf DEF RenameOps, ProjectOps
  <1>4. /\ DOMAIN contributors' \subseteq DOMAIN contributors
        /\ \A k \in DOMAIN contributors' : contributors'[k] = contributors[k]
    BY WithoutIsFewer DEF ReadNames
  <1>5. RowsInv' /\ Ids' = Ids
    BY <1>1, <1>4, FewerContributors, SameIds DEF SerialInv
  <1>6. BesideClaim(save, req[r].now \ {t})
    BY <1>1, <1>2, <1>4, <1>5, OtherClaims
  <1>7. CASE Advance(r, t, {})
    <2>1. PICK now : now = req[r].now \ {t}
      OBVIOUS
    <2> QED BY <1>1, <1>2, <1>3, <1>5, <1>6, <1>7, <2>1, NamesLevel, StepEnds
  <1>8. CASE \E u : u.op = "renames" /\ Advance(r, t, {u})
    <2>1. PICK u : u.op = "renames" /\ Advance(r, t, {u})
      BY <1>8
    <2>2. PICK now : now = (req[r].now \ {t}) \cup {u}
      OBVIOUS
    <2>3. Advance(r, t, {u}) \/ Resume(r, now, {})
      BY <2>1
    <2>4. UNCHANGED project
      BY <1>1
    <2>5. u.op = "renames"
      BY <2>1
    <2>6. RowsInv'
      BY <1>5
    <2> QED BY <1>2, <1>3, <1>6, <2>2, <2>3, <2>4, <2>5, <2>6, NamesGoes
  <1>9. Advance(r, t, {}) \/ \E u : u.op = "renames" /\ Advance(r, t, {u})
    <2> DEFINE rows == {k \in OfIds(t.ids) : k[2] \in t.sources}
               stored == {k[3] : k \in rows}
               gone == stored \ t.names
    <2>1. CASE t.names = {}
      BY <2>1 DEF ReadNames
    <2>2. CASE t.names # {}
      <3>1. PICK f \in Pairings(gone, t.names \ stored) :
               Advance(r, t, IF gone = {} THEN {}
                             ELSE {[t EXCEPT !.op = "renames", !.left = {<<n, f[n]>> : n \in gone}]})
        BY <2>2 DEF ReadNames
      <3>2. PICK u : u = [t EXCEPT !.op = "renames", !.left = {<<n, f[n]>> : n \in gone}]
        OBVIOUS
      <3>3. u.op = "renames"
        BY <3>2, ThreadIs DEF Thread
      <3> QED BY <3>1, <3>2, <3>3
    <2> QED BY <2>1, <2>2
  <1> QED BY <1>7, <1>8, <1>9

LEMMA RenameSerial ==
    ASSUME TypeInv, TypeInv', SerialInv, serial,
           NEW r \in Requests, NEW t \in req[r].now, Rename(r, t)
    PROVE  SerialInv'
  <1>1. UNCHANGED <<project, values, born, cache, saves, serial, narrowed>> /\ t.op = "renames"
    BY DEF Rename
  <1>2. PICK save : save = req[r].save
    OBVIOUS
  <1>3. save.level = "CONTRIBUTORS" /\ t.op \notin ProjectOps
    BY <1>1, <1>2, LevelOf DEF RenameOps, ProjectOps
  <1>4. PICK e \in t.left :
        LET old == {k \in OfIds(t.ids) : k[2] \in t.sources /\ k[3] = e[1]}
            moved == {<<k[1], k[2], e[2]>> : k \in old}
            rest == IF t.left = {e} THEN {} ELSE {[t EXCEPT !.left = @ \ {e}]}
        IN  IF e[2] # None /\ moved \cap DOMAIN contributors # {}
            THEN /\ Resume(r, (req[r].now \ {t}) \cup rest, {})
                 /\ UNCHANGED contributors
            ELSE /\ contributors' =
                        IF e[2] = None THEN Without(old)
                        ELSE [k \in (DOMAIN contributors \ old) \cup moved |->
                                IF k \in moved THEN contributors[<<k[1], k[2], e[1]>>]
                                ELSE contributors[k]]
                 /\ Advance(r, t, rest)
    BY DEF Rename
  <1> DEFINE old == {k \in OfIds(t.ids) : k[2] \in t.sources /\ k[3] = e[1]}
             moved == {<<k[1], k[2], e[2]>> : k \in old}
             rest == IF t.left = {e} THEN {} ELSE {[t EXCEPT !.left = @ \ {e}]}
  \* A row of before, with the same id, source and amount.
  <1>5. \A k \in DOMAIN contributors' : \E o \in DOMAIN contributors :
           k[1] = o[1] /\ k[2] = o[2] /\ contributors'[k] = contributors[o]
    <2>1. CASE UNCHANGED contributors
      BY <2>1
    <2>2. CASE contributors' = Without(old)
      BY <2>2, WithoutIsFewer
    <2>3. CASE contributors' = [k \in (DOMAIN contributors \ old) \cup moved |->
                                IF k \in moved THEN contributors[<<k[1], k[2], e[1]>>]
                                ELSE contributors[k]]
      <3>1. ASSUME NEW k \in moved
            PROVE  \E o \in DOMAIN contributors :
                      k[1] = o[1] /\ k[2] = o[2]
                      /\ contributors[<<k[1], k[2], e[1]>>] = contributors[o]
        <4>1. PICK o \in old : k = <<o[1], o[2], e[2]>>
          OBVIOUS
        <4>2. o \in DOMAIN contributors /\ o \in Keys /\ o[3] = e[1]
          BY DEF OfIds, TypeInv, TypeOK
        <4>3. o = <<k[1], k[2], e[1]>>
          BY <4>1, <4>2 DEF Keys
        <4>4. k[1] = o[1] /\ k[2] = o[2]
          BY <4>1
        <4> QED BY <4>2, <4>3, <4>4
      <3> HIDE DEF moved, old
      <3> QED BY <2>3, <3>1
    <2> QED BY <1>4, <2>1, <2>2, <2>3
  <1>6. Ids' = Ids
    BY <1>1, SameIds
  <1>7. RowsInv'
    <2>1. Orphanless'
      BY <1>5, <1>6, SerialThread DEF Orphanless
    <2>2. RangeClean(project)'
      BY <1>1, <1>5, SerialThread DEF RangeClean
    <2>3. FlagsClean(project)'
      BY <1>1, <1>5, SerialThread DEF FlagsClean
    <2> QED BY <2>1, <2>2, <2>3 DEF RowsInv
  <1>8. BesideClaim(save, req[r].now \ {t})
    BY <1>1, <1>2, <1>3, <1>6, OtherClaims
  <1>9. Advance(r, t, rest) \/ Resume(r, (req[r].now \ {t}) \cup rest, {})
    BY <1>4
  <1>10. CASE t.left = {e}
    <2>1. PICK now : now = req[r].now \ {t}
      OBVIOUS
    <2>2. rest = {} /\ (req[r].now \ {t}) \cup {} = now
      BY <1>10, <2>1
    <2>3. Advance(r, t, {}) \/ Resume(r, now, {})
      <3> HIDE DEF rest
      <3> QED BY <1>9, <2>2
    <2> QED BY <1>1, <1>2, <1>3, <1>7, <1>8, <2>1, <2>3, NamesLevel, StepEnds
  <1>11. CASE t.left # {e}
    <2>1. PICK u : u = [t EXCEPT !.left = t.left \ {e}]
      OBVIOUS
    <2>2. u.op = "renames"
      BY <1>1, <2>1, ThreadIs DEF Thread
    <2>3. PICK now : now = (req[r].now \ {t}) \cup {u}
      OBVIOUS
    <2>4. rest = {u}
      BY <1>11, <2>1
    <2>5. Advance(r, t, {u}) \/ Resume(r, now, {})
      <3> HIDE DEF rest
      <3> QED BY <1>9, <2>3, <2>4
    <2>6. UNCHANGED project
      BY <1>1
    <2> HIDE DEF rest, moved, old
    <2> QED BY <1>2, <1>3, <1>7, <1>8, <2>2, <2>3, <2>5, <2>6, NamesGoes
  <1> QED BY <1>10, <1>11

LEMMA ReadRangeSerial ==
    ASSUME TypeInv, TypeInv', SerialInv, serial,
           NEW r \in Requests, NEW t \in req[r].now, ReadRange(r, t)
    PROVE  SerialInv'
  <1>0. PICK f : f = [t EXCEPT !.years = {y \in Years : InRange(y, project)}]
    OBVIOUS
  <1>1. /\ UNCHANGED <<project, values, contributors, born, cache, saves, serial, narrowed>>
        /\ t.op = "range"
        /\ Advance(r, t, IF None \in {project.start, project.end} THEN {} ELSE Following(f))
    BY <1>0 DEF ReadRange
  <1>2. PICK save : save = req[r].save
    OBVIOUS
  <1>3. save.level = "CONTRIBUTORS" /\ t.op \notin ProjectOps
    BY <1>1, <1>2, LevelOf DEF PlaceholderOps, ProjectOps
  <1>4. RowsInv' /\ Ids' = Ids
    BY <1>1, SameTables
  <1>5. BesideClaim(save, req[r].now \ {t})
    BY <1>1, <1>2, <1>4, OtherClaims
  <1>6. CASE None \in {project.start, project.end}
    <2>1. PICK now : now = req[r].now \ {t}
      OBVIOUS
    <2>2. Advance(r, t, {})
      BY <1>1, <1>6
    <2> QED BY <1>1, <1>2, <1>3, <1>4, <1>5, <2>1, <2>2, NamesLevel, StepEnds
  <1>7. CASE ~(None \in {project.start, project.end})
    <2>1. PICK u : u = [f EXCEPT !.op = "createValues"]
      OBVIOUS
    <2>2. f.op = "range" /\ u.op = "createValues"
      BY <1>0, <1>1, <2>1, ThreadIs DEF Thread
    <2>3. Following(f) = {u}
      BY <2>1, <2>2 DEF Following, After
    <2>4. PICK now : now = (req[r].now \ {t}) \cup {u}
      OBVIOUS
    <2>5. Advance(r, t, {u})
      BY <1>1, <1>7, <2>3
    <2> QED BY <1>1, <1>2, <1>3, <1>4, <1>5, <2>2, <2>4, <2>5, NamesGoes
  <1> QED BY <1>6, <1>7

\* Rows are added to values: those that were there keep their ids and, but for
\* a year in the range that gets amounts of selected sources only, their amounts.
LEMMA MoreValues ==
    ASSUME TypeInv, RowsInv, UNCHANGED <<project, contributors, narrowed>>,
           DOMAIN values \subseteq DOMAIN values',
           \A y \in DOMAIN values : values'[y].nth = values[y].nth,
           \A y \in DOMAIN values' :
              \/ y \in DOMAIN values /\ values'[y].amount = values[y].amount
              \/ values'[y].amount = NoAmounts
              \/ /\ InRange(y, project)
                 /\ \A s \in Sources : ~project.flag[s] => values'[y].amount[s] = 0
    PROVE  RowsInv' /\ Ids \subseteq Ids'
  <1>1. Ids \subseteq Ids'
    BY DEF Ids, Id
  <1>2. Orphanless'
    BY <1>1 DEF RowsInv, Orphanless
  <1>3. RangeClean(project)'
    BY DEF RowsInv, RangeClean
  <1>4. \A s \in Sources : NoAmounts[s] = 0
    BY DEF NoAmounts
  <1>5. FlagsClean(project)'
    BY <1>4 DEF RowsInv, FlagsClean
  <1> QED BY <1>1, <1>2, <1>3, <1>5 DEF RowsInv

LEMMA CreateValuesSerial ==
    ASSUME TypeInv, TypeInv', SerialInv, serial,
           NEW r \in Requests, NEW t \in req[r].now, CreateValues(r, t)
    PROVE  SerialInv'
  <1>1. /\ UNCHANGED <<project, contributors, cache, saves, serial, narrowed>>
        /\ t.op = "createValues" /\ Advance(r, t, Following(t))
    BY DEF CreateValues
  <1>2. PICK save : save = req[r].save
    OBVIOUS
  <1>3. save.level = "CONTRIBUTORS" /\ t.op \notin ProjectOps
    BY <1>1, <1>2, LevelOf DEF PlaceholderOps, ProjectOps
  <1>4. RowsInv' /\ Ids \subseteq Ids'
    <2>1. PICK new : new = t.years \ DOMAIN values
      OBVIOUS
    <2>2. values' = [y \in DOMAIN values \cup new |->
                        IF y \in new THEN NewRow(y, NoAmounts) ELSE values[y]]
      BY <2>1 DEF CreateValues
    <2>3. \A y \in DOMAIN values : values'[y] = values[y]
      BY <2>1, <2>2
    <2>4. \A y \in DOMAIN values' :
             y \in DOMAIN values \/ values'[y].amount = NoAmounts
      BY <2>1, <2>2 DEF NewRow
    <2>5. DOMAIN values \subseteq DOMAIN values'
      BY <2>2
    <2> QED BY <1>1, <2>3, <2>4, <2>5, MoreValues DEF SerialInv
  <1>5. BesideClaim(save, req[r].now \ {t})
    BY <1>1, <1>2, <1>4, OtherClaims
  <1>6. PICK u : u = [t EXCEPT !.op = "findCreated"]
    OBVIOUS
  <1>7. u.op = "findCreated"
    BY <1>6, ThreadIs DEF Thread
  <1>8. Following(t) = {u}
    BY <1>1, <1>6, ThreadIs, FollowingIs
  <1>9. PICK now : now = (req[r].now \ {t}) \cup {u}
    OBVIOUS
  <1>10. Advance(r, t, {u}) \/ Resume(r, now, {})
    BY <1>1, <1>8
  <1>11. UNCHANGED project /\ RowsInv'
    BY <1>1, <1>4
  <1> QED BY <1>2, <1>3, <1>5, <1>7, <1>9, <1>10, <1>11, NamesGoes

\* Rows of contributors are added to rows of values, with no amount, or with
\* one of a selected source in the range.
LEMMA MoreContributors ==
    ASSUME TypeInv, RowsInv, UNCHANGED <<project, values, narrowed>>,
           \A k \in DOMAIN contributors' :
              \/ k \in DOMAIN contributors /\ contributors'[k] = contributors[k]
              \/ k[1] \in Ids /\ contributors'[k] = 0
              \/ /\ k[1] \in Ids /\ InRange(k[1][1], project) /\ project.flag[k[2]]
    PROVE  RowsInv' /\ Ids' = Ids
  <1>1. Ids' = Ids
    BY SameIds
  <1>2. Orphanless'
    BY <1>1 DEF RowsInv, Orphanless
  <1>3. RangeClean(project)'
    BY DEF RowsInv, RangeClean
  <1>4. FlagsClean(project)'
    BY DEF RowsInv, FlagsClean
  <1> QED BY <1>1, <1>2, <1>3, <1>4 DEF RowsInv

LEMMA CreateContributorsSerial ==
    ASSUME TypeInv, TypeInv', SerialInv, serial,
           NEW r \in Requests, NEW t \in req[r].now, CreateContributors(r, t)
    PROVE  SerialInv'
  <1>1. /\ UNCHANGED <<project, values, born, cache, saves, serial, narrowed>>
        /\ t.op = "createContributors" /\ Advance(r, t, {})
    BY DEF CreateContributors
  <1>2. PICK save : save = req[r].save
    OBVIOUS
  <1>3. save.level = "CONTRIBUTORS" /\ t.op \notin ProjectOps
    BY <1>1, <1>2, LevelOf DEF PlaceholderOps, ProjectOps
  <1>4. RowsInv' /\ Ids' = Ids
    <2>1. PICK new : new = (t.ids \X t.sources \X t.names) \ DOMAIN contributors
      OBVIOUS
    <2>2. contributors' = [k \in DOMAIN contributors \cup new |->
                              IF k \in new THEN 0 ELSE contributors[k]]
      BY <2>1 DEF CreateContributors
    <2>3. t.ids \subseteq Ids
      BY <1>1, SerialThread DEF Claim
    <2>4. \A k \in new : k[1] \in Ids
      BY <2>1, <2>3
    <2>5. \A k \in DOMAIN contributors' :
              \/ k \in DOMAIN contributors /\ contributors'[k] = contributors[k]
              \/ k[1] \in Ids /\ contributors'[k] = 0
      BY <2>2, <2>4
    <2> QED BY <1>1, <2>5, MoreContributors DEF SerialInv
  <1>5. BesideClaim(save, req[r].now \ {t})
    BY <1>1, <1>2, <1>3, <1>4, OtherClaims
  <1>6. PICK now : now = req[r].now \ {t}
    OBVIOUS
  <1> QED BY <1>1, <1>2, <1>3, <1>4, <1>5, <1>6, NamesLevel, StepEnds

LEMMA SpendLevel ==
    ASSUME NEW save, save.level = "FUNDING_SOURCES_ESTIMATED_SPEND"
    PROVE  /\ save.level \notin YearLevels \cup {"CLEAR_STALE_DATA"}
           /\ save.level # "CONTRIBUTORS" /\ \A now : Settling(save, now)'
  <1>1. \A now : Settling(save, now)'
    BY NothingSettles
  <1> QED BY <1>1 DEF YearLevels

LEMMA SpendGoes ==
    ASSUME TypeInv, TypeInv', SerialInv, serial, UNCHANGED project,
           NEW r \in Requests, NEW t \in req[r].now, t.op \notin ProjectOps,
           NEW save, save = req[r].save, save.level = "FUNDING_SOURCES_ESTIMATED_SPEND",
           NEW u, u.op \notin ProjectOps, u.years = t.years, Claim(save, u)',
           NEW now, now = (req[r].now \ {t}) \cup {u},
           Advance(r, t, {u}) \/ Resume(r, now, {}), RowsInv',
           BesideClaim(save, req[r].now \ {t})
    PROVE  SerialInv'
  <1>1. Settling(save, now)'
    BY SpendLevel
  <1> QED BY <1>1, StepGoes

LEMMA UpsertValueSerial ==
    ASSUME TypeInv, TypeInv', SerialInv, serial,
           NEW r \in Requests, NEW t \in req[r].now, UpsertValue(r, t)
    PROVE  SerialInv'
  <1>1. PICK y, row :
            /\ y \in t.years
            /\ row = IF y \in DOMAIN values
                     THEN [values[y] EXCEPT !.amount = t.amount, !.total = Sum(t.amount)]
                     ELSE NewRow(y, t.amount)
            /\ values' = [z \in DOMAIN values \cup {y} |-> IF z = y THEN row ELSE values[z]]
            /\ Advance(r, t, Following([t EXCEPT !.ids = {<<y, row.nth>>}]))
    BY DEF UpsertValue
  <1>2. /\ UNCHANGED <<project, contributors, cache, saves, serial, narrowed>> /\ t.op = "upsertValue"
    BY DEF UpsertValue
  <1>3. PICK save : save = req[r].save
    OBVIOUS
  <1>4. save.level = "FUNDING_SOURCES_ESTIMATED_SPEND" /\ t.op \notin ProjectOps
    BY <1>2, <1>3, LevelOf DEF UpsertOps, ProjectOps
  <1>5. Claim(save, t)
    BY <1>3, SerialThread
  <1>6. row.amount = t.amount /\ (y \in DOMAIN values => row.nth = values[y].nth)
    <2>1. y \in DOMAIN values => values[y] \in Rows
      BY DEF TypeInv, TypeOK
    <2> QED BY <1>1, <2>1 DEF NewRow, Rows
  <1>7. RowsInv' /\ Ids \subseteq Ids'
    <2>1. DOMAIN values \subseteq DOMAIN values'
      BY <1>1
    <2>2. \A z \in DOMAIN values : values'[z].nth = values[z].nth
      BY <1>1, <1>6
    <2>3. InRange(y, project) /\ \A s \in Sources : ~project.flag[s] => t.amount[s] = 0
      <3>1. y \in t.years
        BY <1>1
      <3> QED BY <1>2, <1>5, <3>1 DEF Claim, UpsertOps
    <2>4. \A z \in DOMAIN values' :
              \/ z \in DOMAIN values /\ values'[z].amount = values[z].amount
              \/ /\ InRange(z, project)
                 /\ \A s \in Sources : ~project.flag[s] => values'[z].amount[s] = 0
      BY <1>1, <1>6, <2>3
    <2> QED BY <1>2, <2>1, <2>2, <2>4, MoreValues DEF SerialInv
  <1>8. BesideClaim(save, req[r].now \ {t})
    BY <1>2, <1>3, <1>7, OtherClaims
  <1>9. PICK f : f = [t EXCEPT !.ids = {<<y, row.nth>>}]
    OBVIOUS
  <1>10. PICK u : u = [f EXCEPT !.op = "upsertContributors"]
    OBVIOUS
  <1>11. /\ f.op = "upsertValue" /\ u.op = "upsertContributors" /\ u.ids = {<<y, row.nth>>}
         /\ u.years = t.years /\ u.left = t.left
    BY <1>2, <1>9, <1>10, ThreadIs DEF Thread
  <1>12. Following(f) = {u}
    BY <1>10, <1>11 DEF Following, After
  <1>13. <<y, row.nth>> \in Ids'
    <2>1. y \in DOMAIN values' /\ values'[y] = row
      BY <1>1
    <2> QED BY <2>1 DEF Ids, Id
  <1>14. Claim(save, u)' /\ u.op \notin ProjectOps
    <2>1. y \in t.years
      BY <1>1
    <2> QED
      BY <1>2, <1>4, <1>5, <1>11, <1>13, <2>1 DEF Claim, UpsertOps, EmptyOps, ProjectOps
  <1>15. PICK now : now = (req[r].now \ {t}) \cup {u}
    OBVIOUS
  <1>16. Advance(r, t, {u}) \/ Resume(r, now, {})
    BY <1>1, <1>9, <1>12
  <1>17. UNCHANGED project /\ RowsInv'
    BY <1>2, <1>7
  <1> QED BY <1>3, <1>4, <1>8, <1>11, <1>14, <1>15, <1>16, <1>17, SpendGoes

LEMMA UpsertContributorsSerial ==
    ASSUME TypeInv, TypeInv', SerialInv, serial,
           NEW r \in Requests, NEW t \in req[r].now, UpsertContributors(r, t)
    PROVE  SerialInv'
  <1>1. UNCHANGED <<project, values, born, cache, saves, serial, narrowed>> /\ t.op = "upsertContributors"
    BY DEF UpsertContributors
  <1>2. PICK save : save = req[r].save
    OBVIOUS
  <1>3. save.level = "FUNDING_SOURCES_ESTIMATED_SPEND" /\ t.op \notin ProjectOps
    BY <1>1, <1>2, LevelOf DEF UpsertOps, ProjectOps
  <1>4. /\ t.ids \subseteq Ids /\ \A e \in t.left : project.flag[e[1]]
        /\ \A y \in t.years : InRange(y, project)
        /\ \A id \in t.ids : id[1] \in t.years
    BY <1>1, <1>2, SerialThread DEF Claim, UpsertOps
  <1>5. Ids' = Ids
    BY <1>1, SameIds
  <1>6. CASE t.left = {}
    <2>1. Advance(r, t, Following(t)) /\ UNCHANGED contributors
      BY <1>6 DEF UpsertContributors
    <2>2. RowsInv'
      BY <1>1, <2>1, SameTables
    <2>3. BesideClaim(save, req[r].now \ {t})
      BY <1>1, <1>2, <1>5, <2>1, OtherClaims
    <2>4. PICK u : u = [t EXCEPT !.op = "deleteStale"]
      OBVIOUS
    <2>5. u.op = "deleteStale" /\ u.ids = t.ids /\ u.years = t.years
      BY <2>4, ThreadIs DEF Thread
    <2>6. Claim(save, u)' /\ u.op \notin ProjectOps
      BY <1>1, <1>3, <1>4, <2>5 DEF Claim, UpsertOps, EmptyOps, ProjectOps
    <2>7. PICK now : now = (req[r].now \ {t}) \cup {u}
      OBVIOUS
    <2>8. Advance(r, t, {u}) \/ Resume(r, now, {})
      BY <1>1, <2>1, <2>4, ThreadIs, FollowingIs
    <2>9. UNCHANGED project
      BY <1>1
    <2> QED BY <1>2, <1>3, <2>2, <2>3, <2>5, <2>6, <2>7, <2>8, <2>9, SpendGoes
  <1>7. CASE t.left # {}
    <2>1. PICK e \in t.left, id \in t.ids :
            /\ contributors' = [k \in DOMAIN contributors \cup {<<id, e[1], e[2]>>} |->
                                  IF k = <<id, e[1], e[2]>> THEN e[3] ELSE contributors[k]]
            /\ Advance(r, t, {[t EXCEPT !.left = @ \ {e}]})
      BY <1>7 DEF UpsertContributors
    <2>2. PICK n : n = <<id, e[1], e[2]>>
      OBVIOUS
    <2>3. n[1] = id /\ n[2] = e[1] /\ id[1] \in t.years
      BY <1>4, <2>2
    <2>4. \A k \in DOMAIN contributors' :
             \/ k \in DOMAIN contributors /\ contributors'[k] = contributors[k]
             \/ k = n
      BY <2>1, <2>2
    <2>5. RowsInv'
      <3>1. n[1] \in Ids /\ InRange(n[1][1], project) /\ project.flag[n[2]]
        BY <1>4, <2>3
      <3>2. \A k \in DOMAIN contributors' :
              \/ k \in DOMAIN contributors /\ contributors'[k] = contributors[k]
              \/ k[1] \in Ids /\ InRange(k[1][1], project) /\ project.flag[k[2]]
        BY <2>4, <3>1
      <3> QED BY <1>1, <3>2, MoreContributors DEF SerialInv
    <2>6. BesideClaim(save, req[r].now \ {t})
      BY <1>1, <1>2, <1>3, <1>5, <2>3, <2>4, OtherClaims
    <2>7. PICK u : u = [t EXCEPT !.left = t.left \ {e}]
      OBVIOUS
    <2>8. /\ u.op = "upsertContributors" /\ u.ids = t.ids /\ u.years = t.years
          /\ u.left \subseteq t.left
      BY <1>1, <2>7, ThreadIs DEF Thread
    <2>9. Claim(save, u)' /\ u.op \notin ProjectOps
      BY <1>1, <1>3, <1>4, <1>5, <2>8 DEF Claim, UpsertOps, EmptyOps, ProjectOps
    <2>10. PICK now : now = (req[r].now \ {t}) \cup {u}
      OBVIOUS
    <2>11. Advance(r, t, {u}) \/ Resume(r, now, {})
      BY <2>1, <2>7
    <2>12. UNCHANGED project
      BY <1>1
    <2> QED BY <1>2, <1>3, <2>5, <2>6, <2>8, <2>9, <2>10, <2>11, <2>12, SpendGoes
  <1> QED BY <1>6, <1>7

LEMMA DeleteStaleSerial ==
    ASSUME TypeInv, TypeInv', SerialInv, serial,
           NEW r \in Requests, NEW t \in req[r].now, DeleteStale(r, t)
    PROVE  SerialInv'
  <1>1. /\ UNCHANGED <<project, values, born, cache, saves, serial, narrowed>>
        /\ t.op = "deleteStale" /\ Advance(r, t, {})
    BY DEF DeleteStale
  <1>2. PICK save : save = req[r].save
    OBVIOUS
  <1>3. save.level = "FUNDING_SOURCES_ESTIMATED_SPEND" /\ t.op \notin ProjectOps
    BY <1>1, <1>2, LevelOf DEF UpsertOps, ProjectOps
  <1>4. /\ DOMAIN contributors' \subseteq DOMAIN contributors
        /\ \A k \in DOMAIN contributors' : contributors'[k] = contributors[k]
    BY WithoutIsFewer DEF DeleteStale
  <1>5. RowsInv' /\ Ids' = Ids
    BY <1>1, <1>4, FewerContributors, SameIds DEF SerialInv
  <1>6. PICK now : now = req[r].now \ {t}
    OBVIOUS
  <1>7. BesideClaim(save, now)
    BY <1>1, <1>2, <1>4, <1>5, <1>6, OtherClaims
  <1>8. Settling(save, now)' /\ save.level \notin YearLevels \cup {"CLEAR_STALE_DATA"}
    BY <1>3, SpendLevel
  <1>9. UNCHANGED project /\ (Advance(r, t, {}) \/ Resume(r, now, {}))
    BY <1>1
  <1> QED BY <1>2, <1>3, <1>5, <1>6, <1>7, <1>8, <1>9, StepEnds

LEMMA DeleteContributorsSerial ==
    ASSUME TypeInv, TypeInv', SerialInv, serial,
           NEW r \in Requests, NEW t \in req[r].now, DeleteContributors(r, t)
    PROVE  SerialInv'
  <1>1. /\ UNCHANGED <<project, values, born, cache, saves, serial, narrowed>>
        /\ t.op = "deleteContributors" /\ Advance(r, t, Following(t))
    BY DEF DeleteContributors
  <1>2. PICK save : save = req[r].save
    OBVIOUS
  <1>3. /\ save.level \in {"FUNDING_SOURCES_ESTIMATED_SPEND", "CLEAR_STALE_DATA"}
        /\ t.op \notin ProjectOps
    BY <1>1, <1>2, LevelOf DEF EmptyOps, ProjectOps
  <1>4. /\ DOMAIN contributors' = DOMAIN contributors \ OfIds(t.ids)
        /\ \A k \in DOMAIN contributors' : contributors'[k] = contributors[k]
    BY WithoutIsFewer DEF DeleteContributors
  <1>5. RowsInv' /\ Ids' = Ids
    BY <1>1, <1>4, FewerContributors, SameIds DEF SerialInv
  <1>6. BesideClaim(save, req[r].now \ {t})
    BY <1>1, <1>2, <1>4, <1>5, OtherClaims
  <1>7. PICK u : u = [t EXCEPT !.op = "deleteValues"]
    OBVIOUS
  <1>8. u.op = "deleteValues" /\ u.ids = t.ids /\ u.years = t.years
    BY <1>7, ThreadIs DEF Thread
  <1>9. \A k \in DOMAIN contributors' : k[1] \notin u.ids
    BY <1>4, <1>8 DEF OfIds
  <1>10. save.level = "CLEAR_STALE_DATA" => DOMAIN contributors' = {}
    <2> SUFFICES ASSUME save.level = "CLEAR_STALE_DATA", NEW k \in DOMAIN contributors'
                 PROVE  FALSE
      OBVIOUS
    <2>1. k[1] \in Ids /\ Ids \subseteq t.ids
      BY <1>1, <1>2, <1>4, SerialThread DEF Orphanless, Claim
    <2> QED BY <1>8, <1>9, <2>1
  <1>11. \A id \in u.ids : id[1] \in u.years
    BY <1>1, <1>2, <1>8, SerialThread DEF Claim, EmptyOps
  <1>12. Claim(save, u)' /\ u.op \notin ProjectOps
    BY <1>8, <1>9, <1>10, <1>11 DEF Claim, UpsertOps, EmptyOps, ProjectOps
  <1>13. PICK now : now = (req[r].now \ {t}) \cup {u}
    OBVIOUS
  <1>14. Advance(r, t, {u}) \/ Resume(r, now, {})
    BY <1>1, <1>7, ThreadIs, FollowingIs
  <1>15. Settling(save, now)'
    BY <1>3, NothingSettles
  <1>16. UNCHANGED project /\ RowsInv'
    BY <1>1, <1>5
  <1> QED BY <1>2, <1>3, <1>6, <1>8, <1>12, <1>13, <1>14, <1>15, <1>16, StepGoes

LEMMA DeleteValuesSerial ==
    ASSUME TypeInv, TypeInv', SerialInv, serial,
           NEW r \in Requests, NEW t \in req[r].now, DeleteValues(r, t)
    PROVE  SerialInv'
  <1>1. /\ UNCHANGED <<project, contributors, born, cache, saves, serial, narrowed>>
        /\ t.op = "deleteValues" /\ Advance(r, t, Following(t))
        /\ values' = LET gone == IF req[r].save.level = "CLEAR_STALE_DATA" THEN DOMAIN values
                                 ELSE RowsOf(t.ids)
                     IN  [y \in DOMAIN values \ gone |-> values[y]]
    BY DEF DeleteValues
  <1>2. PICK save : save = req[r].save
    OBVIOUS
  <1>3. /\ save.level \in {"FUNDING_SOURCES_ESTIMATED_SPEND", "CLEAR_STALE_DATA"}
        /\ t.op \notin ProjectOps
    BY <1>1, <1>2, LevelOf DEF EmptyOps, ProjectOps
  <1>4. PICK now : now = req[r].now \ {t}
    OBVIOUS
  <1>5. /\ UNCHANGED project /\ (Advance(r, t, {}) \/ Resume(r, now, {}))
        /\ Settling(save, now)'
    BY <1>1, <1>3, ThreadIs, FollowingIs, NothingSettles
  <1>6. CASE save.level = "CLEAR_STALE_DATA"
    <2>1. DOMAIN contributors' = {} /\ DOMAIN values' = {}
      BY <1>1, <1>2, <1>6, SerialThread DEF Claim
    <2>2. RowsInv'
      BY <2>1 DEF RowsInv, Orphanless, RangeClean, FlagsClean
    <2>3. Ready(save)'
      BY <2>1 DEF Ready, RangeClean, FlagsClean
    <2>4. now = {}
      BY <1>2, <1>4, <1>6, SerialThread
    <2>5. BesideClaim(save, now)
      BY <2>4 DEF BesideClaim
    <2> QED BY <1>2, <1>3, <1>4, <1>5, <2>2, <2>3, <2>5, StepEnds
  <1>7. CASE save.level = "FUNDING_SOURCES_ESTIMATED_SPEND"
    <2>1. values' = [y \in DOMAIN values \ RowsOf(t.ids) |-> values[y]]
      BY <1>1, <1>2, <1>7
    <2>2. \A y \in DOMAIN values' : y \in DOMAIN values /\ values'[y] = values[y]
      BY <2>1
    <2>3. /\ \A k \in DOMAIN contributors : k[1] \notin t.ids
          /\ \A id \in t.ids : id[1] \in t.years
      BY <1>1, <1>2, SerialThread DEF Claim, EmptyOps
    <2>4. \A id \in Ids : id \in Ids' \/ id \in t.ids
      <3> SUFFICES ASSUME NEW y \in DOMAIN values, Id(y) \notin t.ids
                   PROVE  Id(y) \in Ids'
        BY DEF Ids
      <3>1. y \in DOMAIN values'
        BY <2>1 DEF RowsOf
      <3>2. Id(y)' = Id(y)
        BY <2>2, <3>1 DEF Id
      <3> QED BY <3>1, <3>2 DEF Ids
    <2>5. RowsInv'
      <3>1. Orphanless'
        BY <1>1, <2>3, <2>4, SerialThread DEF Orphanless
      <3>2. RangeClean(project)'
        BY <1>1, <2>2, SerialThread DEF RangeClean
      <3>3. FlagsClean(project)'
        BY <1>1, <2>2, SerialThread DEF FlagsClean
      <3> QED BY <3>1, <3>2, <3>3 DEF RowsInv
    <2>6. BesideClaim(save, now)
      BY <1>1, <1>2, <1>4, <1>7, <2>3, <2>4, OtherClaims
    <2>7. save.level \notin YearLevels \cup {"CLEAR_STALE_DATA"}
      BY <1>7, SpendLevel
    <2> QED BY <1>2, <1>3, <1>4, <1>5, <2>5, <2>6, <2>7, StepEnds
  <1> QED BY <1>3, <1>6, <1>7

LEMMA YearsSaved ==
    ASSUME project \in Projects, NEW save, save.level \in YearLevels \cup {"TIMELINE"}
    PROVE  /\ Saved(save).flag = project.flag
           /\ Saved(save).start = Start(save, project)
           /\ Saved(save).end = End(save, project)
  <1> DEFINE start == Start(save, project)
             end == End(save, project)
  <1>1. Saved(save) = [project EXCEPT !.start = start, !.end = end]
    BY DEF Saved, YearLevels
  <1> HIDE DEF start, end
  <1>2. /\ Saved(save).flag = project.flag
        /\ Saved(save).start = start /\ Saved(save).end = end
    BY <1>1 DEF Projects
  <1> QED BY <1>2 DEF start, end

LEMMA ClearValuesSerial ==
    ASSUME TypeInv, TypeInv', SerialInv, serial,
           NEW r \in Requests, NEW t \in req[r].now, ClearValues(r, t)
    PROVE  SerialInv'
  <1>1. /\ UNCHANGED <<project, contributors, born, cache, saves, serial, narrowed>>
        /\ t.op = "clearValues" /\ Advance(r, t, Following(t))
        /\ DOMAIN values' = DOMAIN values
    BY DEF ClearValues
  <1>2. PICK save : save = req[r].save
    OBVIOUS
  <1>3. save.level \in YearLevels /\ t.op \notin ProjectOps /\ req[r].now = {t}
    BY <1>1, <1>2, LevelOf, SerialThread DEF OutsideOps, ProjectOps
  <1>4. ASSUME NEW y \in DOMAIN values
        PROVE  /\ values'[y].nth = values[y].nth
               /\ values'[y].amount \in {NoAmounts, values[y].amount}
               /\ Id(y) \in t.ids => values'[y].amount = NoAmounts
    <2>1. values[y] \in Rows
      BY DEF TypeInv, TypeOK
    <2>2. values'[y] = IF y \in RowsOf(t.ids)
                       THEN [values[y] EXCEPT !.amount = NoAmounts, !.total = 0] ELSE values[y]
      BY DEF ClearValues
    <2>3. Id(y) \in t.ids => y \in RowsOf(t.ids)
      BY DEF RowsOf
    <2> QED BY <2>1, <2>2, <2>3 DEF Rows
  <1>5. /\ Ids' = Ids /\ \A y \in DOMAIN values : Id(y)' = Id(y)
    BY <1>1, <1>4, SameIds
  <1>6. RowsInv'
    <2>1. Orphanless'
      BY <1>1, <1>5, SerialThread DEF Orphanless
    <2>2. RangeClean(project)'
      BY <1>1, <1>4, SerialThread DEF RangeClean
    <2>3. \A s \in Sources : NoAmounts[s] = 0
      BY DEF NoAmounts
    <2>4. FlagsClean(project)'
      BY <1>1, <1>4, <2>3, SerialThread DEF FlagsClean
    <2> QED BY <2>1, <2>2, <2>4 DEF RowsInv
  <1>7. BesideClaim(save, req[r].now \ {t})
    BY <1>3 DEF BesideClaim
  <1>8. PICK u : u = [t EXCEPT !.op = "clearContributors"]
    OBVIOUS
  <1>9. u.op = "clearContributors" /\ u.ids = t.ids /\ u.years = t.years
    BY <1>8, ThreadIs DEF Thread
  <1>10. \A y \in DOMAIN values : InRange(y, Saved(save)) \/ Id(y) \in t.ids
    BY <1>1, <1>2, SerialThread DEF Claim
  <1>11. Saved(save)' = Saved(save) /\ save.level # "CLEAR_STALE_DATA"
    BY <1>1, <1>3, SavedStays DEF YearLevels
  <1>12. \A y \in DOMAIN values' :
            /\ InRange(y, Saved(save)') \/ Id(y)' \in t.ids
            /\ InRange(y, Saved(save)') \/ values'[y].amount = NoAmounts
    BY <1>1, <1>4, <1>5, <1>10, <1>11
  <1>13. Claim(save, u)' /\ u.op \notin ProjectOps
    BY <1>9, <1>11, <1>12 DEF Claim, UpsertOps, EmptyOps, ProjectOps
  <1>14. PICK now : now = (req[r].now \ {t}) \cup {u}
    OBVIOUS
  <1>15. Advance(r, t, {u}) \/ Resume(r, now, {})
    BY <1>1, <1>8, ThreadIs, FollowingIs
  <1>16. Settling(save, now)' /\ save.level # "FUNDING_SOURCES_ESTIMATED_SPEND"
    BY <1>3, NothingSettles DEF YearLevels
  <1>17. UNCHANGED project
    BY <1>1
  <1> QED BY <1>2, <1>3, <1>6, <1>7, <1>13, <1>14, <1>15, <1>16, <1>17, StepGoes

LEMMA ClearContributorsSerial ==
    ASSUME TypeInv, TypeInv', SerialInv, serial,
           NEW r \in Requests, NEW t \in req[r].now, ClearContributors(r, t)
    PROVE  SerialInv'
  <1>1. /\ UNCHANGED <<project, values, born, cache, saves, serial, narrowed>>
        /\ t.op = "clearContributors" /\ Advance(r, t, {})
        /\ DOMAIN contributors' = DOMAIN contributors
        /\ \A k \in DOMAIN contributors :
              contributors'[k] = IF k \in OfIds(t.ids) THEN 0 ELSE contributors[k]
    BY DEF ClearContributors
  <1>2. PICK save : save = req[r].save
    OBVIOUS
  <1>3. save.level \in YearLevels /\ t.op \notin ProjectOps /\ req[r].now = {t}
    BY <1>1, <1>2, LevelOf, SerialThread DEF OutsideOps, ProjectOps
  <1>4. RowsInv' /\ Ids' = Ids
    BY <1>1, FewerContributors, SameIds DEF SerialInv
  <1>5. PICK now : now = req[r].now \ {t}
    OBVIOUS
  <1>6. BesideClaim(save, now)
    BY <1>3, <1>5 DEF BesideClaim
  <1>7. Settling(save, now)'
    BY <1>3, NothingSettles DEF YearLevels
  <1>8. /\ \A y \in DOMAIN values : InRange(y, Saved(save)) \/ Id(y) \in t.ids
        /\ \A y \in DOMAIN values : InRange(y, Saved(save)) \/ values[y].amount = NoAmounts
    BY <1>1, <1>2, SerialThread DEF Claim
  <1>9. Saved(save)' = Saved(save) /\ Saved(save).flag = project.flag
    BY <1>1, <1>3, SavedStays, YearsSaved DEF TypeInv, TypeOK
  <1>10. RangeClean(Saved(save))'
    <2>1. ASSUME NEW k \in DOMAIN contributors, ~InRange(k[1][1], Saved(save))
          PROVE  contributors'[k] = 0
      <3>1. PICK y \in DOMAIN values : k[1] = Id(y)
        BY SerialThread DEF Orphanless, Ids
      <3>2. k[1][1] = y
        BY <3>1, IdsTyped DEF TypeInv
      <3>3. k \in OfIds(t.ids)
        BY <1>8, <2>1, <3>1, <3>2 DEF OfIds
      <3> QED BY <1>1, <3>3
    <2> QED BY <1>1, <1>8, <1>9, <2>1 DEF RangeClean
  <1>11. FlagsClean(Saved(save))'
    BY <1>1, <1>4, <1>9 DEF FlagsClean, RowsInv
  <1>12. UNCHANGED project /\ (Advance(r, t, {}) \/ Resume(r, now, {})) /\ Ready(save)'
    BY <1>1, <1>10, <1>11 DEF Ready
  <1> QED BY <1>2, <1>3, <1>4, <1>5, <1>6, <1>7, <1>12, StepEnds

\* A statement of the project's runs alone, and last.
LEMMA ProjectAlone ==
    ASSUME TypeInv, SerialInv, serial,
           NEW r \in Requests, NEW t \in req[r].now, t.op \in ProjectOps
    PROVE  req[r].now = {t} /\ req[r].later = {}
  <1>1. Apart(req[r].save, req[r].now) /\ RequestTyped(req[r], born)
    BY SerialThread DEF TypeInv
  <1> QED BY <1>1 DEF Apart, RequestTyped

LEMMA WriteProjectSerial ==
    ASSUME TypeInv, TypeInv', SerialInv, serial,
           NEW r \in Requests, NEW t \in req[r].now, WriteProject(r, t)
    PROVE  SerialInv'
  <1>1. /\ UNCHANGED <<values, contributors, born, cache, saves, serial, narrowed>>
        /\ t.op = "project" /\ Advance(r, t, Following(t)) /\ project' = Saved(req[r].save)
    BY DEF WriteProject
  <1>2. PICK save : save = req[r].save
    OBVIOUS
  <1>3. req[r].now = {t} /\ req[r].later = {} /\ req[r].phase # "idle"
    BY <1>1, ProjectAlone, ThreadIs DEF ProjectOps
  <1>4. PICK u : u = [t EXCEPT !.op = "invalidate"]
    OBVIOUS
  <1>5. u.op = "invalidate" /\ Following(t) = {u}
    BY <1>1, <1>4, ThreadIs, FollowingIs DEF Thread
  <1>6. /\ req' = [req EXCEPT ![r] = Proceed(req[r], {u}, {})]
    <2>1. (req[r].now \ {t}) \cup Following(t) = {u}
      BY <1>3, <1>5
    <2> QED BY <1>1, <1>3, <2>1 DEF Advance, Resume
  <1>7. /\ DOMAIN req = Requests
        /\ DOMAIN req[r] = {"phase", "at", "save", "read", "before", "now", "later"}
    BY DEF TypeInv, RequestTyped
  <1>8. /\ \A q \in Requests \ {r} : req'[q] = req[q]
        /\ req'[r].save = save /\ req'[r].now = {u} /\ req'[r].later = {}
        /\ req'[r].phase = "writing"
    BY <1>2, <1>6, <1>7, ProceedIs
  <1>9. \A q \in Requests \ {r} :
           req'[q].phase = "idle" /\ req'[q].now = {} /\ req'[q].later = {}
    BY <1>3, <1>8, OthersIdle DEF TypeInv, RequestTyped
  <1>10. RowsInv'
    <2>1. Ready(save)
      BY <1>1, <1>2, SerialThread DEF Claim
    <2>2. Ids' = Ids
      BY <1>1, SameIds
    <2>3. Orphanless'
      BY <1>1, <2>2, SerialThread DEF Orphanless
    <2>4. RangeClean(project)' /\ FlagsClean(project)'
      BY <1>1, <1>2, <2>1 DEF Ready, RangeClean, FlagsClean
    <2> QED BY <2>3, <2>4 DEF RowsInv
  <1>11. OneBusy'
    BY <1>9 DEF OneBusy
  <1>12. \A q \in Requests \ {r} : RequestInv(req[q])'
    BY <1>9 DEF RequestInv, Unwritten, Apart
  <1>13. RequestInv(req[r])'
    <2>1. Claim(save, u)'
      BY <1>5 DEF Claim, UpsertOps, EmptyOps
    <2>2. ~Unwritten(req[r])'
      BY <1>5, <1>8 DEF Unwritten
    <2> QED BY <1>8, <2>1, <2>2 DEF RequestInv, Apart
  <1> QED BY <1>10, <1>11, <1>12, <1>13 DEF SerialInv

LEMMA InvalidateSerial ==
    ASSUME TypeInv, TypeInv', SerialInv, serial,
           NEW r \in Requests, NEW t \in req[r].now, Invalidate(r, t)
    PROVE  SerialInv'
  <1>1. /\ UNCHANGED <<project, values, contributors, born, saves, serial, narrowed>>
        /\ t.op = "invalidate" /\ Advance(r, t, {})
    BY DEF Invalidate
  <1>2. req[r].now = {t} /\ req[r].later = {} /\ req[r].phase # "idle"
    BY <1>1, ProjectAlone, ThreadIs DEF ProjectOps
  <1>3. Proceed(req[r], {}, {}) = Idle
    BY DEF Proceed
  <1>4. req' = [req EXCEPT ![r] = Idle]
    <2>1. (req[r].now \ {t}) \cup {} = {}
      BY <1>2
    <2> QED BY <1>1, <1>2, <1>3, <2>1 DEF Advance, Resume
  <1>5. RowsInv'
    BY <1>1, SameTables
  <1> QED BY <1>2, <1>4, <1>5, GoIdle

LEMMA FailSerial ==
    ASSUME TypeInv, TypeInv', SerialInv, serial,
           NEW r \in Requests, NEW t \in req[r].now, Fail(r, t)
    PROVE  SerialInv'
  <1>1. /\ UNCHANGED <<project, values, contributors, born, cache, saves, serial, narrowed>>
        /\ Resume(r, req[r].now \ {t}, {})
    BY DEF Fail
  <1>2. RowsInv' /\ Ids' = Ids
    BY <1>1, SameTables
  <1>3. CASE t.op \in ProjectOps
    <2>1. req[r].now \ {t} = {} /\ req[r].phase # "idle"
      BY <1>3, ProjectAlone, ThreadIs
    <2>2. Proceed(req[r], {}, {}) = Idle
      BY DEF Proceed
    <2>3. req' = [req EXCEPT ![r] = Idle]
      BY <1>1, <2>1, <2>2 DEF Resume
    <2> QED BY <1>2, <2>1, <2>3, GoIdle
  <1>4. CASE t.op \notin ProjectOps
    <2>1. PICK save : save = req[r].save
      OBVIOUS
    <2>2. BesideClaim(save, req[r].now \ {t})
      BY <1>1, <1>2, <2>1, OtherClaims
    <2>3. PICK us : us = {}
      OBVIOUS
    <2>4. PICK now : now = (req[r].now \ {t}) \cup us
      OBVIOUS
    <2>5. PICK later : later = {}
      OBVIOUS
    <2>6. now = req[r].now \ {t} /\ Successors(save, t, us)
      BY <2>3, <2>4 DEF Successors
    <2>7. UNCHANGED project /\ Resume(r, now, later) /\ later \in {{}, req[r].later}
      BY <1>1, <2>5, <2>6
    <2> QED BY <1>2, <1>4, <2>1, <2>2, <2>4, <2>5, <2>6, <2>7, StepKeeps
  <1> QED BY <1>3, <1>4

-----------------------------------------------------------------------------
(***************************************************************************)
(* The threads a save begins with.                                         *)
(***************************************************************************)
\* What is given for a source that is not selected does not get through.
LEMMA StrippedRow ==
    ASSUME NEW row \in SpendRow, NEW p \in Projects, NEW s \in Sources, ~p.flag[s]
    PROVE  LET stripped == StripDisabled(row, p)
           IN  /\ MergeContributors(stripped)[s] = 0
               /\ \A e \in Entries(stripped) : e[1] # s
  <1> DEFINE stripped == StripDisabled(row, p)
  <1>1. /\ stripped.amount[s] = 0
        /\ \A b \in Contributed \X Names :
              stripped.by[b] = IF p.flag[b[1]] THEN row.by[b] ELSE 0
    BY DEF StripDisabled
  <1> HIDE DEF stripped
  <1>2. MergeContributors(stripped)[s] = 0
    <2>1. CASE s \in Contributed
      <3> DEFINE a == [n \in Names |-> stripped.by[<<s, n>>]]
      <3>1. a \in [Names -> Nat] /\ \A n \in Names : a[n] = 0
        BY <1>1, <2>1
      <3> HIDE DEF a
      <3>2. SumFunction(a) = 0
        BY <3>1, SourcesAssumption, SumOfZeros
      <3>3. MergeContributors(stripped)[s] = SumFunction(a)
        BY <1>1, <2>1 DEF MergeContributors, a
      <3> QED BY <3>2, <3>3
    <2>2. CASE s \notin Contributed
      BY <1>1, <2>2 DEF MergeContributors
    <2> QED BY <2>1, <2>2
  <1>3. \A e \in Entries(stripped) : e[1] # s
    BY <1>1 DEF Entries
  <1> QED BY <1>2, <1>3 DEF stripped

\* The fields of a thread of a page of estimated spend.
LEMMA SpendThreadIs ==
    ASSUME NEW y, NEW row
    PROVE  LET t == SpendThread(y, row)
           IN  /\ t.op \in {"findEmptied", "upsertValue"} /\ t.years = {y} /\ t.ids = {}
               /\ t.op = "upsertValue" =>
                      t.amount = MergeContributors(row) /\ t.left = Entries(row)
  <1>1. CASE MergeContributors(row) = NoAmounts
    <2>1. SpendThread(y, row) =
            [op |-> "findEmptied", ids |-> {}, years |-> {y}, sources |-> {},
             names |-> {}, amount |-> NoAmounts, entries |-> {}, left |-> {}]
      BY <1>1 DEF SpendThread, Do, Blank
    <2> QED BY <2>1
  <1>2. CASE MergeContributors(row) # NoAmounts
    <2> DEFINE a == MergeContributors(row)
               es == Entries(row)
    <2>1. SpendThread(y, row) =
            [op |-> "upsertValue", ids |-> {}, years |-> {y}, sources |-> {},
             names |-> {}, amount |-> a, entries |-> es, left |-> es]
      BY <1>2 DEF SpendThread, Do, Blank
    <2> HIDE DEF a, es
    <2>2. /\ SpendThread(y, row).op = "upsertValue" /\ SpendThread(y, row).years = {y}
          /\ SpendThread(y, row).ids = {} /\ SpendThread(y, row).amount = a
          /\ SpendThread(y, row).left = es
      BY <2>1
    <2> QED BY <2>2 DEF a, es
  <1> QED BY <1>1, <1>2

LEMMA NormalizersClaim ==
    ASSUME project \in Projects, UNCHANGED project, NEW save \in Menu, Accepted(save, project),
           NEW t \in Normalizers(save, project)
    PROVE  Claim(save, t)' /\ t.op \notin ProjectOps
  <1>1. t.op \in OpsOf(save.level) /\ t.op \notin ProjectOps
    BY NormalizersTyped
  <1>2. CASE save.level \in {"FUNDING_SOURCES_SELECTED",
                             "ADDITIONAL_FUNDING_SOURCES_GIA_SELECTED"}
    <2>1. t.op \in {"nullColumns", "deleteTypes"}
      BY <1>1, <1>2 DEF OpsOf
    <2> QED BY <1>1, <1>2, <2>1 DEF Claim, UpsertOps, EmptyOps
  <1>3. CASE save.level = "CONTRIBUTORS"
    <2>1. t = CleanupThread(save) \/ t = EnsureThread(save, project)
      BY <1>3 DEF Normalizers, NamesThreads
    <2>2. t.op \in {"findStored", "range", "createValues"}
      BY <2>1 DEF CleanupThread, EnsureThread, Do, Blank
    <2> QED BY <1>1, <1>3, <2>2 DEF Claim, UpsertOps, EmptyOps
  <1>4. CASE save.level = "FUNDING_SOURCES_ESTIMATED_SPEND"
    <2>1. PICK y \in DOMAIN save.rows :
             t = SpendThread(y, StripDisabled(save.rows[y], project))
      BY <1>4 DEF Normalizers, SpendThreads
    <2>2. PICK row : row = StripDisabled(save.rows[y], project)
      OBVIOUS
    <2>3. /\ t.op \in {"findEmptied", "upsertValue"} /\ t.years = {y} /\ t.ids = {}
          /\ t.op = "upsertValue" => t.amount = MergeContributors(row) /\ t.left = Entries(row)
      BY <2>1, <2>2, SpendThreadIs
    <2>4. InRange(y, project)
      BY <1>4 DEF Accepted
    <2>5. \A s \in Sources : ~project.flag[s] =>
             MergeContributors(row)[s] = 0 /\ \A e \in Entries(row) : e[1] # s
      BY <1>4, <2>2, PayloadShapes, SpendTyped, StrippedRow
    <2>6. \A e \in Entries(row) : e[1] \in Sources
      <3>1. row \in SpendRow
        BY <1>4, <2>2, PayloadShapes, SpendTyped, RowTyped
      <3>2. Entries(row) \subseteq Gifts
        BY <3>1, RowTyped
      <3> QED BY <3>2 DEF Gifts, Sources
    <2> QED BY <1>1, <1>4, <2>3, <2>4, <2>5, <2>6 DEF Claim, UpsertOps, EmptyOps
  <1>5. CASE save.level = "CLEAR_STALE_DATA"
    <2>1. t = [op |-> "findEmptied", ids |-> {}, years |-> Years, sources |-> {},
               names |-> {}, amount |-> NoAmounts, entries |-> {}, left |-> {}]
      BY <1>5 DEF Normalizers, ClearThreads, Do, Blank
    <2> QED BY <1>1, <1>5, <2>1 DEF Claim, UpsertOps, EmptyOps
  <1>6. CASE save.level \in YearLevels
    <2>1. t \in YearThreads(save, project)
      BY <1>6 DEF Normalizers, YearLevels
    <2>2. PICK start, end :
            start = Start(save, project) /\ end = End(save, project)
      OBVIOUS
    <2>3. /\ None \notin {start, end}
          /\ t = [Do("findOutside") EXCEPT !.years = {y \in Years : y < start \/ y > end}]
      BY <2>1, <2>2 DEF YearThreads
    <2>4. t.op = "findOutside" /\ t.years = {y \in Years : y < start \/ y > end} /\ t.ids = {}
      BY <2>3 DEF Do, Blank
    <2>5. start \in Nat /\ end \in Nat
      <3>1. start \in Years \cup {None, project.start} /\ end \in Years \cup {None, project.end}
        BY <2>2, YearsSent
      <3> QED BY <2>3, <3>1, NumbersAssumption DEF Projects
    <2>6. Saved(save)' = Saved(save) /\ Saved(save).start = start /\ Saved(save).end = end
      BY <1>6, <2>2, SavedStays, YearsSaved
    <2>7. \A y \in Years : InRange(y, Saved(save)') \/ y \in t.years
      <3> SUFFICES ASSUME NEW y \in Years, ~InRange(y, Saved(save))
                   PROVE  y \in t.years
        BY <2>6
      <3>1. ~(y \in start .. end) /\ y \in Nat
        BY <2>6, NumbersAssumption DEF InRange
      <3> QED BY <2>4, <2>5, <3>1
    <2>8. save.level # "CLEAR_STALE_DATA"
      BY <1>6 DEF YearLevels
    <2> QED BY <1>1, <2>4, <2>7, <2>8 DEF Claim, UpsertOps, EmptyOps
  <1> QED BY <1>1, <1>2, <1>3, <1>4, <1>5, <1>6, PayloadShapes DEF OpsOf, YearLevels

LEMMA NormalizersApart ==
    ASSUME NEW save \in Menu, NEW p \in Projects
    PROVE  Apart(save, Normalizers(save, p))
  <1> SUFFICES ASSUME NEW t \in Normalizers(save, p), NEW u \in Normalizers(save, p), t # u
               PROVE  /\ save.level \notin YearLevels \cup {"CLEAR_STALE_DATA"}
                      /\ save.level = "FUNDING_SOURCES_ESTIMATED_SPEND" =>
                             t.years \cap u.years = {}
                      /\ t.op \notin ProjectOps
    BY DEF Apart
  <1>1. t.op \notin ProjectOps
    BY NormalizersTyped
  <1>2. save.level # "CLEAR_STALE_DATA"
    BY DEF Normalizers, ClearThreads
  <1>3. save.level \notin YearLevels
    BY DEF Normalizers, YearThreads, YearLevels
  <1>4. ASSUME save.level = "FUNDING_SOURCES_ESTIMATED_SPEND"
        PROVE  t.years \cap u.years = {}
    <2>1. PICK y \in DOMAIN save.rows : t = SpendThread(y, StripDisabled(save.rows[y], p))
      BY <1>4 DEF Normalizers, SpendThreads
    <2>2. PICK z \in DOMAIN save.rows : u = SpendThread(z, StripDisabled(save.rows[z], p))
      BY <1>4 DEF Normalizers, SpendThreads
    <2>3. y # z
      BY <2>1, <2>2
    <2>4. t.years = {y} /\ u.years = {z}
      BY <2>1, <2>2, SpendThreadIs
    <2> QED BY <2>3, <2>4
  <1> QED BY <1>1, <1>2, <1>3, <1>4

LEMMA NormalizersSettle ==
    ASSUME TypeInv, UNCHANGED contributors, NEW save \in Menu, NEW p \in Projects,
           NEW now, now = Normalizers(save, p)
    PROVE  Settling(save, now)'
  <1>1. \A k \in DOMAIN contributors' : k[2] \in Contributed
    BY DEF TypeInv, TypeOK, Keys
  <1>2. CASE save.level = "FUNDING_SOURCES_SELECTED"
    <2> SUFFICES ASSUME NEW s \in Dropped(save)
                 PROVE  /\ \E t \in now : t.op = "nullColumns" /\ s \in t.sources
                        /\ \/ s \notin Contributed
                           \/ \E t \in now : t.op = "deleteTypes" /\ s \in t.sources
      BY <1>1 DEF Settling
    <2>1. now = SelectedThreads(save)
      BY <1>2 DEF Normalizers
    <2>2. s \in Gone(save) \/ (~save.additional /\ s \in Additional)
      BY <1>2 DEF Dropped
    <2>3. \A S : /\ [Do("nullColumns") EXCEPT !.sources = S].op = "nullColumns"
                 /\ [Do("nullColumns") EXCEPT !.sources = S].sources = S
                 /\ [Do("deleteTypes") EXCEPT !.sources = S].op = "deleteTypes"
                 /\ [Do("deleteTypes") EXCEPT !.sources = S].sources = S
      BY DEF Do, Blank
    <2>4. CASE s \in Gone(save)
      <3>1. [Do("nullColumns") EXCEPT !.sources = Gone(save)] \in now
        BY <2>1, <2>4 DEF SelectedThreads
      <3>2. s \in Contributed =>
               [Do("deleteTypes") EXCEPT !.sources = Gone(save) \cap Contributed] \in now
        BY <2>1, <2>4 DEF SelectedThreads
      <3> QED BY <2>3, <2>4, <3>1, <3>2
    <2>5. CASE ~save.additional /\ s \in Additional
      <3>1. [Do("nullColumns") EXCEPT !.sources = Additional] \in now
        BY <2>1, <2>5 DEF SelectedThreads
      <3> QED BY <2>3, <2>5, <3>1, SourcesAssumption
    <2> QED BY <2>2, <2>4, <2>5
  <1>3. CASE save.level = "ADDITIONAL_FUNDING_SOURCES_GIA_SELECTED"
    <2> SUFFICES ASSUME NEW s \in Dropped(save)
                 PROVE  /\ \E t \in now : t.op = "nullColumns" /\ s \in t.sources
                        /\ s \notin Contributed
      BY <1>1 DEF Settling
    <2>1. now = AdditionalThreads(save)
      BY <1>3 DEF Normalizers
    <2>2. s \in Additional \ save.chosen
      BY <1>3 DEF Dropped
    <2>3. PICK t : t = [Do("nullColumns") EXCEPT !.sources = Additional \ save.chosen]
      OBVIOUS
    <2>4. t.op = "nullColumns" /\ t.sources = Additional \ save.chosen
      BY <2>3 DEF Do, Blank
    <2>5. t \in now
      BY <2>1, <2>2, <2>3 DEF AdditionalThreads
    <2> QED BY <2>2, <2>4, <2>5, SourcesAssumption
  <1>4. CASE save.level \notin {"FUNDING_SOURCES_SELECTED",
                                "ADDITIONAL_FUNDING_SOURCES_GIA_SELECTED"}
    BY <1>4, NothingSettles
  <1> QED BY <1>2, <1>3, <1>4

\* A save without threads of its own writes the project at once.
LEMMA NothingReady ==
    ASSUME TypeInv, TypeInv', UNCHANGED <<project, contributors>>, RowsInv',
           NEW save \in Menu, Normalizers(save, project) = {},
           ~narrowed' => ~Narrows(save)
    PROVE  Ready(save)'
  <1>0. project \in Projects
    BY DEF TypeInv, TypeOK
  <1>1. CASE save.level \notin YearLevels \cup {"CLEAR_STALE_DATA", "TIMELINE"}
    <2>1. PICK now : now = Normalizers(save, project)
      OBVIOUS
    <2>2. Settling(save, now)'
      BY <1>0, <2>1, NormalizersSettle
    <2>3. now = {}
      BY <2>1
    <2> QED BY <1>1, <2>2, <2>3, SettledReady
  <1>2. CASE save.level \in YearLevels
    <2>1. /\ Saved(save).flag = project.flag /\ Saved(save)' = Saved(save)
          /\ Saved(save).start = Start(save, project)
          /\ Saved(save).end = End(save, project)
      BY <1>0, <1>2, SavedStays, YearsSaved
    <2>2. YearThreads(save, project) = {}
      BY <1>2 DEF Normalizers, YearLevels
    <2>3. None \in {Saved(save).start, Saved(save).end}
      BY <2>1, <2>2 DEF YearThreads
    <2>4. RangeClean(Saved(save))'
      BY <2>1, <2>3 DEF RangeClean, InRange
    <2>5. FlagsClean(Saved(save))'
      BY <2>1 DEF RowsInv, FlagsClean
    <2> QED BY <2>4, <2>5 DEF Ready
  <1>3. save.level # "CLEAR_STALE_DATA"
    BY DEF Normalizers, ClearThreads
  <1>4. CASE save.level = "TIMELINE"
    <2>1. Saved(save).flag = project.flag /\ Saved(save)' = Saved(save)
      BY <1>0, <1>4, SavedStays, YearsSaved
    <2>2. ~narrowed' => \A y \in Years : InRange(y, project) => InRange(y, Saved(save))
      BY <1>4 DEF Narrows
    <2>3. RangeClean(project)' /\ FlagsClean(project)'
      BY DEF RowsInv
    <2>4. RangeClean(Saved(save))'
      BY <2>1, <2>2, <2>3 DEF RangeClean, InRange
    <2>5. FlagsClean(Saved(save))'
      BY <2>1, <2>3 DEF FlagsClean
    <2> QED BY <2>4, <2>5 DEF Ready
  <1> QED BY <1>1, <1>2, <1>3, <1>4

-----------------------------------------------------------------------------
(***************************************************************************)
(* The invariant of serial saves.                                          *)
(***************************************************************************)
LEMMA ValidateSerial ==
    ASSUME TypeInv, TypeInv', SerialInv, serial, NEW r \in Requests, Validate(r)
    PROVE  SerialInv'
  <1>1. /\ UNCHANGED <<project, values, contributors, born, saves, serial, narrowed>>
        /\ req[r].phase = "loaded"
        /\ req' = [req EXCEPT ![r] = IF Accepted(req[r].save, req[r].read)
                                     THEN Begin(req[r]) ELSE Idle]
    BY DEF Validate
  <1>2. RowsInv'
    BY <1>1, SameTables
  <1>3. PICK save : save = req[r].save
    OBVIOUS
  <1>4. /\ RequestTyped(req[r], born) /\ RequestInv(req[r])
        /\ save \in Menu /\ req[r].now = {}
    BY <1>1, <1>3 DEF TypeInv, RequestTyped, SerialInv
  <1>5. Unwritten(req[r]) /\ req[r].read = project
    BY <1>1, <1>4 DEF Unwritten, RequestInv
  <1>6. CASE Accepted(save, project)
    <2>1. PICK now : now = Normalizers(save, project)
      OBVIOUS
    <2>2. PICK later : later = UpsertProject
      OBVIOUS
    <2>3. req' = [req EXCEPT ![r] = Proceed(@, now, later)]
      BY <1>1, <1>3, <1>5, <1>6, <2>1, <2>2 DEF Begin
    <2>4. project \in Projects /\ UNCHANGED project /\ UNCHANGED contributors
      BY <1>1 DEF TypeInv, TypeOK
    <2>5. \A u \in now : Claim(save, u)' /\ u.op \notin ProjectOps
      BY <1>4, <1>6, <2>1, <2>4, NormalizersClaim
    <2>6. Apart(save, now)
      BY <1>4, <2>1, <2>4, NormalizersApart
    <2>7. Settling(save, now)'
      BY <1>4, <2>1, <2>4, NormalizersSettle
    <2>8. now = {} => Ready(save)'
      <3>1. ~narrowed' => ~Narrows(save)
        BY <1>1, <1>3, <1>4 DEF RequestInv
      <3> QED BY <1>1, <1>2, <1>4, <2>1, <3>1, NothingReady
    <2>9. later \in {{}, UpsertProject}
      BY <2>2
    <2> QED BY <1>2, <1>3, <1>5, <2>3, <2>4, <2>5, <2>6, <2>7, <2>8, <2>9, GoOn
  <1>7. CASE ~Accepted(save, project)
    <2>1. req' = [req EXCEPT ![r] = Idle]
      BY <1>1, <1>3, <1>5, <1>7
    <2>2. req[r].phase # "idle"
      BY <1>1
    <2> QED BY <1>2, <2>1, <2>2, GoIdle
  <1> QED BY <1>6, <1>7

LEMMA LoadSerial ==
    ASSUME TypeInv, SerialInv, NEW r \in Requests, NEW i \in Instances, NEW save \in Menu,
           Load(r, i, save)
    PROVE  SerialInv'
  <1> SUFFICES ASSUME serial'
               PROVE  RowsInv' /\ OneBusy' /\ \A q \in Requests : RequestInv(req[q])'
    BY DEF SerialInv
  <1>1. PICK n : n = [phase |-> "loaded", at |-> i, save |-> save,
                      read |-> IF cache[i] # None THEN cache[i] ELSE project,
                      before |-> contributors, now |-> {}, later |-> {}]
    OBVIOUS
  <1>2. /\ UNCHANGED <<project, values, contributors, born, cache>>
        /\ req' = [req EXCEPT ![r] = n] /\ serial
        /\ n.read = project /\ \A q \in Requests : req[q].phase = "idle"
        /\ narrowed => narrowed'
    BY <1>1 DEF Load
  <1>3. RowsInv'
    BY <1>2, SameTables
  <1>4. /\ req'[r] = n /\ \A q \in Requests \ {r} : req'[q] = req[q]
        /\ n.now = {} /\ n.later = {}
    BY <1>1, <1>2 DEF TypeInv
  <1>5. \A q \in Requests \ {r} :
           req'[q].phase = "idle" /\ req'[q].now = {} /\ req'[q].later = {}
    BY <1>2, <1>4 DEF TypeInv, RequestTyped
  <1>6. OneBusy'
    BY <1>5 DEF OneBusy
  <1>7. \A q \in Requests \ {r} : RequestInv(req[q])'
    BY <1>5 DEF RequestInv, Unwritten, Apart
  <1>8. RequestInv(req[r])'
    <2>1. ~narrowed' => ~Narrows(save)
      BY DEF Load
    <2>2. Saved(save)' = Saved(save)
      BY <1>2, SavedStays
    <2>3. ~narrowed' => ~Narrows(save)'
      BY <1>2, <2>1, <2>2 DEF Narrows, InRange
    <2>4. n.save = save
      BY <1>1
    <2> QED BY <1>2, <1>4, <2>3, <2>4 DEF RequestInv, Unwritten, Apart
  <1> QED BY <1>3, <1>6, <1>7, <1>8

LEMMA StatementSerial ==
    ASSUME TypeInv, TypeInv', SerialInv, serial,
           NEW r \in Requests, NEW t \in req[r].now, Statement(r, t)
    PROVE  SerialInv'
  BY NullColumnsSerial, DeleteTypeSerial, FindSerial, ReadNamesSerial, RenameSerial,
     ReadRangeSerial, CreateValuesSerial, CreateContributorsSerial, UpsertValueSerial,
     UpsertContributorsSerial, DeleteStaleSerial, DeleteContributorsSerial,
     DeleteValuesSerial, ClearValuesSerial, ClearContributorsSerial,
     WriteProjectSerial, InvalidateSerial DEF Statement

LEMMA NotSerialKept ==
    ASSUME ~serial, UNCHANGED serial
    PROVE  SerialInv'
  BY DEF SerialInv

LEMMA NextSerial ==
    ASSUME TypeInv, TypeInv', SerialInv, [Next]_vars
    PROVE  SerialInv'
  <1>1. CASE \E r \in Requests, i \in Instances, save \in Menu : Load(r, i, save)
    BY <1>1, LoadSerial
  <1>2. CASE \E r \in Requests : Validate(r)
    <2>1. UNCHANGED serial
      BY <1>2 DEF Validate
    <2> QED BY <1>2, <2>1, ValidateSerial, NotSerialKept DEF TypeInv, TypeOK
  <1>3. CASE \E r \in Requests : \E t \in req[r].now : Statement(r, t) \/ Fail(r, t)
    <2>0. PICK r \in Requests : \E t \in req[r].now : Statement(r, t) \/ Fail(r, t)
      BY <1>3
    <2>1. PICK t \in req[r].now : Statement(r, t) \/ Fail(r, t)
      BY <2>0
    <2>2. UNCHANGED serial
      <3>1. CASE Fail(r, t)
        BY <3>1 DEF Fail
      <3>2. CASE Statement(r, t)
        BY <3>2 DEF Statement, NullColumns, DeleteType, Find, ReadNames, Rename, ReadRange,
           CreateValues, CreateContributors, UpsertValue, UpsertContributors, DeleteStale,
           DeleteContributors, DeleteValues, ClearValues, ClearContributors,
           WriteProject, Invalidate
      <3> QED BY <2>1, <3>1, <3>2
    <2> QED BY <2>1, <2>2, StatementSerial, FailSerial, NotSerialKept
  <1>4. CASE UNCHANGED <<project, values, contributors, req, serial, narrowed>>
    <2>1. CASE serial
      <3>1. RowsInv' /\ Ids' = Ids
        BY <1>4, <2>1, SameTables
      <3>2. OneBusy'
        BY <1>4, <2>1 DEF SerialInv, OneBusy
      <3>3. \A r \in Requests : RequestInv(req[r])'
        <4> SUFFICES ASSUME NEW r \in Requests PROVE RequestInv(req[r])'
          OBVIOUS
        <4>1. RequestInv(req[r])
          BY <2>1 DEF SerialInv
        <4>2. \A save : Saved(save)' = Saved(save)
          BY <1>4, SavedStays
        <4>3. (\A y \in DOMAIN values : Id(y)' = Id(y))
          BY <1>4 DEF Id
        <4>4. \A save, t : Claim(save, t) => Claim(save, t)'
          BY <1>4, <3>1, <4>2, <4>3 DEF Claim, Ready, RangeClean, FlagsClean
        <4>5. \A save, now : Settling(save, now) => Settling(save, now)'
          BY <1>4 DEF Settling
        <4>6. \A save : Narrows(save)' <=> Narrows(save)
          BY <1>4, <4>2 DEF Narrows, InRange
        <4> QED BY <1>4, <4>1, <4>4, <4>5, <4>6 DEF RequestInv, Unwritten, Apart
      <3> QED BY <3>1, <3>2, <3>3 DEF SerialInv
    <2>2. CASE ~serial
      BY <1>4, <2>2, NotSerialKept
    <2> QED BY <2>1, <2>2
  <1>5. (\E i \in Instances : Expire(i)) \/ UNCHANGED vars =>
            UNCHANGED <<project, values, contributors, req, serial, narrowed>>
    BY DEF Expire, vars
  <1> QED BY <1>1, <1>2, <1>3, <1>4, <1>5 DEF Next

LEMMA InitSerial ==
    ASSUME Init
    PROVE  SerialInv
  <1>1. PICK filled \in BOOLEAN, start \in Years, end \in Years :
           start <= end /\ Stored(filled, start, end)
    BY DEF Init
  <1> DEFINE ys == IF filled THEN {end} ELSE {}
             cs == IF filled THEN Contributed ELSE {}
  <1>2. /\ project.flag = [s \in Sources |-> filled]
        /\ project.start = start /\ project.end = end
        /\ values = [y \in ys |-> [nth |-> 1, amount |-> FilledAmount,
                                   total |-> Sum(FilledAmount)]]
        /\ contributors = [k \in {<<<<y, 1>>, c, FirstName>> : y \in ys, c \in cs} |-> 1]
    BY <1>1 DEF Stored
  <1>3. start \in Nat /\ end \in Nat /\ \A y \in ys : y = end /\ filled
    BY NumbersAssumption
  <1> HIDE DEF ys, cs
  <1>4. \A k \in DOMAIN contributors : \E y \in ys : k[1] = <<y, 1>>
    BY <1>2
  <1>5. Orphanless
    BY <1>2, <1>4 DEF Orphanless, Ids, Id
  <1>6. InRange(end, project)
    BY <1>1, <1>2, <1>3 DEF InRange
  <1>7. RangeClean(project)
    BY <1>2, <1>3, <1>4, <1>6 DEF RangeClean
  <1>8. FlagsClean(project)
    <2>1. CASE filled
      BY <1>2, <2>1 DEF FlagsClean
    <2>2. CASE ~filled
      <3>1. ys = {}
        BY <2>2, <1>3
      <3> QED BY <1>2, <1>4, <3>1 DEF FlagsClean
    <2> QED BY <2>1, <2>2
  <1>9. OneBusy /\ \A r \in Requests : RequestInv(req[r])
    BY IdleInv, IdleTyped DEF Init, OneBusy
  <1> QED BY <1>5, <1>7, <1>8, <1>9 DEF SerialInv, RowsInv

LEMMA AlwaysSerial == Spec => [](TypeInv /\ SerialInv)
  <1>1. Init => TypeInv /\ SerialInv
    BY InitTyped, InitSerial
  <1>2. (TypeInv /\ SerialInv) /\ [Next]_vars => (TypeInv /\ SerialInv)'
    BY NextTyped, NextSerial
  <1> QED BY <1>1, <1>2, PTL DEF Spec

(* While no save overlaps another or reads a stale cache, and no page of a  *)
(* date carried years that leave out one of the range, the years outside    *)
(* the project's range have no amounts: a save of the first or of the last  *)
(* year finds and clears the rows that fall out before it writes the year,  *)
(* and when one of its statements fails the year is not written             *)
(* (project-funding-sources-service.js, upsert-project.js).  A page of a    *)
(* date writes its years and clears nothing (levels/timeline.js): it keeps  *)
(* the property when its range covers that of the project.                  *)
THEOREM SpendingStaysInRange == Spec => []NothingOutsideRange
  <1>1. SerialInv => NothingOutsideRange
    BY DEF SerialInv, RowsInv, RangeClean, NothingOutsideRange, OfIds
  <1> QED BY <1>1, AlwaysSerial, PTL

(* While no save overlaps another or reads a stale cache, a source whose    *)
(* flag is off has neither amounts nor contributors with amounts, also      *)
(* while a save is between two of its statements: the columns are nulled    *)
(* and the contributors deleted by threads that run together, and the flag  *)
(* falls when both are through.                                             *)
THEOREM DeselectedSourcesAreEmpty == Spec => []DeselectedIsEmpty
  <1>1. SerialInv => DeselectedIsEmpty
    BY DEF SerialInv, RowsInv, FlagsClean, DeselectedIsEmpty, OfIds
  <1> QED BY <1>1, AlwaysSerial, PTL

(* While no save overlaps another or reads a stale cache, every row of a    *)
(* contributor hangs on a row of a year: the contributors of a year are     *)
(* deleted before the year is, and written only under ids that are there;   *)
(* statements of other years that run beside do not reach them.             *)
THEOREM ContributorsHaveTheirYear == Spec => []NoOrphans
  <1>1. SerialInv => NoOrphans
    BY DEF SerialInv, RowsInv, Orphanless, NoOrphans, OfIds
  <1> QED BY <1>1, AlwaysSerial, PTL
=============================================================================
