--------------------------- MODULE FundingEditing ---------------------------
(***************************************************************************)
(* The money of one proposal: which sources pay for it, how much in which  *)
(* financial year, and who contributes.  It is kept in three tables:       *)
(*   pafs_core_projects              the flags, the range of years and the *)
(*                                   names of the contributors (project),  *)
(*   pafs_core_funding_values        one row for each year (values),       *)
(*   pafs_core_funding_contributors  one row for each contributor of a     *)
(*                                   year (contributors).                  *)
(*                                                                         *)
(* A page of the form is saved by POST /project/upsert with its level.  A  *)
(* save reads the project, perhaps from a cache of its instance, checks    *)
(* the payload against what it read, changes the rows of the two other     *)
(* tables and writes the project last.  It has no transaction: what        *)
(* Promise.all runs together interleaves, and a statement that fails stops *)
(* its own thread and the stages to come.                                  *)
(*                                                                         *)
(* An amount of 0 stands for 0 and for NULL.  A row of values has an id;   *)
(* here it is its year and the number of rows that year had before it.     *)
(***************************************************************************)
EXTENDS Integers, FiniteSets, FiniteSetsExt, Functions

CONSTANTS
    Instances,    \* server processes
    Requests,     \* saves that may be under way at a time
    Years,        \* financial years
    Main,         \* main sources without contributors: fcermGia, localLevy...
    Additional,   \* the sources under additionalFcermGia: recovery...
    Contributed,  \* the sources with contributors: publicContributions...
    Names,        \* names of contributors
    Menu,         \* the saves that users may send
    MaxAmount,    \* bound: the largest amount of a payload
    MaxSaves,     \* bound: saves of a behaviour
    None          \* no year, no entry, no new name

VARIABLES
    project,       \* the row of the proposal
    values,        \* year -> row of that year
    contributors,  \* <<id, source, name>> -> amount
    born,          \* year -> rows that year has had
    cache,         \* instance -> project it keeps, or None
    req,           \* request -> the save it works on (with the contributors
                   \* before it, for RenameKeepsAmount)
    saves,         \* saves so far
    serial,        \* no save so far overlapped another or read a stale cache
    narrowed       \* some page of a date carried years that leave out a year of
                   \* the range that was stored

vars == <<project, values, contributors, born, cache, req, saves, serial, narrowed>>

Sources == Main \cup Additional \cup Contributed
Amounts == [Sources -> Nat]
NoAmounts == [s \in Sources |-> 0]

Sum(amount) == SumFunction(amount)
WithoutSources(amount, S) == [s \in Sources |-> IF s \in S THEN 0 ELSE amount[s]]

\* The sources are columns of different names, and there are finitely many
\* names of contributors, one at least.
ASSUME SourcesAssumption ==
    /\ IsFiniteSet(Sources)
    /\ Additional \cap (Main \cup Contributed) = {} /\ Main \cap Contributed = {}
    /\ IsFiniteSet(Names) /\ Names # {}
ASSUME NumbersAssumption == Years \subseteq Nat /\ MaxAmount \in Nat /\ MaxSaves \in Nat

Id(y) == <<y, values[y].nth>>
Ids == {Id(y) : y \in DOMAIN values}
InRange(y, p) == p.start # None /\ p.end # None => y \in p.start .. p.end

(***************************************************************************)
(* The payloads of the levels, as the schemas accept them.                 *)
(***************************************************************************)
SelectSources == [level : {"FUNDING_SOURCES_SELECTED"},
                  chosen : SUBSET (Main \cup Contributed), additional : BOOLEAN]
SelectAdditional == [level : {"ADDITIONAL_FUNDING_SOURCES_GIA_SELECTED"},
                     chosen : SUBSET Additional]
NameContributors == [level : {"CONTRIBUTORS"}, source : Contributed,
                     names : SUBSET Names]
FinancialYear == [level : {"FINANCIAL_START_YEAR"}, years : [{"start"} -> Years]]
                 \cup [level : {"FINANCIAL_END_YEAR"}, years : [{"end"} -> Years]]

\* The pages of dates (TIMELINE stands for their levels) send the years, or one
\* of them, that were shown beside the date.
DatePage == [level : {"TIMELINE"}, years : UNION {[e -> Years] : e \in SUBSET {"start", "end"}}]

\* Every key is optional; null is FALSE for a flag and nobody for the names.
ClearStaleData ==
    [level : {"CLEAR_STALE_DATA"}, flag : UNION {[S -> BOOLEAN] : S \in SUBSET Sources},
     growth : BOOLEAN \cup {None},
     years : UNION {[e -> Years \cup {None}] : e \in SUBSET {"start", "end"}},
     names : UNION {[C -> SUBSET Names] : C \in SUBSET Contributed}]

\* A row of the page of estimated spend: what the user gave for each source,
\* and for each contributor.
SpendRow == [amount : [Sources -> 0 .. MaxAmount],
             by : [Contributed \X Names -> 0 .. MaxAmount]]
EstimatedSpend ==
    [level : {"FUNDING_SOURCES_ESTIMATED_SPEND"},
     rows : UNION {[ys -> SpendRow] : ys \in SUBSET Years \ {{}}}]

Payloads == SelectSources \cup SelectAdditional \cup NameContributors
            \cup FinancialYear \cup DatePage \cup ClearStaleData \cup EstimatedSpend
ASSUME MenuAssumption == Menu \subseteq Payloads

(***************************************************************************)
(* Checks against the project that was read.                               *)
(***************************************************************************)
\* The years of the project with those that are sent.
Sends(save, e) ==
    /\ save.level \in {"FINANCIAL_START_YEAR", "FINANCIAL_END_YEAR", "TIMELINE",
                       "CLEAR_STALE_DATA"}
    /\ e \in DOMAIN save.years
Start(save, p) == IF Sends(save, "start") THEN save.years["start"] ELSE p.start
End(save, p) == IF Sends(save, "end") THEN save.years["end"] ELSE p.end

YearsInOrder(save, p) ==
    Start(save, p) # None /\ End(save, p) # None => Start(save, p) <= End(save, p)

Accepted(save, p) ==
    /\ YearsInOrder(save, p)
    /\ save.level = "FUNDING_SOURCES_ESTIMATED_SPEND" =>
           \A y \in DOMAIN save.rows : InRange(y, p)

\* What is given for a source that is not selected is dropped.
StripDisabled(row, p) ==
    [amount |-> [s \in Sources |-> IF p.flag[s] THEN row.amount[s] ELSE 0],
     by |-> [b \in Contributed \X Names |-> IF p.flag[b[1]] THEN row.by[b] ELSE 0]]

\* The amount of a source with contributors, when none is given, is theirs.
MergeContributors(row) ==
    [s \in Sources |->
        IF s \in Contributed /\ row.amount[s] = 0
        THEN SumFunction([n \in Names |-> row.by[<<s, n>>]])
        ELSE row.amount[s]]

Entries(row) == {<<b[1], b[2], row.by[b]>> : b \in {b \in Contributed \X Names : row.by[b] > 0}}

(***************************************************************************)
(* A save runs its functions together, and then writes the project.  A     *)
(* thread is one of the functions: op is the statement it comes to, and    *)
(* what it works on beside it.  The ids that one statement finds are those *)
(* the rest of its function works on.                                      *)
(***************************************************************************)
Blank == [op |-> "none", ids |-> {}, years |-> {}, sources |-> {}, names |-> {},
          amount |-> NoAmounts, entries |-> {}, left |-> {}]
Do(op) == [Blank EXCEPT !.op = op]

\* The statement that follows another one in its function.
\* Faulty: the row of a year is deleted before its contributors.
AfterValuesFirst ==
    [findStored |-> "names",
     range |-> "createValues", createValues |-> "findCreated",
     findCreated |-> "createContributors",
     upsertValue |-> "upsertContributors", upsertContributors |-> "deleteStale",
     findEmptied |-> "deleteValues", deleteValues |-> "deleteContributors",
     findOutside |-> "clearValues", clearValues |-> "clearContributors",
     project |-> "invalidate"]
After ==
    [findStored |-> "names",
     range |-> "createValues", createValues |-> "findCreated",
     findCreated |-> "createContributors",
     upsertValue |-> "upsertContributors", upsertContributors |-> "deleteStale",
     findEmptied |-> "deleteContributors", deleteContributors |-> "deleteValues",
     findOutside |-> "clearValues", clearValues |-> "clearContributors",
     project |-> "invalidate"]

\* Deselected sources lose their columns; deselected contributors their rows.
Gone(save) == (Main \cup Contributed) \ save.chosen
SelectedThreads(save) ==
    (IF Gone(save) = {} THEN {} ELSE {[Do("nullColumns") EXCEPT !.sources = Gone(save)]})
    \cup (IF save.additional THEN {} ELSE {[Do("nullColumns") EXCEPT !.sources = Additional]})
    \cup (IF Gone(save) \cap Contributed = {} THEN {}
          ELSE {[Do("deleteTypes") EXCEPT !.sources = Gone(save) \cap Contributed]})

AdditionalThreads(save) ==
    IF Additional \subseteq save.chosen THEN {}
    ELSE {[Do("nullColumns") EXCEPT !.sources = Additional \ save.chosen]}

CleanupThread(save) ==
    [Do("findStored") EXCEPT !.years = Years, !.sources = {save.source}, !.names = save.names]

\* A project that was read without a range is asked for it again.
EnsureThread(save, p) ==
    IF None \in {p.start, p.end}
    THEN [Do("range") EXCEPT !.sources = {save.source}, !.names = save.names]
    ELSE [Do("createValues") EXCEPT !.sources = {save.source}, !.names = save.names,
                                    !.years = {y \in Years : InRange(y, p)}]

NamesThreads(save, p) ==
    {CleanupThread(save)} \cup (IF save.names = {} THEN {} ELSE {EnsureThread(save, p)})

SpendThread(y, row) ==
    IF MergeContributors(row) = NoAmounts
    THEN [Do("findEmptied") EXCEPT !.years = {y}]
    ELSE [Do("upsertValue") EXCEPT !.years = {y}, !.amount = MergeContributors(row),
                                   !.entries = Entries(row), !.left = Entries(row)]

SpendThreads(save, p) == {SpendThread(y, StripDisabled(save.rows[y], p)) : y \in DOMAIN save.rows}

\* Faulty: the years are compared with those of the project before the save.
YearThreadsOfOldRange(save, p) ==
    IF None \in {p.start, p.end} THEN {}
    ELSE {[Do("findOutside") EXCEPT !.years = {y \in Years : ~InRange(y, p)}]}
YearThreads(save, p) ==
    IF None \in {Start(save, p), End(save, p)} THEN {}
    ELSE {[Do("findOutside") EXCEPT
              !.years = {y \in Years : y < Start(save, p) \/ y > End(save, p)}]}

ClearThreads == {[Do("findEmptied") EXCEPT !.years = Years]}

Normalizers(save, p) ==
    CASE save.level = "FUNDING_SOURCES_SELECTED" -> SelectedThreads(save)
      [] save.level = "ADDITIONAL_FUNDING_SOURCES_GIA_SELECTED" -> AdditionalThreads(save)
      [] save.level = "CONTRIBUTORS" -> NamesThreads(save, p)
      [] save.level = "FUNDING_SOURCES_ESTIMATED_SPEND" -> SpendThreads(save, p)
      [] save.level = "CLEAR_STALE_DATA" -> ClearThreads
      [] save.level = "TIMELINE" -> {}
      [] OTHER -> YearThreads(save, p)

Idle == [phase |-> "idle", at |-> None, save |-> None, read |-> None,
         before |-> None, now |-> {}, later |-> {}]

UpsertProject == {Do("project")}

\* A request q goes on with the threads now, and those of later when they are
\* all through.
Proceed(q, now, later) ==
    IF now # {} THEN [q EXCEPT !.phase = "writing", !.now = now, !.later = later]
    ELSE IF later # {} THEN [q EXCEPT !.phase = "writing", !.now = later, !.later = {}]
    ELSE Idle

\* Faulty: the project is written before its rows are.
BeginProjectFirst(q) == Proceed(q, UpsertProject, Normalizers(q.save, q.read))
Begin(q) == Proceed(q, Normalizers(q.save, q.read), UpsertProject)

\* The columns of the project that the payload, as the normalizers leave it,
\* writes.
Saved(save) ==
    CASE save.level = "FUNDING_SOURCES_SELECTED" ->
            [project EXCEPT
                !.flag = [s \in Sources |->
                            IF s \in Additional THEN save.additional /\ project.flag[s]
                            ELSE s \in save.chosen],
                !.growth = save.additional,
                !.names = [c \in Contributed |->
                            IF c \in save.chosen THEN project.names[c] ELSE {}]]
      [] save.level = "ADDITIONAL_FUNDING_SOURCES_GIA_SELECTED" ->
            [project EXCEPT !.flag = [s \in Sources |->
                            IF s \in Additional THEN s \in save.chosen ELSE project.flag[s]]]
      [] save.level = "CONTRIBUTORS" -> [project EXCEPT !.names[save.source] = save.names]
      [] save.level = "CLEAR_STALE_DATA" ->
            [flag |-> [s \in Sources |->
                          IF s \in DOMAIN save.flag THEN save.flag[s] ELSE project.flag[s]],
             growth |-> IF save.growth = None THEN project.growth ELSE save.growth,
             start |-> Start(save, project), end |-> End(save, project),
             names |-> [c \in Contributed |->
                           IF c \in DOMAIN save.names THEN save.names[c] ELSE project.names[c]]]
      [] OTHER -> [project EXCEPT !.start = Start(save, project), !.end = End(save, project)]

\* A page of a date leaves out a year of the range: it writes the years without
\* a look at the rows.
Narrows(save) ==
    /\ save.level = "TIMELINE"
    /\ \E y \in Years : InRange(y, project) /\ ~InRange(y, Saved(save))

-----------------------------------------------------------------------------
(***************************************************************************)
(* A save arrives, reads the project, and is checked.  The entry is put    *)
(* into the cache when the read, and what it awaits, is over.              *)
(***************************************************************************)
Load(r, i, save) ==
    /\ req[r].phase = "idle"
    /\ saves < MaxSaves
    /\ saves' = saves + 1
    /\ LET p == IF cache[i] # None THEN cache[i] ELSE project
       IN  /\ req' = [req EXCEPT ![r] = [phase |-> "loaded", at |-> i, save |-> save,
                                         read |-> p, before |-> contributors,
                                         now |-> {}, later |-> {}]]
           /\ serial' = (serial /\ p = project /\ \A q \in Requests : req[q].phase = "idle")
    /\ narrowed' = (narrowed \/ Narrows(save))
    /\ UNCHANGED <<project, values, contributors, born, cache>>

Validate(r) ==
    /\ req[r].phase = "loaded"
    /\ cache' = [cache EXCEPT ![req[r].at] = IF @ = None THEN req[r].read ELSE @]
    /\ req' = [req EXCEPT ![r] = IF Accepted(@.save, @.read) THEN Begin(@) ELSE Idle]
    /\ UNCHANGED <<project, values, contributors, born, saves, serial, narrowed>>

Expire(i) ==
    /\ cache[i] # None
    /\ cache' = [cache EXCEPT ![i] = None]
    /\ UNCHANGED <<project, values, contributors, born, req, saves, serial, narrowed>>

-----------------------------------------------------------------------------
(***************************************************************************)
(* The statements.  t is a thread of request r that is under way.          *)
(***************************************************************************)
Resume(r, now, later) == req' = [req EXCEPT ![r] = Proceed(@, now, later)]

\* Thread t goes on with the threads of us, one or none.
Advance(r, t, us) == Resume(r, (req[r].now \ {t}) \cup us, req[r].later)

Following(t) == IF t.op \in DOMAIN After THEN {[t EXCEPT !.op = After[t.op]]} ELSE {}

\* A statement fails: the threads beside it run on, and nothing comes after.
Fail(r, t) ==
    /\ Resume(r, req[r].now \ {t}, {})
    /\ UNCHANGED <<project, values, contributors, born, cache, saves, serial, narrowed>>

OfIds(ids) == {k \in DOMAIN contributors : k[1] \in ids}
Without(K) == [k \in DOMAIN contributors \ K |-> contributors[k]]
RowsOf(ids) == {y \in DOMAIN values : Id(y) \in ids}
\* Faulty: a row that was deleted gives its id to the next one.
NewRowOfSameId(y, amount) == [nth |-> born[y], amount |-> amount, total |-> Sum(amount)]
NewRow(y, amount) == [nth |-> born[y] + 1, amount |-> amount, total |-> Sum(amount)]

\* Faulty: the total is left as it was.
NullColumnsAlone(r, t) ==
    /\ t.op = "nullColumns"
    /\ values' = [y \in DOMAIN values |->
                    [values[y] EXCEPT !.amount = WithoutSources(@, t.sources)]]
    /\ Advance(r, t, {})
    /\ UNCHANGED <<project, contributors, born, cache, saves, serial, narrowed>>
NullColumns(r, t) ==
    /\ t.op = "nullColumns"
    /\ values' = [y \in DOMAIN values |->
                    [values[y] EXCEPT !.amount = WithoutSources(@, t.sources),
                                      !.total = Sum(WithoutSources(values[y].amount, t.sources))]]
    /\ Advance(r, t, {})
    /\ UNCHANGED <<project, contributors, born, cache, saves, serial, narrowed>>

\* One type after the other.
DeleteType(r, t) ==
    /\ t.op = "deleteTypes"
    /\ \E c \in t.sources :
        /\ contributors' = Without({k \in OfIds(Ids) : k[2] = c})
        /\ Advance(r, t, IF t.sources = {c} THEN {} ELSE {[t EXCEPT !.sources = @ \ {c}]})
    /\ UNCHANGED <<project, values, born, cache, saves, serial, narrowed>>

\* When nothing is found the function returns, except where it deletes all.
Find(r, t) ==
    /\ t.op \in {"findStored", "findCreated", "findEmptied", "findOutside"}
    /\ LET ids == {Id(y) : y \in DOMAIN values \cap t.years}
       IN  Advance(r, t, IF ids = {} /\ req[r].save.level # "CLEAR_STALE_DATA" THEN {}
                         ELSE Following([t EXCEPT !.ids = ids]))
    /\ UNCHANGED <<project, values, contributors, born, cache, saves, serial, narrowed>>

\* The names that are stored are read; those that left are paired with those
\* that are new, in order, and the pairs are renamed.
Pairings(gone, new) ==
    {f \in [gone -> new \cup {None}] :
        /\ \A m, n \in gone : f[m] = f[n] /\ f[m] # None => m = n
        /\ Cardinality({n \in gone : f[n] # None}) = Min({Cardinality(gone), Cardinality(new)})}

ReadNames(r, t) ==
    /\ t.op = "names"
    /\ LET rows == {k \in OfIds(t.ids) : k[2] \in t.sources}
           stored == {k[3] : k \in rows}
           gone == stored \ t.names
       IN  IF t.names = {}
           THEN /\ contributors' = Without(rows)
                /\ Advance(r, t, {})
           ELSE /\ \E f \in Pairings(gone, t.names \ stored) :
                      Advance(r, t, IF gone = {} THEN {}
                                    ELSE {[t EXCEPT !.op = "renames",
                                                    !.left = {<<n, f[n]>> : n \in gone}]})
                /\ UNCHANGED contributors
    /\ UNCHANGED <<project, values, born, cache, saves, serial, narrowed>>

\* One of the pairs: the rows of a name get the new one, unless a row of that
\* name is there (the unique constraint), or are deleted when there is none.
Rename(r, t) ==
    /\ t.op = "renames"
    /\ \E e \in t.left :
        LET old == {k \in OfIds(t.ids) : k[2] \in t.sources /\ k[3] = e[1]}
            moved == {<<k[1], k[2], e[2]>> : k \in old}
            rest == IF t.left = {e} THEN {} ELSE {[t EXCEPT !.left = @ \ {e}]}
        IN  IF e[2] # None /\ moved \cap DOMAIN contributors # {}
            THEN /\ Resume(r, (req[r].now \ {t}) \cup rest, {})
                 /\ UNCHANGED contributors
            ELSE /\ contributors' =
                        IF e[2] = None THEN Without(old)
                        ELSE [k \in (DOMAIN contributors \ old) \cup moved |->
                                IF k \in moved THEN contributors[<<k[1], k[2], e[1]>>]
                                ELSE contributors[k]]
                 /\ Advance(r, t, rest)
    /\ UNCHANGED <<project, values, born, cache, saves, serial, narrowed>>

ReadRange(r, t) ==
    /\ t.op = "range"
    /\ Advance(r, t, IF None \in {project.start, project.end} THEN {}
                     ELSE Following([t EXCEPT !.years = {y \in Years : InRange(y, project)}]))
    /\ UNCHANGED <<project, values, contributors, born, cache, saves, serial, narrowed>>

CreateValues(r, t) ==
    /\ t.op = "createValues"
    /\ LET new == t.years \ DOMAIN values
       IN  /\ values' = [y \in DOMAIN values \cup new |->
                            IF y \in new THEN NewRow(y, NoAmounts) ELSE values[y]]
           /\ born' = [y \in Years |-> IF y \in new THEN born[y] + 1 ELSE born[y]]
    /\ Advance(r, t, Following(t))
    /\ UNCHANGED <<project, contributors, cache, saves, serial, narrowed>>

CreateContributors(r, t) ==
    /\ t.op = "createContributors"
    /\ LET new == (t.ids \X t.sources \X t.names) \ DOMAIN contributors
       IN  contributors' = [k \in DOMAIN contributors \cup new |->
                                IF k \in new THEN 0 ELSE contributors[k]]
    /\ Advance(r, t, {})
    /\ UNCHANGED <<project, values, born, cache, saves, serial, narrowed>>

UpsertValue(r, t) ==
    /\ t.op = "upsertValue"
    /\ \E y \in t.years :
        LET row == IF y \in DOMAIN values
                   THEN [values[y] EXCEPT !.amount = t.amount, !.total = Sum(t.amount)]
                   ELSE NewRow(y, t.amount)
        IN  /\ values' = [z \in DOMAIN values \cup {y} |-> IF z = y THEN row ELSE values[z]]
            /\ born' = [born EXCEPT ![y] = IF y \in DOMAIN values THEN @ ELSE @ + 1]
            /\ Advance(r, t, Following([t EXCEPT !.ids = {<<y, row.nth>>}]))
    /\ UNCHANGED <<project, contributors, cache, saves, serial, narrowed>>

\* One of the contributors of the row; they are written together.
UpsertContributors(r, t) ==
    /\ t.op = "upsertContributors"
    /\ IF t.left = {}
       THEN Advance(r, t, Following(t)) /\ UNCHANGED contributors
       ELSE \E e \in t.left, id \in t.ids :
                /\ contributors' = [k \in DOMAIN contributors \cup {<<id, e[1], e[2]>>} |->
                                      IF k = <<id, e[1], e[2]>> THEN e[3] ELSE contributors[k]]
                /\ Advance(r, t, {[t EXCEPT !.left = @ \ {e}]})
    /\ UNCHANGED <<project, values, born, cache, saves, serial, narrowed>>

DeleteStale(r, t) ==
    /\ t.op = "deleteStale"
    /\ contributors' = Without({k \in OfIds(t.ids) :
                                 \A e \in t.entries : <<e[1], e[2]>> # <<k[2], k[3]>>})
    /\ Advance(r, t, {})
    /\ UNCHANGED <<project, values, born, cache, saves, serial, narrowed>>

DeleteContributors(r, t) ==
    /\ t.op = "deleteContributors"
    /\ contributors' = Without(OfIds(t.ids))
    /\ Advance(r, t, Following(t))
    /\ UNCHANGED <<project, values, born, cache, saves, serial, narrowed>>

\* One year by its id; CLEAR_STALE_DATA all rows of the project.
DeleteValues(r, t) ==
    /\ t.op = "deleteValues"
    /\ LET gone == IF req[r].save.level = "CLEAR_STALE_DATA" THEN DOMAIN values
                   ELSE RowsOf(t.ids)
       IN  values' = [y \in DOMAIN values \ gone |-> values[y]]
    /\ Advance(r, t, Following(t))
    /\ UNCHANGED <<project, contributors, born, cache, saves, serial, narrowed>>

ClearValues(r, t) ==
    /\ t.op = "clearValues"
    /\ values' = [y \in DOMAIN values |->
                    IF y \in RowsOf(t.ids)
                    THEN [values[y] EXCEPT !.amount = NoAmounts, !.total = 0] ELSE values[y]]
    /\ Advance(r, t, Following(t))
    /\ UNCHANGED <<project, contributors, born, cache, saves, serial, narrowed>>

ClearContributors(r, t) ==
    /\ t.op = "clearContributors"
    /\ contributors' = [k \in DOMAIN contributors |->
                          IF k \in OfIds(t.ids) THEN 0 ELSE contributors[k]]
    /\ Advance(r, t, {})
    /\ UNCHANGED <<project, values, born, cache, saves, serial, narrowed>>

WriteProject(r, t) ==
    /\ t.op = "project"
    /\ project' = Saved(req[r].save)
    /\ Advance(r, t, Following(t))
    /\ UNCHANGED <<values, contributors, born, cache, saves, serial, narrowed>>

Invalidate(r, t) ==
    /\ t.op = "invalidate"
    /\ cache' = [cache EXCEPT ![req[r].at] = None]
    /\ Advance(r, t, {})
    /\ UNCHANGED <<project, values, contributors, born, saves, serial, narrowed>>

Statement(r, t) ==
    \/ NullColumns(r, t) \/ DeleteType(r, t) \/ Find(r, t)
    \/ ReadNames(r, t) \/ Rename(r, t) \/ ReadRange(r, t)
    \/ CreateValues(r, t) \/ CreateContributors(r, t)
    \/ UpsertValue(r, t) \/ UpsertContributors(r, t) \/ DeleteStale(r, t)
    \/ DeleteContributors(r, t) \/ DeleteValues(r, t)
    \/ ClearValues(r, t) \/ ClearContributors(r, t)
    \/ WriteProject(r, t) \/ Invalidate(r, t)

-----------------------------------------------------------------------------
(***************************************************************************)
(* A proposal that has its range of years: one nobody gave sources yet, or *)
(* one with all of them, a contributor of each kind, and amounts in its    *)
(* last year.                                                              *)
(***************************************************************************)
FirstName == CHOOSE n \in Names : TRUE
FilledAmount == [s \in Sources |-> 1]

Stored(filled, start, end) ==
    LET ys == IF filled THEN {end} ELSE {}
        cs == IF filled THEN Contributed ELSE {}
    IN  /\ project = [flag |-> [s \in Sources |-> filled], growth |-> filled,
                      start |-> start, end |-> end,
                      names |-> [c \in Contributed |-> IF filled THEN {FirstName} ELSE {}]]
        /\ values = [y \in ys |-> [nth |-> 1, amount |-> FilledAmount,
                                   total |-> Sum(FilledAmount)]]
        /\ contributors = [k \in {<<<<y, 1>>, c, FirstName>> : y \in ys, c \in cs} |-> 1]
        /\ born = [y \in Years |-> IF y \in ys THEN 1 ELSE 0]

Init ==
    /\ \E filled \in BOOLEAN, start, end \in Years :
           start <= end /\ Stored(filled, start, end)
    /\ cache = [i \in Instances |-> None]
    /\ req = [r \in Requests |-> Idle]
    /\ saves = 0
    /\ serial = TRUE
    /\ narrowed = FALSE

Next ==
    \/ \E r \in Requests, i \in Instances, save \in Menu : Load(r, i, save)
    \/ \E r \in Requests : Validate(r)
    \/ \E i \in Instances : Expire(i)
    \/ \E r \in Requests : \E t \in req[r].now : Statement(r, t) \/ Fail(r, t)

Spec == Init /\ [][Next]_vars

-----------------------------------------------------------------------------
Projects == [flag : [Sources -> BOOLEAN], growth : BOOLEAN, start : Years \cup {None},
             end : Years \cup {None}, names : [Contributed -> SUBSET Names]]
Rows == [nth : Nat \ {0}, amount : Amounts, total : Nat]
Keys == (Years \X Nat) \X Contributed \X Names

(* The tables and the caches hold rows of their shape; a contributor's row *)
(* hangs on an id that was given to a row of values.                       *)
TypeOK ==
    /\ project \in Projects
    /\ DOMAIN values \subseteq Years
    /\ \A y \in DOMAIN values : values[y] \in Rows /\ values[y].nth <= born[y]
    /\ DOMAIN contributors \subseteq Keys
    /\ \A k \in DOMAIN contributors :
           contributors[k] \in Nat /\ k[1][2] \in 1 .. born[k[1][1]]
    /\ born \in [Years -> Nat]
    /\ cache \in [Instances -> Projects \cup {None}]
    /\ saves \in 0 .. MaxSaves /\ serial \in BOOLEAN /\ narrowed \in BOOLEAN

(* The total of a year is the sum of its columns, whatever saves run       *)
(* together and whichever statement of theirs fails: the columns of        *)
(* deselected sources are nulled and the total recomputed by one UPDATE.   *)
TotalIsSum == \A y \in DOMAIN values : values[y].total = Sum(values[y].amount)

(* Nothing is planned to be spent outside the years of the project: a      *)
(* save of the first or of the last year clears the rows that fall out     *)
(* before it writes the year, and rows are only filled within the range.   *)
(* It holds between the statements of a save and after one of them failed  *)
(* too, while no save overlaps another or reads a stale cache, and no page *)
(* of a date was sent with years that leave out one of the range: such a   *)
(* page writes its years, but clears nothing.                              *)
NothingOutsideRange ==
    serial /\ ~narrowed =>
        \A y \in Years : ~InRange(y, project) =>
            /\ y \in DOMAIN values => values[y].amount = NoAmounts
            /\ \A k \in OfIds(Ids) : k[1][1] = y => contributors[k] = 0

(* A source that is not selected has no amount in any year, and nobody is  *)
(* recorded as contributing to it: its columns and rows are cleared before *)
(* the flag, and what the page of estimated spend still sends for it is    *)
(* dropped.  It holds while no save overlaps another or reads a stale      *)
(* cache.                                                                  *)
DeselectedIsEmpty ==
    serial =>
        \A s \in Sources : ~project.flag[s] =>
            /\ \A y \in DOMAIN values : values[y].amount[s] = 0
            /\ \A k \in OfIds(Ids) : k[2] = s => contributors[k] = 0

(* A contributor's row never outlives the row of its year: contributors    *)
(* are deleted first, and created for rows that are there.                 *)
NoOrphans == serial => DOMAIN contributors = OfIds(Ids)

(* The stored amount of a contributor survives the change of its name      *)
(* (project-funding-contributors-service.js:134-137): when the page of     *)
(* names is saved with as many names as are stored, or more, the year's    *)
(* amounts of the source are what they were before.  The code does not     *)
(* keep this: the placeholder rows of the new names are made beside the    *)
(* renaming, and when they are there first the old name is not renamed but *)
(* deleted.                                                                *)
Given(rows, id, c) ==
    MapThenSumSet(LAMBDA k : rows[k], {k \in DOMAIN rows : k[1] = id /\ k[2] = c})

RenameKeepsAmount ==
    \A r \in Requests :
        LET save == req[r].save
            before == req[r].before
        IN  /\ serial /\ req[r].phase = "writing" /\ save.level = "CONTRIBUTORS"
            /\ req[r].now = UpsertProject
            /\ Cardinality({k[3] : k \in {k \in DOMAIN before : k[2] = save.source}})
                 <= Cardinality(save.names)
            => \A id \in Ids : Given(contributors, id, save.source) = Given(before, id, save.source)
=============================================================================
