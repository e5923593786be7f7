--------------------------- MODULE ProposalEditing ---------------------------
(***************************************************************************)
(* The life of one proposal while users fill in its form.  A user opens    *)
(* the proposal and saves a page of it: POST /project/upsert reads the     *)
(* proposal, perhaps from a cache of its instance, checks the form against *)
(* its schema and against what was read, changes the rows of natural flood *)
(* management and of money, and writes the proposal last, all without a    *)
(* transaction.  POST /project/{ref}/submit reads the whole proposal,      *)
(* checks it and moves it to submitted.                                    *)
(*                                                                         *)
(* The pages themselves are in ProposalPages, the rules of submission in   *)
(* ProposalRules.  Of the pages of money only those that change what       *)
(* submission sees are here, each as one statement, and which sources are  *)
(* selected does not change; FundingEditing has their detail.              *)
(***************************************************************************)
EXTENDS ProposalRules

CONSTANTS
    Instances,   \* server processes
    Users,       \* users who may edit the proposal
    Entries,     \* what users may enter: [level, fields, rows]
    Starts,      \* complete proposals: [fields, measures, landUses, money]
    MaxSaves,    \* bound: saves and submissions of a behaviour
    MaxTogether  \* bound: those of them that may have others beside them

VARIABLES
    proposal,   \* the row of the proposal: field -> answer
    measures,   \* pafs_core_nfm_measures: measure -> row
    landUses,   \* pafs_core_nfm_land_use_changes: land use -> row
    money,      \* the tables of money
    status,     \* "draft" or "submitted"
    cache,      \* instance -> fields it keeps, or None
    user,       \* user -> what the user, and the request, is doing
    saves,      \* saves and submissions so far
    serial      \* none so far overlapped another, or started from a stale
                \* view or a stale cache

vars == <<proposal, measures, landUses, money, status, cache, user, saves, serial>>

-----------------------------------------------------------------------------
(***************************************************************************)
(* The client.  It shows the pages that the answers call for, and sends    *)
(* with the answers of some of them others it has read before.             *)
(***************************************************************************)
UnlessSimplified(level) ==
    level \in {"COMPLETE_OUTLINE_BUSINESS_CASE", "AWARD_CONTRACT", "START_CONSTRUCTION"}
              \cup DOMAIN CostPages \cup DOMAIN BenefitsPages \cup DOMAIN CarbonPages

NfmAsked(p) ==
    /\ p["projectType"] \in MandatoryTypes
    /\ InterventionsIn(p) \cap NfmInterventions # {}
NfmIncluded(p) ==
    NfmAsked(p) /\ ("NFM" \in InterventionsIn(p) \/ p["naturalFloodRiskMeasuresIncluded"] = TRUE)

\* The measures are chosen before the pages that follow them are shown.
NfmPagesAfterSelection == DOMAIN NfmPages \ {"NFM_INCLUSION", "NFM_SELECTED_MEASURES"}

Offered(e, p) ==
    /\ UnlessSimplified(e.level) => p["projectType"] \notin SimplifiedTypes
    /\ e.level \in DOMAIN ConfidencePages => p["projectType"] \notin RestrictedTypes
    /\ e.level = "EARLIEST_WITH_GIA" => p["couldStartEarly"] = TRUE
    /\ e.level = "URGENCY_DETAILS" => p["urgencyReason"] \notin {None, "not_urgent"}
    /\ e.level = "GATE" => p["environmentalBenefits"] = TRUE
    /\ e.level = "QUANTITY" => \A g \in Gates : Quantity[g] \in DOMAIN e.fields => p[g] = TRUE
    /\ \A f \in CurrentRisks \cap DOMAIN e.fields : Listed(p, "risks") \cap RisksOf[f] # {}
    /\ e.level = "NFM_INCLUSION" => NfmAsked(p) /\ "NFM" \notin InterventionsIn(p)
    /\ e.level \in DOMAIN NfmPages \ {"NFM_INCLUSION"} => NfmIncluded(p)
    /\ e.level = "NFM_MEASURE" => DOMAIN e.rows \subseteq Listed(p, "nfmSelectedMeasures")
    /\ e.level \in NfmPagesAfterSelection => p["nfmSelectedMeasures"] # None
    /\ e.level = "NFM_LAND_USE" => DOMAIN e.rows \subseteq Listed(p, "nfmLandUseChange")

ContextFields(e) ==
    CASE e.level = "START_OUTLINE_BUSINESS_CASE" -> YearFields
      [] e.level = "COMPLETE_OUTLINE_BUSINESS_CASE" -> YearFields \cup {"startOutlineBusinessCase"}
      [] e.level = "AWARD_CONTRACT" -> YearFields \cup {"completeOutlineBusinessCase"}
      [] e.level = "START_CONSTRUCTION" -> YearFields \cup {"awardContract"}
      [] e.level = "READY_FOR_SERVICE" ->
            YearFields \cup {"projectType", "startConstruction", "startOutlineBusinessCase"}
      [] e.level = "EARLIEST_WITH_GIA" ->
            {"couldStartEarly", "financialStartYear", "startOutlineBusinessCase"}
      [] e.level = "URGENCY_DETAILS" -> {"urgencyReason"}
      [] e.level = "QUANTITY" -> {g \in Gates : Quantity[g] \in DOMAIN e.fields}
      [] e.level = "WHOLE_LIFE_BENEFITS" -> {"projectType"}
      [] e.level = "NFM_SELECTED_MEASURES" -> {"nfmLandUseChange"}
      [] OTHER -> {}

\* The server takes CLEAR_STALE_DATA with any date, compared with nothing, and
\* couldStartEarly without the date that hangs on it.  It is there "for the
\* clear operation", as its tests send it: its dates are null, and the date
\* goes with the question.
ClearsDates(e) ==
    /\ \A f \in DOMAIN e.fields \cap (Stages \cup {"earliestWithGia"}) : e.fields[f] = None
    /\ "couldStartEarly" \in DOMAIN e.fields => "earliestWithGia" \in DOMAIN e.fields

\* The rows of what is no longer selected are sent as null.
Unselected(e) ==
    CASE e.level = "NFM_SELECTED_MEASURES" -> Measures \ e.fields["nfmSelectedMeasures"]
      [] e.level = "NFM_LAND_USE_CHANGE" -> LandUses \ e.fields["nfmLandUseChange"]
      [] OTHER -> {}

Form(e, view) ==
    LET context == {f \in ContextFields(e) : view.fields[f] # None}
        digest == IF e.level = "CARBON_VALUES_HEXDIGEST"
                  THEN [f \in {"carbonValuesHexdigest"} |-> view.digest] ELSE Nothing
    IN  [level |-> e.level,
         fields |-> Over(Over([f \in context |-> view.fields[f]], digest), e.fields),
         rows |-> Over(e.rows, Forgotten(Unselected(e)))]

-----------------------------------------------------------------------------
(***************************************************************************)
(* The answers of a proposal.  None of them is None, or Blank.             *)
(***************************************************************************)
Flags == {"couldStartEarly", "noPropertiesAtRisk", "noPropertiesAtCoastalErosionRisk",
          "environmentalBenefits", "naturalFloodRiskMeasuresIncluded"} \cup Gates
ChoicesOf ==
    Over(Over(Over([f \in ConfidenceFields |-> ConfidenceLevels], RiskLevels), NfmChoices),
         [projectType |-> Types, mainInterventionType |-> Interventions, mainRisk |-> Risks,
          urgencyReason |-> UrgencyReasons])
Lists == [projectInterventionTypes |-> Interventions, risks |-> Risks,
          nfmSelectedMeasures |-> Measures, nfmLandUseChange |-> LandUses]
Texts == {"approach", "urgencyDetails", "carbonValuesHexdigest"}
Figures == Fields \ UNION {Flags, DOMAIN ChoicesOf, DOMAIN Lists, Texts}

Typed(f, answer) ==
    /\ f \in Flags => answer \in BOOLEAN
    /\ f \in DOMAIN ChoicesOf => answer \in ChoicesOf[f]
    /\ f \in DOMAIN Lists => answer \subseteq Lists[f]
    /\ f \in Figures => answer \in Nat
\* A list is never sent empty; the text of a figure may be.
Enterable(f, answer) ==
    \/ Typed(f, answer)
    \/ f \notin DOMAIN Lists /\ answer = None
    \/ f \in TextFigures /\ answer = Blank
Answered(p) ==
    DOMAIN p = Fields /\ \A f \in Fields : p[f] = None \/ Typed(f, p[f])

ColumnsOf(m) == MeasureColumns[m].required \cup MeasureColumns[m].optional
MeasuresTyped(rows) ==
    /\ DOMAIN rows \subseteq Measures
    /\ \A m \in DOMAIN rows : \A c \in DOMAIN rows[m] : c \in ColumnsOf(m) /\ rows[m][c] \in Nat
LandUsesTyped(rows) ==
    /\ DOMAIN rows \subseteq LandUses
    /\ \A l \in DOMAIN rows : \A c \in DOMAIN rows[l] : c \in LandUseColumns /\ rows[l][c] \in Nat

NoneOf(p, S) == \A f \in S : p[f] = None

\* No answer to a follow-up question is without the answer that asks it.
FollowedUp(p) ==
    /\ p["couldStartEarly"] # TRUE => p["earliestWithGia"] = None
    /\ p["urgencyReason"] = "not_urgent" => p["urgencyDetails"] = None
    /\ \A g \in Gates : p[g] = FALSE => p[Quantity[g]] = None

\* No answer of another page is left from a choice that was taken back.
Tidy(p) ==
    LET type == p["projectType"]
    IN  /\ type \in RestrictedTypes => NoneOf(p, ConfidenceFields)
        /\ type \in SimplifiedTypes => NoneOf(p, CostFields \cup BenefitFields \cup CarbonFields
                                                 \cup {"carbonValuesHexdigest"})
        /\ type \notin MandatoryTypes => NoneOf(p, {"mainInterventionType"})
        /\ Listed(p, "projectInterventionTypes") \subseteq InterventionsFor(type)
        /\ ~NfmAsked(p) => NoneOf(p, NfmFields)
        /\ "NFM" \in InterventionsIn(p) => NoneOf(p, {"naturalFloodRiskMeasuresIncluded"})
        /\ p["naturalFloodRiskMeasuresIncluded"] = FALSE =>
               NoneOf(p, NfmFields \ {"naturalFloodRiskMeasuresIncluded"})
        /\ p["nfmSelectedMeasures"] = None =>
               NoneOf(p, NfmFields \ {"naturalFloodRiskMeasuresIncluded"})
        /\ p["environmentalBenefits"] # TRUE => NoneOf(p, Gates \cup Quantities)
        /\ \A f \in CurrentRisks : Listed(p, "risks") \cap RisksOf[f] = {} => p[f] = None
RowsTidy(p, m, l) ==
    /\ DOMAIN m \subseteq Listed(p, "nfmSelectedMeasures")
    /\ DOMAIN l \subseteq Listed(p, "nfmLandUseChange")

-----------------------------------------------------------------------------
(***************************************************************************)
(* What the runs and the proofs take for granted of the constants.         *)
(***************************************************************************)
ASSUME BoundsAssumption == MaxSaves \in Nat /\ MaxTogether \in Nat /\ CurrentYear \in Nat

ASSUME NoneAssumption ==
    \A none \in {None, Blank} :
        /\ none \notin Nat /\ none \notin BOOLEAN /\ none \notin Fields
        /\ \A f \in DOMAIN ChoicesOf : none \notin ChoicesOf[f]
        /\ \A f \in DOMAIN Lists : \A list \in SUBSET Lists[f] : list # none

\* A page answers its own questions: what it sends along comes from the view.
ASSUME EntriesAssumption ==
    \A e \in Entries :
        /\ DOMAIN e.fields \subseteq Fields \ ContextFields(e)
        /\ \A f \in DOMAIN e.fields : Enterable(f, e.fields[f])
        /\ e.level = "QUANTITY" => DOMAIN e.fields \subseteq Quantities
        /\ e.level = "NFM_MEASURE" =>
               \A m \in DOMAIN e.rows : \A c \in DOMAIN e.rows[m] : e.rows[m][c] \in Nat \cup {None}
        /\ e.level = "NFM_LAND_USE" =>
               \A l \in DOMAIN e.rows : \A c \in DOMAIN e.rows[l] : e.rows[l][c] \in Nat \cup {None}

ASSUME ClearingAssumption ==
    \A e \in Entries : e.level = "CLEAR_STALE_DATA" => ClearsDates(e)

\* A proposal without any answer is one of these.
ASSUME StartsAssumption ==
    \A s \in Starts :
        /\ Answered(s.fields) /\ FollowedUp(s.fields) /\ Tidy(s.fields)
        /\ MeasuresTyped(s.measures) /\ LandUsesTyped(s.landUses)
        /\ RowsTidy(s.fields, s.measures, s.landUses)

-----------------------------------------------------------------------------
(***************************************************************************)
(* The statements of a save, in order.  A row that is None is deleted.     *)
(***************************************************************************)
Statement(op, rows) == [op |-> op, rows |-> rows]

\* All the children, land uses first.
DeleteAll == <<Statement("landUses", Forgotten(LandUses)), Statement("measures", Forgotten(Measures))>>

\* A page of selection deletes rows, and drops the figures of the others.
Deletion(op, form) ==
    LET unselected == {k \in DOMAIN form.rows : form.rows[k] = None}
    IN  IF unselected = {} THEN << >> ELSE <<Statement(op, Forgotten(unselected))>>

RowStatements(form, p) ==
    CASE NfmLeaves(form.level, form.fields, p) \/ NfmRefused(form.level, form.fields, p) -> DeleteAll
      [] form.level = "NFM_SELECTED_MEASURES" -> Deletion("measures", form)
      [] form.level = "NFM_MEASURE" -> <<Statement("measures", form.rows)>>
      [] form.level = "NFM_LAND_USE_CHANGE" -> Deletion("landUses", form)
      [] form.level = "NFM_LAND_USE" -> <<Statement("landUses", form.rows)>>
      [] form.level = "FUNDING_SOURCES_ESTIMATED_SPEND" -> <<Statement("spend", form.rows)>>
      [] form.level \in {"FINANCIAL_START_YEAR", "FINANCIAL_END_YEAR"} ->
            <<Statement("flush", Over([f \in YearFields |-> p[f]], form.fields))>>
      [] form.level = "CLEAR_STALE_DATA" -> <<Statement("clear", Nothing)>>
      [] OTHER -> << >>

Written(form, p) == Statement("project", Normalized(form.level, form.fields, p))

\* Faulty: the proposal is written before its rows.
StatementsProjectFirst(form, p) ==
    <<Written(form, p)>> \o RowStatements(form, p) \o <<Statement("cache", Nothing)>>
Statements(form, p) ==
    RowStatements(form, p) \o <<Written(form, p), Statement("cache", Nothing)>>

\* A column that is sent as null loses its figure, one that is not sent keeps
\* it.
Upserted(old, row) ==
    LET new == Over(old, row)
    IN  [c \in {c \in DOMAIN new : new[c] # None} |-> new[c]]

Changed(table, rows) ==
    [k \in (DOMAIN table \ {k \in DOMAIN rows : rows[k] = None})
             \cup {k \in DOMAIN rows : rows[k] # None} |->
        IF k \notin DOMAIN rows THEN table[k]
        ELSE Upserted(IF k \in DOMAIN table THEN table[k] ELSE Nothing, rows[k])]

\* What was planned for years outside the range is set to nothing.
Flushed(m, range) ==
    LET out == {y \in DOMAIN m.values :
                    /\ None \notin {range[f] : f \in YearFields}
                    /\ y \notin range["financialStartYear"] .. range["financialEndYear"]}
    IN  [m EXCEPT !.values = [y \in DOMAIN m.values |->
                                IF y \in out THEN [s \in DOMAIN m.values[y] |-> 0]
                                ELSE m.values[y]],
                  !.contributors = [k \in DOMAIN m.contributors |->
                                IF k[1] \in out THEN 0 ELSE m.contributors[k]]]

-----------------------------------------------------------------------------
Away == [phase |-> "away", view |-> None, at |-> None, form |-> None, read |-> None,
         todo |-> << >>]
Working(u) == user[u].phase \in {"loaded", "writing", "submitting"}
Alone(u) == \A v \in Users \ {u} : ~Working(v)
Room(u) ==
    /\ saves < MaxSaves
    /\ saves < MaxTogether \/ \A v \in Users \ {u} : user[v].phase = "away"
View == [fields |-> proposal, digest |-> Hexdigest(proposal, money)]

Open(u) ==
    /\ user[u].phase = "away" /\ Room(u)
    /\ user' = [user EXCEPT ![u] = [Away EXCEPT !.phase = "viewing", !.view = View]]
    /\ UNCHANGED <<proposal, measures, landUses, money, status, cache, saves, serial>>

\* The request arrives with a page that its schema accepts, and the proposal
\* is read.
Load(u, i, e) ==
    /\ user[u].phase = "viewing" /\ Room(u)
    /\ Offered(e, user[u].view.fields)
    /\ LET form == Form(e, user[u].view)
           read == IF cache[i] # None THEN cache[i] ELSE proposal
       IN  /\ SchemaAccepts([form EXCEPT !.fields = Strip(form.level, form.fields)])
           /\ user' = [user EXCEPT ![u] =
                 [phase |-> "loaded", view |-> None, at |-> i, read |-> read, todo |-> << >>,
                  form |-> [form EXCEPT !.fields = Strip(form.level, form.fields)]]]
           /\ serial' = (serial /\ Alone(u) /\ read = proposal /\ user[u].view = View)
    /\ saves' = saves + 1
    /\ UNCHANGED <<proposal, measures, landUses, money, status, cache>>

Validate(u) ==
    /\ user[u].phase = "loaded"
    /\ LET q == user[u]
       IN  /\ cache' = [cache EXCEPT ![q.at] = IF @ = None THEN q.read ELSE @]
           /\ user' = [user EXCEPT ![u] =
                 IF Accepted(q.form, q.read)
                 THEN [Away EXCEPT !.phase = "writing", !.at = q.at,
                                   !.todo = Statements(q.form, q.read)]
                 ELSE Away]
    /\ UNCHANGED <<proposal, measures, landUses, money, status, saves, serial>>

Advance(u) ==
    user' = IF Len(user[u].todo) = 1 THEN [user EXCEPT ![u] = Away]
            ELSE [user EXCEPT ![u].todo = Tail(@)]
Due(u, op) == user[u].phase = "writing" /\ Head(user[u].todo).op = op

MeasuresStep(u) ==
    /\ Due(u, "measures") /\ measures' = Changed(measures, Head(user[u].todo).rows)
    /\ Advance(u)
    /\ UNCHANGED <<proposal, landUses, money, status, cache, saves, serial>>
LandUsesStep(u) ==
    /\ Due(u, "landUses") /\ landUses' = Changed(landUses, Head(user[u].todo).rows)
    /\ Advance(u)
    /\ UNCHANGED <<proposal, measures, money, status, cache, saves, serial>>
SpendStep(u) ==
    /\ Due(u, "spend")
    /\ money' = [money EXCEPT !.values = Over(@, Head(user[u].todo).rows["years"])]
    /\ Advance(u)
    /\ UNCHANGED <<proposal, measures, landUses, status, cache, saves, serial>>
FlushStep(u) ==
    /\ Due(u, "flush") /\ money' = Flushed(money, Head(user[u].todo).rows)
    /\ Advance(u)
    /\ UNCHANGED <<proposal, measures, landUses, status, cache, saves, serial>>
ClearStep(u) ==
    /\ Due(u, "clear")
    /\ money' = [money EXCEPT !.values = Nothing, !.contributors = Nothing]
    /\ Advance(u)
    /\ UNCHANGED <<proposal, measures, landUses, status, cache, saves, serial>>
ProjectStep(u) ==
    /\ Due(u, "project") /\ proposal' = Over(proposal, Head(user[u].todo).rows)
    /\ Advance(u)
    /\ UNCHANGED <<measures, landUses, money, status, cache, saves, serial>>
InvalidateStep(u) ==
    /\ Due(u, "cache") /\ cache' = [cache EXCEPT ![user[u].at] = None]
    /\ Advance(u)
    /\ UNCHANGED <<proposal, measures, landUses, money, status, saves, serial>>

\* A statement fails, and the rest of the save does not happen.
Fail(u) ==
    /\ \/ user[u].phase = "writing" /\ Head(user[u].todo).op # "cache"
       \/ user[u].phase = "submitting"
    /\ user' = [user EXCEPT ![u] = Away]
    /\ UNCHANGED <<proposal, measures, landUses, money, status, cache, saves, serial>>

Expire(i) ==
    /\ cache[i] # None /\ cache' = [cache EXCEPT ![i] = None]
    /\ UNCHANGED <<proposal, measures, landUses, money, status, user, saves, serial>>

\* The proposal is read past the cache and checked; its status is written
\* later, whatever it is by then.
Check(u) ==
    /\ user[u].phase = "away" /\ Room(u)
    /\ status = "draft" /\ Submittable(proposal, measures, landUses, money)
    /\ user' = [user EXCEPT ![u] = [Away EXCEPT !.phase = "submitting"]]
    /\ saves' = saves + 1 /\ serial' = (serial /\ Alone(u))
    /\ UNCHANGED <<proposal, measures, landUses, money, status, cache>>

TransitionToSubmitted(u) ==
    /\ user[u].phase = "submitting" /\ status' = "submitted"
    /\ user' = [user EXCEPT ![u] = Away]
    /\ UNCHANGED <<proposal, measures, landUses, money, cache, saves, serial>>

Save(u) ==
    \/ Open(u) \/ Validate(u) \/ MeasuresStep(u) \/ LandUsesStep(u) \/ SpendStep(u)
    \/ FlushStep(u) \/ ClearStep(u) \/ ProjectStep(u) \/ InvalidateStep(u) \/ Fail(u)
    \/ \E i \in Instances, e \in Entries : Load(u, i, e)

Next ==
    \/ \E u \in Users : Save(u) \/ Check(u) \/ TransitionToSubmitted(u)
    \/ \E i \in Instances : Expire(i)

Init ==
    /\ \E s \in Starts : /\ proposal = s.fields /\ measures = s.measures
                         /\ landUses = s.landUses /\ money = s.money
    /\ status = "draft"
    /\ cache = [i \in Instances |-> None]
    /\ user = [u \in Users |-> Away]
    /\ saves = 0
    /\ serial = TRUE

Spec == Init /\ [][Next]_vars

-----------------------------------------------------------------------------
(***************************************************************************)
(* Every answer, also one that is kept in a cache, has the type of its     *)
(* column: the empty string that a page sends for a figure is turned into  *)
(* null before it is written.                                              *)
(***************************************************************************)
TypeOK ==
    /\ Answered(proposal)
    /\ \A i \in Instances : cache[i] # None => Answered(cache[i])
    /\ MeasuresTyped(measures) /\ LandUsesTyped(landUses)
    /\ status \in {"draft", "submitted"} /\ saves \in 0 .. MaxSaves /\ serial \in BOOLEAN

(* The answer to a follow-up question never stays without the answer that  *)
(* asks it, however saves of several users interleave, whatever a cache or *)
(* a page still shows, and whichever statement fails: each of these pages  *)
(* sends the first answer together with the second, and a save that takes  *)
(* the first back forgets the second in the same write.  For the save of   *)
(* CLEAR_STALE_DATA that is so by ClearingAssumption, not by the server.   *)
FollowUpsNeedTheirQuestion == FollowedUp(proposal)

(* An answer that is not asked for any more does not stay behind: changing *)
(* the type, the interventions, the risks or a selection clears what hung  *)
(* on it, in four tables, and does so before the change can be seen.  It   *)
(* holds while no save overlaps another or starts from a stale view or     *)
(* cache, also when a statement of a save failed.                          *)
NothingLeftOver == serial => Tidy(proposal) /\ RowsTidy(proposal, measures, landUses)

(* What a proposal must answer, and what it may.                           *)
Needed(p) ==
    {"projectType", "financialStartYear", "approach", "urgencyReason"} \cup Range(DatesOf(p))
    \cup DeprivedShares
    \cup {f \in {"earliestWithGia"} : p["couldStartEarly"] = TRUE}
    \cup {f \in {"urgencyDetails"} : p["urgencyReason"] # "not_urgent"}
    \cup {Quantity[g] : g \in {g \in Gates : p[g] = TRUE}}
    \cup (IF p["projectType"] \in MandatoryTypes
          THEN ConfidenceFields \cup {"mainInterventionType"} ELSE {})
    \cup (IF NfmRequired(p) THEN DOMAIN NfmChoices ELSE {})
NotAsked(p) ==
    {"earliestWithGia", "urgencyDetails"} \cup Quantities \cup DOMAIN NfmChoices
    \cup (Stages \ Range(DatesOf(p)))
    \cup (IF p["projectType"] \in MandatoryTypes THEN {} ELSE {"mainInterventionType"})
    \cup (IF p["projectType"] \in RestrictedTypes THEN ConfidenceFields ELSE {})
    \cup (IF p["projectType"] \in SimplifiedTypes
          THEN CostFields \cup BenefitFields
               \cup (CarbonFields \ {"carbonCostBuild", "carbonCostOperation"})
          ELSE {})

(* What is sent of a proposal when it becomes submitted has an answer to   *)
(* every question it was asked, the figures of every selected measure and  *)
(* land use among them, and none to a question that was not asked.  Under  *)
(* the conditions of NothingLeftOver.                                      *)
SentAsAsked(p, m, l, mo) ==
    LET sent == Payload(p, m, l, mo)
    IN  /\ \A f \in Needed(p) : sent.answers[f] # None
        /\ \A f \in NotAsked(p) \ Needed(p) : sent.answers[f] = None
        /\ \A f \in CurrentRisks :
               sent.answers[f] = "not_applicable" <=> Listed(p, "risks") \cap RisksOf[f] = {}
        /\ \A k \in Measures :
               IF NfmRequired(p) /\ k \in p["nfmSelectedMeasures"]
               THEN \A c \in MeasureColumns[k].required : sent.measures[k][c] # None
               ELSE \A c \in ColumnsOf(k) : sent.measures[k][c] = None
        /\ \A k \in LandUses : \A c \in LandUseColumns :
               NfmRequired(p) /\ k \in p["nfmLandUseChange"] <=> sent.landUses[k][c] # None
        /\ ~ValuesChanged(p, mo)
SubmittedAnswers ==
    [][status = "draft" /\ status' = "submitted" /\ serial' =>
           SentAsAsked(proposal, measures, landUses, money)]_vars

\* A date of q that p does not have is one that submission will not object to.
DatesFit(p, q) ==
    LET dates == DatesOf(q)
    IN  /\ \A i \in 1 .. Len(dates) :
               q[dates[i]] \notin {p[dates[i]], None} =>
                   /\ AllGiven(q, YearFields) =>
                          q[dates[i]] \in FirstMonth(q["financialStartYear"])
                                           .. LastMonth(q["financialEndYear"])
                   /\ i > 1 /\ q[dates[i - 1]] # None => q[dates[i - 1]] < q[dates[i]]
        /\ q["earliestWithGia"] \notin {p["earliestWithGia"], None} => GiaInRange(q)

(* A date that a page has just saved is one that submission will not       *)
(* object to: it lies in the financial years of the proposal and after the *)
(* stage before it; the same for the earliest start with grant in aid.     *)
(* Under the conditions of NothingLeftOver, and as CLEAR_STALE_DATA, whose *)
(* dates no check compares, only clears them (ClearingAssumption).         *)
SavedDatesAreSubmittable == [][serial' => DatesFit(proposal, proposal')]_vars
=============================================================================
