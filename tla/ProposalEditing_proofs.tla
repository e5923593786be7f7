----------------------- MODULE ProposalEditing_proofs -----------------------
(***************************************************************************)
(* The proofs about ProposalEditing.                                       *)
(*                                                                         *)
(* EditingInv says of what is stored, of every cache and of every request  *)
(* that its answers have their types, and of what a save has still to      *)
(* write that it keeps the follow-up questions paired; it holds whatever   *)
(* overlaps.  SerialInv is about requests that are alone: a save that has  *)
(* read the proposal read what its user saw, a save that is writing will   *)
(* leave the proposal tidy, row by row, whenever it stops, and a           *)
(* submission that was checked still passes its checks.                    *)
(***************************************************************************)
EXTENDS ProposalEditing, SequenceTheorems, TLAPS

-----------------------------------------------------------------------------
(***************************************************************************)
(* The pages and their fields.                                             *)
(***************************************************************************)
LEMMA OverAt ==
    ASSUME NEW d, NEW e, NEW f \in DOMAIN Over(d, e)
    PROVE  \/ f \in DOMAIN e /\ Over(d, e)[f] = e[f]
           \/ f \in DOMAIN d /\ Over(d, e)[f] = d[f]
BY DEF Over

LEMMA GroupOfPage ==
    ASSUME NEW level \in DOMAIN Pages
    PROVE  \/ level \in DOMAIN InitialPages /\ Pages[level] = InitialPages[level]
           \/ level \in DOMAIN TimelinePages /\ Pages[level] = TimelinePages[level]
           \/ level \in DOMAIN RiskPages /\ Pages[level] = RiskPages[level]
           \/ level \in DOMAIN GoalPages /\ Pages[level] = GoalPages[level]
           \/ level \in DOMAIN ConfidencePages /\ Pages[level] = ConfidencePages[level]
           \/ level \in DOMAIN BenefitPages /\ Pages[level] = BenefitPages[level]
           \/ level \in DOMAIN NfmPages /\ Pages[level] = NfmPages[level]
           \/ level \in DOMAIN CostPages /\ Pages[level] = CostPages[level]
           \/ level \in DOMAIN BenefitsPages /\ Pages[level] = BenefitsPages[level]
           \/ level \in DOMAIN CarbonPages /\ Pages[level] = CarbonPages[level]
           \/ level \in DOMAIN StalePages /\ Pages[level] = StalePages[level]
           \/ level \in DOMAIN SpendPage /\ Pages[level] = SpendPage[level]
<1> DEFINE A == Over(InitialPages, TimelinePages)
           B == Over(A, RiskPages)
           C == Over(B, GoalPages)
           D == Over(C, ConfidencePages)
           E == Over(D, BenefitPages)
           F == Over(E, NfmPages)
           G == Over(F, CostPages)
           H == Over(G, BenefitsPages)
           I == Over(H, CarbonPages)
           J == Over(I, StalePages)
<1>1. Pages = Over(J, SpendPage)
  BY DEF Pages
<1> HIDE DEF J
<1>2. \/ level \in DOMAIN SpendPage /\ Pages[level] = SpendPage[level]
      \/ level \in DOMAIN J /\ Pages[level] = J[level]
  BY <1>1, OverAt
<1> HIDE DEF I
<1>3. ASSUME level \in DOMAIN J
      PROVE  \/ level \in DOMAIN StalePages /\ J[level] = StalePages[level]
             \/ level \in DOMAIN I /\ J[level] = I[level]
  BY <1>3, OverAt DEF J
<1>4. ASSUME level \in DOMAIN I, Pages[level] = I[level]
      PROVE  \/ level \in DOMAIN InitialPages /\ Pages[level] = InitialPages[level]
             \/ level \in DOMAIN TimelinePages /\ Pages[level] = TimelinePages[level]
             \/ level \in DOMAIN RiskPages /\ Pages[level] = RiskPages[level]
             \/ level \in DOMAIN GoalPages /\ Pages[level] = GoalPages[level]
             \/ level \in DOMAIN ConfidencePages /\ Pages[level] = ConfidencePages[level]
             \/ level \in DOMAIN BenefitPages /\ Pages[level] = BenefitPages[level]
             \/ level \in DOMAIN NfmPages /\ Pages[level] = NfmPages[level]
             \/ level \in DOMAIN CostPages /\ Pages[level] = CostPages[level]
             \/ level \in DOMAIN BenefitsPages /\ Pages[level] = BenefitsPages[level]
             \/ level \in DOMAIN CarbonPages /\ Pages[level] = CarbonPages[level]
  BY <1>4, OverAt DEF I
<1> QED
  BY <1>2, <1>3, <1>4

LEMMA QuantityNames ==
    Quantities = {"hectaresOfIntertidalHabitatCreatedOrEnhanced",
                  "hectaresOfWoodlandHabitatCreatedOrEnhanced",
                  "hectaresOfWetWoodlandHabitatCreatedOrEnhanced",
                  "hectaresOfWetlandOrWetGrasslandCreatedOrEnhanced",
                  "hectaresOfGrasslandHabitatCreatedOrEnhanced",
                  "hectaresOfHeathlandCreatedOrEnhanced",
                  "hectaresOfPondOrLakeHabitatCreatedOrEnhanced",
                  "hectaresOfArableLandLakeHabitatCreatedOrEnhanced",
                  "kilometresOfWatercourseEnhancedOrCreatedComprehensive",
                  "kilometresOfWatercourseEnhancedOrCreatedPartial",
                  "kilometresOfWatercourseEnhancedOrCreatedSingle"}
BY DEF Quantities, Gates, Quantity

\* The pages that ask for a field, or send it along.
AsksFor(level, f) ==
    /\ f \in Fields
    /\ f = "projectType" => level \in {"PROJECT_TYPE", "READY_FOR_SERVICE", "WHOLE_LIFE_BENEFITS"}
    /\ f \in {"projectInterventionTypes", "mainInterventionType"} => level = "PROJECT_TYPE"
    /\ f \in YearFields =>
           level \in {"FINANCIAL_START_YEAR", "FINANCIAL_END_YEAR", "EARLIEST_WITH_GIA",
                      "CLEAR_STALE_DATA"} \cup DOMAIN StageOf
    /\ f = "financialEndYear" => level # "EARLIEST_WITH_GIA"
    /\ f \in Stages => level \in {"EARLIEST_WITH_GIA", "CLEAR_STALE_DATA"} \cup DOMAIN StageOf
    /\ f = "couldStartEarly" =>
           level \in {"COULD_START_EARLY", "EARLIEST_WITH_GIA", "CLEAR_STALE_DATA"}
    /\ f = "earliestWithGia" => level \in {"EARLIEST_WITH_GIA", "CLEAR_STALE_DATA"}
    /\ f = "risks" => level = "RISK"
    /\ f \in CurrentRisks =>
           level \in {"CURRENT_FLOOD_FLUVIAL_RISK", "CURRENT_FLOOD_SURFACE_WATER_RISK",
                     "CURRENT_COASTAL_EROSION_RISK"}
    /\ f = "urgencyReason" => level \in {"URGENCY_REASON", "URGENCY_DETAILS"}
    /\ f = "urgencyDetails" => level = "URGENCY_DETAILS"
    /\ f \in ConfidenceFields => level \in DOMAIN ConfidencePages
    /\ f = "environmentalBenefits" => level = "ENVIRONMENTAL_BENEFITS"
    /\ f \in Gates => level \in {"GATE", "QUANTITY"}
    /\ f \in Quantities => level = "QUANTITY"
    /\ f = "naturalFloodRiskMeasuresIncluded" => level = "NFM_INCLUSION"
    /\ f = "nfmSelectedMeasures" => level = "NFM_SELECTED_MEASURES"
    /\ f = "nfmLandUseChange" => level \in {"NFM_SELECTED_MEASURES", "NFM_LAND_USE_CHANGE"}
    /\ f \in DOMAIN NfmChoices =>
           level \in {"NFM_LANDOWNER_CONSENT", "NFM_EXPERIENCE_LEVEL", "NFM_PROJECT_READINESS"}
    /\ f \in CostFields => level = "WHOLE_LIFE_COST"
    /\ f \in BenefitFields => level = "WHOLE_LIFE_BENEFITS"
    /\ f \in CarbonFields \cup {"carbonValuesHexdigest"} => level \in DOMAIN CarbonPages

LEMMA PagesAsk ==
    ASSUME NEW level \in DOMAIN Pages, NEW f \in Pages[level].needs \cup Pages[level].may
    PROVE  AsksFor(level, f)
<1> USE QuantityNames DEF AsksFor, Page, Fields, TypeFields, YearFields, Stages, FloodCounts,
       CoastCounts, DeprivedShares, CurrentRisks, RiskLevels, ConfidenceFields, Gates, Quantity,
       NfmFields, NfmChoices, CostFields, BenefitFields, CarbonFields, StageOf
<1>1. CASE level \in DOMAIN InitialPages /\ Pages[level] = InitialPages[level]
  BY <1>1 DEF InitialPages
<1>2. CASE level \in DOMAIN TimelinePages /\ Pages[level] = TimelinePages[level]
  BY <1>2 DEF TimelinePages
<1>3. CASE level \in DOMAIN RiskPages /\ Pages[level] = RiskPages[level]
  BY <1>3 DEF RiskPages
<1>4. CASE level \in DOMAIN GoalPages /\ Pages[level] = GoalPages[level]
  BY <1>4 DEF GoalPages
<1>5. CASE level \in DOMAIN ConfidencePages /\ Pages[level] = ConfidencePages[level]
  BY <1>5 DEF ConfidencePages
<1>6. CASE level \in DOMAIN BenefitPages /\ Pages[level] = BenefitPages[level]
  BY <1>6 DEF BenefitPages
<1>7. CASE level \in DOMAIN NfmPages /\ Pages[level] = NfmPages[level]
  BY <1>7 DEF NfmPages
<1>8. CASE level \in DOMAIN CostPages /\ Pages[level] = CostPages[level]
  BY <1>8 DEF CostPages
<1>9. CASE level \in DOMAIN BenefitsPages /\ Pages[level] = BenefitsPages[level]
  BY <1>9 DEF BenefitsPages
<1>10. CASE level \in DOMAIN CarbonPages /\ Pages[level] = CarbonPages[level]
  BY <1>10 DEF CarbonPages
<1>11. CASE level \in DOMAIN SpendPage /\ Pages[level] = SpendPage[level]
  BY <1>11 DEF SpendPage
<1>12. CASE level \in DOMAIN StalePages /\ Pages[level] = StalePages[level]
  BY <1>12 DEF StalePages
<1> HIDE DEF AsksFor, Fields
<1> QED
  BY GroupOfPage, <1>1, <1>2, <1>3, <1>4, <1>5, <1>6, <1>7, <1>8, <1>9, <1>10, <1>11, <1>12

LEMMA SchemaAsks ==
    ASSUME NEW form, SchemaAccepts(form), NEW f \in DOMAIN form.fields
    PROVE  AsksFor(form.level, f)
<1>1. /\ form.level \in DOMAIN Pages
      /\ f \in Pages[form.level].needs \cup Pages[form.level].may
  BY DEF SchemaAccepts
<1> QED
  BY <1>1, PagesAsk

\* The answers that a page cannot do without.
Needs(level) ==
    CASE level = "PROJECT_TYPE" -> {"projectType"}
      [] level = "RISK" -> {"risks"}
      [] level = "ENVIRONMENTAL_BENEFITS" -> {"environmentalBenefits"}
      [] level = "NFM_INCLUSION" -> {"naturalFloodRiskMeasuresIncluded"}
      [] level = "NFM_SELECTED_MEASURES" -> {"nfmSelectedMeasures"}
      [] level = "NFM_LAND_USE_CHANGE" -> {"nfmLandUseChange"}
      [] level = "EARLIEST_WITH_GIA" -> {"couldStartEarly", "startOutlineBusinessCase"}
      [] level = "URGENCY_DETAILS" -> {"urgencyReason"}
      [] level \in DOMAIN StageOf -> {StageOf[level]}
      [] OTHER -> {}

LEMMA FormNeeds ==
    ASSUME NEW form, SchemaAccepts(form)
    PROVE  Needs(form.level) \subseteq DOMAIN form.fields
<1> DEFINE level == form.level
<1>1. level \in DOMAIN Pages /\ Pages[level].needs \subseteq DOMAIN form.fields
  BY DEF SchemaAccepts
<1>2. CASE level \in DOMAIN InitialPages /\ Pages[level] = InitialPages[level]
  BY <1>1, <1>2 DEF Needs, StageOf, Page, InitialPages
<1>3. CASE level \in DOMAIN TimelinePages /\ Pages[level] = TimelinePages[level]
  BY <1>1, <1>3 DEF Needs, StageOf, Page, TimelinePages
<1>4. CASE level \in DOMAIN RiskPages /\ Pages[level] = RiskPages[level]
  BY <1>1, <1>4 DEF Needs, StageOf, Page, RiskPages
<1>5. CASE level \in DOMAIN GoalPages /\ Pages[level] = GoalPages[level]
  BY <1>1, <1>5 DEF Needs, StageOf, Page, GoalPages
<1>6. CASE level \in DOMAIN ConfidencePages /\ Pages[level] = ConfidencePages[level]
  BY <1>1, <1>6 DEF Needs, StageOf, Page, ConfidencePages
<1>7. CASE level \in DOMAIN BenefitPages /\ Pages[level] = BenefitPages[level]
  BY <1>1, <1>7 DEF Needs, StageOf, Page, BenefitPages
<1>8. CASE level \in DOMAIN NfmPages /\ Pages[level] = NfmPages[level]
  BY <1>1, <1>8 DEF Needs, StageOf, Page, NfmPages
<1>9. CASE level \in DOMAIN CostPages /\ Pages[level] = CostPages[level]
  BY <1>1, <1>9 DEF Needs, StageOf, Page, CostPages
<1>10. CASE level \in DOMAIN BenefitsPages /\ Pages[level] = BenefitsPages[level]
  BY <1>1, <1>10 DEF Needs, StageOf, Page, BenefitsPages
<1>11. CASE level \in DOMAIN CarbonPages /\ Pages[level] = CarbonPages[level]
  BY <1>1, <1>11 DEF Needs, StageOf, Page, CarbonPages
<1>12. CASE level \in DOMAIN SpendPage /\ Pages[level] = SpendPage[level]
  BY <1>1, <1>12 DEF Needs, StageOf, Page, SpendPage
<1>13. CASE level \in DOMAIN StalePages /\ Pages[level] = StalePages[level]
  BY <1>1, <1>13 DEF Needs, StageOf, Page, StalePages
<1> HIDE DEF Needs
<1> QED
  BY <1>1, <1>2, <1>3, <1>4, <1>5, <1>6, <1>7, <1>8, <1>9, <1>10, <1>11, <1>12, <1>13,
     GroupOfPage

-----------------------------------------------------------------------------
(***************************************************************************)
(* The form of an entry.                                                   *)
(***************************************************************************)

LEMMA KindsOfFields ==
    /\ Flags \cup DOMAIN ChoicesOf \cup DOMAIN Lists \cup Texts \subseteq Fields
    /\ \A f \in Texts :
           f \notin Flags /\ f \notin DOMAIN ChoicesOf /\ f \notin DOMAIN Lists /\ f \notin Figures
BY QuantityNames DEF Flags, ChoicesOf, Lists, Texts, Over, Figures, Fields, TypeFields, YearFields,
   Stages, FloodCounts, CoastCounts, DeprivedShares, CurrentRisks, RiskLevels, ConfidenceFields,
   Gates, Quantity, NfmFields, NfmChoices

LEMMA ContextIsFields ==
    ASSUME NEW e
    PROVE  ContextFields(e) \subseteq Fields
BY DEF ContextFields, Fields, TypeFields, YearFields, Stages, NfmFields

FormOK(form) ==
    /\ SchemaAccepts(form)
    /\ \A f \in DOMAIN form.fields : f \in Fields /\ Enterable(f, form.fields[f])
    /\ form.level = "QUANTITY" => \A g \in Gates \cap DOMAIN form.fields : form.fields[g] = TRUE
    /\ form.level = "NFM_MEASURE" =>
           \A m \in DOMAIN form.rows : \A c \in DOMAIN form.rows[m] : form.rows[m][c] \in Nat \cup {None}
    /\ form.level = "NFM_LAND_USE" =>
           \A l \in DOMAIN form.rows : \A c \in DOMAIN form.rows[l] : form.rows[l][c] \in Nat \cup {None}
    /\ form.level = "CLEAR_STALE_DATA" => ClearsDates(form)

\* Where the answers of a form come from.
LEMMA FormAnswers ==
    ASSUME NEW e, NEW view, NEW f \in DOMAIN Form(e, view).fields
    PROVE  \/ f \in DOMAIN e.fields /\ Form(e, view).fields[f] = e.fields[f]
           \/ f = "carbonValuesHexdigest" /\ e.level = "CARBON_VALUES_HEXDIGEST"
           \/ /\ f \in ContextFields(e) /\ view.fields[f] # None
              /\ Form(e, view).fields[f] = view.fields[f]
BY DEF Form, Over, Nothing, Forgotten

LEMMA FormTyped ==
    ASSUME NEW e \in Entries, NEW view, Answered(view.fields), NEW f \in DOMAIN Form(e, view).fields
    PROVE  f \in Fields /\ Enterable(f, Form(e, view).fields[f])
<1>1. CASE f \in DOMAIN e.fields /\ Form(e, view).fields[f] = e.fields[f]
  BY <1>1, EntriesAssumption
<1>2. CASE f = "carbonValuesHexdigest"
  BY <1>2, KindsOfFields DEF Enterable, Typed, Texts
<1>3. CASE f \in ContextFields(e) /\ view.fields[f] # None /\ Form(e, view).fields[f] = view.fields[f]
  BY <1>3, ContextIsFields DEF Answered, Enterable
<1> QED
  BY <1>1, <1>2, <1>3, FormAnswers

LEMMA QuantityForm ==
    ASSUME NEW e \in Entries, NEW view, Offered(e, view.fields), e.level = "QUANTITY"
    PROVE  \A g \in Gates \cap DOMAIN Form(e, view).fields : Form(e, view).fields[g] = TRUE
<1> SUFFICES ASSUME NEW g \in Gates, g \in DOMAIN Form(e, view).fields
             PROVE  Form(e, view).fields[g] = TRUE
  OBVIOUS
<1>1. g \notin DOMAIN e.fields
  BY EntriesAssumption, QuantityNames DEF Gates, Quantity
<1>2. /\ g \in ContextFields(e) /\ view.fields[g] # None
      /\ Form(e, view).fields[g] = view.fields[g]
  BY <1>1, FormAnswers
<1>3. Quantity[g] \in DOMAIN e.fields
  BY <1>2 DEF ContextFields
<1> QED
  BY <1>2, <1>3 DEF Offered

\* A gate is closed on its own page only: nothing is taken out of a form.
LEMMA NothingStripped ==
    ASSUME NEW e \in Entries, NEW view, Offered(e, view.fields)
    PROVE  Strip(Form(e, view).level, Form(e, view).fields) = Form(e, view).fields
<1>1. Form(e, view).level = e.level
  BY DEF Form
<1> QED
  BY <1>1, QuantityForm DEF Strip

LEMMA LoadedForm ==
    ASSUME NEW e \in Entries, NEW view, Answered(view.fields), Offered(e, view.fields),
           NEW form, form = Form(e, view),
           SchemaAccepts([form EXCEPT !.fields = Strip(form.level, form.fields)])
    PROVE  /\ [form EXCEPT !.fields = Strip(form.level, form.fields)] = form
           /\ FormOK(form)
<1>1. [form EXCEPT !.fields = Strip(form.level, form.fields)] = form
  <2>1. [form EXCEPT !.fields = form.fields] = form
    BY DEF Form
  <2> QED BY <2>1, NothingStripped
<1>2. /\ form.level = e.level
      /\ e.level \notin {"NFM_SELECTED_MEASURES", "NFM_LAND_USE_CHANGE"} => form.rows = Over(e.rows, Nothing)
  BY DEF Form, Unselected, Nothing
<1>3. ASSUME NEW f \in DOMAIN form.fields
      PROVE  f \in Fields /\ Enterable(f, form.fields[f])
  BY FormTyped
<1>4. e.level = "QUANTITY" => \A g \in Gates \cap DOMAIN form.fields : form.fields[g] = TRUE
  BY QuantityForm
<1>5. ASSUME e.level \in {"NFM_MEASURE", "NFM_LAND_USE"},
             NEW m \in DOMAIN form.rows, NEW c \in DOMAIN form.rows[m]
      PROVE  form.rows[m][c] \in Nat \cup {None}
  <2>1. m \in DOMAIN e.rows /\ form.rows[m] = e.rows[m]
    BY <1>2, <1>5 DEF Over, Nothing, Forgotten
  <2> QED BY <1>5, <2>1, EntriesAssumption
<1>6. ASSUME e.level = "CLEAR_STALE_DATA"
      PROVE  ClearsDates(form)
  <2>1. ContextFields(e) = {}
    BY <1>6 DEF ContextFields
  <2>2. \A f \in DOMAIN form.fields : f \in DOMAIN e.fields /\ form.fields[f] = e.fields[f]
    BY <1>6, <2>1, FormAnswers
  <2>3. DOMAIN e.fields \subseteq DOMAIN form.fields
    BY DEF Form, Over
  <2> QED BY <1>6, <2>2, <2>3, ClearingAssumption DEF ClearsDates
<1> QED
  BY <1>1, <1>2, <1>3, <1>4, <1>5, <1>6 DEF FormOK

-----------------------------------------------------------------------------
(***************************************************************************)
(* What a page writes.                                                     *)
(***************************************************************************)

\* The follow-up questions and those that ask them are written together.
Paired(rows) ==
    /\ "earliestWithGia" \in DOMAIN rows /\ rows["earliestWithGia"] # None =>
           "couldStartEarly" \in DOMAIN rows /\ rows["couldStartEarly"] = TRUE
    /\ "couldStartEarly" \in DOMAIN rows /\ rows["couldStartEarly"] # TRUE =>
           "earliestWithGia" \in DOMAIN rows /\ rows["earliestWithGia"] = None
    /\ "urgencyDetails" \in DOMAIN rows /\ rows["urgencyDetails"] # None =>
           "urgencyReason" \in DOMAIN rows /\ rows["urgencyReason"] # "not_urgent"
    /\ "urgencyReason" \in DOMAIN rows /\ rows["urgencyReason"] = "not_urgent" =>
           "urgencyDetails" \in DOMAIN rows /\ rows["urgencyDetails"] = None
    /\ \A g \in Gates :
           /\ Quantity[g] \in DOMAIN rows /\ rows[Quantity[g]] # None =>
                  g \in DOMAIN rows /\ rows[g] # FALSE
           /\ g \in DOMAIN rows /\ rows[g] = FALSE =>
                  Quantity[g] \in DOMAIN rows /\ rows[Quantity[g]] = None

LEMMA PairedKeeps ==
    ASSUME NEW p, Answered(p), FollowedUp(p), NEW rows, Paired(rows)
    PROVE  FollowedUp(Over(p, rows))
<1> DEFINE q == Over(p, rows)
<1>1. \A f \in Fields : q[f] = IF f \in DOMAIN rows THEN rows[f] ELSE p[f]
  BY DEF Over, Answered
<1> HIDE DEF q
<1>2. /\ {"earliestWithGia", "couldStartEarly", "urgencyReason", "urgencyDetails"} \subseteq Fields
      /\ \A g \in Gates : g \in Fields /\ Quantity[g] \in Fields
  BY DEF Fields, Quantities
<1>3. q["couldStartEarly"] # TRUE => q["earliestWithGia"] = None
  BY <1>1, <1>2 DEF FollowedUp, Paired
<1>4. q["urgencyReason"] = "not_urgent" => q["urgencyDetails"] = None
  BY <1>1, <1>2 DEF FollowedUp, Paired
<1>5. \A g \in Gates : q[g] = FALSE => q[Quantity[g]] = None
  BY <1>1, <1>2 DEF FollowedUp, Paired
<1> QED
  BY <1>3, <1>4, <1>5 DEF FollowedUp, q

LEMMA NormalizedAnswers ==
    ASSUME NEW level, NEW d, NEW p, NEW f
    PROVE  /\ f \in DOMAIN Normalized(level, d, p) <=> f \in DOMAIN d \/ f \in Cleared(level, d, p)
           /\ f \in Cleared(level, d, p) => Normalized(level, d, p)[f] = None
           /\ f \in DOMAIN d /\ f \notin Cleared(level, d, p) => Normalized(level, d, p)[f] = d[f]
BY DEF Normalized, Over, Forgotten

LEMMA ClearedIs ==
    ASSUME NEW level, NEW d, NEW p, NEW f
    PROVE  f \in Cleared(level, d, p) <=>
               \/ f \in UnsentInterventions(level, d) \/ f \in GiaWithoutQuestion(level, d)
               \/ f \in DetailsWithoutUrgency(level, d) \/ f \in ClosedBenefits(level, d)
               \/ f \in RiskLevelsWithoutRisk(level, d) \/ f \in ConfidenceOfOtherTypes(level, d)
               \/ f \in WholeLifeOfOtherTypes(level, d) \/ f \in CarbonOfOtherTypes(level, d)
               \/ f \in BlankFigures(level, d) \/ f \in NfmAnswers(level, d, p)
BY DEF Cleared

LEMMA ClearedAreFields ==
    ASSUME NEW form, FormOK(form), NEW p
    PROVE  Cleared(form.level, form.fields, p) \subseteq Fields
<1> DEFINE level == form.level
           d == form.fields
<1>1. level = "GATE" => DOMAIN d \subseteq Gates
  <2>1. level = "GATE" => BenefitsSchema(level, d)
    BY DEF FormOK, SchemaAccepts, BenefitPages
  <2> QED BY <2>1 DEF BenefitsSchema
<1>2. ClosedBenefits(level, d) \subseteq Gates \cup Quantities
  BY <1>1 DEF ClosedBenefits, Quantities
<1>3. /\ UnsentInterventions(level, d) \subseteq Fields /\ GiaWithoutQuestion(level, d) \subseteq Fields
      /\ DetailsWithoutUrgency(level, d) \subseteq Fields
      /\ RiskLevelsWithoutRisk(level, d) \subseteq Fields
  BY DEF UnsentInterventions, GiaWithoutQuestion, DetailsWithoutUrgency, RiskLevelsWithoutRisk, Fields
<1>4. /\ ConfidenceOfOtherTypes(level, d) \subseteq Fields
      /\ WholeLifeOfOtherTypes(level, d) \subseteq Fields
      /\ CarbonOfOtherTypes(level, d) \subseteq Fields /\ BlankFigures(level, d) \subseteq Fields
  BY DEF ConfidenceOfOtherTypes, WholeLifeOfOtherTypes, CarbonOfOtherTypes, BlankFigures,
         TextFigures, Fields
<1>5. NfmAnswers(level, d, p) \subseteq Fields
  <2>1. NfmFields \subseteq Fields /\ "naturalFloodRiskMeasuresIncluded" \in NfmFields
    BY DEF Fields, NfmFields
  <2> QED BY <2>1 DEF NfmAnswers
<1>6. Gates \cup Quantities \subseteq Fields
  BY DEF Fields
<1> QED
  BY <1>2, <1>3, <1>4, <1>5, <1>6, ClearedIs

WriteOK(rows) ==
    /\ \A f \in DOMAIN rows : f \in Fields /\ (rows[f] = None \/ Typed(f, rows[f]))
    /\ Paired(rows)

LEMMA WrittenTyped ==
    ASSUME NEW form, FormOK(form), NEW p, NEW f \in DOMAIN Normalized(form.level, form.fields, p)
    PROVE  /\ f \in Fields
           /\ \/ Normalized(form.level, form.fields, p)[f] = None
              \/ Typed(f, Normalized(form.level, form.fields, p)[f])
<1> DEFINE level == form.level
           d == form.fields
<1>1. CASE f \in Cleared(level, d, p)
  BY <1>1, NormalizedAnswers, ClearedAreFields
<1>2. CASE f \notin Cleared(level, d, p)
  <2>1. f \in DOMAIN d /\ Normalized(level, d, p)[f] = d[f]
    BY <1>2, NormalizedAnswers
  <2>2. f \in Fields /\ Enterable(f, d[f]) /\ AsksFor(level, f)
    BY <2>1, SchemaAsks DEF FormOK
  <2>3. ASSUME f \in TextFigures, d[f] = Blank
        PROVE  FALSE
    <3>1. level \in {"WHOLE_LIFE_COST", "WHOLE_LIFE_BENEFITS"} \cup DOMAIN CarbonPages
      BY <2>2, <2>3 DEF AsksFor, TextFigures
    <3>2. f \in BlankFigures(level, d)
      BY <2>1, <2>3, <3>1 DEF BlankFigures
    <3> QED BY <1>2, <3>2, ClearedIs
  <2> QED BY <2>1, <2>2, <2>3 DEF Enterable
<1> QED
  BY <1>1, <1>2

\* The questions that others follow from are not cleared, but for the gates.
LEMMA QuestionsStay ==
    ASSUME NEW form, FormOK(form), NEW p
    PROVE  /\ {"couldStartEarly", "urgencyReason"} \cap Cleared(form.level, form.fields, p) = {}
           /\ form.level # "ENVIRONMENTAL_BENEFITS" =>
                  Gates \cap Cleared(form.level, form.fields, p) = {}
<1> DEFINE level == form.level
           d == form.fields
           asked == {"couldStartEarly", "urgencyReason"} \cup Gates
<1>1. /\ asked \cap UnsentInterventions(level, d) = {} /\ asked \cap GiaWithoutQuestion(level, d) = {}
      /\ asked \cap DetailsWithoutUrgency(level, d) = {}
      /\ asked \cap RiskLevelsWithoutRisk(level, d) = {}
  BY DEF UnsentInterventions, GiaWithoutQuestion, DetailsWithoutUrgency, RiskLevelsWithoutRisk,
         TypeFields, CurrentRisks, RiskLevels, Gates, Quantity
<1>2. /\ asked \cap ConfidenceOfOtherTypes(level, d) = {}
      /\ asked \cap WholeLifeOfOtherTypes(level, d) = {}
      /\ asked \cap CarbonOfOtherTypes(level, d) = {} /\ asked \cap BlankFigures(level, d) = {}
  BY DEF ConfidenceOfOtherTypes, WholeLifeOfOtherTypes, CarbonOfOtherTypes, BlankFigures, TextFigures,
         ConfidenceFields, CostFields, BenefitFields, CarbonFields, Gates, Quantity
<1>3. asked \cap NfmAnswers(level, d, p) = {}
  <2>1. asked \cap NfmFields = {} /\ "naturalFloodRiskMeasuresIncluded" \in NfmFields
    BY DEF NfmFields, NfmChoices, Gates, Quantity
  <2> QED BY <2>1 DEF NfmAnswers
<1>4. level = "GATE" => DOMAIN d \subseteq Gates
  <2>1. level = "GATE" => BenefitsSchema(level, d)
    BY DEF FormOK, SchemaAccepts, BenefitPages
  <2> QED BY <2>1 DEF BenefitsSchema
<1>5. /\ Gates \cap Quantities = {}
      /\ {"couldStartEarly", "urgencyReason"} \cap (Gates \cup Quantities) = {}
  BY QuantityNames DEF Gates, Quantity
<1>6. /\ {"couldStartEarly", "urgencyReason"} \cap ClosedBenefits(level, d) = {}
      /\ level # "ENVIRONMENTAL_BENEFITS" => Gates \cap ClosedBenefits(level, d) = {}
  BY <1>4, <1>5 DEF ClosedBenefits, Quantities
<1> QED
  BY <1>1, <1>2, <1>3, <1>6, ClearedIs

LEMMA GiaPaired ==
    ASSUME NEW form, FormOK(form), NEW p, NEW rows, rows = Normalized(form.level, form.fields, p)
    PROVE  /\ "earliestWithGia" \in DOMAIN rows /\ rows["earliestWithGia"] # None =>
                  "couldStartEarly" \in DOMAIN rows /\ rows["couldStartEarly"] = TRUE
           /\ "couldStartEarly" \in DOMAIN rows /\ rows["couldStartEarly"] # TRUE =>
                  "earliestWithGia" \in DOMAIN rows /\ rows["earliestWithGia"] = None
<1> DEFINE level == form.level
           d == form.fields
<1>1. ASSUME "earliestWithGia" \in DOMAIN rows, rows["earliestWithGia"] # None
      PROVE  "couldStartEarly" \in DOMAIN rows /\ rows["couldStartEarly"] = TRUE
  <2>1. "earliestWithGia" \in DOMAIN d
    BY <1>1, NormalizedAnswers
  <2>2. level = "EARLIEST_WITH_GIA"
    <3>1. level \in {"EARLIEST_WITH_GIA", "CLEAR_STALE_DATA"}
      BY <2>1, SchemaAsks DEF AsksFor, FormOK
    <3>2. d["earliestWithGia"] # None
      BY <1>1, NormalizedAnswers
    <3> QED BY <2>1, <3>1, <3>2 DEF FormOK, ClearsDates
  <2>3. "couldStartEarly" \in DOMAIN d /\ d["couldStartEarly"] = TRUE
    <3>1. "couldStartEarly" \in DOMAIN d
      BY <2>2, FormNeeds DEF FormOK, Needs, StageOf
    <3> QED BY <2>1, <2>2, <3>1 DEF FormOK, SchemaAccepts, GiaSchema
  <2> QED BY <2>3, QuestionsStay, NormalizedAnswers
<1>2. ASSUME "couldStartEarly" \in DOMAIN rows, rows["couldStartEarly"] # TRUE
      PROVE  "earliestWithGia" \in DOMAIN rows /\ rows["earliestWithGia"] = None
  <2>1. "couldStartEarly" \in DOMAIN d /\ d["couldStartEarly"] = rows["couldStartEarly"]
    BY <1>2, NormalizedAnswers, QuestionsStay
  <2>2. level \in {"COULD_START_EARLY", "EARLIEST_WITH_GIA", "CLEAR_STALE_DATA"}
    BY <2>1, SchemaAsks DEF AsksFor, FormOK
  <2>3. CASE level = "CLEAR_STALE_DATA"
    <3>1. "earliestWithGia" \in DOMAIN d /\ d["earliestWithGia"] = None
      BY <2>1, <2>3 DEF FormOK, ClearsDates
    <3> QED BY <3>1, NormalizedAnswers
  <2>4. CASE level \in {"COULD_START_EARLY", "EARLIEST_WITH_GIA"}
    <3>1. d["couldStartEarly"] \in BOOLEAN
      BY <2>4 DEF FormOK, SchemaAccepts, GiaSchema
    <3>2. "earliestWithGia" \in GiaWithoutQuestion(level, d)
      BY <1>2, <2>1, <2>4, <3>1 DEF GiaWithoutQuestion
    <3> QED BY <3>2, ClearedIs, NormalizedAnswers
  <2> QED BY <2>2, <2>3, <2>4
<1> QED
  BY <1>1, <1>2

LEMMA UrgencyPaired ==
    ASSUME NEW form, FormOK(form), NEW p, NEW rows, rows = Normalized(form.level, form.fields, p)
    PROVE  /\ "urgencyDetails" \in DOMAIN rows /\ rows["urgencyDetails"] # None =>
                  "urgencyReason" \in DOMAIN rows /\ rows["urgencyReason"] # "not_urgent"
           /\ "urgencyReason" \in DOMAIN rows /\ rows["urgencyReason"] = "not_urgent" =>
                  "urgencyDetails" \in DOMAIN rows /\ rows["urgencyDetails"] = None
<1> DEFINE level == form.level
           d == form.fields
<1>1. ASSUME "urgencyDetails" \in DOMAIN rows, rows["urgencyDetails"] # None
      PROVE  "urgencyReason" \in DOMAIN rows /\ rows["urgencyReason"] # "not_urgent"
  <2>1. "urgencyDetails" \in DOMAIN d
    BY <1>1, NormalizedAnswers
  <2>2. level = "URGENCY_DETAILS"
    BY <2>1, SchemaAsks DEF AsksFor, FormOK
  <2>3. "urgencyReason" \in DOMAIN d /\ d["urgencyReason"] # "not_urgent"
    <3>1. "urgencyReason" \in DOMAIN d
      BY <2>2, FormNeeds DEF FormOK, Needs, StageOf
    <3> QED BY <2>1, <2>2, <3>1 DEF FormOK, SchemaAccepts, UrgencySchema
  <2> QED BY <2>3, QuestionsStay, NormalizedAnswers
<1>2. ASSUME "urgencyReason" \in DOMAIN rows, rows["urgencyReason"] = "not_urgent"
      PROVE  "urgencyDetails" \in DOMAIN rows /\ rows["urgencyDetails"] = None
  <2>1. "urgencyReason" \in DOMAIN d /\ d["urgencyReason"] = rows["urgencyReason"]
    BY <1>2, NormalizedAnswers, QuestionsStay
  <2>2. level \in {"URGENCY_REASON", "URGENCY_DETAILS"}
    BY <2>1, SchemaAsks DEF AsksFor, FormOK
  <2>4. "urgencyDetails" \in DetailsWithoutUrgency(level, d)
    BY <1>2, <2>1, <2>2 DEF DetailsWithoutUrgency
  <2> QED BY <2>4, ClearedIs, NormalizedAnswers
<1> QED
  BY <1>1, <1>2

LEMMA GatesPaired ==
    ASSUME NEW form, FormOK(form), NEW p, NEW rows, rows = Normalized(form.level, form.fields, p),
           NEW g \in Gates
    PROVE  /\ Quantity[g] \in DOMAIN rows /\ rows[Quantity[g]] # None =>
                  g \in DOMAIN rows /\ rows[g] # FALSE
           /\ g \in DOMAIN rows /\ rows[g] = FALSE =>
                  Quantity[g] \in DOMAIN rows /\ rows[Quantity[g]] = None
<1> DEFINE level == form.level
           d == form.fields
<1>1. Quantity[g] \in Quantities /\ None # FALSE
  BY NoneAssumption DEF Quantities
<1>2. ASSUME Quantity[g] \in DOMAIN rows, rows[Quantity[g]] # None
      PROVE  g \in DOMAIN rows /\ rows[g] # FALSE
  <2>1. Quantity[g] \in DOMAIN d
    BY <1>2, NormalizedAnswers
  <2>2. level = "QUANTITY"
    BY <1>1, <2>1, SchemaAsks DEF AsksFor, FormOK
  <2>3. PICK h \in Gates : h \in DOMAIN d /\ DOMAIN d \subseteq {h, Quantity[h]}
    BY <2>2 DEF FormOK, SchemaAccepts, BenefitPages, BenefitsSchema
  <2>4. h = g
    BY <2>1, <2>3 DEF Gates, Quantity
  <2>5. g \in DOMAIN d /\ d[g] = TRUE
    <3>1. g \in DOMAIN d
      BY <2>3, <2>4
    <3> QED BY <2>2, <3>1 DEF FormOK
  <2>6. g \notin Cleared(level, d, p)
    BY <2>2, QuestionsStay
  <2> QED BY <2>5, <2>6, NormalizedAnswers
<1>3. ASSUME g \in DOMAIN rows, rows[g] = FALSE
      PROVE  Quantity[g] \in DOMAIN rows /\ rows[Quantity[g]] = None
  <2>0. g \notin Cleared(level, d, p)
    <3> SUFFICES ASSUME g \in Cleared(level, d, p) PROVE FALSE
      OBVIOUS
    <3>1. rows[g] = None
      BY NormalizedAnswers
    <3> QED BY <1>1, <1>3, <3>1
  <2>1. g \in DOMAIN d /\ d[g] = FALSE
    BY <1>3, <2>0, NormalizedAnswers
  <2>2. level = "GATE"
    BY <2>1, SchemaAsks DEF AsksFor, FormOK
  <2>3. Quantity[g] \in ClosedBenefits(level, d)
    BY <2>1, <2>2 DEF ClosedBenefits
  <2> QED BY <2>3, ClearedIs, NormalizedAnswers
<1> QED
  BY <1>2, <1>3

LEMMA WrittenOK ==
    ASSUME NEW form, FormOK(form), NEW p
    PROVE  WriteOK(Normalized(form.level, form.fields, p))
BY WrittenTyped, GiaPaired, UrgencyPaired, GatesPaired DEF WriteOK, Paired

LEMMA WriteKeepsAnswers ==
    ASSUME NEW p, Answered(p), NEW rows, WriteOK(rows)
    PROVE  Answered(Over(p, rows))
BY DEF Answered, Over, WriteOK

-----------------------------------------------------------------------------
(***************************************************************************)
(* The statements of a save.                                               *)
(***************************************************************************)
MeasureRowsOK(rows) ==
    \A m \in DOMAIN rows :
        /\ m \in Measures
        /\ rows[m] # None => \A c \in DOMAIN rows[m] : c \in ColumnsOf(m) /\ rows[m][c] \in Nat \cup {None}
LandUseRowsOK(rows) ==
    \A l \in DOMAIN rows :
        /\ l \in LandUses
        /\ rows[l] # None => \A c \in DOMAIN rows[l] : c \in LandUseColumns /\ rows[l][c] \in Nat \cup {None}

StatementOK(s) ==
    /\ s.op \in {"project", "cache", "measures", "landUses", "spend", "flush", "clear"}
    /\ s.op = "project" => WriteOK(s.rows)
    /\ s.op = "measures" => MeasureRowsOK(s.rows)
    /\ s.op = "landUses" => LandUseRowsOK(s.rows)

LEMMA RowStatementsOK ==
    ASSUME NEW form, FormOK(form), NEW p
    PROVE  \/ RowStatements(form, p) = << >>
           \/ RowStatements(form, p) = DeleteAll
           \/ \E s : /\ RowStatements(form, p) = <<s>>
                     /\ StatementOK(s) /\ s.op \notin {"project", "cache"}

<1> DEFINE level == form.level
           d == form.fields
<1>1. level \in {"NFM_SELECTED_MEASURES", "NFM_LAND_USE_CHANGE", "NFM_MEASURE", "NFM_LAND_USE"} =>
          NfmSchema(level, d, form.rows)
  BY DEF FormOK, SchemaAccepts, NfmPages
<1>2. CASE NfmLeaves(level, d, p) \/ NfmRefused(level, d, p)
  <2>1. level \in {"PROJECT_TYPE", "NFM_INCLUSION"}
    BY <1>2 DEF NfmLeaves, NfmRefused
  <2> QED BY <1>2, <2>1 DEF RowStatements
<1>3. CASE level = "NFM_SELECTED_MEASURES"
  <2>1. DOMAIN form.rows \subseteq Measures
    BY <1>1, <1>3 DEF NfmSchema
  <2>2. \A S \in SUBSET Measures : StatementOK(Statement("measures", Forgotten(S)))
    BY DEF StatementOK, Statement, Forgotten, MeasureRowsOK
  <2>3. \/ Deletion("measures", form) = << >>
        \/ \E S \in SUBSET Measures : Deletion("measures", form) = <<Statement("measures", Forgotten(S))>>
    BY <2>1 DEF Deletion
  <2>4. RowStatements(form, p) = Deletion("measures", form)
    BY <1>3 DEF RowStatements, NfmLeaves, NfmRefused
  <2> QED BY <2>2, <2>3, <2>4 DEF Statement
<1>4. CASE level = "NFM_LAND_USE_CHANGE"
  <2>1. DOMAIN form.rows \subseteq LandUses
    BY <1>1, <1>4 DEF NfmSchema
  <2>2. \A S \in SUBSET LandUses : StatementOK(Statement("landUses", Forgotten(S)))
    BY DEF StatementOK, Statement, Forgotten, LandUseRowsOK
  <2>3. \/ Deletion("landUses", form) = << >>
        \/ \E S \in SUBSET LandUses : Deletion("landUses", form) = <<Statement("landUses", Forgotten(S))>>
    BY <2>1 DEF Deletion
  <2>4. RowStatements(form, p) = Deletion("landUses", form)
    BY <1>4 DEF RowStatements, NfmLeaves, NfmRefused
  <2> QED BY <2>2, <2>3, <2>4 DEF Statement
<1>5. CASE level = "NFM_MEASURE"
  <2>1. PICK m \in Measures : DOMAIN form.rows = {m} /\ MeasureRow(m, form.rows[m])
    BY <1>1, <1>5 DEF NfmSchema
  <2>2. \A c \in DOMAIN form.rows[m] : c \in ColumnsOf(m) /\ form.rows[m][c] \in Nat \cup {None}
    BY <1>5, <2>1 DEF MeasureRow, ColumnsOf, FormOK
  <2>3. StatementOK(Statement("measures", form.rows))
    BY <2>1, <2>2 DEF StatementOK, Statement, MeasureRowsOK
  <2> QED BY <1>5, <2>3 DEF RowStatements, Statement, NfmLeaves, NfmRefused
<1>6. CASE level = "NFM_LAND_USE"
  <2>1. PICK l \in LandUses : DOMAIN form.rows = {l} /\ LandUseRow(form.rows[l])
    BY <1>1, <1>6 DEF NfmSchema
  <2>2. \A c \in DOMAIN form.rows[l] : c \in LandUseColumns /\ form.rows[l][c] \in Nat \cup {None}
    BY <1>6, <2>1 DEF LandUseRow, FormOK
  <2>3. StatementOK(Statement("landUses", form.rows))
    BY <2>1, <2>2 DEF StatementOK, Statement, LandUseRowsOK
  <2> QED BY <1>6, <2>3 DEF RowStatements, Statement, NfmLeaves, NfmRefused
<1>7. CASE /\ level \notin {"NFM_SELECTED_MEASURES", "NFM_LAND_USE_CHANGE", "NFM_MEASURE", "NFM_LAND_USE"}
           /\ ~(NfmLeaves(level, d, p) \/ NfmRefused(level, d, p))
  <2>1. CASE level = "FUNDING_SOURCES_ESTIMATED_SPEND"
    BY <1>7, <2>1 DEF RowStatements, StatementOK, Statement
  <2>2. CASE level \in {"FINANCIAL_START_YEAR", "FINANCIAL_END_YEAR"}
    <3>1. RowStatements(form, p) = <<Statement("flush", Over([f \in YearFields |-> p[f]], d))>>
      BY <1>7, <2>2 DEF RowStatements
    <3> QED BY <3>1 DEF StatementOK, Statement
  <2>3. CASE level = "CLEAR_STALE_DATA"
    BY <1>7, <2>3 DEF RowStatements, StatementOK, Statement
  <2>4. CASE level \notin {"FUNDING_SOURCES_ESTIMATED_SPEND", "FINANCIAL_START_YEAR",
                           "FINANCIAL_END_YEAR", "CLEAR_STALE_DATA"}
    BY <1>7, <2>4 DEF RowStatements
  <2> QED BY <2>1, <2>2, <2>3, <2>4
<1> QED
  BY <1>2, <1>3, <1>4, <1>5, <1>6, <1>7

\* What is left of a save: statements about rows, the proposal, the cache.
IsTodo(todo) ==
    /\ todo \in Seq({todo[i] : i \in 1 .. Len(todo)}) /\ Len(todo) \in 1 .. 4
    /\ \A i \in 1 .. Len(todo) :
           /\ StatementOK(todo[i])
           /\ todo[i].op = "cache" <=> i = Len(todo)
           /\ todo[i].op = "project" <=> i = Len(todo) - 1

LEMMA TailOfTodo ==
    ASSUME NEW todo, IsTodo(todo), Len(todo) # 1
    PROVE  /\ IsTodo(Tail(todo)) /\ Len(Tail(todo)) = Len(todo) - 1
           /\ \A i \in 1 .. Len(todo) - 1 : Tail(todo)[i] = todo[i + 1]
<1> DEFINE rest == Tail(todo)
           S == {todo[i] : i \in 1 .. Len(todo)}
<1>1. todo \in Seq(S) /\ Len(todo) \in 2 .. 4
  BY DEF IsTodo
<1>2. /\ rest \in Seq(S) /\ Len(rest) = Len(todo) - 1
      /\ \A i \in 1 .. Len(rest) : rest[i] = todo[i + 1]
  <2> HIDE DEF S
  <2>1. todo # << >>
    BY <1>1
  <2> QED BY <1>1, <2>1, HeadTailProperties
<1> HIDE DEF rest, S
<1>3. rest \in Seq({rest[i] : i \in 1 .. Len(rest)})
  <2>1. /\ DOMAIN rest = 1 .. Len(rest) /\ Len(rest) \in Nat
        /\ rest = [i \in 1 .. Len(rest) |-> rest[i]]
    BY <1>2
  <2> QED BY <2>1
<1>4. ASSUME NEW i \in 1 .. Len(rest)
      PROVE  /\ StatementOK(rest[i])
             /\ rest[i].op = "cache" <=> i = Len(rest)
             /\ rest[i].op = "project" <=> i = Len(rest) - 1
  <2>1. i + 1 \in 1 .. Len(todo) /\ rest[i] = todo[i + 1]
    BY <1>1, <1>2, <1>4
  <2>2. /\ i + 1 = Len(todo) <=> i = Len(rest)
        /\ i + 1 = Len(todo) - 1 <=> i = Len(rest) - 1
    BY <1>1, <1>2, <1>4
  <2> QED BY <2>1, <2>2 DEF IsTodo
<1>5. IsTodo(rest)
  <2>1. Len(rest) \in 1 .. 4
    BY <1>1, <1>2
  <2> QED BY <2>1, <1>3, <1>4 DEF IsTodo
<1> QED
  BY <1>1, <1>2, <1>5 DEF rest

LEMMA RowsFirst ==
    ASSUME NEW form, FormOK(form), NEW p, NEW r, r = RowStatements(form, p)
    PROVE  /\ r \in Seq({r[i] : i \in 1 .. Len(r)}) /\ Len(r) \in 0 .. 2
           /\ \A i \in 1 .. Len(r) : StatementOK(r[i]) /\ r[i].op \notin {"project", "cache"}
<1> DEFINE first == Statement("landUses", Forgotten(LandUses))
           second == Statement("measures", Forgotten(Measures))
<1>1. /\ StatementOK(first) /\ first.op = "landUses" /\ StatementOK(second) /\ second.op = "measures"
  BY DEF StatementOK, Statement, Forgotten, MeasureRowsOK, LandUseRowsOK
<1>2. DeleteAll = <<first, second>>
  BY DEF DeleteAll
<1> HIDE DEF first, second
<1>3. CASE r = << >>
  BY <1>3
<1>4. CASE r = <<first, second>>
  BY <1>1, <1>4
<1>5. CASE \E s : r = <<s>> /\ StatementOK(s) /\ s.op \notin {"project", "cache"}
  BY <1>5
<1> QED
  BY <1>2, <1>3, <1>4, <1>5, RowStatementsOK

LEMMA StatementsTodo ==
    ASSUME NEW form, FormOK(form), NEW p, NEW todo, todo = Statements(form, p)
    PROVE  /\ IsTodo(todo)
           /\ Len(todo) = Len(RowStatements(form, p)) + 2
           /\ todo[Len(todo) - 1] = Written(form, p)
           /\ \A i \in 1 .. Len(todo) - 2 : todo[i] = RowStatements(form, p)[i]
<1> DEFINE r == RowStatements(form, p)
           w == Written(form, p)
           c == Statement("cache", Nothing)
           S == {r[i] : i \in 1 .. Len(r)} \cup {w, c}
<1>1. StatementOK(w) /\ w.op = "project" /\ StatementOK(c) /\ c.op = "cache"
  BY WrittenOK DEF StatementOK, Statement, Written
<1>2. todo = r \o <<w, c>>
  BY DEF Statements
<1>3. /\ r \in Seq({r[i] : i \in 1 .. Len(r)}) /\ Len(r) \in 0 .. 2
      /\ \A i \in 1 .. Len(r) : StatementOK(r[i]) /\ r[i].op \notin {"project", "cache"}
  BY RowsFirst
<1> HIDE DEF r, w, c
<1>4. r \in Seq(S) /\ <<w, c>> \in Seq(S) /\ Len(<<w, c>>) = 2 /\ <<w, c>>[1] = w /\ <<w, c>>[2] = c
  BY <1>3
<1>5. /\ todo \in Seq(S) /\ Len(todo) = Len(r) + 2
      /\ \A i \in 1 .. Len(r) + 2 :
             todo[i] = IF i <= Len(r) THEN r[i] ELSE <<w, c>>[i - Len(r)]
  <2> HIDE DEF S
  <2> QED BY <1>2, <1>4, ConcatProperties
<1>6. /\ \A i \in 1 .. Len(r) : todo[i] = r[i]
      /\ todo[Len(r) + 1] = w /\ todo[Len(r) + 2] = c
  <2>1. PICK n \in 0 .. 2 : n = Len(r)
    BY <1>3
  <2>2. \A i \in 1 .. n : todo[i] = r[i]
    BY <1>5, <2>1
  <2>3. todo[n + 1] = <<w, c>>[1] /\ todo[n + 2] = <<w, c>>[2]
    BY <1>5, <2>1
  <2> QED BY <1>4, <2>1, <2>2, <2>3
<1> HIDE DEF S
<1>10. Len(todo) = Len(r) + 2
  BY <1>5
<1>11. Len(r) \in 0 .. 2
  BY <1>3
<1>12. Len(todo) \in 1 .. 4
  <2>1. PICK n : n = Len(r)
    OBVIOUS
  <2>2. n \in 0 .. 2 /\ Len(todo) = n + 2
    BY <2>1, <1>10, <1>11
  <2> QED BY <2>2
<1>7. todo \in Seq({todo[i] : i \in 1 .. Len(todo)})
  <2>1. Len(todo) \in Nat /\ todo = [i \in 1 .. Len(todo) |-> todo[i]]
    BY <1>3, <1>5
  <2> QED BY <2>1
<1>8. ASSUME NEW i \in 1 .. Len(todo)
      PROVE  /\ StatementOK(todo[i])
             /\ todo[i].op = "cache" <=> i = Len(todo)
             /\ todo[i].op = "project" <=> i = Len(todo) - 1
  <2>1. PICK n \in 0 .. 2 : n = Len(r) /\ Len(todo) = n + 2
    BY <1>10, <1>11
  <2>2. CASE i \in 1 .. n
    <3>1. i # Len(todo) /\ i # Len(todo) - 1
      BY <2>1, <2>2
    <3>2. StatementOK(todo[i]) /\ todo[i].op \notin {"project", "cache"}
      BY <1>3, <1>6, <2>1, <2>2
    <3> QED BY <3>1, <3>2
  <2>3. CASE i = n + 1
    <3>1. todo[i] = w /\ i # Len(todo) /\ i = Len(todo) - 1
      BY <1>6, <2>1, <2>3
    <3> QED BY <1>1, <3>1
  <2>4. CASE i = n + 2
    <3>1. todo[i] = c /\ i = Len(todo) /\ i # Len(todo) - 1
      BY <1>6, <2>1, <2>4
    <3> QED BY <1>1, <3>1
  <2> QED BY <2>1, <2>2, <2>3, <2>4
<1>9. IsTodo(todo)
  BY <1>7, <1>8, <1>12 DEF IsTodo
<1> QED
  BY <1>3, <1>5, <1>6, <1>9 DEF r, w

-----------------------------------------------------------------------------
(***************************************************************************)
(* Every statement keeps the types, and the follow-up questions.           *)
(***************************************************************************)
LEMMA UpsertedFigures ==
    ASSUME NEW old, NEW row, NEW C,
           \A c \in DOMAIN old : c \in C /\ old[c] \in Nat,
           \A c \in DOMAIN row : c \in C /\ row[c] \in Nat \cup {None}
    PROVE  \A c \in DOMAIN Upserted(old, row) : c \in C /\ Upserted(old, row)[c] \in Nat
BY DEF Upserted, Over

LEMMA ChangedMeasures ==
    ASSUME NEW table, MeasuresTyped(table), NEW rows, MeasureRowsOK(rows)
    PROVE  MeasuresTyped(Changed(table, rows))
<1> DEFINE t == Changed(table, rows)
<1>1. ASSUME NEW m \in DOMAIN t
      PROVE  m \in Measures /\ \A c \in DOMAIN t[m] : c \in ColumnsOf(m) /\ t[m][c] \in Nat
  <2>1. CASE m \notin DOMAIN rows
    <3>1. m \in DOMAIN table /\ t[m] = table[m]
      BY <1>1, <2>1 DEF Changed
    <3> QED BY <3>1 DEF MeasuresTyped
  <2>2. CASE m \in DOMAIN rows
    <3> DEFINE old == IF m \in DOMAIN table THEN table[m] ELSE Nothing
    <3>1. rows[m] # None /\ t[m] = Upserted(old, rows[m])
      BY <1>1, <2>2 DEF Changed
    <3>2. \A c \in DOMAIN old : c \in ColumnsOf(m) /\ old[c] \in Nat
      BY DEF MeasuresTyped, Nothing, Forgotten
    <3>3. m \in Measures /\ \A c \in DOMAIN rows[m] : c \in ColumnsOf(m) /\ rows[m][c] \in Nat \cup {None}
      BY <2>2, <3>1 DEF MeasureRowsOK
    <3> HIDE DEF old, t
    <3> QED BY <3>1, <3>2, <3>3, UpsertedFigures
  <2> QED BY <2>1, <2>2
<1> QED
  BY <1>1 DEF MeasuresTyped

LEMMA ChangedLandUses ==
    ASSUME NEW table, LandUsesTyped(table), NEW rows, LandUseRowsOK(rows)
    PROVE  LandUsesTyped(Changed(table, rows))
<1> DEFINE t == Changed(table, rows)
<1>1. ASSUME NEW l \in DOMAIN t
      PROVE  l \in LandUses /\ \A c \in DOMAIN t[l] : c \in LandUseColumns /\ t[l][c] \in Nat
  <2>1. CASE l \notin DOMAIN rows
    <3>1. l \in DOMAIN table /\ t[l] = table[l]
      BY <1>1, <2>1 DEF Changed
    <3> QED BY <3>1 DEF LandUsesTyped
  <2>2. CASE l \in DOMAIN rows
    <3> DEFINE old == IF l \in DOMAIN table THEN table[l] ELSE Nothing
    <3>1. rows[l] # None /\ t[l] = Upserted(old, rows[l])
      BY <1>1, <2>2 DEF Changed
    <3>2. \A c \in DOMAIN old : c \in LandUseColumns /\ old[c] \in Nat
      BY DEF LandUsesTyped, Nothing, Forgotten
    <3>3. l \in LandUses /\ \A c \in DOMAIN rows[l] : c \in LandUseColumns /\ rows[l][c] \in Nat \cup {None}
      BY <2>2, <3>1 DEF LandUseRowsOK
    <3> HIDE DEF old, t
    <3> QED BY <3>1, <3>2, <3>3, UpsertedFigures
  <2> QED BY <2>1, <2>2
<1> QED
  BY <1>1 DEF LandUsesTyped

\* What a user, and the request of the user, may be doing.
Doing(q) ==
    /\ DOMAIN q = {"phase", "view", "at", "form", "read", "todo"}
    /\ q.phase \in {"away", "viewing", "loaded", "writing", "submitting"}
    /\ q.phase = "viewing" => Answered(q.view.fields)
    /\ q.phase = "loaded" => q.at \in Instances /\ Answered(q.read) /\ FormOK(q.form)
    /\ q.phase = "writing" => q.at \in Instances /\ IsTodo(q.todo)

EditingInv ==
    /\ TypeOK /\ FollowedUp(proposal)
    /\ DOMAIN cache = Instances
    /\ DOMAIN user = Users /\ \A u \in Users : Doing(user[u])

LEMMA AwayIsDoing == Doing(Away)
BY DEF Doing, Away

LEMMA OneUserMoves ==
    ASSUME EditingInv, NEW u \in Users, NEW q, Doing(q), DOMAIN user' = Users,
           \A v \in Users : user'[v] = IF v = u THEN q ELSE user[v]
    PROVE  DOMAIN user' = Users /\ \A v \in Users : Doing(user'[v])
BY DEF EditingInv

LEMMA DueStatement ==
    ASSUME EditingInv, NEW u \in Users, NEW op, Due(u, op)
    PROVE  /\ user[u].phase = "writing" /\ IsTodo(user[u].todo) /\ user[u].at \in Instances
           /\ Head(user[u].todo) = user[u].todo[1]
           /\ StatementOK(Head(user[u].todo)) /\ Head(user[u].todo).op = op
<1>1. /\ user[u].phase = "writing" /\ IsTodo(user[u].todo) /\ user[u].at \in Instances
      /\ Head(user[u].todo).op = op
  BY DEF EditingInv, Doing, Due
<1>2. PICK todo : todo = user[u].todo
  OBVIOUS
<1>3. Len(todo) \in 1 .. 4 /\ Head(todo) = todo[1]
  BY <1>1, <1>2 DEF IsTodo
<1>4. StatementOK(todo[1])
  BY <1>1, <1>2, <1>3 DEF IsTodo
<1> QED
  BY <1>1, <1>2, <1>3, <1>4

LEMMA AdvanceMoves ==
    ASSUME EditingInv, NEW u \in Users, Advance(u)
    PROVE  /\ DOMAIN user' = Users
           /\ \A v \in Users \ {u} : user'[v] = user[v]
           /\ Len(user[u].todo) = 1 => user'[u] = Away
           /\ Len(user[u].todo) # 1 => user'[u] = [user[u] EXCEPT !.todo = Tail(user[u].todo)]
BY DEF Advance, EditingInv

LEMMA AdvanceIsDoing ==
    ASSUME EditingInv, NEW u \in Users, user[u].phase = "writing", Advance(u)
    PROVE  DOMAIN user' = Users /\ \A v \in Users : Doing(user'[v])
<1>1. Doing(user[u]) /\ IsTodo(user[u].todo)
  BY DEF EditingInv, Doing
<1>2. PICK q : q = user[u]
  OBVIOUS
<1>3. CASE Len(q.todo) = 1
  BY <1>2, <1>3, AwayIsDoing, AdvanceMoves, OneUserMoves
<1>4. CASE Len(q.todo) # 1
  <2>1. PICK r : r = [q EXCEPT !.todo = Tail(q.todo)]
    OBVIOUS
  <2>2. IsTodo(Tail(q.todo))
    BY <1>1, <1>2, <1>4, TailOfTodo
  <2>3. Doing(r)
    BY <1>1, <1>2, <2>1, <2>2 DEF Doing
  <2>4. user'[u] = r
    BY <1>2, <1>4, <2>1, AdvanceMoves
  <2> QED BY <2>3, <2>4, AdvanceMoves, OneUserMoves
<1> QED
  BY <1>3, <1>4

-----------------------------------------------------------------------------
(***************************************************************************)
(* EditingInv is inductive.                                                *)
(***************************************************************************)
LEMMA EditingInit ==
    ASSUME Init
    PROVE  EditingInv
<1>1. PICK s \in Starts : /\ proposal = s.fields /\ measures = s.measures
                          /\ landUses = s.landUses /\ money = s.money
  BY DEF Init
<1>2. Answered(proposal) /\ FollowedUp(proposal) /\ MeasuresTyped(measures) /\ LandUsesTyped(landUses)
  BY <1>1, StartsAssumption
<1>3. TypeOK
  BY <1>2, BoundsAssumption DEF Init, TypeOK
<1>4. DOMAIN cache = Instances /\ DOMAIN user = Users /\ \A u \in Users : Doing(user[u])
  BY AwayIsDoing DEF Init
<1> QED
  BY <1>2, <1>3, <1>4 DEF EditingInv

LEMMA OpenKeeps ==
    ASSUME EditingInv, NEW u \in Users, Open(u)
    PROVE  EditingInv'
<1>1. PICK q : q = [Away EXCEPT !.phase = "viewing", !.view = View]
  OBVIOUS
<1>2. Answered(View.fields)
  BY DEF EditingInv, TypeOK, View
<1>3. Doing(q)
  BY <1>1, <1>2 DEF Doing, Away
<1>4. DOMAIN user' = Users /\ \A v \in Users : user'[v] = IF v = u THEN q ELSE user[v]
  BY <1>1 DEF Open, EditingInv
<1>5. UNCHANGED <<proposal, measures, landUses, money, status, cache, saves, serial>>
  BY DEF Open
<1> HIDE DEF Open
<1> QED
  BY <1>3, <1>4, <1>5, OneUserMoves DEF EditingInv, TypeOK

LEMMA LoadKeeps ==
    ASSUME EditingInv, NEW u \in Users, NEW i \in Instances, NEW e \in Entries, Load(u, i, e)
    PROVE  EditingInv'
<1> DEFINE form == Form(e, user[u].view)
           read == IF cache[i] # None THEN cache[i] ELSE proposal
<1>1. PICK f, q : /\ f = [form EXCEPT !.fields = Strip(form.level, form.fields)]
                  /\ q = [phase |-> "loaded", view |-> None, at |-> i, read |-> read,
                          todo |-> << >>, form |-> f]
  OBVIOUS
<1>2. /\ user[u].phase = "viewing" /\ Offered(e, user[u].view.fields) /\ SchemaAccepts(f)
      /\ DOMAIN user' = Users /\ \A v \in Users : user'[v] = IF v = u THEN q ELSE user[v]
      /\ serial' \in BOOLEAN
  BY <1>1 DEF Load, EditingInv
<1>3. /\ saves < MaxSaves /\ saves' = saves + 1
      /\ UNCHANGED <<proposal, measures, landUses, money, status, cache>>
  BY DEF Load, Room
<1>4. Answered(user[u].view.fields)
  BY <1>2 DEF EditingInv, Doing
<1>5. FormOK(f)
  BY <1>1, <1>2, <1>4, LoadedForm
<1>6. Answered(read)
  BY DEF EditingInv, TypeOK
<1> HIDE DEF read, form
<1>7. Doing(q)
  BY <1>1, <1>5, <1>6 DEF Doing
<1>8. saves' \in 0 .. MaxSaves
  BY <1>3, BoundsAssumption DEF EditingInv, TypeOK
<1> QED
  BY <1>2, <1>3, <1>7, <1>8, OneUserMoves DEF EditingInv, TypeOK

LEMMA ValidateKeeps ==
    ASSUME EditingInv, NEW u \in Users, Validate(u)
    PROVE  EditingInv'
<1>1. PICK q, todo : q = user[u] /\ todo = Statements(q.form, q.read)
  OBVIOUS
<1>2. /\ q.phase = "loaded" /\ q.at \in Instances /\ Answered(q.read) /\ FormOK(q.form)
  BY <1>1 DEF Validate, EditingInv, Doing
<1>3. PICK r : r = IF Accepted(q.form, q.read)
                   THEN [Away EXCEPT !.phase = "writing", !.at = q.at, !.todo = todo]
                   ELSE Away
  OBVIOUS
<1>4. /\ DOMAIN user' = Users /\ \A v \in Users : user'[v] = IF v = u THEN r ELSE user[v]
      /\ cache' = [cache EXCEPT ![q.at] = IF @ = None THEN q.read ELSE @]
      /\ UNCHANGED <<proposal, measures, landUses, money, status, saves, serial>>
  BY <1>1, <1>3 DEF Validate, EditingInv
<1>5. IsTodo(todo)
  BY <1>1, <1>2, StatementsTodo
<1>6. Doing(r)
  <2>1. CASE Accepted(q.form, q.read)
    BY <1>2, <1>3, <1>5, <2>1 DEF Doing, Away
  <2>2. CASE ~Accepted(q.form, q.read)
    BY <1>3, <2>2, AwayIsDoing
  <2> QED BY <2>1, <2>2
<1>7. DOMAIN cache' = Instances /\ \A i \in Instances : cache'[i] # None => Answered(cache'[i])
  BY <1>2, <1>4 DEF EditingInv, TypeOK
<1> QED
  BY <1>4, <1>6, <1>7, OneUserMoves DEF EditingInv, TypeOK

LEMMA MeasuresStepKeeps ==
    ASSUME EditingInv, NEW u \in Users, MeasuresStep(u)
    PROVE  EditingInv'
<1>1. /\ Due(u, "measures") /\ measures' = Changed(measures, Head(user[u].todo).rows) /\ Advance(u)
      /\ UNCHANGED <<proposal, landUses, money, status, cache, saves, serial>>
  BY DEF MeasuresStep
<1>2. MeasuresTyped(measures')
  BY <1>1, DueStatement, ChangedMeasures DEF EditingInv, TypeOK, StatementOK
<1> QED
  BY <1>1, <1>2, DueStatement, AdvanceIsDoing DEF EditingInv, TypeOK

LEMMA LandUsesStepKeeps ==
    ASSUME EditingInv, NEW u \in Users, LandUsesStep(u)
    PROVE  EditingInv'
<1>1. /\ Due(u, "landUses") /\ landUses' = Changed(landUses, Head(user[u].todo).rows) /\ Advance(u)
      /\ UNCHANGED <<proposal, measures, money, status, cache, saves, serial>>
  BY DEF LandUsesStep
<1>2. LandUsesTyped(landUses')
  BY <1>1, DueStatement, ChangedLandUses DEF EditingInv, TypeOK, StatementOK
<1> QED
  BY <1>1, <1>2, DueStatement, AdvanceIsDoing DEF EditingInv, TypeOK

LEMMA MoneyStepKeeps ==
    ASSUME EditingInv, NEW u \in Users, SpendStep(u) \/ FlushStep(u) \/ ClearStep(u)
    PROVE  EditingInv'
<1>1. /\ Due(u, "spend") \/ Due(u, "flush") \/ Due(u, "clear")
      /\ Advance(u)
      /\ UNCHANGED <<proposal, measures, landUses, status, cache, saves, serial>>
  BY DEF SpendStep, FlushStep, ClearStep
<1> QED
  BY <1>1, DueStatement, AdvanceIsDoing DEF EditingInv, TypeOK

LEMMA ProjectStepKeeps ==
    ASSUME EditingInv, NEW u \in Users, ProjectStep(u)
    PROVE  EditingInv'
<1>1. /\ Due(u, "project") /\ proposal' = Over(proposal, Head(user[u].todo).rows) /\ Advance(u)
      /\ UNCHANGED <<measures, landUses, money, status, cache, saves, serial>>
  BY DEF ProjectStep
<1>2. PICK rows : rows = Head(user[u].todo).rows /\ WriteOK(rows)
  BY <1>1, DueStatement DEF StatementOK
<1>3. Answered(proposal') /\ FollowedUp(proposal')
  BY <1>1, <1>2, WriteKeepsAnswers, PairedKeeps DEF EditingInv, TypeOK, WriteOK
<1> QED
  BY <1>1, <1>3, DueStatement, AdvanceIsDoing DEF EditingInv, TypeOK

LEMMA InvalidateKeeps ==
    ASSUME EditingInv, NEW u \in Users, InvalidateStep(u)
    PROVE  EditingInv'
<1>1. /\ Due(u, "cache") /\ cache' = [cache EXCEPT ![user[u].at] = None] /\ Advance(u)
      /\ UNCHANGED <<proposal, measures, landUses, money, status, saves, serial>>
  BY DEF InvalidateStep
<1>2. DOMAIN cache' = Instances /\ \A i \in Instances : cache'[i] # None => Answered(cache'[i])
  BY <1>1, DueStatement DEF EditingInv, TypeOK
<1> QED
  BY <1>1, <1>2, DueStatement, AdvanceIsDoing DEF EditingInv, TypeOK

LEMMA LeavingKeeps ==
    ASSUME EditingInv, NEW u \in Users, Fail(u) \/ TransitionToSubmitted(u)
    PROVE  EditingInv'
<1>1. /\ DOMAIN user' = Users /\ \A v \in Users : user'[v] = IF v = u THEN Away ELSE user[v]
      /\ status' \in {"draft", "submitted"}
      /\ UNCHANGED <<proposal, measures, landUses, money, cache, saves, serial>>
  BY DEF Fail, TransitionToSubmitted, EditingInv, TypeOK
<1> QED
  BY <1>1, AwayIsDoing, OneUserMoves DEF EditingInv, TypeOK

LEMMA ExpireKeeps ==
    ASSUME EditingInv, NEW i \in Instances, Expire(i)
    PROVE  EditingInv'
BY DEF Expire, EditingInv, TypeOK

LEMMA CheckKeeps ==
    ASSUME EditingInv, NEW u \in Users, Check(u)
    PROVE  EditingInv'
<1>1. PICK q : q = [Away EXCEPT !.phase = "submitting"]
  OBVIOUS
<1>2. Doing(q)
  BY <1>1 DEF Doing, Away
<1>3. /\ DOMAIN user' = Users /\ \A v \in Users : user'[v] = IF v = u THEN q ELSE user[v]
      /\ serial' \in BOOLEAN /\ saves < MaxSaves /\ saves' = saves + 1
      /\ UNCHANGED <<proposal, measures, landUses, money, status, cache>>
  BY <1>1 DEF Check, Room, EditingInv
<1>4. saves' \in 0 .. MaxSaves
  BY <1>3, BoundsAssumption DEF EditingInv, TypeOK
<1> QED
  BY <1>2, <1>3, <1>4, OneUserMoves DEF EditingInv, TypeOK

LEMMA EditingStep ==
    ASSUME EditingInv, [Next]_vars
    PROVE  EditingInv'
<1>1. CASE UNCHANGED vars
  BY <1>1 DEF vars, EditingInv, TypeOK
<1>2. CASE Next
  BY <1>2, OpenKeeps, LoadKeeps, ValidateKeeps, MeasuresStepKeeps, LandUsesStepKeeps,
     MoneyStepKeeps, ProjectStepKeeps, InvalidateKeeps, LeavingKeeps, ExpireKeeps, CheckKeeps
     DEF Next, Save
<1> QED
  BY <1>1, <1>2

LEMMA EditingInvariant == Spec => []EditingInv
<1>1. Init => EditingInv
  BY EditingInit
<1>2. EditingInv /\ [Next]_vars => EditingInv'
  BY EditingStep
<1> QED
  BY <1>1, <1>2, PTL DEF Spec

(* Every answer has the type of its column, whatever pages users save, on  *)
(* however many instances, and whatever a cache still holds: no page       *)
(* writes the empty string it may send for a figure.                       *)
THEOREM AnswersAreTyped == Spec => []TypeOK
<1>1. EditingInv => TypeOK
  BY DEF EditingInv
<1> QED
  BY <1>1, EditingInvariant, PTL

(* No answer to a follow-up question stays without the answer that asks    *)
(* it, in any interleaving of any number of saves, stale caches and views  *)
(* and failed statements included.  That CLEAR_STALE_DATA sends the date   *)
(* with the question is an assumption (ClearingAssumption).                *)
THEOREM FollowUpsAreAsked == Spec => []FollowUpsNeedTheirQuestion
<1>1. EditingInv => FollowUpsNeedTheirQuestion
  BY DEF EditingInv, FollowUpsNeedTheirQuestion
<1> QED
  BY <1>1, EditingInvariant, PTL

-----------------------------------------------------------------------------
(***************************************************************************)
(* A save that read the proposal p as its user saw it, and makes it q.     *)
(***************************************************************************)
Current(form, p) ==
    \E e \in Entries : \E view :
        view.fields = p /\ Offered(e, p) /\ form = Form(e, view)

\* e is what the user entered.
Saved(e, form, p, q) ==
    /\ e \in Entries /\ Offered(e, p) /\ FormOK(form) /\ form.level = e.level
    /\ form.rows = Over(e.rows, Forgotten(Unselected(e)))
    /\ Answered(p) /\ Tidy(p) /\ DOMAIN q = Fields
    /\ \A f \in DOMAIN form.fields :
           \/ /\ f \in DOMAIN e.fields /\ f \notin ContextFields(e)
              /\ form.fields[f] = e.fields[f]
           \/ f = "carbonValuesHexdigest" /\ e.level = "CARBON_VALUES_HEXDIGEST"
           \/ f \in ContextFields(e) /\ p[f] # None /\ form.fields[f] = p[f]
    /\ \A f \in ContextFields(e) : p[f] # None => f \in DOMAIN form.fields
    /\ \A f \in Fields :
           q[f] = IF f \in Cleared(form.level, form.fields, p) THEN None
                  ELSE IF f \in DOMAIN form.fields THEN form.fields[f] ELSE p[f]

LEMMA CurrentIsSaved ==
    ASSUME NEW form, NEW p, Current(form, p), FormOK(form), Answered(p), Tidy(p),
           NEW q, q = Over(p, Normalized(form.level, form.fields, p))
    PROVE  \E e : Saved(e, form, p, q)
<1>0. PICK e \in Entries : \E view : view.fields = p /\ Offered(e, p) /\ form = Form(e, view)
  BY DEF Current
<1>1. PICK view : view.fields = p /\ Offered(e, p) /\ form = Form(e, view)
  BY <1>0
<1>2. /\ form.level = e.level /\ form.rows = Over(e.rows, Forgotten(Unselected(e)))
      /\ DOMAIN e.fields \subseteq DOMAIN form.fields
      /\ \A f \in ContextFields(e) : p[f] # None => f \in DOMAIN form.fields
  BY <1>1 DEF Form, Over
<1>3. ASSUME NEW f \in DOMAIN form.fields
      PROVE  \/ /\ f \in DOMAIN e.fields /\ f \notin ContextFields(e)
                /\ form.fields[f] = e.fields[f]
             \/ f = "carbonValuesHexdigest" /\ e.level = "CARBON_VALUES_HEXDIGEST"
             \/ f \in ContextFields(e) /\ p[f] # None /\ form.fields[f] = p[f]
  BY <1>1, FormAnswers, EntriesAssumption
<1>4. Cleared(form.level, form.fields, p) \subseteq Fields
  BY ClearedAreFields
<1>5. DOMAIN form.fields \subseteq Fields
  BY DEF FormOK
<1>6. DOMAIN Normalized(form.level, form.fields, p) \subseteq Fields
  BY <1>4, <1>5, NormalizedAnswers
<1>7. DOMAIN q = Fields
  BY <1>6 DEF Over, Answered
<1>8. ASSUME NEW f \in Fields
      PROVE  q[f] = IF f \in Cleared(form.level, form.fields, p) THEN None
                    ELSE IF f \in DOMAIN form.fields THEN form.fields[f] ELSE p[f]
  <2>1. q[f] = IF f \in DOMAIN Normalized(form.level, form.fields, p)
               THEN Normalized(form.level, form.fields, p)[f] ELSE p[f]
    BY DEF Over, Answered
  <2> QED BY <2>1, NormalizedAnswers
<1> QED
  BY <1>1, <1>2, <1>3, <1>7, <1>8 DEF Saved

\* The pages that clear a field.
LEMMA ClearsOn ==
    ASSUME NEW form, FormOK(form), NEW p, NEW f \in Cleared(form.level, form.fields, p)
    PROVE  /\ f \notin YearFields \cup Stages
                       \cup {"projectType", "couldStartEarly", "risks", "environmentalBenefits"}
           /\ f \in TypeFields => form.level = "PROJECT_TYPE" /\ f \notin DOMAIN form.fields
           /\ f \in Gates \cup Quantities => form.level \in {"ENVIRONMENTAL_BENEFITS", "GATE"}
           /\ f \in NfmFields => f \in NfmAnswers(form.level, form.fields, p)
<1> DEFINE level == form.level
           d == form.fields
<1> USE QuantityNames DEF TypeFields, YearFields, Stages, Gates, Quantity, NfmFields, NfmChoices
<1>1. CASE f \in UnsentInterventions(level, d)
  <2>2. level = "PROJECT_TYPE" => "projectType" \in DOMAIN d
    BY FormNeeds DEF FormOK, Needs, StageOf
  <2> QED BY <1>1, <2>2 DEF UnsentInterventions
<1>2. CASE f \in GiaWithoutQuestion(level, d) \cup DetailsWithoutUrgency(level, d)
  BY <1>2 DEF GiaWithoutQuestion, DetailsWithoutUrgency
<1>3. CASE f \in ClosedBenefits(level, d)
  <2>1. level = "GATE" => DOMAIN d \subseteq Gates
    <3>1. level = "GATE" => BenefitsSchema(level, d)
      BY DEF FormOK, SchemaAccepts, BenefitPages
    <3> QED BY <3>1 DEF BenefitsSchema
  <2>2. level \in {"ENVIRONMENTAL_BENEFITS", "GATE"} /\ f \in Gates \cup Quantities
    BY <1>3, <2>1 DEF ClosedBenefits, Quantities
  <2> QED BY <2>2
<1>4. CASE f \in RiskLevelsWithoutRisk(level, d) \cup ConfidenceOfOtherTypes(level, d)
  BY <1>4 DEF RiskLevelsWithoutRisk, ConfidenceOfOtherTypes, CurrentRisks, RiskLevels, ConfidenceFields
<1>5. CASE f \in WholeLifeOfOtherTypes(level, d) \cup CarbonOfOtherTypes(level, d) \cup BlankFigures(level, d)
  BY <1>5 DEF WholeLifeOfOtherTypes, CarbonOfOtherTypes, BlankFigures, TextFigures,
              CostFields, BenefitFields, CarbonFields
<1>6. CASE f \in NfmAnswers(level, d, p)
  <2>1. f \in NfmFields
    BY <1>6 DEF NfmAnswers
  <2> QED BY <1>6, <2>1
<1> QED
  BY <1>1, <1>2, <1>3, <1>4, <1>5, <1>6, ClearedIs

\* The answers that decide what else is asked change on their own pages only.
LEMMA AsBefore ==
    ASSUME NEW e, NEW form, NEW p, NEW q, Saved(e, form, p, q)
    PROVE  /\ form.level # "PROJECT_TYPE" => \A f \in TypeFields : q[f] = p[f]
           /\ form.level # "RISK" => q["risks"] = p["risks"]
           /\ form.level # "ENVIRONMENTAL_BENEFITS" =>
                  q["environmentalBenefits"] = p["environmentalBenefits"]
           /\ form.level \notin {"FINANCIAL_START_YEAR", "FINANCIAL_END_YEAR", "CLEAR_STALE_DATA"} =>
                  \A f \in YearFields : q[f] = p[f]
<1> DEFINE level == form.level
           d == form.fields
<1>1. /\ FormOK(form) /\ level = e.level /\ \A f \in DOMAIN d : f \in Fields /\ AsksFor(level, f)
  BY SchemaAsks DEF Saved, FormOK
<1>2. ASSUME NEW f \in Fields, f \notin Cleared(level, d, p), f # "carbonValuesHexdigest",
             f \in DOMAIN d => f \in ContextFields(e)
      PROVE  q[f] = p[f]
  BY <1>2 DEF Saved
<1>3. ASSUME level # "PROJECT_TYPE", NEW f \in TypeFields
      PROVE  q[f] = p[f]
  <2>1. f \in Fields /\ f \notin Cleared(level, d, p) /\ f # "carbonValuesHexdigest"
    BY <1>1, <1>3, ClearsOn DEF TypeFields, Fields
  <2>2. f \in DOMAIN d => f \in ContextFields(e)
    BY <1>1, <1>3 DEF AsksFor, ContextFields, TypeFields
  <2> QED BY <1>2, <2>1, <2>2
<1>4. ASSUME level # "RISK"
      PROVE  q["risks"] = p["risks"]
  <2>1. "risks" \in Fields /\ "risks" \notin Cleared(level, d, p) /\ "risks" \notin DOMAIN d
    BY <1>1, <1>4, ClearsOn DEF AsksFor, Fields
  <2> QED BY <1>2, <2>1
<1>5. ASSUME level # "ENVIRONMENTAL_BENEFITS"
      PROVE  q["environmentalBenefits"] = p["environmentalBenefits"]
  <2>1. /\ "environmentalBenefits" \in Fields /\ "environmentalBenefits" \notin Cleared(level, d, p)
        /\ "environmentalBenefits" \notin DOMAIN d
    BY <1>1, <1>5, ClearsOn DEF AsksFor, Fields
  <2> QED BY <1>2, <2>1
<1>6. ASSUME level \notin {"FINANCIAL_START_YEAR", "FINANCIAL_END_YEAR", "CLEAR_STALE_DATA"},
             NEW f \in YearFields
      PROVE  q[f] = p[f]
  <2>1. f \in Fields /\ f \notin Cleared(level, d, p) /\ f # "carbonValuesHexdigest"
    BY <1>1, ClearsOn DEF YearFields, Fields
  <2>2. f \in DOMAIN d => \/ level \in DOMAIN StageOf
                          \/ level = "EARLIEST_WITH_GIA" /\ f = "financialStartYear"
    BY <1>1, <1>6 DEF AsksFor, YearFields
  <2>3. f \in DOMAIN d => f \in ContextFields(e)
    BY <1>1, <2>2 DEF ContextFields, StageOf, YearFields
  <2> QED BY <1>2, <2>1, <2>2, <2>3
<1> QED
  BY <1>3, <1>4, <1>5, <1>6

\* What the page of the type writes.
LEMMA TypeWritten ==
    ASSUME NEW e, NEW form, NEW p, NEW q, Saved(e, form, p, q), form.level = "PROJECT_TYPE"
    PROVE  /\ q["projectType"] = form.fields["projectType"] /\ q["projectType"] \in Types
           /\ InterventionsIn(form.fields) \subseteq InterventionsFor(q["projectType"])
           /\ Listed(q, "projectInterventionTypes") = InterventionsIn(form.fields)
           /\ InterventionsIn(q) = InterventionsIn(form.fields)
           /\ q["projectType"] \notin MandatoryTypes => q["mainInterventionType"] = None
<1> DEFINE level == form.level
           d == form.fields
<1>1. /\ FormOK(form) /\ "projectType" \in DOMAIN d /\ TypeSchema(d)
  <2>1. FormOK(form) /\ SchemaAccepts(form)
    BY DEF Saved, FormOK
  <2>2. "projectType" \in DOMAIN d
    BY <2>1, FormNeeds DEF Needs, StageOf
  <2> QED BY <2>1, <2>2 DEF SchemaAccepts
<1>2. \A f \in TypeFields : q[f] = IF f \in DOMAIN d THEN d[f] ELSE None
  <2>1. \A f \in TypeFields : f \in Fields /\ (f \in DOMAIN d => f \notin Cleared(level, d, p))
    BY <1>1, ClearsOn DEF Fields
  <2>2. \A f \in TypeFields : f \notin DOMAIN d => f \in Cleared(level, d, p)
    BY ClearedIs DEF UnsentInterventions
  <2> QED BY <2>1, <2>2 DEF Saved
<1>3. q["projectType"] = d["projectType"] /\ d["projectType"] \in Types
  BY <1>1, <1>2 DEF TypeFields, TypeSchema
<1>4. InterventionsFor(d["projectType"]) \subseteq Interventions
  BY DEF InterventionsFor, Interventions
<1>5. \A S \in SUBSET Interventions : S # None /\ S # Blank
  BY NoneAssumption DEF Lists
<1>6. \A f \in {"projectInterventionTypes", "mainInterventionType"} : f \in TypeFields /\ f \in DOMAIN q
  BY DEF Saved, TypeFields, Fields
<1>7. CASE InterventionsFor(d["projectType"]) = {}
  <2>1. DOMAIN d = {"projectType"}
    BY <1>1, <1>7 DEF TypeSchema
  <2>2. q["projectInterventionTypes"] = None /\ q["mainInterventionType"] = None /\ InterventionsIn(d) = {}
    BY <1>2, <1>6, <2>1 DEF InterventionsIn, Given
  <2> QED BY <1>3, <2>2 DEF InterventionsIn, Given, Listed, HasValue
<1>8. CASE InterventionsFor(d["projectType"]) # {}
  <2>1. /\ "projectInterventionTypes" \in DOMAIN d
        /\ d["projectInterventionTypes"] \subseteq InterventionsFor(d["projectType"])
    BY <1>1, <1>8 DEF TypeSchema
  <2>2. /\ q["projectInterventionTypes"] = d["projectInterventionTypes"]
        /\ d["projectInterventionTypes"] \notin {None, Blank}
    BY <1>2, <1>4, <1>5, <1>6, <2>1
  <2>3. /\ InterventionsIn(d) = d["projectInterventionTypes"]
        /\ InterventionsIn(q) = d["projectInterventionTypes"]
        /\ Listed(q, "projectInterventionTypes") = d["projectInterventionTypes"]
    BY <1>6, <2>1, <2>2 DEF InterventionsIn, Given, Listed, HasValue
  <2>4. d["projectType"] \in MandatoryTypes
    BY <1>8 DEF InterventionsFor, MandatoryTypes
  <2> QED BY <1>3, <2>1, <2>3, <2>4
<1> QED
  BY <1>7, <1>8

-----------------------------------------------------------------------------
(***************************************************************************)
(* Nothing is left over by a save, one choice after the other.             *)
(***************************************************************************)

\* An answer that the page neither has nor may have stays None.
LEMMA StaysNone ==
    ASSUME NEW e, NEW form, NEW p, NEW q, Saved(e, form, p, q), NEW f \in Fields,
           p[f] = None, f \notin DOMAIN form.fields
    PROVE  q[f] = None
BY DEF Saved

LEMMA ConfidenceTidy ==
    ASSUME NEW e, NEW form, NEW p, NEW q, Saved(e, form, p, q), q["projectType"] \in RestrictedTypes
    PROVE  NoneOf(q, ConfidenceFields)
<1> DEFINE level == form.level
           d == form.fields
<1>1. FormOK(form) /\ level = e.level /\ Tidy(p) /\ Offered(e, p)
  BY DEF Saved
<1>2. ConfidenceFields \subseteq Fields
  BY DEF Fields
<1>3. CASE level = "PROJECT_TYPE"
  <2>1. ConfidenceFields \subseteq Cleared(level, d, p)
    BY <1>3, TypeWritten, ClearedIs DEF ConfidenceOfOtherTypes
  <2> QED BY <1>2, <2>1 DEF NoneOf, Saved
<1>4. CASE level # "PROJECT_TYPE"
  <2>1. p["projectType"] \in RestrictedTypes
    BY <1>4, AsBefore DEF TypeFields
  <2>2. \A f \in ConfidenceFields : p[f] = None /\ f \notin DOMAIN d
    BY <1>1, <2>1, SchemaAsks DEF FormOK, AsksFor, Offered, Tidy, NoneOf
  <2> QED BY <1>2, <2>2, StaysNone DEF NoneOf
<1> QED
  BY <1>3, <1>4

LEMMA FiguresTidy ==
    ASSUME NEW e, NEW form, NEW p, NEW q, Saved(e, form, p, q), q["projectType"] \in SimplifiedTypes
    PROVE  NoneOf(q, CostFields \cup BenefitFields \cup CarbonFields \cup {"carbonValuesHexdigest"})
<1> DEFINE level == form.level
           d == form.fields
           F == CostFields \cup BenefitFields \cup CarbonFields \cup {"carbonValuesHexdigest"}
<1>1. FormOK(form) /\ level = e.level /\ Tidy(p) /\ Offered(e, p)
  BY DEF Saved
<1>2. F \subseteq Fields
  BY DEF Fields
<1>3. CASE level = "PROJECT_TYPE"
  <2>1. d["projectType"] \in SimplifiedTypes
    BY <1>3, TypeWritten
  <2>2. F \subseteq Cleared(level, d, p)
    BY <1>3, <2>1, ClearedIs DEF WholeLifeOfOtherTypes, CarbonOfOtherTypes
  <2> QED BY <1>2, <2>2 DEF NoneOf, Saved
<1>4. CASE level # "PROJECT_TYPE"
  <2>1. p["projectType"] \in SimplifiedTypes
    BY <1>4, AsBefore DEF TypeFields
  <2>2. \A f \in F : p[f] = None
    BY <1>1, <2>1 DEF Tidy, NoneOf
  <2>3. level \notin {"WHOLE_LIFE_COST", "WHOLE_LIFE_BENEFITS"} \cup DOMAIN CarbonPages
    BY <1>1, <2>1 DEF Offered, UnlessSimplified, CostPages, BenefitsPages
  <2>4. \A f \in F : f \notin DOMAIN d
    BY <1>1, <2>3, SchemaAsks DEF FormOK, AsksFor
  <2> QED BY <1>2, <2>2, <2>4, StaysNone DEF NoneOf
<1> QED
  BY <1>3, <1>4

LEMMA InterventionsTidy ==
    ASSUME NEW e, NEW form, NEW p, NEW q, Saved(e, form, p, q)
    PROVE  /\ q["projectType"] \notin MandatoryTypes => NoneOf(q, {"mainInterventionType"})
           /\ Listed(q, "projectInterventionTypes") \subseteq InterventionsFor(q["projectType"])
<1>1. CASE form.level = "PROJECT_TYPE"
  BY <1>1, TypeWritten DEF NoneOf
<1>2. CASE form.level # "PROJECT_TYPE"
  <2>1. \A f \in TypeFields : q[f] = p[f]
    BY <1>2, AsBefore
  <2>2. Listed(q, "projectInterventionTypes") = Listed(p, "projectInterventionTypes")
    BY <2>1 DEF TypeFields, Listed, HasValue
  <2> QED BY <2>1, <2>2 DEF Saved, Tidy, TypeFields, NoneOf
<1> QED
  BY <1>1, <1>2

LEMMA BenefitsTidy ==
    ASSUME NEW e, NEW form, NEW p, NEW q, Saved(e, form, p, q), q["environmentalBenefits"] # TRUE
    PROVE  NoneOf(q, Gates \cup Quantities)
<1> DEFINE level == form.level
           d == form.fields
<1>1. FormOK(form) /\ level = e.level /\ Tidy(p) /\ Offered(e, p)
  BY DEF Saved
<1>2. Gates \cup Quantities \subseteq Fields
  BY DEF Fields
<1>3. CASE level = "ENVIRONMENTAL_BENEFITS"
  <2>1. "environmentalBenefits" \in DOMAIN d /\ BenefitsSchema(level, d)
    BY <1>1, <1>3, FormNeeds DEF FormOK, SchemaAccepts, BenefitPages, Needs, StageOf
  <2>2. q["environmentalBenefits"] = d["environmentalBenefits"] /\ d["environmentalBenefits"] \in BOOLEAN
    <3>1. "environmentalBenefits" \in Fields /\ "environmentalBenefits" \notin Cleared(level, d, p)
      BY <1>1, ClearsOn DEF Fields
    <3> QED BY <1>3, <2>1, <3>1 DEF Saved, BenefitsSchema
  <2>3. Gates \cup Quantities \subseteq Cleared(level, d, p)
    BY <1>3, <2>2, ClearedIs DEF ClosedBenefits
  <2> QED BY <1>2, <2>3 DEF NoneOf, Saved
<1>4. CASE level # "ENVIRONMENTAL_BENEFITS"
  <2>0. q["environmentalBenefits"] = p["environmentalBenefits"]
    BY <1>4, AsBefore
  <2>1. p["environmentalBenefits"] # TRUE
    BY <2>0
  <2>2. NoneOf(p, Gates \cup Quantities) /\ level # "GATE"
    BY <1>1, <2>1 DEF Tidy, Offered
  <2>3. level # "QUANTITY"
    <3> SUFFICES ASSUME level = "QUANTITY" PROVE FALSE
      OBVIOUS
    <3>1. PICK g \in Gates : g \in DOMAIN d
      BY <1>1 DEF FormOK, SchemaAccepts, BenefitPages, BenefitsSchema
    <3>2. g \notin DOMAIN e.fields /\ g # "carbonValuesHexdigest"
      BY <1>1, EntriesAssumption, QuantityNames DEF Gates, Quantity, Saved
    <3>3. p[g] # None
      BY <3>1, <3>2 DEF Saved
    <3> QED BY <2>2, <3>3 DEF NoneOf
  <2>4. \A f \in Gates \cup Quantities : f \notin DOMAIN d
    BY <1>1, <2>2, <2>3, SchemaAsks DEF FormOK, AsksFor
  <2> QED BY <1>2, <2>2, <2>4, StaysNone DEF NoneOf
<1> QED
  BY <1>3, <1>4

LEMMA RisksTidy ==
    ASSUME NEW e, NEW form, NEW p, NEW q, Saved(e, form, p, q),
           NEW f \in CurrentRisks, Listed(q, "risks") \cap RisksOf[f] = {}
    PROVE  q[f] = None
<1> DEFINE level == form.level
           d == form.fields
<1>1. FormOK(form) /\ level = e.level /\ Tidy(p) /\ Offered(e, p)
  BY DEF Saved
<1>2. f \in Fields
  BY DEF Fields
<1>3. CASE level = "RISK"
  <2>1. "risks" \in DOMAIN d /\ RiskSchema(d)
    BY <1>1, <1>3, FormNeeds DEF FormOK, SchemaAccepts, RiskPages, Needs, StageOf
  <2>2. q["risks"] = d["risks"] /\ d["risks"] \subseteq Risks
    <3>1. "risks" \in Fields /\ "risks" \notin Cleared(level, d, p)
      BY <1>1, ClearsOn DEF Fields
    <3> QED BY <2>1, <3>1 DEF Saved, RiskSchema
  <2>3. Listed(q, "risks") = d["risks"]
    BY <2>2, NoneAssumption DEF Listed, HasValue, Lists
  <2>4. f \in Cleared(level, d, p)
    BY <1>3, <2>3, ClearedIs DEF RiskLevelsWithoutRisk
  <2> QED BY <1>2, <2>4 DEF Saved
<1>4. CASE level # "RISK"
  <2>1. Listed(p, "risks") \cap RisksOf[f] = {}
    BY <1>4, AsBefore DEF Listed, HasValue
  <2>2. p[f] = None
    BY <1>1, <2>1 DEF Tidy
  <2>3. f \notin DOMAIN d
    <3> SUFFICES ASSUME f \in DOMAIN d PROVE FALSE
      OBVIOUS
    <3>1. level \in {"CURRENT_FLOOD_FLUVIAL_RISK", "CURRENT_FLOOD_SURFACE_WATER_RISK",
                     "CURRENT_COASTAL_EROSION_RISK"}
      BY <1>1, SchemaAsks DEF FormOK, AsksFor
    <3>2. ContextFields(e) = {} /\ f # "carbonValuesHexdigest"
      BY <1>1, <3>1 DEF ContextFields, CurrentRisks, RiskLevels
    <3>3. f \in DOMAIN e.fields
      BY <3>2 DEF Saved
    <3> QED BY <1>1, <2>1, <3>3 DEF Offered
  <2> QED BY <1>2, <2>2, <2>3, StaysNone
<1> QED
  BY <1>3, <1>4

\* The pages that have answers about natural flood management.
LEMMA NfmAnswersAt ==
    ASSUME NEW e, NEW form, NEW p, NEW q, Saved(e, form, p, q), NEW f \in NfmFields,
           f \in DOMAIN form.fields
    PROVE  /\ form.level \in DOMAIN NfmPages /\ NfmAsked(p)
           /\ form.level = "NFM_INCLUSION" <=> f = "naturalFloodRiskMeasuresIncluded"
           /\ form.level = "NFM_INCLUSION" => "NFM" \notin InterventionsIn(p)
           /\ form.level # "NFM_INCLUSION" => NfmIncluded(p)
           /\ form.level \notin {"NFM_INCLUSION", "NFM_SELECTED_MEASURES"} =>
                  p["nfmSelectedMeasures"] # None
<1> DEFINE level == form.level
<1>1. level = e.level /\ Offered(e, p) /\ AsksFor(level, f)
  BY SchemaAsks DEF Saved, FormOK
<1>2. /\ level \in DOMAIN NfmPages
      /\ level = "NFM_INCLUSION" <=> f = "naturalFloodRiskMeasuresIncluded"
  BY <1>1 DEF AsksFor, NfmFields, NfmChoices, NfmPages
<1>3. /\ level = "NFM_INCLUSION" => NfmAsked(p) /\ "NFM" \notin InterventionsIn(p)
      /\ level # "NFM_INCLUSION" => NfmIncluded(p)
  BY <1>1, <1>2 DEF Offered
<1>4. level \notin {"NFM_INCLUSION", "NFM_SELECTED_MEASURES"} => p["nfmSelectedMeasures"] # None
  BY <1>1, <1>2 DEF Offered, NfmPagesAfterSelection
<1> QED
  BY <1>2, <1>3, <1>4 DEF NfmIncluded

LEMMA NfmAsBefore ==
    ASSUME NEW e, NEW form, NEW p, NEW q, Saved(e, form, p, q), form.level # "PROJECT_TYPE"
    PROVE  /\ InterventionsIn(q) = InterventionsIn(p)
           /\ NfmAsked(q) <=> NfmAsked(p)
<1>1. \A f \in TypeFields : q[f] = p[f]
  BY AsBefore
<1>2. DOMAIN p = DOMAIN q
  BY DEF Saved, Answered
<1> QED
  BY <1>1, <1>2 DEF TypeFields, InterventionsIn, Given, NfmAsked

\* What the page of the type does to natural flood management.
LEMMA NfmOfType ==
    ASSUME NEW e, NEW form, NEW p, NEW q, Saved(e, form, p, q), form.level = "PROJECT_TYPE"
    PROVE  \/ NoneOf(q, NfmFields)
           \/ /\ NfmAsked(q)
              /\ \A f \in NfmFields \ {"naturalFloodRiskMeasuresIncluded"} : q[f] = p[f]
              /\ q["naturalFloodRiskMeasuresIncluded"] \in {p["naturalFloodRiskMeasuresIncluded"], None}
              /\ "NFM" \in InterventionsIn(q) => q["naturalFloodRiskMeasuresIncluded"] = None
<1> DEFINE level == form.level
           d == form.fields
           included == "naturalFloodRiskMeasuresIncluded"
<1>1. FormOK(form) /\ Tidy(p) /\ NfmFields \subseteq Fields /\ included \in NfmFields
  BY DEF Saved, Fields, NfmFields
<1>2. \A f \in NfmFields : f \notin DOMAIN d
  <2>1. level \notin DOMAIN NfmPages
    BY DEF NfmPages
  <2> QED BY <2>1, NfmAnswersAt
<1>3. \A f \in NfmFields : q[f] = IF f \in NfmAnswers(level, d, p) THEN None ELSE p[f]
  <2>1. \A f \in NfmFields : f \in Cleared(level, d, p) <=> f \in NfmAnswers(level, d, p)
    BY <1>1, ClearsOn, ClearedIs
  <2> QED BY <1>1, <1>2, <2>1 DEF Saved
<1>4. InterventionsIn(q) = InterventionsIn(d)
  BY TypeWritten
<1>5. CASE InterventionsIn(p) \cap NfmInterventions = {}
  <2>1. NoneOf(p, NfmFields)
    BY <1>1, <1>5 DEF Tidy, NfmAsked
  <2> QED BY <1>3, <2>1 DEF NoneOf
<1>6. CASE NfmLeaves(level, d, p)
  <2>1. NfmAnswers(level, d, p) = NfmFields
    BY <1>6 DEF NfmAnswers
  <2> QED BY <1>3, <2>1 DEF NoneOf
<1>7. CASE InterventionsIn(p) \cap NfmInterventions # {} /\ ~NfmLeaves(level, d, p)
  <2>1. InterventionsIn(q) \cap NfmInterventions # {}
    BY <1>4, <1>7 DEF NfmLeaves
  <2>2. NfmAsked(q)
    <3>1. InterventionsFor(q["projectType"]) # {}
      BY <1>4, <2>1, TypeWritten
    <3>2. q["projectType"] \in MandatoryTypes
      BY <3>1 DEF InterventionsFor, MandatoryTypes
    <3> QED BY <2>1, <3>2 DEF NfmAsked
  <2>3. NfmAnswers(level, d, p) = IF NfmAskedAnew(level, d, p) THEN {included} ELSE {}
    BY <1>7 DEF NfmAnswers, NfmRefused
  <2>4. \A f \in NfmFields \ {included} : q[f] = p[f]
    BY <1>3, <2>3
  <2>5. q[included] \in {p[included], None}
    BY <1>1, <1>3
  <2>6. ASSUME "NFM" \in InterventionsIn(q)
        PROVE  q[included] = None
    <3>1. CASE "NFM" \in InterventionsIn(p)
      BY <1>1, <2>5, <3>1 DEF Tidy, NoneOf
    <3>2. CASE "NFM" \notin InterventionsIn(p)
      <4>1. NfmAskedAnew(level, d, p)
        BY <1>4, <1>7, <2>6, <3>2 DEF NfmAskedAnew
      <4> QED BY <1>1, <1>3, <2>3, <4>1
    <3> QED BY <3>1, <3>2
  <2> QED BY <2>2, <2>4, <2>5, <2>6
<1> QED
  BY <1>5, <1>6, <1>7

LEMMA NfmOnlyIfAsked ==
    ASSUME NEW e, NEW form, NEW p, NEW q, Saved(e, form, p, q)
    PROVE  /\ ~NfmAsked(q) => NoneOf(q, NfmFields)
           /\ "NFM" \in InterventionsIn(q) => NoneOf(q, {"naturalFloodRiskMeasuresIncluded"})
<1> DEFINE included == "naturalFloodRiskMeasuresIncluded"
<1>1. Tidy(p) /\ NfmFields \subseteq Fields /\ included \in NfmFields
  BY DEF Saved, Fields, NfmFields
<1>2. CASE form.level = "PROJECT_TYPE"
  BY <1>1, <1>2, NfmOfType DEF NoneOf
<1>3. CASE form.level # "PROJECT_TYPE"
  <2>1. InterventionsIn(q) = InterventionsIn(p) /\ (NfmAsked(q) <=> NfmAsked(p))
    BY <1>3, NfmAsBefore
  <2>2. ASSUME ~NfmAsked(q)
        PROVE  NoneOf(q, NfmFields)
    <3>1. NoneOf(p, NfmFields) /\ \A f \in NfmFields : f \notin DOMAIN form.fields
      BY <1>1, <2>1, <2>2, NfmAnswersAt DEF Tidy
    <3> QED BY <1>1, <3>1, StaysNone DEF NoneOf
  <2>3. ASSUME "NFM" \in InterventionsIn(q)
        PROVE  q[included] = None
    <3>1. p[included] = None
      BY <1>1, <2>1, <2>3 DEF Tidy, NoneOf
    <3>2. included \notin DOMAIN form.fields
      BY <1>1, <2>1, <2>3, NfmAnswersAt
    <3> QED BY <1>1, <3>1, <3>2, StaysNone
  <2> QED BY <2>2, <2>3 DEF NoneOf
<1> QED
  BY <1>2, <1>3

\* What the pages of natural flood management do.
LEMMA NfmOfPage ==
    ASSUME NEW e, NEW form, NEW p, NEW q, Saved(e, form, p, q), form.level # "PROJECT_TYPE"
    PROVE  \A f \in NfmFields :
               q[f] = IF NfmRefused(form.level, form.fields, p) /\ f # "naturalFloodRiskMeasuresIncluded"
                      THEN None
                      ELSE IF f \in DOMAIN form.fields THEN form.fields[f] ELSE p[f]
<1> DEFINE level == form.level
           d == form.fields
<1>1. FormOK(form) /\ NfmFields \subseteq Fields
  BY DEF Saved, Fields
<1>2. NfmAnswers(level, d, p) = IF NfmRefused(level, d, p)
                                THEN NfmFields \ {"naturalFloodRiskMeasuresIncluded"} ELSE {}
  BY DEF NfmAnswers, NfmLeaves, NfmAskedAnew
<1>3. \A f \in NfmFields : f \in Cleared(level, d, p) <=> f \in NfmAnswers(level, d, p)
  BY <1>1, ClearsOn, ClearedIs
<1> QED
  BY <1>1, <1>2, <1>3 DEF Saved

LEMMA NothingIfRefused ==
    ASSUME NEW e, NEW form, NEW p, NEW q, Saved(e, form, p, q),
           q["naturalFloodRiskMeasuresIncluded"] = FALSE
    PROVE  NoneOf(q, NfmFields \ {"naturalFloodRiskMeasuresIncluded"})
<1> DEFINE level == form.level
           d == form.fields
           included == "naturalFloodRiskMeasuresIncluded"
           others == NfmFields \ {included}
<1>1. /\ Tidy(p) /\ Answered(p) /\ FormOK(form) /\ NfmFields \subseteq Fields
      /\ included \in NfmFields /\ "nfmSelectedMeasures" \in others /\ None # FALSE
  BY NoneAssumption DEF Saved, Fields, NfmFields
<1>2. CASE level = "PROJECT_TYPE"
  <2>1. CASE NoneOf(q, NfmFields)
    BY <2>1 DEF NoneOf
  <2>2. CASE /\ \A f \in others : q[f] = p[f]
             /\ q[included] \in {p[included], None}
    <3>1. p[included] = FALSE
      BY <1>1, <2>2
    <3>2. NoneOf(p, others)
      BY <1>1, <3>1 DEF Tidy
    <3> QED BY <2>2, <3>2 DEF NoneOf
  <2> QED BY <1>2, <2>1, <2>2, NfmOfType
<1>3. CASE level # "PROJECT_TYPE" /\ included \in DOMAIN d
  <2>1. level = "NFM_INCLUSION" /\ NfmSchema(level, d, form.rows)
    BY <1>1, <1>3, NfmAnswersAt DEF FormOK, SchemaAccepts
  <2>2. d[included] = FALSE
    BY <1>1, <1>3, NfmOfPage
  <2>3. CASE NfmRefused(level, d, p)
    BY <1>3, <2>3, NfmOfPage DEF NoneOf
  <2>4. CASE ~NfmRefused(level, d, p)
    <3>1. p["nfmSelectedMeasures"] = None
      BY <2>1, <2>2, <2>4 DEF NfmRefused
    <3>2. NoneOf(p, others)
      BY <1>1, <3>1 DEF Tidy
    <3>3. \A f \in others : f \notin DOMAIN d
      BY <2>1, NfmAnswersAt
    <3> QED BY <1>1, <3>2, <3>3, StaysNone DEF NoneOf
  <2> QED BY <2>3, <2>4
<1>4. CASE level # "PROJECT_TYPE" /\ included \notin DOMAIN d
  <2>1. p[included] = FALSE
    BY <1>1, <1>4, NfmOfPage
  <2>2. NoneOf(p, others)
    BY <1>1, <2>1 DEF Tidy
  <2>3. ~NfmIncluded(p)
    BY <1>1, <2>1 DEF Tidy, NoneOf, NfmIncluded
  <2>4. \A f \in others : f \notin DOMAIN d
    BY <2>3, NfmAnswersAt
  <2> QED BY <1>1, <2>2, <2>4, StaysNone DEF NoneOf
<1> QED
  BY <1>2, <1>3, <1>4

LEMMA NothingBeforeSelection ==
    ASSUME NEW e, NEW form, NEW p, NEW q, Saved(e, form, p, q), q["nfmSelectedMeasures"] = None
    PROVE  NoneOf(q, NfmFields \ {"naturalFloodRiskMeasuresIncluded"})
<1> DEFINE level == form.level
           d == form.fields
           included == "naturalFloodRiskMeasuresIncluded"
           selected == "nfmSelectedMeasures"
           others == NfmFields \ {included}
<1>1. /\ Tidy(p) /\ FormOK(form) /\ NfmFields \subseteq Fields /\ selected \in others
  BY DEF Saved, Fields, NfmFields
<1>2. CASE level = "PROJECT_TYPE"
  <2>1. CASE NoneOf(q, NfmFields)
    BY <2>1 DEF NoneOf
  <2>2. CASE \A f \in others : q[f] = p[f]
    <3>1. NoneOf(p, others)
      BY <1>1, <2>2 DEF Tidy
    <3> QED BY <2>2, <3>1 DEF NoneOf
  <2> QED BY <1>2, <2>1, <2>2, NfmOfType
<1>3. CASE level # "PROJECT_TYPE" /\ NfmRefused(level, d, p)
  BY <1>3, NfmOfPage DEF NoneOf
<1>4. CASE level # "PROJECT_TYPE" /\ ~NfmRefused(level, d, p)
  <2>1. selected \notin DOMAIN d
    <3> SUFFICES ASSUME selected \in DOMAIN d PROVE FALSE
      OBVIOUS
    <3>1. d[selected] = None
      BY <1>1, <1>4, NfmOfPage
    <3>2. Enterable(selected, d[selected])
      BY <1>1 DEF FormOK
    <3>3. selected \in DOMAIN Lists /\ selected \notin TextFigures /\ Lists[selected] = Measures
      BY DEF Lists, TextFigures, CostFields, BenefitFields, CarbonFields
    <3>4. d[selected] \subseteq Measures
      BY <3>2, <3>3 DEF Enterable, Typed
    <3> QED BY <3>1, <3>3, <3>4, NoneAssumption
  <2>2. p[selected] = None
    BY <1>1, <1>4, <2>1, NfmOfPage
  <2>3. NoneOf(p, others)
    BY <1>1, <2>2 DEF Tidy
  <2>4. level # "NFM_SELECTED_MEASURES"
    BY <1>1, <2>1, FormNeeds DEF FormOK, Needs, StageOf
  <2>5. \A f \in others : f \notin DOMAIN d
    BY <2>2, <2>4, NfmAnswersAt
  <2> QED BY <1>1, <2>3, <2>5, StaysNone DEF NoneOf
<1> QED
  BY <1>2, <1>3, <1>4

LEMMA SavedTidy ==
    ASSUME NEW e, NEW form, NEW p, NEW q, Saved(e, form, p, q)
    PROVE  Tidy(q)
BY ConfidenceTidy, FiguresTidy, InterventionsTidy, NfmOnlyIfAsked, NothingIfRefused,
   NothingBeforeSelection, BenefitsTidy, RisksTidy DEF Tidy

-----------------------------------------------------------------------------
(***************************************************************************)
(* The rows that a save leaves.                                            *)
(***************************************************************************)

\* The statements left about a table remove the rows that will not be
\* selected after the save, and add none that is not selected before and
\* after it.
TableFits(todo, op, table, before, after) ==
    /\ \A i \in 1 .. Len(todo) : todo[i].op = op =>
           \A k \in DOMAIN todo[i].rows : todo[i].rows[k] # None => k \in before \cap after
    /\ \A k \in DOMAIN table \ after :
           \E i \in 1 .. Len(todo) : /\ todo[i].op = op
                                     /\ k \in DOMAIN todo[i].rows /\ todo[i].rows[k] = None

LEMMA FitsWithProject ==
    ASSUME NEW form, FormOK(form), NEW p, NEW op \in {"measures", "landUses"},
           NEW table, NEW before, NEW after, TableFits(RowStatements(form, p), op, table, before, after)
    PROVE  TableFits(Statements(form, p), op, table, before, after)
<1>1. PICK r, todo : r = RowStatements(form, p) /\ todo = Statements(form, p)
  OBVIOUS
<1>2. /\ IsTodo(todo) /\ Len(todo) = Len(r) + 2 /\ Len(r) \in 0 .. 2
      /\ \A i \in 1 .. Len(todo) - 2 : todo[i] = r[i]
  <2>1. /\ IsTodo(todo) /\ Len(todo) = Len(r) + 2
        /\ \A i \in 1 .. Len(todo) - 2 : todo[i] = r[i]
    BY <1>1, StatementsTodo
  <2>2. Len(r) \in 0 .. 2
    BY <1>1, RowsFirst
  <2> QED BY <2>1, <2>2
<1>3. PICK n \in 0 .. 2 : n = Len(r) /\ Len(todo) = n + 2
  BY <1>2
<1>4. \A i \in 1 .. n : i \in 1 .. Len(todo) /\ todo[i] = r[i]
  BY <1>2, <1>3
<1>5. \A i \in 1 .. Len(todo) : todo[i].op = op => i \in 1 .. n
  BY <1>2, <1>3 DEF IsTodo
<1> QED
  BY <1>1, <1>3, <1>4, <1>5 DEF TableFits

\* What a save makes of the selections.
LEMMA SelectionsWritten ==
    ASSUME NEW e, NEW form, NEW p, NEW q, Saved(e, form, p, q),
           NEW f \in {"nfmSelectedMeasures", "nfmLandUseChange"}
    PROVE  q[f] = IF NfmLeaves(form.level, form.fields, p) \/ NfmRefused(form.level, form.fields, p)
                  THEN None
                  ELSE IF f \in DOMAIN form.fields THEN form.fields[f] ELSE p[f]
<1> DEFINE level == form.level
           d == form.fields
<1>1. FormOK(form) /\ f \in NfmFields /\ f \in Fields
  BY DEF Saved, Fields, NfmFields
<1>3. f \in NfmAnswers(level, d, p) <=> NfmLeaves(level, d, p) \/ NfmRefused(level, d, p)
  BY <1>1 DEF NfmAnswers
<1>4. f \in Cleared(level, d, p) <=> f \in NfmAnswers(level, d, p)
  BY <1>1, ClearsOn, ClearedIs
<1> QED
  BY <1>1, <1>3, <1>4 DEF Saved

LEMMA SelectionSent ==
    ASSUME NEW form, FormOK(form), NEW f \in {"nfmSelectedMeasures", "nfmLandUseChange"},
           f \in DOMAIN form.fields
    PROVE  /\ form.fields[f] \subseteq Lists[f]
           /\ form.fields[f] # None /\ form.fields[f] # Blank
<1>1. Enterable(f, form.fields[f])
  BY DEF FormOK
<1>2. f \in DOMAIN Lists /\ f \notin TextFigures
  BY DEF Lists, TextFigures, CostFields, BenefitFields, CarbonFields
<1>3. form.fields[f] \subseteq Lists[f]
  BY <1>1, <1>2 DEF Enterable, Typed
<1> QED
  BY <1>2, <1>3, NoneAssumption

LEMMA DeletionAt ==
    ASSUME NEW op, NEW form, NEW unselected, unselected = {k \in DOMAIN form.rows : form.rows[k] = None}
    PROVE  /\ unselected = {} => Deletion(op, form) = << >>
           /\ unselected # {} => Deletion(op, form) = <<[op |-> op, rows |-> Forgotten(unselected)]>>
BY DEF Deletion, Statement

LEMMA DeletionFits ==
    ASSUME NEW op, NEW form, NEW table, NEW before, NEW after,
           \A k \in DOMAIN table \ after : k \in DOMAIN form.rows /\ form.rows[k] = None
    PROVE  TableFits(Deletion(op, form), op, table, before, after)
<1>1. PICK unselected : unselected = {k \in DOMAIN form.rows : form.rows[k] = None}
  OBVIOUS
<1>2. CASE unselected = {}
  <2>1. Deletion(op, form) = << >> /\ Len(<< >>) = 0
    BY <1>1, <1>2, DeletionAt
  <2>2. DOMAIN table \subseteq after
    BY <1>1, <1>2
  <2> QED BY <2>1, <2>2 DEF TableFits
<1>3. CASE unselected # {}
  <2>1. PICK s : s = [op |-> op, rows |-> Forgotten(unselected)]
    OBVIOUS
  <2>2. Deletion(op, form) = <<s>>
    BY <1>1, <1>3, <2>1, DeletionAt
  <2>3. /\ s.op = op /\ DOMAIN s.rows = unselected
        /\ \A k \in unselected : s.rows[k] = None
    BY <2>1 DEF Forgotten
  <2>4. Len(<<s>>) = 1 /\ <<s>>[1] = s
    OBVIOUS
  <2>5. \A k \in DOMAIN table \ after : k \in unselected
    BY <1>1
  <2>6. /\ \A i \in 1 .. 1 : <<s>>[i].op = op =>
               \A k \in DOMAIN <<s>>[i].rows : <<s>>[i].rows[k] # None => k \in before \cap after
        /\ \A k \in DOMAIN table \ after :
               \E i \in 1 .. 1 : /\ <<s>>[i].op = op
                                 /\ k \in DOMAIN <<s>>[i].rows /\ <<s>>[i].rows[k] = None
    BY <2>3, <2>4, <2>5
  <2> QED BY <2>2, <2>4, <2>6 DEF TableFits
<1> QED
  BY <1>2, <1>3

\* Statements of other tables do not matter to one that fits already.
LEMMA NothingToDelete ==
    ASSUME NEW r, NEW op, NEW table, NEW before, NEW after, DOMAIN table \subseteq after,
           \A i \in 1 .. Len(r) : r[i].op = op =>
               \A k \in DOMAIN r[i].rows : r[i].rows[k] # None => k \in before \cap after
    PROVE  TableFits(r, op, table, before, after)
BY DEF TableFits

LEMMA DeleteAllFits ==
    ASSUME NEW table, NEW before
    PROVE  /\ DOMAIN table \subseteq Measures => TableFits(DeleteAll, "measures", table, before, {})
           /\ DOMAIN table \subseteq LandUses => TableFits(DeleteAll, "landUses", table, before, {})
<1>1. PICK a, b : /\ a = Statement("landUses", Forgotten(LandUses))
                  /\ b = Statement("measures", Forgotten(Measures))
  OBVIOUS
<1>2. DeleteAll = <<a, b>>
  BY <1>1 DEF DeleteAll
<1>3. /\ a.op = "landUses" /\ DOMAIN a.rows = LandUses /\ \A k \in LandUses : a.rows[k] = None
      /\ b.op = "measures" /\ DOMAIN b.rows = Measures /\ \A k \in Measures : b.rows[k] = None
  BY <1>1 DEF Statement, Forgotten
<1>4. Len(<<a, b>>) = 2 /\ <<a, b>>[1] = a /\ <<a, b>>[2] = b /\ 1 .. 2 = {1, 2}
  OBVIOUS
<1> QED
  BY <1>2, <1>3, <1>4 DEF TableFits

\* Neither selection is on a page whose statements touch neither table, nor
\* on one of their rows.
LEMMA SelectionKept ==
    ASSUME NEW e, NEW form, NEW p, NEW q, Saved(e, form, p, q),
           NEW f \in {"nfmSelectedMeasures", "nfmLandUseChange"},
           ~NfmLeaves(form.level, form.fields, p), ~NfmRefused(form.level, form.fields, p),
           f = "nfmSelectedMeasures" => form.level # "NFM_SELECTED_MEASURES",
           f = "nfmLandUseChange" => form.level # "NFM_LAND_USE_CHANGE"
    PROVE  Listed(q, f) = Listed(p, f)
<1>1. f \in DOMAIN form.fields => f \in ContextFields(e)
  <2>1. FormOK(form) /\ form.level = e.level
    BY DEF Saved
  <2>2. f \in DOMAIN form.fields => f = "nfmLandUseChange" /\ form.level = "NFM_SELECTED_MEASURES"
    BY <2>1, SchemaAsks DEF FormOK, AsksFor
  <2> QED BY <2>1, <2>2 DEF ContextFields
<1>2. f \in DOMAIN form.fields => form.fields[f] = p[f]
  BY <1>1 DEF Saved
<1> QED
  BY <1>2, SelectionsWritten DEF Listed, HasValue

LEMMA MeasureRowsFit ==
    ASSUME NEW e, NEW form, NEW p, NEW q, Saved(e, form, p, q), NEW m, MeasuresTyped(m),
           DOMAIN m \subseteq Listed(p, "nfmSelectedMeasures")
    PROVE  TableFits(RowStatements(form, p), "measures", m,
                     Listed(p, "nfmSelectedMeasures"), Listed(q, "nfmSelectedMeasures"))
<1> DEFINE level == form.level
           d == form.fields
           f == "nfmSelectedMeasures"
           gone == NfmLeaves(level, d, p) \/ NfmRefused(level, d, p)
<1>1. FormOK(form) /\ level = e.level /\ Offered(e, p)
  BY DEF Saved
<1>2. CASE gone
  <2>1. q[f] = None
    BY <1>2, SelectionsWritten
  <2>2. Listed(q, f) = {} /\ RowStatements(form, p) = DeleteAll
    <3>1. level \in {"PROJECT_TYPE", "NFM_INCLUSION"}
      BY <1>2 DEF NfmLeaves, NfmRefused
    <3> QED BY <1>2, <2>1, <3>1 DEF Listed, HasValue, RowStatements
  <2> QED BY <2>2, DeleteAllFits DEF MeasuresTyped
<1>3. CASE ~gone /\ level = "NFM_SELECTED_MEASURES"
  <2>1. f \in DOMAIN d /\ RowStatements(form, p) = Deletion("measures", form)
    BY <1>1, <1>3, FormNeeds DEF FormOK, Needs, StageOf, RowStatements
  <2>2. Listed(q, f) = d[f]
    BY <1>1, <1>3, <2>1, SelectionsWritten, SelectionSent DEF Listed, HasValue
  <2>3. e.fields[f] = d[f]
    <3>1. f \notin ContextFields(e) /\ f # "carbonValuesHexdigest"
      BY <1>1, <1>3 DEF ContextFields
    <3> QED BY <2>1, <3>1 DEF Saved
  <2>4. \A k \in Measures \ d[f] : k \in DOMAIN form.rows /\ form.rows[k] = None
    <3>1. Unselected(e) = Measures \ d[f]
      BY <1>1, <1>3, <2>3 DEF Unselected
    <3>2. form.rows = Over(e.rows, Forgotten(Measures \ d[f]))
      BY <3>1 DEF Saved
    <3> QED BY <3>2 DEF Over, Forgotten
  <2>5. \A k \in DOMAIN m \ Listed(q, f) : k \in DOMAIN form.rows /\ form.rows[k] = None
    BY <2>2, <2>4 DEF MeasuresTyped
  <2> QED BY <2>1, <2>5, DeletionFits
<1>4. CASE ~gone /\ level # "NFM_SELECTED_MEASURES"
  <2>1. Listed(q, f) = Listed(p, f)
    BY <1>4, SelectionKept
  <2>2. PICK r : r = RowStatements(form, p)
    OBVIOUS
  <2>3. CASE level = "NFM_MEASURE"
    <3>1. PICK s : s = Statement("measures", form.rows)
      OBVIOUS
    <3>2. r = <<s>>
      BY <1>4, <2>2, <2>3, <3>1 DEF RowStatements
    <3>3. DOMAIN form.rows \subseteq Listed(p, f)
      <4>1. Unselected(e) = {}
        BY <1>1, <2>3 DEF Unselected
      <4>2. DOMAIN form.rows = DOMAIN e.rows
        BY <4>1 DEF Saved, Over, Forgotten
      <4> QED BY <1>1, <2>3, <4>2 DEF Offered
    <3>4. Len(r) = 1 /\ r[1] = s /\ s.rows = form.rows
      BY <3>1, <3>2 DEF Statement
    <3> QED BY <2>1, <2>2, <3>3, <3>4, NothingToDelete
  <2>4. CASE level # "NFM_MEASURE"
    <3>1. \A i \in 1 .. Len(r) : r[i].op # "measures"
      <4>1. CASE level \in {"NFM_LAND_USE_CHANGE", "NFM_LAND_USE", "FUNDING_SOURCES_ESTIMATED_SPEND",
                            "CLEAR_STALE_DATA", "FINANCIAL_START_YEAR", "FINANCIAL_END_YEAR"}
        <5>1. \/ r = << >>
              \/ \E s : r = <<s>> /\ s.op # "measures"
          <6>1. CASE level = "NFM_LAND_USE_CHANGE"
            <7>1. r = Deletion("landUses", form)
              BY <1>4, <2>2, <6>1 DEF RowStatements
            <7>2. PICK unselected : unselected = {k \in DOMAIN form.rows : form.rows[k] = None}
              OBVIOUS
            <7>3. PICK s : s = [op |-> "landUses", rows |-> Forgotten(unselected)]
              OBVIOUS
            <7>4. r = << >> \/ r = <<s>>
              BY <7>1, <7>2, <7>3, DeletionAt
            <7>5. s.op # "measures"
              BY <7>3
            <7> QED BY <7>4, <7>5
          <6>2. CASE level = "NFM_LAND_USE"
            BY <1>4, <2>2, <6>2 DEF RowStatements, Statement
          <6>3. CASE level = "FUNDING_SOURCES_ESTIMATED_SPEND"
            BY <1>4, <2>2, <6>3 DEF RowStatements, Statement
          <6>4. CASE level \in {"FINANCIAL_START_YEAR", "FINANCIAL_END_YEAR"}
            <7>1. r = <<Statement("flush", Over([y \in YearFields |-> p[y]], d))>>
              BY <1>4, <2>2, <6>4 DEF RowStatements
            <7> QED BY <7>1 DEF Statement
          <6>5. CASE level = "CLEAR_STALE_DATA"
            BY <1>4, <2>2, <6>5 DEF RowStatements, Statement
          <6> QED BY <4>1, <6>1, <6>2, <6>3, <6>4, <6>5
        <5> QED BY <5>1
      <4>2. CASE level \notin {"NFM_LAND_USE_CHANGE", "NFM_LAND_USE", "FUNDING_SOURCES_ESTIMATED_SPEND",
                               "CLEAR_STALE_DATA", "FINANCIAL_START_YEAR", "FINANCIAL_END_YEAR"}
        <5>1. r = << >>
          BY <1>4, <2>2, <2>4, <4>2 DEF RowStatements
        <5> QED BY <5>1
      <4> QED BY <4>1, <4>2
    <3> QED BY <2>1, <2>2, <3>1, NothingToDelete
  <2> QED BY <2>3, <2>4
<1> QED
  BY <1>2, <1>3, <1>4

LEMMA LandUseRowsFit ==
    ASSUME NEW e, NEW form, NEW p, NEW q, Saved(e, form, p, q), NEW l, LandUsesTyped(l),
           DOMAIN l \subseteq Listed(p, "nfmLandUseChange")
    PROVE  TableFits(RowStatements(form, p), "landUses", l,
                     Listed(p, "nfmLandUseChange"), Listed(q, "nfmLandUseChange"))
<1> DEFINE level == form.level
           d == form.fields
           f == "nfmLandUseChange"
           gone == NfmLeaves(level, d, p) \/ NfmRefused(level, d, p)
<1>1. FormOK(form) /\ level = e.level /\ Offered(e, p)
  BY DEF Saved
<1>2. CASE gone
  <2>1. q[f] = None
    BY <1>2, SelectionsWritten
  <2>2. Listed(q, f) = {} /\ RowStatements(form, p) = DeleteAll
    <3>1. level \in {"PROJECT_TYPE", "NFM_INCLUSION"}
      BY <1>2 DEF NfmLeaves, NfmRefused
    <3> QED BY <1>2, <2>1, <3>1 DEF Listed, HasValue, RowStatements
  <2> QED BY <2>2, DeleteAllFits DEF LandUsesTyped
<1>3. CASE ~gone /\ level = "NFM_LAND_USE_CHANGE"
  <2>1. f \in DOMAIN d /\ RowStatements(form, p) = Deletion("landUses", form)
    BY <1>1, <1>3, FormNeeds DEF FormOK, Needs, StageOf, RowStatements
  <2>2. Listed(q, f) = d[f]
    BY <1>1, <1>3, <2>1, SelectionsWritten, SelectionSent DEF Listed, HasValue
  <2>3. e.fields[f] = d[f]
    <3>1. f \notin ContextFields(e) /\ f # "carbonValuesHexdigest"
      BY <1>1, <1>3 DEF ContextFields
    <3> QED BY <2>1, <3>1 DEF Saved
  <2>4. \A k \in LandUses \ d[f] : k \in DOMAIN form.rows /\ form.rows[k] = None
    <3>1. Unselected(e) = LandUses \ d[f]
      BY <1>1, <1>3, <2>3 DEF Unselected
    <3>2. form.rows = Over(e.rows, Forgotten(LandUses \ d[f]))
      BY <3>1 DEF Saved
    <3> QED BY <3>2 DEF Over, Forgotten
  <2>5. \A k \in DOMAIN l \ Listed(q, f) : k \in DOMAIN form.rows /\ form.rows[k] = None
    BY <2>2, <2>4 DEF LandUsesTyped
  <2> QED BY <2>1, <2>5, DeletionFits
<1>4. CASE ~gone /\ level # "NFM_LAND_USE_CHANGE"
  <2>1. Listed(q, f) = Listed(p, f)
    BY <1>4, SelectionKept
  <2>2. PICK r : r = RowStatements(form, p)
    OBVIOUS
  <2>3. CASE level = "NFM_LAND_USE"
    <3>1. PICK s : s = Statement("landUses", form.rows)
      OBVIOUS
    <3>2. r = <<s>>
      BY <1>4, <2>2, <2>3, <3>1 DEF RowStatements
    <3>3. DOMAIN form.rows \subseteq Listed(p, f)
      <4>1. Unselected(e) = {}
        BY <1>1, <2>3 DEF Unselected
      <4>2. DOMAIN form.rows = DOMAIN e.rows
        BY <4>1 DEF Saved, Over, Forgotten
      <4> QED BY <1>1, <2>3, <4>2 DEF Offered
    <3>4. Len(r) = 1 /\ r[1] = s /\ s.rows = form.rows
      BY <3>1, <3>2 DEF Statement
    <3> QED BY <2>1, <2>2, <3>3, <3>4, NothingToDelete
  <2>4. CASE level # "NFM_LAND_USE"
    <3>1. \A i \in 1 .. Len(r) : r[i].op # "landUses"
      <4>1. CASE level \in {"NFM_SELECTED_MEASURES", "NFM_MEASURE", "FUNDING_SOURCES_ESTIMATED_SPEND",
                            "CLEAR_STALE_DATA", "FINANCIAL_START_YEAR", "FINANCIAL_END_YEAR"}
        <5>1. \/ r = << >>
              \/ \E s : r = <<s>> /\ s.op # "landUses"
          <6>1. CASE level = "NFM_SELECTED_MEASURES"
            <7>1. r = Deletion("measures", form)
              BY <1>4, <2>2, <6>1 DEF RowStatements
            <7>2. PICK unselected : unselected = {k \in DOMAIN form.rows : form.rows[k] = None}
              OBVIOUS
            <7>3. PICK s : s = [op |-> "measures", rows |-> Forgotten(unselected)]
              OBVIOUS
            <7>4. r = << >> \/ r = <<s>>
              BY <7>1, <7>2, <7>3, DeletionAt
            <7>5. s.op # "landUses"
              BY <7>3
            <7> QED BY <7>4, <7>5
          <6>2. CASE level = "NFM_MEASURE"
            BY <1>4, <2>2, <6>2 DEF RowStatements, Statement
          <6>3. CASE level = "FUNDING_SOURCES_ESTIMATED_SPEND"
            BY <1>4, <2>2, <6>3 DEF RowStatements, Statement
          <6>4. CASE level \in {"FINANCIAL_START_YEAR", "FINANCIAL_END_YEAR"}
            <7>1. r = <<Statement("flush", Over([y \in YearFields |-> p[y]], d))>>
              BY <1>4, <2>2, <6>4 DEF RowStatements
            <7> QED BY <7>1 DEF Statement
          <6>5. CASE level = "CLEAR_STALE_DATA"
            BY <1>4, <2>2, <6>5 DEF RowStatements, Statement
          <6> QED BY <4>1, <6>1, <6>2, <6>3, <6>4, <6>5
        <5> QED BY <5>1
      <4>2. CASE level \notin {"NFM_SELECTED_MEASURES", "NFM_MEASURE", "FUNDING_SOURCES_ESTIMATED_SPEND",
                               "CLEAR_STALE_DATA", "FINANCIAL_START_YEAR", "FINANCIAL_END_YEAR"}
        <5>1. r = << >>
          BY <1>4, <2>2, <2>4, <4>2 DEF RowStatements
        <5> QED BY <5>1
      <4> QED BY <4>1, <4>2
    <3> QED BY <2>1, <2>2, <3>1, NothingToDelete
  <2> QED BY <2>3, <2>4
<1> QED
  BY <1>2, <1>3, <1>4

-----------------------------------------------------------------------------
(***************************************************************************)
(* The dates that a save leaves.                                           *)
(***************************************************************************)

LEMMA TimelinePage ==
    ASSUME NEW level \in DOMAIN Pages, level \in {"EARLIEST_WITH_GIA"} \cup DOMAIN StageOf
    PROVE  Pages[level] = TimelinePages[level]
<1>1. level \notin UNION {DOMAIN InitialPages, DOMAIN RiskPages, DOMAIN GoalPages,
                          DOMAIN ConfidencePages, DOMAIN BenefitPages, DOMAIN NfmPages,
                          DOMAIN CostPages, DOMAIN BenefitsPages, DOMAIN CarbonPages, DOMAIN StalePages,
                          DOMAIN SpendPage}
  BY DEF StageOf, InitialPages, RiskPages, GoalPages, ConfidencePages, BenefitPages, NfmPages,
         CostPages, BenefitsPages, CarbonPages, StalePages, SpendPage
<1> QED
  BY <1>1, GroupOfPage

\* A page that sends a date has it for its own, or shows it only, or clears it.
LEMMA StageOnPage ==
    ASSUME NEW form, FormOK(form), NEW e, form.level = e.level,
           NEW stage \in Stages, stage \in DOMAIN form.fields, form.fields[stage] # None
    PROVE  \/ form.level \in DOMAIN StageOf /\ stage = StageOf[form.level]
           \/ stage \in ContextFields(e)
<1> DEFINE level == form.level
<1>1. level \in {"EARLIEST_WITH_GIA"} \cup DOMAIN StageOf /\ level \in DOMAIN Pages
  <2>1. level \in {"EARLIEST_WITH_GIA", "CLEAR_STALE_DATA"} \cup DOMAIN StageOf
    BY SchemaAsks DEF AsksFor, FormOK
  <2>2. level # "CLEAR_STALE_DATA"
    BY DEF FormOK, ClearsDates
  <2> QED BY <2>1, <2>2 DEF FormOK, SchemaAccepts
<1>2. stage \in TimelinePages[level].needs \cup TimelinePages[level].may
  BY <1>1, TimelinePage DEF FormOK, SchemaAccepts
<1> HIDE DEF level
<1>3. \/ level \in DOMAIN StageOf /\ stage = StageOf[level]
      \/ level = "COMPLETE_OUTLINE_BUSINESS_CASE" /\ stage = "startOutlineBusinessCase"
      \/ level = "AWARD_CONTRACT" /\ stage = "completeOutlineBusinessCase"
      \/ level = "START_CONSTRUCTION" /\ stage = "awardContract"
      \/ level = "READY_FOR_SERVICE" /\ stage \in {"startConstruction", "startOutlineBusinessCase"}
      \/ level = "EARLIEST_WITH_GIA" /\ stage = "startOutlineBusinessCase"
  BY <1>1, <1>2 DEF TimelinePages, Page, StageOf, Stages, YearFields
<1> QED
  BY <1>3 DEF ContextFields, level

LEMMA DatesTyped ==
    ASSUME NEW form, FormOK(form), NEW f \in Stages \cup {"earliestWithGia"}, f \in DOMAIN form.fields
    PROVE  form.fields[f] \in Nat \cup {None}
<1>1. f \in Figures /\ f \notin TextFigures /\ f \in Fields
  BY QuantityNames DEF Figures, Stages, Fields, Flags, ChoicesOf, Over, ConfidenceFields, RiskLevels,
     NfmChoices,
     Lists, Texts, Gates, Quantity, TextFigures, CostFields, BenefitFields, CarbonFields
<1>2. Enterable(f, form.fields[f])
  BY DEF FormOK
<1> QED
  BY <1>1, <1>2 DEF Enterable, Typed

LEMMA StageChanged ==
    ASSUME NEW e, NEW form, NEW p, NEW q, Saved(e, form, p, q), NEW stage \in Stages,
           q[stage] \notin {p[stage], None}
    PROVE  /\ form.level \in DOMAIN StageOf /\ stage = StageOf[form.level]
           /\ stage \in DOMAIN form.fields /\ q[stage] = form.fields[stage] /\ q[stage] \in Nat
<1> DEFINE d == form.fields
<1>1. FormOK(form) /\ SchemaAccepts(form) /\ form.level = e.level
  BY DEF Saved, FormOK
<1>2. stage \in Fields /\ stage # "carbonValuesHexdigest" /\ stage \notin Cleared(form.level, d, p)
  BY <1>1, ClearsOn DEF Fields, Stages
<1>3. stage \in DOMAIN d /\ q[stage] = d[stage] /\ stage \notin ContextFields(e)
  BY <1>2 DEF Saved
<1> QED
  BY <1>1, <1>3, StageOnPage, DatesTyped

\* The answers that a page shows are not changed by it.
LEMMA ContextKept ==
    ASSUME NEW e, NEW form, NEW p, NEW q, Saved(e, form, p, q), NEW f \in Stages \cap ContextFields(e)
    PROVE  q[f] = p[f] /\ (p[f] # None => f \in DOMAIN form.fields /\ form.fields[f] = p[f])
<1>1. FormOK(form) /\ f \in Fields /\ f # "carbonValuesHexdigest"
  BY DEF Saved, Fields, Stages
<1>2. f \notin Cleared(form.level, form.fields, p)
  BY <1>1, ClearsOn
<1> QED
  BY <1>1, <1>2 DEF Saved

LEMMA StageInYears ==
    ASSUME NEW e, NEW form, NEW p, NEW q, Saved(e, form, p, q), Accepted(form, p),
           NEW stage \in Stages, q[stage] \notin {p[stage], None}, AllGiven(q, YearFields)
    PROVE  q[stage] \in FirstMonth(q["financialStartYear"]) .. LastMonth(q["financialEndYear"])
<1>1. /\ form.level \in DOMAIN StageOf /\ stage = StageOf[form.level]
      /\ q[stage] = form.fields[stage] /\ q[stage] \in Nat
  BY StageChanged
<1>2. \A f \in YearFields : q[f] = p[f]
  BY <1>1, AsBefore DEF StageOf
<1>3. \A f \in YearFields : p[f] # None /\ p[f] \in Nat
  <2>1. \A f \in YearFields : f \in Fields /\ f \in Figures
    BY QuantityNames DEF Figures, YearFields, Fields, Flags, ChoicesOf, Over, ConfidenceFields, RiskLevels,
       NfmChoices, Lists, Texts, Gates, Quantity
  <2> QED BY <1>2, <2>1 DEF Saved, Answered, Typed, AllGiven, HasValue
<1>4. /\ q[stage] <= LastMonth(p["financialEndYear"])
      /\ q[stage] >= FirstMonth(p["financialStartYear"])
  BY <1>1, <1>3 DEF Accepted, InTimelineBoundaries, YearFields
<1>5. p["financialStartYear"] \in Nat /\ p["financialEndYear"] \in Nat
  BY <1>3 DEF YearFields
<1> QED
  BY <1>1, <1>2, <1>4, <1>5 DEF YearFields, FirstMonth, LastMonth

\* The stage before one, of the dates that are asked.
StageBefore(stage, simplified) ==
    CASE stage = "completeOutlineBusinessCase" -> "startOutlineBusinessCase"
      [] stage = "awardContract" -> "completeOutlineBusinessCase"
      [] stage = "startConstruction" -> "awardContract"
      [] stage = "readyForService" -> IF simplified THEN "startOutlineBusinessCase" ELSE "startConstruction"
      [] OTHER -> None

LEMMA StagesInTurn ==
    ASSUME NEW q, NEW i \in 1 .. Len(DatesOf(q))
    PROVE  /\ DatesOf(q)[i] \in Stages
           /\ i > 1 => /\ DatesOf(q)[i - 1] \in Stages /\ DatesOf(q)[i] # "startOutlineBusinessCase"
                       /\ DatesOf(q)[i - 1] = StageBefore(DatesOf(q)[i], q["projectType"] \in SimplifiedTypes)
<1>1. CASE q["projectType"] \in SimplifiedTypes
  <2>1. DatesOf(q) = <<"startOutlineBusinessCase", "readyForService">> /\ i \in 1 .. 2
    BY <1>1 DEF DatesOf
  <2>2. i = 1 \/ i = 2
    BY <2>1
  <2> QED BY <1>1, <2>1, <2>2 DEF Stages, StageBefore
<1>2. CASE q["projectType"] \notin SimplifiedTypes
  <2>1. /\ DatesOf(q) = <<"startOutlineBusinessCase", "completeOutlineBusinessCase", "awardContract",
                          "startConstruction", "readyForService">>
        /\ i \in 1 .. 5
    BY <1>2 DEF DatesOf
  <2>2. i = 1 \/ i = 2 \/ i = 3 \/ i = 4 \/ i = 5
    BY <2>1
  <2> QED BY <1>2, <2>1, <2>2 DEF Stages, StageBefore
<1> QED
  BY <1>1, <1>2

LEMMA StageAfterPrevious ==
    ASSUME NEW e, NEW form, NEW p, NEW q, Saved(e, form, p, q), NEW stage \in Stages,
           q[stage] \notin {p[stage], None}, stage # "startOutlineBusinessCase",
           NEW before \in Stages, before = StageBefore(stage, q["projectType"] \in SimplifiedTypes),
           q[before] # None
    PROVE  q[before] < q[stage]
<1> DEFINE level == form.level
           d == form.fields
<1>1. /\ level \in DOMAIN StageOf /\ stage = StageOf[level] /\ level = e.level
      /\ stage \in DOMAIN d /\ q[stage] = d[stage] /\ q[stage] \in Nat /\ FormOK(form)
  BY StageChanged DEF Saved
<1>2. StageSchema(level, d)
  BY <1>1 DEF FormOK, SchemaAccepts
<1>3. AfterPrevious(stage, d)
  BY <1>1, <1>2 DEF StageSchema, StageOf
<1>4. before \in ContextFields(e)
  BY <1>1 DEF StageBefore, StageOf, ContextFields
<1>5. q[before] = p[before] /\ before \in DOMAIN d /\ d[before] = q[before]
  BY <1>4, ContextKept
<1>6. Previous(stage, d) = before
  <2>1. CASE stage # "readyForService"
    BY <1>1, <2>1 DEF Previous, StageBefore, StageOf
  <2>2. CASE stage = "readyForService"
    <3>1. level = "READY_FOR_SERVICE"
      BY <1>1, <2>2 DEF StageOf
    <3>2. "projectType" \in ContextFields(e) /\ q["projectType"] = p["projectType"]
      BY <1>1, <3>1, AsBefore DEF ContextFields, TypeFields
    <3>3. "projectType" \in DOMAIN d => d["projectType"] = p["projectType"]
      BY <3>2 DEF Saved
    <3>4. p["projectType"] # None => "projectType" \in DOMAIN d
      BY <3>2 DEF Saved
    <3>5. None \notin SimplifiedTypes
      BY NoneAssumption DEF ChoicesOf, Over, Types, SimplifiedTypes
    <3>6. "projectType" \in DOMAIN d /\ d["projectType"] \in SimplifiedTypes <=>
              q["projectType"] \in SimplifiedTypes
      BY <3>2, <3>3, <3>4, <3>5
    <3> QED BY <2>2, <3>6 DEF Previous, StageBefore
  <2> QED BY <2>1, <2>2
<1>7. before # None
  BY NoneAssumption DEF Stages, Fields
<1>8. d[stage] > d[before] /\ d[before] \in Nat
  BY <1>1, <1>3, <1>5, <1>6, <1>7, DatesTyped DEF AfterPrevious, Given
<1> QED
  BY <1>1, <1>5, <1>8

LEMMA GiaFits ==
    ASSUME NEW e, NEW form, NEW p, NEW q, Saved(e, form, p, q),
           q["earliestWithGia"] \notin {p["earliestWithGia"], None}
    PROVE  GiaInRange(q)
<1> DEFINE level == form.level
           d == form.fields
           gia == "earliestWithGia"
           start == "startOutlineBusinessCase"
<1>1. FormOK(form) /\ level = e.level /\ gia \in Fields
  BY DEF Saved, Fields
<1>2. gia \in DOMAIN d /\ q[gia] = d[gia]
  BY <1>1 DEF Saved
<1>3. level = "EARLIEST_WITH_GIA" /\ GiaSchema(d)
  <2>1. level \in {"EARLIEST_WITH_GIA", "CLEAR_STALE_DATA"}
    BY <1>1, <1>2, SchemaAsks DEF FormOK, AsksFor
  <2>2. level # "CLEAR_STALE_DATA"
    BY <1>1, <1>2 DEF FormOK, ClearsDates
  <2> QED BY <1>1, <2>1, <2>2 DEF FormOK, SchemaAccepts
<1>4. start \in DOMAIN d
  BY <1>1, <1>3, FormNeeds DEF FormOK, Needs, StageOf
<1>5. start \in ContextFields(e) /\ start \in Stages
  BY <1>1, <1>3 DEF ContextFields, Stages
<1>6. d[start] = q[start] /\ d[start] # None
  <2>1. p[start] # None /\ d[start] = p[start]
    BY <1>4, <1>5 DEF Saved
  <2> QED BY <1>5, <2>1, ContextKept
<1>7. d[gia] \in Nat /\ d[start] \in Nat
  BY <1>1, <1>2, <1>4, <1>5, <1>6, DatesTyped
<1>8. d[gia] < d[start] /\ d[gia] >= FirstMonth(CurrentYear)
  BY <1>2, <1>3 DEF GiaSchema
<1>9. FirstMonth(CurrentYear) \in Int
  BY BoundsAssumption DEF FirstMonth
<1> QED
  BY <1>2, <1>6, <1>7, <1>8, <1>9 DEF GiaInRange

LEMMA SavedDatesFit ==
    ASSUME NEW e, NEW form, NEW p, NEW q, Saved(e, form, p, q), Accepted(form, p)
    PROVE  DatesFit(p, q)
<1>1. PICK dates : dates = DatesOf(q)
  OBVIOUS
<1>2. ASSUME NEW i \in 1 .. Len(dates), q[dates[i]] \notin {p[dates[i]], None}
      PROVE  /\ AllGiven(q, YearFields) =>
                    q[dates[i]] \in FirstMonth(q["financialStartYear"]) .. LastMonth(q["financialEndYear"])
             /\ i > 1 /\ q[dates[i - 1]] # None => q[dates[i - 1]] < q[dates[i]]
  <2>1. dates[i] \in Stages
    BY <1>1, StagesInTurn
  <2>2. AllGiven(q, YearFields) =>
            q[dates[i]] \in FirstMonth(q["financialStartYear"]) .. LastMonth(q["financialEndYear"])
    BY <1>2, <2>1, StageInYears
  <2>3. ASSUME i > 1, q[dates[i - 1]] # None
        PROVE  q[dates[i - 1]] < q[dates[i]]
    <3>1. /\ dates[i - 1] \in Stages /\ dates[i] # "startOutlineBusinessCase"
          /\ dates[i - 1] = StageBefore(dates[i], q["projectType"] \in SimplifiedTypes)
      BY <1>1, <2>3, StagesInTurn
    <3> QED BY <1>2, <2>1, <2>3, <3>1, StageAfterPrevious
  <2> QED BY <2>2, <2>3
<1> QED
  BY <1>1, <1>2, GiaFits DEF DatesFit

-----------------------------------------------------------------------------
(***************************************************************************)
(* One save after the other.                                               *)
(***************************************************************************)

\* What is left of a save will leave nothing over.
SaveFits(todo, p, m, l) ==
    LET q == Over(p, todo[Len(todo) - 1].rows)
    IN  /\ Tidy(q) /\ DatesFit(p, q)
        /\ TableFits(todo, "measures", m, Listed(p, "nfmSelectedMeasures"), Listed(q, "nfmSelectedMeasures"))
        /\ TableFits(todo, "landUses", l, Listed(p, "nfmLandUseChange"), Listed(q, "nfmLandUseChange"))

\* What a request that is alone knows of the proposal.
WorkFits(r, p, m, l, mo) ==
    /\ r.phase = "loaded" => r.read = p /\ Current(r.form, p)
    /\ r.phase = "writing" /\ Len(r.todo) # 1 => SaveFits(r.todo, p, m, l)
    /\ r.phase = "submitting" => Submittable(p, m, l, mo)

SerialInv ==
    serial =>
        /\ Tidy(proposal) /\ RowsTidy(proposal, measures, landUses)
        /\ \A u \in Users : Working(u) =>
               Alone(u) /\ WorkFits(user[u], proposal, measures, landUses, money)

LEMMA ValidatedFits ==
    ASSUME NEW form, FormOK(form), NEW p, Answered(p), Tidy(p), Current(form, p), Accepted(form, p),
           NEW m, MeasuresTyped(m), NEW l, LandUsesTyped(l), RowsTidy(p, m, l)
    PROVE  SaveFits(Statements(form, p), p, m, l)
<1>1. PICK todo, q : todo = Statements(form, p) /\ q = Over(p, Normalized(form.level, form.fields, p))
  OBVIOUS
<1>2. todo[Len(todo) - 1].rows = Normalized(form.level, form.fields, p)
  <2>1. todo[Len(todo) - 1] = Written(form, p)
    BY <1>1, StatementsTodo
  <2> QED BY <2>1 DEF Written, Statement
<1>3. PICK e : Saved(e, form, p, q)
  BY <1>1, CurrentIsSaved
<1>4. Tidy(q) /\ DatesFit(p, q)
  BY <1>3, SavedTidy, SavedDatesFit
<1>5. TableFits(todo, "measures", m, Listed(p, "nfmSelectedMeasures"), Listed(q, "nfmSelectedMeasures"))
  BY <1>1, <1>3, MeasureRowsFit, FitsWithProject DEF RowsTidy
<1>6. TableFits(todo, "landUses", l, Listed(p, "nfmLandUseChange"), Listed(q, "nfmLandUseChange"))
  BY <1>1, <1>3, LandUseRowsFit, FitsWithProject DEF RowsTidy
<1> QED
  BY <1>1, <1>2, <1>4, <1>5, <1>6 DEF SaveFits

LEMMA ChangedRows ==
    ASSUME NEW table, NEW rows
    PROVE  DOMAIN Changed(table, rows) =
               (DOMAIN table \ {k \in DOMAIN rows : rows[k] = None})
                   \cup {k \in DOMAIN rows : rows[k] # None}
BY DEF Changed

\* The first statement is done: the others still fit.
LEMMA RestFits ==
    ASSUME NEW todo, IsTodo(todo), Len(todo) # 1, NEW op, NEW table, NEW before, NEW after,
           TableFits(todo, op, table, before, after), DOMAIN table \subseteq before,
           NEW changed, DOMAIN changed = IF todo[1].op = op THEN DOMAIN Changed(table, todo[1].rows)
                                         ELSE DOMAIN table
    PROVE  TableFits(Tail(todo), op, changed, before, after) /\ DOMAIN changed \subseteq before
<1>0. PICK rest, rows : rest = Tail(todo) /\ rows = todo[1].rows
  OBVIOUS
<1>1. PICK n \in 1 .. 3 : n = Len(rest) /\ Len(todo) = n + 1
  <2>1. Len(todo) \in 1 .. 4 /\ Len(rest) = Len(todo) - 1
    BY <1>0, TailOfTodo DEF IsTodo
  <2> QED BY <2>1
<1>2. \A i \in 1 .. n : rest[i] = todo[i + 1]
  BY <1>0, <1>1, TailOfTodo
<1>3. ASSUME NEW i \in 1 .. n, rest[i].op = op, NEW k \in DOMAIN rest[i].rows, rest[i].rows[k] # None
      PROVE  k \in before \cap after
  <2>1. i + 1 \in 1 .. Len(todo) /\ rest[i] = todo[i + 1]
    BY <1>1, <1>2
  <2> QED BY <1>3, <2>1 DEF TableFits
<1>4. 1 \in 1 .. Len(todo)
  BY <1>1
<1>8. DOMAIN changed = IF todo[1].op = op
                        THEN (DOMAIN table \ {k \in DOMAIN rows : rows[k] = None})
                                 \cup {k \in DOMAIN rows : rows[k] # None}
                        ELSE DOMAIN table
  <2>1. DOMAIN Changed(table, rows) = (DOMAIN table \ {k \in DOMAIN rows : rows[k] = None})
                                          \cup {k \in DOMAIN rows : rows[k] # None}
    BY ChangedRows
  <2> QED BY <1>0, <2>1
<1>5. \A k \in DOMAIN changed \ DOMAIN table : k \in before \cap after
  BY <1>0, <1>4, <1>8 DEF TableFits
<1>6. ASSUME NEW k \in DOMAIN changed \ after
      PROVE  \E i \in 1 .. n : rest[i].op = op /\ k \in DOMAIN rest[i].rows /\ rest[i].rows[k] = None
  <2>1. k \in DOMAIN table \ after
    BY <1>5, <1>6
  <2>2. PICK i \in 1 .. Len(todo) : todo[i].op = op /\ k \in DOMAIN todo[i].rows /\ todo[i].rows[k] = None
    BY <2>1 DEF TableFits
  <2>3. i # 1
    BY <1>0, <1>6, <1>8, <2>2
  <2>4. PICK j \in 1 .. n : i = j + 1
    BY <1>1, <2>3
  <2> QED BY <1>2, <2>2, <2>4
<1>7. TableFits(rest, op, changed, before, after)
  BY <1>1, <1>3, <1>6 DEF TableFits
<1> QED
  BY <1>0, <1>5, <1>7

LEMMA SerialInit ==
    ASSUME Init
    PROVE  SerialInv
<1>1. PICK s \in Starts : proposal = s.fields /\ measures = s.measures /\ landUses = s.landUses
  BY DEF Init
<1>2. \A u \in Users : ~Working(u)
  BY DEF Init, Working, Away
<1> QED
  BY <1>1, <1>2, StartsAssumption DEF SerialInv

\* Only u works, after its step.
LEMMA OneWorks ==
    ASSUME NEW u \in Users, serial' => Alone(u), \A v \in Users \ {u} : user'[v] = user[v],
           serial' => Tidy(proposal') /\ RowsTidy(proposal', measures', landUses'),
           serial' /\ Working(u)' => WorkFits(user'[u], proposal', measures', landUses', money')
    PROVE  SerialInv'
<1>1. serial' => \A v \in Users \ {u} : ~Working(v)'
  BY DEF Alone, Working
<1> QED
  BY <1>1 DEF SerialInv, Alone

\* u does not work, after its step.
LEMMA OthersWork ==
    ASSUME SerialInv, NEW u \in Users, serial' => serial, \A v \in Users \ {u} : user'[v] = user[v],
           ~Working(u)', UNCHANGED <<proposal, measures, landUses, money>>
    PROVE  SerialInv'
<1>1. \A v \in Users \ {u} : Working(v)' <=> Working(v)
  BY DEF Working
<1>2. ASSUME NEW v \in Users, Working(v)', serial'
      PROVE  Alone(v)' /\ WorkFits(user[v], proposal, measures, landUses, money)' 
  <2>1. v # u /\ Working(v) /\ serial
    BY <1>1, <1>2
  <2>2. Alone(v) /\ WorkFits(user[v], proposal, measures, landUses, money) /\ user'[v] = user[v]
    BY <2>1 DEF SerialInv
  <2>3. Alone(v)'
    BY <1>1, <2>2 DEF Alone
  <2> QED BY <2>2, <2>3 DEF WorkFits
<1> QED
  BY <1>2 DEF SerialInv

LEMMA OpenSerial ==
    ASSUME EditingInv, SerialInv, NEW u \in Users, Open(u)
    PROVE  SerialInv'
<1>1. PICK q : q = [Away EXCEPT !.phase = "viewing", !.view = View]
  OBVIOUS
<1>2. user' = [user EXCEPT ![u] = q] /\ q.phase = "viewing"
  BY <1>1 DEF Open, Away
<1>3. ~Working(u)' /\ \A v \in Users \ {u} : user'[v] = user[v]
  BY <1>2 DEF EditingInv, Working
<1>4. UNCHANGED <<proposal, measures, landUses, money, serial>>
  BY DEF Open
<1> QED
  BY <1>3, <1>4, OthersWork

LEMMA LoadSerial ==
    ASSUME EditingInv, SerialInv, NEW u \in Users, NEW i \in Instances, NEW e \in Entries, Load(u, i, e)
    PROVE  SerialInv'
<1> DEFINE form == Form(e, user[u].view)
           read == IF cache[i] # None THEN cache[i] ELSE proposal
<1>1. PICK f, q : /\ f = [form EXCEPT !.fields = Strip(form.level, form.fields)]
                  /\ q = [phase |-> "loaded", view |-> None, at |-> i, read |-> read,
                          todo |-> << >>, form |-> f]
  OBVIOUS
<1>2. /\ user[u].phase = "viewing" /\ Offered(e, user[u].view.fields) /\ SchemaAccepts(f)
      /\ DOMAIN user' = Users /\ \A v \in Users : user'[v] = IF v = u THEN q ELSE user[v]
      /\ serial' => serial /\ Alone(u) /\ read = proposal /\ user[u].view = View
  BY <1>1 DEF Load, EditingInv
<1>3. UNCHANGED <<proposal, measures, landUses, money>>
  BY DEF Load
<1>4. Answered(user[u].view.fields)
  BY <1>2 DEF EditingInv, Doing
<1>5. f = form
  BY <1>1, <1>2, <1>4, LoadedForm
<1>6. View.fields = proposal
  BY DEF View
<1> HIDE DEF read
<1>7. ASSUME serial'
      PROVE  WorkFits(q, proposal, measures, landUses, money)
  <2>1. Current(f, proposal)
    BY <1>2, <1>5, <1>6, <1>7 DEF Current
  <2>2. q.phase = "loaded" /\ q.read = proposal /\ q.form = f
    BY <1>1, <1>2, <1>7
  <2> QED BY <2>1, <2>2 DEF WorkFits
<1> QED
  BY <1>2, <1>3, <1>7, OneWorks DEF SerialInv

LEMMA ValidateSerial ==
    ASSUME EditingInv, SerialInv, NEW u \in Users, Validate(u)
    PROVE  SerialInv'
<1>1. PICK q, todo : q = user[u] /\ todo = Statements(q.form, q.read)
  OBVIOUS
<1>2. q.phase = "loaded" /\ Answered(q.read) /\ FormOK(q.form) /\ Working(u)
  BY <1>1 DEF Validate, EditingInv, Doing, Working
<1>3. PICK r : r = IF Accepted(q.form, q.read)
                   THEN [Away EXCEPT !.phase = "writing", !.at = q.at, !.todo = todo]
                   ELSE Away
  OBVIOUS
<1>4. /\ \A v \in Users : user'[v] = IF v = u THEN r ELSE user[v]
      /\ UNCHANGED <<proposal, measures, landUses, money, serial>>
  BY <1>1, <1>3 DEF Validate, EditingInv
<1>5. ASSUME serial
      PROVE  /\ Alone(u) /\ Tidy(proposal) /\ RowsTidy(proposal, measures, landUses)
             /\ q.read = proposal /\ Current(q.form, proposal)
  BY <1>1, <1>2, <1>5 DEF SerialInv, WorkFits
<1>6. ASSUME serial
      PROVE  WorkFits(r, proposal, measures, landUses, money)
  <2>1. CASE Accepted(q.form, q.read)
    <3>1. SaveFits(todo, proposal, measures, landUses)
      BY <1>1, <1>2, <1>5, <1>6, <2>1, ValidatedFits DEF EditingInv, TypeOK
    <3>2. r.phase = "writing" /\ r.todo = todo
      BY <1>3, <2>1 DEF Away
    <3> QED BY <3>1, <3>2 DEF WorkFits
  <2>2. CASE ~Accepted(q.form, q.read)
    BY <1>3, <2>2 DEF WorkFits, Away
  <2> QED BY <2>1, <2>2
<1> QED
  BY <1>4, <1>5, <1>6, OneWorks

\* The statements that a save takes its steps with.
LEMMA DueFits ==
    ASSUME EditingInv, SerialInv, serial, NEW u \in Users, NEW op, Due(u, op), op # "cache"
    PROVE  /\ Alone(u) /\ Tidy(proposal) /\ RowsTidy(proposal, measures, landUses)
           /\ IsTodo(user[u].todo) /\ Len(user[u].todo) # 1 /\ user[u].todo[1].op = op
           /\ SaveFits(user[u].todo, proposal, measures, landUses)
<1>1. /\ user[u].phase = "writing" /\ IsTodo(user[u].todo) /\ user[u].todo[1].op = op
  BY DueStatement
<1>2. Len(user[u].todo) # 1
  <2>1. PICK todo : todo = user[u].todo
    OBVIOUS
  <2>2. 1 \in 1 .. Len(todo)
    BY <1>1, <2>1 DEF IsTodo
  <2>3. todo[1].op = "cache" <=> 1 = Len(todo)
    BY <1>1, <2>1, <2>2 DEF IsTodo
  <2> QED BY <1>1, <2>1, <2>3
<1>3. Working(u)
  BY <1>1 DEF Working
<1> QED
  BY <1>1, <1>2, <1>3 DEF SerialInv, WorkFits

\* After a statement about rows, the rest of the save still fits.
LEMMA RowStepFits ==
    ASSUME NEW todo, IsTodo(todo), Len(todo) # 1, todo[1].op \notin {"project", "cache"},
           NEW p, NEW m, NEW l, RowsTidy(p, m, l), SaveFits(todo, p, m, l),
           NEW m2, DOMAIN m2 = IF todo[1].op = "measures" THEN DOMAIN Changed(m, todo[1].rows) ELSE DOMAIN m,
           NEW l2, DOMAIN l2 = IF todo[1].op = "landUses" THEN DOMAIN Changed(l, todo[1].rows) ELSE DOMAIN l
    PROVE  RowsTidy(p, m2, l2) /\ SaveFits(Tail(todo), p, m2, l2)
<1>1. PICK q : q = Over(p, todo[Len(todo) - 1].rows)
  OBVIOUS
<1>2. /\ TableFits(todo, "measures", m, Listed(p, "nfmSelectedMeasures"), Listed(q, "nfmSelectedMeasures"))
      /\ TableFits(todo, "landUses", l, Listed(p, "nfmLandUseChange"), Listed(q, "nfmLandUseChange"))
      /\ Tidy(q) /\ DatesFit(p, q)
  BY <1>1 DEF SaveFits
<1>3. /\ DOMAIN m \subseteq Listed(p, "nfmSelectedMeasures")
      /\ DOMAIN l \subseteq Listed(p, "nfmLandUseChange")
  BY DEF RowsTidy
<1>4. /\ TableFits(Tail(todo), "measures", m2, Listed(p, "nfmSelectedMeasures"), Listed(q, "nfmSelectedMeasures"))
      /\ DOMAIN m2 \subseteq Listed(p, "nfmSelectedMeasures")
  BY <1>2, <1>3, RestFits
<1>5. /\ TableFits(Tail(todo), "landUses", l2, Listed(p, "nfmLandUseChange"), Listed(q, "nfmLandUseChange"))
      /\ DOMAIN l2 \subseteq Listed(p, "nfmLandUseChange")
  BY <1>2, <1>3, RestFits
<1>6. Tail(todo)[Len(Tail(todo)) - 1] = todo[Len(todo) - 1]
  <2>1. PICK n : n = Len(todo)
    OBVIOUS
  <2>2. n \in 1 .. 4 /\ n # 1
    BY <2>1 DEF IsTodo
  <2>3. n # 2
    BY <2>1, <2>2 DEF IsTodo
  <2>4. /\ Len(Tail(todo)) = n - 1
        /\ \A i \in 1 .. n - 1 : Tail(todo)[i] = todo[i + 1]
    BY <2>1, TailOfTodo
  <2>5. n - 2 \in 1 .. n - 1 /\ (n - 1) - 1 = n - 2 /\ (n - 2) + 1 = n - 1
    BY <2>2, <2>3
  <2> QED BY <2>1, <2>4, <2>5
<1> QED
  BY <1>1, <1>2, <1>4, <1>5, <1>6 DEF SaveFits, RowsTidy

LEMMA RowStepSerial ==
    ASSUME EditingInv, SerialInv, NEW u \in Users, NEW op, Due(u, op), op \notin {"project", "cache"},
           Advance(u), UNCHANGED <<proposal, serial>>,
           DOMAIN measures' = IF op = "measures" THEN DOMAIN Changed(measures, Head(user[u].todo).rows)
                              ELSE DOMAIN measures,
           DOMAIN landUses' = IF op = "landUses" THEN DOMAIN Changed(landUses, Head(user[u].todo).rows)
                              ELSE DOMAIN landUses
    PROVE  SerialInv'
<1>1. PICK todo : todo = user[u].todo
  OBVIOUS
<1>2. Head(user[u].todo) = todo[1] /\ user[u].phase = "writing"
  BY <1>1, DueStatement
<1>3. \A v \in Users \ {u} : user'[v] = user[v]
  BY AdvanceMoves
<1>4. ASSUME serial
      PROVE  /\ Alone(u) /\ Tidy(proposal') /\ RowsTidy(proposal', measures', landUses')
             /\ WorkFits(user'[u], proposal', measures', landUses', money')
  <2>1. /\ Alone(u) /\ Tidy(proposal) /\ RowsTidy(proposal, measures, landUses)
        /\ IsTodo(todo) /\ Len(todo) # 1 /\ todo[1].op = op
        /\ SaveFits(todo, proposal, measures, landUses)
    BY <1>1, <1>4, DueFits
  <2>2. RowsTidy(proposal, measures', landUses') /\ SaveFits(Tail(todo), proposal, measures', landUses')
    BY <1>1, <1>2, <2>1, RowStepFits
  <2>3. user'[u].phase = "writing" /\ user'[u].todo = Tail(todo)
    <3>1. user'[u] = [user[u] EXCEPT !.todo = Tail(user[u].todo)]
      BY <1>1, <2>1, AdvanceMoves
    <3>2. DOMAIN user[u] = {"phase", "view", "at", "form", "read", "todo"}
      BY DEF EditingInv, Doing
    <3> QED BY <1>1, <1>2, <3>1, <3>2
  <2> QED BY <2>1, <2>2, <2>3 DEF WorkFits
<1> QED
  BY <1>3, <1>4, OneWorks

LEMMA RowsSerial ==
    ASSUME EditingInv, SerialInv, NEW u \in Users,
           MeasuresStep(u) \/ LandUsesStep(u) \/ SpendStep(u) \/ FlushStep(u) \/ ClearStep(u)
    PROVE  SerialInv'
<1>1. CASE MeasuresStep(u)
  <2>1. /\ Due(u, "measures") /\ measures' = Changed(measures, Head(user[u].todo).rows) /\ Advance(u)
        /\ UNCHANGED <<proposal, landUses, serial>>
    BY <1>1 DEF MeasuresStep
  <2> QED BY <2>1, RowStepSerial
<1>2. CASE LandUsesStep(u)
  <2>1. /\ Due(u, "landUses") /\ landUses' = Changed(landUses, Head(user[u].todo).rows) /\ Advance(u)
        /\ UNCHANGED <<proposal, measures, serial>>
    BY <1>2 DEF LandUsesStep
  <2> QED BY <2>1, RowStepSerial
<1>3. CASE SpendStep(u) \/ FlushStep(u) \/ ClearStep(u)
  <2>1. PICK op \in {"spend", "flush", "clear"} : Due(u, op)
    BY <1>3 DEF SpendStep, FlushStep, ClearStep
  <2>2. Advance(u) /\ UNCHANGED <<proposal, measures, landUses, serial>>
    BY <1>3 DEF SpendStep, FlushStep, ClearStep
  <2> QED BY <2>1, <2>2, RowStepSerial
<1> QED
  BY <1>1, <1>2, <1>3

\* The proposal is written last: its rows fit it already.
LEMMA ProjectWrites ==
    ASSUME EditingInv, SerialInv, serial, NEW u \in Users, ProjectStep(u)
    PROVE  /\ Alone(u) /\ Tidy(proposal') /\ RowsTidy(proposal', measures', landUses')
           /\ DatesFit(proposal, proposal')
           /\ Len(Tail(user[u].todo)) = 1 /\ user'[u].todo = Tail(user[u].todo)
           /\ user'[u].phase = "writing"
<1>1. PICK todo : todo = user[u].todo
  OBVIOUS
<1>2. /\ Due(u, "project") /\ proposal' = Over(proposal, todo[1].rows) /\ Advance(u)
      /\ UNCHANGED <<measures, landUses>>
  BY <1>1, DueStatement DEF ProjectStep
<1>3. /\ Alone(u) /\ IsTodo(todo) /\ Len(todo) # 1 /\ todo[1].op = "project"
      /\ SaveFits(todo, proposal, measures, landUses)
  BY <1>1, <1>2, DueFits
<1>4. Len(todo) = 2 /\ todo[2].op = "cache"
  <2>1. Len(todo) \in 2 .. 4
    BY <1>3 DEF IsTodo
  <2>2. 1 \in 1 .. Len(todo) /\ 2 \in 1 .. Len(todo)
    BY <2>1
  <2>3. 1 = Len(todo) - 1
    BY <1>3, <2>2 DEF IsTodo
  <2> QED BY <1>3, <2>1, <2>2, <2>3 DEF IsTodo
<1>5. /\ Tidy(proposal') /\ DatesFit(proposal, proposal')
      /\ TableFits(todo, "measures", measures, Listed(proposal, "nfmSelectedMeasures"),
                   Listed(proposal', "nfmSelectedMeasures"))
      /\ TableFits(todo, "landUses", landUses, Listed(proposal, "nfmLandUseChange"),
                   Listed(proposal', "nfmLandUseChange"))
  <2>1. PICK q : q = proposal'
    OBVIOUS
  <2>2. q = Over(proposal, todo[Len(todo) - 1].rows)
    BY <1>2, <1>4, <2>1
  <2> QED BY <1>3, <2>1, <2>2 DEF SaveFits
<1>6. \A i \in 1 .. Len(todo) : todo[i].op \notin {"measures", "landUses"}
  <2>1. \A i \in 1 .. 2 : i = 1 \/ i = 2
    OBVIOUS
  <2> QED BY <1>3, <1>4, <2>1
<1>7. RowsTidy(proposal', measures', landUses')
  BY <1>2, <1>5, <1>6 DEF TableFits, RowsTidy
<1>8. user'[u].todo = Tail(todo) /\ user'[u].phase = "writing"
  <2>1. user'[u] = [user[u] EXCEPT !.todo = Tail(user[u].todo)]
    BY <1>1, <1>2, <1>3, AdvanceMoves
  <2>2. DOMAIN user[u] = {"phase", "view", "at", "form", "read", "todo"} /\ user[u].phase = "writing"
    BY <1>2, DueStatement DEF EditingInv, Doing
  <2> QED BY <1>1, <2>1, <2>2
<1>9. Len(Tail(todo)) = 1
  BY <1>3, <1>4, TailOfTodo
<1> QED
  BY <1>1, <1>3, <1>5, <1>7, <1>8, <1>9

LEMMA ProjectSerial ==
    ASSUME EditingInv, SerialInv, NEW u \in Users, ProjectStep(u)
    PROVE  SerialInv'
<1>1. \A v \in Users \ {u} : user'[v] = user[v]
  BY AdvanceMoves DEF ProjectStep
<1>2. serial' = serial
  BY DEF ProjectStep
<1>3. ASSUME serial
      PROVE  /\ Alone(u) /\ Tidy(proposal') /\ RowsTidy(proposal', measures', landUses')
             /\ WorkFits(user'[u], proposal', measures', landUses', money')
  BY <1>3, ProjectWrites DEF WorkFits
<1> QED
  BY <1>1, <1>2, <1>3, OneWorks

LEMMA LeavingSerial ==
    ASSUME EditingInv, SerialInv, NEW u \in Users,
           InvalidateStep(u) \/ Fail(u) \/ TransitionToSubmitted(u)
    PROVE  SerialInv'
<1>1. \A v \in Users \ {u} : user'[v] = user[v]
  BY AdvanceMoves DEF InvalidateStep, Fail, TransitionToSubmitted, EditingInv
<1>2. UNCHANGED <<proposal, measures, landUses, money, serial>>
  BY DEF InvalidateStep, Fail, TransitionToSubmitted
<1>3. user'[u] = Away
  <2>1. CASE InvalidateStep(u)
    <3>1. PICK todo : todo = user[u].todo
      OBVIOUS
    <3>2. IsTodo(todo) /\ todo[1].op = "cache" /\ Advance(u)
      BY <2>1, <3>1, DueStatement DEF InvalidateStep
    <3>3. 1 \in 1 .. Len(todo)
      BY <3>2 DEF IsTodo
    <3>4. Len(todo) = 1
      BY <3>2, <3>3 DEF IsTodo
    <3> QED BY <3>1, <3>2, <3>4, AdvanceMoves
  <2>2. CASE Fail(u) \/ TransitionToSubmitted(u)
    BY <2>2 DEF Fail, TransitionToSubmitted, EditingInv
  <2> QED BY <2>1, <2>2
<1>4. ~Working(u)'
  BY <1>3 DEF Working, Away
<1> QED
  BY <1>1, <1>2, <1>4, OthersWork

LEMMA CheckSerial ==
    ASSUME EditingInv, SerialInv, NEW u \in Users, Check(u)
    PROVE  SerialInv'
<1>1. PICK q : q = [Away EXCEPT !.phase = "submitting"]
  OBVIOUS
<1>2. /\ \A v \in Users : user'[v] = IF v = u THEN q ELSE user[v]
      /\ serial' => serial /\ Alone(u)
      /\ UNCHANGED <<proposal, measures, landUses, money>>
      /\ Submittable(proposal, measures, landUses, money)
  BY <1>1 DEF Check, EditingInv
<1>3. WorkFits(q, proposal, measures, landUses, money)
  BY <1>1, <1>2 DEF WorkFits, Away
<1> QED
  BY <1>2, <1>3, OneWorks DEF SerialInv

LEMMA QuietSerial ==
    ASSUME SerialInv, UNCHANGED <<proposal, measures, landUses, money, user, serial>>
    PROVE  SerialInv'
BY DEF SerialInv, Working, Alone

LEMMA SerialStep ==
    ASSUME EditingInv, SerialInv, [Next]_vars
    PROVE  SerialInv'
<1>1. CASE UNCHANGED vars
  BY <1>1, QuietSerial DEF vars
<1>2. CASE \E i \in Instances : Expire(i)
  BY <1>2, QuietSerial DEF Expire
<1>3. CASE Next /\ ~\E i \in Instances : Expire(i)
  BY <1>3, OpenSerial, LoadSerial, ValidateSerial, RowsSerial, ProjectSerial, LeavingSerial, CheckSerial
     DEF Next, Save
<1> QED
  BY <1>1, <1>2, <1>3

LEMMA SerialInvariant == Spec => []SerialInv
<1>1. Init => SerialInv
  BY SerialInit
<1>2. EditingInv /\ SerialInv /\ [Next]_vars => SerialInv'
  BY SerialStep
<1> QED
  BY <1>1, <1>2, EditingInvariant, PTL DEF Spec

(* Nothing is left over by saves that come one after the other, however    *)
(* many users save whatever pages, and whichever statements fail.          *)
THEOREM NothingIsLeftOver == Spec => []NothingLeftOver
<1>1. SerialInv => NothingLeftOver
  BY DEF SerialInv, NothingLeftOver
<1> QED
  BY <1>1, SerialInvariant, PTL

LEMMA OthersKeepProposal ==
    ASSUME Next, ~\E u \in Users : ProjectStep(u)
    PROVE  proposal' = proposal
<1>1. ASSUME NEW u \in Users, Open(u) \/ Validate(u) \/ Fail(u) \/ Check(u) \/ TransitionToSubmitted(u)
      PROVE  proposal' = proposal
  BY <1>1 DEF Open, Validate, Fail, Check, TransitionToSubmitted
<1>2. ASSUME NEW u \in Users, \/ MeasuresStep(u) \/ LandUsesStep(u) \/ SpendStep(u) \/ FlushStep(u)
                              \/ ClearStep(u) \/ InvalidateStep(u)
      PROVE  proposal' = proposal
  BY <1>2 DEF MeasuresStep, LandUsesStep, SpendStep, FlushStep, ClearStep, InvalidateStep
<1>3. ASSUME NEW u \in Users, NEW i \in Instances, NEW e \in Entries, Load(u, i, e)
      PROVE  proposal' = proposal
  BY <1>3 DEF Load
<1>4. ASSUME NEW i \in Instances, Expire(i)
      PROVE  proposal' = proposal
  BY <1>4 DEF Expire
<1> QED
  BY <1>1, <1>2, <1>3, <1>4 DEF Next, Save

(* A date that a page has just saved is one that submission will not       *)
(* object to, however many users save whatever pages one after the other,  *)
(* and whichever statements fail, given ClearingAssumption.                *)
THEOREM SavedDatesFitSubmission == Spec => SavedDatesAreSubmittable
<1>1. ASSUME EditingInv, SerialInv, [Next]_vars, serial'
      PROVE  DatesFit(proposal, proposal')
  <2>1. CASE proposal' = proposal
    BY <2>1 DEF DatesFit
  <2>2. CASE proposal' # proposal
    <3>1. PICK u \in Users : ProjectStep(u)
      BY <1>1, <2>2, OthersKeepProposal DEF vars
    <3>2. serial
      BY <1>1, <3>1 DEF ProjectStep
    <3> QED BY <1>1, <3>1, <3>2, ProjectWrites
  <2> QED BY <2>1, <2>2
<1>2. EditingInv /\ SerialInv /\ [Next]_vars =>
          [serial' => DatesFit(proposal, proposal')]_vars
  BY <1>1
<1> QED
  BY <1>2, EditingInvariant, SerialInvariant, PTL DEF Spec, SavedDatesAreSubmittable

-----------------------------------------------------------------------------
(***************************************************************************)
(* What is sent of a submitted proposal.                                   *)
(***************************************************************************)
\* Of the parts of a payload, one answers a field.
LEMMA AnswerOfPart ==
    ASSUME NEW A, NEW B, NEW C, NEW D, NEW E, NEW F, NEW G, NEW a, NEW f,
           a = Over(Over(Over(Over(Over(Over(A, B), C), D), E), F), G)
    PROVE  /\ f \in DOMAIN G => a[f] = G[f]
           /\ f \in DOMAIN F /\ f \notin DOMAIN G => a[f] = F[f]
           /\ f \in DOMAIN E /\ f \notin DOMAIN F /\ f \notin DOMAIN G => a[f] = E[f]
           /\ f \in DOMAIN D /\ f \notin DOMAIN E /\ f \notin DOMAIN F /\ f \notin DOMAIN G =>
                  a[f] = D[f]
           /\ f \in DOMAIN C /\ (\A X \in {D, E, F, G} : f \notin DOMAIN X) => a[f] = C[f]
           /\ f \in DOMAIN B /\ (\A X \in {C, D, E, F, G} : f \notin DOMAIN X) => a[f] = B[f]
           /\ f \in DOMAIN A /\ (\A X \in {B, C, D, E, F, G} : f \notin DOMAIN X) => a[f] = A[f]
<1> DEFINE AB == Over(A, B)
           AC == Over(AB, C)
           AD == Over(AC, D)
           AE == Over(AD, E)
           AF == Over(AE, F)
<1>1. a = Over(AF, G)
  OBVIOUS
<1>2. /\ DOMAIN AB = DOMAIN A \cup DOMAIN B
      /\ f \in DOMAIN B => AB[f] = B[f]
      /\ f \in DOMAIN A /\ f \notin DOMAIN B => AB[f] = A[f]
  BY DEF Over
<1> HIDE DEF AB
<1>3. /\ DOMAIN AC = DOMAIN AB \cup DOMAIN C
      /\ f \in DOMAIN C => AC[f] = C[f]
      /\ f \in DOMAIN AB /\ f \notin DOMAIN C => AC[f] = AB[f]
  BY DEF Over
<1> HIDE DEF AC
<1>4. /\ DOMAIN AD = DOMAIN AC \cup DOMAIN D
      /\ f \in DOMAIN D => AD[f] = D[f]
      /\ f \in DOMAIN AC /\ f \notin DOMAIN D => AD[f] = AC[f]
  BY DEF Over
<1> HIDE DEF AD
<1>5. /\ DOMAIN AE = DOMAIN AD \cup DOMAIN E
      /\ f \in DOMAIN E => AE[f] = E[f]
      /\ f \in DOMAIN AD /\ f \notin DOMAIN E => AE[f] = AD[f]
  BY DEF Over
<1> HIDE DEF AE
<1>6. /\ DOMAIN AF = DOMAIN AE \cup DOMAIN F
      /\ f \in DOMAIN F => AF[f] = F[f]
      /\ f \in DOMAIN AE /\ f \notin DOMAIN F => AF[f] = AE[f]
  BY DEF Over
<1> HIDE DEF AF
<1>7. /\ DOMAIN Over(AF, G) = DOMAIN AF \cup DOMAIN G
      /\ f \in DOMAIN G => Over(AF, G)[f] = G[f]
      /\ f \in DOMAIN AF /\ f \notin DOMAIN G => Over(AF, G)[f] = AF[f]
  BY DEF Over
<1> QED
  BY <1>1, <1>2, <1>3, <1>4, <1>5, <1>6, <1>7

LEMMA PartDomains ==
    ASSUME NEW p, NEW mo
    PROVE  /\ DOMAIN SentDetails(p) = TypeFields
           /\ DOMAIN SentDates(p) = Stages \cup {"earliestWithGia", "financialStartYear"}
           /\ DOMAIN SentRisks(p) = {"risks", "mainRisk"} \cup DeprivedShares \cup FloodCounts
                                    \cup CoastCounts \cup CurrentRisks
           /\ DOMAIN SentBenefits(p) = Quantities
           /\ DOMAIN SentGoals(p) = {"approach", "urgencyReason", "urgencyDetails"}
                                    \cup ConfidenceFields
           /\ DOMAIN SentNfm(p) = DOMAIN NfmChoices
           /\ DOMAIN SentCarbon(p, mo) = CarbonFields
           /\ DOMAIN SentFinancials(p, mo) = CostFields \cup BenefitFields \cup CarbonFields
<1>1. DOMAIN SentDetails(p) = TypeFields
  BY DEF SentDetails, Over, Plain, TypeFields
<1>2. DOMAIN SentDates(p) = Stages \cup {"earliestWithGia", "financialStartYear"}
  BY DEF SentDates, Over, Plain
<1>3. DOMAIN SentRisks(p) = {"risks", "mainRisk"} \cup DeprivedShares \cup FloodCounts
                            \cup CoastCounts \cup CurrentRisks
  BY DEF SentRisks, Over, Plain, Numbers
<1>4. /\ DOMAIN SentBenefits(p) = Quantities
      /\ DOMAIN SentGoals(p) = {"approach", "urgencyReason", "urgencyDetails"} \cup ConfidenceFields
      /\ DOMAIN SentNfm(p) = DOMAIN NfmChoices
  BY DEF SentBenefits, SentGoals, SentNfm, Plain
<1>5. DOMAIN SentCarbon(p, mo) = CarbonFields
  <2>1. CASE p["projectType"] \in SimplifiedTypes
    BY <2>1 DEF SentCarbon
  <2>2. CASE p["projectType"] \notin SimplifiedTypes
    BY <2>2 DEF SentCarbon, Over, Plain, Numbers, CarbonFields
  <2> QED BY <2>1, <2>2
<1>6. DOMAIN SentFinancials(p, mo) = CostFields \cup BenefitFields \cup CarbonFields
  BY <1>5 DEF SentFinancials, Over, Numbers
<1> QED
  BY <1>1, <1>2, <1>3, <1>4, <1>5, <1>6

\* The answer to a field comes from the part of its section.
LEMMA SentParts ==
    ASSUME NEW p, NEW m, NEW l, NEW mo, NEW f, NEW a, a = Payload(p, m, l, mo).answers
    PROVE  /\ f \in DOMAIN SentDetails(p) => a[f] = SentDetails(p)[f]
           /\ f \in DOMAIN SentDates(p) => a[f] = SentDates(p)[f]
           /\ f \in DOMAIN SentRisks(p) => a[f] = SentRisks(p)[f]
           /\ f \in DOMAIN SentBenefits(p) => a[f] = SentBenefits(p)[f]
           /\ f \in DOMAIN SentGoals(p) => a[f] = SentGoals(p)[f]
           /\ f \in DOMAIN SentNfm(p) => a[f] = SentNfm(p)[f]
           /\ f \in DOMAIN SentFinancials(p, mo) => a[f] = SentFinancials(p, mo)[f]
<1>1. PICK A, B, C, D, E, F, G :
          /\ A = SentDetails(p) /\ B = SentDates(p) /\ C = SentRisks(p) /\ D = SentBenefits(p)
          /\ E = SentGoals(p) /\ F = SentNfm(p) /\ G = SentFinancials(p, mo)
  OBVIOUS
<1>2. a = Over(Over(Over(Over(Over(Over(A, B), C), D), E), F), G)
  BY <1>1 DEF Payload
<1>3. /\ DOMAIN A = TypeFields
      /\ DOMAIN B = Stages \cup {"earliestWithGia", "financialStartYear"}
      /\ DOMAIN C = {"risks", "mainRisk"} \cup DeprivedShares \cup FloodCounts
                    \cup CoastCounts \cup CurrentRisks
      /\ DOMAIN D = Quantities
      /\ DOMAIN E = {"approach", "urgencyReason", "urgencyDetails"} \cup ConfidenceFields
      /\ DOMAIN F = DOMAIN NfmChoices
      /\ DOMAIN G = CostFields \cup BenefitFields \cup CarbonFields
  BY <1>1, PartDomains
<1>4. /\ f \in TypeFields => f \notin DOMAIN B /\ f \notin DOMAIN C /\ f \notin DOMAIN D
                             /\ f \notin DOMAIN E /\ f \notin DOMAIN F /\ f \notin DOMAIN G
      /\ f \in DOMAIN B => f \notin DOMAIN C /\ f \notin DOMAIN D /\ f \notin DOMAIN E
                           /\ f \notin DOMAIN F /\ f \notin DOMAIN G
      /\ f \in DOMAIN C => f \notin DOMAIN D /\ f \notin DOMAIN E /\ f \notin DOMAIN F
                           /\ f \notin DOMAIN G
      /\ f \in DOMAIN D => f \notin DOMAIN E /\ f \notin DOMAIN F /\ f \notin DOMAIN G
      /\ f \in DOMAIN E => f \notin DOMAIN F /\ f \notin DOMAIN G
      /\ f \in DOMAIN F => f \notin DOMAIN G
  BY <1>3, QuantityNames DEF TypeFields, Stages, DeprivedShares, FloodCounts, CoastCounts, CurrentRisks,
     RiskLevels, ConfidenceFields, NfmChoices, CostFields, BenefitFields, CarbonFields
<1>5. /\ f \in DOMAIN G => a[f] = G[f]
      /\ f \in DOMAIN F => a[f] = F[f]
      /\ f \in DOMAIN E => a[f] = E[f]
      /\ f \in DOMAIN D => a[f] = D[f]
      /\ f \in DOMAIN C => a[f] = C[f]
      /\ f \in DOMAIN B => a[f] = B[f]
      /\ f \in DOMAIN A => a[f] = A[f]
  <2>1. /\ f \in DOMAIN G => a[f] = G[f]
        /\ f \in DOMAIN F /\ f \notin DOMAIN G => a[f] = F[f]
        /\ f \in DOMAIN E /\ f \notin DOMAIN F /\ f \notin DOMAIN G => a[f] = E[f]
        /\ f \in DOMAIN D /\ f \notin DOMAIN E /\ f \notin DOMAIN F /\ f \notin DOMAIN G =>
               a[f] = D[f]
        /\ f \in DOMAIN C /\ (\A X \in {D, E, F, G} : f \notin DOMAIN X) => a[f] = C[f]
        /\ f \in DOMAIN B /\ (\A X \in {C, D, E, F, G} : f \notin DOMAIN X) => a[f] = B[f]
        /\ f \in DOMAIN A /\ (\A X \in {B, C, D, E, F, G} : f \notin DOMAIN X) => a[f] = A[f]
    BY <1>2, AnswerOfPart
  <2> QED BY <1>3, <1>4, <2>1
<1> QED
  BY <1>1, <1>5

\* How each answer is sent.
LEMMA SentAnswers ==
    ASSUME NEW p, NEW m, NEW l, NEW mo, NEW f, NEW a, a = Payload(p, m, l, mo).answers
    PROVE  /\ f \in {"projectType", "mainInterventionType", "financialStartYear", "earliestWithGia",
                     "approach", "urgencyReason", "urgencyDetails"}
                    \cup DeprivedShares \cup Quantities \cup ConfidenceFields \cup DOMAIN NfmChoices
                  => a[f] = p[f]
           /\ f \in Stages =>
                  a[f] = IF /\ p["projectType"] \in SimplifiedTypes
                            /\ f \notin {"startOutlineBusinessCase", "readyForService"}
                         THEN None ELSE p[f]
           /\ f \in CurrentRisks => a[f] = IF HasValue(p, f) THEN p[f] ELSE "not_applicable"
           /\ f \in CostFields \cup BenefitFields => a[f] = IF p[f] = 0 THEN None ELSE p[f]
           /\ p["projectType"] \in SimplifiedTypes =>
                  (f \in CarbonFields \ {"carbonCostBuild", "carbonCostOperation"} => a[f] = None)
<1>1. f \in {"projectType", "mainInterventionType"} => a[f] = p[f]
  <2>1. SentDetails(p)["projectType"] = p["projectType"]
        /\ SentDetails(p)["mainInterventionType"] = p["mainInterventionType"]
    BY DEF SentDetails, Over, Plain
  <2> QED BY <2>1, PartDomains, SentParts DEF TypeFields
<1>2. f \in {"financialStartYear", "earliestWithGia"} => a[f] = p[f]
  <2>1. SentDates(p)["financialStartYear"] = p["financialStartYear"]
        /\ SentDates(p)["earliestWithGia"] = p["earliestWithGia"]
    BY DEF SentDates, Over, Plain
  <2> QED BY <2>1, PartDomains, SentParts
<1>3. f \in {"approach", "urgencyReason", "urgencyDetails"} \cup Quantities \cup ConfidenceFields
              \cup DOMAIN NfmChoices => a[f] = p[f]
  <2>1. f \in {"approach", "urgencyReason", "urgencyDetails"} \cup ConfidenceFields =>
            SentGoals(p)[f] = p[f]
    BY DEF SentGoals, Plain
  <2>2. f \in Quantities => SentBenefits(p)[f] = p[f]
    BY DEF SentBenefits, Plain
  <2>3. f \in DOMAIN NfmChoices => SentNfm(p)[f] = p[f]
    BY DEF SentNfm, Plain
  <2>4. f \in {"approach", "urgencyReason", "urgencyDetails"} \cup ConfidenceFields => a[f] = p[f]
    BY <2>1, PartDomains, SentParts
  <2>5. f \in Quantities => a[f] = p[f]
    BY <2>2, PartDomains, SentParts
  <2>6. f \in DOMAIN NfmChoices => a[f] = p[f]
    BY <2>3, PartDomains, SentParts
  <2> QED BY <2>4, <2>5, <2>6
<1>4. f \in DeprivedShares => a[f] = p[f]
  <2>1. f \in DeprivedShares => SentRisks(p)[f] = p[f]
    BY DEF SentRisks, Over, Plain, Numbers, DeprivedShares, FloodCounts, CoastCounts, CurrentRisks,
       RiskLevels
  <2> QED BY <2>1, PartDomains, SentParts
<1>5. f \in Stages =>
          a[f] = IF /\ p["projectType"] \in SimplifiedTypes
                    /\ f \notin {"startOutlineBusinessCase", "readyForService"}
                 THEN None ELSE p[f]
  <2>1. f \in Stages =>
            SentDates(p)[f] = IF /\ p["projectType"] \in SimplifiedTypes
                                 /\ f \notin {"startOutlineBusinessCase", "readyForService"}
                              THEN None ELSE p[f]
    BY DEF SentDates, Over, Plain, Stages
  <2> QED BY <2>1, PartDomains, SentParts
<1>6. f \in CurrentRisks => a[f] = IF HasValue(p, f) THEN p[f] ELSE "not_applicable"
  <2>1. f \in CurrentRisks => SentRisks(p)[f] = IF HasValue(p, f) THEN p[f] ELSE "not_applicable"
    BY DEF SentRisks, Over
  <2> QED BY <2>1, PartDomains, SentParts
<1>7. f \in CostFields \cup BenefitFields => a[f] = IF p[f] = 0 THEN None ELSE p[f]
  <2>1. f \in CostFields \cup BenefitFields =>
            SentFinancials(p, mo)[f] = IF p[f] = 0 THEN None ELSE p[f]
    <3>1. f \in CostFields \cup BenefitFields => f \notin CarbonFields
      BY DEF CostFields, BenefitFields, CarbonFields
    <3> QED BY <3>1, PartDomains DEF SentFinancials, Over, Numbers
  <2> QED BY <2>1, PartDomains, SentParts
<1>8. p["projectType"] \in SimplifiedTypes =>
          (f \in CarbonFields \ {"carbonCostBuild", "carbonCostOperation"} => a[f] = None)
  <2>1. ASSUME p["projectType"] \in SimplifiedTypes,
               f \in CarbonFields \ {"carbonCostBuild", "carbonCostOperation"}
        PROVE  SentFinancials(p, mo)[f] = None
    <3>1. SentCarbon(p, mo)[f] = None
      BY <2>1 DEF SentCarbon
    <3>2. f \in DOMAIN SentCarbon(p, mo)
      BY <2>1, PartDomains
    <3> QED BY <3>1, <3>2 DEF SentFinancials, Over
  <2> QED BY <2>1, PartDomains, SentParts
<1> QED
  BY <1>1, <1>2, <1>3, <1>4, <1>5, <1>6, <1>7, <1>8

LEMMA DatesAsked ==
    ASSUME NEW p
    PROVE  Range(DatesOf(p)) = IF p["projectType"] \in SimplifiedTypes
                               THEN {"startOutlineBusinessCase", "readyForService"} ELSE Stages
<1>1. CASE p["projectType"] \in SimplifiedTypes
  <2>1. DatesOf(p) = <<"startOutlineBusinessCase", "readyForService">>
    BY <1>1 DEF DatesOf
  <2> QED BY <1>1, <2>1 DEF Range
<1>2. CASE p["projectType"] \notin SimplifiedTypes
  <2>1. DatesOf(p) = <<"startOutlineBusinessCase", "completeOutlineBusinessCase", "awardContract",
                       "startConstruction", "readyForService">>
    BY <1>2 DEF DatesOf
  <2> QED BY <1>2, <2>1 DEF Range, Stages
<1> QED
  BY <1>1, <1>2

LEMMA ListedAnswer ==
    ASSUME NEW p, Answered(p), NEW f \in DOMAIN Lists
    PROVE  Listed(p, f) = IF p[f] = None THEN {} ELSE p[f]
<1>1. f \in Fields
  BY KindsOfFields
<1>2. p[f] = None \/ p[f] \in SUBSET Lists[f]
  BY <1>1 DEF Answered, Typed
<1>3. p[f] # None => p[f] # Blank
  BY <1>2, NoneAssumption
<1> QED
  BY <1>3 DEF Listed, HasValue

\* When the measures need not be there, nothing is known of them.
LEMMA NothingOfNfm ==
    ASSUME NEW p, Answered(p), Tidy(p), ~NfmRequired(p)
    PROVE  NoneOf(p, NfmFields \ {"naturalFloodRiskMeasuresIncluded"})
<1>1. InterventionsIn(p) = Listed(p, "projectInterventionTypes")
  <2>1. "projectInterventionTypes" \in DOMAIN Lists /\ "projectInterventionTypes" \in DOMAIN p
    BY DEF Lists, Answered, Fields, TypeFields
  <2> QED BY <2>1, ListedAnswer DEF InterventionsIn, Given
<1>2. CASE ~NfmAsked(p)
  BY <1>2 DEF Tidy, NoneOf
<1>3. CASE NfmAsked(p)
  <2>1. "NFM" \notin p["projectInterventionTypes"] /\ p["naturalFloodRiskMeasuresIncluded"] = FALSE
    BY <1>1, <1>3 DEF NfmAsked, NfmRequired
  <2> QED BY <2>1 DEF Tidy
<1> QED
  BY <1>2, <1>3

\* A proposal that may be submitted, with nothing left over.
Ready(p, m, l, mo) ==
    /\ Answered(p) /\ FollowedUp(p) /\ Tidy(p)
    /\ MeasuresTyped(m) /\ LandUsesTyped(l) /\ RowsTidy(p, m, l)
    /\ Submittable(p, m, l, mo)

LEMMA GatesReady ==
    ASSUME NEW p, NEW m, NEW l, NEW mo, Ready(p, m, l, mo), NEW g \in Gates
    PROVE  /\ p[g] = TRUE => p[Quantity[g]] # None
           /\ p[g] # TRUE => p[Quantity[g]] = None
<1>1. /\ BenefitsComplete(p)
      /\ p["environmentalBenefits"] # TRUE => p[g] = None /\ p[Quantity[g]] = None
      /\ p[g] = FALSE => p[Quantity[g]] = None
  BY DEF Ready, Submittable, Tidy, NoneOf, FollowedUp, Quantities
<1>2. p[g] = None \/ p[g] \in BOOLEAN
  <2>1. g \in Flags
    BY DEF Flags
  <2>2. g \in Fields
    BY <2>1, KindsOfFields
  <2> QED BY <2>1, <2>2 DEF Ready, Answered, Typed
<1>3. None # TRUE
  BY NoneAssumption
<1>4. p["environmentalBenefits"] = TRUE => p[g] # None /\ (p[g] = TRUE => p[Quantity[g]] # None)
  BY <1>1 DEF BenefitsComplete, HasValue
<1> QED
  BY <1>1, <1>2, <1>3, <1>4

LEMMA NeededSent ==
    ASSUME NEW p, NEW m, NEW l, NEW mo, Ready(p, m, l, mo), NEW f \in Needed(p),
           NEW a, a = Payload(p, m, l, mo).answers
    PROVE  a[f] # None
<1>1. Submittable(p, m, l, mo)
  BY DEF Ready
<1>2. CASE f = "projectType"
  <2>1. "projectType" \in DOMAIN ChoicesOf /\ ChoicesOf["projectType"] = Types
    BY DEF ChoicesOf, Over
  <2>2. p[f] \in Types
    BY <1>1, <1>2 DEF Submittable, TypeComplete
  <2>3. None \notin Types
    BY <2>1, NoneAssumption
  <2>4. a[f] = p[f]
    BY <1>2, SentAnswers
  <2> QED BY <2>2, <2>3, <2>4
<1>3. CASE f \in {"financialStartYear", "approach", "urgencyReason"} \cup DeprivedShares
  <2>1. HasValue(p, f)
    BY <1>1, <1>3 DEF Submittable, YearsComplete, AllGiven, YearFields, GoalsComplete, UrgencyComplete,
       RiskComplete
  <2> QED BY <1>3, <2>1, SentAnswers DEF HasValue
<1>4. CASE f \in Range(DatesOf(p))
  <2>1. HasValue(p, f)
    BY <1>1, <1>4 DEF Submittable, DatesComplete, AllGiven
  <2>2. f \in Stages /\ a[f] = p[f]
    BY <1>4, DatesAsked, SentAnswers DEF Stages
  <2> QED BY <2>1, <2>2 DEF HasValue
<1>5. CASE f = "earliestWithGia" /\ p["couldStartEarly"] = TRUE
  <2>1. HasValue(p, f)
    BY <1>1, <1>5 DEF Submittable, DatesComplete, CouldStartEarlyComplete
  <2> QED BY <1>5, <2>1, SentAnswers DEF HasValue
<1>6. CASE f = "urgencyDetails" /\ p["urgencyReason"] # "not_urgent"
  <2>1. HasValue(p, f)
    BY <1>1, <1>6 DEF Submittable, UrgencyComplete
  <2> QED BY <1>6, <2>1, SentAnswers DEF HasValue
<1>7. CASE f \in {Quantity[g] : g \in {g \in Gates : p[g] = TRUE}}
  <2>1. PICK g \in Gates : f = Quantity[g] /\ p[g] = TRUE
    BY <1>7
  <2>2. p[Quantity[g]] # None
    BY <2>1, GatesReady
  <2>3. f \in Quantities
    BY <2>1 DEF Quantities
  <2>4. a[f] = p[f]
    BY <2>3, SentAnswers
  <2> QED BY <2>1, <2>2, <2>4
<1>8. CASE p["projectType"] \in MandatoryTypes /\ f \in ConfidenceFields
  <2>1. HasValue(p, f)
    BY <1>1, <1>8 DEF Submittable, ConfidenceComplete, AllGiven
  <2> QED BY <1>8, <2>1, SentAnswers DEF HasValue
<1>9. CASE p["projectType"] \in MandatoryTypes /\ f = "mainInterventionType"
  <2>1. f \in DOMAIN ChoicesOf /\ ChoicesOf[f] = Interventions
    BY <1>9 DEF ChoicesOf, Over
  <2>2. p[f] \in Interventions
    BY <1>1, <1>9 DEF Submittable, TypeComplete
  <2>3. None \notin Interventions
    BY <2>1, NoneAssumption
  <2>4. a[f] = p[f]
    BY <1>9, SentAnswers
  <2> QED BY <2>2, <2>3, <2>4
<1>10. CASE NfmRequired(p) /\ f \in DOMAIN NfmChoices
  <2>1. HasValue(p, f)
    BY <1>1, <1>10 DEF Submittable, NfmComplete, AllGiven
  <2> QED BY <1>10, <2>1, SentAnswers DEF HasValue
<1> QED
  BY <1>2, <1>3, <1>4, <1>5, <1>6, <1>7, <1>8, <1>9, <1>10 DEF Needed

LEMMA NotAskedNotSent ==
    ASSUME NEW p, NEW m, NEW l, NEW mo, Ready(p, m, l, mo), NEW f \in NotAsked(p), f \notin Needed(p),
           NEW a, a = Payload(p, m, l, mo).answers
    PROVE  a[f] = None
<1>1. Answered(p) /\ FollowedUp(p) /\ Tidy(p)
  BY DEF Ready
<1>2. CASE f = "earliestWithGia"
  <2>1. p["couldStartEarly"] # TRUE
    BY <1>2 DEF Needed
  <2> QED BY <1>1, <1>2, <2>1, SentAnswers DEF FollowedUp
<1>3. CASE f = "urgencyDetails"
  <2>1. p["urgencyReason"] = "not_urgent"
    BY <1>3 DEF Needed
  <2> QED BY <1>1, <1>3, <2>1, SentAnswers DEF FollowedUp
<1>4. CASE f \in Quantities
  <2>1. PICK g \in Gates : f = Quantity[g]
    BY <1>4 DEF Quantities
  <2>2. p[g] # TRUE
    BY <2>1 DEF Needed
  <2>3. p[Quantity[g]] = None
    BY <2>2, GatesReady
  <2>4. a[f] = p[f]
    BY <1>4, SentAnswers
  <2> QED BY <2>1, <2>3, <2>4
<1>5. CASE f \in DOMAIN NfmChoices
  <2>1. ~NfmRequired(p)
    BY <1>5 DEF Needed
  <2>2. p[f] = None
    BY <1>1, <1>5, <2>1, NothingOfNfm DEF NoneOf, NfmFields, NfmChoices
  <2> QED BY <1>5, <2>2, SentAnswers
<1>6. CASE f \in Stages \ Range(DatesOf(p))
  <2>1. p["projectType"] \in SimplifiedTypes /\ f \notin {"startOutlineBusinessCase", "readyForService"}
    BY <1>6, DatesAsked
  <2> QED BY <1>6, <2>1, SentAnswers
<1>7. CASE f = "mainInterventionType" /\ p["projectType"] \notin MandatoryTypes
  BY <1>1, <1>7, SentAnswers DEF Tidy, NoneOf
<1>8. CASE f \in ConfidenceFields /\ p["projectType"] \in RestrictedTypes
  BY <1>1, <1>8, SentAnswers DEF Tidy, NoneOf
<1>9. CASE f \in CostFields \cup BenefitFields /\ p["projectType"] \in SimplifiedTypes
  <2>1. p[f] = None
    BY <1>1, <1>9 DEF Tidy, NoneOf
  <2> QED BY <1>9, <2>1, SentAnswers
<1>10. CASE /\ f \in CarbonFields \ {"carbonCostBuild", "carbonCostOperation"}
            /\ p["projectType"] \in SimplifiedTypes
  BY <1>10, SentAnswers
<1> QED
  BY <1>2, <1>3, <1>4, <1>5, <1>6, <1>7, <1>8, <1>9, <1>10 DEF NotAsked

LEMMA RisksSent ==
    ASSUME NEW p, NEW m, NEW l, NEW mo, Ready(p, m, l, mo), NEW f \in CurrentRisks,
           NEW a, a = Payload(p, m, l, mo).answers
    PROVE  a[f] = "not_applicable" <=> Listed(p, "risks") \cap RisksOf[f] = {}
<1>1. a[f] = IF HasValue(p, f) THEN p[f] ELSE "not_applicable"
  BY SentAnswers
<1>2. CASE Listed(p, "risks") \cap RisksOf[f] = {}
  BY <1>1, <1>2 DEF Ready, Tidy, HasValue
<1>3. CASE Listed(p, "risks") \cap RisksOf[f] # {}
  <2>1. HasValue(p, f)
    BY <1>3 DEF Ready, Submittable, RiskComplete, CurrentRisksComplete
  <2>2. f \in DOMAIN ChoicesOf /\ ChoicesOf[f] = RiskLevels[f]
    BY DEF ChoicesOf, Over, CurrentRisks, RiskLevels, NfmChoices
  <2>3. f \in Fields
    BY <2>2, KindsOfFields
  <2>4. p[f] \in RiskLevels[f]
    BY <2>1, <2>2, <2>3 DEF Ready, Answered, Typed, HasValue
  <2>5. "not_applicable" \notin RiskLevels[f]
    BY DEF CurrentRisks, RiskLevels
  <2> QED BY <1>1, <1>3, <2>1, <2>4, <2>5
<1> QED
  BY <1>2, <1>3

LEMMA MeasuresSent ==
    ASSUME NEW p, NEW m, NEW l, NEW mo, Ready(p, m, l, mo), NEW k \in Measures
    PROVE  IF NfmRequired(p) /\ k \in p["nfmSelectedMeasures"]
           THEN \A c \in MeasureColumns[k].required : SentMeasures(m)[k][c] # None
           ELSE \A c \in ColumnsOf(k) : SentMeasures(m)[k][c] = None
<1>1. /\ DOMAIN m \subseteq Listed(p, "nfmSelectedMeasures") /\ MeasuresTyped(m)
      /\ NfmRequired(p) => MeasuresComplete(p, m)
  BY DEF Ready, RowsTidy, Submittable, NfmComplete
<1>2. Listed(p, "nfmSelectedMeasures") =
          IF p["nfmSelectedMeasures"] = None THEN {} ELSE p["nfmSelectedMeasures"]
  BY ListedAnswer DEF Ready, Lists
<1>3. ~NfmRequired(p) => p["nfmSelectedMeasures"] = None
  <2>1. "nfmSelectedMeasures" \in NfmFields \ {"naturalFloodRiskMeasuresIncluded"}
    BY DEF NfmFields
  <2> QED BY <2>1, NothingOfNfm DEF Ready, NoneOf
<1>4. NfmRequired(p) => Listed(p, "nfmSelectedMeasures") = p["nfmSelectedMeasures"]
  BY <1>1, <1>2 DEF MeasuresComplete
<1>5. CASE NfmRequired(p) /\ k \in p["nfmSelectedMeasures"]
  <2> SUFFICES ASSUME NEW c \in MeasureColumns[k].required
               PROVE  SentMeasures(m)[k][c] # None
    BY <1>5
  <2>1. k \in DOMAIN m /\ c \in DOMAIN m[k]
    BY <1>1, <1>4, <1>5 DEF MeasuresComplete
  <2>2. m[k][c] \in Nat
    BY <1>1, <2>1 DEF MeasuresTyped
  <2>3. SentMeasures(m)[k][c] = m[k][c]
    BY <2>1 DEF SentMeasures
  <2> QED BY <2>2, <2>3, NoneAssumption
<1>6. CASE ~(NfmRequired(p) /\ k \in p["nfmSelectedMeasures"])
  <2>1. k \notin DOMAIN m
    BY <1>1, <1>2, <1>3, <1>4, <1>6
  <2>2. \A c \in ColumnsOf(k) : SentMeasures(m)[k][c] = None
    BY <2>1 DEF SentMeasures, ColumnsOf
  <2> QED BY <1>6, <2>2
<1> QED
  BY <1>5, <1>6

LEMMA LandUsesSent ==
    ASSUME NEW p, NEW m, NEW l, NEW mo, Ready(p, m, l, mo), NEW k \in LandUses, NEW c \in LandUseColumns
    PROVE  NfmRequired(p) /\ k \in p["nfmLandUseChange"] <=> SentLandUses(l)[k][c] # None
<1>1. /\ DOMAIN l \subseteq Listed(p, "nfmLandUseChange") /\ LandUsesTyped(l)
      /\ NfmRequired(p) => LandUsesComplete(p, l)
  BY DEF Ready, RowsTidy, Submittable, NfmComplete
<1>2. Listed(p, "nfmLandUseChange") =
          IF p["nfmLandUseChange"] = None THEN {} ELSE p["nfmLandUseChange"]
  BY ListedAnswer DEF Ready, Lists
<1>3. ~NfmRequired(p) => p["nfmLandUseChange"] = None
  <2>1. "nfmLandUseChange" \in NfmFields \ {"naturalFloodRiskMeasuresIncluded"}
    BY DEF NfmFields
  <2> QED BY <2>1, NothingOfNfm DEF Ready, NoneOf
<1>4. NfmRequired(p) => Listed(p, "nfmLandUseChange") = p["nfmLandUseChange"]
  BY <1>1, <1>2 DEF LandUsesComplete
<1>5. CASE NfmRequired(p) /\ k \in p["nfmLandUseChange"]
  <2>1. k \in DOMAIN l /\ c \in DOMAIN l[k]
    BY <1>1, <1>5 DEF LandUsesComplete
  <2>2. l[k][c] \in Nat
    BY <1>1, <2>1 DEF LandUsesTyped
  <2>3. SentLandUses(l)[k][c] = l[k][c]
    BY <2>1 DEF SentLandUses
  <2> QED BY <1>5, <2>2, <2>3, NoneAssumption
<1>6. CASE ~(NfmRequired(p) /\ k \in p["nfmLandUseChange"])
  <2>1. k \notin DOMAIN l
    BY <1>1, <1>2, <1>3, <1>4, <1>6
  <2>2. SentLandUses(l)[k][c] = None
    BY <2>1 DEF SentLandUses
  <2> QED BY <1>6, <2>2
<1> QED
  BY <1>5, <1>6

LEMMA CarbonSent ==
    ASSUME NEW p, NEW m, NEW l, NEW mo, Ready(p, m, l, mo)
    PROVE  ~ValuesChanged(p, mo)
<1>1. CASE p["projectType"] \in SimplifiedTypes
  BY <1>1 DEF Ready, Tidy, NoneOf, ValuesChanged
<1>2. CASE p["projectType"] \notin SimplifiedTypes
  BY <1>2 DEF Ready, Submittable, CarbonComplete
<1> QED
  BY <1>1, <1>2

LEMMA ReadyIsAsked ==
    ASSUME NEW p, NEW m, NEW l, NEW mo, Ready(p, m, l, mo)
    PROVE  SentAsAsked(p, m, l, mo)
<1>1. PICK sent : sent = Payload(p, m, l, mo)
  OBVIOUS
<1>2. sent.measures = SentMeasures(m) /\ sent.landUses = SentLandUses(l)
  BY <1>1 DEF Payload
<1>3. \A f \in Needed(p) : sent.answers[f] # None
  BY <1>1, NeededSent
<1>4. \A f \in NotAsked(p) \ Needed(p) : sent.answers[f] = None
  BY <1>1, NotAskedNotSent
<1>5. \A f \in CurrentRisks :
          sent.answers[f] = "not_applicable" <=> Listed(p, "risks") \cap RisksOf[f] = {}
  BY <1>1, RisksSent
<1>6. \A k \in Measures :
          IF NfmRequired(p) /\ k \in p["nfmSelectedMeasures"]
          THEN \A c \in MeasureColumns[k].required : sent.measures[k][c] # None
          ELSE \A c \in ColumnsOf(k) : sent.measures[k][c] = None
  BY <1>2, MeasuresSent
<1>7. \A k \in LandUses : \A c \in LandUseColumns :
          NfmRequired(p) /\ k \in p["nfmLandUseChange"] <=> sent.landUses[k][c] # None
  BY <1>2, LandUsesSent
<1> QED
  BY <1>1, <1>3, <1>4, <1>5, <1>6, <1>7, CarbonSent DEF SentAsAsked

(* What is sent of a proposal when it becomes submitted has an answer to   *)
(* every question it was asked, and none to a question it was not asked,   *)
(* after saves that came one after the other.                              *)
THEOREM SubmittedAsAsked == Spec => SubmittedAnswers
<1>1. ASSUME EditingInv, SerialInv, [Next]_vars, status = "draft", status' = "submitted", serial'
      PROVE  SentAsAsked(proposal, measures, landUses, money)
  <2>1. PICK u \in Users : TransitionToSubmitted(u)
    BY <1>1 DEF Next, Save, vars, Open, Load, Validate, MeasuresStep, LandUsesStep, SpendStep,
       FlushStep, ClearStep, ProjectStep, InvalidateStep, Fail, Check, Expire
  <2>2. serial /\ user[u].phase = "submitting" /\ Working(u)
    BY <1>1, <2>1 DEF TransitionToSubmitted, Working
  <2>3. /\ Tidy(proposal) /\ RowsTidy(proposal, measures, landUses)
        /\ Submittable(proposal, measures, landUses, money)
    BY <1>1, <2>2 DEF SerialInv, WorkFits
  <2>4. Ready(proposal, measures, landUses, money)
    BY <1>1, <2>3 DEF Ready, EditingInv, TypeOK
  <2> QED BY <2>4, ReadyIsAsked
<1>2. EditingInv /\ SerialInv /\ [Next]_vars =>
          [status = "draft" /\ status' = "submitted" /\ serial' =>
               SentAsAsked(proposal, measures, landUses, money)]_vars
  BY <1>1
<1> QED
  BY <1>2, EditingInvariant, SerialInvariant, PTL DEF Spec, SubmittedAnswers
=============================================================================
