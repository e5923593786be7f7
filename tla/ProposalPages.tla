--------------------------- MODULE ProposalPages ---------------------------
(***************************************************************************)
(* What the pages of the proposal form send, what their schemas accept,    *)
(* and which answers the server forgets because another one was given.     *)
(*                                                                         *)
(* A proposal is a function from Fields to answers; None is an answer that *)
(* is not there.  A date is the number 12 * year + month.  The form of a   *)
(* page is [level, fields, rows]: its validation level, the answers it     *)
(* sends, a function on some of the Fields, and the rows of natural flood  *)
(* management it sends, a function from measures or land uses to rows,     *)
(* None for a row whose fields are all sent as null.  The pages of the     *)
(* eleven kinds of habitat share the levels GATE and QUANTITY, those of    *)
(* the measures NFM_MEASURE and those of the land uses NFM_LAND_USE.       *)
(***************************************************************************)
EXTENDS Integers, FiniteSets

CONSTANTS
    None,         \* no answer (null)
    Blank,        \* the empty string of a text field
    CurrentYear   \* the financial year it is

-----------------------------------------------------------------------------
(***************************************************************************)
(* The answers.                                                            *)
(***************************************************************************)
Types == {"DEF", "REP", "REF", "HCR", "STR", "STU", "ELO"}
MandatoryTypes == {"DEF", "REF", "REP"}
RestrictedTypes == {"ELO", "HCR", "STR", "STU"}
SimplifiedTypes == {"STR", "STU"}
Interventions == {"NFM", "SUDS", "PFR", "Other"}
NfmInterventions == {"NFM", "SUDS"}

FluvialRisks == {"fluvial_flooding", "tidal_flooding", "sea_flooding"}
FloodRisks == FluvialRisks \cup
    {"groundwater_flooding", "surface_water_flooding", "reservoir_flooding"}
Risks == FloodRisks \cup {"coastal_erosion"}
RiskLevels == [currentFloodFluvialRisk |-> {"high", "medium", "low", "very_low"},
               currentFloodSurfaceWaterRisk |-> {"high", "medium", "low", "very_low"},
               currentCoastalErosionRisk |-> {"medium_term", "longer_term"}]
CurrentRisks == DOMAIN RiskLevels
\* The risks that each question about the current risk is about.
RisksOf == [currentFloodFluvialRisk |-> FluvialRisks,
            currentFloodSurfaceWaterRisk |-> {"surface_water_flooding"},
            currentCoastalErosionRisk |-> {"coastal_erosion"}]

UrgencyReasons == {"not_urgent", "statutory_need", "legal_need",
                   "health_and_safety", "emergency_works", "time_limited"}
ConfidenceLevels == {"high", "medium_high", "medium_low", "low", "not_applicable"}

\* The quantity that belongs to the gate of each kind of habitat.
Quantity ==
    [intertidalHabitat |-> "hectaresOfIntertidalHabitatCreatedOrEnhanced",
     woodland |-> "hectaresOfWoodlandHabitatCreatedOrEnhanced",
     wetWoodland |-> "hectaresOfWetWoodlandHabitatCreatedOrEnhanced",
     wetlandOrWetGrassland |-> "hectaresOfWetlandOrWetGrasslandCreatedOrEnhanced",
     grassland |-> "hectaresOfGrasslandHabitatCreatedOrEnhanced",
     heathland |-> "hectaresOfHeathlandCreatedOrEnhanced",
     pondsLakes |-> "hectaresOfPondOrLakeHabitatCreatedOrEnhanced",
     arableLand |-> "hectaresOfArableLandLakeHabitatCreatedOrEnhanced",
     comprehensiveRestoration |-> "kilometresOfWatercourseEnhancedOrCreatedComprehensive",
     partialRestoration |-> "kilometresOfWatercourseEnhancedOrCreatedPartial",
     createHabitatWatercourse |-> "kilometresOfWatercourseEnhancedOrCreatedSingle"]
Gates == DOMAIN Quantity
Quantities == {Quantity[g] : g \in Gates}

Columns(required, optional) == [required |-> required, optional |-> optional]
MeasureColumns ==
    [river_floodplain_restoration |-> Columns({"areaHectares"}, {"storageVolumeM3"}),
     leaky_barriers_in_channel_storage |-> Columns({"lengthKm", "widthM"}, {"storageVolumeM3"}),
     offline_storage |-> Columns({"areaHectares"}, {"storageVolumeM3"}),
     woodland |-> Columns({"areaHectares"}, {}),
     headwater_drainage_management |-> Columns({"areaHectares"}, {}),
     runoff_attenuation_management |-> Columns({"areaHectares"}, {"storageVolumeM3"}),
     saltmarsh_management |-> Columns({"areaHectares"}, {"lengthKm"}),
     sand_dune_management |-> Columns({"areaHectares"}, {"lengthKm"})]
Measures == DOMAIN MeasureColumns
LandUses == {"enclosed_arable_farmland", "enclosed_livestock_farmland",
             "enclosed_dairying_farmland", "semi_natural_grassland", "woodland",
             "mountain_moors_and_heath", "peatland_restoration",
             "rivers_wetlands_and_freshwater_habitats", "coastal_margins"}
LandUseColumns == {"areaBeforeHectares", "areaAfterHectares"}

NfmChoices ==
    [nfmLandownerConsent |-> {"consent_fully_secured", "engaged_but_not_fully_secured",
                              "initial_contact_made", "not_yet_engaged"},
     nfmExperienceLevel |-> {"no_experience", "some_experience",
                             "moderate_experience", "extensive_experience"},
     nfmProjectReadiness |-> {"early_concept", "developing_proposal",
                              "well_developed_proposal", "ready_to_deliver"}]

TypeFields == {"projectType", "projectInterventionTypes", "mainInterventionType"}
YearFields == {"financialStartYear", "financialEndYear"}
Stages == {"startOutlineBusinessCase", "completeOutlineBusinessCase", "awardContract",
           "startConstruction", "readyForService"}
FloodCounts == {"maintainingExistingAssets", "reducingFloodRisk50Plus",
                "reducingFloodRiskLess50", "increasingFloodResilience"}
CoastCounts == {"propertiesBenefitMaintainingAssetsCoastal",
                "propertiesBenefitInvestmentCoastalErosion"}
DeprivedShares == {"percentProperties20PercentDeprived", "percentProperties40PercentDeprived"}
ConfidenceFields == {"confidenceHomesBetterProtected", "confidenceHomesByGatewayFour",
                     "confidenceSecuredPartnershipFunding"}
NfmFields == {"naturalFloodRiskMeasuresIncluded", "nfmSelectedMeasures", "nfmLandUseChange"}
             \cup DOMAIN NfmChoices
CostFields == {"wlcEstimatedWholeLifePvCosts", "wlcEstimatedDesignConstructionCosts",
               "wlcEstimatedRiskContingencyCosts", "wlcEstimatedFutureCosts"}
BenefitFields == {"wlbEstimatedWholeLifePvBenefits", "wlbEstimatedPropertyDamagesAvoided",
                  "wlbEstimatedEnvironmentalBenefits", "wlbEstimatedRecreationTourismBenefits",
                  "wlbEstimatedLandValueUpliftBenefits"}
CarbonFields == {"carbonCostBuild", "carbonCostOperation", "carbonCostSequestered",
                 "carbonCostAvoided", "carbonSavingsNetEconomicBenefit",
                 "carbonOperationalCostForecast"}

\* The figures that are sent as texts.
TextFigures == CostFields \cup BenefitFields \cup CarbonFields

Fields ==
    TypeFields \cup YearFields \cup Stages \cup {"couldStartEarly", "earliestWithGia"}
    \cup {"risks", "mainRisk", "noPropertiesAtRisk", "noPropertiesAtCoastalErosionRisk"}
    \cup FloodCounts \cup CoastCounts \cup DeprivedShares \cup CurrentRisks
    \cup {"approach", "urgencyReason", "urgencyDetails"} \cup ConfidenceFields
    \cup {"environmentalBenefits"} \cup Gates \cup Quantities
    \cup NfmFields \cup CostFields \cup BenefitFields
    \cup CarbonFields \cup {"carbonValuesHexdigest"}

\* The answers e over the answers d.
Over(d, e) == [f \in DOMAIN d \cup DOMAIN e |-> IF f \in DOMAIN e THEN e[f] ELSE d[f]]
Forgotten(S) == [f \in S |-> None]
Nothing == Forgotten({})
Given(d, f) == f \in DOMAIN d /\ d[f] # None

-----------------------------------------------------------------------------
(***************************************************************************)
(* The pages: the fields a level requires, and those it allows beside      *)
(* them.  Any other field is refused.                                      *)
(***************************************************************************)
Page(needs, may) == [needs |-> needs, may |-> may]

InitialPages ==
    [PROJECT_TYPE |-> Page({"projectType"}, {"projectInterventionTypes", "mainInterventionType"}),
     FINANCIAL_START_YEAR |-> Page({"financialStartYear"}, {}),
     FINANCIAL_END_YEAR |-> Page({"financialEndYear"}, {})]

TimelinePages ==
    [START_OUTLINE_BUSINESS_CASE |-> Page({"startOutlineBusinessCase"}, YearFields),
     COMPLETE_OUTLINE_BUSINESS_CASE |->
        Page({"completeOutlineBusinessCase", "startOutlineBusinessCase"}, YearFields),
     AWARD_CONTRACT |-> Page({"awardContract", "completeOutlineBusinessCase"}, YearFields),
     START_CONSTRUCTION |-> Page({"startConstruction", "awardContract"}, YearFields),
     READY_FOR_SERVICE |->
        Page({"readyForService"},
             {"projectType", "startConstruction", "startOutlineBusinessCase"} \cup YearFields),
     COULD_START_EARLY |-> Page({"couldStartEarly"}, {}),
     EARLIEST_WITH_GIA |-> Page({"couldStartEarly", "startOutlineBusinessCase"},
                                {"earliestWithGia", "financialStartYear"})]

RiskPages ==
    [RISK |-> Page({"risks"}, {"noPropertiesAtRisk", "noPropertiesAtCoastalErosionRisk"}
                              \cup FloodCounts \cup CoastCounts),
     MAIN_RISK |-> Page({"mainRisk"}, {}),
     PROPERTY_AFFECTED_FLOODING |-> Page({"noPropertiesAtRisk"}, FloodCounts),
     PROPERTY_AFFECTED_COASTAL_EROSION |->
        Page({"noPropertiesAtCoastalErosionRisk"}, CoastCounts),
     TWENTY_PERCENT_DEPRIVED |-> Page({"percentProperties20PercentDeprived"}, {}),
     FORTY_PERCENT_DEPRIVED |-> Page({"percentProperties40PercentDeprived"}, {}),
     CURRENT_FLOOD_FLUVIAL_RISK |-> Page({"currentFloodFluvialRisk"}, {}),
     CURRENT_FLOOD_SURFACE_WATER_RISK |-> Page({"currentFloodSurfaceWaterRisk"}, {}),
     CURRENT_COASTAL_EROSION_RISK |-> Page({"currentCoastalErosionRisk"}, {})]

GoalPages ==
    [APPROACH |-> Page({"approach"}, {}),
     URGENCY_REASON |-> Page({"urgencyReason"}, {}),
     URGENCY_DETAILS |-> Page({"urgencyReason"}, {"urgencyDetails"})]

ConfidencePages ==
    [CONFIDENCE_HOMES_BETTER_PROTECTED |-> Page({"confidenceHomesBetterProtected"}, {}),
     CONFIDENCE_HOMES_BY_GATEWAY_FOUR |-> Page({"confidenceHomesByGatewayFour"}, {}),
     CONFIDENCE_SECURED_PARTNERSHIP_FUNDING |->
        Page({"confidenceSecuredPartnershipFunding"}, {})]

\* GATE and QUANTITY stand for a page of each gate: see BenefitsSchema.
BenefitPages ==
    [ENVIRONMENTAL_BENEFITS |-> Page({"environmentalBenefits"}, {}),
     GATE |-> Page({}, Gates),
     QUANTITY |-> Page({}, Gates \cup Quantities)]

NfmPages ==
    [NFM_INCLUSION |-> Page({"naturalFloodRiskMeasuresIncluded"}, {}),
     NFM_SELECTED_MEASURES |-> Page({"nfmSelectedMeasures"}, {"nfmLandUseChange"}),
     NFM_MEASURE |-> Page({}, {}),
     NFM_LAND_USE_CHANGE |-> Page({"nfmLandUseChange"}, {}),
     NFM_LAND_USE |-> Page({}, {}),
     NFM_LANDOWNER_CONSENT |-> Page({"nfmLandownerConsent"}, {}),
     NFM_EXPERIENCE_LEVEL |-> Page({"nfmExperienceLevel"}, {}),
     NFM_PROJECT_READINESS |-> Page({"nfmProjectReadiness"}, {})]

CostPages == [WHOLE_LIFE_COST |-> Page({}, CostFields)]
BenefitsPages == [WHOLE_LIFE_BENEFITS |-> Page({}, BenefitFields \cup {"projectType"})]

CarbonPages ==
    [CARBON_IMPACT |-> Page({}, CarbonFields),
     CARBON_COST_BUILD |-> Page({}, {"carbonCostBuild"}),
     CARBON_COST_OPERATION |-> Page({}, {"carbonCostOperation"}),
     CARBON_COST_SEQUESTERED |-> Page({}, {"carbonCostSequestered"}),
     CARBON_COST_AVOIDED |-> Page({}, {"carbonCostAvoided"}),
     CARBON_SAVINGS_NET_ECONOMIC_BENEFIT |-> Page({}, {"carbonSavingsNetEconomicBenefit"}),
     CARBON_OPERATIONAL_COST_FORECAST |-> Page({}, {"carbonOperationalCostForecast"}),
     CARBON_VALUES_HEXDIGEST |-> Page({}, {"carbonValuesHexdigest"})]

\* Old dates, years and money are cleared: every field may be left out, and no
\* schema says more than that null is allowed.  FundingEditing has its flags.
StalePages ==
    [CLEAR_STALE_DATA |->
        Page({}, YearFields \cup Stages \cup {"couldStartEarly", "earliestWithGia"})]

\* The page of estimated spend has no field of the proposal; FundingEditing
\* has its rows.
SpendPage == [FUNDING_SOURCES_ESTIMATED_SPEND |-> Page({}, {})]

Pages ==
    Over(Over(Over(Over(Over(Over(Over(Over(Over(Over(Over(InitialPages, TimelinePages),
         RiskPages), GoalPages), ConfidencePages), BenefitPages), NfmPages), CostPages),
         BenefitsPages), CarbonPages), StalePages), SpendPage)

-----------------------------------------------------------------------------
(***************************************************************************)
(* The schemas.  d is what a page sends.                                   *)
(***************************************************************************)
InterventionsFor(type) ==
    CASE type \in {"DEF", "REP"} -> Interventions
      [] type = "REF" -> Interventions \ {"PFR"}
      [] OTHER -> {}

\* The main intervention is not compared with the others: the schema looks
\* for them under a name that no payload has.
TypeSchema(d) ==
    /\ d["projectType"] \in Types
    /\ IF InterventionsFor(d["projectType"]) = {} THEN DOMAIN d = {"projectType"}
       ELSE /\ "projectInterventionTypes" \in DOMAIN d
            /\ d["projectInterventionTypes"] # {}
            /\ d["projectInterventionTypes"] \subseteq InterventionsFor(d["projectType"])
            /\ "mainInterventionType" \in DOMAIN d => d["mainInterventionType"] # None

\* From April of the first financial year to March after the last.
FirstMonth(year) == 12 * year + 4
LastMonth(year) == 12 * (year + 1) + 3

InFinancialYears(date, d) ==
    YearFields \subseteq DOMAIN d =>
        date \in FirstMonth(d["financialStartYear"]) .. LastMonth(d["financialEndYear"])

\* The stage a stage has to come after.
Previous(stage, d) ==
    CASE stage = "completeOutlineBusinessCase" -> "startOutlineBusinessCase"
      [] stage = "awardContract" -> "completeOutlineBusinessCase"
      [] stage = "startConstruction" -> "awardContract"
      [] stage = "readyForService" ->
            IF "projectType" \in DOMAIN d /\ d["projectType"] \in SimplifiedTypes
            THEN "startOutlineBusinessCase" ELSE "startConstruction"
      [] OTHER -> None

\* Faulty: the month of the stage before is good enough.
AfterOrWithPrevious(stage, d) ==
    LET previous == Previous(stage, d)
    IN  previous # None /\ Given(d, previous) => d[stage] >= d[previous]
AfterPrevious(stage, d) ==
    LET previous == Previous(stage, d)
    IN  previous # None /\ Given(d, previous) => d[stage] > d[previous]

StageOf ==
    [START_OUTLINE_BUSINESS_CASE |-> "startOutlineBusinessCase",
     COMPLETE_OUTLINE_BUSINESS_CASE |-> "completeOutlineBusinessCase",
     AWARD_CONTRACT |-> "awardContract",
     START_CONSTRUCTION |-> "startConstruction",
     READY_FOR_SERVICE |-> "readyForService"]

\* Each date that a page sends under its own schema, the stage before it
\* included, is checked; on the page of readiness those before are plain.
StageSchema(level, d) ==
    LET checked == IF level = "READY_FOR_SERVICE" THEN {"readyForService"} ELSE DOMAIN d \cap Stages
    IN  \A stage \in checked :
            /\ d[stage] # None
            /\ InFinancialYears(d[stage], d)
            /\ AfterPrevious(stage, d)

GiaSchema(d) ==
    /\ d["couldStartEarly"] \in BOOLEAN
    /\ "earliestWithGia" \in DOMAIN d <=> d["couldStartEarly"]
    /\ d["startOutlineBusinessCase"] # None
    /\ d["couldStartEarly"] =>
           /\ d["earliestWithGia"] < d["startOutlineBusinessCase"]
           /\ d["earliestWithGia"] >= FirstMonth(CurrentYear)

RiskSchema(d) ==
    /\ "risks" \in DOMAIN d => d["risks"] # {} /\ d["risks"] \subseteq Risks
    /\ "mainRisk" \in DOMAIN d => d["mainRisk"] \in Risks
    /\ \A f \in CurrentRisks \cap DOMAIN d : d[f] = None \/ d[f] \in RiskLevels[f]
    /\ \A f \in DeprivedShares \cap DOMAIN d : d[f] = None \/ d[f] \in 0 .. 100

UrgencySchema(level, d) ==
    /\ d["urgencyReason"] \in UrgencyReasons
    /\ level = "URGENCY_DETAILS" =>
           ("urgencyDetails" \in DOMAIN d <=> d["urgencyReason"] # "not_urgent")

ConfidenceSchema(d) == \A f \in DOMAIN d : d[f] \in ConfidenceLevels

\* One gate, and its quantity when it is open.
BenefitsSchema(level, d) ==
    CASE level = "GATE" -> \E g \in Gates : DOMAIN d = {g} /\ d[g] \in BOOLEAN
      [] level = "QUANTITY" ->
            \E g \in Gates : /\ g \in DOMAIN d /\ DOMAIN d \subseteq {g, Quantity[g]}
                             /\ d[g] \in BOOLEAN
                             /\ d[g] => Given(d, Quantity[g])
      [] OTHER -> d["environmentalBenefits"] \in BOOLEAN

\* A quantity behind a closed gate is taken out.
Strip(level, d) ==
    IF level = "QUANTITY" /\ \E g \in Gates \cap DOMAIN d : ~d[g]
    THEN [f \in DOMAIN d \cap Gates |-> d[f]]
    ELSE d

MeasureRow(m, row) ==
    /\ MeasureColumns[m].required \subseteq DOMAIN row
    /\ DOMAIN row \subseteq MeasureColumns[m].required \cup MeasureColumns[m].optional
    /\ \A c \in MeasureColumns[m].required : row[c] # None /\ row[c] > 0
    /\ \A c \in DOMAIN row : row[c] = None \/ row[c] >= 0
LandUseRow(row) == DOMAIN row = LandUseColumns /\ \A c \in LandUseColumns : row[c] # None

NfmSchema(level, d, rows) ==
    CASE level = "NFM_INCLUSION" -> d["naturalFloodRiskMeasuresIncluded"] \in BOOLEAN
      [] level = "NFM_SELECTED_MEASURES" ->
            d["nfmSelectedMeasures"] # {} /\ DOMAIN rows \subseteq Measures
      [] level = "NFM_LAND_USE_CHANGE" ->
            /\ d["nfmLandUseChange"] # {} /\ d["nfmLandUseChange"] \subseteq LandUses
            /\ DOMAIN rows \subseteq LandUses
      [] level = "NFM_MEASURE" -> \E m \in Measures : DOMAIN rows = {m} /\ MeasureRow(m, rows[m])
      [] level = "NFM_LAND_USE" -> \E u \in LandUses : DOMAIN rows = {u} /\ LandUseRow(rows[u])
      [] OTHER -> \A f \in DOMAIN d : d[f] \in NfmChoices[f]

\* The whole life benefits of a defence have a first figure.
BenefitFiguresSchema(d) ==
    "projectType" \in DOMAIN d =>
        /\ d["projectType"] \in Types
        /\ d["projectType"] \in MandatoryTypes =>
               Given(d, "wlbEstimatedWholeLifePvBenefits")
               /\ d["wlbEstimatedWholeLifePvBenefits"] # Blank

SchemaAccepts(form) ==
    LET level == form.level
        d == form.fields
    IN  /\ level \in DOMAIN Pages
        /\ Pages[level].needs \subseteq DOMAIN d
        /\ DOMAIN d \subseteq Pages[level].needs \cup Pages[level].may
        /\ level = "PROJECT_TYPE" => TypeSchema(d)
        /\ level \in DOMAIN StageOf => StageSchema(level, d)
        /\ level = "COULD_START_EARLY" => d["couldStartEarly"] \in BOOLEAN
        /\ level = "EARLIEST_WITH_GIA" => GiaSchema(d)
        /\ level \in DOMAIN RiskPages => RiskSchema(d)
        /\ level \in {"URGENCY_REASON", "URGENCY_DETAILS"} => UrgencySchema(level, d)
        /\ level \in DOMAIN ConfidencePages => ConfidenceSchema(d)
        /\ level \in DOMAIN BenefitPages => BenefitsSchema(level, d)
        /\ level \in DOMAIN NfmPages => NfmSchema(level, d, form.rows)
        /\ level = "WHOLE_LIFE_BENEFITS" => BenefitFiguresSchema(d)

-----------------------------------------------------------------------------
(***************************************************************************)
(* Checks of the handler against the project p it has read.                *)
(***************************************************************************)
YearsInOrder(d, p) ==
    LET year(f) == IF f \in DOMAIN d THEN d[f] ELSE p[f]
    IN  None \notin {year("financialStartYear"), year("financialEndYear")} =>
            year("financialStartYear") <= year("financialEndYear")

ConfidenceAllowed(level, p) ==
    level \in DOMAIN ConfidencePages => p["projectType"] \notin RestrictedTypes

\* A project without a last year has no date at all.
InTimelineBoundaries(level, d, p) ==
    level \in DOMAIN StageOf =>
        LET date == d[StageOf[level]]
        IN  /\ p["financialEndYear"] # None /\ date <= LastMonth(p["financialEndYear"])
            /\ p["financialStartYear"] # None => date >= FirstMonth(p["financialStartYear"])

Accepted(form, p) ==
    /\ YearsInOrder(form.fields, p)
    /\ ConfidenceAllowed(form.level, p)
    /\ InTimelineBoundaries(form.level, form.fields, p)

-----------------------------------------------------------------------------
(***************************************************************************)
(* The normalizers: the fields that are written as null because of what    *)
(* the page sends.                                                         *)
(***************************************************************************)
UnsentInterventions(level, d) ==
    IF level = "PROJECT_TYPE" THEN TypeFields \ DOMAIN d ELSE {}

\* Faulty: only the page of the date forgets it.
GiaOnItsPage(level, d) ==
    IF level = "EARLIEST_WITH_GIA" /\ ~d["couldStartEarly"] THEN {"earliestWithGia"} ELSE {}
GiaWithoutQuestion(level, d) ==
    IF level \in {"COULD_START_EARLY", "EARLIEST_WITH_GIA"} /\ ~d["couldStartEarly"]
    THEN {"earliestWithGia"} ELSE {}

DetailsWithoutUrgency(level, d) ==
    IF level \in {"URGENCY_REASON", "URGENCY_DETAILS"} /\ d["urgencyReason"] = "not_urgent"
    THEN {"urgencyDetails"} ELSE {}

ClosedBenefits(level, d) ==
    CASE level = "ENVIRONMENTAL_BENEFITS" ->
            IF d["environmentalBenefits"] THEN {} ELSE Gates \cup Quantities
      [] level = "GATE" -> {Quantity[g] : g \in {g \in DOMAIN d : ~d[g]}}
      [] OTHER -> {}

RiskLevelsWithoutRisk(level, d) ==
    IF level = "RISK" THEN {f \in CurrentRisks : d["risks"] \cap RisksOf[f] = {}} ELSE {}

ConfidenceOfOtherTypes(level, d) ==
    IF level = "PROJECT_TYPE" /\ d["projectType"] \in RestrictedTypes
    THEN ConfidenceFields ELSE {}

WholeLifeOfOtherTypes(level, d) ==
    IF level = "PROJECT_TYPE" /\ d["projectType"] \in SimplifiedTypes
    THEN CostFields \cup BenefitFields ELSE {}

CarbonOfOtherTypes(level, d) ==
    IF level = "PROJECT_TYPE" /\ d["projectType"] \in SimplifiedTypes
    THEN CarbonFields \cup {"carbonValuesHexdigest"} ELSE {}

\* Faulty: the empty string is written as it came.
BlankFiguresKept(level, d) == {}
BlankFigures(level, d) ==
    IF level \in {"WHOLE_LIFE_COST", "WHOLE_LIFE_BENEFITS"} \cup DOMAIN CarbonPages
    THEN {f \in DOMAIN d \cap TextFigures : d[f] = Blank}
    ELSE {}

InterventionsIn(d) ==
    IF Given(d, "projectInterventionTypes") THEN d["projectInterventionTypes"] ELSE {}

\* Natural flood management leaves the project, or is asked for in another
\* way than before.
NfmLeaves(level, d, p) ==
    /\ level = "PROJECT_TYPE"
    /\ InterventionsIn(p) \cap NfmInterventions # {}
    /\ InterventionsIn(d) \cap NfmInterventions = {}
NfmRefused(level, d, p) ==
    /\ level = "NFM_INCLUSION"
    /\ ~d["naturalFloodRiskMeasuresIncluded"]
    /\ p["naturalFloodRiskMeasuresIncluded"] = TRUE \/ p["nfmSelectedMeasures"] # None
NfmAskedAnew(level, d, p) ==
    /\ level = "PROJECT_TYPE"
    /\ InterventionsIn(p) \cap NfmInterventions # {}
    /\ "NFM" \in InterventionsIn(p) <=> "NFM" \notin InterventionsIn(d)

NfmAnswers(level, d, p) ==
    IF NfmLeaves(level, d, p) THEN NfmFields
    ELSE IF NfmRefused(level, d, p) THEN NfmFields \ {"naturalFloodRiskMeasuresIncluded"}
    ELSE IF NfmAskedAnew(level, d, p) THEN {"naturalFloodRiskMeasuresIncluded"}
    ELSE {}

Cleared(level, d, p) ==
    UNION {UnsentInterventions(level, d), GiaWithoutQuestion(level, d),
           DetailsWithoutUrgency(level, d), ClosedBenefits(level, d),
           RiskLevelsWithoutRisk(level, d), ConfidenceOfOtherTypes(level, d),
           WholeLifeOfOtherTypes(level, d), CarbonOfOtherTypes(level, d),
           BlankFigures(level, d), NfmAnswers(level, d, p)}

\* What is written for a page with the answers d, over the project p.
Normalized(level, d, p) == Over(d, Forgotten(Cleared(level, d, p)))
=============================================================================
