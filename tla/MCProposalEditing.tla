------------------------- MODULE MCProposalEditing -------------------------
EXTENDS ProposalEditing, TLC

Enter(level, fields) == [level |-> level, fields |-> fields, rows |-> Nothing]
EnterRows(level, fields, rows) == [level |-> level, fields |-> fields, rows |-> rows]

\* What users may enter: an answer or two for each kind of page, the empty
\* one and the one submission will refuse among them.
TypeEntries ==
    {Enter("PROJECT_TYPE", [projectType |-> t]) : t \in {"HCR", "STR"}}
    \cup {Enter("PROJECT_TYPE", [projectType |-> "DEF", projectInterventionTypes |-> s,
                                 mainInterventionType |-> "SUDS"]) :
            s \in {{"NFM", "SUDS"}, {"SUDS"}, {"Other"}}}
DateEntries ==
    {Enter("FINANCIAL_START_YEAR", [financialStartYear |-> 2]),
     Enter("FINANCIAL_END_YEAR", [financialEndYear |-> 1]),
     Enter("START_OUTLINE_BUSINESS_CASE", [startOutlineBusinessCase |-> 17]),
     Enter("COMPLETE_OUTLINE_BUSINESS_CASE", [completeOutlineBusinessCase |-> 18]),
     Enter("AWARD_CONTRACT", [awardContract |-> 21]),
     Enter("START_CONSTRUCTION", [startConstruction |-> 26]),
     Enter("READY_FOR_SERVICE", [readyForService |-> 30]),
     Enter("START_OUTLINE_BUSINESS_CASE", [startOutlineBusinessCase |-> 19]),
     Enter("START_CONSTRUCTION", [startConstruction |-> 22]),
     Enter("COULD_START_EARLY", [couldStartEarly |-> FALSE]),
     Enter("COULD_START_EARLY", [couldStartEarly |-> TRUE]),
     Enter("EARLIEST_WITH_GIA", [earliestWithGia |-> 16])}
RiskEntries ==
    {Enter("RISK", [risks |-> {"surface_water_flooding"}, noPropertiesAtRisk |-> TRUE]),
     Enter("CURRENT_FLOOD_SURFACE_WATER_RISK", [currentFloodSurfaceWaterRisk |-> "very_low"]),
     Enter("PROPERTY_AFFECTED_FLOODING",
           [noPropertiesAtRisk |-> FALSE, reducingFloodRisk50Plus |-> 0]),
     Enter("RISK", [risks |-> {"coastal_erosion"}, noPropertiesAtCoastalErosionRisk |-> TRUE]),
     Enter("CURRENT_COASTAL_EROSION_RISK", [currentCoastalErosionRisk |-> "medium_term"]),
     Enter("TWENTY_PERCENT_DEPRIVED", [percentProperties20PercentDeprived |-> None])}
GoalEntries ==
    {Enter("URGENCY_REASON", [urgencyReason |-> "not_urgent"]),
     Enter("URGENCY_REASON", [urgencyReason |-> "emergency_works"]),
     Enter("URGENCY_DETAILS", [urgencyDetails |-> "text"]),
     Enter("CONFIDENCE_HOMES_BETTER_PROTECTED", [confidenceHomesBetterProtected |-> "low"])}
BenefitEntries ==
    {Enter("ENVIRONMENTAL_BENEFITS", [environmentalBenefits |-> FALSE]),
     Enter("ENVIRONMENTAL_BENEFITS", [environmentalBenefits |-> TRUE]),
     Enter("GATE", [woodland |-> FALSE]), Enter("GATE", [woodland |-> TRUE]),
     Enter("QUANTITY", [hectaresOfWoodlandHabitatCreatedOrEnhanced |-> 2])}
NfmEntries ==
    {Enter("NFM_INCLUSION", [naturalFloodRiskMeasuresIncluded |-> FALSE]),
     Enter("NFM_INCLUSION", [naturalFloodRiskMeasuresIncluded |-> TRUE]),
     Enter("NFM_SELECTED_MEASURES", [nfmSelectedMeasures |-> {"offline_storage"}]),
     EnterRows("NFM_MEASURE", Nothing, [offline_storage |-> [areaHectares |-> 1]]),
     EnterRows("NFM_MEASURE", Nothing, [woodland |-> [areaHectares |-> 2]]),
     Enter("NFM_LAND_USE_CHANGE", [nfmLandUseChange |-> {"woodland", "peatland_restoration"}]),
     EnterRows("NFM_LAND_USE", Nothing, [woodland |-> [areaBeforeHectares |-> 1,
                                                     areaAfterHectares |-> 0]]),
     EnterRows("NFM_LAND_USE", Nothing, [peatland_restoration |-> [areaBeforeHectares |-> 0,
                                                             areaAfterHectares |-> 2]]),
     Enter("NFM_LANDOWNER_CONSENT", [nfmLandownerConsent |-> "not_yet_engaged"])}
FigureEntries ==
    {Enter("WHOLE_LIFE_COST", [wlcEstimatedFutureCosts |-> Blank]),
     Enter("WHOLE_LIFE_BENEFITS", [wlbEstimatedWholeLifePvBenefits |-> 3]),
     Enter("WHOLE_LIFE_BENEFITS", [wlbEstimatedWholeLifePvBenefits |-> Blank]),
     Enter("CARBON_IMPACT", [carbonCostBuild |-> 0, carbonOperationalCostForecast |-> Blank]),
     Enter("CARBON_OPERATIONAL_COST_FORECAST", [carbonOperationalCostForecast |-> 3]),
     Enter("CARBON_VALUES_HEXDIGEST", Nothing),
     EnterRows("FUNDING_SOURCES_ESTIMATED_SPEND", Nothing,
               [years |-> 1 :> [fcermGia |-> 2, publicContributions |-> 0]])}

\* All of it cleared, as the form does it, and a part.
ClearEntries ==
    {Enter("CLEAR_STALE_DATA",
           [f \in YearFields \cup Stages \cup {"couldStartEarly", "earliestWithGia"} |-> None]),
     Enter("CLEAR_STALE_DATA", [financialEndYear |-> 1, couldStartEarly |-> FALSE,
                                earliestWithGia |-> None, awardContract |-> None])}

MCEntries == TypeEntries \cup DateEntries \cup ClearEntries \cup RiskEntries \cup GoalEntries
             \cup BenefitEntries \cup NfmEntries \cup FigureEntries

-----------------------------------------------------------------------------
\* Complete proposals, of each kind of journey.
Unanswered == [f \in Fields |-> None]
Common ==
    [projectType |-> "ELO", financialStartYear |-> 1, financialEndYear |-> 2,
     startOutlineBusinessCase |-> 18, completeOutlineBusinessCase |-> 20,
     awardContract |-> 22, startConstruction |-> 25, readyForService |-> 36,
     couldStartEarly |-> TRUE, earliestWithGia |-> 17,
     risks |-> {"fluvial_flooding"}, mainRisk |-> "fluvial_flooding",
     currentFloodFluvialRisk |-> "high", noPropertiesAtRisk |-> FALSE,
     reducingFloodRisk50Plus |-> 4, percentProperties20PercentDeprived |-> 0,
     percentProperties40PercentDeprived |-> 100,
     approach |-> "text", urgencyReason |-> "not_urgent", environmentalBenefits |-> FALSE,
     carbonOperationalCostForecast |-> 2]
Defence ==
    [projectType |-> "DEF", urgencyReason |-> "statutory_need", urgencyDetails |-> "text"]
    @@ [f \in ConfidenceFields |-> "high"] @@ [f \in CostFields |-> 1]
    @@ [wlbEstimatedWholeLifePvBenefits |-> 5]
Habitat ==
    [environmentalBenefits |-> TRUE, hectaresOfWoodlandHabitatCreatedOrEnhanced |-> 1]
    @@ [g \in Gates |-> g = "woodland"]
NaturalFloodManagement ==
    [projectInterventionTypes |-> {"NFM"}, mainInterventionType |-> "NFM",
     nfmSelectedMeasures |-> {"woodland"}, nfmLandUseChange |-> {"woodland"},
     nfmLandownerConsent |-> "not_yet_engaged", nfmExperienceLevel |-> "no_experience",
     nfmProjectReadiness |-> "early_concept"]
Drainage ==
    [projectInterventionTypes |-> {"SUDS"}, mainInterventionType |-> "SUDS",
     naturalFloodRiskMeasuresIncluded |-> TRUE]
Study ==
    [projectType |-> "STR", carbonOperationalCostForecast |-> None, awardContract |-> None,
     completeOutlineBusinessCase |-> None, startConstruction |-> None]

Money == [selected |-> {"fcermGia", "publicContributions"},
          values |-> 2 :> [fcermGia |-> 1, publicContributions |-> 1],
          contributors |-> <<2, "publicContributions", "n">> :> 1]
Area == [areaHectares |-> 1]
Before == [areaBeforeHectares |-> 0, areaAfterHectares |-> 1]
Complete(p, rows) ==
    LET full == Over(Unanswered, p)
    IN  [fields |-> [full EXCEPT !["carbonValuesHexdigest"] =
                        IF full["projectType"] \in SimplifiedTypes THEN None
                        ELSE Hexdigest(full, Money)],
         measures |-> IF rows THEN [woodland |-> Area] ELSE Nothing,
         landUses |-> IF rows THEN [woodland |-> Before] ELSE Nothing,
         money |-> Money]

MCStarts ==
    {Complete(Common, FALSE), Complete(Over(Common, Study), FALSE),
     Complete(Over(Over(Over(Common, Defence), Habitat), NaturalFloodManagement), TRUE),
     Complete(Over(Over(Over(Common, Defence), NaturalFloodManagement), Drainage), TRUE)}

ASSUME StartsAreComplete ==
    \A s \in MCStarts : Submittable(s.fields, s.measures, s.landUses, s.money)

\* A proposal nobody has answered anything of is a start of StartsAssumption.
ASSUME NothingAnswered ==
    /\ Answered(Unanswered) /\ FollowedUp(Unanswered) /\ Tidy(Unanswered)
    /\ RowsTidy(Unanswered, Nothing, Nothing)

Symmetry == Permutations(Users)
=============================================================================
