--------------------------- MODULE ProposalRules ---------------------------
(***************************************************************************)
(* The rules about a whole proposal: whether it may be submitted, the      *)
(* fingerprint of its carbon figures, and what is sent of it when it is.   *)
(*                                                                         *)
(* Beside its fields p a proposal has rows, functions from the columns     *)
(* that were given to amounts, for its measures and its land uses, and     *)
(* money = [selected, values, contributors]: the sources that are          *)
(* selected, year -> source -> amount, and the amounts of contributors,    *)
(* <<year, source, name>> -> amount.  An amount of 0 is 0 or NULL.         *)
(***************************************************************************)
EXTENDS ProposalPages, Sequences, FiniteSetsExt, Functions

CONSTANTS
    DirectSources,       \* sources without contributors: fcermGia, localLevy...
    ContributedSources,  \* sources with contributors: publicContributions...
    RateYears            \* the financial years with a rate of carbon

HasValue(p, f) == p[f] \notin {None, Blank}
AllGiven(p, S) == \A f \in S : HasValue(p, f)
IsPositive(p, f) == HasValue(p, f) /\ p[f] > 0
Listed(p, f) == IF HasValue(p, f) THEN p[f] ELSE {}
TotalOf(row) == MapThenSumSet(LAMBDA s : row[s], DOMAIN row)

-----------------------------------------------------------------------------
(***************************************************************************)
(* Submission, section by section.                                         *)
(***************************************************************************)
TypeComplete(p) ==
    /\ p["projectType"] \in Types
    /\ p["projectType"] \in MandatoryTypes =>
           /\ Listed(p, "projectInterventionTypes") # {}
           /\ p["projectInterventionTypes"] \subseteq Interventions
           /\ p["mainInterventionType"] \in Interventions

YearsComplete(p) ==
    AllGiven(p, YearFields) /\ p["financialStartYear"] <= p["financialEndYear"]

DatesOf(p) ==
    IF p["projectType"] \in SimplifiedTypes
    THEN <<"startOutlineBusinessCase", "readyForService">>
    ELSE <<"startOutlineBusinessCase", "completeOutlineBusinessCase", "awardContract",
           "startConstruction", "readyForService">>

DatesInOrder(p) ==
    \A i \in 1 .. Len(DatesOf(p)) - 1 : p[DatesOf(p)[i]] < p[DatesOf(p)[i + 1]]
DatesInYears(p) ==
    AllGiven(p, YearFields) =>
        \A stage \in Range(DatesOf(p)) :
            p[stage] \in FirstMonth(p["financialStartYear"]) .. LastMonth(p["financialEndYear"])

\* The form wants the date before the outline business case starts; here
\* its month is early enough.
GiaInRange(p) ==
    p["earliestWithGia"] \in FirstMonth(CurrentYear) .. p["startOutlineBusinessCase"]
CouldStartEarlyComplete(p) ==
    /\ HasValue(p, "couldStartEarly")
    /\ p["couldStartEarly"] = TRUE => HasValue(p, "earliestWithGia") /\ GiaInRange(p)

DatesComplete(p) ==
    /\ AllGiven(p, Range(DatesOf(p)))
    /\ DatesInOrder(p) /\ DatesInYears(p) /\ CouldStartEarlyComplete(p)

\* The years of money that count.
InYears(p, money) ==
    {y \in DOMAIN money.values :
        AllGiven(p, YearFields) => y \in p["financialStartYear"] .. p["financialEndYear"]}

SomethingSpent(p, money) == \E y \in InYears(p, money) : TotalOf(money.values[y]) > 0

\* A source with contributors is judged by them alone.
SourcesSpent(p, money) ==
    \A s \in money.selected \cap DirectSources :
        \E y \in InYears(p, money) : money.values[y][s] > 0

ContributorsSpent(p, money) ==
    LET counted == {k \in DOMAIN money.contributors : k[1] \in InYears(p, money)}
    IN  \A k \in counted :
            \E l \in counted : <<l[2], l[3]>> = <<k[2], k[3]>> /\ money.contributors[l] > 0

FloodPropertiesComplete(p) ==
    p["noPropertiesAtRisk"] = TRUE \/ \E f \in FloodCounts : IsPositive(p, f)
CoastPropertiesComplete(p) ==
    p["noPropertiesAtCoastalErosionRisk"] = TRUE \/ \E f \in CoastCounts : IsPositive(p, f)
CurrentRisksComplete(p) ==
    \A f \in CurrentRisks : Listed(p, "risks") \cap RisksOf[f] # {} => HasValue(p, f)

RiskComplete(p) ==
    /\ Listed(p, "risks") \cap FloodRisks # {} => FloodPropertiesComplete(p)
    /\ "coastal_erosion" \in Listed(p, "risks") => CoastPropertiesComplete(p)
    /\ \A f \in DeprivedShares : HasValue(p, f) /\ p[f] \in 0 .. 100
    /\ CurrentRisksComplete(p)

GoalsComplete(p) == HasValue(p, "approach")

BenefitsComplete(p) ==
    /\ HasValue(p, "environmentalBenefits")
    /\ p["environmentalBenefits"] = TRUE =>
           \A g \in Gates : HasValue(p, g) /\ (p[g] = TRUE => HasValue(p, Quantity[g]))

NfmRequired(p) ==
    /\ p["projectType"] \in MandatoryTypes
    /\ Listed(p, "projectInterventionTypes") \cap NfmInterventions # {}
    /\ "NFM" \in p["projectInterventionTypes"] \/ p["naturalFloodRiskMeasuresIncluded"] # FALSE

\* Faulty: the figures of the measures are not looked at.
SomeMeasures(p, measures) == Listed(p, "nfmSelectedMeasures") # {}
MeasuresComplete(p, measures) ==
    /\ Listed(p, "nfmSelectedMeasures") # {} \/ DOMAIN measures # {}
    /\ \A m \in Listed(p, "nfmSelectedMeasures") \cap Measures :
           m \in DOMAIN measures /\ MeasureColumns[m].required \subseteq DOMAIN measures[m]

LandUsesComplete(p, landUses) ==
    /\ Listed(p, "nfmLandUseChange") # {}
    /\ \A u \in p["nfmLandUseChange"] :
           u \in DOMAIN landUses /\ LandUseColumns \subseteq DOMAIN landUses[u]

NfmComplete(p, measures, landUses) ==
    NfmRequired(p) =>
        /\ MeasuresComplete(p, measures) /\ LandUsesComplete(p, landUses)
        /\ AllGiven(p, DOMAIN NfmChoices)

UrgencyComplete(p) ==
    /\ HasValue(p, "urgencyReason")
    /\ p["urgencyReason"] # "not_urgent" => HasValue(p, "urgencyDetails")

CostsComplete(p) == p["projectType"] \in MandatoryTypes => AllGiven(p, CostFields)
WholeLifeBenefitsComplete(p) ==
    p["projectType"] \in MandatoryTypes => HasValue(p, "wlbEstimatedWholeLifePvBenefits")
ConfidenceComplete(p) == p["projectType"] \in MandatoryTypes => AllGiven(p, ConfidenceFields)

-----------------------------------------------------------------------------
(***************************************************************************)
(* The fingerprint of the carbon figures: SHA-256 of the four rounded      *)
(* products of an amount and a rate.  It is kept when the page of carbon   *)
(* is saved, and shows whether what the figures come from has changed.  A  *)
(* product stands for its factors; no rate makes it null, and the amount 0 *)
(* makes it 0 whatever the rate.                                           *)
(***************************************************************************)
FinancialYear(date) == (date - 4) \div 12

MidYear(p) ==
    IF AllGiven(p, {"startConstruction", "readyForService"})
    THEN (FinancialYear(p["startConstruction"]) + FinancialYear(p["readyForService"])) \div 2
    ELSE None
ReadyYear(p) ==
    IF HasValue(p, "readyForService") THEN FinancialYear(p["readyForService"]) ELSE None

\* The rate of the year, or of the last year before it that has one.
RateYear(year) ==
    IF year = None THEN None
    ELSE LET known == {y \in RateYears : y <= year}
         IN  IF known = {} THEN None ELSE Max(known)

ConstructionFunding(p, money) ==
    IF AllGiven(p, {"startConstruction", "readyForService"})
    THEN MapThenSumSet(LAMBDA y : TotalOf(money.values[y]),
                       {y \in DOMAIN money.values :
                            /\ y >= FinancialYear(p["startConstruction"])
                            /\ y <= FinancialYear(p["readyForService"])})
    ELSE 0
OperationalFunding(p) ==
    IF HasValue(p, "carbonOperationalCostForecast") THEN p["carbonOperationalCostForecast"] ELSE 0

Product(amount, year) ==
    IF RateYear(year) = None THEN None
    ELSE <<amount, IF amount = 0 THEN 0 ELSE RateYear(year)>>
CapitalCarbon(p, money) == Product(ConstructionFunding(p, money), MidYear(p))
OperationalCarbon(p) == Product(OperationalFunding(p), ReadyYear(p))

Hexdigest(p, money) == <<CapitalCarbon(p, money), OperationalCarbon(p)>>

ValuesChanged(p, money) ==
    /\ p["carbonValuesHexdigest"] # None
    /\ p["carbonValuesHexdigest"] # Hexdigest(p, money)

CarbonComplete(p, money) ==
    p["projectType"] \notin SimplifiedTypes =>
        HasValue(p, "carbonOperationalCostForecast") /\ ~ValuesChanged(p, money)

\* Its file of the benefit area is there: BenefitAreaFile has its life.
Submittable(p, measures, landUses, money) ==
    /\ TypeComplete(p) /\ YearsComplete(p) /\ DatesComplete(p)
    /\ SomethingSpent(p, money) /\ SourcesSpent(p, money) /\ ContributorsSpent(p, money)
    /\ RiskComplete(p) /\ GoalsComplete(p) /\ BenefitsComplete(p)
    /\ NfmComplete(p, measures, landUses) /\ UrgencyComplete(p)
    /\ CostsComplete(p) /\ WholeLifeBenefitsComplete(p) /\ ConfidenceComplete(p)
    /\ CarbonComplete(p, money)

-----------------------------------------------------------------------------
(***************************************************************************)
(* What is sent of a proposal.  The payload has names of its own; the name *)
(* of the field an entry is made from stands for it, and a label for the   *)
(* value it is looked up with.                                             *)
(***************************************************************************)
Plain(p, S) == [f \in S |-> p[f]]
\* A figure of 0 is sent as null.
Numbers(p, S) == [f \in S |-> IF p[f] = 0 THEN None ELSE p[f]]

SentDetails(p) ==
    Over(Plain(p, {"projectType", "mainInterventionType"}),
         [projectInterventionTypes |->
            [i \in Interventions |-> i \in Listed(p, "projectInterventionTypes")]])

SentDates(p) ==
    LET simplified == p["projectType"] \in SimplifiedTypes
    IN  Over([stage \in Stages |->
                IF simplified /\ stage \notin {"startOutlineBusinessCase", "readyForService"}
                THEN None ELSE p[stage]],
             Plain(p, {"earliestWithGia", "financialStartYear"}))

SentRisks(p) ==
    Over(Over(Over([risks |-> [r \in Risks |-> r \in Listed(p, "risks")]],
                   Plain(p, {"mainRisk"} \cup DeprivedShares)),
              Numbers(p, FloodCounts \cup CoastCounts)),
         [f \in CurrentRisks |-> IF HasValue(p, f) THEN p[f] ELSE "not_applicable"])

SentBenefits(p) == Plain(p, Quantities)

SentGoals(p) == Plain(p, {"approach", "urgencyReason", "urgencyDetails"} \cup ConfidenceFields)

\* Every row is sent, also of a measure that is not selected.
SentMeasures(measures) ==
    [m \in Measures |->
        [c \in MeasureColumns[m].required \cup MeasureColumns[m].optional |->
            IF m \in DOMAIN measures /\ c \in DOMAIN measures[m] THEN measures[m][c] ELSE None]]
SentLandUses(landUses) ==
    [u \in LandUses |->
        [c \in LandUseColumns |->
            IF u \in DOMAIN landUses /\ c \in DOMAIN landUses[u] THEN landUses[u][c] ELSE None]]
SentNfm(p) == Plain(p, DOMAIN NfmChoices)

\* Studies and strategies have the money of their construction for their
\* capital carbon.
SentCarbon(p, money) ==
    IF p["projectType"] \in SimplifiedTypes
    THEN [f \in CarbonFields |->
            CASE f = "carbonCostBuild" -> ConstructionFunding(p, money)
              [] f = "carbonCostOperation" -> 0
              [] OTHER -> None]
    ELSE Over(Plain(p, {"carbonCostBuild", "carbonCostOperation", "carbonCostSequestered",
                        "carbonCostAvoided"}),
              Numbers(p, {"carbonOperationalCostForecast", "carbonSavingsNetEconomicBenefit"}))

SentFinancials(p, money) == Over(Numbers(p, CostFields \cup BenefitFields), SentCarbon(p, money))

\* The columns of the sources without contributors, and the contributors.
SentFunding(money) ==
    [y \in DOMAIN money.values |->
        [amounts |-> Numbers(money.values[y], DirectSources),
         contributors |-> {<<k[2], k[3], money.contributors[k]>> :
                             k \in {k \in DOMAIN money.contributors : k[1] = y}}]]

Payload(p, measures, landUses, money) ==
    [answers |-> Over(Over(Over(Over(Over(Over(SentDetails(p), SentDates(p)), SentRisks(p)),
                      SentBenefits(p)), SentGoals(p)), SentNfm(p)), SentFinancials(p, money)),
     measures |-> SentMeasures(measures),
     landUses |-> SentLandUses(landUses),
     funding |-> SentFunding(money)]
=============================================================================
