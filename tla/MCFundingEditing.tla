--------------------------- MODULE MCFundingEditing ---------------------------
EXTENDS FundingEditing

\* One row of each kind the page of estimated spend can send: nothing, main
\* sources only, and amounts of the first or of the last name.
LastName == CHOOSE n \in Names : Names = {FirstName} \/ n # FirstName
RowsOfSpend ==
    {[amount |-> NoAmounts, by |-> [b \in Contributed \X Names |-> 0]],
     [amount |-> [s \in Sources |-> IF s \in Contributed THEN 0 ELSE MaxAmount],
      by |-> [b \in Contributed \X Names |-> IF b[2] = LastName THEN MaxAmount ELSE 0]],
     [amount |-> [s \in Sources |-> IF s \in Main THEN MaxAmount ELSE 0],
      by |-> [b \in Contributed \X Names |-> 0]]}

\* The same kind for each year that is sent.
Spends == {[level |-> "FUNDING_SOURCES_ESTIMATED_SPEND", rows |-> [y \in ys |-> row]] :
              ys \in SUBSET Years \ {{}}, row \in RowsOfSpend}

\* Everything is cleared, as the form does it; and a page that only sends a year
\* and a flag.
Clears ==
    {[level |-> "CLEAR_STALE_DATA", flag |-> [s \in Sources |-> FALSE], growth |-> FALSE,
      years |-> [e \in {"start", "end"} |-> None], names |-> [c \in Contributed |-> {}]]}
    \cup {[level |-> "CLEAR_STALE_DATA", flag |-> [s \in Main |-> FALSE], growth |-> None,
           years |-> [e \in {"end"} |-> y], names |-> [c \in {} |-> {}]] : y \in Years}

\* Pages of dates with both years, and the one that carries the first year only.
DatePages == {d \in DatePage : "start" \in DOMAIN d.years}

MCMenu == SelectSources \cup SelectAdditional \cup NameContributors \cup FinancialYear
          \cup DatePages \cup Clears \cup Spends
=============================================================================
