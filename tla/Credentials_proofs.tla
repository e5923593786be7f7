------------------------ MODULE Credentials_proofs ------------------------
(***************************************************************************)
(* Proofs about Credentials, for any number of accounts, requests and      *)
(* passwords, any limits and any number of links and failures: the types,  *)
(* that a reset link is good for one password, that nobody is stuck, and   *)
(* that a reset gives none of the latest passwords of its account.         *)
(***************************************************************************)
EXTENDS Credentials, FiniteSetTheorems, TLAPS

----------------------------------------------------------------------------
(* Types                                                                   *)

\* What the operators that requests are built from do to the variables.
LEMMA ContinueTyped ==
    ASSUME RequestsOK, NEW r \in Request, NEW s \in Step, Continue(r, s)
    PROVE  RequestsOK'
BY DEF RequestsOK, Continue

LEMMA BeginTyped ==
    ASSUME TypeOK, NEW r \in Request, NEW u \in User, NEW s \in Step,
           NEW l \in Link \cup {None}, NEW p \in Password \cup {None},
           Begin(r, u, s, l, p),
           s \in Resetting \cup {"read", "set"} => l # None /\ p # None,
           s # "archive"
    PROVE  TypeOK'
<1> USE DEF Begin, ghostVars
<1>1. RowsOK'
  BY DEF TypeOK, RowsOK
<1>2. LinksOK'
  BY DEF TypeOK, LinksOK
<1>3. RequestsOK'
  BY DEF TypeOK, RequestsOK
<1>4. ValuesOK'
  BY DEF TypeOK, ValuesOK, RequestsOK
<1> QED BY <1>1, <1>2, <1>3, <1>4 DEF TypeOK

LEMMA GenerateTyped ==
    ASSUME RequestsOK, LinksOK, NEW r \in Request, Generate(r, "mail")
    PROVE  RequestsOK' /\ issued' \in Link
<1>1. issued' \in Link
  BY LimitAssumption DEF LinksOK, Generate, Link
<1> QED BY <1>1 DEF RequestsOK, Generate, Step

LEMMA UpdateTyped ==
    ASSUME TypeOK, NEW r \in Request, NEW row \in UserRow, Update(r, row)
    PROVE  users' \in [User -> UserRow]
BY DEF TypeOK, RowsOK, RequestsOK, Update

LEMMA ZeroIsAnAge ==
    0 \in 0 .. ResetExpiry + 1 /\ 0 \in 0 .. InviteExpiry + 1
BY LimitAssumption

\* A request's account is one of the table.
LEMMA RowTyped ==
    ASSUME TypeOK, NEW r \in Request
    PROVE  for[r] \in User /\ users[for[r]] \in UserRow
BY DEF TypeOK, RowsOK, RequestsOK

LEMMA AddingTyped ==
    ASSUME TypeOK, NEW rows \in SUBSET Row, NEW p \in Password
    PROVE  Adding(rows, p) \in SUBSET Row /\ Given(rows, p) \in SUBSET Row
<1>1. Adding(rows, p) \in SUBSET Row
  BY DEF Adding, Row, TypeOK, RowsOK
<1> QED BY <1>1 DEF Given, Newest

LEMMA ContinueValues ==
    ASSUME TypeOK, NEW r \in Request, NEW s \in Step, Continue(r, s),
           s \in Resetting \cup {"read", "set"} =>
              link[r] # None /\ choice[r] # None,
           s = "archive" => current[r] # None,
           \A u \in User : users'[u].status = "active" =>
                               users'[u].password # None
    PROVE  ValuesOK'
BY DEF TypeOK, ValuesOK, RequestsOK, Continue, Resetting

\* Every step keeps the types; one lemma for each action.
LEMMA PerformUpsertTyped ==
    ASSUME TypeOK, NEW r \in Request, PerformUpsert(r)
    PROVE  TypeOK'
<1> DEFINE u == users[for[r]]
<1> DEFINE made == [NoUser EXCEPT !.status = IF link[r] = None THEN "pending"
                                             ELSE "approved",
                                  !.invite = link[r]]
<1> DEFINE row == IF u.status = "absent" THEN made ELSE u
<1> DEFINE s == IF row.status = "approved" THEN "mail" ELSE "idle"
<1>1. s \in Step /\ Continue(r, s)
  BY DEF PerformUpsert, Step
<1>2. row \in UserRow /\ Update(r, row)
  <2>1. made \in UserRow
    BY ZeroIsAnAge DEF NoUser, UserRow, TypeOK, RequestsOK
  <2> QED BY <2>1, RowTyped DEF PerformUpsert
<1>3. RowsOK'
  BY <1>2, UpdateTyped DEF PerformUpsert, TypeOK, RowsOK, ghostVars
<1>4. ValuesOK'
  <2>1. row.status = "active" => row.password # None
    BY RowTyped DEF TypeOK, ValuesOK, NoUser
  <2>2. \A v \in User : users'[v].status = "active" =>
                            users'[v].password # None
    BY <1>2, <2>1 DEF Update, TypeOK, ValuesOK, RowsOK
  <2> QED BY <1>1, <2>2, ContinueValues DEF Resetting
<1>5. LinksOK'
  BY DEF PerformUpsert, TypeOK, LinksOK, ghostVars
<1>6. RequestsOK'
  BY <1>1, ContinueTyped DEF TypeOK
<1> QED BY <1>3, <1>4, <1>5, <1>6 DEF TypeOK

LEMMA UpdateUserInvitationTokenTyped ==
    ASSUME TypeOK, NEW r \in Request, UpdateUserInvitationToken(r)
    PROVE  TypeOK'
<1> DEFINE row == [users[for[r]] EXCEPT !.status = InvitedStatus(r),
                                        !.invite = issued',
                                        !.inviteAge = 0]
<1>1. RequestsOK' /\ issued' \in Link
  BY GenerateTyped DEF UpdateUserInvitationToken, TypeOK
<1>2. row \in UserRow /\ Update(r, row)
  <2>1. row \in UserRow
    BY <1>1, RowTyped, ZeroIsAnAge DEF UserRow, InvitedStatus
  <2> QED BY <2>1 DEF UpdateUserInvitationToken
<1>3. RowsOK'
  BY <1>2, UpdateTyped DEF UpdateUserInvitationToken, TypeOK, RowsOK, Generate
<1>4. row.password = users[for[r]].password
      /\ (row.status = "active" => users[for[r]].status = "active")
  BY RowTyped DEF UserRow, InvitedStatus
<1>5. ValuesOK'
  BY <1>2, <1>4 DEF UpdateUserInvitationToken, Generate, Update, TypeOK,
     ValuesOK, RowsOK, RequestsOK, Resetting
<1>6. LinksOK'
  BY <1>1, RowTyped, LimitAssumption
     DEF UpdateUserInvitationToken, Generate, TypeOK, LinksOK, Link
<1> QED BY <1>1, <1>3, <1>5, <1>6 DEF TypeOK

LEMMA MailTyped ==
    ASSUME TypeOK, NEW r \in Request, Mail(r)
    PROVE  TypeOK'
<1> DEFINE s == "idle"
<1>1. s \in Step /\ Continue(r, s)
  BY RowTyped DEF Mail, Step, Writing, Resetting
<1>3. RowsOK'
  BY RowTyped DEF Mail, TypeOK, RowsOK, ghostVars
<1>4. ValuesOK'
  <2>1. \A u \in User : users'[u].status = "active" =>
                            users'[u].password # None
    BY DEF Mail, TypeOK, ValuesOK
  <2> QED
    BY <1>1, <2>1, ContinueValues DEF Mail, TypeOK, ValuesOK, Resetting
<1>5. LinksOK'
  BY RowTyped, LimitAssumption DEF Mail, TypeOK, LinksOK, RequestsOK,
     ghostVars
<1>6. RequestsOK'
  BY <1>1, ContinueTyped DEF TypeOK
<1> QED BY <1>3, <1>4, <1>5, <1>6 DEF TypeOK

LEMMA ClearInvitationTokenTyped ==
    ASSUME TypeOK, NEW r \in Request, ClearInvitationToken(r)
    PROVE  TypeOK'
<1> DEFINE s == "idle"
<1>1. s \in Step /\ Continue(r, s)
  BY RowTyped DEF ClearInvitationToken, Step, Writing, Resetting
<1> DEFINE row == [users[for[r]] EXCEPT !.invite = None, !.inviteAge = 0]
<1>2. row \in UserRow /\ Update(r, row)
  <2>1. row \in UserRow
    BY RowTyped, ZeroIsAnAge DEF UserRow
  <2> QED BY <2>1 DEF ClearInvitationToken
<1>3. RowsOK'
  BY <1>2, UpdateTyped DEF ClearInvitationToken, TypeOK, RowsOK, ghostVars
<1>4. ValuesOK'
  <2>1. \A u \in User : users'[u].status = "active" =>
                            users'[u].password # None
    BY <1>2, RowTyped DEF Update, TypeOK, ValuesOK, RowsOK, RequestsOK,
       Resetting, ClearInvitationToken
  <2> QED
    BY <1>1, <2>1, ContinueValues DEF ClearInvitationToken, TypeOK, ValuesOK,
       Resetting
<1>5. LinksOK'
  BY RowTyped, LimitAssumption DEF ClearInvitationToken, TypeOK, LinksOK,
     RequestsOK, ghostVars
<1>6. RequestsOK'
  BY <1>1, ContinueTyped DEF TypeOK
<1> QED BY <1>3, <1>4, <1>5, <1>6 DEF TypeOK

LEMMA ReadDisabledTyped ==
    ASSUME TypeOK, NEW r \in Request, ReadDisabled(r)
    PROVE  TypeOK'
<1> DEFINE s == IF users[for[r]].disabled THEN "idle" ELSE "set"
<1>1. s \in Step /\ Continue(r, s)
  BY RowTyped DEF ReadDisabled, Step, Writing, Resetting
<1>3. RowsOK'
  BY RowTyped DEF ReadDisabled, TypeOK, RowsOK, ghostVars
<1>4. ValuesOK'
  <2>1. \A u \in User : users'[u].status = "active" =>
                            users'[u].password # None
    BY DEF ReadDisabled, TypeOK, ValuesOK
  <2> QED
    BY <1>1, <2>1, ContinueValues DEF ReadDisabled, TypeOK, ValuesOK,
       Resetting
<1>5. LinksOK'
  BY RowTyped, LimitAssumption DEF ReadDisabled, TypeOK, LinksOK, RequestsOK,
     ghostVars
<1>6. RequestsOK'
  BY <1>1, ContinueTyped DEF TypeOK
<1> QED BY <1>3, <1>4, <1>5, <1>6 DEF TypeOK

LEMMA SetInitialPasswordTyped ==
    ASSUME TypeOK, NEW r \in Request, SetInitialPassword(r)
    PROVE  TypeOK'
<1> DEFINE row == [users[for[r]] EXCEPT !.password = choice[r],
                                        !.status = "active"]
<1>1. choice[r] \in Password
  BY DEF SetInitialPassword, TypeOK, ValuesOK, RequestsOK
<1>2. row \in UserRow /\ Update(r, row)
  BY <1>1, RowTyped DEF SetInitialPassword, UserRow
<1>3. RowsOK'
  <2>1. Given(set[for[r]], choice[r]) \in SUBSET Row
    BY <1>1, RowTyped, AddingTyped DEF TypeOK, RowsOK
  <2>2. users' \in [User -> UserRow]
    BY <1>2, UpdateTyped
  <2>3. set' \in [User -> SUBSET Row]
    BY <2>1 DEF SetInitialPassword, TypeOK, RowsOK
  <2>4. UNCHANGED old /\ written' \in Nat
    BY DEF SetInitialPassword, TypeOK, RowsOK
  <2> QED BY <2>2, <2>3, <2>4 DEF TypeOK, RowsOK
<1>4. Continue(r, "accept") /\ "accept" \in Step
  BY DEF SetInitialPassword, Step
<1>5. ValuesOK'
  <2>1. \A u \in User : users'[u].status = "active" =>
                            users'[u].password # None
    BY <1>1, <1>2, LimitAssumption, RowTyped
       DEF Update, TypeOK, ValuesOK, RowsOK, UserRow
  <2> QED BY <1>4, <2>1, ContinueValues DEF Resetting
<1>6. LinksOK'
  BY RowTyped DEF SetInitialPassword, TypeOK, LinksOK
<1>7. RequestsOK'
  BY <1>4, ContinueTyped DEF TypeOK
<1> QED BY <1>3, <1>5, <1>6, <1>7 DEF TypeOK

LEMMA AcceptInvitationTyped ==
    ASSUME TypeOK, NEW r \in Request, AcceptInvitation(r)
    PROVE  TypeOK'
<1> DEFINE s == "idle"
<1>1. s \in Step /\ Continue(r, s)
  BY RowTyped DEF AcceptInvitation, Step, Writing, Resetting
<1> DEFINE row == [users[for[r]] EXCEPT !.invite = None, !.inviteAge = 0,
                                        !.accepted = TRUE]
<1>2. row \in UserRow /\ Update(r, row)
  <2>1. row \in UserRow
    BY RowTyped, ZeroIsAnAge DEF UserRow
  <2> QED BY <2>1 DEF AcceptInvitation
<1>3. RowsOK'
  BY <1>2, UpdateTyped DEF AcceptInvitation, TypeOK, RowsOK, ghostVars
<1>4. ValuesOK'
  <2>1. \A u \in User : users'[u].status = "active" =>
                            users'[u].password # None
    BY <1>2, RowTyped DEF Update, TypeOK, ValuesOK, RowsOK, RequestsOK,
       Resetting, AcceptInvitation
  <2> QED
    BY <1>1, <2>1, ContinueValues DEF AcceptInvitation, TypeOK, ValuesOK,
       Resetting
<1>5. LinksOK'
  BY RowTyped, LimitAssumption DEF AcceptInvitation, TypeOK, LinksOK,
     RequestsOK, ghostVars
<1>6. RequestsOK'
  BY <1>1, ContinueTyped DEF TypeOK
<1> QED BY <1>3, <1>4, <1>5, <1>6 DEF TypeOK

LEMMA StoreResetLinkTyped ==
    ASSUME TypeOK, NEW r \in Request, StoreResetLink(r)
    PROVE  TypeOK'
<1> DEFINE row == [users[for[r]] EXCEPT !.reset = issued', !.resetAge = 0]
<1>1. RequestsOK' /\ issued' \in Link
  BY GenerateTyped DEF StoreResetLink, TypeOK
<1>2. row \in UserRow /\ Update(r, row)
  <2>1. row \in UserRow
    BY <1>1, RowTyped, ZeroIsAnAge DEF UserRow
  <2> QED BY <2>1 DEF StoreResetLink
<1>3. RowsOK'
  BY <1>2, UpdateTyped DEF StoreResetLink, TypeOK, RowsOK, ghostVars
<1>4. row.password = users[for[r]].password
      /\ (row.status = "active" => users[for[r]].status = "active")
  BY RowTyped DEF UserRow
<1>5. ValuesOK'
  BY <1>2, <1>4 DEF StoreResetLink, Generate, Update, TypeOK, ValuesOK, RowsOK,
     RequestsOK, Resetting
<1>6. LinksOK'
  BY <1>1, RowTyped, LimitAssumption
     DEF StoreResetLink, Generate, TypeOK, LinksOK, Link, ghostVars
<1> QED BY <1>1, <1>3, <1>5, <1>6 DEF TypeOK

LEMMA ClearResetTokenTyped ==
    ASSUME TypeOK, NEW r \in Request, ClearResetToken(r)
    PROVE  TypeOK'
<1> DEFINE s == "idle"
<1>1. s \in Step /\ Continue(r, s)
  BY RowTyped DEF ClearResetToken, Step, Writing, Resetting
<1> DEFINE row == [users[for[r]] EXCEPT !.reset = None, !.resetAge = 0]
<1>2. row \in UserRow /\ Update(r, row)
  <2>1. row \in UserRow
    BY RowTyped, ZeroIsAnAge DEF UserRow
  <2> QED BY <2>1 DEF ClearResetToken
<1>3. RowsOK'
  BY <1>2, UpdateTyped DEF ClearResetToken, TypeOK, RowsOK, ghostVars
<1>4. ValuesOK'
  <2>1. \A u \in User : users'[u].status = "active" =>
                            users'[u].password # None
    BY <1>2, RowTyped DEF Update, TypeOK, ValuesOK, RowsOK, RequestsOK,
       Resetting, ClearResetToken
  <2> QED
    BY <1>1, <2>1, ContinueValues DEF ClearResetToken, TypeOK, ValuesOK,
       Resetting
<1>5. LinksOK'
  BY RowTyped, LimitAssumption DEF ClearResetToken, TypeOK, LinksOK,
     RequestsOK, ghostVars
<1>6. RequestsOK'
  BY <1>1, ContinueTyped DEF TypeOK
<1> QED BY <1>3, <1>4, <1>5, <1>6 DEF TypeOK

LEMMA GetCurrentPasswordTyped ==
    ASSUME TypeOK, NEW r \in Request, GetCurrentPassword(r)
    PROVE  TypeOK'
<1>1. RowsOK' /\ LinksOK'
  BY DEF GetCurrentPassword, TypeOK, RowsOK, LinksOK, ghostVars
<1>2. CASE users[for[r]].password = choice[r]
  <2>1. Continue(r, "idle") /\ "idle" \in Step
    BY <1>2 DEF GetCurrentPassword, Step
  <2>2. ValuesOK'
    BY <2>1, ContinueValues DEF GetCurrentPassword, TypeOK, ValuesOK,
       Resetting
  <2> QED BY <1>1, <2>1, <2>2, ContinueTyped DEF TypeOK
<1>3. CASE users[for[r]].password # choice[r]
  <2>1. RequestsOK'
    BY <1>3, RowTyped DEF GetCurrentPassword, TypeOK, RequestsOK, Step,
       Resetting, UserRow
  <2>2. ValuesOK'
    BY <1>3 DEF GetCurrentPassword, TypeOK, ValuesOK, RequestsOK, Resetting
  <2> QED BY <1>1, <2>1, <2>2 DEF TypeOK
<1> QED BY <1>2, <1>3

LEMMA CheckPasswordReuseTyped ==
    ASSUME TypeOK, NEW r \in Request, CheckPasswordReuse(r)
    PROVE  TypeOK'
<1> DEFINE s == IF choice[r] \in Passwords(Newest(old[for[r]], Limit))
              THEN "idle" ELSE "claim"
<1>1. s \in Step /\ Continue(r, s)
  BY RowTyped DEF CheckPasswordReuse, Step, Writing, Resetting
<1>3. RowsOK'
  BY RowTyped DEF CheckPasswordReuse, TypeOK, RowsOK, Continue
<1>4. ValuesOK'
  <2>1. \A u \in User : users'[u].status = "active" =>
                            users'[u].password # None
    BY DEF CheckPasswordReuse, TypeOK, ValuesOK
  <2> QED
    BY <1>1, <2>1, ContinueValues DEF CheckPasswordReuse, TypeOK, ValuesOK,
       Resetting
<1>5. LinksOK'
  BY RowTyped, LimitAssumption DEF CheckPasswordReuse, TypeOK, LinksOK,
     RequestsOK, Continue
<1>6. RequestsOK'
  BY <1>1, ContinueTyped DEF TypeOK
<1> QED BY <1>3, <1>4, <1>5, <1>6 DEF TypeOK

LEMMA UpdateUserPasswordTyped ==
    ASSUME TypeOK, NEW r \in Request, UpdateUserPassword(r)
    PROVE  TypeOK'
<1>1. choice[r] \in Password /\ link[r] \in Link
  BY DEF UpdateUserPassword, TypeOK, ValuesOK, RequestsOK, Resetting
<1>2. CASE ~HoldsLink(r)
  <2>1. Continue(r, "idle") /\ "idle" \in Step
    BY <1>2 DEF UpdateUserPassword, Step
  <2>2. ValuesOK'
    BY <1>2, <2>1, ContinueValues DEF UpdateUserPassword, TypeOK, ValuesOK,
       Resetting
  <2>3. RowsOK' /\ LinksOK'
    BY <1>2 DEF UpdateUserPassword, TypeOK, RowsOK, LinksOK
  <2> QED BY <2>1, <2>2, <2>3, ContinueTyped DEF TypeOK
<1>3. CASE HoldsLink(r)
  <2> DEFINE row == [users[for[r]] EXCEPT !.password = choice[r],
                                          !.reset = None, !.resetAge = 0]
  <2>1. row \in UserRow /\ Update(r, row)
    <3>1. row \in UserRow
      BY <1>1, RowTyped, ZeroIsAnAge DEF UserRow
    <3> QED BY <1>3, <3>1 DEF UpdateUserPassword
  <2>2. RowsOK'
    <3>1. Given(set[for[r]], choice[r]) \in SUBSET Row
      BY <1>1, RowTyped, AddingTyped DEF TypeOK, RowsOK
    <3> QED BY <1>3, <2>1, <3>1, UpdateTyped
            DEF UpdateUserPassword, TypeOK, RowsOK
  <2>3. LinksOK'
    BY <1>1, <1>3, RowTyped DEF UpdateUserPassword, TypeOK, LinksOK
  <2>4. Continue(r, AfterClaim(r)) /\ AfterClaim(r) \in Step
    BY <1>3 DEF UpdateUserPassword, AfterClaim, Step, Resetting
  <2>5. ValuesOK'
    <3>1. \A u \in User : users'[u].status = "active" =>
                              users'[u].password # None
      BY <1>1, <2>1, LimitAssumption, RowTyped
         DEF Update, TypeOK, ValuesOK, RowsOK, UserRow
    <3>2. link[r] # None /\ choice[r] # None
      BY <1>1, LimitAssumption DEF Link
    <3> QED BY <2>4, <3>1, <3>2, ContinueValues DEF AfterClaim
  <2> QED BY <2>2, <2>3, <2>4, <2>5, ContinueTyped DEF TypeOK
<1> QED BY <1>2, <1>3

LEMMA ArchiveOldPasswordTyped ==
    ASSUME TypeOK, NEW r \in Request, ArchiveOldPassword(r)
    PROVE  TypeOK'
<1>1. current[r] \in Password /\ link[r] # None /\ choice[r] # None
  BY DEF ArchiveOldPassword, TypeOK, ValuesOK, RequestsOK, Resetting
<1>2. RowsOK'
  <2>1. Adding(old[for[r]], Replaced(r)) \in SUBSET Row
    BY <1>1, RowTyped, AddingTyped DEF TypeOK, RowsOK, Replaced
  <2>2. old' \in [User -> SUBSET Row]
    BY <2>1 DEF ArchiveOldPassword, TypeOK, RowsOK
  <2> QED BY <2>2 DEF ArchiveOldPassword, TypeOK, RowsOK
<1>3. Continue(r, "old") /\ "old" \in Step
  BY DEF ArchiveOldPassword, Step, Resetting
<1>4. ValuesOK'
  BY <1>1, <1>3, ContinueValues DEF ArchiveOldPassword, TypeOK, ValuesOK
<1>5. LinksOK'
  BY DEF ArchiveOldPassword, TypeOK, LinksOK
<1> QED BY <1>2, <1>3, <1>4, <1>5, ContinueTyped DEF TypeOK

LEMMA FindOldPasswordsTyped ==
    ASSUME TypeOK, NEW r \in Request, FindOldPasswords(r)
    PROVE  TypeOK'
<1> DEFINE rest == old[for[r]] \ Newest(old[for[r]], Limit)
<1>1. RowsOK' /\ LinksOK'
  BY DEF FindOldPasswords, TypeOK, RowsOK, LinksOK, ghostVars
<1>2. CASE rest = {}
  <2>1. Continue(r, "idle") /\ "idle" \in Step
    BY <1>2 DEF FindOldPasswords, Step
  <2>2. ValuesOK'
    BY <2>1, ContinueValues DEF FindOldPasswords, TypeOK, ValuesOK, Resetting
  <2> QED BY <1>1, <2>1, <2>2, ContinueTyped DEF TypeOK
<1>3. CASE rest # {}
  <2>1. rest \in SUBSET Row
    BY RowTyped DEF TypeOK, RowsOK
  <2>2. RequestsOK'
    BY <1>3, <2>1 DEF FindOldPasswords, TypeOK, RequestsOK, Step, Resetting
  <2>3. ValuesOK'
    BY <1>3 DEF FindOldPasswords, TypeOK, ValuesOK, RequestsOK, Resetting
  <2> QED BY <1>1, <2>2, <2>3 DEF TypeOK
<1> QED BY <1>2, <1>3

LEMMA DeleteOldPasswordsTyped ==
    ASSUME TypeOK, NEW r \in Request, DeleteOldPasswords(r)
    PROVE  TypeOK'
<1> DEFINE s == "idle"
<1>1. s \in Step /\ Continue(r, s)
  BY RowTyped DEF DeleteOldPasswords, Step, Writing, Resetting
<1>3. RowsOK'
  BY RowTyped DEF DeleteOldPasswords, TypeOK, RowsOK, ghostVars
<1>4. ValuesOK'
  <2>1. \A u \in User : users'[u].status = "active" =>
                            users'[u].password # None
    BY DEF DeleteOldPasswords, TypeOK, ValuesOK
  <2> QED
    BY <1>1, <2>1, ContinueValues DEF DeleteOldPasswords, TypeOK, ValuesOK,
       Resetting
<1>5. LinksOK'
  BY RowTyped, LimitAssumption DEF DeleteOldPasswords, TypeOK, LinksOK,
     RequestsOK, ghostVars
<1>6. RequestsOK'
  BY <1>1, ContinueTyped DEF TypeOK
<1> QED BY <1>3, <1>4, <1>5, <1>6 DEF TypeOK

LEMMA FailTyped ==
    ASSUME TypeOK, NEW r \in Request, Fail(r)
    PROVE  TypeOK'
<1> DEFINE s == "idle"
<1>1. s \in Step /\ Continue(r, s)
  BY RowTyped DEF Fail, Step, Writing, Resetting
<1>3. RowsOK'
  BY RowTyped DEF Fail, TypeOK, RowsOK, Continue
<1>4. ValuesOK'
  <2>1. \A u \in User : users'[u].status = "active" =>
                            users'[u].password # None
    BY DEF Fail, TypeOK, ValuesOK
  <2> QED
    BY <1>1, <2>1, ContinueValues DEF Fail, TypeOK, ValuesOK, Resetting
<1>5. LinksOK'
  BY RowTyped, LimitAssumption DEF Fail, TypeOK, LinksOK, RequestsOK, Continue
<1>6. RequestsOK'
  BY <1>1, ContinueTyped DEF TypeOK
<1> QED BY <1>3, <1>4, <1>5, <1>6 DEF TypeOK

LEMMA CreateAccountTyped ==
    ASSUME TypeOK, NEW r \in Request, NEW u \in User, CreateAccount(r, u)
    PROVE  TypeOK'
<1>1. CASE Begin(r, u, "upsert", None, None)
  BY <1>1, BeginTyped DEF Step, Writing, Resetting
<1>2. CASE ~Begin(r, u, "upsert", None, None)
  <2>1. issued' \in Link /\ issued' \in 0 .. MaxLinks
    BY <1>2, LimitAssumption DEF CreateAccount, TypeOK, LinksOK, Link
  <2>2. LinksOK' /\ RowsOK'
    BY <1>2, <2>1 DEF CreateAccount, TypeOK, LinksOK, RowsOK, ghostVars
  <2>3. RequestsOK'
    BY <1>2, <2>1 DEF CreateAccount, TypeOK, RequestsOK, Step, Writing
  <2>4. ValuesOK'
    BY <1>2 DEF CreateAccount, TypeOK, ValuesOK, RequestsOK, Resetting
  <2> QED BY <2>2, <2>3, <2>4 DEF TypeOK
<1> QED BY <1>1, <1>2

LEMMA ApproveAccountTyped ==
    ASSUME TypeOK, NEW r \in Request, NEW u \in User, ApproveAccount(r, u)
    PROVE  TypeOK'
BY BeginTyped DEF ApproveAccount, Step, Writing, Resetting

LEMMA ResendInvitationTyped ==
    ASSUME TypeOK, NEW r \in Request, NEW u \in User, ResendInvitation(r, u)
    PROVE  TypeOK'
BY BeginTyped DEF ResendInvitation, Step, Writing, Resetting

LEMMA RequestResetTyped ==
    ASSUME TypeOK, NEW r \in Request, NEW u \in User, RequestReset(r, u)
    PROVE  TypeOK'
BY BeginTyped DEF RequestReset, Step, Writing, Resetting

LEMMA SetPasswordTyped ==
    ASSUME TypeOK, NEW r \in Request, NEW l \in Link, NEW p \in Password,
           NEW u \in User, SetPassword(r, l, p, u)
    PROVE  TypeOK'
<1>1. l # None /\ p # None
  BY LimitAssumption DEF Link
<1> QED BY <1>1, BeginTyped DEF SetPassword, Step, Resetting

LEMMA ResetPasswordTyped ==
    ASSUME TypeOK, NEW r \in Request, NEW l \in Link, NEW p \in Password,
           NEW u \in User, ResetPassword(r, l, p, u)
    PROVE  TypeOK'
<1>1. l # None /\ p # None
  BY LimitAssumption DEF Link
<1> QED BY <1>1, BeginTyped DEF ResetPassword, Step, Resetting

LEMMA BulkDisableTyped ==
    ASSUME TypeOK, NEW u \in User, BulkDisable(u)
    PROVE  TypeOK'
<1>1. RowsOK'
  <2>1. [users[u] EXCEPT !.disabled = TRUE] \in UserRow
    BY DEF TypeOK, RowsOK, UserRow
  <2>2. users' \in [User -> UserRow]
    BY <2>1 DEF BulkDisable, TypeOK, RowsOK
  <2> QED BY <2>2 DEF BulkDisable, TypeOK, RowsOK, ghostVars
<1>2. LinksOK' /\ RequestsOK'
  BY DEF BulkDisable, TypeOK, LinksOK, RequestsOK, requestVars, ghostVars
<1>3. ValuesOK'
  BY DEF BulkDisable, TypeOK, RowsOK, UserRow, ValuesOK, requestVars
<1> QED BY <1>1, <1>2, <1>3 DEF TypeOK

LEMMA ReactivateAccountTyped ==
    ASSUME TypeOK, NEW u \in User, ReactivateAccount(u)
    PROVE  TypeOK'
<1>1. RowsOK'
  <2>1. [users[u] EXCEPT !.disabled = FALSE] \in UserRow
    BY DEF TypeOK, RowsOK, UserRow
  <2>2. users' \in [User -> UserRow]
    BY <2>1 DEF ReactivateAccount, TypeOK, RowsOK
  <2> QED BY <2>2 DEF ReactivateAccount, TypeOK, RowsOK, ghostVars
<1>2. LinksOK' /\ RequestsOK'
  BY DEF ReactivateAccount, TypeOK, LinksOK, RequestsOK, requestVars, ghostVars
<1>3. ValuesOK'
  BY DEF ReactivateAccount, TypeOK, RowsOK, UserRow, ValuesOK, requestVars
<1> QED BY <1>1, <1>2, <1>3 DEF TypeOK

LEMMA TickTyped ==
    ASSUME TypeOK, Tick
    PROVE  TypeOK'
<1>1. ASSUME NEW u \in User
      PROVE  /\ users'[u] \in UserRow
             /\ users'[u].status = users[u].status
             /\ users'[u].password = users[u].password
  <2>1. users[u] \in UserRow
    BY DEF TypeOK, RowsOK
  <2>2. /\ Older(users[u].reset, users[u].resetAge, ResetExpiry)
              \in 0 .. ResetExpiry + 1
        /\ Older(users[u].invite, users[u].inviteAge, InviteExpiry)
              \in 0 .. InviteExpiry + 1
    BY <2>1, LimitAssumption DEF Older, UserRow
  <2> QED BY <2>1, <2>2 DEF Tick, UserRow
<1>2. RowsOK'
  BY <1>1 DEF Tick, TypeOK, RowsOK, ghostVars
<1>3. LinksOK' /\ RequestsOK'
  BY DEF Tick, TypeOK, LinksOK, RequestsOK, requestVars, ghostVars
<1>4. ValuesOK'
  BY <1>1 DEF Tick, TypeOK, ValuesOK, requestVars
<1> QED BY <1>2, <1>3, <1>4 DEF TypeOK

LEMMA StepTyped == TypeOK /\ [Next]_vars => TypeOK'
<1> SUFFICES ASSUME TypeOK, [Next]_vars PROVE TypeOK'
  OBVIOUS
<1>1. CASE UNCHANGED vars
  BY <1>1 DEF TypeOK, RowsOK, LinksOK, RequestsOK, ValuesOK, vars
<1>2. ASSUME NEW r \in Request, RequestStep(r) PROVE TypeOK'
  BY <1>2, PerformUpsertTyped, UpdateUserInvitationTokenTyped, MailTyped,
     ClearInvitationTokenTyped, ReadDisabledTyped, SetInitialPasswordTyped,
     AcceptInvitationTyped, StoreResetLinkTyped, ClearResetTokenTyped,
     GetCurrentPasswordTyped, CheckPasswordReuseTyped,
     UpdateUserPasswordTyped, ArchiveOldPasswordTyped, FindOldPasswordsTyped,
     DeleteOldPasswordsTyped, FailTyped DEF RequestStep
<1>3. ASSUME NEW r \in Request, NEW u \in User, Arrive(r, u) PROVE TypeOK'
  BY <1>3, CreateAccountTyped, ApproveAccountTyped, ResendInvitationTyped,
     RequestResetTyped, SetPasswordTyped, ResetPasswordTyped DEF Arrive
<1> QED
  BY <1>1, <1>2, <1>3, BulkDisableTyped, ReactivateAccountTyped, TickTyped
     DEF Next

\* Every reachable state of the credentials model has the declared types: a
\* request has the link and the password its next statement writes, and an
\* active account has a password.
THEOREM CredentialsTypeCorrect == Spec => []TypeOK
<1>1. Init => TypeOK
  BY LimitAssumption
     DEF Init, TypeOK, RowsOK, LinksOK, RequestsOK, ValuesOK, NoUser, UserRow,
         Step, Resetting
<1> QED BY <1>1, StepTyped, PTL DEF Spec

----------------------------------------------------------------------------
(* Links are used once                                                     *)

\* A stored reset link was issued, has not been used, and is stored once;
\* links to come have not been used either.
LinksUnused ==
    /\ \A u \in User : users[u].reset # None =>
          users[u].reset <= issued /\ uses[users[u].reset] = 0
    /\ \A u, v \in User : users[u].reset # None /\ u # v =>
          users[u].reset # users[v].reset
    /\ \A l \in Link : l > issued => uses[l] = 0
    /\ OneResetPerLink

\* Steps that leave the stored links alone, or remove some.
LEMMA FewerLinks ==
    ASSUME TypeOK, LinksUnused, UNCHANGED uses,
           issued' \in Int, issued' >= issued,
           \A u \in User : users'[u].reset \in {users[u].reset, None}
    PROVE  LinksUnused'
<1>1. \A u \in User : users[u].reset \in Link \cup {None}
  BY DEF TypeOK, RowsOK, UserRow
<1>2. issued \in Int /\ Link \subseteq Int
  BY DEF TypeOK, LinksOK, Link
<1>3. \A u \in User : users'[u].reset # None =>
          users'[u].reset <= issued' /\ uses'[users'[u].reset] = 0
  <2> SUFFICES ASSUME NEW u \in User, users'[u].reset # None
               PROVE  users'[u].reset <= issued' /\ uses'[users'[u].reset] = 0
    OBVIOUS
  <2>1. users'[u].reset = users[u].reset /\ users[u].reset \in Link
    BY <1>1
  <2>2. users[u].reset <= issued /\ uses[users[u].reset] = 0
    BY <2>1 DEF LinksUnused
  <2>3. users[u].reset <= issued'
    <3>1. \A i, j, k \in Int : i <= j /\ k >= j => i <= k
      OBVIOUS
    <3>2. users[u].reset \in Int
      BY <1>2, <2>1
    <3> QED BY <1>2, <2>2, <3>1, <3>2
  <2> QED BY <2>1, <2>2, <2>3
<1>4. \A u, v \in User : users'[u].reset # None /\ u # v =>
          users'[u].reset # users'[v].reset
  BY DEF LinksUnused
<1>5. \A l \in Link : l > issued' => uses'[l] = 0
  BY <1>2 DEF LinksUnused
<1> QED BY <1>3, <1>4, <1>5 DEF LinksUnused, OneResetPerLink

\* The stored links of all actions but the two that write a reset link.
LEMMA OtherLinks ==
    ASSUME TypeOK, LinksUnused, [Next]_vars,
           ~ \E r \in Request : StoreResetLink(r) \/ UpdateUserPassword(r)
    PROVE  LinksUnused'
<1> DEFINE Kept == /\ UNCHANGED uses
                   /\ issued' \in Int /\ issued' >= issued
                   /\ \A u \in User :
                         users'[u].reset \in {users[u].reset, None}
<1>0. issued \in Int /\ \A u \in User : users[u] \in UserRow
  BY DEF TypeOK, LinksOK, RowsOK
<1>1. CASE UNCHANGED vars
  BY <1>0, <1>1, FewerLinks DEF vars
<1>2. ASSUME NEW r \in Request, RequestStep(r) PROVE Kept
  <2>1. CASE PerformUpsert(r)
    BY <1>0, <2>1, RowTyped
       DEF PerformUpsert, Update, NoUser, UserRow, ghostVars, TypeOK, RowsOK
  <2>2. CASE UpdateUserInvitationToken(r)
    BY <1>0, <2>2, RowTyped
       DEF UpdateUserInvitationToken, Generate, Update, UserRow, TypeOK, RowsOK
  <2>3. CASE ClearInvitationToken(r)
    BY <1>0, <2>3, RowTyped
       DEF ClearInvitationToken, Update, UserRow, ghostVars, TypeOK, RowsOK
  <2>4. CASE SetInitialPassword(r)
    BY <1>0, <2>4, RowTyped
       DEF SetInitialPassword, Update, UserRow, TypeOK, RowsOK
  <2>5. CASE AcceptInvitation(r)
    BY <1>0, <2>5, RowTyped
       DEF AcceptInvitation, Update, UserRow, ghostVars, TypeOK, RowsOK
  <2>6. CASE ClearResetToken(r)
    BY <1>0, <2>6, RowTyped
       DEF ClearResetToken, Update, UserRow, ghostVars, TypeOK, RowsOK
  <2>7. CASE Mail(r) \/ ReadDisabled(r) \/ GetCurrentPassword(r)
             \/ CheckPasswordReuse(r)
    BY <1>0, <2>7 DEF Mail, ReadDisabled, GetCurrentPassword,
       CheckPasswordReuse, ghostVars
  <2>8. CASE ArchiveOldPassword(r) \/ FindOldPasswords(r)
             \/ DeleteOldPasswords(r) \/ Fail(r)
    BY <1>0, <2>8 DEF ArchiveOldPassword, FindOldPasswords,
       DeleteOldPasswords, Fail, ghostVars
  <2> QED
    BY <1>2, <2>1, <2>2, <2>3, <2>4, <2>5, <2>6, <2>7, <2>8 DEF RequestStep
<1>3. ASSUME NEW r \in Request, NEW u \in User, Arrive(r, u) PROVE Kept
  BY <1>0, <1>3 DEF Arrive, CreateAccount, ApproveAccount, ResendInvitation,
     RequestReset, SetPassword, ResetPassword, Begin, ghostVars
<1>4. ASSUME NEW u \in User, BulkDisable(u) \/ ReactivateAccount(u) PROVE Kept
  BY <1>0, <1>4
     DEF BulkDisable, ReactivateAccount, UserRow, ghostVars, TypeOK, RowsOK
<1>5. CASE Tick
  <2>1. \A u \in User : users'[u].reset = users[u].reset
    BY <1>0, <1>5 DEF Tick, UserRow
  <2>2. UNCHANGED <<uses, issued>>
    BY <1>5 DEF Tick, ghostVars
  <2>3. \A u \in User : users'[u].reset \in {users[u].reset, None}
    BY <2>1
  <2>4. issued' \in Int /\ issued' >= issued
    BY <1>0, <2>2
  <2> QED BY <2>2, <2>3, <2>4, FewerLinks
<1> QED
  BY <1>1, <1>2, <1>3, <1>4, <1>5, FewerLinks DEF Next

\* A reset link is stored when it is issued, with a number above all others.
LEMMA StoredLink ==
    ASSUME TypeOK, LinksUnused, NEW r \in Request, StoreResetLink(r)
    PROVE  LinksUnused'
<1>1. issued' = issued + 1 /\ issued \in Nat /\ issued' \in Link
  <2>1. issued' \in Link
    BY GenerateTyped DEF StoreResetLink, TypeOK
  <2> QED BY <2>1 DEF StoreResetLink, Generate, TypeOK, LinksOK
<1>2. UNCHANGED uses
  BY DEF StoreResetLink, ghostVars
<1>3. \A u \in User : users[u] \in UserRow
  BY DEF TypeOK, RowsOK
<1>4. \A u \in User : users'[u].reset = IF u = for[r] THEN issued'
                                        ELSE users[u].reset
  BY <1>3, RowTyped DEF StoreResetLink, Update, TypeOK, RowsOK, UserRow
<1>5. \A l \in Link : l > issued' => uses'[l] = 0
  BY <1>1, <1>2 DEF LinksUnused, Link
<1>6. \A u \in User : users'[u].reset # None =>
          users'[u].reset <= issued' /\ uses'[users'[u].reset] = 0
  <2> SUFFICES ASSUME NEW u \in User, users'[u].reset # None
               PROVE  users'[u].reset <= issued' /\ uses'[users'[u].reset] = 0
    OBVIOUS
  <2>1. CASE u = for[r]
    BY <1>1, <1>2, <1>4, <2>1 DEF LinksUnused, Link
  <2>2. CASE u # for[r]
    BY <1>1, <1>2, <1>3, <1>4, <2>2 DEF LinksUnused, Link, UserRow
  <2> QED BY <2>1, <2>2
<1>7. \A u, v \in User : users'[u].reset # None /\ u # v =>
          users'[u].reset # users'[v].reset
  <2> SUFFICES ASSUME NEW u \in User, NEW v \in User,
                      users'[u].reset # None, u # v
               PROVE  users'[u].reset # users'[v].reset
    OBVIOUS
  <2>1. \A w \in User : users[w].reset # issued'
    BY <1>1, <1>3, LimitAssumption DEF LinksUnused, Link, UserRow
  <2> QED BY <1>4, <2>1 DEF LinksUnused
<1> QED BY <1>2, <1>5, <1>6, <1>7 DEF LinksUnused, OneResetPerLink

\* A claim that holds the link removes it, so that it is not claimed again.
LEMMA ClaimedLink ==
    ASSUME TypeOK, LinksUnused, NEW r \in Request, UpdateUserPassword(r)
    PROVE  LinksUnused'
<1>1. CASE ~HoldsLink(r)
  <2>1. issued \in Int
    BY DEF TypeOK, LinksOK
  <2> QED BY <1>1, <2>1, FewerLinks DEF UpdateUserPassword
<1>2. CASE HoldsLink(r)
  <2>1. link[r] \in Link /\ link[r] # None
    BY LimitAssumption
       DEF UpdateUserPassword, TypeOK, ValuesOK, RequestsOK, Resetting
  <2>2. \A u \in User : users[u] \in UserRow
    BY DEF TypeOK, RowsOK
  <2>3. \A u \in User : users'[u].reset = IF u = for[r] THEN None
                                          ELSE users[u].reset
    <3>1. users' = [users EXCEPT ![for[r]] =
                     [users[for[r]] EXCEPT !.password = choice[r],
                                           !.reset = None, !.resetAge = 0]]
      BY <1>2 DEF UpdateUserPassword, Update
    <3> QED BY <2>2, <3>1, RowTyped DEF TypeOK, RowsOK, UserRow
  <2>4. users[for[r]].reset = link[r]
    BY <1>2 DEF HoldsLink
  <2>5. uses' = [uses EXCEPT ![link[r]] = @ + 1] /\ uses \in [Link -> Nat]
    BY <1>2 DEF UpdateUserPassword, TypeOK, LinksOK
  <2>6. issued' = issued /\ issued \in Nat /\ link[r] <= issued
        /\ uses[link[r]] = 0
    BY <2>1, <2>4, RowTyped
       DEF UpdateUserPassword, LinksUnused, TypeOK, LinksOK
  <2>7. OneResetPerLink'
    BY <2>1, <2>5, <2>6 DEF LinksUnused, OneResetPerLink
  <2>8. \A l \in Link : l > issued' => uses'[l] = 0
    BY <2>1, <2>5, <2>6 DEF LinksUnused, Link
  <2>9. \A u \in User : users'[u].reset # None =>
            users'[u].reset <= issued' /\ uses'[users'[u].reset] = 0
    <3> SUFFICES ASSUME NEW u \in User, users'[u].reset # None
                 PROVE  /\ users'[u].reset <= issued'
                        /\ uses'[users'[u].reset] = 0
      OBVIOUS
    <3>1. u # for[r] /\ users'[u].reset = users[u].reset
      BY <2>3
    <3>2. users[u].reset # link[r]
      BY <2>1, <2>4, <3>1, RowTyped DEF LinksUnused
    <3>3. users[u].reset \in Link
      BY <2>2, <3>1 DEF UserRow
    <3> QED BY <2>1, <2>5, <2>6, <3>1, <3>2, <3>3 DEF LinksUnused
  <2>10. \A u, v \in User : users'[u].reset # None /\ u # v =>
            users'[u].reset # users'[v].reset
    BY <2>3 DEF LinksUnused
  <2> QED BY <2>7, <2>8, <2>9, <2>10 DEF LinksUnused
<1> QED BY <1>1, <1>2

\* However many requests carry one reset link, at most one writes a password.
THEOREM LinksAreUsedOnce == Spec => []OneResetPerLink
<1>1. Init => TypeOK /\ LinksUnused
  <2>1. Init => TypeOK
    BY LimitAssumption
       DEF Init, TypeOK, RowsOK, LinksOK, RequestsOK, ValuesOK, NoUser,
           UserRow, Step, Resetting
  <2>2. Init => LinksUnused
    BY DEF Init, LinksUnused, OneResetPerLink, NoUser
  <2> QED BY <2>1, <2>2
<1>2. TypeOK /\ LinksUnused /\ [Next]_vars => TypeOK' /\ LinksUnused'
  BY StepTyped, OtherLinks, StoredLink, ClaimedLink
<1>3. LinksUnused => OneResetPerLink
  BY DEF LinksUnused
<1> QED BY <1>1, <1>2, <1>3, PTL DEF Spec

----------------------------------------------------------------------------
(* Nobody is stuck                                                         *)

\* When an invitation is accepted, the account has become active and has
\* stayed so, unless an approval came too late.
AcceptedIsActive ==
    \A r \in Request : pc[r] = "accept" =>
        users[for[r]].status = "active" \/ for[r] \in stale

\* Steps that accept nothing and take no account back.
LEMMA NoWayBack ==
    ASSUME TypeOK, AcceptedIsActive, NobodyIsStuck, stale \subseteq stale',
           \A r \in Request : pc'[r] = "accept" =>
               pc[r] = "accept" /\ for'[r] = for[r],
           \A u \in User :
              /\ users'[u].accepted => users[u].accepted
              /\ \/ users'[u].status = users[u].status
                 \/ users'[u].status = "active"
                 \/ ~users'[u].accepted /\ users[u].status # "active"
                 \/ u \in stale'
    PROVE  AcceptedIsActive' /\ NobodyIsStuck'
<1>1. AcceptedIsActive'
  BY DEF AcceptedIsActive, TypeOK, RequestsOK
<1>2. NobodyIsStuck'
  BY DEF NobodyIsStuck
<1> QED BY <1>1, <1>2

LEMMA NotStuckStep ==
    ASSUME TypeOK, AcceptedIsActive, NobodyIsStuck, [Next]_vars
    PROVE  AcceptedIsActive' /\ NobodyIsStuck'
<1>0. /\ \A u \in User : users[u] \in UserRow
      /\ pc \in [Request -> Step] /\ for \in [Request -> User]
      /\ users \in [User -> UserRow]
  BY DEF TypeOK, RowsOK, RequestsOK
<1>1. CASE UNCHANGED vars
  BY <1>1 DEF vars, AcceptedIsActive, NobodyIsStuck
<1>2. ASSUME NEW r \in Request, RequestStep(r)
      PROVE  AcceptedIsActive' /\ NobodyIsStuck'
  <2>1. CASE PerformUpsert(r)
    BY <1>0, <2>1, NoWayBack
       DEF PerformUpsert, Update, Continue, NoUser, UserRow, ghostVars
  <2>2. CASE UpdateUserInvitationToken(r)
    <3>1. for[r] \in stale'
          \/ (users[for[r]].status = "pending" /\ pc[r] = "approve")
          \/ pc[r] = "resend"
      BY <2>2 DEF UpdateUserInvitationToken
    <3>2. users' = [users EXCEPT ![for[r]] =
                     [users[for[r]] EXCEPT !.status = InvitedStatus(r),
                                           !.invite = issued',
                                           !.inviteAge = 0]]
      BY <2>2 DEF UpdateUserInvitationToken, Update
    <3>3. \A u \in User :
             /\ users'[u].accepted = users[u].accepted
             /\ u # for[r] => users'[u].status = users[u].status
             /\ u = for[r] => users'[u].status = InvitedStatus(r)
      BY <1>0, <3>2 DEF UserRow
    <3>4. stale \subseteq stale' /\ UNCHANGED for
          /\ \A q \in Request : pc'[q] = "accept" => pc[q] = "accept"
      BY <1>0, <2>2 DEF UpdateUserInvitationToken, Generate
    <3>5. \A u \in User \ stale' : users'[u].status = users[u].status
             \/ (u = for[r] /\ users[u].status = "pending")
      BY <3>1, <3>3 DEF InvitedStatus
    <3>6. NobodyIsStuck'
      BY <3>3, <3>4, <3>5 DEF NobodyIsStuck
    <3>7. AcceptedIsActive'
      BY <1>0, <3>4, <3>5 DEF AcceptedIsActive
    <3> QED BY <3>6, <3>7
  <2>3. CASE ClearInvitationToken(r)
    BY <1>0, <2>3, NoWayBack
       DEF ClearInvitationToken, Update, Continue, UserRow, ghostVars
  <2>4. CASE SetInitialPassword(r)
    <3>1. /\ \A u \in User : u # for[r] => users'[u] = users[u]
          /\ users'[for[r]].status = "active"
      BY <1>0, <2>4 DEF SetInitialPassword, Update, UserRow
    <3>2. UNCHANGED <<for, stale>>
          /\ \A q \in Request : q # r => pc'[q] = pc[q]
      BY <1>0, <2>4 DEF SetInitialPassword, Continue
    <3>3. NobodyIsStuck'
      BY <3>1, <3>2 DEF NobodyIsStuck
    <3>4. AcceptedIsActive'
      BY <1>0, <3>1, <3>2 DEF AcceptedIsActive
    <3> QED BY <3>3, <3>4
  <2>5. CASE AcceptInvitation(r)
    <3>1. \A u \in User :
             /\ users'[u].status = users[u].status
             /\ users'[u].accepted => users[u].accepted \/ u = for[r]
      BY <1>0, <2>5 DEF AcceptInvitation, Update, UserRow
    <3>2. UNCHANGED <<for, stale>>
          /\ \A q \in Request : pc'[q] = "accept" => pc[q] = "accept"
      BY <1>0, <2>5 DEF AcceptInvitation, Continue, ghostVars
    <3>3. NobodyIsStuck'
      BY <1>0, <2>5, <3>1, <3>2
         DEF NobodyIsStuck, AcceptedIsActive, AcceptInvitation
    <3>4. AcceptedIsActive'
      BY <1>0, <3>1, <3>2 DEF AcceptedIsActive
    <3> QED BY <3>3, <3>4
  <2>6. CASE ClearResetToken(r)
    BY <1>0, <2>6, NoWayBack
       DEF ClearResetToken, Update, Continue, UserRow, ghostVars
  <2>7. CASE StoreResetLink(r)
    BY <1>0, <2>7, NoWayBack
       DEF StoreResetLink, Update, Generate, UserRow, ghostVars
  <2>8. CASE UpdateUserPassword(r)
    <3>1. \A u \in User : /\ users'[u].status = users[u].status
                          /\ users'[u].accepted = users[u].accepted
      <4>1. \/ users' = users
            \/ users' = [users EXCEPT ![for[r]] =
                          [users[for[r]] EXCEPT !.password = choice[r],
                                                !.reset = None,
                                                !.resetAge = 0]]
        BY <2>8 DEF UpdateUserPassword, Update
      <4>2. CASE users' = users
        BY <4>2
      <4>3. CASE users' = [users EXCEPT ![for[r]] =
                            [users[for[r]] EXCEPT !.password = choice[r],
                                                  !.reset = None,
                                                  !.resetAge = 0]]
        BY <1>0, <4>3 DEF UserRow
      <4> QED BY <4>1, <4>2, <4>3
    <3>2. UNCHANGED <<for, stale>>
          /\ \A q \in Request : pc'[q] = "accept" => pc[q] = "accept"
      BY <1>0, <2>8 DEF UpdateUserPassword, Continue, AfterClaim
    <3> QED BY <3>1, <3>2, NoWayBack
  <2>9. CASE Mail(r) \/ ReadDisabled(r) \/ GetCurrentPassword(r)
             \/ CheckPasswordReuse(r)
    BY <1>0, <2>9, NoWayBack DEF Mail, ReadDisabled, GetCurrentPassword,
       CheckPasswordReuse, Continue, ghostVars
  <2>10. CASE ArchiveOldPassword(r) \/ FindOldPasswords(r)
             \/ DeleteOldPasswords(r) \/ Fail(r)
    BY <1>0, <2>10, NoWayBack DEF ArchiveOldPassword, FindOldPasswords,
       DeleteOldPasswords, Fail, Continue, ghostVars
  <2> QED
    BY <1>2, <2>1, <2>2, <2>3, <2>4, <2>5, <2>6, <2>7, <2>8, <2>9, <2>10
       DEF RequestStep
<1>3. ASSUME NEW r \in Request, NEW u \in User, Arrive(r, u)
      PROVE  AcceptedIsActive' /\ NobodyIsStuck'
  <2>1. UNCHANGED <<users, stale>>
        /\ \A q \in Request : pc'[q] = "accept" =>
                                pc[q] = "accept" /\ for'[q] = for[q]
    BY <1>0, <1>3 DEF Arrive, CreateAccount, ApproveAccount,
       ResendInvitation, RequestReset, SetPassword, ResetPassword, Begin,
       ghostVars
  <2> QED BY <2>1, NoWayBack
<1>4. ASSUME NEW u \in User, BulkDisable(u) \/ ReactivateAccount(u)
      PROVE  AcceptedIsActive' /\ NobodyIsStuck'
  BY <1>0, <1>4, NoWayBack
     DEF BulkDisable, ReactivateAccount, UserRow, requestVars, ghostVars
<1>5. CASE Tick
  BY <1>0, <1>5, NoWayBack DEF Tick, UserRow, requestVars, ghostVars
<1> QED BY <1>1, <1>2, <1>3, <1>4, <1>5 DEF Next

\* An account that waits for its first password can be sent a link that
\* works, unless it was approved when it was no longer pending.
THEOREM NobodyIsEverStuck == Spec => []NobodyIsStuck
<1>1. Init => TypeOK /\ AcceptedIsActive /\ NobodyIsStuck
  <2>1. Init => TypeOK
    BY LimitAssumption
       DEF Init, TypeOK, RowsOK, LinksOK, RequestsOK, ValuesOK, NoUser,
           UserRow, Step, Resetting
  <2>2. Init => AcceptedIsActive /\ NobodyIsStuck
    BY DEF Init, AcceptedIsActive, NobodyIsStuck, NoUser
  <2> QED BY <2>1, <2>2
<1>2. TypeOK /\ AcceptedIsActive /\ NobodyIsStuck /\ [Next]_vars
         => TypeOK' /\ AcceptedIsActive' /\ NobodyIsStuck'
  BY StepTyped, NotStuckStep
<1> QED BY <1>1, <1>2, PTL DEF Spec

----------------------------------------------------------------------------
(* No password is given again                                              *)

\* The number of rows that are newer.
Rank(x, rows) == Cardinality(Newer(x, rows))

\* No row is newer than the clock; the records are finite, and the history
\* is cut to what the properties look back at.
RowsDated ==
    /\ \A u \in User :
          /\ IsFiniteSet(old[u]) /\ IsFiniteSet(set[u])
          /\ \A x \in old[u] \cup set[u] : x.at <= written
          /\ \A x \in set[u] : Rank(x, set[u]) <= Limit
    /\ \A r \in Request : \A x \in surplus[r] : x.at <= written

\* Nobody holds or works with a link that has not been issued.
LinksDated ==
    /\ \A l \in mailed : l <= issued
    /\ \A r \in Request : link[r] # None => link[r] <= issued

\* What is not there has neither a password nor a link.
Absence ==
    /\ \A u \in User : users[u].status = "absent" =>
          users[u].password = None /\ users[u].reset = None
    /\ \A r \in Request : pc[r] = "issue" => users[for[r]].status # "absent"

\* An account without a password never had one; a reset that is past its
\* comparison with the current password asks for another one.
NoneBefore ==
    /\ \A u \in User : users[u].password = None => set[u] = {}
    /\ \A r \in Request : pc[r] \in {"history", "claim"} =>
          /\ choice[r] # current[r]
          /\ users[for[r]].password = None => current[r] = None

\* Each of the latest passwords is the current one, or about to be archived,
\* or in the record: at least as new there as it is in the history, so that
\* no clean-up takes it away before the history has forgotten it.
Kept(x, u) ==
    \E y \in old[u] :
       /\ y.password = x.password
       /\ Rank(y, old[u]) < Rank(x, set[u])
       /\ Unarchived(u) => Rank(y, old[u]) + 1 < Rank(x, set[u])
       /\ \A q \in Request : pc[q] = "prune" /\ for[q] = u => y \notin surplus[q]
Archiving(x, u) ==
    \E q \in Request : pc[q] = "archive" /\ for[q] = u /\ current[q] = x.password
Recorded(u) ==
    \A x \in set[u] : IF Newer(x, set[u]) = {} THEN x.password = users[u].password
                      ELSE Archiving(x, u) \/ Kept(x, u)
OneArchive(u) ==
    \A q, r \in Request : /\ pc[q] = "archive" /\ for[q] = u
                          /\ pc[r] = "archive" /\ for[r] = u
                          => q = r
HistoryInv == \A u \in User \ gap : Recorded(u) /\ OneArchive(u)

\* A reset that has compared its password with the record, and that still
\* holds the link and knows the current password, gives a new one, and finds
\* no other reset's password to be archived.
Checked(r) ==
    /\ pc[r] = "claim" /\ for[r] \notin gap
    /\ HoldsLink(r) /\ users[for[r]].password = current[r]
    => ~Unarchived(for[r]) /\ choice[r] \notin Recent(for[r])
CheckedInv == \A r \in Request : Checked(r)

\* Fewer rows, no later rank; a new row sets the others back by one.
LEMMA FewerRows ==
    ASSUME NEW rows, IsFiniteSet(rows), NEW S \in SUBSET rows, NEW x
    PROVE  /\ IsFiniteSet(S) /\ Rank(x, S) \in Nat /\ Rank(x, rows) \in Nat
           /\ Rank(x, S) <= Rank(x, rows)
<1>1. Newer(x, rows) \in SUBSET rows /\ Newer(x, S) \in SUBSET Newer(x, rows)
  BY DEF Newer
<1>2. IsFiniteSet(Newer(x, rows)) /\ IsFiniteSet(S)
  BY <1>1, FS_Subset
<1>3. /\ IsFiniteSet(Newer(x, S))
      /\ Cardinality(Newer(x, S)) <= Cardinality(Newer(x, rows))
  BY <1>1, <1>2, FS_Subset
<1> QED BY <1>2, <1>3, FS_CardinalityType DEF Rank

LEMMA AddedRank ==
    ASSUME NEW rows \in SUBSET Row, IsFiniteSet(rows), written \in Nat,
           \A x \in rows : x.at <= written, NEW p, NEW z,
           z = [at |-> written + 1, password |-> p]
    PROVE  /\ Adding(rows, p) = rows \cup {z} /\ IsFiniteSet(rows \cup {z})
           /\ Newer(z, rows \cup {z}) = {} /\ Rank(z, rows \cup {z}) = 0
           /\ z \notin rows
           /\ \A x \in rows : /\ Newer(x, rows \cup {z}) # {}
                              /\ Rank(x, rows \cup {z}) = Rank(x, rows) + 1
<1>1. z.at = written + 1 /\ \A x \in rows : x.at \in Nat /\ z.at > x.at
  BY DEF Row
<1>2. Adding(rows, p) = rows \cup {z} /\ IsFiniteSet(rows \cup {z})
  BY FS_AddElement DEF Adding
<1>3. Newer(z, rows \cup {z}) = {} /\ z \notin rows
  BY <1>1 DEF Newer
<1>4. ASSUME NEW x \in rows
      PROVE  /\ Newer(x, rows \cup {z}) # {}
             /\ Rank(x, rows \cup {z}) = Rank(x, rows) + 1
  <2>1. Newer(x, rows \cup {z}) = Newer(x, rows) \cup {z}
    BY <1>1 DEF Newer
  <2>2. z \notin Newer(x, rows)
    BY <1>3 DEF Newer
  <2>3. IsFiniteSet(Newer(x, rows))
    <3>1. Newer(x, rows) \in SUBSET rows
      BY DEF Newer
    <3> QED BY <3>1, FS_Subset
  <2>4. \A N : IsFiniteSet(N) /\ z \notin N =>
              Cardinality(N \cup {z}) = Cardinality(N) + 1
    BY FS_AddElement
  <2> QED BY <2>1, <2>2, <2>3, <2>4 DEF Rank
<1> QED BY <1>2, <1>3, <1>4, FS_EmptySet DEF Rank

\* A history that is given a password: the new row is the newest, and those
\* that are left are set back by one.
LEMMA GivenRank ==
    ASSUME NEW rows \in SUBSET Row, IsFiniteSet(rows), written \in Nat,
           \A x \in rows : x.at <= written, NEW p, NEW z,
           z = [at |-> written + 1, password |-> p], NEW G, G = Given(rows, p)
    PROVE  /\ G \subseteq rows \cup {z} /\ IsFiniteSet(G)
           /\ Newer(z, G) = {}
           /\ \A x \in G : Rank(x, G) <= Limit
           /\ \A x \in G \ {z} : x \in rows /\ Rank(x, G) = Rank(x, rows) + 1
                                 /\ Newer(x, G) # {}
<1> DEFINE A == rows \cup {z}
<1>1. /\ Adding(rows, p) = A /\ IsFiniteSet(A)
      /\ Newer(z, A) = {} /\ Rank(z, A) = 0 /\ z \notin rows
      /\ \A x \in rows : Newer(x, A) # {} /\ Rank(x, A) = Rank(x, rows) + 1
  BY AddedRank, SMTT(30)
<1>2. \A x \in A : x.at \in Nat
  BY DEF Row
<1>3. G = {x \in A : Rank(x, A) < Limit + 1}
  BY <1>1 DEF Given, Newest, Rank
<1> HIDE DEF A
<1>4. G \in SUBSET A
  BY <1>3
<1>5. ASSUME NEW x \in G
      PROVE  Newer(x, G) = Newer(x, A) /\ Rank(x, G) = Rank(x, A)
  <2>1. ASSUME NEW y \in Newer(x, A) PROVE y \in G
    <3>1. y \in A /\ y.at > x.at /\ x \in A
      BY <1>4 DEF Newer
    <3>2. Newer(y, A) \in SUBSET Newer(x, A)
      <4> SUFFICES ASSUME NEW w \in A, w.at > y.at PROVE w.at > x.at
        BY DEF Newer
      <4> QED BY <1>2, <3>1
    <3>3. IsFiniteSet(Newer(x, A)) /\ Rank(x, A) \in Nat
      <4>1. Newer(x, A) \in SUBSET A
        BY DEF Newer
      <4> QED BY <1>1, <4>1, FS_Subset, FS_CardinalityType DEF Rank
    <3>4. Rank(y, A) <= Rank(x, A) /\ Rank(y, A) \in Nat
      BY <3>2, <3>3, FS_Subset, FS_CardinalityType DEF Rank
    <3>5. Rank(x, A) < Limit + 1
      BY <1>3
    <3> QED BY <1>3, <3>1, <3>3, <3>4, <3>5, LimitAssumption
  <2>2. Newer(x, G) = Newer(x, A)
    BY <1>4, <2>1 DEF Newer
  <2> QED BY <2>2 DEF Rank
<1>6. z \in G
  BY <1>1, <1>3, LimitAssumption DEF A
<1>7. \A x \in G : Rank(x, G) <= Limit
  <2> SUFFICES ASSUME NEW x \in G PROVE Rank(x, G) <= Limit
    OBVIOUS
  <2>1. Rank(x, A) < Limit + 1 /\ Rank(x, A) \in Nat
    <3>1. Rank(x, A) \in Nat
      BY <1>1, FewerRows
    <3> QED BY <1>3, <3>1
  <2> QED BY <1>5, <2>1, LimitAssumption
<1>8. \A x \in G \ {z} : x \in rows /\ Rank(x, G) = Rank(x, rows) + 1
                         /\ Newer(x, G) # {}
  BY <1>1, <1>4, <1>5 DEF A
<1>9. IsFiniteSet(G)
  BY <1>1, <1>4, FS_Subset
<1> QED BY <1>1, <1>4, <1>5, <1>6, <1>7, <1>8, <1>9 DEF A

\* What most steps do: the records, the passwords and the clock stay, and a
\* request that does not stay as it was is not one the invariant looks at; a
\* link that somebody is about to claim is not stored anew.
Same(q) ==
    /\ pc'[q] = pc[q] /\ for'[q] = for[q] /\ link'[q] = link[q]
    /\ choice'[q] = choice[q] /\ current'[q] = current[q]
    /\ surplus'[q] = surplus[q]
Leaves(q) ==
    /\ pc'[q] \notin {"history", "claim", "archive", "prune"}
    /\ surplus'[q] \subseteq surplus[q]
    /\ pc[q] = "archive" => for[q] \in gap'
Plain ==
    /\ UNCHANGED <<old, set, written>> /\ gap \subseteq gap'
    /\ \A u \in User : users'[u].password = users[u].password
    /\ \A q \in Request : pc[q] = "claim" /\ users'[for[q]].reset = link[q]
                             => users[for[q]].reset = link[q]
    /\ \A q \in Request : Same(q) \/ Leaves(q)

\* A step of one request is none of another's.
LEMMA OthersSame ==
    ASSUME TypeOK, NEW r \in Request,
           RequestStep(r) \/ \E u \in User : Arrive(r, u)
    PROVE  \A q \in Request \ {r} : Same(q)
<1>1. CASE \E u \in User : Arrive(r, u)
  BY <1>1 DEF Arrive, CreateAccount, ApproveAccount, ResendInvitation,
     RequestReset, SetPassword, ResetPassword, Begin, Same, TypeOK, RequestsOK
<1>2. ASSUME NEW s, Continue(r, s) PROVE \A q \in Request \ {r} : Same(q)
  BY <1>2 DEF Continue, Same, TypeOK, RequestsOK
<1>3. ASSUME NEW s, Generate(r, s) PROVE \A q \in Request \ {r} : Same(q)
  BY <1>3 DEF Generate, Same, TypeOK, RequestsOK
<1>4. CASE GetCurrentPassword(r)
  BY <1>2, <1>4 DEF GetCurrentPassword, Same, TypeOK, RequestsOK
<1>5. CASE FindOldPasswords(r)
  BY <1>2, <1>5 DEF FindOldPasswords, Same, TypeOK, RequestsOK
<1>6. CASE UpdateUserInvitationToken(r) \/ StoreResetLink(r)
  BY <1>3, <1>6 DEF UpdateUserInvitationToken, StoreResetLink
<1>7. CASE PerformUpsert(r) \/ Mail(r) \/ ClearInvitationToken(r)
           \/ ReadDisabled(r) \/ SetInitialPassword(r) \/ AcceptInvitation(r)
           \/ ClearResetToken(r) \/ CheckPasswordReuse(r)
  BY <1>2, <1>7 DEF PerformUpsert, Mail, ClearInvitationToken, ReadDisabled,
     SetInitialPassword, AcceptInvitation, ClearResetToken, CheckPasswordReuse
<1>8. CASE UpdateUserPassword(r) \/ ArchiveOldPassword(r)
           \/ DeleteOldPasswords(r) \/ Fail(r)
  BY <1>2, <1>8 DEF UpdateUserPassword, ArchiveOldPassword,
     DeleteOldPasswords, Fail
<1> QED
  BY <1>1, <1>4, <1>5, <1>6, <1>7, <1>8 DEF RequestStep

\* The steps that are not plain: those that write or read the records.
Recording(r) ==
    \/ SetInitialPassword(r)
    \/ /\ GetCurrentPassword(r)
       /\ users[for[r]].password # choice[r]
    \/ CheckPasswordReuse(r)
    \/ /\ UpdateUserPassword(r)
       /\ HoldsLink(r)
    \/ ArchiveOldPassword(r)
    \/ FindOldPasswords(r)
    \/ DeleteOldPasswords(r)

\* An update of other columns than the password; l is the link it stores.
LEMMA Touched ==
    ASSUME TypeOK, NEW r \in Request, NEW row, Update(r, row), NEW l,
           row.password = users[for[r]].password,
           row.reset \in {users[for[r]].reset, l}
    PROVE  \A u \in User : /\ users'[u].password = users[u].password
                           /\ users'[u].reset \in {users[u].reset, l}
<1>1. \A u \in User : users'[u] = IF u = for[r] THEN row ELSE users[u]
  BY DEF TypeOK, RowsOK, RequestsOK, Update
<1> QED BY <1>1

LEMMA PlainStep ==
    ASSUME TypeOK, LinksDated, Absence, [Next]_vars
    PROVE  Plain \/ \E r \in Request : Recording(r)
<1>0. /\ \A u \in User : users[u] \in UserRow
      /\ users \in [User -> UserRow]
      /\ \A r \in Request : for[r] \in User
      /\ pc \in [Request -> Step] /\ link \in [Request -> Link \cup {None}]
      /\ surplus \in [Request -> SUBSET Row]
  BY DEF TypeOK, RowsOK, RequestsOK
<1>1. CASE UNCHANGED vars
  BY <1>1 DEF vars, Plain, Same
<1>2. ASSUME NEW r \in Request, RequestStep(r), ~Recording(r) PROVE Plain
  <2>0. \A q \in Request \ {r} : Same(q)
    BY <1>2, OthersSame
  <2>1. ASSUME UNCHANGED <<old, set, written>>, gap \subseteq gap',
               \A u \in User : /\ users'[u].password = users[u].password
                               /\ users'[u].reset \in {users[u].reset, None},
               Continue(r, "idle") \/ Continue(r, "set") \/ Continue(r, "mail"),
               pc[r] = "archive" => for[r] \in gap'
        PROVE  Plain
    <3>1. Leaves(r)
      BY <1>0, <2>1 DEF Leaves, Continue
    <3>2. \A q \in Request : pc[q] = "claim" /\ users'[for[q]].reset = link[q]
                                 => users[for[q]].reset = link[q]
      <4>1. \A q \in Request : pc[q] = "claim" => link[q] # None
        BY DEF TypeOK, ValuesOK, Resetting
      <4> QED BY <1>0, <2>1, <4>1
    <3> QED BY <2>0, <2>1, <3>1, <3>2 DEF Plain
  <2>2. CASE PerformUpsert(r)
    <3>1. \A u \in User : /\ users'[u].password = users[u].password
                          /\ users'[u].reset \in {users[u].reset, None}
      BY <1>0, <2>2 DEF PerformUpsert, Update, NoUser, UserRow, Absence
    <3> QED BY <2>1, <2>2, <3>1 DEF PerformUpsert, ghostVars
  <2>3. CASE UpdateUserInvitationToken(r) \/ StoreResetLink(r)
    <3>0. issued' = issued + 1 /\ UNCHANGED <<old, set, written, gap>>
      BY <2>3 DEF UpdateUserInvitationToken, StoreResetLink, Generate, ghostVars
    <3>1. \A u \in User : /\ users'[u].password = users[u].password
                          /\ users'[u].reset \in {users[u].reset, issued'}
      <4>1. CASE UpdateUserInvitationToken(r)
        <5> DEFINE row == [users[for[r]] EXCEPT !.status = InvitedStatus(r),
                                              !.invite = issued',
                                              !.inviteAge = 0]
        <5>1. Update(r, row)
          BY <4>1 DEF UpdateUserInvitationToken
        <5>2. row.password = users[for[r]].password
              /\ row.reset \in {users[for[r]].reset, issued'}
          BY <1>0 DEF UserRow
        <5> HIDE DEF row
        <5> QED BY <5>1, <5>2, Touched
      <4>2. CASE StoreResetLink(r)
        <5> DEFINE row == [users[for[r]] EXCEPT !.reset = issued', !.resetAge = 0]
        <5>1. Update(r, row)
          BY <4>2 DEF StoreResetLink
        <5>2. row.password = users[for[r]].password
              /\ row.reset \in {users[for[r]].reset, issued'}
          BY <1>0 DEF UserRow
        <5> HIDE DEF row
        <5> QED BY <5>1, <5>2, Touched
      <4> QED BY <2>3, <4>1, <4>2
    <3>2. pc'[r] = "mail" /\ surplus' = surplus /\ pc[r] # "archive"
      BY <1>0, <2>3 DEF UpdateUserInvitationToken, StoreResetLink, Generate
    <3>3. \A q \in Request : pc[q] = "claim" => link[q] # issued + 1
      <4>1. \A q \in Request : pc[q] = "claim" => link[q] # None
        BY DEF TypeOK, ValuesOK, Resetting
      <4>2. issued \in Nat /\ Link \subseteq Nat
        BY DEF TypeOK, LinksOK, Link
      <4> QED BY <1>0, <4>1, <4>2 DEF LinksDated
    <3> QED BY <1>0, <2>0, <3>0, <3>1, <3>2, <3>3 DEF Plain, Leaves
  <2>4. CASE ClearInvitationToken(r) \/ AcceptInvitation(r) \/ ClearResetToken(r)
    <3>1. \A u \in User : /\ users'[u].password = users[u].password
                          /\ users'[u].reset \in {users[u].reset, None}
      <4>1. CASE ClearInvitationToken(r)
        <5> DEFINE row == [users[for[r]] EXCEPT !.invite = None, !.inviteAge = 0]
        <5>1. Update(r, row)
          BY <4>1 DEF ClearInvitationToken
        <5>2. row.password = users[for[r]].password
              /\ row.reset \in {users[for[r]].reset, None}
          BY <1>0 DEF UserRow
        <5> HIDE DEF row
        <5> QED BY <5>1, <5>2, Touched
      <4>2. CASE AcceptInvitation(r)
        <5> DEFINE row == [users[for[r]] EXCEPT !.invite = None, !.inviteAge = 0,
                                              !.accepted = TRUE]
        <5>1. Update(r, row)
          BY <4>2 DEF AcceptInvitation
        <5>2. row.password = users[for[r]].password
              /\ row.reset \in {users[for[r]].reset, None}
          BY <1>0 DEF UserRow
        <5> HIDE DEF row
        <5> QED BY <5>1, <5>2, Touched
      <4>3. CASE ClearResetToken(r)
        <5> DEFINE row == [users[for[r]] EXCEPT !.reset = None, !.resetAge = 0]
        <5>1. Update(r, row)
          BY <4>3 DEF ClearResetToken
        <5>2. row.password = users[for[r]].password
              /\ row.reset \in {users[for[r]].reset, None}
          BY <1>0 DEF UserRow
        <5> HIDE DEF row
        <5> QED BY <5>1, <5>2, Touched
      <4> QED BY <2>4, <4>1, <4>2, <4>3
    <3> QED BY <2>1, <2>4, <3>1
            DEF ClearInvitationToken, AcceptInvitation, ClearResetToken, ghostVars
  <2>5. CASE Mail(r) \/ ReadDisabled(r) \/ Fail(r)
    BY <2>1, <2>5 DEF Mail, ReadDisabled, Fail, ghostVars
  <2>6. CASE GetCurrentPassword(r) \/ UpdateUserPassword(r)
    BY <1>2, <2>1, <2>6
       DEF Recording, GetCurrentPassword, UpdateUserPassword, ghostVars
  <2> QED
    BY <1>2, <2>2, <2>3, <2>4, <2>5, <2>6 DEF RequestStep, Recording
<1>3. ASSUME NEW r \in Request, NEW u \in User, Arrive(r, u) PROVE Plain
  <2>1. \A q \in Request \ {r} : Same(q)
    BY <1>3, OthersSame
  <2>2. UNCHANGED <<users, old, set, written, gap, surplus>> /\ pc[r] = "idle"
    BY <1>3 DEF Arrive, CreateAccount, ApproveAccount, ResendInvitation,
       RequestReset, SetPassword, ResetPassword, Begin, ghostVars
  <2>3. pc'[r] \in {"upsert", "approve", "resend", "issue", "clearInvite",
                    "read", "clearReset", "current"}
    BY <1>0, <1>3 DEF Arrive, CreateAccount, ApproveAccount,
       ResendInvitation, RequestReset, SetPassword, ResetPassword, Begin
  <2> QED BY <2>1, <2>2, <2>3 DEF Plain, Leaves
<1>4. ASSUME NEW u \in User, BulkDisable(u) \/ ReactivateAccount(u) PROVE Plain
  BY <1>0, <1>4 DEF BulkDisable, ReactivateAccount, UserRow, requestVars,
     ghostVars, Plain, Same
<1>5. CASE Tick
  <2>1. UNCHANGED <<old, requestVars, ghostVars>>
    BY <1>5 DEF Tick
  <2>2. ASSUME NEW v \in User
        PROVE  users'[v].password = users[v].password
               /\ users'[v].reset = users[v].reset
    <3> DEFINE a == Older(users[v].reset, users[v].resetAge, ResetExpiry)
               b == Older(users[v].invite, users[v].inviteAge, InviteExpiry)
    <3>1. users'[v] = [users[v] EXCEPT !.resetAge = a, !.inviteAge = b]
      BY <1>5 DEF Tick
    <3> HIDE DEF a, b
    <3> QED BY <1>0, <3>1 DEF UserRow
  <2> QED BY <1>0, <2>1, <2>2 DEF requestVars, ghostVars, Plain, Same
<1> QED BY <1>1, <1>2, <1>3, <1>4, <1>5 DEF Next

\* Links that are sent or stored have been issued.
LEMMA LinksDatedKept ==
    ASSUME TypeOK, LinksDated, issued' \in Nat, issued <= issued',
           \A l \in mailed' : l \in mailed \/ \E r \in Request : l = link[r] /\ l # None,
           \A r \in Request : link'[r] \in mailed \cup {link[r], None, issued'}
    PROVE  LinksDated'
<1>1. /\ issued \in Nat /\ mailed \subseteq Link /\ Link \subseteq Nat
      /\ link \in [Request -> Link \cup {None}]
  BY DEF TypeOK, LinksOK, RequestsOK, Link
<1>2. \A l \in Link : l <= issued => l <= issued'
  BY <1>1
<1>3. \A l \in mailed' : l <= issued'
  BY <1>1, <1>2 DEF LinksDated
<1>4. ASSUME NEW r \in Request, link'[r] # None PROVE link'[r] <= issued'
  <2>1. CASE link'[r] \in mailed
    BY <1>1, <1>2, <2>1 DEF LinksDated
  <2>2. CASE link'[r] = link[r]
    <3>1. link[r] \in Link /\ link[r] <= issued
      BY <1>1, <1>4, <2>2 DEF LinksDated
    <3> QED BY <1>2, <2>2, <3>1
  <2>3. CASE link'[r] = issued'
    BY <2>3
  <2> QED BY <1>4, <2>1, <2>2, <2>3
<1> QED BY <1>3, <1>4 DEF LinksDated

LEMMA LinksDatedStep ==
    ASSUME TypeOK, TypeOK', LinksDated, [Next]_vars
    PROVE  LinksDated'
<1>0. /\ issued \in Nat /\ issued' \in Nat
      /\ link \in [Request -> Link \cup {None}]
  BY DEF TypeOK, LinksOK, RequestsOK
<1>1. ASSUME UNCHANGED <<issued, mailed, link>> PROVE LinksDated'
  BY <1>0, <1>1, LinksDatedKept
<1>2. ASSUME NEW r \in Request, RequestStep(r) PROVE LinksDated'
  <2>1. ASSUME NEW s, Continue(r, s)
        PROVE  \A q \in Request : link'[q] \in mailed \cup {link[q], None, issued'}
    BY <1>0, <2>1 DEF Continue
  <2>2. CASE UpdateUserInvitationToken(r) \/ StoreResetLink(r)
    <3>1. /\ issued' = issued + 1 /\ mailed' = mailed
          /\ link' = [link EXCEPT ![r] = issued + 1]
      BY <2>2 DEF UpdateUserInvitationToken, StoreResetLink, Generate, ghostVars
    <3> QED BY <1>0, <3>1, LinksDatedKept
  <2>3. CASE Mail(r)
    <3>1. issued' = issued /\ mailed' = mailed \cup ({link[r]} \ {None})
      BY <2>3 DEF Mail
    <3>2. \A q \in Request : link'[q] \in mailed \cup {link[q], None, issued'}
      BY <2>1, <2>3 DEF Mail
    <3> QED BY <1>0, <3>1, <3>2, LinksDatedKept
  <2>4. CASE /\ UNCHANGED <<issued, mailed>>
             /\ (\E s : Continue(r, s)) \/ UNCHANGED link
    BY <1>0, <2>1, <2>4, LinksDatedKept
  <2>5. CASE PerformUpsert(r) \/ ClearInvitationToken(r) \/ ReadDisabled(r)
             \/ SetInitialPassword(r) \/ AcceptInvitation(r)
             \/ ClearResetToken(r) \/ CheckPasswordReuse(r)
    BY <2>4, <2>5 DEF PerformUpsert, ClearInvitationToken, ReadDisabled,
       SetInitialPassword, AcceptInvitation, ClearResetToken,
       CheckPasswordReuse, ghostVars
  <2>6. CASE GetCurrentPassword(r) \/ UpdateUserPassword(r)
             \/ ArchiveOldPassword(r) \/ FindOldPasswords(r)
             \/ DeleteOldPasswords(r) \/ Fail(r)
    BY <2>4, <2>6 DEF GetCurrentPassword, UpdateUserPassword,
       ArchiveOldPassword, FindOldPasswords, DeleteOldPasswords, Fail, ghostVars
  <2> QED BY <1>2, <2>2, <2>3, <2>5, <2>6 DEF RequestStep
<1>3. ASSUME NEW r \in Request, NEW u \in User, Arrive(r, u) PROVE LinksDated'
  <2>1. mailed' = mailed /\ issued' \in {issued, issued + 1}
    BY <1>3 DEF Arrive, CreateAccount, ApproveAccount, ResendInvitation,
       RequestReset, SetPassword, ResetPassword, Begin
  <2>2. \A q \in Request : link'[q] \in mailed \cup {link[q], None, issued'}
    <3>1. \E l \in mailed \cup {None, issued'} : link' = [link EXCEPT ![r] = l]
      BY <1>3 DEF Arrive, CreateAccount, ApproveAccount, ResendInvitation,
         RequestReset, SetPassword, ResetPassword, Begin
    <3> QED BY <1>0, <3>1
  <2>3. issued <= issued'
    BY <1>0, <2>1
  <2> QED BY <1>0, <2>1, <2>2, <2>3, LinksDatedKept
<1> QED
  BY <1>1, <1>2, <1>3 DEF Next, vars, BulkDisable, ReactivateAccount, Tick, requestVars

\* Accounts do not disappear, and get passwords and reset links when they
\* are there.
LEMMA AbsenceKept ==
    ASSUME TypeOK, Absence,
           \A u \in User : users'[u].status = "absent" =>
              /\ users[u].status = "absent"
              /\ users'[u].password \in {users[u].password, None}
              /\ users'[u].reset \in {users[u].reset, None},
           \A r \in Request : pc'[r] = "issue" =>
              \/ pc[r] = "issue" /\ for'[r] = for[r]
              \/ users[for'[r]].status # "absent" /\ for'[r] \in User
    PROVE  Absence'
<1>1. \A r \in Request : pc'[r] = "issue" => users'[for'[r]].status # "absent"
  BY DEF Absence, TypeOK, RequestsOK
<1> QED BY <1>1 DEF Absence

LEMMA AbsenceStep ==
    ASSUME TypeOK, Absence, [Next]_vars
    PROVE  Absence'
<1>0. /\ \A u \in User : users[u] \in UserRow
      /\ users \in [User -> UserRow]
      /\ \A r \in Request : for[r] \in User
      /\ pc \in [Request -> Step] /\ for \in [Request -> User]
  BY DEF TypeOK, RowsOK, RequestsOK
<1>1. CASE UNCHANGED vars
  BY <1>0, <1>1, AbsenceKept DEF vars
<1>2. ASSUME NEW r \in Request, RequestStep(r) PROVE Absence'
  <2>1. \A q \in Request : pc'[q] = "issue" => pc[q] = "issue" /\ for'[q] = for[q]
    <3>1. \A q \in Request \ {r} : Same(q)
      BY <1>2, OthersSame
    <3>2. pc'[r] # "issue"
      <4>1. ASSUME NEW s, Continue(r, s) \/ Generate(r, s), s # "issue"
            PROVE  pc'[r] # "issue"
        BY <1>0, <4>1 DEF Continue, Generate
      <4>2. CASE PerformUpsert(r) \/ UpdateUserInvitationToken(r) \/ Mail(r)
                 \/ ClearInvitationToken(r) \/ ReadDisabled(r)
                 \/ SetInitialPassword(r) \/ AcceptInvitation(r)
                 \/ StoreResetLink(r) \/ ClearResetToken(r)
        BY <4>1, <4>2 DEF PerformUpsert, UpdateUserInvitationToken, Mail,
           ClearInvitationToken, ReadDisabled, SetInitialPassword,
           AcceptInvitation, StoreResetLink, ClearResetToken
      <4>3. CASE GetCurrentPassword(r) \/ FindOldPasswords(r)
        BY <1>0, <4>1, <4>3 DEF GetCurrentPassword, FindOldPasswords
      <4>4. CASE CheckPasswordReuse(r) \/ UpdateUserPassword(r)
                 \/ ArchiveOldPassword(r) \/ DeleteOldPasswords(r) \/ Fail(r)
        BY <4>1, <4>4 DEF CheckPasswordReuse, UpdateUserPassword, AfterClaim,
           ArchiveOldPassword, DeleteOldPasswords, Fail
      <4> QED BY <1>2, <4>2, <4>3, <4>4 DEF RequestStep
    <3> QED BY <3>1, <3>2 DEF Same
  <2>2. ASSUME NEW row, Update(r, row),
               row.status = "absent" =>
                  /\ users[for[r]].status = "absent"
                  /\ row.password \in {users[for[r]].password, None}
                  /\ row.reset \in {users[for[r]].reset, None}
        PROVE  Absence'
    <3>1. \A u \in User : users'[u] = IF u = for[r] THEN row ELSE users[u]
      BY <1>0, <2>2 DEF Update
    <3> QED BY <2>1, <2>2, <3>1, AbsenceKept
  <2>3. CASE PerformUpsert(r)
    <3> DEFINE row == users'[for[r]]
    <3>1. Update(r, row)
      BY <1>0, <2>3 DEF PerformUpsert, Update
    <3>2. row.status = "absent" => FALSE
      BY <1>0, <2>3 DEF PerformUpsert, Update, NoUser, UserRow
    <3> QED BY <2>2, <3>1, <3>2
  <2>4. CASE UpdateUserInvitationToken(r)
    <3> DEFINE row == [users[for[r]] EXCEPT !.status = InvitedStatus(r),
                          !.invite = issued', !.inviteAge = 0]
    <3>1. Update(r, row)
      BY <2>4 DEF UpdateUserInvitationToken
    <3>2. /\ row.status = InvitedStatus(r) /\ row.reset = users[for[r]].reset
          /\ row.password = users[for[r]].password
      BY <1>0 DEF UserRow
    <3>3. row.status = "absent" => users[for[r]].status = "absent"
      BY <3>2 DEF InvitedStatus
    <3> HIDE DEF row
    <3> QED BY <2>2, <3>1, <3>2, <3>3
  <2>5. CASE ClearInvitationToken(r)
    <3> DEFINE row == [users[for[r]] EXCEPT !.invite = None, !.inviteAge = 0]
    <3>1. Update(r, row)
      BY <2>5 DEF ClearInvitationToken
    <3>2. /\ row.status = users[for[r]].status /\ row.reset = users[for[r]].reset
          /\ row.password = users[for[r]].password
      BY <1>0 DEF UserRow
    <3> HIDE DEF row
    <3> QED BY <2>2, <3>1, <3>2
  <2>6. CASE SetInitialPassword(r)
    <3> DEFINE row == [users[for[r]] EXCEPT !.password = choice[r], !.status = "active"]
    <3>1. Update(r, row)
      BY <2>6 DEF SetInitialPassword
    <3>2. row.status = "active"
      BY <1>0 DEF UserRow
    <3> HIDE DEF row
    <3> QED BY <2>2, <3>1, <3>2
  <2>7. CASE AcceptInvitation(r)
    <3> DEFINE row == [users[for[r]] EXCEPT !.invite = None, !.inviteAge = 0,
                                            !.accepted = TRUE]
    <3>1. Update(r, row)
      BY <2>7 DEF AcceptInvitation
    <3>2. /\ row.status = users[for[r]].status /\ row.reset = users[for[r]].reset
          /\ row.password = users[for[r]].password
      BY <1>0 DEF UserRow
    <3> HIDE DEF row
    <3> QED BY <2>2, <3>1, <3>2
  <2>8. CASE StoreResetLink(r)
    <3> DEFINE row == [users[for[r]] EXCEPT !.reset = issued', !.resetAge = 0]
    <3>1. Update(r, row)
      BY <2>8 DEF StoreResetLink
    <3>2. row.status = users[for[r]].status
      BY <1>0 DEF UserRow
    <3>3. users[for[r]].status # "absent"
      BY <2>8 DEF StoreResetLink, Absence
    <3> HIDE DEF row
    <3> QED BY <2>2, <3>1, <3>2, <3>3
  <2>9. CASE ClearResetToken(r)
    <3> DEFINE row == [users[for[r]] EXCEPT !.reset = None, !.resetAge = 0]
    <3>1. Update(r, row)
      BY <2>9 DEF ClearResetToken
    <3>2. /\ row.status = users[for[r]].status /\ row.reset = None
          /\ row.password = users[for[r]].password
      BY <1>0 DEF UserRow
    <3> HIDE DEF row
    <3> QED BY <2>2, <3>1, <3>2
  <2>10. CASE UpdateUserPassword(r) /\ HoldsLink(r)
    <3> DEFINE row == [users[for[r]] EXCEPT !.password = choice[r],
                                            !.reset = None, !.resetAge = 0]
    <3>1. Update(r, row)
      BY <2>10 DEF UpdateUserPassword
    <3>2. row.status = users[for[r]].status
      BY <1>0 DEF UserRow
    <3>3. users[for[r]].status # "absent"
      <4>1. link[r] # None
        BY <2>10 DEF UpdateUserPassword, TypeOK, ValuesOK, Resetting
      <4> QED BY <1>0, <2>10, <4>1 DEF HoldsLink, Absence
    <3> HIDE DEF row
    <3> QED BY <2>2, <3>1, <3>2, <3>3
  <2>11. CASE UNCHANGED users
    BY <1>0, <2>1, <2>11, AbsenceKept
  <2>12. CASE Mail(r) \/ ReadDisabled(r) \/ GetCurrentPassword(r)
              \/ CheckPasswordReuse(r) \/ (UpdateUserPassword(r) /\ ~HoldsLink(r))
              \/ ArchiveOldPassword(r) \/ FindOldPasswords(r)
              \/ DeleteOldPasswords(r) \/ Fail(r)
    BY <2>11, <2>12 DEF Mail, ReadDisabled, GetCurrentPassword,
       CheckPasswordReuse, UpdateUserPassword, ArchiveOldPassword,
       FindOldPasswords, DeleteOldPasswords, Fail
  <2>13. CASE UpdateUserPassword(r)
    BY <2>10, <2>12, <2>13
  <2> QED BY <1>2, <2>3, <2>4, <2>5, <2>6, <2>7, <2>8, <2>9, <2>12, <2>13
          DEF RequestStep
<1>3. ASSUME NEW r \in Request, NEW u \in User, Arrive(r, u) PROVE Absence'
  <2>1. UNCHANGED users
    BY <1>3 DEF Arrive, CreateAccount, ApproveAccount, ResendInvitation,
       RequestReset, SetPassword, ResetPassword, Begin
  <2>2. \A q \in Request \ {r} : Same(q)
    BY <1>3, OthersSame
  <2>3. pc'[r] = "issue" => users[for'[r]].status # "absent" /\ for'[r] = u
    BY <1>0, <1>3 DEF Arrive, CreateAccount, ApproveAccount, ResendInvitation,
       RequestReset, SetPassword, ResetPassword, Begin
  <2> QED BY <1>0, <2>1, <2>2, <2>3, AbsenceKept DEF Same
<1>4. ASSUME NEW u \in User, BulkDisable(u) \/ ReactivateAccount(u) PROVE Absence'
  <2>1. \A v \in User : /\ users'[v].status = users[v].status
                        /\ users'[v].password = users[v].password
                        /\ users'[v].reset = users[v].reset
    BY <1>0, <1>4 DEF BulkDisable, ReactivateAccount, UserRow
  <2> QED BY <1>4, <2>1, AbsenceKept DEF BulkDisable, ReactivateAccount, requestVars
<1>5. CASE Tick
  <2>1. \A v \in User : /\ users'[v].status = users[v].status
                        /\ users'[v].password = users[v].password
                        /\ users'[v].reset = users[v].reset
    BY <1>0, <1>5 DEF Tick, UserRow
  <2> QED BY <1>5, <2>1, AbsenceKept DEF Tick, requestVars
<1> QED BY <1>1, <1>2, <1>3, <1>4, <1>5 DEF Next

ReuseInv == RowsDated /\ NoneBefore /\ HistoryInv /\ CheckedInv

\* The archives to come of an account stay the same, and so does what a
\* clean-up is about to delete.
SameArchives(u) ==
    /\ \A q \in Request : (pc'[q] = "archive" /\ for'[q] = u)
                             <=> (pc[q] = "archive" /\ for[q] = u)
    /\ \A q \in Request : pc[q] = "archive" /\ for[q] = u => current'[q] = current[q]
    /\ \A q \in Request : pc'[q] = "prune" /\ for'[q] = u =>
          pc[q] = "prune" /\ for[q] = u /\ surplus'[q] \subseteq surplus[q]

LEMMA ArchivesKept ==
    ASSUME NEW u, SameArchives(u)
    PROVE  /\ Unarchived(u)' <=> Unarchived(u)
           /\ \A x : Archiving(x, u)' <=> Archiving(x, u)
           /\ OneArchive(u) => OneArchive(u)'
<1>1. Unarchived(u)' <=> Unarchived(u)
  BY DEF SameArchives, Unarchived
<1>2. \A x : Archiving(x, u)' <=> Archiving(x, u)
  BY DEF SameArchives, Archiving
<1>3. OneArchive(u) => OneArchive(u)'
  BY DEF SameArchives, OneArchive
<1> QED BY <1>1, <1>2, <1>3

\* An account whose record, history and password stay.
LEMMA AccountKept ==
    ASSUME NEW u, SameArchives(u), Recorded(u), OneArchive(u),
           old'[u] = old[u], set'[u] = set[u],
           users'[u].password = users[u].password
    PROVE  Recorded(u)' /\ OneArchive(u)'
<1>1. \A x : Kept(x, u) => Kept(x, u)'
  BY ArchivesKept DEF Kept, SameArchives
<1>2. Recorded(u)'
  BY <1>1, ArchivesKept DEF Recorded
<1> QED BY <1>2, ArchivesKept

\* A request that is about to claim a link and that stays as it was, when
\* no archive of its account begins.
LEMMA ClaimKept ==
    ASSUME TypeOK, CheckedInv, NEW q \in Request, Same(q), gap \subseteq gap',
           pc[q] = "claim" =>
              /\ set'[for[q]] = set[for[q]]
              /\ users'[for[q]].reset = link[q] => users[for[q]].reset = link[q]
              /\ users'[for[q]].password = users[for[q]].password
              /\ Unarchived(for[q])' => Unarchived(for[q])
    PROVE  Checked(q)'
BY DEF CheckedInv, Checked, Same, HoldsLink, Recent

LEMMA PlainKept ==
    ASSUME TypeOK, ReuseInv, Plain
    PROVE  ReuseInv'
<1>0. \A q \in Request : for[q] \in User
  BY DEF TypeOK, RequestsOK
<1>1. RowsDated'
  BY DEF ReuseInv, RowsDated, Plain, Same, Leaves
<1>2. NoneBefore'
  <2>1. ASSUME NEW q \in Request, pc'[q] \in {"history", "claim"} PROVE Same(q)
    BY <2>1 DEF Plain, Leaves
  <2> QED BY <1>0, <2>1 DEF ReuseInv, NoneBefore, Plain, Same
<1>3. ASSUME NEW u \in User \ gap' PROVE SameArchives(u)
  BY <1>3 DEF Plain, Same, Leaves, SameArchives
<1>4. HistoryInv'
  BY <1>3, AccountKept DEF ReuseInv, HistoryInv, Plain
<1>5. CheckedInv'
  <2> SUFFICES ASSUME NEW q \in Request PROVE Checked(q)'
    BY DEF CheckedInv
  <2>1. CASE pc'[q] # "claim" \/ for'[q] \in gap'
    BY <2>1 DEF Checked
  <2>2. CASE pc'[q] = "claim" /\ for'[q] \notin gap'
    <3>1. Same(q)
      BY <2>2 DEF Plain, Leaves
    <3>2. Unarchived(for[q])' => Unarchived(for[q])
      BY <1>0, <1>3, <2>2, <3>1, ArchivesKept DEF Same
    <3> QED BY <1>0, <3>1, <3>2, ClaimKept DEF Plain, ReuseInv
  <2> QED BY <2>1, <2>2
<1> QED BY <1>1, <1>2, <1>4, <1>5 DEF ReuseInv

\* The steps that read the current password and the record.
LEMMA GetCurrentKept ==
    ASSUME TypeOK, ReuseInv, NEW r \in Request, GetCurrentPassword(r),
           users[for[r]].password # choice[r]
    PROVE  ReuseInv'
<1>0. \A q \in Request : for[q] \in User
  BY DEF TypeOK, RequestsOK
<1>1. /\ UNCHANGED <<users, old, set, written, gap, for, choice, surplus>>
      /\ pc[r] = "current" /\ pc'[r] = "history"
      /\ current'[r] = users[for[r]].password
  BY DEF GetCurrentPassword, ghostVars, TypeOK, RequestsOK
<1>2. \A q \in Request \ {r} : Same(q)
  BY OthersSame DEF RequestStep
<1>3. RowsDated'
  BY <1>1 DEF ReuseInv, RowsDated
<1>4. NoneBefore'
  BY <1>1, <1>2 DEF ReuseInv, NoneBefore, Same
<1>5. \A u \in User : SameArchives(u)
  BY <1>1, <1>2 DEF SameArchives, Same
<1>6. HistoryInv'
  BY <1>1, <1>5, AccountKept DEF ReuseInv, HistoryInv
<1>7. CheckedInv'
  <2> SUFFICES ASSUME NEW q \in Request PROVE Checked(q)'
    BY DEF CheckedInv
  <2>1. CASE q = r
    BY <1>1, <2>1 DEF Checked
  <2>2. CASE q # r
    BY <1>0, <1>1, <1>2, <1>5, <2>2, ArchivesKept, ClaimKept DEF ReuseInv
  <2> QED BY <2>1, <2>2
<1> QED BY <1>3, <1>4, <1>6, <1>7 DEF ReuseInv

LEMMA CheckKept ==
    ASSUME TypeOK, ReuseInv, NEW r \in Request, CheckPasswordReuse(r)
    PROVE  ReuseInv'
<1> DEFINE u == for[r]
           found == choice[r] \in Passwords(Newest(old[u], Limit))
<1>0. \A q \in Request : for[q] \in User
  BY DEF TypeOK, RequestsOK
<1>1. /\ UNCHANGED <<users, old, set, written, for>> /\ pc[r] = "history"
      /\ pc'[r] = (IF found THEN "idle" ELSE "claim")
      /\ gap' = (IF Unarchived(u) THEN gap \cup {u} ELSE gap)
      /\ pc'[r] = "claim" => UNCHANGED <<link, choice, current>>
      /\ surplus'[r] \subseteq surplus[r]
  BY DEF CheckPasswordReuse, Continue, TypeOK, RequestsOK
<1>2. \A q \in Request \ {r} : Same(q)
  BY OthersSame DEF RequestStep
<1>3. RowsDated'
  BY <1>1, <1>2 DEF ReuseInv, RowsDated, Same
<1>4. NoneBefore'
  BY <1>1, <1>2 DEF ReuseInv, NoneBefore, Same
<1>5. \A v \in User : SameArchives(v)
  BY <1>1, <1>2 DEF SameArchives, Same
<1>6. HistoryInv'
  BY <1>1, <1>5, AccountKept DEF ReuseInv, HistoryInv
<1>7. ASSUME pc'[r] = "claim", u \notin gap', users[u].password = current[r]
      PROVE  ~Unarchived(u) /\ choice[r] \notin Recent(u)
  <2>1. ~Unarchived(u) /\ u \in User \ gap /\ ~found
    BY <1>0, <1>1, <1>7
  <2>2. choice[r] # current[r]
    BY <1>1 DEF ReuseInv, NoneBefore
  <2>3. ASSUME NEW x \in set[u] PROVE x.password # choice[r]
    <3>1. CASE Newer(x, set[u]) = {}
      BY <1>7, <2>1, <2>2, <3>1 DEF ReuseInv, HistoryInv, Recorded
    <3>2. CASE Newer(x, set[u]) # {}
      <4>1. Kept(x, u)
        BY <2>1, <3>2 DEF ReuseInv, HistoryInv, Recorded, Archiving, Unarchived
      <4>2. PICK y \in old[u] : y.password = x.password
                                /\ Rank(y, old[u]) < Rank(x, set[u])
        BY <4>1 DEF Kept
      <4>3. Rank(x, set[u]) <= Limit /\ IsFiniteSet(old[u]) /\ IsFiniteSet(set[u])
        BY <2>1 DEF ReuseInv, RowsDated
      <4>4. Rank(y, old[u]) < Limit
        BY <4>2, <4>3, FewerRows, LimitAssumption
      <4>5. y \in Newest(old[u], Limit)
        BY <4>2, <4>4 DEF Newest, Rank
      <4> QED BY <2>1, <4>2, <4>5 DEF Passwords
    <3> QED BY <3>1, <3>2
  <2> QED BY <2>1, <2>3 DEF Recent, Passwords
<1>8. CheckedInv'
  <2> SUFFICES ASSUME NEW q \in Request PROVE Checked(q)'
    BY DEF CheckedInv
  <2>1. CASE q = r
    <3>1. Unarchived(u)' => Unarchived(u)
      BY <1>0, <1>1, <1>5 DEF Unarchived, SameArchives
    <3> QED BY <1>1, <1>7, <2>1, <3>1 DEF Checked, Recent
  <2>2. CASE q # r
    <3>1. Unarchived(for[q])' => Unarchived(for[q])
      BY <1>0, <1>1, <1>5 DEF Unarchived, SameArchives
    <3>2. gap \subseteq gap' /\ Same(q)
      BY <1>1, <1>2, <2>2
    <3> QED BY <1>1, <3>1, <3>2, ClaimKept DEF ReuseInv
  <2> QED BY <2>1, <2>2
<1> QED BY <1>3, <1>4, <1>6, <1>8 DEF ReuseInv

\* A step at one account that leaves every history and password alone, and
\* begins no archive.
LEMMA RecordKept ==
    ASSUME TypeOK, ReuseInv, NEW r \in Request,
           \A q \in Request \ {r} : Same(q),
           UNCHANGED <<users, set, gap, for>>,
           pc'[r] \notin {"history", "claim", "archive"}, RowsDated',
           \A u \in User \ {for[r]} : old'[u] = old[u],
           for[r] \notin gap => Recorded(for[r])'
    PROVE  ReuseInv'
<1>0. \A q \in Request : for[q] \in User
  BY DEF TypeOK, RequestsOK
<1>1. NoneBefore'
  BY DEF ReuseInv, NoneBefore, Same
<1>2. HistoryInv'
  <2> SUFFICES ASSUME NEW u \in User \ gap PROVE (Recorded(u) /\ OneArchive(u))'
    BY DEF HistoryInv
  <2>1. CASE u = for[r]
    <3>1. OneArchive(u)'
      BY <2>1 DEF ReuseInv, HistoryInv, OneArchive, Same
    <3> QED BY <2>1, <3>1
  <2>2. CASE u # for[r]
    <3>1. SameArchives(u)
      BY <2>2 DEF SameArchives, Same
    <3> QED BY <2>2, <3>1, AccountKept DEF ReuseInv, HistoryInv
  <2> QED BY <2>1, <2>2
<1>3. CheckedInv'
  <2> SUFFICES ASSUME NEW q \in Request PROVE Checked(q)'
    BY DEF CheckedInv
  <2>1. CASE q = r
    BY <2>1 DEF Checked
  <2>2. CASE q # r
    <3>1. Unarchived(for[q])' => Unarchived(for[q])
      BY DEF Unarchived, Same
    <3> QED BY <2>2, <3>1, ClaimKept DEF ReuseInv
  <2> QED BY <2>1, <2>2
<1> QED BY <1>1, <1>2, <1>3 DEF ReuseInv

LEMMA FindKept ==
    ASSUME TypeOK, ReuseInv, NEW r \in Request, FindOldPasswords(r)
    PROVE  ReuseInv'
<1> DEFINE u == for[r]
           rest == old[u] \ Newest(old[u], Limit)
<1>0. \A q \in Request : for[q] \in User
  BY DEF TypeOK, RequestsOK
<1>1. /\ UNCHANGED <<users, old, set, written, gap, for>> /\ pc[r] = "old"
      /\ pc'[r] \in {"idle", "prune"} /\ surplus'[r] \subseteq rest
  BY DEF FindOldPasswords, Continue, ghostVars, TypeOK, RequestsOK
<1>2. \A q \in Request \ {r} : Same(q)
  BY OthersSame DEF RequestStep
<1>3. RowsDated'
  BY <1>0, <1>1, <1>2 DEF ReuseInv, RowsDated, Same
<1>4. ASSUME u \notin gap PROVE Recorded(u)'
  <2>1. Recorded(u) /\ u \in User
    BY <1>0, <1>4 DEF ReuseInv, HistoryInv
  <2>2. /\ Unarchived(u)' <=> Unarchived(u)
        /\ \A x : Archiving(x, u) => Archiving(x, u)'
    BY <1>1, <1>2 DEF Unarchived, Archiving, Same
  <2>3. ASSUME NEW x \in set[u], Kept(x, u) PROVE Kept(x, u)'
    <3>1. PICK y \in old[u] :
             /\ y.password = x.password
             /\ Rank(y, old[u]) < Rank(x, set[u])
             /\ Unarchived(u) => Rank(y, old[u]) + 1 < Rank(x, set[u])
             /\ \A q \in Request : pc[q] = "prune" /\ for[q] = u => y \notin surplus[q]
      BY <2>3 DEF Kept
    <3>2. Rank(x, set[u]) <= Limit /\ IsFiniteSet(old[u]) /\ IsFiniteSet(set[u])
      BY <2>1 DEF ReuseInv, RowsDated
    <3>3. Rank(y, old[u]) < Limit
      BY <3>1, <3>2, FewerRows, LimitAssumption
    <3>4. y \notin rest
      BY <3>1, <3>3 DEF Newest, Rank
    <3>5. \A q \in Request : pc'[q] = "prune" /\ for'[q] = u => y \notin surplus'[q]
      BY <1>1, <1>2, <3>1, <3>4 DEF Same
    <3> QED BY <1>1, <2>2, <3>1, <3>5 DEF Kept
  <2> QED BY <1>1, <2>1, <2>2, <2>3 DEF Recorded
<1> QED BY <1>1, <1>2, <1>3, <1>4, RecordKept

LEMMA DeleteKept ==
    ASSUME TypeOK, ReuseInv, NEW r \in Request, DeleteOldPasswords(r)
    PROVE  ReuseInv'
<1> DEFINE u == for[r]
<1>0. \A q \in Request : for[q] \in User
  BY DEF TypeOK, RequestsOK
<1>1. /\ UNCHANGED <<users, set, written, gap, for>> /\ pc[r] = "prune"
      /\ pc'[r] = "idle" /\ surplus'[r] = {}
      /\ old'[u] = old[u] \ surplus[r]
      /\ \A v \in User \ {u} : old'[v] = old[v]
  BY <1>0 DEF DeleteOldPasswords, Continue, ghostVars, TypeOK, RequestsOK, RowsOK
<1>2. \A q \in Request \ {r} : Same(q)
  BY OthersSame DEF RequestStep
<1>3. IsFiniteSet(old[u]) /\ old'[u] \in SUBSET old[u]
  BY <1>0, <1>1 DEF ReuseInv, RowsDated
<1>4. RowsDated'
  <2>1. \A v \in User : IsFiniteSet(old'[v]) /\ old'[v] \subseteq old[v]
    BY <1>1, <1>3, FewerRows DEF ReuseInv, RowsDated
  <2> QED BY <1>1, <1>2, <2>1 DEF ReuseInv, RowsDated, Same
<1>5. ASSUME u \notin gap PROVE Recorded(u)'
  <2>1. Recorded(u) /\ u \in User
    BY <1>0, <1>5 DEF ReuseInv, HistoryInv
  <2>2. /\ Unarchived(u)' <=> Unarchived(u)
        /\ \A x : Archiving(x, u) => Archiving(x, u)'
    BY <1>1, <1>2 DEF Unarchived, Archiving, Same
  <2>3. ASSUME NEW x \in set[u], Kept(x, u) PROVE Kept(x, u)'
    <3>1. PICK y \in old[u] :
             /\ y.password = x.password
             /\ Rank(y, old[u]) < Rank(x, set[u])
             /\ Unarchived(u) => Rank(y, old[u]) + 1 < Rank(x, set[u])
             /\ \A q \in Request : pc[q] = "prune" /\ for[q] = u => y \notin surplus[q]
      BY <2>3 DEF Kept
    <3>2. /\ Rank(y, old'[u]) <= Rank(y, old[u])
          /\ Rank(y, old'[u]) \in Nat /\ Rank(y, old[u]) \in Nat
      BY <1>3, FewerRows
    <3>3. Rank(x, set[u]) \in Nat
      BY <2>1, FewerRows DEF ReuseInv, RowsDated
    <3>4. /\ Rank(y, old'[u]) < Rank(x, set[u])
          /\ Unarchived(u) => Rank(y, old'[u]) + 1 < Rank(x, set[u])
      BY <3>1, <3>2, <3>3
    <3>5. y \in old'[u]
      BY <1>1, <3>1
    <3>6. \A q \in Request : pc'[q] = "prune" /\ for'[q] = u => y \notin surplus'[q]
      BY <1>1, <1>2, <3>1 DEF Same
    <3> QED BY <1>1, <2>2, <3>1, <3>4, <3>5, <3>6 DEF Kept
  <2> QED BY <1>1, <2>1, <2>2, <2>3 DEF Recorded
<1> QED BY <1>1, <1>2, <1>4, <1>5, RecordKept

LEMMA ArchiveKept ==
    ASSUME TypeOK, ReuseInv, NEW r \in Request, ArchiveOldPassword(r)
    PROVE  ReuseInv'
<1> DEFINE u == for[r]
           z == [at |-> written + 1, password |-> current[r]]
<1>0. \A q \in Request : for[q] \in User
  BY DEF TypeOK, RequestsOK
<1>1. /\ UNCHANGED <<users, set, gap, for, surplus>> /\ pc[r] = "archive"
      /\ pc'[r] = "old" /\ written' = written + 1 /\ written \in Nat
      /\ old'[u] = Adding(old[u], current[r])
      /\ \A v \in User \ {u} : old'[v] = old[v]
  BY <1>0 DEF ArchiveOldPassword, Replaced, Continue, TypeOK, RequestsOK, RowsOK
<1>2. \A q \in Request \ {r} : Same(q)
  BY OthersSame DEF RequestStep
<1>3. /\ old[u] \in SUBSET Row /\ IsFiniteSet(old[u])
      /\ \A x \in old[u] : x.at <= written
  BY <1>0 DEF ReuseInv, RowsDated, TypeOK, RowsOK
<1>4. /\ old'[u] = old[u] \cup {z} /\ IsFiniteSet(old'[u])
      /\ Rank(z, old'[u]) = 0
      /\ \A y \in old[u] : Rank(y, old'[u]) = Rank(y, old[u]) + 1
  <2>1. PICK rows : rows = old[u]
    OBVIOUS
  <2>2. PICK p : p = current[r]
    OBVIOUS
  <2>3. /\ Adding(rows, p) = rows \cup {z} /\ IsFiniteSet(rows \cup {z})
        /\ Rank(z, rows \cup {z}) = 0
        /\ \A y \in rows : Rank(y, rows \cup {z}) = Rank(y, rows) + 1
    <3>1. z = [at |-> written + 1, password |-> p]
      BY <2>2
    <3>2. rows \in SUBSET Row /\ IsFiniteSet(rows) /\ \A y \in rows : y.at <= written
      BY <1>3, <2>1
    <3> HIDE DEF z
    <3> QED BY <1>1, <3>1, <3>2, AddedRank
  <2>4. old'[u] = rows \cup {z}
    BY <1>1, <2>1, <2>2, <2>3
  <2> HIDE DEF z
  <2> QED BY <2>1, <2>3, <2>4
<1>5. z.at = written + 1 /\ z.password = current[r]
  OBVIOUS
<1> HIDE DEF z
<1>6. RowsDated'
  <2>1. \A v \in User : /\ \A x \in old[v] \cup set[v] : x.at \in Nat
                        /\ \A q \in Request : \A x \in surplus[q] : x.at \in Nat
    BY DEF TypeOK, RowsOK, RequestsOK, Row
  <2>2. \A v \in User : IsFiniteSet(old'[v])
    BY <1>1, <1>4 DEF ReuseInv, RowsDated
  <2>3. \A v \in User : \A x \in old'[v] \cup set'[v] : x.at <= written'
    BY <1>1, <1>4, <1>5, <2>1 DEF ReuseInv, RowsDated
  <2>4. \A q \in Request : \A x \in surplus'[q] : x.at <= written'
    BY <1>0, <1>1, <2>1 DEF ReuseInv, RowsDated
  <2> QED BY <1>1, <2>2, <2>3, <2>4 DEF ReuseInv, RowsDated
<1>7. ASSUME u \notin gap PROVE Recorded(u)'
  <2>1. Recorded(u) /\ OneArchive(u) /\ u \in User
    BY <1>0, <1>7 DEF ReuseInv, HistoryInv
  <2>2. Unarchived(u) /\ ~Unarchived(u)'
    BY <1>1, <1>2, <2>1 DEF Unarchived, OneArchive, Same
  <2>3. \A q \in Request : pc'[q] = "prune" /\ for'[q] = u =>
            pc[q] = "prune" /\ for[q] = u /\ surplus'[q] = surplus[q]
    BY <1>1, <1>2 DEF Same
  <2>4. ASSUME NEW x \in set[u], Kept(x, u) PROVE Kept(x, u)'
    <3>1. PICK y \in old[u] :
             /\ y.password = x.password
             /\ Rank(y, old[u]) + 1 < Rank(x, set[u])
             /\ \A q \in Request : pc[q] = "prune" /\ for[q] = u => y \notin surplus[q]
      BY <2>2, <2>4 DEF Kept
    <3>2. y \in old'[u] /\ Rank(y, old'[u]) < Rank(x, set[u])
      BY <1>4, <3>1
    <3> QED BY <1>1, <2>2, <2>3, <3>1, <3>2 DEF Kept
  <2>5. ASSUME NEW x \in set[u], Archiving(x, u), Newer(x, set[u]) # {}
        PROVE  Kept(x, u)'
    <3>1. x.password = current[r]
      BY <1>1, <2>1, <2>5 DEF Archiving, OneArchive
    <3>2. Rank(x, set[u]) > 0
      <4>1. Newer(x, set[u]) \in SUBSET set[u] /\ IsFiniteSet(set[u])
        BY <2>1 DEF Newer, ReuseInv, RowsDated
      <4>2. IsFiniteSet(Newer(x, set[u]))
        BY <4>1, FS_Subset
      <4> QED BY <2>5, <4>2, FS_EmptySet, FS_CardinalityType DEF Rank
    <3>3. \A q \in Request : pc[q] = "prune" /\ for[q] = u => z \notin surplus[q]
      <4>1. \A q \in Request : \A y \in surplus[q] : y.at \in Nat /\ y.at <= written
        BY DEF ReuseInv, RowsDated, TypeOK, RequestsOK, Row
      <4> QED BY <1>1, <1>5, <4>1
    <3>4. z \in old'[u] /\ z.password = x.password /\ Rank(z, old'[u]) < Rank(x, set[u])
      BY <1>4, <1>5, <3>1, <3>2
    <3> QED BY <1>1, <2>2, <2>3, <3>3, <3>4 DEF Kept
  <2> QED BY <1>1, <2>1, <2>4, <2>5 DEF Recorded
<1> QED BY <1>1, <1>2, <1>6, <1>7, RecordKept

\* The two steps that give an account a password.
LEMMA GivenDated ==
    ASSUME TypeOK, ReuseInv, NEW r \in Request, choice[r] \in Password,
           NEW u, u = for[r], NEW z,
           z = [at |-> written + 1, password |-> choice[r]],
           set'[u] = Given(set[u], choice[r]),
           \A v \in User \ {u} : set'[v] = set[v],
           written' = written + 1, UNCHANGED old,
           \A q \in Request : surplus'[q] \subseteq surplus[q]
    PROVE  /\ RowsDated' /\ u \in User
           /\ Newer(z, set'[u]) = {}
           /\ \A x \in set'[u] \ {z} : /\ x \in set[u] /\ Newer(x, set'[u]) # {}
                                       /\ Rank(x, set'[u]) = Rank(x, set[u]) + 1
<1>1. /\ u \in User /\ written \in Nat /\ set \in [User -> SUBSET Row]
      /\ \A v \in User : \A x \in old[v] \cup set[v] : x.at \in Nat
      /\ \A q \in Request : \A x \in surplus[q] : x.at \in Nat
  BY DEF TypeOK, RowsOK, RequestsOK, Row
<1>2. PICK rows : rows = set[u]
  OBVIOUS
<1>3. PICK p : p = choice[r]
  OBVIOUS
<1>4. PICK G : G = Given(rows, p)
  OBVIOUS
<1>5. /\ G \subseteq rows \cup {z} /\ IsFiniteSet(G) /\ Newer(z, G) = {}
      /\ \A x \in G : Rank(x, G) <= Limit
      /\ \A x \in G \ {z} : x \in rows /\ Rank(x, G) = Rank(x, rows) + 1
                            /\ Newer(x, G) # {}
  <2>1. rows \in SUBSET Row /\ IsFiniteSet(rows) /\ \A x \in rows : x.at <= written
    BY <1>1, <1>2 DEF ReuseInv, RowsDated
  <2>2. z = [at |-> written + 1, password |-> p]
    BY <1>3
  <2> QED BY <1>1, <1>4, <2>1, <2>2, GivenRank
<1>6. set'[u] = G /\ \A v \in User \ {u} : set'[v] = set[v]
  BY <1>1, <1>2, <1>3, <1>4
<1>7. RowsDated'
  <2>1. \A v \in User : /\ IsFiniteSet(set'[v])
                        /\ \A x \in set'[v] : Rank(x, set'[v]) <= Limit
    BY <1>5, <1>6 DEF ReuseInv, RowsDated
  <2>2. \A v \in User : \A x \in old'[v] \cup set'[v] : x.at <= written'
    BY <1>1, <1>2, <1>5, <1>6 DEF ReuseInv, RowsDated
  <2>3. \A q \in Request : \A x \in surplus'[q] : x.at <= written'
    BY <1>1 DEF ReuseInv, RowsDated
  <2> QED BY <2>1, <2>2, <2>3 DEF ReuseInv, RowsDated
<1> QED BY <1>1, <1>2, <1>5, <1>6, <1>7

LEMMA SetInitialKept ==
    ASSUME TypeOK, ReuseInv, NEW r \in Request, SetInitialPassword(r)
    PROVE  ReuseInv'
<1>1. PICK u : u = for[r]
  OBVIOUS
<1>2. PICK z : z = [at |-> written + 1, password |-> choice[r]]
  OBVIOUS
<1>3. /\ \A q \in Request : for[q] \in User
      /\ choice[r] \in Password /\ choice[r] # None
  BY LimitAssumption DEF SetInitialPassword, TypeOK, RequestsOK, ValuesOK
<1>4. /\ UNCHANGED <<old, for>> /\ pc[r] = "set" /\ pc'[r] = "accept"
      /\ gap' = (IF users[u].password # None THEN gap \cup {u} ELSE gap)
      /\ \A q \in Request : surplus'[q] \subseteq surplus[q]
  BY <1>1 DEF SetInitialPassword, Continue, TypeOK, RequestsOK
<1>5. /\ users'[u].password = choice[r]
      /\ \A v \in User \ {u} : users'[v] = users[v]
  BY <1>1, <1>3 DEF SetInitialPassword, Update, TypeOK, RowsOK, UserRow
<1>6. \A q \in Request \ {r} : Same(q)
  BY OthersSame DEF RequestStep
<1>7. /\ RowsDated' /\ u \in User
      /\ \A v \in User \ {u} : set'[v] = set[v]
      /\ Newer(z, set'[u]) = {}
      /\ \A x \in set'[u] \ {z} : x \in set[u]
  <2>1. /\ set'[u] = Given(set[u], choice[r])
        /\ \A v \in User \ {u} : set'[v] = set[v]
        /\ written' = written + 1
    BY <1>1, <1>3 DEF SetInitialPassword, TypeOK, RowsOK
  <2>2. choice[r] \in Password /\ UNCHANGED old
    BY <1>3, <1>4
  <2>3. \A q \in Request : surplus'[q] \subseteq surplus[q]
    BY <1>4
  <2> QED BY <1>1, <1>2, <2>1, <2>2, <2>3, GivenDated
<1>8. NoneBefore'
  BY <1>3, <1>4, <1>5, <1>6, <1>7 DEF ReuseInv, NoneBefore, Same
<1>9. ASSUME NEW v \in User PROVE SameArchives(v)
  BY <1>4, <1>6 DEF SameArchives, Same
<1>10. HistoryInv'
  <2> SUFFICES ASSUME NEW v \in User \ gap' PROVE (Recorded(v) /\ OneArchive(v))'
    BY DEF HistoryInv
  <2>1. Recorded(v) /\ OneArchive(v)
    BY <1>4 DEF ReuseInv, HistoryInv
  <2>2. CASE v # u
    BY <1>4, <1>5, <1>7, <1>9, <2>1, <2>2, AccountKept
  <2>3. CASE v = u
    <3>1. set[v] = {}
      BY <1>4, <2>3 DEF ReuseInv, NoneBefore
    <3>2. \A x \in set'[v] : Newer(x, set'[v]) = {} /\ x.password = choice[r]
      BY <1>2, <1>7, <2>3, <3>1
    <3>3. Recorded(v)'
      BY <1>5, <2>3, <3>2 DEF Recorded
    <3> QED BY <1>9, <2>1, <3>3, ArchivesKept
  <2> QED BY <2>2, <2>3
<1>11. CheckedInv'
  <2> SUFFICES ASSUME NEW q \in Request PROVE Checked(q)'
    BY DEF CheckedInv
  <2>1. CASE q = r
    BY <1>4, <2>1 DEF Checked
  <2>2. CASE q # r /\ for[q] # u
    <3>1. Unarchived(for[q])' => Unarchived(for[q])
      BY <1>3, <1>4, <1>9 DEF Unarchived, SameArchives
    <3> QED BY <1>3, <1>4, <1>5, <1>6, <1>7, <2>2, <3>1, ClaimKept DEF ReuseInv
  <2>3. CASE q # r /\ for[q] = u
    <3>1. SUFFICES ASSUME pc[q] = "claim", u \notin gap'
                   PROVE  users'[u].password # current'[q]
      BY <1>4, <1>6, <2>3 DEF Checked, Same
    <3>2. users[u].password = None
      BY <1>4, <3>1
    <3>3. current[q] = None
      BY <2>3, <3>1, <3>2 DEF ReuseInv, NoneBefore
    <3> QED BY <1>3, <1>5, <1>6, <2>3, <3>3 DEF Same
  <2> QED BY <2>1, <2>2, <2>3
<1> QED BY <1>7, <1>8, <1>10, <1>11 DEF ReuseInv

\* The heart of the argument: a claim that finds the password it knows is
\* the only one to be archiving, and the password it replaces goes from the
\* head of the history to those to be archived.
LEMMA ClaimingKept ==
    ASSUME TypeOK, ReuseInv, NEW r \in Request, UpdateUserPassword(r), HoldsLink(r)
    PROVE  ReuseInv'
<1>1. PICK u : u = for[r]
  OBVIOUS
<1>2. PICK z : z = [at |-> written + 1, password |-> choice[r]]
  OBVIOUS
<1>3. /\ \A q \in Request : for[q] \in User
      /\ choice[r] \in Password /\ choice[r] # None
      /\ \A q \in Request : pc[q] = "claim" => link[q] # None
  BY LimitAssumption
     DEF UpdateUserPassword, TypeOK, RequestsOK, ValuesOK, Resetting
<1>4. /\ UNCHANGED <<old, for>> /\ pc[r] = "claim" /\ pc'[r] = AfterClaim(r)
      /\ gap' = (IF users[u].password # current[r] THEN gap \cup {u} ELSE gap)
      /\ \A q \in Request : surplus'[q] \subseteq surplus[q]
      /\ pc'[r] = "archive" => current' = current
  BY <1>1 DEF UpdateUserPassword, Continue, TypeOK, RequestsOK
<1>5. /\ users'[u].password = choice[r] /\ users'[u].reset = None
      /\ \A v \in User \ {u} : users'[v] = users[v]
  <2> DEFINE row == [users[for[r]] EXCEPT !.password = choice[r],
                                          !.reset = None, !.resetAge = 0]
  <2>1. users' = [users EXCEPT ![for[r]] = row]
    BY DEF UpdateUserPassword, Update
  <2>2. row.password = choice[r] /\ row.reset = None
    BY <1>3 DEF TypeOK, RowsOK, UserRow
  <2> HIDE DEF row
  <2> QED BY <1>1, <1>3, <2>1, <2>2 DEF TypeOK, RowsOK
<1>6. \A q \in Request \ {r} : Same(q)
  BY OthersSame DEF RequestStep
<1>7. /\ RowsDated' /\ u \in User
      /\ \A v \in User \ {u} : set'[v] = set[v]
      /\ Newer(z, set'[u]) = {}
      /\ \A x \in set'[u] \ {z} : /\ x \in set[u] /\ Newer(x, set'[u]) # {}
                                  /\ Rank(x, set'[u]) = Rank(x, set[u]) + 1
  <2>1. /\ set'[u] = Given(set[u], choice[r])
        /\ \A v \in User \ {u} : set'[v] = set[v]
        /\ written' = written + 1
    BY <1>1, <1>3 DEF UpdateUserPassword, TypeOK, RowsOK
  <2>2. choice[r] \in Password /\ UNCHANGED old
    BY <1>3, <1>4
  <2>3. \A q \in Request : surplus'[q] \subseteq surplus[q]
    BY <1>4
  <2> QED BY <1>1, <1>2, <2>1, <2>2, <2>3, GivenDated
<1>8. pc'[r] \in {"archive", "idle"} /\ (pc'[r] = "archive" <=> current[r] # None)
  BY <1>4 DEF AfterClaim
<1>9. NoneBefore'
  BY <1>3, <1>4, <1>5, <1>6, <1>7, <1>8 DEF ReuseInv, NoneBefore, Same
<1>10. ASSUME NEW v \in User \ {u} PROVE SameArchives(v)
  BY <1>1, <1>4, <1>6, <1>8 DEF SameArchives, Same
<1>11. ASSUME u \notin gap' PROVE Recorded(u)' /\ OneArchive(u)'
  <2>1. Recorded(u) /\ users[u].password = current[r] /\ ~Unarchived(u)
    BY <1>1, <1>4, <1>7, <1>11
       DEF ReuseInv, HistoryInv, CheckedInv, Checked
  <2>2. \A q \in Request : pc'[q] = "archive" /\ for'[q] = u => q = r
    BY <1>4, <1>6, <2>1 DEF Same, Unarchived
  <2>3. \A q \in Request : pc'[q] = "prune" /\ for'[q] = u =>
            pc[q] = "prune" /\ for[q] = u /\ surplus'[q] = surplus[q]
    BY <1>6, <1>8 DEF Same
  <2>4. ASSUME NEW x \in set'[u], x # z
        PROVE  /\ Newer(x, set'[u]) # {}
               /\ Archiving(x, u)' \/ Kept(x, u)'
    <3>1. /\ x \in set[u] /\ Newer(x, set'[u]) # {}
          /\ Rank(x, set'[u]) = Rank(x, set[u]) + 1
      BY <1>7, <2>4
    <3>2. CASE Newer(x, set[u]) = {}
      <4>1. x.password = current[r] /\ current[r] # None
        BY <1>7, <2>1, <3>1, <3>2 DEF Recorded, ReuseInv, NoneBefore
      <4>2. pc'[r] = "archive" /\ for'[r] = u /\ current'[r] = x.password
        BY <1>1, <1>4, <1>8, <4>1
      <4> QED BY <3>1, <4>2 DEF Archiving
    <3>3. CASE Newer(x, set[u]) # {}
      <4>1. Kept(x, u)
        BY <2>1, <3>1, <3>3 DEF Recorded, Archiving, Unarchived
      <4>2. PICK y \in old[u] :
               /\ y.password = x.password
               /\ Rank(y, old[u]) < Rank(x, set[u])
               /\ \A q \in Request : pc[q] = "prune" /\ for[q] = u => y \notin surplus[q]
        BY <4>1 DEF Kept
      <4>3. Rank(y, old[u]) \in Nat /\ Rank(x, set[u]) \in Nat
        BY <1>7, FewerRows DEF ReuseInv, RowsDated
      <4>4. Rank(y, old[u]) + 1 < Rank(x, set'[u]) /\ Rank(y, old[u]) < Rank(x, set'[u])
        BY <3>1, <4>2, <4>3
      <4>5. Kept(x, u)'
        BY <1>4, <2>3, <4>2, <4>4 DEF Kept
      <4> QED BY <3>1, <4>5
    <3> QED BY <3>2, <3>3
  <2>5. Recorded(u)'
    BY <1>2, <1>5, <1>7, <2>4 DEF Recorded
  <2>6. OneArchive(u)'
    BY <2>2 DEF OneArchive
  <2> QED BY <2>5, <2>6
<1>12. HistoryInv'
  <2> SUFFICES ASSUME NEW v \in User \ gap' PROVE (Recorded(v) /\ OneArchive(v))'
    BY DEF HistoryInv
  <2>1. CASE v = u
    BY <1>11, <2>1
  <2>2. CASE v # u
    <3>1. Recorded(v) /\ OneArchive(v)
      BY <1>4 DEF ReuseInv, HistoryInv
    <3> QED BY <1>4, <1>5, <1>7, <1>10, <2>2, <3>1, AccountKept
  <2> QED BY <2>1, <2>2
<1>13. CheckedInv'
  <2> SUFFICES ASSUME NEW q \in Request PROVE Checked(q)'
    BY DEF CheckedInv
  <2>1. CASE q = r
    BY <1>8, <2>1 DEF Checked
  <2>2. CASE q # r /\ for[q] # u
    <3>1. Unarchived(for[q])' => Unarchived(for[q])
      BY <1>3, <1>4, <1>10, <2>2 DEF Unarchived, SameArchives
    <3> QED BY <1>3, <1>4, <1>5, <1>6, <1>7, <2>2, <3>1, ClaimKept DEF ReuseInv
  <2>3. CASE q # r /\ for[q] = u
    BY <1>3, <1>4, <1>5, <1>6, <2>3 DEF Checked, HoldsLink, Same
  <2> QED BY <2>1, <2>2, <2>3
<1> QED BY <1>7, <1>9, <1>12, <1>13 DEF ReuseInv

LEMMA ReuseStep ==
    ASSUME TypeOK, LinksDated, Absence, ReuseInv, [Next]_vars
    PROVE  ReuseInv'
<1>1. ASSUME NEW r \in Request, Recording(r) PROVE ReuseInv'
  BY <1>1, SetInitialKept, GetCurrentKept, CheckKept, ClaimingKept,
     ArchiveKept, FindKept, DeleteKept DEF Recording
<1> QED BY <1>1, PlainStep, PlainKept

LEMMA ReuseInit == Init => LinksDated /\ Absence /\ ReuseInv
<1> SUFFICES ASSUME Init PROVE LinksDated /\ Absence /\ ReuseInv
  OBVIOUS
<1>1. LinksDated /\ Absence /\ NoneBefore
  BY DEF Init, LinksDated, Absence, NoneBefore, NoUser
<1>2. RowsDated
  BY FS_EmptySet DEF Init, RowsDated
<1>3. HistoryInv /\ CheckedInv
  BY DEF Init, HistoryInv, Recorded, OneArchive, CheckedInv, Checked
<1> QED BY <1>1, <1>2, <1>3 DEF ReuseInv

\* A reset that takes effect gives none of the latest passwords of the
\* account, whatever other resets, archives and clean-ups run beside it,
\* unless an archive failed, was still to come when a reset compared its
\* password, or an invitation was used a second time (password-service.js,
\* password-history-service.js).
THEOREM PasswordsAreNew == Spec => PasswordNotReused
<1> DEFINE Inv == TypeOK /\ LinksDated /\ Absence /\ ReuseInv
           NewOne == \A r \in Request :
                        UpdateUserPassword(r) /\ HoldsLink(r) /\ for[r] \notin gap'
                           => choice[r] \notin Recent(for[r])
<1>1. Init => Inv
  <2>1. Init => TypeOK
    BY LimitAssumption
       DEF Init, TypeOK, RowsOK, LinksOK, RequestsOK, ValuesOK, NoUser,
           UserRow, Step, Resetting
  <2> QED BY <2>1, ReuseInit
<1>2. Inv /\ [Next]_vars => Inv'
  BY StepTyped, LinksDatedStep, AbsenceStep, ReuseStep
<1>3. Inv => NewOne
  BY DEF ReuseInv, CheckedInv, Checked, UpdateUserPassword
<1>4. Inv /\ [Next]_vars => [NewOne]_vars
  BY <1>3
<1> QED BY <1>1, <1>2, <1>4, PTL DEF Spec, PasswordNotReused
=============================================================================
