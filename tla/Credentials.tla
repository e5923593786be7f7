---------------------------- MODULE Credentials ----------------------------
(***************************************************************************)
(* How an account gets its password: creation, approval and invitation,    *)
(* the first password set through the link of an invitation, and resets    *)
(* through links that are mailed on request, with the record of old        *)
(* passwords.  Every handler runs its statements one at a time, in no      *)
(* transaction, and several handlers may be at work on one account.  A     *)
(* link is the number it was issued under; the database keeps a hash of    *)
(* the latest one of each kind.                                            *)
(***************************************************************************)
EXTENDS Integers, FiniteSets

CONSTANTS
    User,         \* e-mail addresses
    Request,      \* slots for requests being handled
    Password,     \* passwords users choose
    Limit,        \* auth.passwordHistory.limit
    ResetExpiry,  \* auth.passwordReset.tokenExpiryHours, in ticks
    InviteExpiry, \* auth.invitation.tokenExpiryHours, in ticks
    MaxLinks,     \* bound: links that are ever issued
    MaxFailures,  \* bound: statements and mails that fail
    None

ASSUME LimitAssumption ==
    /\ Limit \in Nat \ {0} /\ ResetExpiry \in Nat /\ InviteExpiry \in Nat
    /\ MaxLinks \in Nat /\ MaxFailures \in Nat
    /\ None \notin Password /\ None \notin 1 .. MaxLinks

VARIABLES
    users,    \* rows of pafs_core_users
    old,      \* rows of old_passwords of each user
    issued,   \* number of links issued
    mailed,   \* links that users hold
    pc,       \* each request's next statement
    for,      \* the account it works on
    link,     \* the link it was sent, or has generated
    choice,   \* the new password it was sent
    current,  \* the password it has read
    surplus,  \* the rows of old_passwords it is to delete
    written,  \* the time of the latest row of old or set
    failures, \* number of failures
    set,      \* history: the latest passwords each user was given, as rows
    uses,     \* history: passwords written through each reset link
    gap,      \* history: users whose old passwords may lack one
    stale     \* history: users approved when they were no longer pending

requestVars == <<pc, for, link, choice, current, surplus>>
ghostVars == <<written, failures, set, uses, gap, stale>>
vars == <<users, old, issued, mailed, written, failures, pc, for, link, choice,
          current, surplus, set, uses, gap, stale>>

Link == 1 .. MaxLinks
Writing == {"upsert", "approve", "resend", "issue"}
Resetting == {"current", "history", "claim", "archive", "old", "prune"}
Step == Writing \cup Resetting \cup
        {"idle", "mail", "clearReset", "clearInvite", "read", "set", "accept"}
Row == [at: Nat, password: Password]

UserRow == [status: {"absent", "pending", "approved", "active"},
            disabled: BOOLEAN, accepted: BOOLEAN,
            password: Password \cup {None},
            reset: Link \cup {None}, resetAge: 0 .. ResetExpiry + 1,
            invite: Link \cup {None}, inviteAge: 0 .. InviteExpiry + 1]

RowsOK ==
    /\ users \in [User -> UserRow]
    /\ old \in [User -> SUBSET Row] /\ set \in [User -> SUBSET Row]
    /\ written \in Nat
LinksOK ==
    /\ issued \in 0 .. MaxLinks /\ mailed \subseteq Link
    /\ failures \in 0 .. MaxFailures
    /\ uses \in [Link -> Nat] /\ gap \subseteq User /\ stale \subseteq User
RequestsOK ==
    /\ pc \in [Request -> Step] /\ for \in [Request -> User]
    /\ link \in [Request -> Link \cup {None}]
    /\ choice \in [Request -> Password \cup {None}]
    /\ current \in [Request -> Password \cup {None}]
    /\ surplus \in [Request -> SUBSET Row]
\* What a statement is about to write is there, and active accounts have a
\* password.
ValuesOK ==
    /\ \A r \in Request :
          /\ pc[r] \in Resetting \cup {"read", "set"} =>
                link[r] # None /\ choice[r] # None
          /\ pc[r] = "archive" => current[r] # None
    /\ \A u \in User : users[u].status = "active" => users[u].password # None
TypeOK == RowsOK /\ LinksOK /\ RequestsOK /\ ValuesOK

NoUser == [status |-> "absent", disabled |-> FALSE, accepted |-> FALSE,
           password |-> None, reset |-> None, resetAge |-> 0,
           invite |-> None, inviteAge |-> 0]

Init ==
    /\ users = [u \in User |-> NoUser]
    /\ old = [u \in User |-> {}]
    /\ issued = 0 /\ mailed = {} /\ written = 0 /\ failures = 0
    /\ pc = [r \in Request |-> "idle"]
    /\ for \in [Request -> User]
    /\ link = [r \in Request |-> None]
    /\ choice = [r \in Request |-> None]
    /\ current = [r \in Request |-> None]
    /\ surplus = [r \in Request |-> {}]
    /\ set = [u \in User |-> {}]
    /\ uses = [l \in Link |-> 0]
    /\ gap = {} /\ stale = {}

----------------------------------------------------------------------------
(* Requests and their statements                                           *)

\* A request begins with a statement that has found the account u, and goes
\* on to the statement s with the link and the password it was sent.
Begin(r, u, s, l, p) ==
    /\ pc[r] = "idle"
    /\ pc' = [pc EXCEPT ![r] = s]
    /\ for' = [for EXCEPT ![r] = u]
    /\ link' = [link EXCEPT ![r] = l]
    /\ choice' = [choice EXCEPT ![r] = p]
    /\ UNCHANGED <<users, old, issued, mailed, current, surplus, ghostVars>>

\* What a request holds is forgotten with it.
Continue(r, s) ==
    /\ pc' = [pc EXCEPT ![r] = s]
    /\ IF s = "idle"
       THEN /\ link' = [link EXCEPT ![r] = None]
            /\ choice' = [choice EXCEPT ![r] = None]
            /\ current' = [current EXCEPT ![r] = None]
            /\ surplus' = [surplus EXCEPT ![r] = {}]
       ELSE UNCHANGED <<link, choice, current, surplus>>
    /\ UNCHANGED for

\* A statement of the request r that sets columns of its account's row.
Update(r, row) == users' = [users EXCEPT ![for[r]] = row]

\* A link is generated when a request is about to store it.
Generate(r, s) ==
    /\ issued < MaxLinks
    /\ issued' = issued + 1
    /\ pc' = [pc EXCEPT ![r] = s]
    /\ link' = [link EXCEPT ![r] = issued + 1]
    /\ UNCHANGED <<for, choice, current, surplus>>

\* A row with the time it is written at.
Adding(rows, p) == rows \cup {[at |-> written + 1, password |-> p]}
Newer(x, rows) == {y \in rows : y.at > x.at}

\* orderBy created_at desc, take n.
Newest(rows, n) == {x \in rows : Cardinality(Newer(x, rows)) < n}
\* The history keeps what the properties look back at.
Given(rows, p) == Newest(Adding(rows, p), Limit + 1)
Passwords(rows) == {x.password : x \in rows}

----------------------------------------------------------------------------
(* Creation, approval and invitation                                       *)

\* The address is checked to be new; accounts made by an administrator or
\* of an approved domain are approved at once and get a link.
CreateAccount(r, u) ==
    /\ users[u].status = "absent" /\ pc[r] = "idle"
    /\ \/ Begin(r, u, "upsert", None, None)
       \/ /\ issued < MaxLinks /\ issued' = issued + 1
          /\ pc' = [pc EXCEPT ![r] = "upsert"]
          /\ for' = [for EXCEPT ![r] = u]
          /\ link' = [link EXCEPT ![r] = issued + 1]
          /\ UNCHANGED <<users, old, mailed, choice, current, surplus,
                         ghostVars>>

\* An upsert on the address: when another request has made the account
\* meanwhile, none of the columns here is written.
PerformUpsert(r) ==
    LET u == users[for[r]]
        made == [NoUser EXCEPT !.status = IF link[r] = None THEN "pending"
                                          ELSE "approved",
                               !.invite = link[r]]
        row == IF u.status = "absent" THEN made ELSE u
    IN  /\ pc[r] = "upsert"
        /\ Update(r, row)
        /\ Continue(r, IF row.status = "approved" THEN "mail" ELSE "idle")
        /\ UNCHANGED <<old, issued, mailed, ghostVars>>

ApproveAccount(r, u) ==
    users[u].status = "pending" /\ Begin(r, u, "approve", None, None)
ResendInvitation(r, u) ==
    users[u].status = "approved" /\ Begin(r, u, "resend", None, None)

\* Faulty: sending the invitation again sets the status, too.
InvitedStatusAlways(r) == "approved"
InvitedStatus(r) ==
    IF pc[r] = "approve" THEN "approved" ELSE users[for[r]].status

UpdateUserInvitationToken(r) ==
    /\ pc[r] \in {"approve", "resend"}
    /\ Generate(r, "mail")
    /\ Update(r, [users[for[r]] EXCEPT
                    !.status = InvitedStatus(r),
                    !.invite = issued', !.inviteAge = 0])
    /\ stale' = IF pc[r] = "approve" /\ users[for[r]].status # "pending"
                THEN stale \cup {for[r]} ELSE stale
    /\ UNCHANGED <<old, mailed, written, failures, set, uses, gap>>

Mail(r) ==
    /\ pc[r] = "mail"
    /\ mailed' = mailed \cup ({link[r]} \ {None})
    /\ Continue(r, "idle")
    /\ UNCHANGED <<users, old, issued, ghostVars>>

----------------------------------------------------------------------------
(* The first password                                                      *)

\* The row that a link of an invitation is looked up to, if it may be used.
Invited(l, u) ==
    users[u].invite = l /\ ~users[u].disabled /\ ~users[u].accepted

\* Only to validate a link ends here as well, with no password; so does
\* every refusal, but the one of an expired link clears it.
SetPassword(r, l, p, u) ==
    /\ l \in mailed /\ Invited(l, u)
    /\ IF users[u].inviteAge > InviteExpiry
       THEN Begin(r, u, "clearInvite", None, None)
       ELSE Begin(r, u, "read", l, p)

ClearInvitationToken(r) ==
    /\ pc[r] = "clearInvite"
    /\ Update(r, [users[for[r]] EXCEPT !.invite = None, !.inviteAge = 0])
    /\ Continue(r, "idle")
    /\ UNCHANGED <<old, issued, mailed, ghostVars>>

ReadDisabled(r) ==
    /\ pc[r] = "read"
    /\ Continue(r, IF users[for[r]].disabled THEN "idle" ELSE "set")
    /\ UNCHANGED <<users, old, issued, mailed, ghostVars>>

SetInitialPassword(r) ==
    /\ pc[r] = "set"
    /\ Update(r, [users[for[r]] EXCEPT !.password = choice[r],
                                       !.status = "active"])
    /\ set' = [set EXCEPT ![for[r]] = Given(@, choice[r])]
    /\ written' = written + 1
    /\ gap' = IF users[for[r]].password # None THEN gap \cup {for[r]} ELSE gap
    /\ Continue(r, "accept")
    /\ UNCHANGED <<old, issued, mailed, failures, uses, stale>>

AcceptInvitation(r) ==
    /\ pc[r] = "accept"
    /\ Update(r, [users[for[r]] EXCEPT !.invite = None, !.inviteAge = 0,
                                       !.accepted = TRUE])
    /\ Continue(r, "idle")
    /\ UNCHANGED <<old, issued, mailed, ghostVars>>

----------------------------------------------------------------------------
(* Reset                                                                   *)

RequestReset(r, u) ==
    /\ users[u].status # "absent" /\ ~users[u].disabled
    /\ Begin(r, u, "issue", None, None)

StoreResetLink(r) ==
    /\ pc[r] = "issue"
    /\ Generate(r, "mail")
    /\ Update(r, [users[for[r]] EXCEPT !.reset = issued', !.resetAge = 0])
    /\ UNCHANGED <<old, mailed, ghostVars>>

ResetPassword(r, l, p, u) ==
    /\ l \in mailed /\ users[u].reset = l /\ ~users[u].disabled
    /\ IF users[u].resetAge > ResetExpiry
       THEN Begin(r, u, "clearReset", None, None)
       ELSE Begin(r, u, "current", l, p)

ClearResetToken(r) ==
    /\ pc[r] = "clearReset"
    /\ Update(r, [users[for[r]] EXCEPT !.reset = None, !.resetAge = 0])
    /\ Continue(r, "idle")
    /\ UNCHANGED <<old, issued, mailed, ghostVars>>

GetCurrentPassword(r) ==
    LET p == users[for[r]].password
    IN  /\ pc[r] = "current"
        /\ IF p = choice[r]
           THEN Continue(r, "idle")
           ELSE /\ pc' = [pc EXCEPT ![r] = "history"]
                /\ current' = [current EXCEPT ![r] = p]
                /\ UNCHANGED <<for, link, choice, surplus>>
        /\ UNCHANGED <<users, old, issued, mailed, ghostVars>>

\* The record lacks a password that another reset has yet to archive.
Unarchived(u) == \E r \in Request : pc[r] = "archive" /\ for[r] = u

CheckPasswordReuse(r) ==
    /\ pc[r] = "history"
    /\ Continue(r, IF choice[r] \in Passwords(Newest(old[for[r]], Limit))
                   THEN "idle" ELSE "claim")
    /\ gap' = IF Unarchived(for[r]) THEN gap \cup {for[r]} ELSE gap
    /\ UNCHANGED <<users, old, issued, mailed, written, failures, set, uses,
                   stale>>

\* Faulty: the link is not compared again.
HoldsLinkUnchecked(r) == TRUE
HoldsLink(r) == users[for[r]].reset = link[r]

\* Faulty: there is always something to archive.
AfterClaimAlways(r) == "archive"
AfterClaim(r) == IF current[r] # None THEN "archive" ELSE "idle"

\* One statement compares the link, writes the password and removes the link.
UpdateUserPassword(r) ==
    /\ pc[r] = "claim"
    /\ IF HoldsLink(r)
       THEN /\ Update(r, [users[for[r]] EXCEPT !.password = choice[r],
                                               !.reset = None,
                                               !.resetAge = 0])
            /\ set' = [set EXCEPT ![for[r]] = Given(@, choice[r])]
            /\ written' = written + 1
            /\ uses' = [uses EXCEPT ![link[r]] = @ + 1]
            /\ gap' = IF users[for[r]].password # current[r]
                      THEN gap \cup {for[r]} ELSE gap
            /\ Continue(r, AfterClaim(r))
       ELSE Continue(r, "idle") /\ UNCHANGED <<users, set, written, uses, gap>>
    /\ UNCHANGED <<old, issued, mailed, failures, stale>>

\* Faulty: the password is read when it has been replaced.
ReplacedAfter(r) == users[for[r]].password
Replaced(r) == current[r]

ArchiveOldPassword(r) ==
    /\ pc[r] = "archive"
    /\ old' = [old EXCEPT ![for[r]] = Adding(@, Replaced(r))]
    /\ written' = written + 1
    /\ Continue(r, "old")
    /\ UNCHANGED <<users, issued, mailed, failures, set, uses, gap, stale>>

FindOldPasswords(r) ==
    LET rest == old[for[r]] \ Newest(old[for[r]], Limit)
    IN  /\ pc[r] = "old"
        /\ IF rest = {}
           THEN Continue(r, "idle")
           ELSE /\ pc' = [pc EXCEPT ![r] = "prune"]
                /\ surplus' = [surplus EXCEPT ![r] = rest]
                /\ UNCHANGED <<for, link, choice, current>>
        /\ UNCHANGED <<users, old, issued, mailed, ghostVars>>

DeleteOldPasswords(r) ==
    /\ pc[r] = "prune"
    /\ old' = [old EXCEPT ![for[r]] = @ \ surplus[r]]
    /\ Continue(r, "idle")
    /\ UNCHANGED <<users, issued, mailed, ghostVars>>

----------------------------------------------------------------------------
(* Failures, other handlers and time                                       *)

\* Any statement or mail fails, or the instance stops; that the archive of a
\* reset failed is logged and the reset has succeeded.
Fail(r) ==
    /\ pc[r] # "idle"
    /\ failures < MaxFailures /\ failures' = failures + 1
    /\ Continue(r, "idle")
    /\ gap' = IF pc[r] = "archive" THEN gap \cup {for[r]} ELSE gap
    /\ UNCHANGED <<users, old, issued, mailed, written, set, uses, stale>>

\* The nightly job disables active and approved accounts; an administrator
\* makes them usable again.
BulkDisable(u) ==
    /\ users[u].status \in {"active", "approved"} /\ ~users[u].disabled
    /\ users' = [users EXCEPT ![u].disabled = TRUE]
    /\ UNCHANGED <<old, issued, mailed, requestVars, ghostVars>>

ReactivateAccount(u) ==
    /\ users[u].disabled
    /\ users' = [users EXCEPT ![u].disabled = FALSE]
    /\ UNCHANGED <<old, issued, mailed, requestVars, ghostVars>>

\* Only the age of a link that is stored is of any consequence.
Older(l, age, expiry) == IF l = None \/ age > expiry THEN age ELSE age + 1
Tick ==
    /\ users' = [u \in User |-> LET row == users[u] IN
                    [row EXCEPT
                       !.resetAge = Older(row.reset, @, ResetExpiry),
                       !.inviteAge = Older(row.invite, @, InviteExpiry)]]
    /\ UNCHANGED <<old, issued, mailed, requestVars, ghostVars>>

RequestStep(r) ==
    \/ PerformUpsert(r)
    \/ UpdateUserInvitationToken(r)
    \/ Mail(r)
    \/ ClearInvitationToken(r)
    \/ ReadDisabled(r)
    \/ SetInitialPassword(r)
    \/ AcceptInvitation(r)
    \/ StoreResetLink(r)
    \/ ClearResetToken(r)
    \/ GetCurrentPassword(r)
    \/ CheckPasswordReuse(r)
    \/ UpdateUserPassword(r)
    \/ ArchiveOldPassword(r)
    \/ FindOldPasswords(r)
    \/ DeleteOldPasswords(r)
    \/ Fail(r)

Arrive(r, u) ==
    \/ CreateAccount(r, u)
    \/ ApproveAccount(r, u)
    \/ ResendInvitation(r, u)
    \/ RequestReset(r, u)
    \/ \E l \in Link, p \in Password :
          SetPassword(r, l, p, u) \/ ResetPassword(r, l, p, u)

Next ==
    \/ \E r \in Request : RequestStep(r) \/ \E u \in User : Arrive(r, u)
    \/ \E u \in User : BulkDisable(u) \/ ReactivateAccount(u)
    \/ Tick

Spec == Init /\ [][Next]_vars

----------------------------------------------------------------------------
(* Properties                                                              *)

\* However many requests carry one reset link, together or one after the
\* other, at most one of them writes a password.
OneResetPerLink == \A l \in Link : uses[l] <= 1

\* "Prevent reuse of recent passwords": a reset that takes effect gives none
\* of the last Limit passwords, nor the one before it, however resets, their
\* archives and their clean-ups overlap; unless an archive failed or was not
\* over when a later reset read the record, or an invitation was used by an
\* account that had a password.
Recent(u) == Passwords(set[u])
PasswordNotReused ==
    [][\A r \in Request :
         UpdateUserPassword(r) /\ HoldsLink(r) /\ for[r] \notin gap'
            => choice[r] \notin Recent(for[r])]_vars

\* Nobody is shut out for good: an account that waits for its first password
\* can be sent a link that works, whatever failed between the statements of
\* approval and invitation; unless an approval found it pending and wrote
\* after it had become active.
NobodyIsStuck ==
    \A u \in User \ stale :
        users[u].status \in {"pending", "approved"} => ~users[u].accepted
=============================================================================
