---------------------------- MODULE UserSession ----------------------------
(***************************************************************************)
(* One user's session across several server instances: login, refresh,     *)
(* logout and role change write unique_session_id on the writer, while     *)
(* every request is validated from two caches of its instance (jwt-auth)   *)
(* that are filled by reads of the writer or, for GET requests, of a       *)
(* reader endpoint that lags.  A database read and the use of its answer   *)
(* are two steps, so that a login may come between them.  Time is counted  *)
(* in ticks; revokedFor and disabledFor are history variables.             *)
(***************************************************************************)
EXTENDS Integers

CONSTANTS
    Instance,     \* server processes
    Session,      \* session ids (UUIDs, each issued at most once)
    NoSession,    \* the NULL of unique_session_id
    Request,      \* slots for requests in progress
    AuthTTL,      \* AUTH_CACHE_TTL_MS, in ticks
    VersionTTL,   \* SESSION_VERSION_CACHE_TTL_MS, in ticks
    MaxLag,       \* ticks the reader endpoint may be behind the writer
    CallLatency,  \* ticks a database read of validate may take
    DbFailures    \* whether database reads may fail

ASSUME SessionAssumption == NoSession \notin Session
ASSUME TimeAssumption ==
    /\ AuthTTL \in Nat \ {0}
    /\ VersionTTL \in Nat \ {0}
    /\ MaxLag \in Nat
    /\ CallLatency \in Nat
ASSUME FailureAssumption == DbFailures \in BOOLEAN

VARIABLES
    row,          \* the user's row on the writer: session and disabled
    reader,       \* the same row as the reader endpoint shows it
    behind,       \* ticks for which the reader has differed from the writer
    issued,       \* sessions handed out so far
    auth,         \* tier 1: ticks left of the entry of each session
    version,      \* tier 2: the session cached as current, and ticks left
    pc, kind, at, token,  \* each request: next step, kind, instance, session
    seen, age,    \* the row its read returned, ticks since it started to read
    outcome,      \* what validate answered
    revokedFor, disabledFor

userVars == <<row, reader, behind, issued>>
cacheVars == <<auth, version>>
requestVars == <<kind, at, token>>
vars == <<row, reader, behind, issued, auth, version, pc, kind, at,
          token, seen, age, outcome, revokedFor, disabledFor>>

SessionId == Session \cup {NoSession}
Row == [session: SessionId, disabled: BOOLEAN]
Reading == {"version", "user", "versionRead", "userRead"}
Step == Reading \cup {"idle", "logout", "logoutWrite",
                      "logoutEvict", "issue", "revoke", "evict", "done"}
Kind == {"get", "post", "logout", "login", "refresh", "role"}

\* The time from which on no superseded session, and no session of a disabled
\* account, may be accepted any more.
StaleWindow ==
    IF DbFailures THEN MaxLag + CallLatency + AuthTTL + CallLatency
                  ELSE MaxLag + CallLatency + VersionTTL
DisabledWindow == MaxLag + CallLatency + AuthTTL + CallLatency
Horizon == MaxLag + CallLatency + AuthTTL + VersionTTL + CallLatency + 1

TypeOK ==
    /\ row \in Row
    /\ reader \in Row
    /\ behind \in 0 .. MaxLag
    /\ issued \in SUBSET Session
    /\ auth \in [Instance -> [Session -> 0 .. AuthTTL]]
    /\ version \in [Instance -> [session: SessionId, ttl: 0 .. VersionTTL]]
    /\ pc \in [Request -> Step]
    /\ kind \in [Request -> Kind]
    /\ at \in [Request -> Instance]
    /\ token \in [Request -> SessionId]
    /\ seen \in [Request -> Row]
    /\ age \in [Request -> 0 .. CallLatency]
    /\ outcome \in [Request -> {"none", "accepted", "rejected"}]
    /\ revokedFor \in [Session -> 0 .. Horizon]
    /\ disabledFor \in 0 .. Horizon

NoRow == [session |-> NoSession, disabled |-> FALSE]
NoVersion == [session |-> NoSession, ttl |-> 0]

Init ==
    /\ row = NoRow
    /\ reader = NoRow
    /\ behind = 0
    /\ issued = {}
    /\ auth = [i \in Instance |-> [s \in Session |-> 0]]
    /\ version = [i \in Instance |-> NoVersion]
    /\ pc = [r \in Request |-> "idle"]
    /\ kind = [r \in Request |-> "get"]
    /\ at \in [Request -> Instance]
    /\ token = [r \in Request |-> NoSession]
    /\ seen = [r \in Request |-> NoRow]
    /\ age = [r \in Request |-> 0]
    /\ outcome = [r \in Request |-> "none"]
    /\ revokedFor = [s \in Session |-> 0]
    /\ disabledFor = 0

----------------------------------------------------------------------------
(* The auth cache                                                          *)

\* get: a live tier-1 entry.
CachedAuth(i, s) == auth[i][s] > 0

\* getSessionVersion: a cached NULL reads as no version at all.
CachedVersion(i) ==
    IF version[i].ttl > 0 THEN version[i].session ELSE NoSession

\* set and setSessionVersion after a full validation.
Remember(i, s) ==
    /\ auth' = [auth EXCEPT ![i][s] = AuthTTL]
    /\ version' = [version EXCEPT ![i] = [session |-> s, ttl |-> VersionTTL]]

\* invalidate: one session, and the version.
Invalidate(i, s) ==
    /\ auth' = [auth EXCEPT ![i][s] = 0]
    /\ version' = [version EXCEPT ![i] = NoVersion]

\* invalidateUser: every session, and the version.
InvalidateUser(i) ==
    /\ auth' = [auth EXCEPT ![i] = [s \in Session |-> 0]]
    /\ version' = [version EXCEPT ![i] = NoVersion]

\* The maps are capped: entries of other users may push this user's out.
EvictOldest(i) ==
    /\ \/ /\ \E s \in Session : CachedAuth(i, s)
                              /\ auth' = [auth EXCEPT ![i][s] = 0]
          /\ UNCHANGED version
       \/ /\ version[i].ttl > 0
          /\ version' = [version EXCEPT ![i] = NoVersion]
          /\ UNCHANGED auth
    /\ UNCHANGED <<userVars, pc, requestVars, seen, age,
                   outcome, revokedFor, disabledFor>>

----------------------------------------------------------------------------
(* validate                                                                *)

Goto(r, step) == pc' = [pc EXCEPT ![r] = step]
Answer(r, result) == outcome' = [outcome EXCEPT ![r] = result]

Reject(r) == Goto(r, "done") /\ Answer(r, "rejected")
Accept(r, k) ==
    /\ Answer(r, "accepted")
    /\ Goto(r, IF k = "logout" THEN "logout" ELSE "done")

\* Sessions whose tokens have been sent to the user.
Delivered == {s \in issued : \A r \in Request : pc[r] = "evict" => token[r] # s}

\* Faulty variants, each a plausible mistake in the operator it precedes, show
\* that the properties below can fail.  In this one a version that has expired
\* counts as another session's.
CacheAnswerExpired(i, s) ==
    IF ~CachedAuth(i, s) THEN "user"
    ELSE IF CachedVersion(i) = s THEN "accept" ELSE "reject"

\* What the two caches say of a session: an answer, or which read to make.
CacheAnswer(i, s) ==
    IF ~CachedAuth(i, s) THEN "user"
    ELSE IF CachedVersion(i) = NoSession THEN "version"
    ELSE IF CachedVersion(i) = s THEN "accept" ELSE "reject"

\* A request with a token comes in and validate looks at its caches.
Arrive(r, i, k, s) ==
    /\ pc[r] = "idle"
    /\ s \in Delivered
    /\ k \in {"get", "post", "logout"}
    /\ kind' = [kind EXCEPT ![r] = k]
    /\ at' = [at EXCEPT ![r] = i]
    /\ token' = [token EXCEPT ![r] = s]
    /\ \/ /\ CacheAnswer(i, s) = "accept"
          /\ Accept(r, k)
          /\ UNCHANGED <<auth, version>>
       \/ /\ CacheAnswer(i, s) = "reject"
          /\ Reject(r)
          /\ Invalidate(i, s)
       \/ /\ CacheAnswer(i, s) \in {"version", "user"}
          /\ Goto(r, CacheAnswer(i, s))
          /\ UNCHANGED <<auth, version, outcome>>
    /\ UNCHANGED <<userVars, seen, age, revokedFor,
                   disabledFor>>

\* selectClientForRequest: mutations read the writer.
Source(r) == IF kind[r] = "get" THEN reader ELSE row

\* fetchSessionVersion or fetchUser runs on the database.
Read(r) ==
    /\ \/ pc[r] = "version" /\ Goto(r, "versionRead")
       \/ pc[r] = "user" /\ Goto(r, "userRead")
    /\ seen' = [seen EXCEPT ![r] = Source(r)]
    /\ UNCHANGED <<userVars, cacheVars, requestVars, age, outcome, revokedFor,
                   disabledFor>>

\* Faulty: a good version renews the cached result as well.
VersionAnswerRenewing(r) ==
    /\ pc[r] = "versionRead"
    /\ IF seen[r].session = token[r]
       THEN Remember(at[r], token[r]) /\ Accept(r, kind[r])
       ELSE Reject(r) /\ Invalidate(at[r], token[r])
    /\ age' = [age EXCEPT ![r] = 0]
    /\ UNCHANGED <<userVars, requestVars, seen,
                   revokedFor, disabledFor>>

\* verifySessionVersion continues with the answer.
VersionAnswer(r) ==
    /\ pc[r] = "versionRead"
    /\ IF seen[r].session = token[r]
       THEN /\ version' = [version EXCEPT ![at[r]] =
                             [session |-> seen[r].session, ttl |-> VersionTTL]]
            /\ Accept(r, kind[r])
            /\ UNCHANGED auth
       ELSE Reject(r) /\ Invalidate(at[r], token[r])
    /\ age' = [age EXCEPT ![r] = 0]
    /\ UNCHANGED <<userVars, requestVars, seen,
                   revokedFor, disabledFor>>

\* Faulty: the result let through is cached anew.
VersionFailsRenewing(r) ==
    /\ DbFailures
    /\ pc[r] = "version"
    /\ Remember(at[r], token[r])
    /\ Accept(r, kind[r])
    /\ age' = [age EXCEPT ![r] = 0]
    /\ UNCHANGED <<userVars, requestVars, seen, revokedFor,
                   disabledFor>>

\* A failed version check lets the cached result through.
VersionFails(r) ==
    /\ DbFailures
    /\ pc[r] = "version"
    /\ Accept(r, kind[r])
    /\ age' = [age EXCEPT ![r] = 0]
    /\ UNCHANGED <<userVars, cacheVars, requestVars, seen, revokedFor,
                   disabledFor>>

\* validate continues with the user's row.
UserAnswer(r) ==
    /\ pc[r] = "userRead"
    /\ IF ~seen[r].disabled /\ seen[r].session = token[r]
       THEN Remember(at[r], token[r]) /\ Accept(r, kind[r])
       ELSE Reject(r) /\ UNCHANGED <<auth, version>>
    /\ age' = [age EXCEPT ![r] = 0]
    /\ UNCHANGED <<userVars, requestVars, seen,
                   revokedFor, disabledFor>>

UserFails(r) ==
    /\ DbFailures
    /\ pc[r] = "user"
    /\ Reject(r)
    /\ age' = [age EXCEPT ![r] = 0]
    /\ UNCHANGED <<userVars, cacheVars, requestVars, seen, revokedFor,
                   disabledFor>>

\* The response has been sent.
Finish(r) ==
    /\ pc[r] = "done"
    /\ Goto(r, "idle")
    /\ Answer(r, "none")
    /\ kind' = [kind EXCEPT ![r] = "get"]
    /\ token' = [token EXCEPT ![r] = NoSession]
    /\ seen' = [seen EXCEPT ![r] = NoRow]
    /\ UNCHANGED <<userVars, cacheVars, at, age, revokedFor, disabledFor>>

----------------------------------------------------------------------------
(* Login, refresh, logout, role change, disabling, change of password      *)

Write(new) ==
    /\ row' = new
    /\ behind' = IF new = reader THEN 0 ELSE behind
    /\ UNCHANGED reader

BeginAuth(r, i, k, step) ==
    /\ pc[r] = "idle"
    /\ kind' = [kind EXCEPT ![r] = k]
    /\ at' = [at EXCEPT ![r] = i]
    /\ Goto(r, step)
    /\ UNCHANGED <<userVars, cacheVars, token, seen, age, outcome,
                   revokedFor, disabledFor>>

\* The checks of login passed; its write names no earlier session.
BeginLogin(r, i) == ~row.disabled /\ BeginAuth(r, i, "login", "issue")

\* The checks of refreshSession passed for a refresh token of session s; its
\* write does not repeat them.
BeginRefresh(r, i, s) ==
    /\ ~row.disabled
    /\ s \in Delivered
    /\ row.session = s
    /\ BeginAuth(r, i, "refresh", "issue")

\* An upsert that changes the user's admin role.
BeginRoleChange(r, i) == BeginAuth(r, i, "role", "revoke")

\* updateSuccessfulLogin, or the write of refreshSession.
IssueSession(r) ==
    /\ pc[r] = "issue"
    /\ \E s \in Session \ issued :
          /\ Write([row EXCEPT !.session = s])
          /\ issued' = issued \cup {s}
          /\ token' = [token EXCEPT ![r] = s]
    /\ Goto(r, "evict")
    /\ UNCHANGED <<cacheVars, kind, at, seen, age, outcome,
                   revokedFor, disabledFor>>

RevokeSession(r) ==
    /\ pc[r] = "revoke"
    /\ Write([row EXCEPT !.session = NoSession])
    /\ Goto(r, "evict")
    /\ UNCHANGED <<issued, cacheVars, requestVars, seen, age, outcome,
                   revokedFor, disabledFor>>

\* The handler evicts the user from this instance's cache and answers.
EvictAndAnswer(r) ==
    /\ pc[r] = "evict"
    /\ InvalidateUser(at[r])
    /\ Goto(r, "done")
    /\ UNCHANGED <<userVars, requestVars, seen, age, outcome,
                   revokedFor, disabledFor>>

\* An upsert that fails to replace the user's areas throws after it wrote the
\* role, and leaves the cache alone.
UpsertThrows(r) ==
    /\ pc[r] = "evict"
    /\ kind[r] = "role"
    /\ Goto(r, "done")
    /\ UNCHANGED <<userVars, cacheVars, requestVars, seen, age, outcome,
                   revokedFor, disabledFor>>

LogoutRead(r) ==
    /\ pc[r] = "logout"
    /\ Goto(r, IF row.session = token[r] THEN "logoutWrite" ELSE "done")
    /\ UNCHANGED <<userVars, cacheVars, requestVars, seen, age,
                   outcome, revokedFor, disabledFor>>

LogoutWrite(r) ==
    /\ pc[r] = "logoutWrite"
    /\ Write([row EXCEPT !.session = NoSession])
    /\ Goto(r, "logoutEvict")
    /\ UNCHANGED <<issued, cacheVars, requestVars, seen, age, outcome,
                   revokedFor, disabledFor>>

LogoutEvict(r) ==
    /\ pc[r] = "logoutEvict"
    /\ Invalidate(at[r], token[r])
    /\ Goto(r, "done")
    /\ UNCHANGED <<userVars, requestVars, seen, age, outcome,
                   revokedFor, disabledFor>>

\* disableAccount, the nightly job and reactivateAccount leave the session.
SetDisabled(d) ==
    /\ row.disabled # d
    /\ Write([row EXCEPT !.disabled = d])
    /\ disabledFor' = 0
    /\ UNCHANGED <<issued, cacheVars, pc, requestVars, seen, age,
                   outcome, revokedFor>>

\* Setting or resetting a password ends the session and leaves the caches.
ChangePassword ==
    /\ row.session # NoSession
    /\ Write([row EXCEPT !.session = NoSession])
    /\ UNCHANGED <<issued, cacheVars, pc, requestVars, seen, age,
                   outcome, revokedFor, disabledFor>>

\* The process ends and starts anew, without its caches and requests.
Restart(i) ==
    LET Clear(f, empty) == [r \in Request |-> IF at[r] = i THEN empty ELSE f[r]]
    IN  /\ InvalidateUser(i)
        /\ pc' = Clear(pc, "idle")
        /\ kind' = Clear(kind, "get")
        /\ token' = Clear(token, NoSession)
        /\ seen' = Clear(seen, NoRow)
        /\ age' = Clear(age, 0)
        /\ outcome' = Clear(outcome, "none")
        /\ UNCHANGED <<userVars, at, revokedFor, disabledFor>>

----------------------------------------------------------------------------
(* Replication and time                                                    *)

Replicate ==
    /\ reader # row
    /\ reader' = row
    /\ behind' = 0
    /\ UNCHANGED <<row, issued, cacheVars, pc, requestVars, seen, age,
                   outcome, revokedFor, disabledFor>>

Dec(n) == IF n > 0 THEN n - 1 ELSE 0
Inc(n) == IF n < Horizon THEN n + 1 ELSE n

Tick ==
    /\ reader # row => behind < MaxLag
    /\ \A r \in Request : pc[r] \in Reading => age[r] < CallLatency
    /\ behind' = IF reader = row THEN 0 ELSE behind + 1
    /\ auth' = [i \in Instance |-> [s \in Session |-> Dec(auth[i][s])]]
    /\ version' = [i \in Instance |->
                     IF version[i].ttl > 1
                     THEN [version[i] EXCEPT !.ttl = @ - 1] ELSE NoVersion]
    /\ age' = [r \in Request |->
                 IF pc[r] \in Reading THEN age[r] + 1 ELSE age[r]]
    /\ revokedFor' = [s \in Session |->
                        IF s \in issued /\ s # row.session
                        THEN Inc(revokedFor[s]) ELSE 0]
    /\ disabledFor' = IF row.disabled THEN Inc(disabledFor) ELSE 0
    /\ UNCHANGED <<row, reader, issued, pc, requestVars, seen,
                   outcome>>

ValidateStep(r) ==
    Read(r) \/ VersionAnswer(r) \/ VersionFails(r) \/ UserAnswer(r)
      \/ UserFails(r) \/ Finish(r)

SessionStep(r) ==
    IssueSession(r) \/ RevokeSession(r) \/ EvictAndAnswer(r) \/ UpsertThrows(r)
      \/ LogoutRead(r) \/ LogoutWrite(r) \/ LogoutEvict(r)

Next ==
    \/ \E r \in Request, i \in Instance :
          \/ \E k \in Kind, s \in Session : Arrive(r, i, k, s)
          \/ \E s \in Session : BeginRefresh(r, i, s)
          \/ BeginLogin(r, i)
          \/ BeginRoleChange(r, i)
    \/ \E r \in Request : ValidateStep(r) \/ SessionStep(r)
    \/ \E i \in Instance : EvictOldest(i) \/ Restart(i)
    \/ \E d \in BOOLEAN : SetDisabled(d)
    \/ ChangePassword
    \/ Replicate
    \/ Tick

Spec == Init /\ [][Next]_vars

\* Requests in progress are served, the reader catches up, time passes.
Fairness ==
    /\ \A r \in Request : WF_vars(ValidateStep(r)) /\ WF_vars(SessionStep(r))
    /\ WF_vars(Replicate)
    /\ WF_vars(Tick)

FairSpec == Spec /\ Fairness

----------------------------------------------------------------------------
(* Properties                                                              *)

Accepted(r) == outcome[r] # "accepted" /\ outcome'[r] = "accepted"

\* A session that a login, refresh, logout or role change has superseded is
\* not accepted by any instance later than the version TTL after it, plus the
\* lag of the reader and the latency of one read (without database failures);
\* when the version check may fail and let requests through, the bound is the
\* life of a tier-1 entry instead of the version TTL.
SupersededWithinWindow ==
    [][\A r \in Request :
         Accepted(r) => revokedFor[token'[r]] < StaleWindow]_vars

\* Disabling an account does not touch its session or any cache, and the
\* cached path never looks at the flag: what ends its requests everywhere is
\* that a tier-1 entry is not renewed by the hits it serves.
DisabledWithinWindow ==
    [][\A r \in Request : Accepted(r) => disabledFor < DisabledWindow]_vars

\* A session that stays current is in the end rejected only when the database
\* fails: no stale version or reader keeps rejecting the user who logged in
\* last.
CurrentSessionSettles ==
    \A s \in Session :
        <>[](row = [session |-> s, disabled |-> FALSE]) =>
            <>[][\A r \in Request :
                   token'[r] = s /\ outcome[r] = "none" /\ outcome'[r] = "rejected" =>
                       UserFails(r)]_vars
=============================================================================
