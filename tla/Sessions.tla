------------------------------ MODULE Sessions ------------------------------
(***************************************************************************)
(* The sessions of one user: a browser that logs in, refreshes its CSRF    *)
(* token and logs out, and devices that log in, exchange their identity    *)
(* for short sessions and are revoked; with the heartbeat monitor and the  *)
(* hourly cleanup. Requests run concurrently and take one action for each  *)
(* statement or transaction they send to the database or Redis.            *)
(*                                                                         *)
(* All of them are rows of one table with a foreign key into itself: a     *)
(* device session refers to the identity it was derived from, which cannot *)
(* be deleted while it is there. A statement checks this row by row.       *)
(***************************************************************************)
EXTENDS Integers, FiniteSets, Sequences

CONSTANTS
  Requests,       \* requests that can be in flight at a time
  MaxDevices,     \* identities of one platform (3 in the code)
  KeepTokens,     \* maxActiveCSRFTokensPerSession (4 in the code)
  Limit,          \* bootstraps of one address in a window (10 in the code)
  MaxRows,        \* bound: rows ever created in sessions
  MaxTokens,      \* bound: rows ever created in csrf_tokens
  MaxRequests,    \* bound: requests started
  MaxFaults       \* bound: answers, statements and processes lost

ASSUME SessionsAssumption ==
  /\ MaxDevices \in Nat \ {0} /\ KeepTokens \in Nat \ {0} /\ Limit \in Nat \ {0}
  /\ MaxRows \in Nat /\ MaxTokens \in Nat /\ MaxRequests \in Nat /\ MaxFaults \in Nat

VARIABLES
  sessions,   \* the table, in the order of the ids
  tokens,     \* csrf_tokens, likewise
  stale,      \* device sessions whose last heartbeat is older than its grace
  plucked,    \* what the heartbeat monitor has read as stale
  jar,        \* the browser's cookies: a session and a CSRF token, or 0
  req,        \* req[r]: the next step of r, and what it has read
  hits, ttl,  \* the counter bootstrap:ip in Redis, and whether it has a time to live
  torn,       \* its maker has ended without setting it (history)
  ended,      \* sessions ended by a logout or revocation that succeeded (history)
  started, faults   \* bounds

limiter == <<hits, ttl, torn>>
bounds  == <<started, faults>>
vars    == <<sessions, tokens, stale, plucked, jar, req, limiter, ended, bounds>>

Idle == [op |-> "idle", id |-> 0, tok |-> 0]

Init ==
  /\ sessions = <<>> /\ tokens = <<>>
  /\ stale = {} /\ plucked = {}
  /\ jar = [session |-> 0, csrf |-> 0]
  /\ req = [r \in Requests |-> Idle]
  /\ hits = 0 /\ ttl = FALSE /\ torn = FALSE
  /\ ended = {}
  /\ started = 0 /\ faults = 0

-----------------------------------------------------------------------------
(* The tables.                                                             *)

Ids == DOMAIN sessions

Live(id)    == id \in Ids /\ sessions[id].state = "live"
Expired(id) == id \in Ids /\ sessions[id].state = "expired"
Present(id) == Live(id) \/ Expired(id)

Identity(id) == id \in Ids /\ sessions[id].kind = "identity"

Derived(id) == {c \in Ids : Present(c) /\ sessions[c].parent = id}

\* from is the identity a session owes its existence to, parent the column.
Row(kind, parent, from) == [kind |-> kind, parent |-> parent, from |-> from, state |-> "live"]

\* Mutation: there is no such foreign key.
ReferableAlways(id) == TRUE

\* The foreign key of identity_token_id, when a session is inserted.
Referable(id) == Present(id)

\* ... and when rows are deleted, one by one in the order of their ids.
Restricted(S) == \E id \in S : Derived(id) # {}

Gone(S) == [id \in Ids |-> IF id \in S THEN [sessions[id] EXCEPT !.state = "gone"] ELSE sessions[id]]

Become(S, state) ==
  [id \in Ids |-> IF id \in S /\ Present(id) THEN [sessions[id] EXCEPT !.state = state]
                  ELSE sessions[id]]

\* The tokens of a session are deleted with it.
TokensGone(S) ==
  [t \in DOMAIN tokens |-> IF tokens[t].session \in S THEN [tokens[t] EXCEPT !.state = "gone"]
                           ELSE tokens[t]]

DeleteRows(S) == sessions' = Gone(S) /\ tokens' = TokensGone(S)

Insert(row) == sessions' = Append(sessions, row)

Room == Len(sessions) < MaxRows

-----------------------------------------------------------------------------
(* Requests.                                                               *)

Start(r, op, id, tok) ==
  /\ req[r] = Idle
  /\ started < MaxRequests
  /\ started' = started + 1
  /\ req' = [req EXCEPT ![r] = [op |-> op, id |-> id, tok |-> tok]]
  /\ UNCHANGED faults

Step(r, op, id, tok) == req' = [req EXCEPT ![r] = [op |-> op, id |-> id, tok |-> tok]]

End(r) == req' = [req EXCEPT ![r] = Idle]

At(r, op) == req[r].op = op

Fault == faults < MaxFaults /\ faults' = faults + 1 /\ UNCHANGED started

\* r has made the counter of the rate limit and is about to give it a time to live.
Owes(r) == At(r, "boot.ttl") \/ At(r, "boot.window")

\* The process or the connection dies between two statements, or one of them fails.
Lost(r) ==
  /\ req[r] # Idle
  /\ Fault
  /\ End(r)
  /\ torn' = (torn \/ Owes(r))
  /\ UNCHANGED <<sessions, tokens, stale, plucked, jar, hits, ttl, ended>>

-----------------------------------------------------------------------------
(* The browser.                                                            *)

\* Login: the session, then its first token, then the answer with both cookies.
LoginSession(r) ==
  /\ Room
  /\ Start(r, "login.csrf", Len(sessions) + 1, 0)
  /\ Insert(Row("web", 0, 0))
  /\ UNCHANGED <<tokens, stale, plucked, jar, limiter, ended>>

AddToken(id) == Append(tokens, [session |-> id, state |-> "live"])

LoginToken(r) ==
  LET id == req[r].id
  IN /\ At(r, "login.csrf")
     /\ IF Present(id)
        THEN /\ Len(tokens) < MaxTokens
             /\ tokens' = AddToken(id)
             /\ Step(r, "login.answer", id, Len(tokens) + 1)
        ELSE End(r) /\ UNCHANGED tokens
     /\ UNCHANGED <<sessions, stale, plucked, jar, limiter, ended, bounds>>

LoginAnswer(r) ==
  /\ At(r, "login.answer")
  /\ jar' = [session |-> req[r].id, csrf |-> req[r].tok]
  /\ End(r)
  /\ UNCHANGED <<sessions, tokens, stale, plucked, limiter, ended, bounds>>

\* CSRFMiddleware.Validate: the token is the session's and has not run out. It is extended.
Validated ==
  /\ jar.csrf # 0
  /\ tokens[jar.csrf].session = jar.session /\ tokens[jar.csrf].state = "live"

\* Logout: the tokens, then the session and the cookies.
LogoutTokens(r) ==
  /\ Live(jar.session) /\ Validated
  /\ Start(r, "logout", jar.session, 0)
  /\ tokens' = TokensGone({jar.session})
  /\ UNCHANGED <<sessions, stale, plucked, jar, limiter, ended>>

LogoutSession(r) ==
  /\ At(r, "logout")
  /\ DeleteRows({req[r].id})
  /\ ended' = ended \cup {req[r].id}
  /\ jar' = [session |-> 0, csrf |-> 0]
  /\ End(r)
  /\ UNCHANGED <<stale, plucked, limiter, bounds>>

\* RefreshCSRF: authenticated, with the token cookie the browser holds just then.
AskRefresh(r) ==
  /\ Live(jar.session)
  /\ Start(r, "refresh", jar.session, jar.csrf)
  /\ UNCHANGED <<sessions, tokens, stale, plucked, jar, limiter, ended>>

LiveTokens(id) ==
  {t \in DOMAIN tokens : tokens[t].session = id /\ tokens[t].state = "live"}

\* Mutation: a new token replaces all others.
RetainedNone(id) == {}

\* The newest tokens, which a replacement leaves in place.
Retained(id) ==
  {t \in LiveTokens(id) : Cardinality({u \in LiveTokens(id) : u > t}) < KeepTokens - 1}

\* One transaction with the session's row locked. A known token is extended, even one
\* that has expired; without one a new token is created and the older ones deleted.
Refresh(r) ==
  LET id == req[r].id  tok == req[r].tok
      Known == /\ tok # 0
               /\ tokens[tok].session = id /\ tokens[tok].state \in {"live", "expired"}
      Kept == [t \in DOMAIN tokens |->
                 IF tokens[t].session # id \/ t \in Retained(id) THEN tokens[t]
                 ELSE [tokens[t] EXCEPT !.state =
                         IF @ = "live" THEN "replaced" ELSE IF @ = "expired" THEN "gone" ELSE @]]
  IN /\ At(r, "refresh")
     /\ \/ /\ ~Live(id)
           /\ End(r) /\ UNCHANGED tokens
        \/ /\ Live(id) /\ Known
           /\ tokens' = [tokens EXCEPT ![tok].state = "live"]
           /\ Step(r, "refresh.answer", id, tok)
        \/ /\ Live(id) /\ ~Known
           /\ Len(tokens) < MaxTokens
           /\ tokens' = Append(Kept, [session |-> id, state |-> "live"])
           /\ Step(r, "refresh.answer", id, Len(tokens) + 1)
     /\ UNCHANGED <<sessions, stale, plucked, jar, limiter, ended, bounds>>

\* The answer sets the token cookie and leaves the session's alone.
RefreshAnswer(r) ==
  /\ At(r, "refresh.answer")
  /\ jar' = [jar EXCEPT !.csrf = req[r].tok]
  /\ End(r)
  /\ UNCHANGED <<sessions, tokens, stale, plucked, limiter, ended, bounds>>

\* The token cookie is older than its Max-Age, or cleared.
DropCookie ==
  /\ jar.csrf # 0
  /\ jar' = [jar EXCEPT !.csrf = 0]
  /\ UNCHANGED <<sessions, tokens, stale, plucked, req, limiter, ended, bounds>>

-----------------------------------------------------------------------------
(* Devices.                                                                *)

Devices == {id \in Ids : Identity(id) /\ Live(id)}

\* DeviceLogin: the identities are counted, then one is inserted, then its session.
DeviceLogin(r) ==
  /\ Cardinality(Devices) < MaxDevices
  /\ Start(r, "device.identity", 0, 0)
  /\ UNCHANGED <<sessions, tokens, stale, plucked, jar, limiter, ended>>

DeviceIdentity(r) ==
  /\ At(r, "device.identity") /\ Room
  /\ Insert(Row("identity", 0, 0))
  /\ Step(r, "derive", Len(sessions) + 1, 0)
  /\ UNCHANGED <<tokens, stale, plucked, jar, limiter, ended, bounds>>

\* The last statement of DeviceLogin and of DeviceBootstrap.
DeriveSession(r) ==
  LET id == req[r].id
  IN /\ At(r, "derive")
     /\ End(r)
     /\ IF Referable(id) THEN Room /\ Insert(Row("device", id, id))
        ELSE UNCHANGED sessions
     /\ UNCHANGED <<tokens, stale, plucked, jar, limiter, ended, bounds>>

\* DeviceBootstrap: a request is counted by BootstrapLimit, authenticated, and counted
\* once more by CheckRateLimit, on the same key.
Bootstrap(r) ==
  /\ Start(r, "boot.limit", 0, 0)
  /\ UNCHANGED <<sessions, tokens, stale, plucked, jar, limiter, ended>>

Proceed(r, op) == Step(r, op, req[r].id, 0)

\* INCR. Above the limit the numbers are all the same.
Hit(n) == hits' = IF hits + n > Limit THEN Limit + 1 ELSE hits + n

\* Mutation: the window is opened by whoever finds a counter of its own making.
OpensSecond == hits = 1

\* Only the request that made the counter gives it a time to live.
Opens == hits = 0

\* What follows a count: EXPIRE ...
Window(op) == IF op = "boot.limit" THEN "boot.ttl" ELSE "boot.window"

\* ... and the rest of the request.
Beyond(op) == IF op \in {"boot.limit", "boot.ttl"} THEN "boot.auth" ELSE "boot.find"

Counting(r) == At(r, "boot.limit") \/ At(r, "boot.count")

BootstrapCount(r) ==
  /\ Counting(r)
  /\ Hit(1)
  /\ IF hits + 1 > Limit THEN End(r)
     ELSE Proceed(r, IF Opens THEN Window(req[r].op) ELSE Beyond(req[r].op))
  /\ UNCHANGED <<sessions, tokens, stale, plucked, jar, ttl, torn, ended, bounds>>

\* The INCR is made and its answer lost: an error, or it is sent again, and the request
\* does not learn that it has made the counter.
CountUnanswered(r) ==
  /\ Counting(r)
  /\ Fault
  /\ \/ Hit(1) /\ End(r)
     \/ /\ Hit(2)
        /\ IF hits + 2 > Limit THEN End(r) ELSE Proceed(r, Beyond(req[r].op))
  /\ torn' = (torn \/ Opens)
  /\ UNCHANGED <<sessions, tokens, stale, plucked, jar, ttl, ended>>

\* EXPIRE. Its error is not looked at.
BootstrapWindow(r) ==
  /\ Owes(r)
  /\ \/ ttl' = (hits > 0) /\ UNCHANGED <<torn, bounds>>
     \/ Fault /\ torn' = TRUE /\ UNCHANGED ttl
  /\ Proceed(r, Beyond(req[r].op))
  /\ UNCHANGED <<sessions, tokens, stale, plucked, jar, hits, ended>>

\* Those that BootstrapAuth and DeviceBootstrap find for a token.
Accepted == Devices

\* BootstrapAuth; a token may always be a wrong one.
BootstrapAuth(r) ==
  /\ At(r, "boot.auth")
  /\ End(r) \/ \E id \in Accepted : Step(r, "boot.count", id, 0)
  /\ UNCHANGED <<sessions, tokens, stale, plucked, jar, limiter, ended, bounds>>

\* The handler reads the identity again.
BootstrapIdentity(r) ==
  /\ At(r, "boot.find")
  /\ IF req[r].id \in Accepted THEN Proceed(r, "boot.expire") ELSE End(r)
  /\ UNCHANGED <<sessions, tokens, stale, plucked, jar, limiter, ended, bounds>>

\* The sessions derived so far expire.
BootstrapExpire(r) ==
  /\ At(r, "boot.expire")
  /\ sessions' = Become(Derived(req[r].id), "expired")
  /\ Step(r, "derive", req[r].id, 0)
  /\ UNCHANGED <<tokens, stale, plucked, jar, limiter, ended, bounds>>

WindowEnds ==
  /\ ttl
  /\ hits' = 0 /\ ttl' = FALSE
  /\ UNCHANGED <<sessions, tokens, stale, plucked, jar, req, torn, ended, bounds>>

\* Any call with a device session: it is read, and extended some time later.
Bearer(r) ==
  /\ \E id \in Ids : /\ sessions[id].kind = "device" /\ Live(id)
                     /\ Start(r, "bearer", id, 0)
  /\ UNCHANGED <<sessions, tokens, stale, plucked, jar, limiter, ended>>

\* Mutation: the extension saves the row that was read.
ExtendedSaved(id) == [sessions EXCEPT ![id].state = "live"]

\* UpdateExpiry, by id and never backwards.
Extended(id) == Become({id}, "live")

\* ... and, if the call is a heartbeat, its date is set.
BearerExtend(r) ==
  LET id == req[r].id
  IN /\ At(r, "bearer")
     /\ sessions' = Extended(id)
     /\ stale' \in {stale, stale \ {id}}
     /\ End(r)
     /\ UNCHANGED <<tokens, plucked, jar, limiter, ended, bounds>>

EndSession(id) ==
  /\ started < MaxRequests /\ started' = started + 1
  /\ DeleteRows({id})
  /\ ended' = ended \cup {id}
  /\ UNCHANGED <<stale, plucked, jar, req, limiter, faults>>

\* By the user, from a list that shows expired sessions as well.
RevokeSession(id) == Present(id) /\ ~Identity(id) /\ EndSession(id)

\* By the device itself, or because its call names another platform.
DeviceShutdown(id) == Live(id) /\ sessions[id].kind = "device" /\ EndSession(id)

\* RevokeIdentity: what was derived from it goes first.
RevokeDerived(r) ==
  /\ \E id \in Ids : /\ Identity(id) /\ Present(id)
                     /\ Start(r, "revoke", id, 0)
                     /\ DeleteRows(Derived(id))
  /\ UNCHANGED <<stale, plucked, jar, limiter, ended>>

\* A session that was derived meanwhile makes it fail, and the identity stays.
RevokeIdentity(r) ==
  LET id == req[r].id
  IN /\ At(r, "revoke")
     /\ End(r)
     /\ IF Restricted({id}) THEN UNCHANGED <<sessions, tokens, ended>>
        ELSE DeleteRows({id}) /\ ended' = ended \cup {id}
     /\ UNCHANGED <<stale, plucked, jar, limiter, bounds>>

\* ChangePassword deletes all rows in one statement, or fails with it.
ChangePassword ==
  /\ Ids # {}
  /\ started < MaxRequests /\ started' = started + 1
  /\ ~Restricted(Ids)
  /\ DeleteRows(Ids)
  /\ ended' = ended \cup {id \in Ids : Present(id)}
  /\ UNCHANGED <<stale, plucked, jar, req, limiter, faults>>

-----------------------------------------------------------------------------
(* Time and the workers.                                                   *)

Expire(id) ==
  /\ Live(id)
  /\ sessions' = Become({id}, "expired")
  /\ UNCHANGED <<tokens, stale, plucked, jar, req, limiter, ended, bounds>>

ExpireToken(t) ==
  /\ tokens[t].state = "live"
  /\ tokens' = [tokens EXCEPT ![t].state = "expired"]
  /\ UNCHANGED <<sessions, stale, plucked, jar, req, limiter, ended, bounds>>

HeartbeatLapses(id) ==
  /\ Live(id) /\ sessions[id].kind = "device" /\ id \notin stale
  /\ stale' = stale \cup {id}
  /\ UNCHANGED <<sessions, tokens, plucked, jar, req, limiter, ended, bounds>>

\* checkHeartbeats reads the stale sessions, and expires them by id.
PluckStale ==
  /\ plucked = {} /\ {id \in stale : Live(id)} # {}
  /\ plucked' = {id \in stale : Live(id)}
  /\ UNCHANGED <<sessions, tokens, stale, jar, req, limiter, ended, bounds>>

ExpireStale ==
  /\ plucked # {}
  /\ sessions' = Become(plucked, "expired")
  /\ plucked' = {}
  /\ UNCHANGED <<tokens, stale, jar, req, limiter, ended, bounds>>

AllExpired == {id \in Ids : Expired(id)}

\* The hourly cleanup: one DELETE in the order of the ids, which fails as a whole; the
\* statement for the tokens is run all the same.
CleanSessions ==
  /\ AllExpired # {}
  /\ ~Restricted(AllExpired)
  /\ DeleteRows(AllExpired)
  /\ UNCHANGED <<stale, plucked, jar, req, limiter, ended, bounds>>

CleanTokens ==
  /\ \E t \in DOMAIN tokens : tokens[t].state = "expired"
  /\ tokens' = [t \in DOMAIN tokens |->
                  IF tokens[t].state = "expired" THEN [tokens[t] EXCEPT !.state = "gone"]
                  ELSE tokens[t]]
  /\ UNCHANGED <<sessions, stale, plucked, jar, req, limiter, ended, bounds>>

-----------------------------------------------------------------------------

Browser(r) ==
  \/ LoginSession(r) \/ LoginToken(r) \/ LoginAnswer(r)
  \/ LogoutTokens(r) \/ LogoutSession(r)
  \/ AskRefresh(r) \/ Refresh(r) \/ RefreshAnswer(r)

Device(r) ==
  \/ DeviceLogin(r) \/ DeviceIdentity(r) \/ DeriveSession(r)
  \/ Bootstrap(r) \/ BootstrapCount(r) \/ CountUnanswered(r) \/ BootstrapWindow(r)
  \/ BootstrapAuth(r) \/ BootstrapIdentity(r) \/ BootstrapExpire(r)
  \/ Bearer(r) \/ BearerExtend(r)
  \/ RevokeDerived(r) \/ RevokeIdentity(r)

Cleanup == CleanSessions \/ CleanTokens

Next ==
  \/ \E r \in Requests : Browser(r) \/ Device(r) \/ Lost(r)
  \/ DropCookie \/ WindowEnds \/ ChangePassword
  \/ \E id \in Ids : RevokeSession(id) \/ DeviceShutdown(id) \/ Expire(id) \/ HeartbeatLapses(id)
  \/ \E t \in DOMAIN tokens : ExpireToken(t)
  \/ PluckStale \/ ExpireStale \/ Cleanup

Spec == Init /\ [][Next]_vars

\* Sessions run out, and the cleanup runs every hour.
Fairness ==
  /\ WF_vars(CleanSessions) /\ WF_vars(CleanTokens)
  /\ \A id \in 1..MaxRows : WF_vars(Expire(id))

FairSpec == Spec /\ Fairness

-----------------------------------------------------------------------------
(* Properties.                                                             *)

\* The shape of the state.
TypeOK ==
  /\ \A id \in Ids : /\ sessions[id].kind \in {"web", "identity", "device"}
                     /\ sessions[id].state \in {"live", "expired", "gone"}
                     /\ sessions[id].parent \in 0..(id - 1)
  /\ \A t \in DOMAIN tokens : /\ tokens[t].session \in Ids
                              /\ tokens[t].state \in {"live", "expired", "gone", "replaced"}
  /\ stale \subseteq Ids /\ plucked \subseteq Ids /\ ended \subseteq Ids
  /\ jar.session \in {0} \cup Ids /\ jar.csrf \in {0} \cup DOMAIN tokens
  /\ hits \in Nat /\ ttl \in BOOLEAN /\ torn \in BOOLEAN

\* What was ended stays ended: after a logout, a revocation or a password change has
\* succeeded its session is not there again, nor is any session that was derived from a
\* revoked identity, whatever bootstraps, extensions and monitors were under way.
EndedIsOut ==
  \A id \in Ids : id \in ended \/ sessions[id].from \in ended => ~Present(id)

\* Refresh answers may arrive in any order: when all have arrived, the token in the jar
\* was deleted by another refresh only if KeepTokens newer ones were made while its
\* answer was on its way (the comment on SessionRepo.RefreshCSRFToken).
CookieWorks ==
  LET quiet    == \A r \in Requests : req[r].op \notin {"refresh", "refresh.answer"}
      mine     == jar.csrf # 0 /\ tokens[jar.csrf].session = jar.session
      newer(t) == {u \in DOMAIN tokens : u > t /\ tokens[u].session = jar.session}
  IN quiet /\ mine /\ tokens[jar.csrf].state = "replaced"
       => Cardinality(newer(jar.csrf)) >= KeepTokens

\* A rate limit ends: every counter has a time to live, or one request is about to set
\* it, whatever requests count meanwhile and windows end. The one way out is the loss of
\* that request, of its EXPIRE or of the answer that told it to send one: then, and only
\* then, the counter stays for good and the address is locked out (CheckRateLimit,
\* BootstrapLimit, LoginLimit).
WindowCloses ==
  /\ hits > 0 /\ ~ttl <=> torn \/ \E r \in Requests : Owes(r)
  /\ \A r, q \in Requests : Owes(r) /\ Owes(q) => r = q /\ ~torn

\* docs/USAGE.md: the cleanup "Removes expired sessions". One that cannot be extended
\* any more, because the requests of this behaviour are used up, is removed in the end.
ExpiredAreRemoved == \A id \in 1..MaxRows : Expired(id) ~> ~Expired(id)

=============================================================================
