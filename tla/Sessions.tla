------------------------------ MODULE Sessions ------------------------------
(***************************************************************************)
(* One signed-in session of the API: its row in auth_sessions, the entries *)
(* Redis keeps under the hashes of its tokens, and the HTTP requests that  *)
(* resolve it (SessionsService.resolve), switch its organization, rotate   *)
(* its token (completing or disabling MFA) or end it.                      *)
(*                                                                         *)
(* Every await of the code is a step of its own: two requests read, decide *)
(* and write in any order, and a clock reading that is used after an await *)
(* is kept until then.  Times are whole units since the session was        *)
(* created.  Abstractions: a token is the number of the rotation that made *)
(* it; every Redis call may fail on its own (the client then answers from  *)
(* the database for five seconds, which is a run of such failures); what   *)
(* AuthorizationService.resolve reads from other tables decides only       *)
(* whether the request fails; sessions of the same user do not interact    *)
(* but through RevokeElsewhere.                                            *)
(***************************************************************************)
EXTENDS Integers, FiniteSets

CONSTANTS
    Requests,       \* HTTP requests of API instances that may be in progress
    Orgs,           \* organizations the user may switch to
    NoOrg,          \* organizationId null, as login leaves it
    Idle,           \* auth.sessionIdleTtlSeconds
    Persist,        \* auth.sessionActivityPersistIntervalSeconds
    CacheTtl,       \* auth.authorizationCacheTtlSeconds
    Lifetime,       \* auth.sessionTtlSeconds
    LastRotation,   \* bound: the last clock reading of a rotation
    MaxRotations,   \* bound: tokens made after the first
    MaxLatency,     \* how old a request in progress may get
    MaxTime         \* bound: the end of the clock

ASSUME TimesAssumption ==
    /\ Idle \in Nat \ {0} /\ Persist \in Nat \ {0} /\ CacheTtl \in Nat \ {0}
    /\ Lifetime \in Nat \ {0} /\ MaxTime \in Nat
    /\ MaxRotations \in Nat /\ LastRotation \in Nat /\ MaxLatency \in Nat
ASSUME IdleAssumption == Persist < Idle

VARIABLES
    now,        \* the clock
    row,        \* the row of auth_sessions
    cache,      \* token -> the entry under its hash, or Absent
    req,        \* request -> where it stands and what it has read
    cookies,    \* tokens the client was given
    used,       \* history: the last time that was recorded as activity
    lapsed      \* history: two uses were once the idle time, less a request, apart

history == <<used, lapsed>>
vars == <<now, row, cache, req, cookies, used, lapsed>>

Tokens == 0..MaxRotations
Times == 0..MaxTime
Contexts == Orgs \union {NoOrg}
Absent == [org |-> NoOrg, last |-> 0, persisted |-> 0, until |-> 0]

\* Where a request stands: the await it is about to make.
Steps == {"idle", "lookup", "confirm", "persist", "updateHit", "stamp", "touch",
          "expireCached", "evict", "row", "expireRow", "persistRow", "updateRow",
          "fill", "handle", "change", "cacheSwitch", "evictOld", "cacheNew", "logout", "evictAll", "revoke"}

Least(a, b) == IF a <= b THEN a ELSE b
Latest(a, b) == IF a <= b THEN b ELSE a

\* A request slot at rest.  The last two fields are history, set when a request
\* begins: it presents a token that has ended, or a session that nobody else is at
\* work on and nobody has used for the idle time and the grace.
Quiet == [pc |-> "idle", token |-> 0, org |-> NoOrg, last |-> 0, persisted |-> 0,
          age |-> 0, late |-> FALSE, dormant |-> FALSE]

TypeOK ==
    /\ now \in Times
    /\ row \in [token : Tokens, status : {"active", "expired", "revoked"},
                org : Contexts, last : Times]
    /\ cache \in [Tokens -> [org : Contexts, last : Times, persisted : Times,
                         until : 0..(Lifetime + MaxLatency)]]
    /\ req \in [Requests -> [pc : Steps, token : Tokens, org : Contexts, last : Times,
                             persisted : Times, age : 0..MaxLatency,
                             late : BOOLEAN, dormant : BOOLEAN]]
    /\ cookies \subseteq Tokens /\ used \in Times /\ lapsed \in BOOLEAN

\* create: the row, then its first entry, which Redis may have refused.
Init ==
    /\ now = 0
    /\ row = [token |-> 0, status |-> "active", org |-> NoOrg, last |-> 0]
    /\ \E ttl \in {0, Least(CacheTtl, Least(Idle, Lifetime))} :
          cache = [t \in Tokens |-> IF t = 0 THEN [Absent EXCEPT !.until = ttl] ELSE Absent]
    /\ req = [r \in Requests |-> Quiet]
    /\ cookies = {0} /\ used = 0 /\ lapsed = FALSE

-----------------------------------------------------------------------------
\* Mutated forms of the definitions below, each a plausible mistake in the code.

\* A hit is not confirmed in the database.
UnconfirmedHit(r) == TRUE
\* The database is read without the grace for its lag.
NoGrace == 0
\* Activity is due when the entry is two intervals old.
DueLate(t, at) == t <= at - 2 * Persist
\* The end is measured from the persisted activity with a double grace.
IsExpiredLate(last, grace) == Lifetime <= now \/ last + Idle + 2 * grace <= now
\* The milliseconds the session has left are taken for seconds.
TtlUnits(last) == 1000 * (Lifetime - now)

-----------------------------------------------------------------------------
\* What the steps are built from.

Active == row.status = "active"
Cached(t) == cache[t].until > now

\* isExpired: the absolute end, or idle for longer than the idle time and a grace.
IsExpired(last, grace) == Lifetime <= now \/ last + Idle + grace <= now

\* Activity at a time is written over one at least an interval older.
Due(t, at) == t <= at - Persist

Ttl(last) == LET ttl == Least(Least(Lifetime - now, last + Idle - now), CacheTtl)
             IN IF ttl < 1 THEN 1 ELSE ttl
Entry(org, last, persisted) ==
    [org |-> org, last |-> last, persisted |-> persisted, until |-> now + Ttl(last)]

\* History: a time is recorded as activity.
Use(at) ==
    /\ used' = Latest(used, at)
    /\ lapsed' = (lapsed \/ used + Idle <= now + MaxLatency)

At(r, step) == req[r].pc = step
Goto(r, step) == req' = [req EXCEPT ![r].pc = step]
\* The same, with what the request has read of an entry or of the row.
Reads(r, step, org, last, persisted) ==
    req' = [req EXCEPT ![r] = [@ EXCEPT !.pc = step, !.org = org, !.last = last,
                                        !.persisted = persisted]]
\* The same, for a step that needs the times no longer.
Forget(r, step) == Reads(r, step, req[r].org, 0, 0)
\* A request that only finishes a call, on a token and a context of its own.
Call(r, step, t, org, last) ==
    req' = [req EXCEPT ![r] = [Quiet EXCEPT !.pc = step, !.age = req[r].age, !.token = t,
                               !.org = org, !.last = last, !.persisted = last]]
End(r) == req' = [req EXCEPT ![r] = Quiet]

\* SET and DEL on Redis: done, or failed without the caller noticing more than FALSE.
Store(t, entry) == cache' = [cache EXCEPT ![t] = entry] \/ UNCHANGED cache
Evict(ts) == cache' = [t \in Tokens |-> IF t \in ts THEN Absent ELSE cache[t]] \/ UNCHANGED cache

\* The token can no longer open the session, now or later.
Ended(t) == ~Active \/ t # row.token \/ Lifetime <= now

-----------------------------------------------------------------------------
\* resolve, through the cache.

Begin(r, t) ==
    /\ At(r, "idle") /\ t \in cookies
    /\ req' = [req EXCEPT ![r] =
                 [Quiet EXCEPT !.pc = "lookup", !.token = t, !.late = Ended(t),
                  !.dormant = used + Idle + Persist <= now /\ \A q \in Requests : At(q, "idle")]]
    /\ UNCHANGED <<now, row, cache, cookies, history>>

\* cache.get: an entry that is too old ends the session, a miss or a failure reads the row.
Lookup(r) ==
    LET t == req[r].token
        e == cache[t]
    IN /\ At(r, "lookup")
       /\ \/ /\ Cached(t) /\ IsExpired(e.last, 0)
             /\ Call(r, "expireCached", t, NoOrg, 0)
          \/ /\ Cached(t) /\ ~IsExpired(e.last, 0)
             /\ Reads(r, "confirm", e.org, e.last, e.persisted)
          \/ Goto(r, "row")
       /\ UNCHANGED <<now, row, cache, cookies, history>>

ExpireCached(r) ==
    /\ At(r, "expireCached") /\ Call(r, "evict", req[r].token, NoOrg, 0)
    /\ row' = IF Active THEN [row EXCEPT !.status = "expired"] ELSE row
    /\ UNCHANGED <<now, cache, cookies, history>>

\* The entry is removed and the request refused, or the revocation is over.
EvictToken(r) ==
    /\ At(r, "evict") /\ End(r) /\ Evict({req[r].token})
    /\ UNCHANGED <<now, row, cookies, history>>

\* existsBy({ id, sessionTokenHash, status: ACTIVE }).
StillActive(r) == Active /\ row.token = req[r].token

Confirm(r) ==
    /\ At(r, "confirm")
    /\ \/ StillActive(r) /\ Goto(r, "persist")
       \/ ~StillActive(r) /\ Call(r, "evict", req[r].token, NoOrg, 0)
    /\ UNCHANGED <<now, row, cache, cookies, history>>

\* persistActivityIfDue reads the clock: recent activity is not written.  lastActivityAt
\* is read next, with no await between.
PersistHit(r) ==
    LET q == req[r]
    IN /\ At(r, "persist")
       /\ \/ Due(q.persisted, now) /\ Reads(r, "updateHit", q.org, now, q.persisted)
             /\ UNCHANGED history
          \/ ~Due(q.persisted, now) /\ Reads(r, "touch", q.org, now, q.persisted) /\ Use(now)
       /\ UNCHANGED <<now, row, cache, cookies>>

\* The UPDATE of last_activity_at, with the time and the threshold read before it was
\* sent: only one of several requests wins.
Wins(at) == Active /\ Due(row.last, at)
Persists(at) == row' = IF Wins(at) THEN [row EXCEPT !.last = at] ELSE row

UpdateHit(r) ==
    LET q == req[r]
    IN /\ At(r, "updateHit") /\ Persists(q.last)
       /\ Reads(r, "stamp", q.org, q.last, IF Wins(q.last) THEN q.last ELSE q.persisted)
       /\ IF Wins(q.last) THEN Use(q.last) ELSE UNCHANGED history
       /\ UNCHANGED <<now, cache, cookies>>

\* lastActivityAt = new Date(), once the UPDATE has answered.
Stamp(r) ==
    LET q == req[r]
    IN /\ At(r, "stamp") /\ Reads(r, "touch", q.org, now, q.persisted) /\ Use(now)
       /\ UNCHANGED <<now, row, cache, cookies>>

\* SET ... XX: renews an entry that is there; without one the request reads the row.
TouchEntry(r) ==
    LET q == req[r]
    IN /\ At(r, "touch")
       /\ \/ /\ Cached(q.token) /\ Forget(r, "handle")
             /\ cache' = [cache EXCEPT ![q.token] = Entry(q.org, q.last, q.persisted)]
          \/ Forget(r, "row") /\ UNCHANGED cache
       /\ UNCHANGED <<now, row, cookies, history>>

-----------------------------------------------------------------------------
\* resolve, through the database.

\* activityPersistIntervalMs: what the row may lag behind the cache.
Grace == Persist

ReadRow(r) ==
    LET q == req[r]
    IN /\ At(r, "row")
       /\ \/ (q.token # row.token \/ ~Active) /\ End(r)
          \/ /\ q.token = row.token /\ Active /\ IsExpired(row.last, Grace)
             /\ Call(r, "expireRow", q.token, NoOrg, 0)
          \/ /\ q.token = row.token /\ Active /\ ~IsExpired(row.last, Grace)
             /\ Reads(r, "persistRow", row.org, row.last, row.last)
       /\ UNCHANGED <<now, row, cache, cookies, history>>

\* The update names the id alone: whatever the row became since it was read.
ExpireRow(r) ==
    /\ At(r, "expireRow") /\ End(r)
    /\ row' = [row EXCEPT !.status = "expired"]
    /\ UNCHANGED <<now, cache, cookies, history>>

\* persistDatabaseActivityIfDue reads the clock once, for the row and for the entry.
PersistMiss(r) ==
    LET q == req[r]
    IN /\ At(r, "persistRow")
       /\ \/ Due(q.last, now) /\ Reads(r, "updateRow", q.org, now, q.persisted)
             /\ UNCHANGED history
          \/ ~Due(q.last, now) /\ Reads(r, "fill", q.org, now, q.persisted) /\ Use(now)
       /\ UNCHANGED <<now, row, cache, cookies>>

UpdateRow(r) ==
    LET q == req[r]
    IN /\ At(r, "updateRow") /\ Persists(q.last)
       /\ Reads(r, "fill", q.org, q.last, IF Wins(q.last) THEN q.last ELSE q.persisted)
       /\ Use(q.last)
       /\ UNCHANGED <<now, cache, cookies>>

FillEntry(r) ==
    LET q == req[r]
    IN /\ At(r, "fill") /\ Forget(r, "handle")
       /\ Store(q.token, Entry(q.org, q.last, q.persisted))
       /\ UNCHANGED <<now, row, cookies, history>>

-----------------------------------------------------------------------------
\* What an authorized request goes on to do.

Answer(r) ==
    /\ At(r, "handle") /\ End(r)
    /\ UNCHANGED <<now, row, cache, cookies, history>>

\* The clock is read for a transaction that changes the row: by disableMfa before it
\* locks the row, so that others may write in between; by the other two, of which this
\* allows more than they do, under the lock.
ReadClock(r) ==
    /\ At(r, "handle") /\ Reads(r, "change", req[r].org, now, 0)
    /\ UNCHANGED <<now, row, cache, cookies, history>>

\* changeOrganization: one transaction on the locked row, then the cache.
SwitchOrganization(r, o) ==
    LET at == req[r].last
    IN /\ At(r, "change") /\ Active /\ at < Lifetime
       /\ row' = [row EXCEPT !.org = o, !.last = at]
       /\ Call(r, "cacheSwitch", row.token, o, at)
       /\ Use(at)
       /\ UNCHANGED <<now, cache, cookies>>

CacheSwitch(r) ==
    LET q == req[r]
    IN /\ At(r, "cacheSwitch") /\ End(r)
       /\ Store(q.token, Entry(q.org, q.last, q.persisted))
       /\ UNCHANGED <<now, row, cookies, history>>

\* completeMfa and disableMfa: activity and a new token in one transaction, then
\* cacheRotated drops the old entry and writes the new one, and the cookie is set.
Rotate(r) ==
    LET at == req[r].last
    IN /\ At(r, "change") /\ Active /\ row.token < MaxRotations /\ at <= LastRotation
       /\ row' = [row EXCEPT !.token = @ + 1, !.last = at]
       /\ Call(r, "evictOld", row.token + 1, row.org, at)
       /\ Use(at)
       /\ UNCHANGED <<now, cache, cookies>>

EvictOld(r) ==
    /\ At(r, "evictOld") /\ Goto(r, "cacheNew") /\ Evict({req[r].token - 1})
    /\ UNCHANGED <<now, row, cookies, history>>

CacheNew(r) ==
    LET q == req[r]
    IN /\ At(r, "cacheNew") /\ End(r)
       /\ Store(q.token, Entry(q.org, q.last, q.persisted))
       /\ cookies' = cookies \union {q.token}
       /\ UNCHANGED <<now, row, history>>

\* logout: revoke reads the hash, ends the row, and deletes every entry of the session.
Logout(r) ==
    /\ At(r, "handle") /\ Call(r, "logout", row.token, NoOrg, 0)
    /\ UNCHANGED <<now, row, cache, cookies, history>>

\* An administrator, or the MFA of another session of the user, revokes this one:
\* the sessions to revoke are listed, updated, and their entries deleted.
RevokeElsewhere(r) ==
    /\ At(r, "idle") /\ Active /\ Call(r, "revoke", row.token, NoOrg, 0)
    /\ UNCHANGED <<now, row, cache, cookies, history>>

EndRow(r) ==
    /\ \/ At(r, "logout") /\ Goto(r, "evictAll")
       \/ At(r, "revoke") /\ Goto(r, "evict")
    /\ row' = IF Active THEN [row EXCEPT !.status = "revoked"] ELSE row
    /\ UNCHANGED <<now, cache, cookies, history>>

\* deleteSession with cleanupAliases: the token's key, then a scan that may stop early.
EvictAll(r) ==
    /\ At(r, "evictAll") /\ End(r)
    /\ Evict({req[r].token}) \/ Evict(Tokens)
    /\ UNCHANGED <<now, row, cookies, history>>

\* confirmPasswordReset: revokeUserSessionsForManager ends the row and nothing else.
PasswordReset ==
    /\ Active
    /\ row' = [row EXCEPT !.status = "revoked"]
    /\ UNCHANGED <<now, cache, req, cookies, history>>

-----------------------------------------------------------------------------
\* The surroundings.

\* A query fails, a tenant check refuses, or the process dies: nothing is undone.
RequestFails(r) ==
    /\ ~At(r, "idle") /\ End(r)
    /\ UNCHANGED <<now, row, cache, cookies, history>>

\* Redis evicts or is restarted, or invalidateMembershipAuthorization deletes the key.
CacheLost(t) ==
    /\ Cached(t)
    /\ cache' = [cache EXCEPT ![t] = Absent]
    /\ UNCHANGED <<now, row, req, cookies, history>>

Tick ==
    /\ now < MaxTime /\ now' = now + 1
    /\ \A r \in Requests : req[r].age < MaxLatency
    /\ req' = [r \in Requests |-> IF At(r, "idle") THEN req[r] ELSE [req[r] EXCEPT !.age = @ + 1]]
    /\ cache' = [t \in Tokens |-> IF cache[t].until > now + 1 THEN cache[t] ELSE Absent]
    /\ UNCHANGED <<row, cookies, used, lapsed>>

ResolveStep(r) ==
    \/ \E t \in Tokens : Begin(r, t)
    \/ Lookup(r) \/ ExpireCached(r) \/ EvictToken(r) \/ Confirm(r)
    \/ PersistHit(r) \/ UpdateHit(r) \/ Stamp(r) \/ TouchEntry(r)
    \/ ReadRow(r) \/ ExpireRow(r) \/ PersistMiss(r) \/ UpdateRow(r) \/ FillEntry(r)

HandlerStep(r) ==
    \/ Answer(r) \/ ReadClock(r) \/ CacheSwitch(r) \/ Rotate(r) \/ EvictOld(r) \/ CacheNew(r)
    \/ \E o \in Orgs : SwitchOrganization(r, o)
    \/ Logout(r) \/ RevokeElsewhere(r) \/ EndRow(r) \/ EvictAll(r) \/ RequestFails(r)

Next ==
    \/ \E r \in Requests : ResolveStep(r) \/ HandlerStep(r)
    \/ \E t \in Tokens : CacheLost(t)
    \/ PasswordReset \/ Tick

Spec == Init /\ [][Next]_vars

-----------------------------------------------------------------------------
\* Correctness.

\* A request that begins after its session was revoked or expired, with a token
\* that a rotation has replaced, or past the absolute end of the session is never
\* authorized: whatever entries failed deletions and late writes leave in Redis,
\* a hit asks the database first.
EndedSessionsAreRefused == \A r \in Requests : At(r, "handle") => ~req[r].late

\* The row of an open session lags behind its last use by less than one persistence
\* interval and the time of one request, although requests persist, touch and refill in
\* any order, only one of them wins the update, and a slow one carries an old clock
\* reading.  (The comment in resolve leaves the time of the request out.)
LagIsBounded == Active => used < row.last + Persist + MaxLatency

\* A session whose uses are never the idle time apart, less the time of one request, is
\* marked expired only at its absolute end or when that time has passed since the last
\* one: losing the cache, or a slower request's copy of the row or of an entry, never
\* closes it.  (A use that comes later than that, within the grace, can still be cut off
\* by another request that read the row just before it was written.)
UsedSessionsStayOpen ==
    [][row.status = "active" /\ row'.status = "expired"
         => lapsed \/ used + Idle <= now + MaxLatency \/ Lifetime <= now]_vars

\* A request that finds nobody else at work, and the session unused for the idle
\* time and the grace, is refused: the grace for the lag of the database is given
\* once and never lets an idle session live on.
IdleSessionsClose == \A r \in Requests : At(r, "handle") => ~req[r].dormant

=============================================================================
