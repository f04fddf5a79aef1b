--------------------------- MODULE SessionsProofs ---------------------------
(***************************************************************************)
(* Proofs about Sessions, for any requests, organizations, times and       *)
(* bounds.                                                                 *)
(*                                                                         *)
(* A session that has ended for a token has ended for good, and every way  *)
(* to authorization passes a check of the row made after the request       *)
(* began; what is copied to an entry as persisted was in the row before,   *)
(* and the row goes back by no more than the time of a request.            *)
(***************************************************************************)
EXTENDS Sessions, TLAPS

\* Steps that only a request which found the session open before its end takes, and
\* that lead to a write into the cache.
Opened == {"confirm", "persist", "updateHit", "stamp", "touch", "persistRow", "updateRow",
           "fill", "handle", "change", "cacheSwitch", "evictOld", "cacheNew"}

\* Steps of a request that holds a clock reading it has not recorded as activity.
Reading == {"updateHit", "stamp", "updateRow", "change"}

\* What was open when it was looked at ends no earlier than the request is old.
Fresh == \A r \in Requests : req[r].pc \in Opened => now < Lifetime + req[r].age

\* Tokens in use were made by a rotation that has happened.
Issued ==
    /\ \A t \in cookies : t <= row.token
    /\ \A r \in Requests : req[r].token <= row.token

\* A request that begins late stays late, and gets no further than the check of a hit.
RefusedFor(r) == req[r].late =>
    /\ Ended(req[r].token)
    /\ req[r].pc \notin Opened \ {"confirm"}
    /\ req[r].pc = "confirm" => ~StillActive(r)
Refused == \A r \in Requests : RefusedFor(r)

\* A time the row has held.  The row goes back only to what a request read of the clock.
Held(t) == t <= now /\ t <= row.last + MaxLatency

\* What a request has read of the row, or will write as persisted, the row has held.
CopiesOf(r) == Held(req[r].persisted) /\ (req[r].pc = "persistRow" => Held(req[r].last))

\* A request whose update was lost, or won, found or left the row recent.
AnsweredFor(r) == req[r].pc = "stamp" /\ Active => req[r].last < row.last + Persist

\* Where requests take less than an interval, the row lags by less than an interval and
\* the time of one.
Lag == MaxLatency < Persist => LagIsBounded /\ \A r \in Requests : AnsweredFor(r)

Persisted ==
    /\ row.last <= now
    /\ \A t \in Tokens : Held(cache[t].persisted)
    /\ \A r \in Requests : CopiesOf(r)
    /\ Lag

\* Steps of a request that has used the session and has still to write an entry, and
\* those of a request that has used nothing.
Writers == {"touch", "fill", "cacheSwitch", "evictOld", "cacheNew"}
Resting == {"idle", "lookup", "row", "expireRow", "expireCached", "evict", "revoke"}

\* Nothing that was kept of an activity is newer than the last use.
UsesLead ==
    /\ used <= now /\ row.last <= used
    /\ \A t \in Tokens : cache[t].last <= used
    /\ \A r \in Requests : /\ req[r].last <= now
                           /\ req[r].pc \notin Reading => req[r].last <= used

\* What a request is to write is no older than the request.
WritersRecent == \A r \in Requests :
    req[r].pc \in Writers \union Reading => now <= req[r].last + req[r].age

\* Requests that take less than the idle time write entries that end before the activity
\* they keep is idle.
EntriesEnd == MaxLatency < Idle => \A t \in Tokens : cache[t].until <= cache[t].last + Idle

\* The session may be closed: uses were the idle time, less a request, apart, the last one
\* is, or it is over.
MayClose == lapsed \/ used + Idle <= now + MaxLatency \/ Lifetime <= now

\* A request that is to close the session has found it so.
ExpiryDue == MaxLatency < Persist =>
    \A r \in Requests : req[r].pc \in {"expireRow", "expireCached"} => MayClose

\* While a request is under way that found the session asleep, it sleeps on.
Sleeping == \E r \in Requests : req[r].dormant
SleepsOn == Sleeping => /\ used + Idle + Persist <= now
                        /\ \A r \in Requests : req[r].pc \in Resting

Activity == UsesLead /\ WritersRecent /\ EntriesEnd /\ ExpiryDue /\ SleepsOn

USE TimesAssumption, IdleAssumption

-----------------------------------------------------------------------------
(***************************************************************************)
(* Type correctness.                                                       *)
(***************************************************************************)

\* What a request slot may hold.
Slots == [pc : Steps, token : Tokens, org : Contexts, last : Times, persisted : Times,
          age : 0..MaxLatency, late : BOOLEAN, dormant : BOOLEAN]
Entries == [org : Contexts, last : Times, persisted : Times, until : 0..(Lifetime + MaxLatency)]

\* The slot at rest and the missing entry are of their types.
LEMMA Rest == Quiet \in Slots /\ Absent \in Entries
BY DEF Quiet, Slots, Absent, Entries, Steps, Tokens, Contexts, Times

\* An entry lives no longer than the session, or one unit past it.
LEMMA TtlBounds ==
    ASSUME NEW last \in Times, now \in Times
    PROVE  Ttl(last) \in Nat /\ (Ttl(last) <= 1 \/ now + Ttl(last) <= Lifetime)
BY DEF Ttl, Least, Times

\* An entry written by a request that found the session open is of its type.
LEMMA EntryType ==
    ASSUME TypeOK, Fresh, NEW r \in Requests, req[r].pc \in Opened,
           NEW o \in Contexts, NEW a \in Times, NEW b \in Times
    PROVE  Entry(o, a, b) \in Entries
<1>1. now \in Times /\ now < Lifetime + MaxLatency
    BY DEF TypeOK, Fresh, Times
<1>2. now + Ttl(a) \in 0..(Lifetime + MaxLatency)
    BY <1>1, TtlBounds DEF Times
<1> QED
    BY <1>2 DEF Entry, Entries

\* The initial states are well typed.
LEMMA TypeInit == Init => TypeOK /\ Fresh
<1> SUFFICES ASSUME Init PROVE TypeOK /\ Fresh
    OBVIOUS
<1>1. PICK ttl \in {0, Least(CacheTtl, Least(Idle, Lifetime))} :
         cache = [t \in Tokens |-> IF t = 0 THEN [Absent EXCEPT !.until = ttl] ELSE Absent]
    BY DEF Init
<1>2. ttl \in 0..(Lifetime + MaxLatency)
    BY DEF Least
<1>3. cache \in [Tokens -> Entries]
    BY <1>1, <1>2, Rest DEF Absent, Entries
<1>4. req \in [Requests -> Slots]
    BY Rest DEF Init
<1>5. /\ now \in Times
      /\ row \in [token : Tokens, status : {"active", "expired", "revoked"},
                  org : Contexts, last : Times]
      /\ cookies \subseteq Tokens /\ used \in Times
  <2>1. /\ now = 0 /\ cookies = {0} /\ used = 0
        /\ row = [token |-> 0, status |-> "active", org |-> NoOrg, last |-> 0]
    BY DEF Init
  <2> QED
    BY <2>1 DEF Tokens, Times, Contexts
<1>7. lapsed \in BOOLEAN
    BY Zenon DEF Init
<1>6. Fresh
    BY DEF Init, Fresh, Quiet, Opened
<1> QED
    BY <1>3, <1>4, <1>5, <1>6, <1>7 DEF TypeOK, Entries, Slots

\* A step of one request that leaves the clock alone.
LEMMA CallType ==
    ASSUME TypeOK, Fresh, NEW r \in Requests, NEW s \in Steps, NEW t \in Tokens,
           NEW o \in Contexts, NEW a \in Times, Call(r, s, t, o, a), now' = now,
           s \in Opened => req[r].pc \in Opened
    PROVE  req' \in [Requests -> Slots] /\ Fresh'
<1>1. req \in [Requests -> Slots]
    BY DEF TypeOK, Slots
<1>2. [Quiet EXCEPT !.pc = s, !.age = req[r].age, !.token = t, !.org = o, !.last = a,
                    !.persisted = a] \in Slots
    BY <1>1 DEF Quiet, Slots
<1>3. req' \in [Requests -> Slots]
    BY <1>1, <1>2 DEF Call
<1>4. \A q \in Requests : req'[q].pc \in Opened => req[q].pc \in Opened /\ req'[q].age = req[q].age
    BY <1>1 DEF Call, Quiet, Slots
<1> QED
    BY <1>3, <1>4 DEF Fresh

LEMMA GotoType ==
    ASSUME TypeOK, Fresh, NEW r \in Requests, NEW s \in Steps,
           Goto(r, s), now' = now,
           s \in Opened => req[r].pc \in Opened
    PROVE  req' \in [Requests -> Slots] /\ Fresh'
<1>1. req \in [Requests -> Slots]
    BY DEF TypeOK, Slots
<1>2. req' \in [Requests -> Slots]
    BY <1>1 DEF Goto, Slots, Times
<1>3. \A q \in Requests : req'[q].pc \in Opened => req[q].pc \in Opened /\ req'[q].age = req[q].age
    BY <1>1 DEF Goto, Slots
<1> QED
    BY <1>2, <1>3 DEF Fresh

LEMMA EndType ==
    ASSUME TypeOK, Fresh, NEW r \in Requests, End(r), now' = now
    PROVE  req' \in [Requests -> Slots] /\ Fresh'
<1>1. req \in [Requests -> Slots]
    BY DEF TypeOK, Slots
<1>2. req' \in [Requests -> Slots]
    BY <1>1, Rest DEF End
<1>3. \A q \in Requests : req'[q].pc \in Opened => req[q].pc \in Opened /\ req'[q].age = req[q].age
    BY <1>1 DEF End, Quiet, Slots, Opened
<1> QED
    BY <1>2, <1>3 DEF Fresh

\* A step that keeps an entry or the row of a session that was open.
LEMMA ReadsType ==
    ASSUME TypeOK, Fresh, NEW r \in Requests, NEW s \in Steps, NEW o \in Contexts,
           NEW a \in Times, NEW b \in Times, Reads(r, s, o, a, b), now' = now,
           s \in Opened => req[r].pc \in Opened \/ now < Lifetime
    PROVE  req' \in [Requests -> Slots] /\ Fresh'
<1>1. req \in [Requests -> Slots]
    BY DEF TypeOK, Slots
<1>2. [req[r] EXCEPT !.pc = s, !.org = o, !.last = a, !.persisted = b] \in Slots
    BY <1>1 DEF Slots
<1>3. req' \in [Requests -> Slots]
    BY <1>1, <1>2 DEF Reads
<1>4. \A q \in Requests : q # r => req'[q] = req[q]
    BY <1>1 DEF Reads
<1>5. req'[r].pc = s /\ req'[r].age = req[r].age
    BY <1>1 DEF Reads, Slots
<1>6. req[r].age \in Nat /\ now \in Nat
    BY <1>1 DEF Slots, TypeOK, Times
<1> QED
    BY <1>3, <1>4, <1>5, <1>6 DEF Fresh

\* Redis holds entries of its type whether it takes a write or not.
LEMMA CacheType ==
    ASSUME TypeOK,
           \/ UNCHANGED cache
           \/ \E ts : Evict(ts)
           \/ \E t \in Tokens, e \in Entries : Store(t, e)
    PROVE  cache' \in [Tokens -> Entries]
<1>1. cache \in [Tokens -> Entries]
    BY DEF TypeOK, Entries
<1> QED
    BY <1>1, Rest DEF Evict, Store

\* The row keeps its type: what a step writes is a token, a status, a context, a time.
RowType == row \in [token : Tokens, status : {"active", "expired", "revoked"},
                    org : Contexts, last : Times]

\* What the steps leave is well typed when its parts are.
LEMMA TypeParts ==
    ASSUME now' \in Times, RowType', cache' \in [Tokens -> Entries],
           req' \in [Requests -> Slots], cookies' \subseteq Tokens,
           used' \in Times, lapsed' \in BOOLEAN
    PROVE  TypeOK'
BY DEF TypeOK, RowType, Entries, Slots

LEMMA TypeStep == TypeOK /\ Fresh /\ [Next]_vars => TypeOK' /\ Fresh'
<1> SUFFICES ASSUME TypeOK, Fresh, [Next]_vars PROVE TypeOK' /\ Fresh'
    OBVIOUS
<1> DEFINE ReqOK == req' \in [Requests -> Slots] /\ Fresh'
<1> DEFINE CacheOK == cache' \in [Tokens -> Entries]
<1> DEFINE RowOK == RowType'
<1> DEFINE RestOK == now' \in Times /\ cookies' \subseteq Tokens /\ used' \in Times /\ lapsed' \in BOOLEAN
<1>t. /\ now \in Times /\ RowType /\ cache \in [Tokens -> Entries] /\ req \in [Requests -> Slots]
      /\ cookies \subseteq Tokens /\ used \in Times /\ lapsed \in BOOLEAN
    BY DEF TypeOK, RowType, Entries, Slots
<1>s. \A r \in Requests : /\ req[r].token \in Tokens /\ req[r].org \in Contexts
                           /\ req[r].last \in Times /\ req[r].persisted \in Times
    BY <1>t DEF Slots
<1>z. 0 \in Times /\ NoOrg \in Contexts /\ row.token \in Tokens /\ row.org \in Contexts
    BY <1>t DEF Times, Contexts, RowType
<1>u. ASSUME NEW a \in Times, Use(a) PROVE used' \in Times /\ lapsed' \in BOOLEAN
  <2>1. used' = Latest(used, a)
    BY <1>u, Zenon DEF Use
  <2>2. lapsed' \in BOOLEAN
    BY <1>u, Zenon DEF Use
  <2> QED
    BY <1>t, <2>1, <2>2 DEF Latest
<1>v. ASSUME UNCHANGED history PROVE used' \in Times /\ lapsed' \in BOOLEAN
    BY <1>v, <1>t DEF history
<1>1. ASSUME NEW r \in Requests, NEW t \in Tokens, Begin(r, t) PROVE TypeOK' /\ Fresh'
  <2> USE <1>1
  <2>1. [Quiet EXCEPT !.pc = "lookup", !.token = t, !.late = Ended(t),
           !.dormant = used + Idle + Persist <= now /\ \A p \in Requests : At(p, "idle")] \in Slots
    <3>1. Ended(t) \in BOOLEAN
        BY Zenon DEF Ended
    <3>2. (used + Idle + Persist <= now /\ \A p \in Requests : At(p, "idle")) \in BOOLEAN
        BY Zenon
    <3> QED
        BY <3>1, <3>2, Rest DEF Slots, Steps, Quiet
  <2>2. req' \in [Requests -> Slots]
    BY <1>t, <2>1 DEF Begin
  <2>q. ReqOK
    BY <1>t, <2>2 DEF Begin, Fresh, Quiet, Opened, Slots
  <2>c. CacheOK
    BY <1>t DEF Begin
  <2>r. RowOK
    BY <1>t DEF RowType, Begin
  <2>x. RestOK
    BY <1>t DEF Begin, history
  <2> QED
    BY <2>q, <2>c, <2>r, <2>x, TypeParts
<1>2. ASSUME NEW r \in Requests, Lookup(r) PROVE TypeOK' /\ Fresh'
  <2> USE <1>2
  <2>1. ASSUME Call(r, "expireCached", req[r].token, NoOrg, 0) PROVE ReqOK
    BY <2>1, <1>s, <1>z, CallType DEF Lookup, Opened, Steps
  <2>2. ASSUME ~IsExpired(cache[req[r].token].last, 0),
               Reads(r, "confirm", cache[req[r].token].org, cache[req[r].token].last,
                     cache[req[r].token].persisted)
        PROVE  ReqOK
    <3>1. cache[req[r].token] \in Entries
        BY <1>t, <1>s
    <3>2. now < Lifetime
        BY <1>t, <2>2 DEF IsExpired, Times
    <3> QED
        BY <2>2, <3>1, <3>2, ReadsType DEF Lookup, Entries, Steps
  <2>3. ASSUME Goto(r, "row") PROVE ReqOK
    BY <2>3, GotoType DEF Lookup, Opened, Steps
  <2>q. ReqOK
    BY <2>1, <2>2, <2>3 DEF Lookup
  <2>c. CacheOK
    BY <1>t DEF Lookup
  <2>r. RowOK
    BY <1>t DEF RowType, Lookup
  <2>x. RestOK
    BY <1>t DEF Lookup, history
  <2> QED
    BY <2>q, <2>c, <2>r, <2>x, TypeParts
<1>3. ASSUME NEW r \in Requests, ExpireCached(r) PROVE TypeOK' /\ Fresh'
  <2> USE <1>3
  <2>q. ReqOK
    BY <1>t, <1>s, <1>z, CallType DEF ExpireCached, At, Opened, Steps
  <2>c. CacheOK
    BY <1>t DEF ExpireCached
  <2>r. RowOK
    BY <1>t, <1>z DEF RowType, ExpireCached
  <2>x. RestOK
    BY <1>t DEF ExpireCached, history
  <2> QED
    BY <2>q, <2>c, <2>r, <2>x, TypeParts
<1>4. ASSUME NEW r \in Requests, EvictToken(r) PROVE TypeOK' /\ Fresh'
  <2> USE <1>4
  <2>q. ReqOK
    BY <1>t, <1>s, <1>z, EndType DEF EvictToken
  <2>c. CacheOK
    BY CacheType DEF EvictToken
  <2>r. RowOK
    BY <1>t DEF RowType, EvictToken
  <2>x. RestOK
    BY <1>t DEF EvictToken, history
  <2> QED
    BY <2>q, <2>c, <2>r, <2>x, TypeParts
<1>5. ASSUME NEW r \in Requests, Confirm(r) PROVE TypeOK' /\ Fresh'
  <2> USE <1>5
  <2>q. ReqOK
    BY <1>t, <1>s, <1>z, GotoType, CallType DEF Confirm, At, Opened, Steps
  <2>c. CacheOK
    BY <1>t DEF Confirm
  <2>r. RowOK
    BY <1>t DEF RowType, Confirm
  <2>x. RestOK
    BY <1>t DEF Confirm, history
  <2> QED
    BY <2>q, <2>c, <2>r, <2>x, TypeParts
<1>6. ASSUME NEW r \in Requests, PersistHit(r) PROVE TypeOK' /\ Fresh'
  <2> USE <1>6
  <2>1. ASSUME Reads(r, "updateHit", req[r].org, now, req[r].persisted) PROVE ReqOK
    BY <1>t, <1>s, <2>1, ReadsType DEF PersistHit, At, Opened, Steps
  <2>2. ASSUME Reads(r, "touch", req[r].org, now, req[r].persisted) PROVE ReqOK
    BY <1>t, <1>s, <2>2, ReadsType DEF PersistHit, At, Opened, Steps
  <2>q. ReqOK
    BY <2>1, <2>2 DEF PersistHit
  <2>c. CacheOK
    BY <1>t DEF PersistHit
  <2>r. RowOK
    BY <1>t, <1>s DEF RowType, PersistHit
  <2>x. RestOK
    BY <1>t, <1>s, <1>u, <1>v DEF PersistHit
  <2> QED
    BY <2>q, <2>c, <2>r, <2>x, TypeParts
<1>7. ASSUME NEW r \in Requests, TouchEntry(r) PROVE TypeOK' /\ Fresh'
  <2> USE <1>7
  <2>q. ReqOK
    BY <1>t, <1>s, <1>z, ReadsType DEF TouchEntry, Forget, At, Opened, Steps
  <2>1. Entry(req[r].org, req[r].last, req[r].persisted) \in Entries
    BY <1>s, EntryType DEF TouchEntry, At, Opened
  <2>c. CacheOK
    BY <1>s, <2>1, CacheType DEF TouchEntry, Store
  <2>r. RowOK
    BY <1>t DEF RowType, TouchEntry
  <2>x. RestOK
    BY <1>t DEF TouchEntry, history
  <2> QED
    BY <2>q, <2>c, <2>r, <2>x, TypeParts
<1>8. ASSUME NEW r \in Requests, ReadRow(r) PROVE TypeOK' /\ Fresh'
  <2> USE <1>8
  <2>1. ASSUME End(r) PROVE ReqOK
    BY <2>1, EndType DEF ReadRow
  <2>2. ASSUME Call(r, "expireRow", req[r].token, NoOrg, 0) PROVE ReqOK
    BY <2>2, <1>s, <1>z, CallType DEF ReadRow, Opened, Steps
  <2>3. ASSUME ~IsExpired(row.last, Grace),
               Reads(r, "persistRow", row.org, row.last, row.last)
        PROVE  ReqOK
    <3>1. now < Lifetime
        BY <1>t, <2>3 DEF IsExpired, Times
    <3>2. row.last \in Times
        BY <1>t DEF RowType
    <3> QED
        BY <1>z, <2>3, <3>1, <3>2, ReadsType DEF ReadRow, Steps
  <2>q. ReqOK
    BY <2>1, <2>2, <2>3 DEF ReadRow
  <2>c. CacheOK
    BY <1>t DEF ReadRow
  <2>r. RowOK
    BY <1>t DEF RowType, ReadRow
  <2>x. RestOK
    BY <1>t DEF ReadRow, history
  <2> QED
    BY <2>q, <2>c, <2>r, <2>x, TypeParts
<1>9. ASSUME NEW r \in Requests, ExpireRow(r) PROVE TypeOK' /\ Fresh'
  <2> USE <1>9
  <2>q. ReqOK
    BY <1>t, <1>s, <1>z, EndType DEF ExpireRow
  <2>c. CacheOK
    BY <1>t DEF ExpireRow
  <2>r. RowOK
    BY <1>t, <1>z DEF RowType, ExpireRow
  <2>x. RestOK
    BY <1>t DEF ExpireRow, history
  <2> QED
    BY <2>q, <2>c, <2>r, <2>x, TypeParts
<1>10. ASSUME NEW r \in Requests, PersistMiss(r) PROVE TypeOK' /\ Fresh'
  <2> USE <1>10
  <2>1. ASSUME Reads(r, "updateRow", req[r].org, now, req[r].persisted) PROVE ReqOK
    BY <1>t, <1>s, <2>1, ReadsType DEF PersistMiss, At, Opened, Steps
  <2>2. ASSUME Reads(r, "fill", req[r].org, now, req[r].persisted) PROVE ReqOK
    BY <1>t, <1>s, <2>2, ReadsType DEF PersistMiss, At, Opened, Steps
  <2>q. ReqOK
    BY <2>1, <2>2 DEF PersistMiss
  <2>c. CacheOK
    BY <1>t DEF PersistMiss
  <2>r. RowOK
    BY <1>t, <1>s DEF RowType, PersistMiss
  <2>x. RestOK
    BY <1>t, <1>s, <1>u, <1>v DEF PersistMiss
  <2> QED
    BY <2>q, <2>c, <2>r, <2>x, TypeParts
<1>11. ASSUME NEW r \in Requests, FillEntry(r) PROVE TypeOK' /\ Fresh'
  <2> USE <1>11
  <2>q. ReqOK
    BY <1>t, <1>s, <1>z, ReadsType DEF FillEntry, Forget, At, Opened, Steps
  <2>1. Entry(req[r].org, req[r].last, req[r].persisted) \in Entries
    BY <1>s, EntryType DEF FillEntry, At, Opened
  <2>c. CacheOK
    BY <1>s, <2>1, CacheType DEF FillEntry, Store
  <2>r. RowOK
    BY <1>t DEF RowType, FillEntry
  <2>x. RestOK
    BY <1>t DEF FillEntry, history
  <2> QED
    BY <2>q, <2>c, <2>r, <2>x, TypeParts
<1>12. ASSUME NEW r \in Requests, Answer(r) PROVE TypeOK' /\ Fresh'
  <2> USE <1>12
  <2>q. ReqOK
    BY <1>t, <1>s, <1>z, EndType DEF Answer
  <2>c. CacheOK
    BY <1>t DEF Answer
  <2>r. RowOK
    BY <1>t DEF RowType, Answer
  <2>x. RestOK
    BY <1>t DEF Answer, history
  <2> QED
    BY <2>q, <2>c, <2>r, <2>x, TypeParts
<1>13. ASSUME NEW r \in Requests, NEW o \in Orgs, SwitchOrganization(r, o) PROVE TypeOK' /\ Fresh'
  <2> USE <1>13
  <2>q. ReqOK
    BY <1>t, <1>s, <1>z, CallType DEF SwitchOrganization, At, Opened, Steps, Contexts
  <2>c. CacheOK
    BY <1>t DEF SwitchOrganization
  <2>r. RowOK
    BY <1>t, <1>s DEF RowType, SwitchOrganization, Contexts
  <2>x. RestOK
    BY <1>t, <1>s, <1>u DEF SwitchOrganization
  <2> QED
    BY <2>q, <2>c, <2>r, <2>x, TypeParts
<1>14. ASSUME NEW r \in Requests, CacheSwitch(r) PROVE TypeOK' /\ Fresh'
  <2> USE <1>14
  <2>q. ReqOK
    BY <1>t, <1>s, <1>z, EndType DEF CacheSwitch
  <2>1. Entry(req[r].org, req[r].last, req[r].persisted) \in Entries
    BY <1>s, EntryType DEF CacheSwitch, At, Opened
  <2>c. CacheOK
    BY <1>s, <2>1, CacheType DEF CacheSwitch, Store
  <2>r. RowOK
    BY <1>t DEF RowType, CacheSwitch
  <2>x. RestOK
    BY <1>t DEF CacheSwitch, history
  <2> QED
    BY <2>q, <2>c, <2>r, <2>x, TypeParts
<1>15. ASSUME NEW r \in Requests, Rotate(r) PROVE TypeOK' /\ Fresh'
  <2> USE <1>15
  <2>1. row.token + 1 \in Tokens
    BY <1>z DEF Rotate, Tokens
  <2>q. ReqOK
    BY <1>t, <1>s, <1>z, <2>1, CallType DEF Rotate, At, Opened, Steps
  <2>c. CacheOK
    BY <1>t DEF Rotate
  <2>r. RowOK
    BY <1>t, <1>s, <2>1 DEF RowType, Rotate
  <2>x. RestOK
    BY <1>t, <1>s, <1>u DEF Rotate
  <2> QED
    BY <2>q, <2>c, <2>r, <2>x, TypeParts
<1>16. ASSUME NEW r \in Requests, EvictOld(r) PROVE TypeOK' /\ Fresh'
  <2> USE <1>16
  <2>q. ReqOK
    BY <1>t, <1>s, <1>z, GotoType DEF EvictOld, At, Opened, Steps
  <2>c. CacheOK
    BY CacheType DEF EvictOld
  <2>r. RowOK
    BY <1>t DEF RowType, EvictOld
  <2>x. RestOK
    BY <1>t DEF EvictOld, history
  <2> QED
    BY <2>q, <2>c, <2>r, <2>x, TypeParts
<1>17. ASSUME NEW r \in Requests, CacheNew(r) PROVE TypeOK' /\ Fresh'
  <2> USE <1>17
  <2>q. ReqOK
    BY <1>t, <1>s, <1>z, EndType DEF CacheNew
  <2>1. Entry(req[r].org, req[r].last, req[r].persisted) \in Entries
    BY <1>s, EntryType DEF CacheNew, At, Opened
  <2>c. CacheOK
    BY <1>s, <2>1, CacheType DEF CacheNew, Store
  <2>r. RowOK
    BY <1>t DEF RowType, CacheNew
  <2>x. RestOK
    BY <1>t, <1>s DEF CacheNew, history
  <2> QED
    BY <2>q, <2>c, <2>r, <2>x, TypeParts
<1>18. ASSUME NEW r \in Requests, Logout(r) PROVE TypeOK' /\ Fresh'
  <2> USE <1>18
  <2>q. ReqOK
    BY <1>t, <1>s, <1>z, CallType DEF Logout, At, Opened, Steps
  <2>c. CacheOK
    BY <1>t DEF Logout
  <2>r. RowOK
    BY <1>t DEF RowType, Logout
  <2>x. RestOK
    BY <1>t DEF Logout, history
  <2> QED
    BY <2>q, <2>c, <2>r, <2>x, TypeParts
<1>19. ASSUME NEW r \in Requests, RevokeElsewhere(r) PROVE TypeOK' /\ Fresh'
  <2> USE <1>19
  <2>q. ReqOK
    BY <1>t, <1>s, <1>z, CallType DEF RevokeElsewhere, At, Opened, Steps
  <2>c. CacheOK
    BY <1>t DEF RevokeElsewhere
  <2>r. RowOK
    BY <1>t DEF RowType, RevokeElsewhere
  <2>x. RestOK
    BY <1>t DEF RevokeElsewhere, history
  <2> QED
    BY <2>q, <2>c, <2>r, <2>x, TypeParts
<1>20. ASSUME NEW r \in Requests, EndRow(r) PROVE TypeOK' /\ Fresh'
  <2> USE <1>20
  <2>q. ReqOK
    BY <1>t, <1>s, <1>z, GotoType DEF EndRow, At, Opened, Steps
  <2>c. CacheOK
    BY <1>t DEF EndRow
  <2>r. RowOK
    BY <1>t, <1>z DEF RowType, EndRow
  <2>x. RestOK
    BY <1>t DEF EndRow, history
  <2> QED
    BY <2>q, <2>c, <2>r, <2>x, TypeParts
<1>21. ASSUME NEW r \in Requests, EvictAll(r) PROVE TypeOK' /\ Fresh'
  <2> USE <1>21
  <2>q. ReqOK
    BY <1>t, <1>s, <1>z, EndType DEF EvictAll
  <2>c. CacheOK
    BY CacheType DEF EvictAll
  <2>r. RowOK
    BY <1>t DEF RowType, EvictAll
  <2>x. RestOK
    BY <1>t DEF EvictAll, history
  <2> QED
    BY <2>q, <2>c, <2>r, <2>x, TypeParts
<1>22. ASSUME NEW r \in Requests, RequestFails(r) PROVE TypeOK' /\ Fresh'
  <2> USE <1>22
  <2>q. ReqOK
    BY <1>t, <1>s, <1>z, EndType DEF RequestFails
  <2>c. CacheOK
    BY <1>t DEF RequestFails
  <2>r. RowOK
    BY <1>t DEF RowType, RequestFails
  <2>x. RestOK
    BY <1>t DEF RequestFails, history
  <2> QED
    BY <2>q, <2>c, <2>r, <2>x, TypeParts
<1>23. ASSUME NEW t \in Tokens, CacheLost(t) PROVE TypeOK' /\ Fresh'
  <2>c. CacheOK
    BY <1>23, <1>t, Rest DEF CacheLost
  <2> QED
    BY <1>23, <1>t, <2>c, TypeParts DEF CacheLost, history, RowType, Fresh
<1>24. ASSUME PasswordReset PROVE TypeOK' /\ Fresh'
  <2>r. RowOK
    BY <1>24, <1>t DEF PasswordReset, RowType
  <2> QED
    BY <1>24, <1>t, <2>r, TypeParts DEF PasswordReset, history, Fresh
<1>25. ASSUME Tick PROVE TypeOK' /\ Fresh'
  <2>c. CacheOK
    BY <1>25, <1>t, Rest DEF Tick
  <2>x. RestOK
    BY <1>25, <1>t DEF Tick, Times
  <2>r. RowOK
    BY <1>25, <1>t DEF Tick, RowType
  <2>1. req' \in [Requests -> Slots]
    BY <1>25, <1>t DEF Tick, Slots
  <2>2. \A p \in Requests : req'[p].pc \in Opened => req'[p].pc = req[p].pc /\ req'[p].age = req[p].age + 1
    BY <1>25, <1>t DEF Tick, At, Slots, Opened
  <2>3. Fresh'
    BY <1>25, <1>t, <2>2 DEF Fresh, Tick, Slots, Times
  <2> QED
    BY <2>c, <2>x, <2>r, <2>1, <2>3, TypeParts
<1>26. CASE UNCHANGED vars
    BY <1>26, <1>t, TypeParts DEF vars, RowType, Fresh
<1>27. ASSUME NEW r \in Requests, UpdateHit(r) PROVE TypeOK' /\ Fresh'
  <2> USE <1>27
  <2>1. PICK a \in Times, b \in Times : Reads(r, "stamp", req[r].org, a, b)
    BY <1>t, <1>s, <1>z DEF UpdateHit
  <2>q. ReqOK
    BY <1>t, <1>s, <2>1, ReadsType DEF UpdateHit, At, Opened, Steps
  <2>c. CacheOK
    BY <1>t DEF UpdateHit
  <2>r. RowOK
    BY <1>t, <1>s DEF RowType, UpdateHit, Persists
  <2>x. RestOK
    BY <1>t, <1>s, <1>u, <1>v DEF UpdateHit
  <2> QED
    BY <2>q, <2>c, <2>r, <2>x, TypeParts
<1>28. ASSUME NEW r \in Requests, Stamp(r) PROVE TypeOK' /\ Fresh'
  <2> USE <1>28
  <2>1. PICK a \in Times, b \in Times : Reads(r, "touch", req[r].org, a, b)
    BY <1>t, <1>s, <1>z DEF Stamp
  <2>q. ReqOK
    BY <1>t, <1>s, <2>1, ReadsType DEF Stamp, At, Opened, Steps
  <2>c. CacheOK
    BY <1>t DEF Stamp
  <2>r. RowOK
    BY <1>t, <1>s DEF RowType, Stamp
  <2>x. RestOK
    BY <1>t, <1>s, <1>u, <1>v DEF Stamp
  <2> QED
    BY <2>q, <2>c, <2>r, <2>x, TypeParts
<1>29. ASSUME NEW r \in Requests, UpdateRow(r) PROVE TypeOK' /\ Fresh'
  <2> USE <1>29
  <2>1. PICK a \in Times, b \in Times : Reads(r, "fill", req[r].org, a, b)
    BY <1>t, <1>s, <1>z DEF UpdateRow
  <2>q. ReqOK
    BY <1>t, <1>s, <2>1, ReadsType DEF UpdateRow, At, Opened, Steps
  <2>c. CacheOK
    BY <1>t DEF UpdateRow
  <2>r. RowOK
    BY <1>t, <1>s DEF RowType, UpdateRow, Persists
  <2>x. RestOK
    BY <1>t, <1>s, <1>u, <1>v DEF UpdateRow
  <2> QED
    BY <2>q, <2>c, <2>r, <2>x, TypeParts
<1>30. ASSUME NEW r \in Requests, ReadClock(r) PROVE TypeOK' /\ Fresh'
  <2> USE <1>30
  <2>1. PICK a \in Times, b \in Times : Reads(r, "change", req[r].org, a, b)
    BY <1>t, <1>s, <1>z DEF ReadClock
  <2>q. ReqOK
    BY <1>t, <1>s, <2>1, ReadsType DEF ReadClock, At, Opened, Steps
  <2>c. CacheOK
    BY <1>t DEF ReadClock
  <2>r. RowOK
    BY <1>t, <1>s DEF RowType, ReadClock
  <2>x. RestOK
    BY <1>t, <1>s, <1>u, <1>v DEF ReadClock
  <2> QED
    BY <2>q, <2>c, <2>r, <2>x, TypeParts
<1> QED
    BY <1>1, <1>2, <1>3, <1>4, <1>5, <1>6, <1>7, <1>8, <1>9, <1>10, <1>11, <1>12,
       <1>13, <1>14, <1>15, <1>16, <1>17, <1>18, <1>19, <1>20, <1>21, <1>22, <1>23,
       <1>24, <1>25, <1>26, <1>27, <1>28, <1>29, <1>30 DEF Next, ResolveStep, HandlerStep

-----------------------------------------------------------------------------
(***************************************************************************)
(* Ended sessions. What has ended for a token has ended for good, and no   *)
(* request that begins afterwards gets past the checks.                    *)
(***************************************************************************)

\* The other requests are left alone.
Others(r) == \A q \in Requests : q # r => req'[q] = req[q]

\* What each way to move a request leaves in its slot.
LEMMA EndMoves ==
    ASSUME req \in [Requests -> Slots], NEW r \in Requests, End(r)
    PROVE  /\ Others(r) /\ req'[r].pc = "idle" /\ req'[r].token = 0 /\ ~req'[r].late
           /\ req'[r].last = 0 /\ req'[r].persisted = 0 /\ ~req'[r].dormant
<1>1. Others(r) /\ req'[r] = Quiet
    BY DEF End, Others
<1> QED
    BY <1>1 DEF Quiet

LEMMA GotoMoves ==
    ASSUME req \in [Requests -> Slots], NEW r \in Requests, NEW s, Goto(r, s)
    PROVE  /\ Others(r) /\ req'[r].pc = s /\ req'[r].token = req[r].token
           /\ req'[r].late = req[r].late /\ req'[r].last = req[r].last
           /\ req'[r].persisted = req[r].persisted /\ req'[r].age = req[r].age
           /\ req'[r].dormant = req[r].dormant
BY DEF Goto, Others, Slots

LEMMA ReadsMoves ==
    ASSUME req \in [Requests -> Slots], NEW r \in Requests, NEW s, NEW o, NEW a, NEW b,
           Reads(r, s, o, a, b)
    PROVE  /\ Others(r) /\ req'[r].pc = s /\ req'[r].token = req[r].token
           /\ req'[r].late = req[r].late /\ req'[r].last = a /\ req'[r].persisted = b
           /\ req'[r].age = req[r].age /\ req'[r].dormant = req[r].dormant
BY DEF Reads, Others, Slots

LEMMA CallMoves ==
    ASSUME req \in [Requests -> Slots], NEW r \in Requests, NEW s, NEW t, NEW o, NEW a,
           Call(r, s, t, o, a)
    PROVE  /\ Others(r) /\ req'[r].pc = s /\ req'[r].token = t /\ ~req'[r].late
           /\ req'[r].last = a /\ req'[r].persisted = a
           /\ req'[r].age = req[r].age /\ ~req'[r].dormant
BY DEF Call, Others, Quiet, Slots

\* The row never goes back to an earlier token, to an open status, or in time.
LEMMA Forward == TypeOK /\ Fresh /\ [Next]_vars =>
    /\ now <= now' /\ row.token <= row'.token
    /\ row'.status = "active" => row.status = "active"
<1> SUFFICES ASSUME TypeOK, Fresh, [Next]_vars
             PROVE  /\ now <= now' /\ row.token <= row'.token
                    /\ row'.status = "active" => row.status = "active"
    OBVIOUS
<1> DEFINE G == /\ now <= now' /\ row.token <= row'.token
                /\ row'.status = "active" => row.status = "active"
<1>t. /\ now \in Times /\ RowType /\ cache \in [Tokens -> Entries] /\ req \in [Requests -> Slots]
      /\ cookies \subseteq Tokens /\ used \in Times
    BY DEF TypeOK, RowType, Entries, Slots
<1>1. ASSUME NEW r \in Requests, NEW t \in Tokens, Begin(r, t) PROVE G
    BY <1>1, <1>t DEF Begin, Active, RowType, Tokens, Times
<1>2. ASSUME NEW r \in Requests, Lookup(r) PROVE G
    BY <1>2, <1>t DEF Lookup, Active, RowType, Tokens, Times
<1>3. ASSUME NEW r \in Requests, ExpireCached(r) PROVE G
    BY <1>3, <1>t DEF ExpireCached, Active, RowType, Tokens, Times
<1>4. ASSUME NEW r \in Requests, EvictToken(r) PROVE G
    BY <1>4, <1>t DEF EvictToken, Active, RowType, Tokens, Times
<1>5. ASSUME NEW r \in Requests, Confirm(r) PROVE G
    BY <1>5, <1>t DEF Confirm, Active, RowType, Tokens, Times
<1>6. ASSUME NEW r \in Requests, PersistHit(r) PROVE G
    BY <1>6, <1>t DEF PersistHit, Active, RowType, Tokens, Times
<1>7. ASSUME NEW r \in Requests, TouchEntry(r) PROVE G
    BY <1>7, <1>t DEF TouchEntry, Active, RowType, Tokens, Times
<1>8. ASSUME NEW r \in Requests, ReadRow(r) PROVE G
    BY <1>8, <1>t DEF ReadRow, Active, RowType, Tokens, Times
<1>9. ASSUME NEW r \in Requests, ExpireRow(r) PROVE G
    BY <1>9, <1>t DEF ExpireRow, Active, RowType, Tokens, Times
<1>10. ASSUME NEW r \in Requests, PersistMiss(r) PROVE G
    BY <1>10, <1>t DEF PersistMiss, Active, RowType, Tokens, Times
<1>11. ASSUME NEW r \in Requests, FillEntry(r) PROVE G
    BY <1>11, <1>t DEF FillEntry, Active, RowType, Tokens, Times
<1>12. ASSUME NEW r \in Requests, Answer(r) PROVE G
    BY <1>12, <1>t DEF Answer, Active, RowType, Tokens, Times
<1>13. ASSUME NEW r \in Requests, NEW o \in Orgs, SwitchOrganization(r, o) PROVE G
    BY <1>13, <1>t DEF SwitchOrganization, Active, RowType, Tokens, Times
<1>14. ASSUME NEW r \in Requests, CacheSwitch(r) PROVE G
    BY <1>14, <1>t DEF CacheSwitch, Active, RowType, Tokens, Times
<1>15. ASSUME NEW r \in Requests, Rotate(r) PROVE G
    BY <1>15, <1>t DEF Rotate, Active, RowType, Tokens, Times
<1>16. ASSUME NEW r \in Requests, EvictOld(r) PROVE G
    BY <1>16, <1>t DEF EvictOld, Active, RowType, Tokens, Times
<1>17. ASSUME NEW r \in Requests, CacheNew(r) PROVE G
    BY <1>17, <1>t DEF CacheNew, Active, RowType, Tokens, Times
<1>18. ASSUME NEW r \in Requests, Logout(r) PROVE G
    BY <1>18, <1>t DEF Logout, Active, RowType, Tokens, Times
<1>19. ASSUME NEW r \in Requests, RevokeElsewhere(r) PROVE G
    BY <1>19, <1>t DEF RevokeElsewhere, Active, RowType, Tokens, Times
<1>20. ASSUME NEW r \in Requests, EndRow(r) PROVE G
    BY <1>20, <1>t DEF EndRow, Active, RowType, Tokens, Times
<1>21. ASSUME NEW r \in Requests, EvictAll(r) PROVE G
    BY <1>21, <1>t DEF EvictAll, Active, RowType, Tokens, Times
<1>22. ASSUME NEW r \in Requests, RequestFails(r) PROVE G
    BY <1>22, <1>t DEF RequestFails, Active, RowType, Tokens, Times
<1>23. ASSUME NEW t \in Tokens, CacheLost(t) PROVE G
    BY <1>23, <1>t DEF CacheLost, Active, RowType, Tokens, Times
<1>24. ASSUME PasswordReset PROVE G
    BY <1>24, <1>t DEF PasswordReset, Active, RowType, Tokens, Times
<1>25. ASSUME Tick PROVE G
    BY <1>25, <1>t DEF Tick, Active, RowType, Tokens, Times
<1>26. CASE UNCHANGED vars
    BY <1>26, <1>t DEF vars, Active, RowType, Tokens, Times
<1>27. ASSUME NEW r \in Requests, UpdateHit(r) PROVE G
    BY <1>27, <1>t DEF UpdateHit, Persists, Active, RowType, Tokens, Times
<1>28. ASSUME NEW r \in Requests, Stamp(r) PROVE G
    BY <1>28, <1>t DEF Stamp, Active, RowType, Tokens, Times
<1>29. ASSUME NEW r \in Requests, UpdateRow(r) PROVE G
    BY <1>29, <1>t DEF UpdateRow, Persists, Active, RowType, Tokens, Times
<1>30. ASSUME NEW r \in Requests, ReadClock(r) PROVE G
    BY <1>30, <1>t DEF ReadClock, Active, RowType, Tokens, Times
<1> QED
    BY <1>1, <1>2, <1>3, <1>4, <1>5, <1>6, <1>7, <1>8, <1>9, <1>10, <1>11, <1>12,
       <1>13, <1>14, <1>15, <1>16, <1>17, <1>18, <1>19, <1>20, <1>21, <1>22, <1>23,
       <1>24, <1>25, <1>26, <1>27, <1>28, <1>29, <1>30 DEF Next, ResolveStep, HandlerStep

\* A step of one request leaves the others, and gives this one a token of the row.
LEMMA IssuedStep == TypeOK /\ Fresh /\ Issued /\ [Next]_vars => Issued'
<1> SUFFICES ASSUME TypeOK, Fresh, Issued, [Next]_vars PROVE Issued'
    OBVIOUS
<1>t. /\ now \in Times /\ RowType /\ cache \in [Tokens -> Entries] /\ req \in [Requests -> Slots]
      /\ cookies \subseteq Tokens /\ used \in Times
    BY DEF TypeOK, RowType, Entries, Slots
<1>m. row.token <= row'.token /\ row.token \in Nat /\ row'.token \in Nat
  <2>1. TypeOK'
    BY TypeStep
  <2> QED
    BY <2>1, <1>t, Forward DEF TypeOK, RowType, Tokens
<1>k. \A r \in Requests : req[r].token \in Nat /\ req[r].token <= row.token
    BY <1>t DEF Slots, Tokens, Issued
<1>c. \A t \in cookies : t \in Nat /\ t <= row.token
    BY <1>t DEF Tokens, Issued
<1>1. ASSUME NEW r \in Requests, NEW t \in Tokens, Begin(r, t) PROVE Issued'
    BY <1>1, <1>t, <1>m, <1>k, <1>c DEF Begin, At, Goto, Reads, Forget, Call, End,
       Quiet, history, Slots, Issued
<1>2. ASSUME NEW r \in Requests, Lookup(r) PROVE Issued'
    BY <1>2, <1>t, <1>m, <1>k, <1>c DEF Lookup, At, Goto, Reads, Forget, Call, End,
       Quiet, history, Slots, Issued
<1>3. ASSUME NEW r \in Requests, ExpireCached(r) PROVE Issued'
  <2>1. Others(r) /\ req'[r].token = req[r].token
    BY <1>3, <1>t, CallMoves DEF ExpireCached
  <2> QED
    BY <1>3, <2>1, <1>c, <1>k, <1>m DEF ExpireCached, Others, Issued
<1>4. ASSUME NEW r \in Requests, EvictToken(r) PROVE Issued'
  <2>1. Others(r) /\ req'[r].token = 0
    BY <1>4, <1>t, EndMoves DEF EvictToken
  <2> QED
    BY <1>4, <2>1, <1>c, <1>k, <1>m DEF EvictToken, Others, Issued
<1>5. ASSUME NEW r \in Requests, Confirm(r) PROVE Issued'
    BY <1>5, <1>t, <1>m, <1>k, <1>c DEF Confirm, At, Goto, Reads, Forget, Call, End,
       Quiet, history, Slots, Issued
<1>6. ASSUME NEW r \in Requests, PersistHit(r) PROVE Issued'
  <2>1. Others(r) /\ req'[r].token = req[r].token
    BY <1>6, <1>t, ReadsMoves DEF PersistHit
  <2> QED
    BY <1>6, <2>1, <1>c, <1>k, <1>m DEF PersistHit, Others, Issued
<1>7. ASSUME NEW r \in Requests, TouchEntry(r) PROVE Issued'
  <2>1. Others(r) /\ req'[r].token = req[r].token
    BY <1>7, <1>t, ReadsMoves DEF TouchEntry, Forget
  <2> QED
    BY <1>7, <2>1, <1>c, <1>k, <1>m DEF TouchEntry, Others, Issued
<1>8. ASSUME NEW r \in Requests, ReadRow(r) PROVE Issued'
  <2>1. ASSUME End(r) PROVE Issued'
    <3>1. Others(r) /\ req'[r].token = 0
        BY <2>1, <1>t, EndMoves
    <3> QED
        BY <1>8, <3>1, <1>k, <1>c, <1>m DEF ReadRow, Others, Issued
  <2>2. ASSUME Call(r, "expireRow", req[r].token, NoOrg, 0) PROVE Issued'
    <3>1. Others(r) /\ req'[r].token = req[r].token
        BY <2>2, <1>t, CallMoves
    <3> QED
        BY <1>8, <3>1, <1>k, <1>c, <1>m DEF ReadRow, Others, Issued
  <2>3. ASSUME Reads(r, "persistRow", row.org, row.last, row.last) PROVE Issued'
    <3>1. Others(r) /\ req'[r].token = req[r].token
        BY <2>3, <1>t, ReadsMoves
    <3> QED
        BY <1>8, <3>1, <1>k, <1>c, <1>m DEF ReadRow, Others, Issued
  <2> QED
    BY <1>8, <2>1, <2>2, <2>3 DEF ReadRow
<1>9. ASSUME NEW r \in Requests, ExpireRow(r) PROVE Issued'
    BY <1>9, <1>t, <1>m, <1>k, <1>c DEF ExpireRow, At, Goto, Reads, Forget, Call, End,
       Quiet, history, Slots, Issued
<1>10. ASSUME NEW r \in Requests, PersistMiss(r) PROVE Issued'
  <2>1. Others(r) /\ req'[r].token = req[r].token
    BY <1>10, <1>t, ReadsMoves DEF PersistMiss
  <2> QED
    BY <1>10, <2>1, <1>c, <1>k, <1>m DEF PersistMiss, Others, Issued
<1>11. ASSUME NEW r \in Requests, FillEntry(r) PROVE Issued'
  <2>1. Others(r) /\ req'[r].token = req[r].token
    BY <1>11, <1>t, ReadsMoves DEF FillEntry, Forget
  <2> QED
    BY <1>11, <2>1, <1>c, <1>k, <1>m DEF FillEntry, Others, Issued
<1>12. ASSUME NEW r \in Requests, Answer(r) PROVE Issued'
  <2>1. Others(r) /\ req'[r].token = 0
    BY <1>12, <1>t, EndMoves DEF Answer
  <2> QED
    BY <1>12, <2>1, <1>c, <1>k, <1>m DEF Answer, Others, Issued
<1>13. ASSUME NEW r \in Requests, NEW o \in Orgs, SwitchOrganization(r, o) PROVE Issued'
    BY <1>13, <1>t, <1>m, <1>k, <1>c DEF SwitchOrganization, At, Goto, Reads, Forget,
       Call, End, Quiet, history, Slots, Issued
<1>14. ASSUME NEW r \in Requests, CacheSwitch(r) PROVE Issued'
  <2>1. Others(r) /\ req'[r].token = 0
    BY <1>14, <1>t, EndMoves DEF CacheSwitch
  <2> QED
    BY <1>14, <2>1, <1>c, <1>k, <1>m DEF CacheSwitch, Others, Issued
<1>15. ASSUME NEW r \in Requests, Rotate(r) PROVE Issued'
    BY <1>15, <1>t, <1>m, <1>k, <1>c DEF Rotate, At, Goto, Reads, Forget, Call, End,
       Quiet, history, Slots, Issued
<1>16. ASSUME NEW r \in Requests, EvictOld(r) PROVE Issued'
  <2>1. Others(r) /\ req'[r].token = req[r].token
    BY <1>16, <1>t, GotoMoves DEF EvictOld
  <2> QED
    BY <1>16, <2>1, <1>c, <1>k, <1>m DEF EvictOld, Others, Issued
<1>17. ASSUME NEW r \in Requests, CacheNew(r) PROVE Issued'
    BY <1>17, <1>t, <1>m, <1>k, <1>c DEF CacheNew, At, Goto, Reads, Forget, Call, End,
       Quiet, history, Slots, Issued
<1>18. ASSUME NEW r \in Requests, Logout(r) PROVE Issued'
  <2>1. Others(r) /\ req'[r].token = row.token
    BY <1>18, <1>t, CallMoves DEF Logout
  <2> QED
    BY <1>18, <2>1, <1>c, <1>k, <1>m DEF Logout, Others, Issued
<1>19. ASSUME NEW r \in Requests, RevokeElsewhere(r) PROVE Issued'
  <2>1. Others(r) /\ req'[r].token = row.token
    BY <1>19, <1>t, CallMoves DEF RevokeElsewhere
  <2> QED
    BY <1>19, <2>1, <1>c, <1>k, <1>m DEF RevokeElsewhere, Others, Issued
<1>20. ASSUME NEW r \in Requests, EndRow(r) PROVE Issued'
  <2>1. Others(r) /\ req'[r].token = req[r].token
    BY <1>20, <1>t, GotoMoves DEF EndRow
  <2> QED
    BY <1>20, <2>1, <1>c, <1>k, <1>m DEF EndRow, Others, Issued
<1>21. ASSUME NEW r \in Requests, EvictAll(r) PROVE Issued'
  <2>1. Others(r) /\ req'[r].token = 0
    BY <1>21, <1>t, EndMoves DEF EvictAll
  <2> QED
    BY <1>21, <2>1, <1>c, <1>k, <1>m DEF EvictAll, Others, Issued
<1>22. ASSUME NEW r \in Requests, RequestFails(r) PROVE Issued'
  <2>1. Others(r) /\ req'[r].token = 0
    BY <1>22, <1>t, EndMoves DEF RequestFails
  <2> QED
    BY <1>22, <2>1, <1>c, <1>k, <1>m DEF RequestFails, Others, Issued
<1>23. ASSUME NEW t \in Tokens, CacheLost(t) PROVE Issued'
    BY <1>23, <1>t, <1>m, <1>k, <1>c DEF CacheLost, At, Goto, Reads, Forget, Call, End,
       Quiet, history, Slots, Issued
<1>24. ASSUME PasswordReset PROVE Issued'
    BY <1>24, <1>t, <1>m, <1>k, <1>c DEF PasswordReset, At, Goto, Reads, Forget, Call,
       End, Quiet, history, Slots, Issued
<1>25. ASSUME Tick PROVE Issued'
    BY <1>25, <1>t, <1>m, <1>k, <1>c DEF Tick, At, Goto, Reads, Forget, Call, End,
       Quiet, history, Slots, Issued
<1>26. CASE UNCHANGED vars
    BY <1>26, <1>t, <1>m, <1>k, <1>c DEF vars, At, Goto, Reads, Forget, Call, End,
       Quiet, history, Slots, Issued
<1>27. ASSUME NEW r \in Requests, UpdateHit(r) PROVE Issued'
  <2>1. Others(r) /\ req'[r].token = req[r].token
    BY <1>27, <1>t, ReadsMoves DEF UpdateHit
  <2> QED
    BY <1>27, <2>1, <1>c, <1>k, <1>m DEF UpdateHit, Others, Issued
<1>28. ASSUME NEW r \in Requests, Stamp(r) PROVE Issued'
  <2>1. Others(r) /\ req'[r].token = req[r].token
    BY <1>28, <1>t, ReadsMoves DEF Stamp
  <2> QED
    BY <1>28, <2>1, <1>c, <1>k, <1>m DEF Stamp, Others, Issued
<1>29. ASSUME NEW r \in Requests, UpdateRow(r) PROVE Issued'
  <2>1. Others(r) /\ req'[r].token = req[r].token
    BY <1>29, <1>t, ReadsMoves DEF UpdateRow
  <2> QED
    BY <1>29, <2>1, <1>c, <1>k, <1>m DEF UpdateRow, Others, Issued
<1>30. ASSUME NEW r \in Requests, ReadClock(r) PROVE Issued'
  <2>1. Others(r) /\ req'[r].token = req[r].token
    BY <1>30, <1>t, ReadsMoves DEF ReadClock
  <2> QED
    BY <1>30, <2>1, <1>c, <1>k, <1>m DEF ReadClock, Others, Issued
<1> QED
    BY <1>1, <1>2, <1>3, <1>4, <1>5, <1>6, <1>7, <1>8, <1>9, <1>10, <1>11, <1>12,
       <1>13, <1>14, <1>15, <1>16, <1>17, <1>18, <1>19, <1>20, <1>21, <1>22, <1>23,
       <1>24, <1>25, <1>26, <1>27, <1>28, <1>29, <1>30 DEF Next, ResolveStep, HandlerStep

\* Whatever keeps its token and its lateness, and does not go further, stays refused.
LEMMA RefusedKept ==
    ASSUME TypeOK, Fresh, Issued, Refused, [Next]_vars, NEW q \in Requests,
           req'[q].token = req[q].token, req'[q].late = req[q].late,
           req'[q].pc = req[q].pc \/ req'[q].pc \notin Opened
    PROVE  RefusedFor(q)'
<1>1. now <= now' /\ row.token <= row'.token /\ (row'.status = "active" => row.status = "active")
    BY Forward
<1>2. req[q].token \in Nat /\ req[q].token <= row.token /\ row.token \in Nat /\ now \in Nat
    BY DEF TypeOK, Issued, Tokens, Times
<1>3. row'.token \in Nat /\ now' \in Nat
  <2>1. TypeOK'
    BY TypeStep
  <2> QED
    BY <2>1 DEF TypeOK, Tokens, Times
<1>4. Ended(req[q].token) => Ended(req[q].token)'
    BY <1>1, <1>2, <1>3 DEF Ended, Active
<1>5. ~StillActive(q) => ~StillActive(q)'
    BY <1>1, <1>2, <1>3 DEF StillActive, Active
<1> QED
    BY <1>4, <1>5 DEF Refused, RefusedFor, Opened

LEMMA RefusedStep == TypeOK /\ Fresh /\ Issued /\ Refused /\ [Next]_vars => Refused'
<1> SUFFICES ASSUME TypeOK, Fresh, Issued, Refused, [Next]_vars PROVE Refused'
    OBVIOUS
<1>t. /\ now \in Times /\ RowType /\ cache \in [Tokens -> Entries] /\ req \in [Requests -> Slots]
      /\ cookies \subseteq Tokens /\ used \in Times
    BY DEF TypeOK, RowType, Entries, Slots
<1>kept. \A q \in Requests :
           /\ req'[q].token = req[q].token /\ req'[q].late = req[q].late
           /\ req'[q].pc = req[q].pc \/ req'[q].pc \notin Opened
           => RefusedFor(q)'
    BY RefusedKept
<1>o. \A q \in Requests : req'[q] = req[q] => RefusedFor(q)'
    BY <1>kept
<1>one. ASSUME NEW r \in Requests, Others(r), RefusedFor(r)' PROVE Refused'
    BY <1>o, <1>one DEF Others, Refused
<1>g. \A r \in Requests : ~req'[r].late => RefusedFor(r)'
    BY DEF RefusedFor
<1>n. \A r \in Requests : req[r].pc \in Opened \ {"confirm"} => ~req[r].late
    BY DEF Refused, RefusedFor
<1>1. ASSUME NEW r \in Requests, NEW t \in Tokens, Begin(r, t) PROVE Refused'
  <2>1. Others(r) /\ req'[r].token = t /\ req'[r].pc = "lookup" /\ (req'[r].late = Ended(t))
    BY <1>1, <1>t DEF Begin, Others, Quiet, Slots
  <2>2. Ended(t)' = Ended(t)
    BY <1>1 DEF Begin, Ended, Active
  <2>3. RefusedFor(r)'
    BY <2>1, <2>2 DEF RefusedFor, Opened
  <2> QED
    BY <2>1, <2>3, <1>one
<1>2. ASSUME NEW r \in Requests, Lookup(r) PROVE Refused'
  <2>1. ASSUME Call(r, "expireCached", req[r].token, NoOrg, 0) PROVE Refused'
    <3>1. Others(r) /\ ~req'[r].late
        BY <2>1, <1>t, CallMoves
    <3> QED
        BY <3>1, <1>g, <1>one
  <2>2. ASSUME ~IsExpired(cache[req[r].token].last, 0),
               Reads(r, "confirm", cache[req[r].token].org, cache[req[r].token].last,
                     cache[req[r].token].persisted)
        PROVE  Refused'
    <3>1. Others(r) /\ req'[r].pc = "confirm" /\ req'[r].token = req[r].token /\ req'[r].late = req[r].late
        BY <2>2, <1>t, ReadsMoves
    <3>2. now < Lifetime
        BY <2>2, <1>t DEF IsExpired, Times
    <3>3. req[r].late => ~Active \/ req[r].token # row.token
        BY <3>2, <1>t DEF Refused, RefusedFor, Ended, Times
    <3>4. RefusedFor(r)'
        BY <1>2, <3>1, <3>3 DEF RefusedFor, Ended, StillActive, Active, Lookup
    <3> QED
        BY <3>1, <3>4, <1>one
  <2>3. ASSUME Goto(r, "row") PROVE Refused'
    <3>1. /\ Others(r) /\ req'[r].token = req[r].token /\ req'[r].late = req[r].late
          /\ req'[r].pc \notin Opened
        BY <2>3, <1>t, GotoMoves DEF Opened
    <3> QED
        BY <3>1, <1>kept, <1>one
  <2> QED
    BY <1>2, <2>1, <2>2, <2>3 DEF Lookup
<1>3. ASSUME NEW r \in Requests, ExpireCached(r) PROVE Refused'
  <2>1. Others(r) /\ ~req'[r].late
    BY <1>3, <1>t, CallMoves DEF ExpireCached
  <2> QED
    BY <2>1, <1>g, <1>one
<1>4. ASSUME NEW r \in Requests, EvictToken(r) PROVE Refused'
  <2>1. Others(r) /\ ~req'[r].late
    BY <1>4, <1>t, EndMoves DEF EvictToken
  <2> QED
    BY <2>1, <1>g, <1>one
<1>5. ASSUME NEW r \in Requests, Confirm(r) PROVE Refused'
  <2>1. Others(r) /\ ~req'[r].late
    <3>1. ASSUME StillActive(r), Goto(r, "persist") PROVE Others(r) /\ ~req'[r].late
        BY <1>5, <3>1, <1>t, GotoMoves DEF Confirm, At, Refused, RefusedFor
    <3>2. ASSUME Call(r, "evict", req[r].token, NoOrg, 0) PROVE Others(r) /\ ~req'[r].late
        BY <3>2, <1>t, CallMoves
    <3> QED
        BY <1>5, <3>1, <3>2 DEF Confirm
  <2> QED
    BY <2>1, <1>g, <1>one
<1>6. ASSUME NEW r \in Requests, PersistHit(r) PROVE Refused'
  <2>1. Others(r) /\ req'[r].late = req[r].late
    BY <1>6, <1>t, ReadsMoves DEF PersistHit
  <2>2. ~req[r].late
    BY <1>6, <1>n DEF PersistHit, At, Opened
  <2> QED
    BY <2>1, <2>2, <1>g, <1>one
<1>7. ASSUME NEW r \in Requests, TouchEntry(r) PROVE Refused'
  <2>1. Others(r) /\ req'[r].late = req[r].late
    BY <1>7, <1>t, ReadsMoves DEF TouchEntry, Forget
  <2>2. ~req[r].late
    BY <1>7, <1>n DEF TouchEntry, At, Opened
  <2> QED
    BY <2>1, <2>2, <1>g, <1>one
<1>8. ASSUME NEW r \in Requests, ReadRow(r) PROVE Refused'
  <2>1. ASSUME End(r) PROVE Refused'
    <3>1. Others(r) /\ ~req'[r].late
        BY <2>1, <1>t, EndMoves
    <3> QED
        BY <3>1, <1>g, <1>one
  <2>2. ASSUME Call(r, "expireRow", req[r].token, NoOrg, 0) PROVE Refused'
    <3>1. Others(r) /\ ~req'[r].late
        BY <2>2, <1>t, CallMoves
    <3> QED
        BY <3>1, <1>g, <1>one
  <2>3. ASSUME req[r].token = row.token, Active, ~IsExpired(row.last, Grace),
               Reads(r, "persistRow", row.org, row.last, row.last)
        PROVE  Refused'
    <3>1. Others(r) /\ req'[r].late = req[r].late
        BY <2>3, <1>t, ReadsMoves
    <3>2. ~req[r].late
        BY <2>3, <1>t DEF IsExpired, Refused, RefusedFor, Ended, Times
    <3> QED
        BY <3>1, <3>2, <1>g, <1>one
  <2> QED
    BY <1>8, <2>1, <2>2, <2>3 DEF ReadRow
<1>9. ASSUME NEW r \in Requests, ExpireRow(r) PROVE Refused'
  <2>1. Others(r) /\ ~req'[r].late
    BY <1>9, <1>t, EndMoves DEF ExpireRow
  <2> QED
    BY <2>1, <1>g, <1>one
<1>10. ASSUME NEW r \in Requests, PersistMiss(r) PROVE Refused'
  <2>1. Others(r) /\ req'[r].late = req[r].late
    BY <1>10, <1>t, ReadsMoves DEF PersistMiss
  <2>2. ~req[r].late
    BY <1>10, <1>n DEF PersistMiss, At, Opened
  <2> QED
    BY <2>1, <2>2, <1>g, <1>one
<1>11. ASSUME NEW r \in Requests, FillEntry(r) PROVE Refused'
  <2>1. Others(r) /\ req'[r].late = req[r].late
    BY <1>11, <1>t, ReadsMoves DEF FillEntry, Forget
  <2>2. ~req[r].late
    BY <1>11, <1>n DEF FillEntry, At, Opened
  <2> QED
    BY <2>1, <2>2, <1>g, <1>one
<1>12. ASSUME NEW r \in Requests, Answer(r) PROVE Refused'
  <2>1. Others(r) /\ ~req'[r].late
    BY <1>12, <1>t, EndMoves DEF Answer
  <2> QED
    BY <2>1, <1>g, <1>one
<1>13. ASSUME NEW r \in Requests, NEW o \in Orgs, SwitchOrganization(r, o) PROVE Refused'
  <2>1. Others(r) /\ ~req'[r].late
    BY <1>13, <1>t, CallMoves DEF SwitchOrganization
  <2> QED
    BY <2>1, <1>g, <1>one
<1>14. ASSUME NEW r \in Requests, CacheSwitch(r) PROVE Refused'
  <2>1. Others(r) /\ ~req'[r].late
    BY <1>14, <1>t, EndMoves DEF CacheSwitch
  <2> QED
    BY <2>1, <1>g, <1>one
<1>15. ASSUME NEW r \in Requests, Rotate(r) PROVE Refused'
  <2>1. Others(r) /\ ~req'[r].late
    BY <1>15, <1>t, CallMoves DEF Rotate
  <2> QED
    BY <2>1, <1>g, <1>one
<1>16. ASSUME NEW r \in Requests, EvictOld(r) PROVE Refused'
  <2>1. Others(r) /\ req'[r].late = req[r].late
    BY <1>16, <1>t, GotoMoves DEF EvictOld, Forget
  <2>2. ~req[r].late
    BY <1>16, <1>n DEF EvictOld, At, Opened
  <2> QED
    BY <2>1, <2>2, <1>g, <1>one
<1>17. ASSUME NEW r \in Requests, CacheNew(r) PROVE Refused'
  <2>1. Others(r) /\ ~req'[r].late
    BY <1>17, <1>t, EndMoves DEF CacheNew
  <2> QED
    BY <2>1, <1>g, <1>one
<1>18. ASSUME NEW r \in Requests, Logout(r) PROVE Refused'
  <2>1. Others(r) /\ ~req'[r].late
    BY <1>18, <1>t, CallMoves DEF Logout
  <2> QED
    BY <2>1, <1>g, <1>one
<1>19. ASSUME NEW r \in Requests, RevokeElsewhere(r) PROVE Refused'
  <2>1. Others(r) /\ ~req'[r].late
    BY <1>19, <1>t, CallMoves DEF RevokeElsewhere
  <2> QED
    BY <2>1, <1>g, <1>one
<1>20. ASSUME NEW r \in Requests, EndRow(r) PROVE Refused'
  <2>1. Others(r) /\ req'[r].token = req[r].token /\ req'[r].late = req[r].late /\ req'[r].pc \notin Opened
    BY <1>20, <1>t, GotoMoves DEF EndRow, Opened
  <2> QED
    BY <2>1, <1>kept, <1>one
<1>21. ASSUME NEW r \in Requests, EvictAll(r) PROVE Refused'
  <2>1. Others(r) /\ ~req'[r].late
    BY <1>21, <1>t, EndMoves DEF EvictAll
  <2> QED
    BY <2>1, <1>g, <1>one
<1>22. ASSUME NEW r \in Requests, RequestFails(r) PROVE Refused'
  <2>1. Others(r) /\ ~req'[r].late
    BY <1>22, <1>t, EndMoves DEF RequestFails
  <2> QED
    BY <2>1, <1>g, <1>one
<1>23. ASSUME NEW t \in Tokens, CacheLost(t) PROVE Refused'
    BY <1>23, <1>o DEF CacheLost, Refused
<1>24. ASSUME PasswordReset PROVE Refused'
    BY <1>24, <1>o DEF PasswordReset, Refused
<1>25. ASSUME Tick PROVE Refused'
  <2>1. \A q \in Requests :
           req'[q].token = req[q].token /\ req'[q].late = req[q].late /\ req'[q].pc = req[q].pc
    BY <1>25, <1>t DEF Tick, Slots
  <2> QED
    BY <2>1, <1>kept DEF Refused
<1>26. CASE UNCHANGED vars
    BY <1>26, <1>o DEF vars, Refused
<1>27. ASSUME NEW r \in Requests, UpdateHit(r) PROVE Refused'
  <2>1. Others(r) /\ req'[r].late = req[r].late
    BY <1>27, <1>t, ReadsMoves DEF UpdateHit
  <2>2. ~req[r].late
    BY <1>27, <1>n DEF UpdateHit, At, Opened
  <2> QED
    BY <2>1, <2>2, <1>g, <1>one
<1>28. ASSUME NEW r \in Requests, Stamp(r) PROVE Refused'
  <2>1. Others(r) /\ req'[r].late = req[r].late
    BY <1>28, <1>t, ReadsMoves DEF Stamp
  <2>2. ~req[r].late
    BY <1>28, <1>n DEF Stamp, At, Opened
  <2> QED
    BY <2>1, <2>2, <1>g, <1>one
<1>29. ASSUME NEW r \in Requests, UpdateRow(r) PROVE Refused'
  <2>1. Others(r) /\ req'[r].late = req[r].late
    BY <1>29, <1>t, ReadsMoves DEF UpdateRow
  <2>2. ~req[r].late
    BY <1>29, <1>n DEF UpdateRow, At, Opened
  <2> QED
    BY <2>1, <2>2, <1>g, <1>one
<1>30. ASSUME NEW r \in Requests, ReadClock(r) PROVE Refused'
  <2>1. Others(r) /\ req'[r].late = req[r].late
    BY <1>30, <1>t, ReadsMoves DEF ReadClock
  <2>2. ~req[r].late
    BY <1>30, <1>n DEF ReadClock, At, Opened
  <2> QED
    BY <2>1, <2>2, <1>g, <1>one
<1> QED
    BY <1>1, <1>2, <1>3, <1>4, <1>5, <1>6, <1>7, <1>8, <1>9, <1>10, <1>11, <1>12,
       <1>13, <1>14, <1>15, <1>16, <1>17, <1>18, <1>19, <1>20, <1>21, <1>22, <1>23,
       <1>24, <1>25, <1>26, <1>27, <1>28, <1>29, <1>30 DEF Next, ResolveStep, HandlerStep

-----------------------------------------------------------------------------
(***************************************************************************)
(* Activity.  Whoever does not persist has seen a persisted time that is   *)
(* recent, and the row is nearly as recent; whoever loses the update       *)
(* found the row recent when its clock was read.                           *)
(***************************************************************************)

\* A clock reading in use is of the past, and no older than a request may get.
LEMMA Clock ==
    ASSUME TypeOK, Activity, NEW r \in Requests, req[r].pc \in Writers \union Reading
    PROVE  req[r].last \in Nat /\ req[r].last <= now /\ now <= req[r].last + MaxLatency
<1>1. req[r].last \in Nat /\ req[r].age \in 0 .. MaxLatency /\ now \in Nat
    BY DEF TypeOK, Times
<1> QED
    BY <1>1 DEF Activity, UsesLead, WritersRecent

\* last_activity_at stays in the past, and grows or is no older than a request may get.
RowMovesOn ==
    /\ row'.last <= now'
    /\ row.last <= row'.last \/ (now' = now /\ now <= row'.last + MaxLatency)

LEMMA RowMoves == TypeOK /\ Fresh /\ Persisted /\ Activity /\ [Next]_vars => RowMovesOn
<1> SUFFICES ASSUME TypeOK, Fresh, Persisted, Activity, [Next]_vars PROVE RowMovesOn
    OBVIOUS
<1>t. /\ now \in Times /\ RowType /\ cache \in [Tokens -> Entries] /\ req \in [Requests -> Slots]
      /\ cookies \subseteq Tokens /\ used \in Times
    BY DEF TypeOK, RowType, Entries, Slots
<1>n. /\ now \in Nat /\ row.last \in Nat /\ row.last <= now
      /\ \A r \in Requests : req[r].last \in Nat /\ req[r].persisted \in Nat
      /\ \A t \in Tokens : cache[t].persisted \in Nat
    BY <1>t DEF RowType, Slots, Entries, Times, Persisted
<1> DEFINE G == RowMovesOn
<1>same. ASSUME UNCHANGED now, row'.last = row.last PROVE G
    BY <1>same, <1>n DEF RowMovesOn
<1>read. ASSUME NEW r \in Requests, req[r].pc \in Writers \union Reading, UNCHANGED now,
                row'.last = req[r].last
         PROVE  G
    BY <1>read, <1>n, Clock DEF RowMovesOn
<1>1. ASSUME NEW r \in Requests, NEW t \in Tokens, Begin(r, t) PROVE G
    BY <1>1, <1>t, <1>same DEF Begin, RowType
<1>2. ASSUME NEW r \in Requests, Lookup(r) PROVE G
    BY <1>2, <1>t, <1>same DEF Lookup, RowType
<1>3. ASSUME NEW r \in Requests, ExpireCached(r) PROVE G
    BY <1>3, <1>t, <1>same DEF ExpireCached, RowType
<1>4. ASSUME NEW r \in Requests, EvictToken(r) PROVE G
    BY <1>4, <1>t, <1>same DEF EvictToken, RowType
<1>5. ASSUME NEW r \in Requests, Confirm(r) PROVE G
    BY <1>5, <1>t, <1>same DEF Confirm, RowType
<1>6. ASSUME NEW r \in Requests, PersistHit(r) PROVE G
    BY <1>6, <1>t, <1>same DEF PersistHit, RowType
<1>7. ASSUME NEW r \in Requests, TouchEntry(r) PROVE G
    BY <1>7, <1>t, <1>same DEF TouchEntry, RowType
<1>8. ASSUME NEW r \in Requests, ReadRow(r) PROVE G
    BY <1>8, <1>t, <1>same DEF ReadRow, RowType
<1>9. ASSUME NEW r \in Requests, ExpireRow(r) PROVE G
    BY <1>9, <1>t, <1>same DEF ExpireRow, RowType
<1>10. ASSUME NEW r \in Requests, PersistMiss(r) PROVE G
    BY <1>10, <1>t, <1>same DEF PersistMiss, RowType
<1>11. ASSUME NEW r \in Requests, FillEntry(r) PROVE G
    BY <1>11, <1>t, <1>same DEF FillEntry, RowType
<1>12. ASSUME NEW r \in Requests, Answer(r) PROVE G
    BY <1>12, <1>t, <1>same DEF Answer, RowType
<1>13. ASSUME NEW r \in Requests, NEW o \in Orgs, SwitchOrganization(r, o) PROVE G
    BY <1>13, <1>t, <1>read DEF SwitchOrganization, RowType, At, Reading
<1>14. ASSUME NEW r \in Requests, CacheSwitch(r) PROVE G
    BY <1>14, <1>t, <1>same DEF CacheSwitch, RowType
<1>15. ASSUME NEW r \in Requests, Rotate(r) PROVE G
    BY <1>15, <1>t, <1>read DEF Rotate, RowType, At, Reading
<1>16. ASSUME NEW r \in Requests, EvictOld(r) PROVE G
    BY <1>16, <1>t, <1>same DEF EvictOld, RowType
<1>17. ASSUME NEW r \in Requests, CacheNew(r) PROVE G
    BY <1>17, <1>t, <1>same DEF CacheNew, RowType
<1>18. ASSUME NEW r \in Requests, Logout(r) PROVE G
    BY <1>18, <1>t, <1>same DEF Logout, RowType
<1>19. ASSUME NEW r \in Requests, RevokeElsewhere(r) PROVE G
    BY <1>19, <1>t, <1>same DEF RevokeElsewhere, RowType
<1>20. ASSUME NEW r \in Requests, EndRow(r) PROVE G
    BY <1>20, <1>t, <1>same DEF EndRow, RowType
<1>21. ASSUME NEW r \in Requests, EvictAll(r) PROVE G
    BY <1>21, <1>t, <1>same DEF EvictAll, RowType
<1>22. ASSUME NEW r \in Requests, RequestFails(r) PROVE G
    BY <1>22, <1>t, <1>same DEF RequestFails, RowType
<1>23. ASSUME NEW t \in Tokens, CacheLost(t) PROVE G
    BY <1>23, <1>t, <1>same DEF CacheLost, RowType
<1>24. ASSUME PasswordReset PROVE G
    BY <1>24, <1>t, <1>same DEF PasswordReset, RowType
<1>25. ASSUME Tick PROVE G
    BY <1>25, <1>t, <1>n DEF Tick, RowType, RowMovesOn
<1>26. CASE UNCHANGED vars
    BY <1>26, <1>same DEF vars
<1>27. ASSUME NEW r \in Requests, UpdateHit(r) PROVE G
    BY <1>27, <1>t, <1>same, <1>read DEF UpdateHit, Persists, At, Reading, RowType
<1>28. ASSUME NEW r \in Requests, Stamp(r) PROVE G
    BY <1>28, <1>t, <1>same DEF Stamp, RowType
<1>29. ASSUME NEW r \in Requests, UpdateRow(r) PROVE G
    BY <1>29, <1>t, <1>same, <1>read DEF UpdateRow, Persists, At, Reading, RowType
<1>30. ASSUME NEW r \in Requests, ReadClock(r) PROVE G
    BY <1>30, <1>t, <1>same DEF ReadClock, RowType
<1> QED
    BY <1>1, <1>2, <1>3, <1>4, <1>5, <1>6, <1>7, <1>8, <1>9, <1>10, <1>11, <1>12,
       <1>13, <1>14, <1>15, <1>16, <1>17, <1>18, <1>19, <1>20, <1>21, <1>22, <1>23,
       <1>24, <1>25, <1>26, <1>27, <1>28, <1>29, <1>30 DEF Next, ResolveStep, HandlerStep

\* What the row has held it has held for good.
LEMMA HeldKept ==
    ASSUME TypeOK, Fresh, Persisted, Activity, [Next]_vars, NEW t \in Nat, Held(t)
    PROVE  t <= now' /\ t <= row'.last + MaxLatency
<1>1. now \in Nat /\ row.last \in Nat
    BY DEF TypeOK, Times
<1>2. now' \in Nat /\ row'.last \in Nat
  <2>1. TypeOK'
    BY TypeStep
  <2> QED
    BY <2>1 DEF TypeOK, Times
<1>3. now <= now'
    BY Forward
<1> QED
    BY <1>1, <1>2, <1>3, RowMoves DEF Held, RowMovesOn

\* No entry holds as persisted what the row has not held.
LEMMA EntriesStep == TypeOK /\ Fresh /\ Persisted /\ Activity /\ [Next]_vars =>
    \A t \in Tokens : Held(cache[t].persisted)'
<1> SUFFICES ASSUME TypeOK, Fresh, Persisted, Activity, [Next]_vars PROVE \A t \in Tokens : Held(cache[t].persisted)'
    OBVIOUS
<1>t. /\ now \in Times /\ RowType /\ cache \in [Tokens -> Entries] /\ req \in [Requests -> Slots]
      /\ cookies \subseteq Tokens /\ used \in Times
    BY DEF TypeOK, RowType, Entries, Slots
<1>n. /\ now \in Nat /\ row.last \in Nat /\ row.last <= now
      /\ \A r \in Requests : req[r].last \in Nat /\ req[r].persisted \in Nat
      /\ \A t \in Tokens : cache[t].persisted \in Nat
    BY <1>t DEF RowType, Slots, Entries, Times, Persisted
<1>w. now' \in Nat /\ row'.last \in Nat /\ row'.last <= now'
  <2>1. TypeOK'
    BY TypeStep
  <2> QED
    BY <2>1, RowMoves DEF TypeOK, Times, RowMovesOn
<1> DEFINE S(a) == a <= now' /\ a <= row'.last + MaxLatency
           C == \A t \in Tokens : S(cache'[t].persisted)
           G == \A t \in Tokens : Held(cache[t].persisted)'
<1>c. C => G
    BY DEF Held
<1>0. S(0)
    BY <1>w
<1>p. /\ \A t \in Tokens : S(cache[t].persisted)
      /\ \A r \in Requests : S(req[r].persisted)
    BY <1>n, HeldKept DEF Persisted, CopiesOf
<1>u. ASSUME UNCHANGED cache PROVE G
    BY <1>u, <1>p, <1>c
<1>e. ASSUME NEW ts, Evict(ts) PROVE G
    BY <1>e, <1>p, <1>0, <1>c DEF Evict, Absent
<1>s. ASSUME NEW t, NEW r \in Requests, NEW o, NEW a, Store(t, Entry(o, a, req[r].persisted)) PROVE G
    BY <1>s, <1>t, <1>p, <1>c DEF Store, Entry, Entries
<1>1. ASSUME NEW r \in Requests, NEW t \in Tokens, Begin(r, t) PROVE G
    BY <1>1, <1>u DEF Begin, history
<1>2. ASSUME NEW r \in Requests, Lookup(r) PROVE G
    BY <1>2, <1>u DEF Lookup, history
<1>3. ASSUME NEW r \in Requests, ExpireCached(r) PROVE G
    BY <1>3, <1>u DEF ExpireCached, history
<1>4. ASSUME NEW r \in Requests, EvictToken(r) PROVE G
    BY <1>4, <1>e DEF EvictToken
<1>5. ASSUME NEW r \in Requests, Confirm(r) PROVE G
    BY <1>5, <1>u DEF Confirm, history
<1>6. ASSUME NEW r \in Requests, PersistHit(r) PROVE G
    BY <1>6, <1>u DEF PersistHit, history
<1>7. ASSUME NEW r \in Requests, TouchEntry(r) PROVE G
    BY <1>7, <1>s, <1>u DEF TouchEntry, Store
<1>8. ASSUME NEW r \in Requests, ReadRow(r) PROVE G
    BY <1>8, <1>u DEF ReadRow, history
<1>9. ASSUME NEW r \in Requests, ExpireRow(r) PROVE G
    BY <1>9, <1>u DEF ExpireRow, history
<1>10. ASSUME NEW r \in Requests, PersistMiss(r) PROVE G
    BY <1>10, <1>u DEF PersistMiss, history
<1>11. ASSUME NEW r \in Requests, FillEntry(r) PROVE G
    BY <1>11, <1>s DEF FillEntry
<1>12. ASSUME NEW r \in Requests, Answer(r) PROVE G
    BY <1>12, <1>u DEF Answer, history
<1>13. ASSUME NEW r \in Requests, NEW o \in Orgs, SwitchOrganization(r, o) PROVE G
    BY <1>13, <1>u DEF SwitchOrganization, history
<1>14. ASSUME NEW r \in Requests, CacheSwitch(r) PROVE G
    BY <1>14, <1>s DEF CacheSwitch
<1>15. ASSUME NEW r \in Requests, Rotate(r) PROVE G
    BY <1>15, <1>u DEF Rotate, history
<1>16. ASSUME NEW r \in Requests, EvictOld(r) PROVE G
    BY <1>16, <1>e DEF EvictOld
<1>17. ASSUME NEW r \in Requests, CacheNew(r) PROVE G
    BY <1>17, <1>s DEF CacheNew
<1>18. ASSUME NEW r \in Requests, Logout(r) PROVE G
    BY <1>18, <1>u DEF Logout, history
<1>19. ASSUME NEW r \in Requests, RevokeElsewhere(r) PROVE G
    BY <1>19, <1>u DEF RevokeElsewhere, history
<1>20. ASSUME NEW r \in Requests, EndRow(r) PROVE G
    BY <1>20, <1>u DEF EndRow, history
<1>21. ASSUME NEW r \in Requests, EvictAll(r) PROVE G
    BY <1>21, <1>e DEF EvictAll
<1>22. ASSUME NEW r \in Requests, RequestFails(r) PROVE G
    BY <1>22, <1>u DEF RequestFails, history
<1>23. ASSUME NEW t \in Tokens, CacheLost(t) PROVE G
    BY <1>23, <1>t, <1>p, <1>0, <1>c DEF CacheLost, Absent, Entries
<1>24. ASSUME PasswordReset PROVE G
    BY <1>24, <1>u DEF PasswordReset
<1>25. ASSUME Tick PROVE G
    BY <1>25, <1>t, <1>p, <1>0, <1>c DEF Tick, Absent
<1>26. CASE UNCHANGED vars
    BY <1>26, <1>u DEF vars
<1>27. ASSUME NEW r \in Requests, UpdateHit(r) PROVE G
    BY <1>27, <1>u DEF UpdateHit
<1>28. ASSUME NEW r \in Requests, Stamp(r) PROVE G
    BY <1>28, <1>u DEF Stamp
<1>29. ASSUME NEW r \in Requests, UpdateRow(r) PROVE G
    BY <1>29, <1>u DEF UpdateRow
<1>30. ASSUME NEW r \in Requests, ReadClock(r) PROVE G
    BY <1>30, <1>u DEF ReadClock
<1> QED
    BY <1>1, <1>2, <1>3, <1>4, <1>5, <1>6, <1>7, <1>8, <1>9, <1>10, <1>11, <1>12,
       <1>13, <1>14, <1>15, <1>16, <1>17, <1>18, <1>19, <1>20, <1>21, <1>22, <1>23,
       <1>24, <1>25, <1>26, <1>27, <1>28, <1>29, <1>30 DEF Next, ResolveStep, HandlerStep

\* No request holds as persisted, or has read of the row, what it has not held.
LEMMA CopiesStep == TypeOK /\ Fresh /\ Persisted /\ Activity /\ [Next]_vars =>
    \A q \in Requests : CopiesOf(q)'
<1> SUFFICES ASSUME TypeOK, Fresh, Persisted, Activity, [Next]_vars PROVE \A q \in Requests : CopiesOf(q)'
    OBVIOUS
<1>t. /\ now \in Times /\ RowType /\ cache \in [Tokens -> Entries] /\ req \in [Requests -> Slots]
      /\ cookies \subseteq Tokens /\ used \in Times
    BY DEF TypeOK, RowType, Entries, Slots
<1>n. /\ now \in Nat /\ row.last \in Nat /\ row.last <= now
      /\ \A r \in Requests : req[r].last \in Nat /\ req[r].persisted \in Nat
      /\ \A t \in Tokens : cache[t].persisted \in Nat
    BY <1>t DEF RowType, Slots, Entries, Times, Persisted
<1>w. now' \in Nat /\ row'.last \in Nat /\ row'.last <= now'
  <2>1. TypeOK'
    BY TypeStep
  <2> QED
    BY <2>1, RowMoves DEF TypeOK, Times, RowMovesOn
<1> DEFINE S(a) == a <= now' /\ a <= row'.last + MaxLatency
           G == \A q \in Requests : CopiesOf(q)'
<1>0. S(0) /\ S(row'.last)
    BY <1>w
<1>p. /\ \A t \in Tokens : S(cache[t].persisted)
      /\ \A r \in Requests : /\ S(req[r].persisted)
                             /\ req[r].pc = "persistRow" => S(req[r].last)
    BY <1>n, HeldKept DEF Persisted, CopiesOf
<1>d. ASSUME NEW r \in Requests, S(req'[r].persisted), req'[r].pc = "persistRow" => S(req'[r].last)
      PROVE  CopiesOf(r)'
    BY <1>d DEF CopiesOf, Held
<1>o. \A q \in Requests : req'[q] = req[q] => CopiesOf(q)'
    BY <1>p, <1>d
<1>one. ASSUME NEW r \in Requests, Others(r), CopiesOf(r)' PROVE G
    BY <1>o, <1>one DEF Others
<1>1. ASSUME NEW r \in Requests, NEW t \in Tokens, Begin(r, t) PROVE G
  <2>1. Others(r) /\ req'[r].pc = "lookup" /\ req'[r].persisted = 0
    BY <1>1, <1>t DEF Begin, Others, Quiet
  <2> QED
    BY <2>1, <1>0, <1>d, <1>one
<1>2. ASSUME NEW r \in Requests, Lookup(r) PROVE G
  <2>1. ASSUME Call(r, "expireCached", req[r].token, NoOrg, 0) PROVE G
    <3>1. Others(r) /\ req'[r].pc = "expireCached" /\ req'[r].persisted = 0
        BY <2>1, <1>t, CallMoves
    <3> QED
        BY <3>1, <1>0, <1>d, <1>one
  <2>2. ASSUME Reads(r, "confirm", cache[req[r].token].org, cache[req[r].token].last,
                     cache[req[r].token].persisted)
        PROVE  G
    <3>1. Others(r) /\ req'[r].pc = "confirm" /\ req'[r].persisted = cache[req[r].token].persisted
        BY <2>2, <1>t, ReadsMoves
    <3>2. req[r].token \in Tokens
        BY <1>t DEF Slots
    <3> QED
        BY <3>1, <3>2, <1>p, <1>d, <1>one
  <2>3. ASSUME Goto(r, "row") PROVE G
    <3>1. Others(r) /\ req'[r].pc = "row" /\ req'[r].persisted = req[r].persisted
        BY <2>3, <1>t, GotoMoves
    <3> QED
        BY <3>1, <1>p, <1>d, <1>one
  <2> QED
    BY <1>2, <2>1, <2>2, <2>3 DEF Lookup
<1>3. ASSUME NEW r \in Requests, ExpireCached(r) PROVE G
  <2>1. Others(r) /\ CopiesOf(r)'
    BY <1>3, <1>t, <1>p, <1>0, <1>d, CallMoves DEF ExpireCached
  <2> QED
    BY <2>1, <1>one
<1>4. ASSUME NEW r \in Requests, EvictToken(r) PROVE G
  <2>1. Others(r) /\ CopiesOf(r)'
    BY <1>4, <1>t, <1>p, <1>0, <1>d, EndMoves DEF EvictToken
  <2> QED
    BY <2>1, <1>one
<1>5. ASSUME NEW r \in Requests, Confirm(r) PROVE G
  <2>1. ASSUME Goto(r, "persist") PROVE G
    <3>1. Others(r) /\ req'[r].pc = "persist" /\ req'[r].persisted = req[r].persisted
        BY <2>1, <1>t, GotoMoves
    <3> QED
        BY <3>1, <1>p, <1>d, <1>one
  <2>2. ASSUME Call(r, "evict", req[r].token, NoOrg, 0) PROVE G
    <3>1. Others(r) /\ req'[r].pc = "evict" /\ req'[r].persisted = 0
        BY <2>2, <1>t, CallMoves
    <3> QED
        BY <3>1, <1>0, <1>d, <1>one
  <2> QED
    BY <1>5, <2>1, <2>2 DEF Confirm
<1>6. ASSUME NEW r \in Requests, PersistHit(r) PROVE G
  <2>1. Others(r) /\ CopiesOf(r)'
    BY <1>6, <1>t, <1>p, <1>0, <1>d, ReadsMoves DEF PersistHit
  <2> QED
    BY <2>1, <1>one
<1>7. ASSUME NEW r \in Requests, TouchEntry(r) PROVE G
  <2>1. Others(r) /\ CopiesOf(r)'
    BY <1>7, <1>t, <1>p, <1>0, <1>d, ReadsMoves DEF TouchEntry, Forget
  <2> QED
    BY <2>1, <1>one
<1>8. ASSUME NEW r \in Requests, ReadRow(r) PROVE G
  <2>1. ASSUME End(r) PROVE G
    <3>1. Others(r) /\ req'[r].pc = "idle" /\ req'[r].persisted = 0
        BY <2>1, <1>t, EndMoves
    <3> QED
        BY <3>1, <1>0, <1>d, <1>one
  <2>2. ASSUME Call(r, "expireRow", req[r].token, NoOrg, 0) PROVE G
    <3>1. Others(r) /\ req'[r].pc = "expireRow" /\ req'[r].persisted = 0
        BY <2>2, <1>t, CallMoves
    <3> QED
        BY <3>1, <1>0, <1>d, <1>one
  <2>3. ASSUME Reads(r, "persistRow", row.org, row.last, row.last) PROVE G
    <3>1. Others(r) /\ req'[r].last = row.last /\ req'[r].persisted = row.last /\ row' = row
        BY <1>8, <2>3, <1>t, ReadsMoves DEF ReadRow
    <3> QED
        BY <3>1, <1>0, <1>d, <1>one
  <2> QED
    BY <1>8, <2>1, <2>2, <2>3 DEF ReadRow
<1>9. ASSUME NEW r \in Requests, ExpireRow(r) PROVE G
  <2>1. Others(r) /\ CopiesOf(r)'
    BY <1>9, <1>t, <1>p, <1>0, <1>d, EndMoves DEF ExpireRow
  <2> QED
    BY <2>1, <1>one
<1>10. ASSUME NEW r \in Requests, PersistMiss(r) PROVE G
  <2>1. Others(r) /\ CopiesOf(r)'
    BY <1>10, <1>t, <1>p, <1>0, <1>d, ReadsMoves DEF PersistMiss
  <2> QED
    BY <2>1, <1>one
<1>11. ASSUME NEW r \in Requests, FillEntry(r) PROVE G
  <2>1. Others(r) /\ CopiesOf(r)'
    BY <1>11, <1>t, <1>p, <1>0, <1>d, ReadsMoves DEF FillEntry, Forget
  <2> QED
    BY <2>1, <1>one
<1>12. ASSUME NEW r \in Requests, Answer(r) PROVE G
  <2>1. Others(r) /\ CopiesOf(r)'
    BY <1>12, <1>t, <1>p, <1>0, <1>d, EndMoves DEF Answer
  <2> QED
    BY <2>1, <1>one
<1>13. ASSUME NEW r \in Requests, NEW o \in Orgs, SwitchOrganization(r, o) PROVE G
  <2>1. Others(r) /\ CopiesOf(r)'
    BY <1>13, <1>t, <1>0, <1>d, CallMoves DEF SwitchOrganization, RowType
  <2> QED
    BY <2>1, <1>one
<1>14. ASSUME NEW r \in Requests, CacheSwitch(r) PROVE G
  <2>1. Others(r) /\ CopiesOf(r)'
    BY <1>14, <1>t, <1>p, <1>0, <1>d, EndMoves DEF CacheSwitch
  <2> QED
    BY <2>1, <1>one
<1>15. ASSUME NEW r \in Requests, Rotate(r) PROVE G
  <2>1. Others(r) /\ CopiesOf(r)'
    BY <1>15, <1>t, <1>0, <1>d, CallMoves DEF Rotate, RowType
  <2> QED
    BY <2>1, <1>one
<1>16. ASSUME NEW r \in Requests, EvictOld(r) PROVE G
  <2>1. Others(r) /\ CopiesOf(r)'
    BY <1>16, <1>t, <1>p, <1>0, <1>d, GotoMoves DEF EvictOld
  <2> QED
    BY <2>1, <1>one
<1>17. ASSUME NEW r \in Requests, CacheNew(r) PROVE G
  <2>1. Others(r) /\ CopiesOf(r)'
    BY <1>17, <1>t, <1>p, <1>0, <1>d, EndMoves DEF CacheNew
  <2> QED
    BY <2>1, <1>one
<1>18. ASSUME NEW r \in Requests, Logout(r) PROVE G
  <2>1. Others(r) /\ CopiesOf(r)'
    BY <1>18, <1>t, <1>p, <1>0, <1>d, CallMoves DEF Logout
  <2> QED
    BY <2>1, <1>one
<1>19. ASSUME NEW r \in Requests, RevokeElsewhere(r) PROVE G
  <2>1. Others(r) /\ CopiesOf(r)'
    BY <1>19, <1>t, <1>p, <1>0, <1>d, CallMoves DEF RevokeElsewhere
  <2> QED
    BY <2>1, <1>one
<1>20. ASSUME NEW r \in Requests, EndRow(r) PROVE G
  <2>1. Others(r) /\ CopiesOf(r)'
    BY <1>20, <1>t, <1>p, <1>0, <1>d, GotoMoves DEF EndRow
  <2> QED
    BY <2>1, <1>one
<1>21. ASSUME NEW r \in Requests, EvictAll(r) PROVE G
  <2>1. Others(r) /\ CopiesOf(r)'
    BY <1>21, <1>t, <1>p, <1>0, <1>d, EndMoves DEF EvictAll
  <2> QED
    BY <2>1, <1>one
<1>22. ASSUME NEW r \in Requests, RequestFails(r) PROVE G
  <2>1. Others(r) /\ CopiesOf(r)'
    BY <1>22, <1>t, <1>p, <1>0, <1>d, EndMoves DEF RequestFails
  <2> QED
    BY <2>1, <1>one
<1>23. ASSUME NEW t \in Tokens, CacheLost(t) PROVE G
    BY <1>23, <1>o DEF CacheLost
<1>24. ASSUME PasswordReset PROVE G
    BY <1>24, <1>o DEF PasswordReset
<1>25. ASSUME Tick PROVE G
  <2>1. \A q \in Requests :
           req'[q].persisted = req[q].persisted /\ req'[q].last = req[q].last /\ req'[q].pc = req[q].pc
    BY <1>25, <1>t DEF Tick, Slots
  <2> QED
    BY <2>1, <1>p, <1>d
<1>26. CASE UNCHANGED vars
    BY <1>26, <1>o DEF vars
<1>27. ASSUME NEW r \in Requests, UpdateHit(r) PROVE G
  <2>1. Others(r) /\ CopiesOf(r)'
    BY <1>27, <1>t, <1>p, <1>0, <1>d, ReadsMoves DEF UpdateHit, Persists, RowType
  <2> QED
    BY <2>1, <1>one
<1>28. ASSUME NEW r \in Requests, Stamp(r) PROVE G
  <2>1. Others(r) /\ CopiesOf(r)'
    BY <1>28, <1>t, <1>p, <1>0, <1>d, ReadsMoves DEF Stamp
  <2> QED
    BY <2>1, <1>one
<1>29. ASSUME NEW r \in Requests, UpdateRow(r) PROVE G
  <2>1. Others(r) /\ CopiesOf(r)'
    BY <1>29, <1>t, <1>p, <1>0, <1>d, ReadsMoves DEF UpdateRow, Persists, RowType
  <2> QED
    BY <2>1, <1>one
<1>30. ASSUME NEW r \in Requests, ReadClock(r) PROVE G
  <2>1. Others(r) /\ CopiesOf(r)'
    BY <1>30, <1>t, <1>p, <1>0, <1>d, ReadsMoves DEF ReadClock
  <2> QED
    BY <2>1, <1>one
<1> QED
    BY <1>1, <1>2, <1>3, <1>4, <1>5, <1>6, <1>7, <1>8, <1>9, <1>10, <1>11, <1>12,
       <1>13, <1>14, <1>15, <1>16, <1>17, <1>18, <1>19, <1>20, <1>21, <1>22, <1>23,
       <1>24, <1>25, <1>26, <1>27, <1>28, <1>29, <1>30 DEF Next, ResolveStep, HandlerStep

\* A use either finds the row recent, or has just made it so, or was overtaken by an update
\* since its clock was read.
LEMMA LagStep == TypeOK /\ Fresh /\ Persisted /\ Activity /\ [Next]_vars => Lag'
<1> SUFFICES ASSUME TypeOK, Fresh, Persisted, Activity, [Next]_vars, MaxLatency < Persist
             PROVE  LagIsBounded' /\ \A q \in Requests : AnsweredFor(q)'
    BY DEF Lag
<1> DEFINE G == LagIsBounded' /\ \A q \in Requests : AnsweredFor(q)'
<1>t. /\ now \in Times /\ RowType /\ cache \in [Tokens -> Entries] /\ req \in [Requests -> Slots]
      /\ cookies \subseteq Tokens /\ used \in Times
    BY DEF TypeOK, RowType, Entries, Slots
<1>n. /\ now \in Nat /\ row.last \in Nat /\ used \in Nat /\ used <= now
      /\ \A r \in Requests : /\ req[r].last \in Nat /\ req[r].persisted \in Nat
                             /\ req[r].last <= now
      /\ Active => used < row.last + Persist + MaxLatency
      /\ \A r \in Requests : AnsweredFor(r)
    BY <1>t DEF RowType, Slots, Times, Persisted, Lag, LagIsBounded, Activity, UsesLead
<1>w. row'.last \in Nat
  <2>1. TypeOK'
    BY TypeStep
  <2> QED
    BY <2>1 DEF TypeOK, Times
<1>a. Active' => Active
  <2>1. row'.status = "active" => row.status = "active"
    BY Forward
  <2> QED
    BY <2>1 DEF Active
<1>m. row.last <= row'.last \/ now <= row'.last + MaxLatency
    BY RowMoves DEF RowMovesOn
<1>u. ASSUME used' = used PROVE LagIsBounded'
    BY <1>u, <1>a, <1>m, <1>n, <1>w DEF LagIsBounded
<1>o. ASSUME NEW q \in Requests, req'[q].pc = req[q].pc, req'[q].last = req[q].last
      PROVE  AnsweredFor(q)'
  <2>1. req[q].last < row.last + Persist => req[q].last < row'.last + Persist
    BY <1>m, <1>n, <1>w
  <2> QED
    BY <1>o, <1>a, <1>n, <2>1 DEF AnsweredFor
<1>one. ASSUME NEW r \in Requests, Others(r), LagIsBounded', req'[r].pc = "stamp" => AnsweredFor(r)'
        PROVE  G
    BY <1>one, <1>o DEF Others, AnsweredFor
<1>k. ASSUME NEW r \in Requests, Others(r), used' = used, req'[r].pc # "stamp" PROVE G
    BY <1>k, <1>one, <1>u
<1>use. ASSUME NEW a \in Nat, Use(a) PROVE used' = IF used <= a THEN a ELSE used
    BY <1>use, Zenon DEF Use, Latest
<1>now. Use(now) => used' = now
    BY <1>use, <1>n
<1>writ. ASSUME NEW r \in Requests, Others(r), req[r].pc \in Reading, UNCHANGED now,
                row'.last = req[r].last, Use(req[r].last),
                req'[r].pc = "stamp" => req'[r].last = req[r].last
         PROVE  G
  <2>1. now <= row'.last + MaxLatency
    BY <1>writ, Clock
  <2>2. used' <= now /\ used' \in Nat
    BY <1>writ, <1>use, <1>n
  <2>3. LagIsBounded'
    BY <2>1, <2>2, <1>n, <1>w DEF LagIsBounded
  <2>4. req'[r].pc = "stamp" => AnsweredFor(r)'
    BY <1>writ, <1>n DEF AnsweredFor
  <2> QED
    BY <2>3, <2>4, <1>writ, <1>one
<1>1. ASSUME NEW r \in Requests, NEW t \in Tokens, Begin(r, t) PROVE G
  <2>1. Others(r) /\ req'[r].pc = "lookup" /\ used' = used
    BY <1>1, <1>t DEF Begin, Others, Quiet, history
  <2> QED
    BY <2>1, <1>k
<1>2. ASSUME NEW r \in Requests, Lookup(r) PROVE G
  <2>1. Others(r) /\ req'[r].pc \in {"expireCached", "confirm", "row"}
    BY <1>2, <1>t, CallMoves, ReadsMoves, GotoMoves DEF Lookup
  <2> QED
    BY <1>2, <2>1, <1>k DEF Lookup, history
<1>3. ASSUME NEW r \in Requests, ExpireCached(r) PROVE G
    BY <1>3, <1>t, <1>k, CallMoves DEF ExpireCached, history
<1>4. ASSUME NEW r \in Requests, EvictToken(r) PROVE G
    BY <1>4, <1>t, <1>k, EndMoves DEF EvictToken, history
<1>5. ASSUME NEW r \in Requests, Confirm(r) PROVE G
  <2>1. Others(r) /\ req'[r].pc \in {"persist", "evict"}
    BY <1>5, <1>t, CallMoves, GotoMoves DEF Confirm
  <2> QED
    BY <1>5, <2>1, <1>k DEF Confirm, history
<1>6. ASSUME NEW r \in Requests, PersistHit(r) PROVE G
  <2>1. CASE Reads(r, "updateHit", req[r].org, now, req[r].persisted) /\ UNCHANGED history
    BY <2>1, <1>t, <1>k, ReadsMoves DEF history
  <2>2. CASE /\ ~Due(req[r].persisted, now) /\ Use(now)
             /\ Reads(r, "touch", req[r].org, now, req[r].persisted)
    <3>1. Others(r) /\ req'[r].pc = "touch" /\ used' = now /\ row' = row
      BY <1>6, <2>2, <1>t, <1>now, ReadsMoves DEF PersistHit
    <3>2. req[r].persisted <= row.last + MaxLatency
      BY <1>6 DEF PersistHit, At, Persisted, CopiesOf, Held
    <3>3. now < row.last + Persist + MaxLatency
      BY <2>2, <3>2, <1>n DEF Due
    <3> QED
      BY <3>1, <3>3, <1>one DEF LagIsBounded
  <2> QED
    BY <1>6, <2>1, <2>2 DEF PersistHit
<1>7. ASSUME NEW r \in Requests, TouchEntry(r) PROVE G
  <2>1. Others(r) /\ req'[r].pc \in {"handle", "row"}
    BY <1>7, <1>t, ReadsMoves DEF TouchEntry, Forget
  <2> QED
    BY <1>7, <2>1, <1>k DEF TouchEntry, history
<1>8. ASSUME NEW r \in Requests, ReadRow(r) PROVE G
  <2>1. Others(r) /\ req'[r].pc \in {"idle", "expireRow", "persistRow"}
    BY <1>8, <1>t, CallMoves, ReadsMoves, EndMoves DEF ReadRow
  <2> QED
    BY <1>8, <2>1, <1>k DEF ReadRow, history
<1>9. ASSUME NEW r \in Requests, ExpireRow(r) PROVE G
    BY <1>9, <1>t, <1>k, EndMoves DEF ExpireRow, history
<1>10. ASSUME NEW r \in Requests, PersistMiss(r) PROVE G
  <2>1. CASE Reads(r, "updateRow", req[r].org, now, req[r].persisted) /\ UNCHANGED history
    BY <2>1, <1>t, <1>k, ReadsMoves DEF history
  <2>2. CASE /\ ~Due(req[r].last, now) /\ Use(now)
             /\ Reads(r, "fill", req[r].org, now, req[r].persisted)
    <3>1. Others(r) /\ req'[r].pc = "fill" /\ used' = now /\ row' = row
      BY <1>10, <2>2, <1>t, <1>now, ReadsMoves DEF PersistMiss
    <3>2. req[r].last <= row.last + MaxLatency
      BY <1>10 DEF PersistMiss, At, Persisted, CopiesOf, Held
    <3>3. now < row.last + Persist + MaxLatency
      BY <2>2, <3>2, <1>n DEF Due
    <3> QED
      BY <3>1, <3>3, <1>one DEF LagIsBounded
  <2> QED
    BY <1>10, <2>1, <2>2 DEF PersistMiss
<1>11. ASSUME NEW r \in Requests, FillEntry(r) PROVE G
    BY <1>11, <1>t, <1>k, ReadsMoves DEF FillEntry, Forget, history
<1>12. ASSUME NEW r \in Requests, Answer(r) PROVE G
    BY <1>12, <1>t, <1>k, EndMoves DEF Answer, history
<1>13. ASSUME NEW r \in Requests, NEW o \in Orgs, SwitchOrganization(r, o) PROVE G
  <2>1. row'.last = req[r].last /\ Use(req[r].last) /\ UNCHANGED now /\ req[r].pc = "change"
    BY <1>13, <1>t DEF SwitchOrganization, RowType, At
  <2>2. Others(r) /\ req'[r].pc # "stamp"
    BY <1>13, <1>t, CallMoves DEF SwitchOrganization
  <2> QED
    BY <2>1, <2>2, <1>writ DEF Reading
<1>14. ASSUME NEW r \in Requests, CacheSwitch(r) PROVE G
    BY <1>14, <1>t, <1>k, EndMoves DEF CacheSwitch, history
<1>15. ASSUME NEW r \in Requests, Rotate(r) PROVE G
  <2>1. row'.last = req[r].last /\ Use(req[r].last) /\ UNCHANGED now /\ req[r].pc = "change"
    BY <1>15, <1>t DEF Rotate, RowType, At
  <2>2. Others(r) /\ req'[r].pc # "stamp"
    BY <1>15, <1>t, CallMoves DEF Rotate
  <2> QED
    BY <2>1, <2>2, <1>writ DEF Reading
<1>16. ASSUME NEW r \in Requests, EvictOld(r) PROVE G
    BY <1>16, <1>t, <1>k, GotoMoves DEF EvictOld, history
<1>17. ASSUME NEW r \in Requests, CacheNew(r) PROVE G
    BY <1>17, <1>t, <1>k, EndMoves DEF CacheNew, history
<1>18. ASSUME NEW r \in Requests, Logout(r) PROVE G
    BY <1>18, <1>t, <1>k, CallMoves DEF Logout, history
<1>19. ASSUME NEW r \in Requests, RevokeElsewhere(r) PROVE G
    BY <1>19, <1>t, <1>k, CallMoves DEF RevokeElsewhere, history
<1>20. ASSUME NEW r \in Requests, EndRow(r) PROVE G
    BY <1>20, <1>t, <1>k, GotoMoves DEF EndRow, history
<1>21. ASSUME NEW r \in Requests, EvictAll(r) PROVE G
    BY <1>21, <1>t, <1>k, EndMoves DEF EvictAll, history
<1>22. ASSUME NEW r \in Requests, RequestFails(r) PROVE G
    BY <1>22, <1>t, <1>k, EndMoves DEF RequestFails, history
<1>23. ASSUME NEW t \in Tokens, CacheLost(t) PROVE G
    BY <1>23, <1>u, <1>o DEF CacheLost, history
<1>24. ASSUME PasswordReset PROVE G
    BY <1>24, <1>u, <1>o DEF PasswordReset, history
<1>25. ASSUME Tick PROVE G
  <2>1. \A q \in Requests : req'[q].pc = req[q].pc /\ req'[q].last = req[q].last
    BY <1>25, <1>t DEF Tick, Slots
  <2> QED
    BY <1>25, <2>1, <1>u, <1>o DEF Tick
<1>26. CASE UNCHANGED vars
    BY <1>26, <1>u, <1>o DEF vars, history
<1>27. ASSUME NEW r \in Requests, UpdateHit(r) PROVE G
  <2>1. Others(r) /\ req'[r].pc = "stamp" /\ req'[r].last = req[r].last
    BY <1>27, <1>t, ReadsMoves DEF UpdateHit
  <2>2. CASE Wins(req[r].last)
    <3>1. row'.last = req[r].last
      BY <1>27, <2>2, <1>t DEF UpdateHit, Persists, RowType
    <3>2. Use(req[r].last) /\ UNCHANGED now /\ req[r].pc \in Reading
      BY <1>27, <2>2 DEF UpdateHit, At, Reading
    <3> QED
      BY <2>1, <3>1, <3>2, <1>writ
  <2>3. CASE ~Wins(req[r].last)
    <3>1. row' = row
      BY <1>27, <2>3, Zenon DEF UpdateHit, Persists
    <3>2. used' = used
      BY <1>27, <2>3, Zenon DEF UpdateHit, history
    <3>3. Active => req[r].last < row.last + Persist
      BY <2>3, <1>n DEF Wins, Due
    <3> QED
      BY <2>1, <3>1, <3>2, <3>3, <1>one, <1>u DEF AnsweredFor, Active
  <2> QED
    BY <2>2, <2>3
<1>28. ASSUME NEW r \in Requests, Stamp(r) PROVE G
  <2>1. Others(r) /\ req'[r].pc = "touch" /\ used' = now /\ row' = row /\ req[r].pc = "stamp"
    BY <1>28, <1>t, <1>now, ReadsMoves DEF Stamp, At
  <2>2. now <= req[r].last + MaxLatency /\ (Active => req[r].last < row.last + Persist)
    BY <2>1, <1>n, Clock DEF AnsweredFor, Reading
  <2> QED
    BY <2>1, <2>2, <1>n, <1>one DEF LagIsBounded, Active
<1>29. ASSUME NEW r \in Requests, UpdateRow(r) PROVE G
  <2>1. /\ Others(r) /\ req'[r].pc = "fill" /\ Use(req[r].last) /\ UNCHANGED now
        /\ req[r].pc \in Reading
    BY <1>29, <1>t, ReadsMoves DEF UpdateRow, At, Reading
  <2>2. CASE Wins(req[r].last)
    <3>1. row'.last = req[r].last
      BY <1>29, <2>2, <1>t DEF UpdateRow, Persists, RowType
    <3> QED
      BY <2>1, <3>1, <1>writ
  <2>3. CASE ~Wins(req[r].last)
    <3>1. row' = row
      BY <1>29, <2>3, Zenon DEF UpdateRow, Persists
    <3>2. Active => req[r].last < row.last + Persist
      BY <2>3, <1>n DEF Wins, Due
    <3>3. used' \in {used, req[r].last}
      BY <2>1, <1>use, <1>n
    <3> QED
      BY <2>1, <3>1, <3>2, <3>3, <1>n, <1>one DEF LagIsBounded, Active
  <2> QED
    BY <2>2, <2>3
<1>30. ASSUME NEW r \in Requests, ReadClock(r) PROVE G
    BY <1>30, <1>t, <1>k, ReadsMoves DEF ReadClock, history
<1> QED
    BY <1>1, <1>2, <1>3, <1>4, <1>5, <1>6, <1>7, <1>8, <1>9, <1>10, <1>11, <1>12,
       <1>13, <1>14, <1>15, <1>16, <1>17, <1>18, <1>19, <1>20, <1>21, <1>22, <1>23,
       <1>24, <1>25, <1>26, <1>27, <1>28, <1>29, <1>30 DEF Next, ResolveStep, HandlerStep

LEMMA PersistedStep == TypeOK /\ Fresh /\ Persisted /\ Activity /\ [Next]_vars => Persisted'
BY RowMoves, EntriesStep, CopiesStep, LagStep DEF Persisted, RowMovesOn

-----------------------------------------------------------------------------
(***************************************************************************)
(* Idleness.  Everything that is kept of an activity is a past use, so     *)
(* whoever finds the session idle by what it has read finds it idle.       *)
(***************************************************************************)

\* The entry of a request that has used the session.
LEMMA WrittenEntry ==
    ASSUME TypeOK, Activity, NEW r \in Requests, req[r].pc \in Writers, NEW o, NEW b
    PROVE  /\ Entry(o, req[r].last, b).last <= used
           /\ MaxLatency < Idle =>
                Entry(o, req[r].last, b).until <= Entry(o, req[r].last, b).last + Idle
<1>1. req[r].last \in Nat /\ req[r].age \in 0 .. MaxLatency /\ now \in Nat
    BY DEF TypeOK, Times
<1>2. req[r].last <= used /\ now <= req[r].last + req[r].age
    BY DEF Activity, UsesLead, WritersRecent, Writers, Reading
<1>3. MaxLatency < Idle => now + Ttl(req[r].last) <= req[r].last + Idle
    BY <1>1, <1>2 DEF Ttl, Least
<1> QED
    BY <1>2, <1>3 DEF Entry

\* A step of one request that uses nothing.
LEMMA QuietMove ==
    ASSUME TypeOK, Activity, NEW r \in Requests, Others(r),
           UNCHANGED <<now, history>>, row'.last = row.last,
           \A t \in Tokens : /\ cache'[t].last <= used
                             /\ MaxLatency < Idle => cache'[t].until <= cache'[t].last + Idle,
           req'[r].last <= now, req'[r].pc \notin Reading => req'[r].last <= used,
           req'[r].pc \in Writers \union Reading => now <= req'[r].last + req'[r].age,
           MaxLatency < Persist /\ req'[r].pc \in {"expireRow", "expireCached"} => MayClose,
           req'[r].dormant => req[r].dormant,
           Sleeping => req'[r].pc \in Resting
    PROVE  Activity'
<1>1. UsesLead'
    BY DEF Activity, UsesLead, Others, history
<1>2. WritersRecent'
    BY DEF Activity, WritersRecent, Others
<1>3. EntriesEnd'
    BY DEF EntriesEnd
<1>4. ExpiryDue'
    BY DEF Activity, ExpiryDue, MayClose, Others, history
<1>5. Sleeping' => Sleeping
    BY DEF Sleeping, Others
<1>6. SleepsOn'
    BY <1>5 DEF Activity, SleepsOn, Others, history
<1> QED
    BY <1>1, <1>2, <1>3, <1>4, <1>6 DEF Activity

\* The entries as they are, or with some removed, are what they should be.
LEMMA CacheKept ==
    ASSUME TypeOK, Activity, NEW t \in Tokens, cache'[t] \in {cache[t], Absent}
    PROVE  /\ cache'[t].last <= used
           /\ MaxLatency < Idle => cache'[t].until <= cache'[t].last + Idle
<1>1. used \in Nat
    BY DEF TypeOK, Times
<1> QED
    BY <1>1 DEF Activity, UsesLead, EntriesEnd, Absent

LEMMA EvictedKept ==
    ASSUME TypeOK, Activity, UNCHANGED cache \/ \E ts : Evict(ts)
    PROVE  \A t \in Tokens : /\ cache'[t].last <= used
                             /\ MaxLatency < Idle => cache'[t].until <= cache'[t].last + Idle
<1>1. \A t \in Tokens : cache'[t] \in {cache[t], Absent}
    BY DEF Evict
<1> QED
    BY <1>1, CacheKept

LEMMA StoredKept ==
    ASSUME TypeOK, Activity, NEW r \in Requests, req[r].pc \in Writers, NEW o, NEW b, NEW k,
           Store(k, Entry(o, req[r].last, b))
    PROVE  \A t \in Tokens : /\ cache'[t].last <= used
                             /\ MaxLatency < Idle => cache'[t].until <= cache'[t].last + Idle
<1>1. \A t \in Tokens : cache'[t] \in {cache[t], Entry(o, req[r].last, b)}
    BY DEF Store, TypeOK
<1> QED
    BY <1>1, CacheKept, WrittenEntry

\* A use: nobody was asleep, and what was due to close the session is due.
LEMMA UseMove ==
    ASSUME TypeOK, Activity, NEW r \in Requests, Others(r), UNCHANGED <<now, cache>>,
           NEW at \in Nat, Use(at), at <= now, now <= at + req[r].age,
           row'.last \in {row.last, at}, req[r].pc \notin Resting, req'[r].last = at,
           req'[r].pc \in Writers \union {"stamp"}, req'[r].age = req[r].age,
           req'[r].dormant => req[r].dormant
    PROVE  Activity'
<1>t. /\ now \in Nat /\ used \in Nat /\ row.last \in Nat /\ req[r].age \in Nat
      /\ \A t \in Tokens : cache[t].last \in Nat
      /\ \A q \in Requests : req[q].last \in Nat
    BY DEF TypeOK, Times
<1>0. used' = Latest(used, at) /\ lapsed' = (lapsed \/ used + Idle <= now + MaxLatency)
    BY DEF Use
<1>u. used <= used' /\ at <= used' /\ used' <= now /\ used' \in Nat
    BY <1>t, <1>0 DEF Latest, Activity, UsesLead
<1>1. UsesLead'
  <2>1. used' <= now' /\ row'.last <= used' /\ \A t \in Tokens : cache'[t].last <= used'
    BY <1>t, <1>u DEF Activity, UsesLead
  <2>2. \A q \in Requests : req'[q].last <= now' /\ (req'[q].pc \notin Reading => req'[q].last <= used')
    BY <1>t, <1>u DEF Activity, UsesLead, Others
  <2> QED
    BY <2>1, <2>2 DEF UsesLead
<1>2. WritersRecent'
    BY <1>t DEF Activity, WritersRecent, Others
<1>3. EntriesEnd'
    BY DEF Activity, EntriesEnd
<1>4. MayClose => MayClose'
    BY <1>0 DEF MayClose
<1>5. ExpiryDue'
    BY <1>4 DEF Activity, ExpiryDue, Others, Writers
<1>6. ~Sleeping
    BY DEF Activity, SleepsOn
<1>7. ~Sleeping'
    BY <1>6 DEF Sleeping, Others
<1> QED
    BY <1>1, <1>2, <1>3, <1>5, <1>7 DEF Activity, SleepsOn

\* A hit of a request, when somebody found the session asleep, is too old.
LEMMA SleepingHit ==
    ASSUME TypeOK, Activity, Sleeping, NEW t \in Tokens
    PROVE  IsExpired(cache[t].last, 0) /\ IsExpired(row.last, Grace)
<1>1. /\ now \in Nat /\ used \in Nat /\ row.last \in Nat /\ cache[t].last \in Nat
    BY DEF TypeOK, Times
<1>2. used + Idle + Persist <= now /\ cache[t].last <= used /\ row.last <= used
    BY DEF Activity, SleepsOn, UsesLead
<1> QED
    BY <1>1, <1>2 DEF IsExpired, Grace

LEMMA ActivityInit == Init => Activity
<1> SUFFICES ASSUME Init PROVE Activity
    OBVIOUS
<1>1. /\ now = 0 /\ used = 0 /\ row.last = 0
      /\ \A r \in Requests : req[r] = Quiet
      /\ \A t \in Tokens : cache[t].last = 0
    BY DEF Init, Absent
<1>2. /\ \A r \in Requests : req[r].pc = "idle" /\ req[r].last = 0 /\ ~req[r].dormant
    BY <1>1 DEF Quiet
<1>3. \A t \in Tokens : cache[t].until <= Idle
  <2>1. PICK ttl \in {0, Least(CacheTtl, Least(Idle, Lifetime))} :
           cache = [t \in Tokens |-> IF t = 0 THEN [Absent EXCEPT !.until = ttl] ELSE Absent]
    BY DEF Init
  <2>2. ttl <= Idle
    BY DEF Least
  <2> QED
    BY <2>1, <2>2 DEF Absent
<1> QED
    BY <1>1, <1>2, <1>3 DEF Activity, UsesLead, WritersRecent, EntriesEnd, ExpiryDue, SleepsOn,
       Sleeping, Writers, Reading

\* Every step keeps what is said of activity.
LEMMA ActivityStep == TypeOK /\ Fresh /\ Persisted /\ Activity /\ [Next]_vars => Activity'
<1> SUFFICES ASSUME TypeOK, Fresh, Persisted, Activity, [Next]_vars PROVE Activity'
    OBVIOUS
<1>t. /\ now \in Nat /\ used \in Nat /\ row.last \in Nat /\ row.token \in Tokens
      /\ cache \in [Tokens -> Entries] /\ req \in [Requests -> Slots]
      /\ \A t \in Tokens : cache[t].last \in Nat
      /\ \A q \in Requests : req[q].last \in Nat /\ req[q].age \in Nat /\ req[q].token \in Tokens
    BY DEF TypeOK, Times, Entries, Slots
<1>l. /\ used <= now /\ row.last <= used
      /\ \A t \in Tokens : cache[t].last <= used
      /\ \A q \in Requests : req[q].last <= now /\ (req[q].pc \notin Reading => req[q].last <= used)
    BY DEF Activity, UsesLead
<1>s. Sleeping => \A q \in Requests : req[q].pc \in Resting
    BY DEF Activity, SleepsOn
<1>1. ASSUME NEW r \in Requests, NEW t \in Tokens, Begin(r, t) PROVE Activity'
  <2>1. /\ req'[r].pc = "lookup" /\ req'[r].last = 0 /\ Others(r)
        /\ req'[r].dormant => /\ used + Idle + Persist <= now
                              /\ \A q \in Requests : At(q, "idle")
    BY <1>1, <1>t DEF Begin, Quiet, Others
  <2>2. UNCHANGED <<now, row, cache, history>>
    BY <1>1 DEF Begin
  <2>3. UsesLead' /\ WritersRecent' /\ EntriesEnd' /\ ExpiryDue'
    BY <2>1, <2>2, <1>t, <1>l DEF Activity, UsesLead, WritersRecent, EntriesEnd, ExpiryDue,
       MayClose, Others, Writers, Reading, history
  <2>4. SleepsOn'
    <3>1. CASE Sleeping
      BY <3>1, <2>1, <2>2 DEF Activity, SleepsOn, Others, Resting, history
    <3>2. CASE ~Sleeping
      <4>1. Sleeping' => req'[r].dormant
        BY <3>2, <2>1 DEF Sleeping, Others
      <4> QED
        BY <4>1, <2>1, <2>2 DEF SleepsOn, Others, Resting, At, history
    <3> QED
      BY <3>1, <3>2
  <2> QED
    BY <2>3, <2>4 DEF Activity
<1>2. ASSUME NEW r \in Requests, Lookup(r) PROVE Activity'
  <2>0. /\ UNCHANGED <<now, row, cache, history>> /\ req[r].token \in Tokens
        /\ req[r].pc = "lookup"
    BY <1>2, <1>t DEF Lookup, At
  <2>c. \A t \in Tokens : /\ cache'[t].last <= used
                          /\ MaxLatency < Idle => cache'[t].until <= cache'[t].last + Idle
    BY <2>0, EvictedKept
  <2>1. CASE /\ Cached(req[r].token) /\ IsExpired(cache[req[r].token].last, 0)
             /\ Call(r, "expireCached", req[r].token, NoOrg, 0)
    <3>1. MaxLatency < Persist => MayClose
      <4>1. MaxLatency < Idle => cache[req[r].token].until <= cache[req[r].token].last + Idle
        BY <2>0 DEF Activity, EntriesEnd
      <4>2. cache[req[r].token].until \in Nat /\ cache[req[r].token].last \in Nat
        BY <2>0, <1>t DEF Entries
      <4> QED
        BY <4>1, <4>2, <2>1, <1>t DEF Cached, IsExpired, MayClose
    <3> QED
      BY <2>0, <2>1, <2>c, <3>1, <1>t, CallMoves, QuietMove DEF Writers, Reading, Resting
  <2>2. CASE /\ Cached(req[r].token) /\ ~IsExpired(cache[req[r].token].last, 0)
             /\ Reads(r, "confirm", cache[req[r].token].org, cache[req[r].token].last,
                      cache[req[r].token].persisted)
    <3>1. ~Sleeping
      BY <2>0, <2>2, SleepingHit
    <3>2. cache[req[r].token].last <= used
      BY <2>0, <1>l
    <3> QED
      BY <2>0, <2>2, <2>c, <3>1, <3>2, <1>t, <1>l, ReadsMoves, QuietMove DEF Writers, Reading
  <2>3. CASE Goto(r, "row")
    BY <2>0, <2>3, <2>c, <1>t, <1>l, GotoMoves, QuietMove DEF Writers, Reading, Resting
  <2> QED
    BY <1>2, <2>1, <2>2, <2>3 DEF Lookup
<1>3. ASSUME NEW r \in Requests, ExpireCached(r) PROVE Activity'
  <2>1. UNCHANGED <<now, cache, history>> /\ row'.last = row.last
    BY <1>3 DEF ExpireCached, TypeOK
  <2> QED
    BY <1>3, <2>1, <1>t, EvictedKept, CallMoves, QuietMove DEF ExpireCached, Writers, Reading, Resting
<1>4. ASSUME NEW r \in Requests, EvictToken(r) PROVE Activity'
    BY <1>4, <1>t, EvictedKept, EndMoves, QuietMove DEF EvictToken, Writers, Reading, Resting
<1>5. ASSUME NEW r \in Requests, Confirm(r) PROVE Activity'
  <2>1. UNCHANGED <<now, row, cache, history>> /\ req[r].pc = "confirm"
    BY <1>5 DEF Confirm, At
  <2>2. ~Sleeping
    BY <2>1, <1>s DEF Resting
  <2>3. CASE Goto(r, "persist")
    BY <2>1, <2>2, <2>3, <1>t, <1>l, EvictedKept, GotoMoves, QuietMove DEF Writers, Reading
  <2>4. CASE Call(r, "evict", req[r].token, NoOrg, 0)
    BY <2>1, <2>2, <2>4, <1>t, EvictedKept, CallMoves, QuietMove DEF Writers, Reading
  <2> QED
    BY <1>5, <2>3, <2>4 DEF Confirm
<1>6. ASSUME NEW r \in Requests, PersistHit(r) PROVE Activity'
  <2>1. UNCHANGED <<now, row, cache>> /\ req[r].pc = "persist"
    BY <1>6 DEF PersistHit, At
  <2>2. ~Sleeping
    BY <2>1, <1>s DEF Resting
  <2>3. CASE Reads(r, "updateHit", req[r].org, now, req[r].persisted) /\ UNCHANGED history
    BY <2>1, <2>2, <2>3, <1>t, <1>l, EvictedKept, ReadsMoves, QuietMove DEF Writers, Reading
  <2>4. CASE Reads(r, "touch", req[r].org, now, req[r].persisted) /\ Use(now)
    BY <2>1, <2>4, <1>t, ReadsMoves, UseMove DEF Writers, Resting
  <2> QED
    BY <1>6, <2>3, <2>4 DEF PersistHit
<1>7. ASSUME NEW r \in Requests, TouchEntry(r) PROVE Activity'
  <2>1. UNCHANGED <<now, row, history>> /\ req[r].pc = "touch"
    BY <1>7 DEF TouchEntry, At
  <2>2. ~Sleeping
    BY <2>1, <1>s DEF Resting
  <2>3. PICK s \in {"handle", "row"} : Reads(r, s, req[r].org, 0, 0)
    BY <1>7 DEF TouchEntry, Forget
  <2>4. UNCHANGED cache \/ Store(req[r].token, Entry(req[r].org, req[r].last, req[r].persisted))
    BY <1>7 DEF TouchEntry, Store
  <2>5. \A t \in Tokens : /\ cache'[t].last <= used
                          /\ MaxLatency < Idle => cache'[t].until <= cache'[t].last + Idle
    BY <2>1, <2>4, EvictedKept, StoredKept DEF Writers, Reading
  <2> QED
    BY <2>1, <2>2, <2>3, <2>5, <1>t, ReadsMoves, QuietMove DEF Writers, Reading
<1>8. ASSUME NEW r \in Requests, ReadRow(r) PROVE Activity'
  <2>0. UNCHANGED <<now, row, cache, history>>
    BY <1>8 DEF ReadRow
  <2>c. \A t \in Tokens : /\ cache'[t].last <= used
                          /\ MaxLatency < Idle => cache'[t].until <= cache'[t].last + Idle
    BY <2>0, EvictedKept
  <2>1. CASE End(r)
    BY <2>0, <2>c, <2>1, <1>t, EndMoves, QuietMove DEF Writers, Reading, Resting
  <2>2. CASE /\ Active /\ IsExpired(row.last, Grace)
             /\ Call(r, "expireRow", req[r].token, NoOrg, 0)
    <3>1. MaxLatency < Persist => MayClose
      <4>1. MaxLatency < Persist => used < row.last + Persist + MaxLatency
        BY <2>2 DEF Persisted, Lag, LagIsBounded
      <4> QED
        BY <4>1, <2>2, <1>t DEF IsExpired, Grace, MayClose
    <3> QED
      BY <2>0, <2>c, <2>2, <3>1, <1>t, CallMoves, QuietMove DEF Writers, Reading, Resting
  <2>3. CASE ~IsExpired(row.last, Grace) /\ Reads(r, "persistRow", row.org, row.last, row.last)
    <3>1. ~Sleeping
      BY <1>t, <2>3, SleepingHit
    <3> QED
      BY <2>0, <2>c, <2>3, <3>1, <1>t, <1>l, ReadsMoves, QuietMove DEF Writers, Reading
  <2> QED
    BY <1>8, <2>1, <2>2, <2>3 DEF ReadRow
<1>9. ASSUME NEW r \in Requests, ExpireRow(r) PROVE Activity'
  <2>1. UNCHANGED <<now, cache, history>> /\ row'.last = row.last /\ End(r)
    BY <1>9 DEF ExpireRow, TypeOK
  <2> QED
    BY <2>1, <1>t, EvictedKept, EndMoves, QuietMove DEF Writers, Reading, Resting
<1>10. ASSUME NEW r \in Requests, PersistMiss(r) PROVE Activity'
  <2>1. UNCHANGED <<now, row, cache>> /\ req[r].pc = "persistRow"
    BY <1>10 DEF PersistMiss, At
  <2>2. ~Sleeping
    BY <2>1, <1>s DEF Resting
  <2>3. CASE Reads(r, "updateRow", req[r].org, now, req[r].persisted) /\ UNCHANGED history
    BY <2>1, <2>2, <2>3, <1>t, <1>l, EvictedKept, ReadsMoves, QuietMove DEF Writers, Reading
  <2>4. CASE Reads(r, "fill", req[r].org, now, req[r].persisted) /\ Use(now)
    BY <2>1, <2>4, <1>t, ReadsMoves, UseMove DEF Writers, Resting
  <2> QED
    BY <1>10, <2>3, <2>4 DEF PersistMiss
<1>11. ASSUME NEW r \in Requests, FillEntry(r) PROVE Activity'
  <2>1. UNCHANGED <<now, row, history>> /\ req[r].pc = "fill"
    BY <1>11 DEF FillEntry, At
  <2>2. ~Sleeping
    BY <2>1, <1>s DEF Resting
  <2>3. Reads(r, "handle", req[r].org, 0, 0)
    BY <1>11 DEF FillEntry, Forget
  <2>4. \A t \in Tokens : /\ cache'[t].last <= used
                          /\ MaxLatency < Idle => cache'[t].until <= cache'[t].last + Idle
    BY <1>11, <2>1, StoredKept DEF FillEntry, Writers, Reading
  <2> QED
    BY <2>1, <2>2, <2>3, <2>4, <1>t, ReadsMoves, QuietMove DEF Writers, Reading
<1>12. ASSUME NEW r \in Requests, Answer(r) PROVE Activity'
    BY <1>12, <1>t, EvictedKept, EndMoves, QuietMove DEF Answer, Writers, Reading, Resting
<1>13. ASSUME NEW r \in Requests, NEW o \in Orgs, SwitchOrganization(r, o) PROVE Activity'
  <2>1. /\ UNCHANGED <<now, cache>> /\ req[r].pc = "change" /\ Use(req[r].last)
        /\ row'.last = req[r].last
    BY <1>13 DEF SwitchOrganization, At, TypeOK
  <2>2. Call(r, "cacheSwitch", row.token, o, req[r].last)
    BY <1>13 DEF SwitchOrganization
  <2>3. now <= req[r].last + req[r].age
    BY <2>1 DEF Activity, WritersRecent, Reading
  <2> QED
    BY <2>1, <2>2, <2>3, <1>t, <1>l, CallMoves, UseMove DEF Writers, Resting
<1>14. ASSUME NEW r \in Requests, CacheSwitch(r) PROVE Activity'
  <2>1. UNCHANGED <<now, row, history>> /\ req[r].pc = "cacheSwitch" /\ End(r)
    BY <1>14 DEF CacheSwitch, At
  <2>2. \A t \in Tokens : /\ cache'[t].last <= used
                          /\ MaxLatency < Idle => cache'[t].until <= cache'[t].last + Idle
    BY <1>14, <2>1, StoredKept DEF CacheSwitch, Writers, Reading
  <2> QED
    BY <2>1, <2>2, <1>t, EndMoves, QuietMove DEF Writers, Reading, Resting
<1>15. ASSUME NEW r \in Requests, Rotate(r) PROVE Activity'
  <2>1. /\ UNCHANGED <<now, cache>> /\ req[r].pc = "change" /\ Use(req[r].last)
        /\ row'.last = req[r].last
    BY <1>15 DEF Rotate, At, TypeOK
  <2>2. Call(r, "evictOld", row.token + 1, row.org, req[r].last)
    BY <1>15 DEF Rotate
  <2>3. now <= req[r].last + req[r].age
    BY <2>1 DEF Activity, WritersRecent, Reading
  <2> QED
    BY <2>1, <2>2, <2>3, <1>t, <1>l, CallMoves, UseMove DEF Writers, Resting
<1>16. ASSUME NEW r \in Requests, EvictOld(r) PROVE Activity'
  <2>1. UNCHANGED <<now, row, history>> /\ req[r].pc = "evictOld" /\ Goto(r, "cacheNew")
    BY <1>16 DEF EvictOld, At
  <2>2. ~Sleeping
    BY <2>1, <1>s DEF Resting
  <2>3. now <= req[r].last + req[r].age
    BY <2>1 DEF Activity, WritersRecent, Writers, Reading
  <2>4. \A t \in Tokens : /\ cache'[t].last <= used
                          /\ MaxLatency < Idle => cache'[t].until <= cache'[t].last + Idle
    BY <1>16, EvictedKept DEF EvictOld
  <2> QED
    BY <2>1, <2>2, <2>3, <2>4, <1>t, <1>l, GotoMoves, QuietMove DEF Writers, Reading
<1>17. ASSUME NEW r \in Requests, CacheNew(r) PROVE Activity'
  <2>1. UNCHANGED <<now, row, history>> /\ req[r].pc = "cacheNew" /\ End(r)
    BY <1>17 DEF CacheNew, At
  <2>2. \A t \in Tokens : /\ cache'[t].last <= used
                          /\ MaxLatency < Idle => cache'[t].until <= cache'[t].last + Idle
    BY <1>17, <2>1, StoredKept DEF CacheNew, Writers, Reading
  <2> QED
    BY <2>1, <2>2, <1>t, EndMoves, QuietMove DEF Writers, Reading, Resting
<1>18. ASSUME NEW r \in Requests, Logout(r) PROVE Activity'
  <2>1. UNCHANGED <<now, row, cache, history>> /\ req[r].pc = "handle"
    BY <1>18 DEF Logout, At
  <2>2. ~Sleeping
    BY <2>1, <1>s DEF Resting
  <2> QED
    BY <1>18, <2>1, <2>2, <1>t, EvictedKept, CallMoves, QuietMove DEF Logout, Writers, Reading
<1>19. ASSUME NEW r \in Requests, RevokeElsewhere(r) PROVE Activity'
    BY <1>19, <1>t, EvictedKept, CallMoves, QuietMove DEF RevokeElsewhere, Writers, Reading, Resting
<1>20. ASSUME NEW r \in Requests, EndRow(r) PROVE Activity'
  <2>1. UNCHANGED <<now, cache, history>> /\ row'.last = row.last
    BY <1>20 DEF EndRow, TypeOK
  <2>2. CASE req[r].pc = "logout" /\ Goto(r, "evictAll")
    <3>1. ~Sleeping
      BY <2>2, <1>s DEF Resting
    <3> QED
      BY <2>1, <2>2, <3>1, <1>t, <1>l, EvictedKept, GotoMoves, QuietMove DEF Writers, Reading
  <2>3. CASE req[r].pc = "revoke" /\ Goto(r, "evict")
    BY <2>1, <2>3, <1>t, <1>l, EvictedKept, GotoMoves, QuietMove DEF Writers, Reading, Resting
  <2> QED
    BY <1>20, <2>2, <2>3 DEF EndRow, At
<1>21. ASSUME NEW r \in Requests, EvictAll(r) PROVE Activity'
    BY <1>21, <1>t, EvictedKept, EndMoves, QuietMove DEF EvictAll, Writers, Reading, Resting
<1>22. ASSUME NEW r \in Requests, RequestFails(r) PROVE Activity'
    BY <1>22, <1>t, EvictedKept, EndMoves, QuietMove DEF RequestFails, Writers, Reading, Resting
<1>23. ASSUME NEW t \in Tokens, CacheLost(t) PROVE Activity'
  <2>1. UNCHANGED <<now, row, req, history>> /\ \A k \in Tokens : cache'[k] \in {cache[k], Absent}
    BY <1>23, <1>t DEF CacheLost
  <2>2. \A k \in Tokens : /\ cache'[k].last <= used
                          /\ MaxLatency < Idle => cache'[k].until <= cache'[k].last + Idle
    BY <2>1, CacheKept
  <2> QED
    BY <2>1, <2>2 DEF Activity, UsesLead, WritersRecent, EntriesEnd, ExpiryDue, MayClose,
       SleepsOn, Sleeping, history
<1>24. ASSUME PasswordReset PROVE Activity'
  <2>1. UNCHANGED <<now, cache, req, history>> /\ row'.last = row.last
    BY <1>24 DEF PasswordReset, TypeOK
  <2> QED
    BY <2>1 DEF Activity, UsesLead, WritersRecent, EntriesEnd, ExpiryDue, MayClose,
       SleepsOn, Sleeping, history
<1>25. ASSUME Tick PROVE Activity'
  <2>1. now' = now + 1 /\ UNCHANGED <<row, history>>
    BY <1>25 DEF Tick, history
  <2>2. \A t \in Tokens : cache'[t] \in {cache[t], Absent}
    BY <1>25 DEF Tick
  <2>3. \A q \in Requests :
           /\ req'[q].pc = req[q].pc /\ req'[q].last = req[q].last
           /\ req'[q].dormant = req[q].dormant
           /\ req[q].pc # "idle" => req'[q].age = req[q].age + 1
    BY <1>25, <1>t DEF Tick, Slots, At
  <2>4. UsesLead'
    BY <2>1, <2>2, <2>3, <1>t, <1>l, CacheKept DEF UsesLead, history
  <2>5. WritersRecent'
    BY <2>1, <2>3, <1>t DEF Activity, WritersRecent, Writers, Reading
  <2>6. EntriesEnd'
    BY <2>2, CacheKept DEF EntriesEnd
  <2>7. MayClose => MayClose'
    BY <2>1, <1>t DEF MayClose, history
  <2>8. ExpiryDue'
    BY <2>3, <2>7 DEF Activity, ExpiryDue
  <2>9. SleepsOn'
    BY <2>1, <2>3, <1>t DEF Activity, SleepsOn, Sleeping, history
  <2> QED
    BY <2>4, <2>5, <2>6, <2>8, <2>9 DEF Activity
<1>26. CASE UNCHANGED vars
    BY <1>26 DEF vars, Activity, UsesLead, WritersRecent, EntriesEnd, ExpiryDue, MayClose,
       SleepsOn, Sleeping
<1>27. ASSUME NEW r \in Requests, UpdateHit(r) PROVE Activity'
  <2>1. UNCHANGED <<now, cache>> /\ req[r].pc = "updateHit" /\ row'.last \in {row.last, req[r].last}
    BY <1>27 DEF UpdateHit, Persists, At, TypeOK
  <2>2. PICK b : Reads(r, "stamp", req[r].org, req[r].last, b)
    BY <1>27 DEF UpdateHit
  <2>3. now <= req[r].last + req[r].age
    BY <2>1 DEF Activity, WritersRecent, Reading
  <2>5. CASE Wins(req[r].last)
    <3>1. Use(req[r].last)
      BY <1>27, <2>5 DEF UpdateHit
    <3> QED
      BY <2>1, <2>2, <2>3, <3>1, <1>t, <1>l, ReadsMoves, UseMove DEF Writers, Resting
  <2>6. CASE ~Wins(req[r].last)
    <3>1. row' = row /\ UNCHANGED history
      BY <1>27, <2>6, Zenon DEF UpdateHit, Persists
    <3>2. ~Sleeping
      BY <2>1, <1>s DEF Resting
    <3> QED
      BY <2>1, <2>2, <2>3, <3>1, <3>2, <1>t, <1>l, EvictedKept, ReadsMoves, QuietMove
         DEF Writers, Reading
  <2> QED
    BY <2>5, <2>6
<1>28. ASSUME NEW r \in Requests, Stamp(r) PROVE Activity'
  <2>1. UNCHANGED <<now, row, cache>> /\ req[r].pc = "stamp" /\ Use(now)
    BY <1>28 DEF Stamp, At
  <2>2. Reads(r, "touch", req[r].org, now, req[r].persisted)
    BY <1>28 DEF Stamp
  <2> QED
    BY <2>1, <2>2, <1>t, ReadsMoves, UseMove DEF Writers, Resting
<1>29. ASSUME NEW r \in Requests, UpdateRow(r) PROVE Activity'
  <2>1. UNCHANGED <<now, cache>> /\ req[r].pc = "updateRow" /\ row'.last \in {row.last, req[r].last}
    BY <1>29 DEF UpdateRow, Persists, At, TypeOK
  <2>2. PICK b : Reads(r, "fill", req[r].org, req[r].last, b)
    BY <1>29 DEF UpdateRow
  <2>3. now <= req[r].last + req[r].age
    BY <2>1 DEF Activity, WritersRecent, Reading
  <2>4. Use(req[r].last)
    BY <1>29 DEF UpdateRow
  <2> QED
    BY <2>1, <2>2, <2>3, <2>4, <1>t, <1>l, ReadsMoves, UseMove DEF Writers, Resting
<1>30. ASSUME NEW r \in Requests, ReadClock(r) PROVE Activity'
  <2>1. UNCHANGED <<now, row, cache, history>> /\ req[r].pc = "handle"
    BY <1>30 DEF ReadClock, At
  <2>2. ~Sleeping
    BY <2>1, <1>s DEF Resting
  <2>3. Reads(r, "change", req[r].org, now, 0)
    BY <1>30 DEF ReadClock
  <2> QED
    BY <2>1, <2>2, <2>3, <1>t, <1>l, EvictedKept, ReadsMoves, QuietMove DEF Writers, Reading
<1> QED
    BY <1>1, <1>2, <1>3, <1>4, <1>5, <1>6, <1>7, <1>8, <1>9, <1>10, <1>11, <1>12,
       <1>13, <1>14, <1>15, <1>16, <1>17, <1>18, <1>19, <1>20, <1>21, <1>22, <1>23,
       <1>24, <1>25, <1>26, <1>27, <1>28, <1>29, <1>30 DEF Next, ResolveStep, HandlerStep

\* Who marks a session expired.
LEMMA Expires ==
    ASSUME TypeOK, [Next]_vars, row.status = "active", row'.status = "expired"
    PROVE  \E r \in Requests : ExpireCached(r) \/ ExpireRow(r)
<1>1. ASSUME NEW r \in Requests, ResolveStep(r) PROVE ExpireCached(r) \/ ExpireRow(r)
  <2>1. row'.status # row.status
    OBVIOUS
  <2>2. CASE (\E t \in Tokens : Begin(r, t)) \/ Lookup(r) \/ EvictToken(r) \/ Confirm(r)
             \/ PersistHit(r) \/ Stamp(r) \/ TouchEntry(r) \/ ReadRow(r) \/ PersistMiss(r)
             \/ FillEntry(r)
    BY <2>1, <2>2 DEF Begin, Lookup, EvictToken, Confirm, PersistHit, Stamp, TouchEntry, ReadRow,
       PersistMiss, FillEntry
  <2>3. CASE UpdateHit(r) \/ UpdateRow(r)
    BY <2>1, <2>3 DEF UpdateHit, UpdateRow, Persists, TypeOK
  <2> QED
    BY <1>1, <2>2, <2>3 DEF ResolveStep
<1>2. ASSUME NEW r \in Requests, HandlerStep(r) PROVE FALSE
  <2>1. row'.status # row.status
    OBVIOUS
  <2>2. CASE Answer(r) \/ ReadClock(r) \/ CacheSwitch(r) \/ EvictOld(r) \/ CacheNew(r) \/ Logout(r)
             \/ RevokeElsewhere(r) \/ EvictAll(r) \/ RequestFails(r)
    BY <2>1, <2>2 DEF Answer, ReadClock, CacheSwitch, EvictOld, CacheNew, Logout, RevokeElsewhere,
       EvictAll, RequestFails
  <2>3. CASE Rotate(r) \/ \E o \in Orgs : SwitchOrganization(r, o)
    BY <2>1, <2>3 DEF Rotate, SwitchOrganization, TypeOK
  <2>4. CASE EndRow(r)
    BY <2>1, <2>4 DEF EndRow, TypeOK
  <2> QED
    BY <1>2, <2>2, <2>3, <2>4 DEF HandlerStep
<1>3. CASE \E t \in Tokens : CacheLost(t)
    BY <1>3 DEF CacheLost
<1>4. CASE PasswordReset
    BY <1>4 DEF PasswordReset, TypeOK
<1>5. CASE Tick \/ UNCHANGED vars
    BY <1>5 DEF Tick, vars
<1> QED
    BY <1>1, <1>2, <1>3, <1>4, <1>5 DEF Next

-----------------------------------------------------------------------------
(***************************************************************************)
(* The theorems.                                                           *)
(***************************************************************************)

IInv == TypeOK /\ Fresh /\ Issued /\ Refused /\ Persisted /\ Activity

LEMMA InvInit == Init => IInv
<1> SUFFICES ASSUME Init PROVE IInv
    OBVIOUS
<1>1. TypeOK /\ Fresh
    BY TypeInit
<1>2. /\ now = 0 /\ cookies = {0} /\ used = 0 /\ row.token = 0 /\ row.last = 0
      /\ \A r \in Requests : req[r] = Quiet
      /\ \A t \in Tokens : cache[t].persisted = 0
    BY DEF Init, Absent
<1>3. Issued /\ Refused
    BY <1>2 DEF Issued, Refused, RefusedFor, Quiet
<1>4. Persisted
    BY <1>2 DEF Persisted, CopiesOf, Held, Lag, AnsweredFor, LagIsBounded, Quiet
<1>5. Activity
    BY ActivityInit
<1> QED
    BY <1>1, <1>3, <1>4, <1>5 DEF IInv

LEMMA InvStep == IInv /\ [Next]_vars => IInv'
BY TypeStep, IssuedStep, RefusedStep, PersistedStep, ActivityStep DEF IInv

\* Every reachable state satisfies the inductive invariant.
THEOREM Invariance == Spec => []IInv
BY InvInit, InvStep, PTL DEF Spec

\* The clock, the row, the entries and the requests keep their types; no entry outlives
\* the end of the session by more than the age a request may reach.
THEOREM Typing == Spec => []TypeOK
<1>1. IInv => TypeOK
    BY DEF IInv
<1> QED
    BY <1>1, Invariance, PTL

\* A request that begins after its session was revoked or expired, with a token that
\* was rotated away, or past the absolute end, is never authorized.
THEOREM EndedIsRefused == Spec => []EndedSessionsAreRefused
<1>1. IInv => EndedSessionsAreRefused
    BY DEF IInv, Refused, RefusedFor, Opened, EndedSessionsAreRefused, At
<1> QED
    BY <1>1, Invariance, PTL

\* PostgreSQL lags behind the last use of an open session by less than one interval and
\* the time of a request, when that is below the interval.
THEOREM LagBounded ==
    ASSUME MaxLatency < Persist PROVE Spec => []LagIsBounded
<1>1. IInv => LagIsBounded
    BY DEF IInv, Persisted, Lag
<1> QED
    BY <1>1, Invariance, PTL

\* resolve: a session that nobody has used for the idle time and the grace lets nobody in.
THEOREM IdleClose == Spec => []IdleSessionsClose
<1>1. IInv => IdleSessionsClose
    BY DEF IInv, Activity, SleepsOn, Sleeping, Resting, IdleSessionsClose, At
<1> QED
    BY <1>1, Invariance, PTL

\* resolve, expireCached and expire: a session that is used in time is not closed, when no
\* request takes as long as the persistence interval.
THEOREM UsedStayOpen ==
    ASSUME MaxLatency < Persist PROVE Spec => UsedSessionsStayOpen
<1>1. ASSUME IInv, [Next]_vars, row.status = "active" /\ row'.status = "expired"
      PROVE  lapsed \/ used + Idle <= now + MaxLatency \/ Lifetime <= now
  <2>1. PICK r \in Requests : ExpireCached(r) \/ ExpireRow(r)
    BY <1>1, Expires DEF IInv
  <2>2. req[r].pc \in {"expireCached", "expireRow"}
    BY <2>1 DEF ExpireCached, ExpireRow, At
  <2>3. MayClose
    BY <1>1, <2>2 DEF IInv, Activity, ExpiryDue
  <2> QED
    BY <2>3 DEF MayClose
<1>2. IInv /\ [Next]_vars =>
        [row.status = "active" /\ row'.status = "expired"
            => lapsed \/ used + Idle <= now + MaxLatency \/ Lifetime <= now]_vars
    BY <1>1
<1> QED
    BY <1>2, Invariance, PTL DEF Spec, UsedSessionsStayOpen

=============================================================================
