------------------------- MODULE TenantClaimsProofs -------------------------
(***************************************************************************)
(* The slots of a tenant and the order of its jobs, for any finite sets of *)
(* jobs and tenants, any sessions and any cap.                             *)
(*                                                                         *)
(* The count a claim made stays an upper bound while it holds the lock of  *)
(* the tenant: no other claim of the tenant commits in between, and what a *)
(* heartbeat brings back is counted apart.                                 *)
(***************************************************************************)
EXTENDS TenantClaims, FiniteSetTheorems, SequenceTheorems, TLAPS

Settling == {"picking", "committing"}

\* What the claims need of the types.
Types ==
    /\ status \in [Jobs -> {"absent", "ready", "live", "lapsed"}]
    /\ lock \in [Tenants -> Sessions \cup {None}]
    /\ pc \in [Sessions -> {"idle", "locking", "picking", "committing"}]
    /\ list \in [Sessions -> Seq(Tenants)]
    /\ picked \in [Sessions -> Jobs \cup {None}]

\* A session past TryLock holds the lock of its tenant, and lists it first.
Locked ==
    \A s \in Sessions :
        /\ pc[s] = "locking" => list[s] # << >>
        /\ pc[s] \in Settling => list[s] # << >> /\ lock[Head(list[s])] = s

\* A row that is picked is one of the tenant's ready jobs.
Picked ==
    \A s \in Sessions :
        IF pc[s] = "committing"
        THEN /\ picked[s] \in JobsOf(Head(list[s]))
             /\ status[picked[s]] = "ready"
        ELSE picked[s] = None

\* A heartbeat in flight is about a lease, and only such a lease can be brought back.
Renewals ==
    /\ \A j \in renewing : j \in Jobs /\ status[j] \in {"live", "lapsed"}
    /\ \A j \in revived : j \in Jobs /\ status[j] = "live"

\* The leases of a tenant that count, by the values of status and revived.
Leases(st, rv, t)  == {j \in Jobs : TenantOf[j] = t /\ st[j] = "live" /\ j \notin rv}
Counted(st, rv, t) == Cardinality(Leases(st, rv, t))

\* No lease is added to the ones that count.
NoneAdded ==
    \A j \in Jobs : status'[j] = "live" /\ j \notin revived' =>
        status[j] = "live" /\ j \notin revived

Within == \A t \in Tenants : Counted(status, revived, t) <= Cap

\* A claim that is about to commit still has a slot.
SlotsLeft ==
    \A s \in Sessions : pc[s] = "committing" =>
        Counted(status, revived, Head(list[s])) < Cap

IInv == Types /\ Locked /\ Picked /\ Renewals /\ SlotsLeft /\ Within

USE TenantOfJobs, FiniteRows, NoneSession, CapIsNat

-----------------------------------------------------------------------------
(***************************************************************************)
(* Counting.                                                               *)
(***************************************************************************)

\* A subset of a set of jobs has no more elements.
LEMMA Shrinks ==
    ASSUME NEW A \in SUBSET Jobs, NEW B \in SUBSET A
    PROVE  /\ IsFiniteSet(A) /\ IsFiniteSet(B)
           /\ Cardinality(A) \in Nat /\ Cardinality(B) \in Nat
           /\ Cardinality(B) <= Cardinality(A)
<1>1. IsFiniteSet(A) /\ IsFiniteSet(B)
    BY FS_Subset
<1> QED
    BY <1>1, FS_Subset, FS_CardinalityType

\* The cap, by Counted.
LEMMA Capped == Within => SlotsWithinCap
<1> SUFFICES ASSUME Within, NEW t \in Tenants PROVE Cardinality(LiveOf(t) \ revived) <= Cap
    BY DEF SlotsWithinCap
<1>1. LiveOf(t) \ revived = Leases(status, revived, t)
    BY DEF LiveOf, JobsOf, Leases
<1> QED
    BY <1>1 DEF Within, Counted

\* Where no lease is added to the ones that count, and no session picks, the slots last.
LEMMA SlotsKept ==
    ASSUME SlotsLeft, Within, Types, Locked,
           NoneAdded,
           \A s \in Sessions : pc'[s] = "committing" =>
               pc[s] = "committing" /\ list'[s] = list[s]
    PROVE  SlotsLeft' /\ Within'
<1>1. ASSUME NEW t \in Tenants
      PROVE  /\ Counted(status', revived', t) <= Counted(status, revived, t)
             /\ Counted(status', revived', t) \in Nat
             /\ Counted(status, revived, t) \in Nat
  <2>1. Leases(status, revived, t) \in SUBSET Jobs
    BY DEF Leases
  <2>2. Leases(status', revived', t) \in SUBSET Leases(status, revived, t)
    BY DEF Leases, NoneAdded
  <2> QED
    BY <2>1, <2>2, Shrinks DEF Counted
<1>2. Within'
    BY <1>1 DEF Within
<1>3. ASSUME NEW s \in Sessions, pc'[s] = "committing"
      PROVE  Counted(status', revived', Head(list'[s])) < Cap
  <2>1. list[s] \in Seq(Tenants) /\ list[s] # << >>
    BY <1>3 DEF Types, Locked, Settling
  <2>2. Head(list[s]) \in Tenants
    BY <2>1
  <2> QED
    BY <1>1, <1>3, <2>2 DEF SlotsLeft
<1> QED
    BY <1>2, <1>3 DEF SlotsLeft

-----------------------------------------------------------------------------
(***************************************************************************)
(* The steps of a session.                                                 *)
(***************************************************************************)

\* A tenant is listed: the list of a session is one, and not empty.
LEMMA ListType ==
    ASSUME NEW ready \in SUBSET Tenants, ready # {}, NEW l \in SetToSeqs(ready)
    PROVE  l \in Seq(Tenants) /\ l # << >>
<1>1. IsFiniteSet(ready) /\ Cardinality(ready) \in Nat
    BY FS_Subset, FS_CardinalityType
<1>2. Cardinality(ready) # 0
    BY <1>1, FS_EmptySet
<1>3. l \in [1 .. Cardinality(ready) -> ready]
    BY DEF SetToSeqs
<1>4. l \in Seq(ready)
    BY <1>1, <1>3
<1>5. Len(l) = Cardinality(ready)
    BY <1>1, <1>3, <1>4, LenProperties
<1> QED
    BY <1>2, <1>4, <1>5, SeqMonotonic, EmptySeq

\* The end of a call gives back its lock and its row, and disturbs no other session.
LEMMA ReturnKeeps ==
    ASSUME Types, Locked, Picked, NEW s \in Sessions, Return(s),
           status' \in [Jobs -> {"absent", "ready", "live", "lapsed"}],
           \A v \in Sessions \ {s} : pc[v] = "committing" => status'[picked[v]] = "ready"
    PROVE  /\ Types' /\ Locked' /\ Picked'
           /\ \A v \in Sessions : pc'[v] = "committing" =>
                v # s /\ pc[v] = "committing" /\ list'[v] = list[v]
<1>1. /\ pc' = [pc EXCEPT ![s] = "idle"]
      /\ list' = [list EXCEPT ![s] = << >>]
      /\ picked' = [picked EXCEPT ![s] = None]
      /\ lock' = [t \in Tenants |-> IF lock[t] = s THEN None ELSE lock[t]]
    BY DEF Return
<1>2. Types'
    BY <1>1, EmptySeq DEF Types
<1>3. \A v \in Sessions \ {s} : pc'[v] = pc[v] /\ list'[v] = list[v] /\ picked'[v] = picked[v]
    BY <1>1 DEF Types
<1>4. pc'[s] = "idle" /\ picked'[s] = None
    BY <1>1 DEF Types
<1>5. ASSUME NEW v \in Sessions \ {s}, pc[v] \in Settling PROVE lock'[Head(list[v])] = v
  <2>1. list[v] \in Seq(Tenants) /\ list[v] # << >> /\ lock[Head(list[v])] = v
    BY <1>5 DEF Types, Locked
  <2>2. Head(list[v]) \in Tenants
    BY <2>1
  <2> QED
    BY <1>1, <2>1, <2>2
<1>6. Locked'
    BY <1>3, <1>4, <1>5 DEF Locked, Settling
<1>7. Picked'
    BY <1>3, <1>4 DEF Picked, JobsOf
<1> QED
    BY <1>2, <1>3, <1>4, <1>6, <1>7

\* List.
LEMMA ListStep ==
    ASSUME IInv, NEW s \in Sessions, List(s) PROVE IInv'
<1> USE DEF IInv
<1>1. PICK l : /\ l \in Seq(Tenants) /\ l # << >>
               /\ list' = [list EXCEPT ![s] = l]
  <2>1. /\ {t \in Tenants : CanClaim(t)} # {}
        /\ \E l \in SetToSeqs({t \in Tenants : CanClaim(t)}) : list' = [list EXCEPT ![s] = l]
    BY DEF List
  <2> QED
    BY <2>1, ListType
<1>2. /\ pc[s] = "idle" /\ pc' = [pc EXCEPT ![s] = "locking"]
      /\ UNCHANGED <<status, renewing, revived, lock, picked>>
    BY DEF List, jobVars
<1>3. Types'
    BY <1>1, <1>2 DEF Types
<1>4. /\ pc'[s] = "locking" /\ list'[s] = l
      /\ \A v \in Sessions \ {s} : pc'[v] = pc[v] /\ list'[v] = list[v]
    BY <1>1, <1>2 DEF Types
<1>5. Locked'
    BY <1>1, <1>2, <1>4 DEF Locked, Settling
<1>6. Picked'
    BY <1>2, <1>4 DEF Picked, JobsOf
<1>7. Renewals'
    BY <1>2 DEF Renewals
<1>8. SlotsLeft' /\ Within'
  <2>1. NoneAdded
    BY <1>2 DEF NoneAdded
  <2>2. \A v \in Sessions : pc'[v] = "committing" => pc[v] = "committing" /\ list'[v] = list[v]
    BY <1>4
  <2> QED
    BY <2>1, <2>2, SlotsKept
<1> QED
    BY <1>3, <1>5, <1>6, <1>7, <1>8

\* TryLock.
LEMMA TryLockStep ==
    ASSUME IInv, NEW s \in Sessions, TryLock(s) PROVE IInv'
<1> USE DEF IInv
<1>1. /\ pc[s] = "locking" /\ list[s] \in Seq(Tenants) /\ list[s] # << >>
      /\ UNCHANGED <<status, renewing, revived>>
    BY DEF TryLock, jobVars, Types, Locked
<1>2. Head(list[s]) \in Tenants /\ Tail(list[s]) \in Seq(Tenants)
    BY <1>1
<1>3. Renewals' /\ NoneAdded
    BY <1>1 DEF Renewals, NoneAdded
<1>4. CASE /\ lock[Head(list[s])] = None
           /\ lock' = [lock EXCEPT ![Head(list[s])] = s]
           /\ pc' = [pc EXCEPT ![s] = "picking"]
           /\ UNCHANGED <<list, picked>>
  <2>1. Types'
    BY <1>1, <1>2, <1>4 DEF Types
  <2>2. pc'[s] = "picking" /\ \A v \in Sessions \ {s} : pc'[v] = pc[v]
    BY <1>4 DEF Types
  <2>3. \A v \in Sessions \ {s} : pc[v] \in Settling => lock'[Head(list[v])] = v
    <3>1. \A v \in Sessions : pc[v] \in Settling => Head(list[v]) # Head(list[s])
      BY <1>4 DEF Locked
    <3>2. \A v \in Sessions : pc[v] \in Settling => lock[Head(list[v])] = v
      BY DEF Locked
    <3> QED
      BY <1>4, <3>1, <3>2 DEF Types
  <2>4. lock'[Head(list[s])] = s
    BY <1>2, <1>4 DEF Types
  <2>5. Locked'
    BY <1>1, <1>4, <2>2, <2>3, <2>4 DEF Locked, Settling
  <2>6. Picked'
    BY <1>1, <1>4, <2>2 DEF Picked, JobsOf
  <2>7. SlotsLeft' /\ Within'
    BY <1>3, <1>4, <2>2, SlotsKept
  <2> QED
    BY <1>3, <2>1, <2>5, <2>6, <2>7
<1>5. CASE /\ Len(list[s]) > 1
           /\ list' = [list EXCEPT ![s] = Tail(@)]
           /\ UNCHANGED <<lock, pc, picked>>
  <2>1. list'[s] = Tail(list[s]) /\ \A v \in Sessions \ {s} : list'[v] = list[v]
    BY <1>5 DEF Types
  <2>2. list'[s] # << >>
    <3>1. Len(Tail(list[s])) # 0
      <4>1. Len(Tail(list[s])) = Len(list[s]) - 1 /\ Len(list[s]) \in Nat
        BY <1>1, HeadTailProperties, LenProperties
      <4>2. Len(list[s]) > 1
        BY <1>5
      <4>3. \A n \in Nat : n > 1 => n - 1 # 0
        OBVIOUS
      <4> QED
        BY <4>1, <4>2, <4>3, Zenon
    <3> QED
      BY <2>1, <3>1, EmptySeq
  <2>3. Types'
    BY <1>1, <1>2, <1>5 DEF Types
  <2>4. Locked'
    BY <1>1, <1>5, <2>1, <2>2 DEF Locked, Settling
  <2>5. Picked'
    BY <1>1, <1>5, <2>1 DEF Picked, JobsOf
  <2>6. SlotsLeft' /\ Within'
    <3>1. \A v \in Sessions : pc'[v] = "committing" => pc[v] = "committing" /\ list'[v] = list[v]
      BY <1>1, <1>5, <2>1
    <3> QED
      BY <1>3, <3>1, SlotsKept
  <2> QED
    BY <1>3, <2>3, <2>4, <2>5, <2>6
<1>6. CASE Return(s)
  <2>1. \A v \in Sessions \ {s} : pc[v] = "committing" => status'[picked[v]] = "ready"
    BY <1>1 DEF Picked
  <2>2. /\ Types' /\ Locked' /\ Picked'
        /\ \A v \in Sessions : pc'[v] = "committing" =>
             v # s /\ pc[v] = "committing" /\ list'[v] = list[v]
    BY <1>1, <1>6, <2>1, ReturnKeeps DEF Types
  <2> QED
    BY <1>3, <2>2, SlotsKept
<1> QED
    BY <1>4, <1>5, <1>6 DEF TryLock, Lockable

\* PickCandidate.
LEMMA PickStep ==
    ASSUME IInv, NEW s \in Sessions, PickCandidate(s) PROVE IInv'
<1> USE DEF IInv
<1> DEFINE t == Head(list[s])
<1>1. /\ pc[s] = "picking" /\ list[s] \in Seq(Tenants) /\ list[s] # << >>
      /\ UNCHANGED <<status, renewing, revived>>
    BY DEF PickCandidate, jobVars, Types, Locked, Settling
<1>2. t \in Tenants
    BY <1>1
<1>3. Renewals' /\ NoneAdded
    BY <1>1 DEF Renewals, NoneAdded
<1>4. ASSUME NEW j \in Candidates(t),
             /\ picked' = [picked EXCEPT ![s] = j]
             /\ pc' = [pc EXCEPT ![s] = "committing"]
             /\ UNCHANGED <<lock, list>>
      PROVE  IInv'
  <2>1. /\ j \in JobsOf(t) /\ j \in Jobs /\ status[j] = "ready"
        /\ Cardinality(LiveOf(t)) < Cap
    BY <1>4 DEF Candidates, Unlocked, Claimable, ReadyOf, JobsOf
  <2>2. Types'
    BY <1>1, <1>4, <2>1 DEF Types
  <2>3. /\ pc'[s] = "committing" /\ picked'[s] = j
        /\ \A v \in Sessions \ {s} : pc'[v] = pc[v] /\ picked'[v] = picked[v]
    BY <1>4 DEF Types
  <2>4. Locked'
    BY <1>1, <1>4, <2>3 DEF Locked, Settling
  <2>5. Picked'
    BY <1>1, <1>4, <2>1, <2>3 DEF Picked, JobsOf
  <2>6. Counted(status, revived, t) < Cap
    <3>1. LiveOf(t) \in SUBSET Jobs /\ Leases(status, revived, t) \in SUBSET LiveOf(t)
      BY DEF LiveOf, JobsOf, Leases
    <3> QED
      BY <2>1, <3>1, Shrinks DEF Counted
  <2>7. SlotsLeft'
    <3>1. \A v \in Sessions \ {s} : pc'[v] = "committing" => pc[v] = "committing"
      BY <2>3
    <3> QED
      BY <1>1, <1>4, <2>6, <3>1 DEF SlotsLeft
  <2>8. Within'
    BY <1>1 DEF Within
  <2> QED
    BY <1>3, <2>2, <2>4, <2>5, <2>7, <2>8
<1>5. CASE Return(s)
  <2>1. \A v \in Sessions \ {s} : pc[v] = "committing" => status'[picked[v]] = "ready"
    BY <1>1 DEF Picked
  <2>2. /\ Types' /\ Locked' /\ Picked'
        /\ \A v \in Sessions : pc'[v] = "committing" =>
             v # s /\ pc[v] = "committing" /\ list'[v] = list[v]
    BY <1>1, <1>5, <2>1, ReturnKeeps DEF Types
  <2> QED
    BY <1>3, <2>2, SlotsKept
<1> QED
    BY <1>4, <1>5 DEF PickCandidate

\* CommitClaim.
LEMMA CommitStep ==
    ASSUME IInv, NEW s \in Sessions, CommitClaim(s) PROVE IInv'
<1> USE DEF IInv
<1> DEFINE j == picked[s]
           t == Head(list[s])
<1>1. /\ pc[s] = "committing" /\ Return(s)
      /\ status' = [status EXCEPT ![j] = "live"]
      /\ UNCHANGED <<renewing, revived>>
    BY DEF CommitClaim
<1>2. list[s] \in Seq(Tenants) /\ list[s] # << >> /\ lock[t] = s
    BY <1>1 DEF Types, Locked, Settling
<1>3. t \in Tenants /\ j \in JobsOf(t) /\ j \in Jobs /\ status[j] = "ready"
    BY <1>1, <1>2 DEF Picked, JobsOf
<1>4. status'[j] = "live" /\ \A k \in Jobs \ {j} : status'[k] = status[k]
    BY <1>1, <1>3 DEF Types
<1>5. ASSUME NEW v \in Sessions \ {s}, pc[v] = "committing"
      PROVE  Head(list[v]) \in Tenants \ {t} /\ picked[v] \in Jobs \ {j}
  <2>1. list[v] \in Seq(Tenants) /\ list[v] # << >> /\ lock[Head(list[v])] = v
    BY <1>5 DEF Types, Locked, Settling
  <2>2. Head(list[v]) \in Tenants
    BY <2>1
  <2>3. picked[v] \in JobsOf(Head(list[v]))
    BY <1>5 DEF Picked
  <2> QED
    BY <1>2, <1>3, <2>1, <2>2, <2>3 DEF JobsOf
<1>6. /\ Types' /\ Locked' /\ Picked'
      /\ \A v \in Sessions : pc'[v] = "committing" =>
           v # s /\ pc[v] = "committing" /\ list'[v] = list[v]
  <2>1. status' \in [Jobs -> {"absent", "ready", "live", "lapsed"}]
    BY <1>1 DEF Types
  <2>2. \A v \in Sessions \ {s} : pc[v] = "committing" => status'[picked[v]] = "ready"
    BY <1>4, <1>5 DEF Picked
  <2> QED
    BY <1>1, <2>1, <2>2, ReturnKeeps
<1>7. Renewals'
    BY <1>1, <1>3, <1>4 DEF Renewals
<1>8. Counted(status', revived', t) <= Cap
  <2>1. j \notin revived
    BY <1>3 DEF Renewals
  <2>2. Leases(status', revived', t) = Leases(status, revived, t) \cup {j}
    BY <1>1, <1>3, <1>4, <2>1 DEF Leases, JobsOf
  <2>3. Leases(status, revived, t) \in SUBSET Jobs /\ j \notin Leases(status, revived, t)
    BY <1>3 DEF Leases
  <2>4. IsFiniteSet(Leases(status, revived, t)) /\ Counted(status, revived, t) \in Nat
    BY <2>3, Shrinks DEF Counted
  <2>5. Counted(status', revived', t) = Counted(status, revived, t) + 1
    BY <2>2, <2>3, <2>4, FS_AddElement DEF Counted
  <2>6. Counted(status, revived, t) < Cap
    BY <1>1 DEF SlotsLeft
  <2> QED
    BY <2>4, <2>5, <2>6
<1>9. ASSUME NEW u \in Tenants \ {t}
      PROVE  Counted(status', revived', u) = Counted(status, revived, u)
  <2>1. Leases(status', revived', u) = Leases(status, revived, u)
    BY <1>1, <1>3, <1>4 DEF Leases, JobsOf
  <2> QED
    BY <2>1 DEF Counted
<1>10. Within'
    BY <1>8, <1>9 DEF Within
<1>11. SlotsLeft'
    BY <1>5, <1>6, <1>9 DEF SlotsLeft
<1> QED
    BY <1>6, <1>7, <1>10, <1>11

\* Rollback.
LEMMA RollbackStep ==
    ASSUME IInv, NEW s \in Sessions, Rollback(s) PROVE IInv'
<1> USE DEF IInv
<1>1. Return(s) /\ UNCHANGED <<status, renewing, revived>>
    BY DEF Rollback, jobVars
<1>2. Renewals' /\ NoneAdded
    BY <1>1 DEF Renewals, NoneAdded
<1>3. \A v \in Sessions \ {s} : pc[v] = "committing" => status'[picked[v]] = "ready"
    BY <1>1 DEF Picked
<1>4. /\ Types' /\ Locked' /\ Picked'
      /\ \A v \in Sessions : pc'[v] = "committing" =>
           v # s /\ pc[v] = "committing" /\ list'[v] = list[v]
    BY <1>1, <1>3, ReturnKeeps DEF Types
<1> QED
    BY <1>2, <1>4, SlotsKept

-----------------------------------------------------------------------------
(***************************************************************************)
(* The steps of a job.                                                     *)
(***************************************************************************)

\* What every step of a job keeps: no session moves, no row that a session has picked
\* changes, and no lease is added to the ones that count.
LEMMA JobStep ==
    ASSUME IInv, UNCHANGED sessionVars,
           status' \in [Jobs -> {"absent", "ready", "live", "lapsed"}],
           \A k \in Jobs : status[k] = "ready" /\ status'[k] # "ready" => ~Row(k),
           \A k \in Jobs : status'[k] = "live" => status[k] = "live" \/ k \in revived',
           \A k \in revived : status'[k] = "live" => k \in revived',
           Renewals'
    PROVE  IInv'
<1> USE DEF IInv
<1>1. Types' /\ Locked'
    BY DEF Types, Locked, sessionVars
<1>2. Picked'
  <2>1. \A s \in Sessions : pc[s] = "committing" =>
           picked[s] \in Jobs /\ Row(picked[s]) /\ status[picked[s]] = "ready"
    BY DEF Picked, JobsOf, Row
  <2> QED
    BY <2>1 DEF Picked, JobsOf, sessionVars
<1>3. NoneAdded
    BY DEF Renewals, NoneAdded
<1>4. \A s \in Sessions : pc'[s] = "committing" => pc[s] = "committing" /\ list'[s] = list[s]
    BY DEF sessionVars
<1> QED
    BY <1>1, <1>2, <1>3, <1>4, SlotsKept

\* A job that comes or goes, or whose lease lapses.
LEMMA BecomeStep ==
    ASSUME IInv, NEW j \in Jobs, NEW s \in {"absent", "ready", "lapsed"}, Become(j, s),
           j \notin renewing \/ s = "lapsed", status[j] # "ready" \/ ~Row(j)
    PROVE  IInv'
<1>1. /\ status' = [status EXCEPT ![j] = s] /\ revived' = revived \ {j}
      /\ renewing' = renewing /\ UNCHANGED sessionVars
    BY DEF Become
<1>2. status' \in [Jobs -> {"absent", "ready", "live", "lapsed"}]
    BY <1>1 DEF IInv, Types
<1>3. status'[j] = s /\ \A k \in Jobs \ {j} : status'[k] = status[k]
    BY <1>1 DEF IInv, Types
<1>4. Renewals'
    BY <1>1, <1>3 DEF IInv, Renewals
<1>5. /\ \A k \in Jobs : status[k] = "ready" /\ status'[k] # "ready" => ~Row(k)
      /\ \A k \in Jobs : status'[k] = "live" => status[k] = "live"
      /\ \A k \in revived : status'[k] = "live" => k \in revived'
    BY <1>1, <1>3 DEF IInv, Renewals
<1> QED
    BY <1>1, <1>2, <1>4, <1>5, JobStep

\* The heartbeat.
LEMMA HeartbeatStep ==
    ASSUME IInv, NEW j \in Jobs, CheckLease(j) \/ CommitHeartbeat(j)
    PROVE  IInv'
<1>1. CASE CheckLease(j)
  <2>1. /\ status[j] = "live" /\ renewing' = renewing \cup {j}
        /\ UNCHANGED <<status, revived, sessionVars>>
    BY <1>1 DEF CheckLease
  <2>2. Renewals'
    BY <2>1 DEF IInv, Renewals
  <2>3. status' \in [Jobs -> {"absent", "ready", "live", "lapsed"}]
    BY <2>1 DEF IInv, Types
  <2> QED
    BY <2>1, <2>2, <2>3, JobStep
<1>2. CASE CommitHeartbeat(j)
  <2>1. /\ j \in renewing /\ renewing' = renewing \ {j}
        /\ status' = [status EXCEPT ![j] = "live"]
        /\ revived' = IF status[j] = "lapsed" THEN revived \cup {j} ELSE revived
        /\ UNCHANGED sessionVars
    BY <1>2 DEF CommitHeartbeat
  <2>2. status[j] \in {"live", "lapsed"}
    BY <2>1 DEF IInv, Renewals
  <2>3. status'[j] = "live" /\ \A k \in Jobs \ {j} : status'[k] = status[k]
    BY <2>1 DEF IInv, Types
  <2>4. status' \in [Jobs -> {"absent", "ready", "live", "lapsed"}]
    BY <2>1 DEF IInv, Types
  <2>5. Renewals'
    BY <2>1, <2>3 DEF IInv, Renewals
  <2>6. /\ \A k \in Jobs : status[k] = "ready" /\ status'[k] # "ready" => ~Row(k)
        /\ \A k \in Jobs : status'[k] = "live" => status[k] = "live" \/ k \in revived'
        /\ \A k \in revived : status'[k] = "live" => k \in revived'
    BY <2>1, <2>2, <2>3
  <2> QED
    BY <2>1, <2>4, <2>5, <2>6, JobStep
<1> QED
    BY <1>1, <1>2

-----------------------------------------------------------------------------
(***************************************************************************)
(* The theorems.                                                           *)
(***************************************************************************)

\* The inductive invariant holds in every reachable state.
THEOREM Inductive == Spec => []IInv
<1>1. Init => IInv
  <2> SUFFICES ASSUME Init PROVE IInv
    OBVIOUS
  <2>1. Types /\ Locked /\ Picked /\ Renewals /\ SlotsLeft
    BY EmptySeq DEF Init, Types, Locked, Picked, Renewals, SlotsLeft, Settling
  <2>2. \A t \in Tenants : Leases(status, revived, t) = {}
    BY DEF Init, Leases
  <2>3. Within
    BY <2>2, FS_EmptySet DEF Within, Counted
  <2> QED
    BY <2>1, <2>3 DEF IInv
<1>2. IInv /\ [Next]_vars => IInv'
  <2> SUFFICES ASSUME IInv, [Next]_vars PROVE IInv'
    OBVIOUS
  <2>1. ASSUME NEW s \in Sessions, ClaimStep(s) \/ Rollback(s) PROVE IInv'
    BY <2>1, ListStep, TryLockStep, PickStep, CommitStep, RollbackStep DEF ClaimStep
  <2>2. ASSUME NEW j \in Jobs, Arrive(j) \/ Withdraw(j) PROVE IInv'
    <3>1. j \notin renewing
      BY <2>2 DEF IInv, Renewals, Arrive, Withdraw
    <3> QED
      BY <2>2, <3>1, BecomeStep DEF Arrive, Withdraw
  <2>3. ASSUME NEW j \in Jobs, Finish(j) \/ LeaseLapses(j) \/ ReconcileExpiredLease(j) PROVE IInv'
    BY <2>3, BecomeStep DEF Finish, LeaseLapses, ReconcileExpiredLease
  <2>4. ASSUME NEW j \in Jobs, CheckLease(j) \/ CommitHeartbeat(j) PROVE IInv'
    BY <2>4, HeartbeatStep
  <2>5. CASE UNCHANGED vars
    <3>1. UNCHANGED <<status, revived, renewing, sessionVars>>
      BY <2>5 DEF vars, jobVars
    <3>2. Renewals' /\ status' \in [Jobs -> {"absent", "ready", "live", "lapsed"}]
      BY <3>1 DEF IInv, Renewals, Types
    <3> QED
      BY <3>1, <3>2, JobStep
  <2> QED
    BY <2>1, <2>2, <2>3, <2>4, <2>5 DEF Next
<1>3. QED
    BY <1>1, <1>2, PTL DEF Spec

\* Concurrent claims never give a tenant more slots than the cap.
THEOREM SlotsHold == Spec => []SlotsWithinCap
<1>1. IInv => SlotsWithinCap
    BY Capped DEF IInv
<1>2. QED
    BY <1>1, Inductive, PTL


-----------------------------------------------------------------------------
(***************************************************************************)
(* The orders in which jobs and tenants wait.                              *)
(***************************************************************************)

\* No element is twice in q.
Distinct(q) == \A i, k \in 1..Len(q) : q[i] = q[k] => i = k

\* Without takes one element out, and nothing else.
LEMMA WithoutOne ==
    ASSUME NEW S, NEW q \in Seq(S), NEW x, Distinct(q)
    PROVE  /\ Without(q, x) \in Seq(S) /\ Distinct(Without(q, x))
           /\ ToSet(Without(q, x)) = ToSet(q) \ {x}
<1> DEFINE r == Without(q, x)
<1>1. CASE x \notin ToSet(q)
    BY <1>1 DEF Without
<1>2. CASE x \in ToSet(q)
  <2> DEFINE p == Position(q, x)
             n == Len(q)
             a == SubSeq(q, 1, p - 1)
             b == SubSeq(q, p + 1, n)
  <2>1. n \in Nat /\ DOMAIN q = 1..n
    BY LenProperties
  <2>2. p \in 1..n /\ q[p] = x
    BY <1>2, <2>1 DEF Position, ToSet
  <2>3. /\ a \in Seq(S) /\ Len(a) = p - 1
        /\ \A i \in 1..(p - 1) : a[i] = q[i]
    BY <2>1, <2>2
  <2>4. /\ b \in Seq(S) /\ Len(b) = n - p
        /\ \A i \in 1..(n - p) : b[i] = q[p + i]
    BY <2>1, <2>2
  <2>5. r = a \o b
    BY <1>2 DEF Without, RemoveAt
  <2> HIDE DEF r, a, b, p, n
  <2>6. /\ r \in Seq(S) /\ Len(r) = n - 1
        /\ \A i \in 1..(n - 1) : r[i] = IF i < p THEN q[i] ELSE q[i + 1]
    <3>1. r \in Seq(S) /\ Len(r) = Len(a) + Len(b)
      BY <2>3, <2>4, <2>5, ConcatProperties
    <3>2. Len(r) = n - 1
      BY <2>1, <2>2, <2>3, <2>4, <3>1
    <3>3. ASSUME NEW i \in 1..(n - 1), i < p PROVE r[i] = q[i]
      <4>1. i \in 1..Len(a) /\ i \in 1..(Len(a) + Len(b)) /\ i <= Len(a)
        BY <2>1, <2>2, <2>3, <2>4, <3>3
      <4> QED
        BY <2>3, <2>4, <2>5, <4>1, ConcatProperties
    <3>4. ASSUME NEW i \in 1..(n - 1), ~(i < p) PROVE r[i] = q[i + 1]
      <4>1. /\ i \in 1..(Len(a) + Len(b)) /\ ~(i <= Len(a))
            /\ i - Len(a) \in 1..(n - p) /\ p + (i - Len(a)) = i + 1
        BY <2>1, <2>2, <2>3, <2>4, <3>4
      <4>2. r[i] = b[i - Len(a)]
        BY <2>3, <2>4, <2>5, <4>1, ConcatProperties
      <4> QED
        BY <2>4, <4>1, <4>2
    <3> QED
      BY <3>1, <3>2, <3>3, <3>4
  <2>7. \A i, k \in 1..n : q[i] = q[k] => i = k
    BY DEF Distinct, n
  <2>8. Distinct(r)
    <3> SUFFICES ASSUME NEW i \in 1..(n - 1), NEW k \in 1..(n - 1), r[i] = r[k]
                 PROVE  i = k
      BY <2>6 DEF Distinct
    <3> DEFINE f(m) == IF m < p THEN m ELSE m + 1
    <3>1. f(i) \in 1..n /\ f(k) \in 1..n /\ q[f(i)] = r[i] /\ q[f(k)] = r[k]
      BY <2>1, <2>2, <2>6
    <3>2. f(i) = f(k)
      BY <2>7, <3>1
    <3> QED
      BY <2>1, <2>2, <3>2
  <2>9. ToSet(r) = ToSet(q) \ {x}
    <3>1. ToSet(r) = {r[i] : i \in 1..(n - 1)} /\ ToSet(q) = {q[i] : i \in 1..n}
      <4>1. DOMAIN r = 1..(n - 1)
        BY <2>6, LenProperties
      <4> QED
        BY <2>1, <4>1 DEF ToSet
    <3>2. ASSUME NEW i \in 1..(n - 1) PROVE r[i] \in {q[k] : k \in 1..n} \ {x}
      <4> DEFINE m == IF i < p THEN i ELSE i + 1
      <4>1. m \in 1..n /\ m # p /\ r[i] = q[m]
        BY <2>1, <2>2, <2>6
      <4> QED
        BY <2>2, <2>7, <4>1
    <3>3. ASSUME NEW k \in 1..n, q[k] # x PROVE q[k] \in {r[i] : i \in 1..(n - 1)}
      <4> DEFINE m == IF k < p THEN k ELSE k - 1
      <4>1. k # p
        BY <2>2, <3>3
      <4>2. m \in 1..(n - 1) /\ r[m] = q[k]
        BY <2>1, <2>2, <2>6, <4>1
      <4> QED
        BY <4>2
    <3> QED
      BY <3>1, <3>2, <3>3
  <2> QED
    BY <2>6, <2>8, <2>9 DEF r
<1> QED
    BY <1>1, <1>2

\* Append adds a new element, at the end.
LEMMA AppendNew ==
    ASSUME NEW S, NEW q \in Seq(S), NEW x \in S, Distinct(q), x \notin ToSet(q)
    PROVE  /\ Append(q, x) \in Seq(S) /\ Distinct(Append(q, x))
           /\ ToSet(Append(q, x)) = ToSet(q) \cup {x}
<1> DEFINE n == Len(q)
           r == Append(q, x)
<1>1. n \in Nat /\ DOMAIN q = 1..n
    BY LenProperties
<1>2. /\ r \in Seq(S) /\ Len(r) = n + 1 /\ r[n + 1] = x
      /\ \A i \in 1..n : r[i] = q[i]
    BY AppendProperties
<1> HIDE DEF r
<1>3. DOMAIN r = 1..(n + 1)
    BY <1>2, LenProperties
<1>4. \A i \in 1..n : q[i] # x
    BY <1>1 DEF ToSet
<1>5. Distinct(r)
    BY <1>1, <1>2, <1>4 DEF Distinct
<1>6. ToSet(r) = ToSet(q) \cup {x}
  <2>1. \A i \in 1..(n + 1) : i \in 1..n \/ i = n + 1
    BY <1>1
  <2>2. 1..n \subseteq 1..(n + 1) /\ n + 1 \in 1..(n + 1)
    BY <1>1
  <2>3. ToSet(r) = {r[i] : i \in 1..(n + 1)} /\ ToSet(q) = {q[i] : i \in 1..n}
    BY <1>1, <1>3 DEF ToSet
  <2> QED
    BY <1>2, <2>1, <2>2, <2>3
<1> QED
    BY <1>2, <1>5, <1>6 DEF r

\* ReplaceAll puts a new element in the place of another.
LEMMA ReplaceOne ==
    ASSUME NEW S, NEW q \in Seq(S), NEW x, NEW y \in S, Distinct(q),
           y \notin ToSet(q), x \in ToSet(q)
    PROVE  /\ ReplaceAll(q, x, y) \in Seq(S) /\ Distinct(ReplaceAll(q, x, y))
           /\ ToSet(ReplaceAll(q, x, y)) = (ToSet(q) \ {x}) \cup {y}
<1> DEFINE n == Len(q)
           r == ReplaceAll(q, x, y)
<1>1. /\ n \in Nat /\ DOMAIN q = 1..n
      /\ \A i \in 1..n : q[i] \in S
    BY LenProperties, ElementOfSeq
<1>2. r = [i \in 1..n |-> IF q[i] = x THEN y ELSE q[i]]
    BY DEF ReplaceAll
<1> HIDE DEF r
<1>3. r \in Seq(S) /\ Len(r) = n /\ DOMAIN r = 1..n
  <2>1. r \in [1..n -> S]
    BY <1>1, <1>2
  <2> QED
    BY <1>1, <2>1
<1>4. \A i \in 1..n : q[i] # y
    BY <1>1 DEF ToSet
<1>5. Distinct(r)
    BY <1>1, <1>2, <1>3, <1>4 DEF Distinct
<1>6. ToSet(r) = {r[i] : i \in 1..n} /\ ToSet(q) = {q[i] : i \in 1..n}
    BY <1>1, <1>3 DEF ToSet
<1>7. PICK p \in 1..n : q[p] = x
    BY <1>6
<1>8. ToSet(r) = (ToSet(q) \ {x}) \cup {y}
  <2>1. \A i \in 1..n : r[i] = IF q[i] = x THEN y ELSE q[i]
    BY <1>2
  <2> QED
    BY <1>6, <1>7, <2>1
<1> QED
    BY <1>3, <1>5, <1>8 DEF r


Stamps == [tenant : Tenants, by : Sessions \cup {None}]

\* The ready jobs wait, each at one place.
Queued ==
    /\ queue \in Seq(Jobs) /\ Distinct(queue)
    /\ ToSet(queue) = {j \in Jobs : status[j] = "ready"}

\* A stamp in flight is that of a session about to commit, and no stamp is there twice.
Stamped ==
    /\ claims \in Seq(Stamps) /\ Distinct(claims)
    /\ \A t \in Tenants, s \in Sessions :
          Stamp(t, s) \in ToSet(claims) <=> pc[s] = "committing" /\ Head(list[s]) = t

Orders == Queued /\ Stamped /\ disruptions \in 0..MaxDisruptions


\* The orders after a step of session s, which disturbs the stamps of no other session.
LEMMA StampsMove ==
    ASSUME Stamped, NEW s \in Sessions,
           claims' \in Seq(Stamps), Distinct(claims'),
           \A v \in Sessions \ {s} : pc'[v] = pc[v] /\ list'[v] = list[v],
           \A t \in Tenants, v \in Sessions \ {s} :
               Stamp(t, v) \in ToSet(claims') <=> Stamp(t, v) \in ToSet(claims),
           \A t \in Tenants : Stamp(t, s) \in ToSet(claims') <=>
               pc'[s] = "committing" /\ Head(list'[s]) = t
    PROVE  Stamped'
    BY DEF Stamped

\* List, and the steps of TryLock and PickCandidate that stamp nothing.
LEMMA NothingStamped ==
    ASSUME IInv, Orders, NEW s \in Sessions,
           UNCHANGED <<status, queue, claims, disruptions>>,
           pc[s] # "committing", pc'[s] # "committing",
           \A v \in Sessions \ {s} : pc'[v] = pc[v] /\ list'[v] = list[v]
    PROVE  Orders'
<1>1. Queued'
    BY DEF Orders, Queued
<1>2. Stamped'
    BY DEF Orders, Stamped
<1> QED
    BY <1>1, <1>2 DEF Orders

\* Stamps of different tenants or sessions differ.
LEMMA StampsDiffer ==
    ASSUME NEW t, NEW u, NEW s, NEW v
    PROVE  Stamp(t, s) = Stamp(u, v) <=> t = u /\ s = v
    BY DEF Stamp

\* What Return changes of the session.
LEMMA ReturnMoves ==
    ASSUME Types, NEW s \in Sessions, Return(s)
    PROVE  /\ pc'[s] = "idle"
           /\ \A v \in Sessions \ {s} : pc'[v] = pc[v] /\ list'[v] = list[v]
    BY DEF Types, Return

\* List, TryLock and PickCandidate.
LEMMA ClaimOrders ==
    ASSUME IInv, Orders, NEW s \in Sessions, List(s) \/ TryLock(s) \/ PickCandidate(s)
    PROVE  Orders'
<1>1. CASE List(s)
  <2>1. /\ UNCHANGED <<status, queue, claims, disruptions>>
        /\ pc[s] = "idle" /\ pc' = [pc EXCEPT ![s] = "locking"]
        /\ \E l : list' = [list EXCEPT ![s] = l]
    BY <1>1 DEF List, jobVars
  <2> QED
    BY <2>1, NothingStamped DEF IInv, Types
<1>2. CASE TryLock(s)
  <2>1. UNCHANGED <<status, queue, claims, disruptions>> /\ pc[s] = "locking"
    BY <1>2 DEF TryLock, jobVars
  <2>2. /\ pc'[s] # "committing"
        /\ \A v \in Sessions \ {s} : pc'[v] = pc[v] /\ list'[v] = list[v]
    <3>1. CASE Return(s)
      BY <3>1, ReturnMoves DEF IInv
    <3>2. CASE pc' = [pc EXCEPT ![s] = "picking"] /\ UNCHANGED list
      BY <3>2 DEF IInv, Types
    <3>3. CASE list' = [list EXCEPT ![s] = Tail(@)] /\ UNCHANGED pc
      BY <2>1, <3>3 DEF IInv, Types
    <3> QED
      BY <1>2, <3>1, <3>2, <3>3 DEF TryLock
  <2> QED
    BY <2>1, <2>2, NothingStamped
<1>3. CASE PickCandidate(s)
  <2> DEFINE t == Head(list[s])
  <2>1. /\ pc[s] = "picking" /\ UNCHANGED <<status, queue, disruptions>>
        /\ list[s] \in Seq(Tenants) /\ list[s] # << >>
    BY <1>3 DEF PickCandidate, jobVars, IInv, Types, Locked, Settling
  <2>2. CASE Return(s) /\ UNCHANGED claims
    <3>1. pc'[s] # "committing" /\ \A v \in Sessions \ {s} : pc'[v] = pc[v] /\ list'[v] = list[v]
      BY <2>2, ReturnMoves DEF IInv
    <3> QED
      BY <2>1, <2>2, <3>1, NothingStamped
  <2>3. CASE /\ claims' = Append(claims, Stamp(t, s))
             /\ pc' = [pc EXCEPT ![s] = "committing"] /\ UNCHANGED list
    <3>1. Stamp(t, s) \in Stamps /\ t \in Tenants
      BY <2>1 DEF Stamp, Stamps
    <3>2. \A u \in Tenants : Stamp(u, s) \notin ToSet(claims)
      BY <2>1 DEF Orders, Stamped
    <3>3. /\ claims' \in Seq(Stamps) /\ Distinct(claims')
          /\ ToSet(claims') = ToSet(claims) \cup {Stamp(t, s)}
      BY <2>3, <3>1, <3>2, AppendNew DEF Orders, Stamped
    <3>4. /\ pc'[s] = "committing" /\ list'[s] = list[s]
          /\ \A v \in Sessions \ {s} : pc'[v] = pc[v] /\ list'[v] = list[v]
      BY <2>3 DEF IInv, Types
    <3>5. Stamped'
      BY <3>2, <3>3, <3>4, StampsDiffer, StampsMove DEF Orders
    <3>6. Queued'
      BY <2>1 DEF Orders, Queued
    <3> QED
      BY <2>1, <3>5, <3>6 DEF Orders
  <2> QED
    BY <1>3, <2>2, <2>3 DEF PickCandidate
<1> QED
    BY <1>1, <1>2, <1>3

\* CommitClaim: the job no longer waits, and the tenant waits behind the others.
LEMMA CommitOrders ==
    ASSUME IInv, Orders, NEW s \in Sessions, CommitClaim(s) PROVE Orders'
<1> DEFINE j   == picked[s]
           t   == Head(list[s])
           old == Without(claims, Stamp(t, None))
<1>1. /\ pc[s] = "committing" /\ Return(s) /\ UNCHANGED disruptions
      /\ status' = [status EXCEPT ![j] = "live"]
      /\ queue' = Without(queue, j)
      /\ claims' = ReplaceAll(Without(claims, Stamp(TenantOf[j], None)),
                              Stamp(TenantOf[j], s), Stamp(TenantOf[j], None))
    BY DEF CommitClaim
<1>2. list[s] \in Seq(Tenants) /\ list[s] # << >>
    BY <1>1 DEF IInv, Types, Locked, Settling
<1>3. t \in Tenants /\ j \in Jobs /\ TenantOf[j] = t /\ status[j] = "ready"
    BY <1>1, <1>2 DEF IInv, Picked, JobsOf
<1>4. Queued'
  <2>1. /\ queue' \in Seq(Jobs) /\ Distinct(queue')
        /\ ToSet(queue') = ToSet(queue) \ {j}
    BY <1>1, WithoutOne DEF Orders, Queued
  <2>2. status'[j] = "live" /\ \A k \in Jobs \ {j} : status'[k] = status[k]
    BY <1>1, <1>3 DEF IInv, Types
  <2> QED
    BY <2>1, <2>2 DEF Orders, Queued
<1>5. Stamped'
  <2>1. /\ old \in Seq(Stamps) /\ Distinct(old)
        /\ ToSet(old) = ToSet(claims) \ {Stamp(t, None)}
    BY WithoutOne DEF Orders, Stamped
  <2>2. Stamp(t, s) # Stamp(t, None) /\ Stamp(t, None) \in Stamps
    BY <1>3, StampsDiffer DEF Stamp, Stamps
  <2>3. Stamp(t, s) \in ToSet(claims)
    BY <1>1, <1>3 DEF Orders, Stamped
  <2>4. /\ claims' \in Seq(Stamps) /\ Distinct(claims')
        /\ ToSet(claims') = (ToSet(old) \ {Stamp(t, s)}) \cup {Stamp(t, None)}
    <3>1. Stamp(t, None) \notin ToSet(old) /\ Stamp(t, s) \in ToSet(old)
      BY <2>1, <2>2, <2>3
    <3> HIDE DEF old
    <3>2. claims' = ReplaceAll(old, Stamp(t, s), Stamp(t, None))
      BY <1>1, <1>3 DEF old
    <3> QED
      BY <2>1, <2>2, <3>1, <3>2, ReplaceOne
  <2>5. \A u \in Tenants, v \in Sessions :
           Stamp(u, v) \in ToSet(claims') <=>
             Stamp(u, v) \in ToSet(claims) /\ ~(u = t /\ v = s)
    BY <2>1, <2>4, StampsDiffer
  <2>6. /\ pc'[s] = "idle"
        /\ \A v \in Sessions \ {s} : pc'[v] = pc[v] /\ list'[v] = list[v]
    BY <1>1, ReturnMoves DEF IInv
  <2>7. \A u \in Tenants : Stamp(u, s) \notin ToSet(claims')
    BY <2>5 DEF Orders, Stamped
  <2> QED
    BY <2>4, <2>5, <2>6, <2>7, StampsMove DEF Orders
<1> QED
    BY <1>1, <1>4, <1>5 DEF Orders

\* Rollback: the stamp in flight goes.
LEMMA RollbackOrders ==
    ASSUME IInv, Orders, NEW s \in Sessions, Rollback(s) PROVE Orders'
<1> DEFINE t == Head(list[s])
<1>1. /\ Return(s) /\ UNCHANGED <<status, queue>>
      /\ claims' = Without(claims, Stamp(t, s))
      /\ disruptions < MaxDisruptions /\ disruptions' = disruptions + 1
    BY DEF Rollback, jobVars, Disrupt
<1>2. Queued' /\ disruptions' \in 0..MaxDisruptions
    BY <1>1 DEF Orders, Queued
<1>3. /\ claims' \in Seq(Stamps) /\ Distinct(claims')
      /\ ToSet(claims') = ToSet(claims) \ {Stamp(t, s)}
    BY <1>1, WithoutOne DEF Orders, Stamped
<1>4. /\ pc'[s] = "idle"
      /\ \A v \in Sessions \ {s} : pc'[v] = pc[v] /\ list'[v] = list[v]
    BY <1>1, ReturnMoves DEF IInv
<1>5. \A u \in Tenants : Stamp(u, s) \notin ToSet(claims')
    BY <1>3 DEF Orders, Stamped
<1>6. \A u \in Tenants, v \in Sessions \ {s} :
         Stamp(u, v) \in ToSet(claims') <=> Stamp(u, v) \in ToSet(claims)
    BY <1>3, StampsDiffer
<1>7. Stamped'
    BY <1>3, <1>4, <1>5, <1>6, StampsMove DEF Orders
<1> QED
    BY <1>2, <1>7 DEF Orders

\* A job that comes, goes or waits again.
LEMMA BecomeOrders ==
    ASSUME IInv, Orders, NEW j \in Jobs, NEW s \in {"absent", "ready", "lapsed"},
           Become(j, s), s = "ready" => status[j] # "ready",
           disruptions' \in 0..MaxDisruptions
    PROVE  Orders'
<1>1. /\ status' = [status EXCEPT ![j] = s] /\ queue' = Requeued(j, s)
      /\ UNCHANGED <<claims, pc, list>>
    BY DEF Become, sessionVars
<1>2. status'[j] = s /\ \A k \in Jobs \ {j} : status'[k] = status[k]
    BY <1>1 DEF IInv, Types
<1>3. CASE s = "ready"
  <2>1. j \notin ToSet(queue)
    BY <1>3 DEF Orders, Queued
  <2>2. /\ queue' \in Seq(Jobs) /\ Distinct(queue')
        /\ ToSet(queue') = ToSet(queue) \cup {j}
    BY <1>1, <1>3, <2>1, AppendNew DEF Orders, Queued, Requeued
  <2>3. Queued'
    BY <1>2, <1>3, <2>2 DEF Orders, Queued
  <2> QED
    BY <1>1, <2>3 DEF Orders, Stamped
<1>4. CASE s # "ready"
  <2>1. /\ queue' \in Seq(Jobs) /\ Distinct(queue')
        /\ ToSet(queue') = ToSet(queue) \ {j}
    BY <1>1, <1>4, WithoutOne DEF Orders, Queued, Requeued
  <2>2. Queued'
    BY <1>2, <1>4, <2>1 DEF Orders, Queued
  <2> QED
    BY <1>1, <2>2 DEF Orders, Stamped
<1> QED
    BY <1>3, <1>4

\* The ready jobs wait in one queue without repetition, and a claim in flight has its
\* one stamp.
THEOREM Ordered == Spec => []Orders
<1>1. Init => Orders
  <2> SUFFICES ASSUME Init PROVE Orders
    OBVIOUS
  <2>1. ToSet(<< >>) = {} /\ Distinct(<< >>)
    BY EmptySeq DEF ToSet, Distinct
  <2> QED
    BY <2>1, EmptySeq DEF Init, Orders, Queued, Stamped
<1>2. IInv /\ Orders /\ [Next]_vars => Orders'
  <2> SUFFICES ASSUME IInv, Orders, [Next]_vars PROVE Orders'
    OBVIOUS
  <2>1. ASSUME NEW s \in Sessions, ClaimStep(s) \/ Rollback(s) PROVE Orders'
    BY <2>1, ClaimOrders, CommitOrders, RollbackOrders DEF ClaimStep
  <2>2. disruptions \in 0..MaxDisruptions /\ (Disrupt => disruptions' \in 0..MaxDisruptions)
    BY DEF Orders, Disrupt
  <2>3. ASSUME NEW j \in Jobs, Arrive(j) \/ Withdraw(j) PROVE Orders'
    BY <2>2, <2>3, BecomeOrders DEF Arrive, Withdraw
  <2>4. ASSUME NEW j \in Jobs, Finish(j) \/ LeaseLapses(j) \/ ReconcileExpiredLease(j)
        PROVE  Orders'
    BY <2>2, <2>4, BecomeOrders DEF Finish, LeaseLapses, ReconcileExpiredLease
  <2>5. ASSUME UNCHANGED <<queue, claims, pc, list, disruptions>>,
               \A j \in Jobs : status'[j] = "ready" <=> status[j] = "ready"
        PROVE  Orders'
    BY <2>5 DEF Orders, Queued, Stamped
  <2>6. ASSUME NEW j \in Jobs, CheckLease(j) PROVE Orders'
    BY <2>5, <2>6 DEF CheckLease, sessionVars
  <2>7. ASSUME NEW j \in Jobs, CommitHeartbeat(j) PROVE Orders'
    <3>1. status[j] # "ready"
      BY <2>7 DEF IInv, Renewals, CommitHeartbeat
    <3>2. \A k \in Jobs : status'[k] = IF k = j THEN "live" ELSE status[k]
      BY <2>7 DEF IInv, Types, CommitHeartbeat
    <3> QED
      BY <2>5, <2>7, <3>1, <3>2 DEF CommitHeartbeat, sessionVars
  <2>8. CASE UNCHANGED vars
    BY <2>5, <2>8 DEF vars, jobVars, sessionVars
  <2> QED
    BY <2>1, <2>3, <2>4, <2>6, <2>7, <2>8 DEF Next
<1> QED
    BY <1>1, <1>2, Inductive, PTL DEF Spec

\* Every reachable state is well typed, and the queue holds the ready jobs.
THEOREM Typing == Spec => []TypeOK
<1>1. IInv /\ Orders => TypeOK
    BY DEF IInv, Types, Renewals, Orders, Queued, Stamped, Stamps, TypeOK
<1> QED
    BY <1>1, Inductive, Ordered, PTL

=============================================================================
