---------------------------- MODULE TenantClaims ----------------------------
(***************************************************************************)
(* How claim_ingestion_job shares the workers among tenants.  Sessions run *)
(* it concurrently: each lists the tenants that have ready jobs and a free *)
(* slot, the least recently served first, takes the advisory lock of the   *)
(* first one it gets, and picks a job with a second, fresh count.  What a  *)
(* session read or picked is not visible, and its lock is not released,    *)
(* before it commits.                                                      *)
(*                                                                         *)
(* A slot is a live lease.  A lease may lapse while its execution goes on, *)
(* and the heartbeat that checked it in time may commit after it lapsed.   *)
(***************************************************************************)
EXTENDS Integers, FiniteSets, SequencesExt

CONSTANTS
    Sessions,      \* database sessions of the workers
    Tenants,       \* organizations
    Jobs,          \* places for jobs: a new job may take the place of one gone
    TenantOf,      \* the organization of each place
    None,          \* SQL NULL, no session
    Cap,           \* p_active_jobs_per_tenant
    MaxDisruptions \* bound on lost connections, lapsed leases and
                   \* cancellations of ready jobs

ASSUME TenantOfJobs == TenantOf \in [Jobs -> Tenants]
ASSUME FiniteRows   == IsFiniteSet(Jobs) /\ IsFiniteSet(Tenants)
ASSUME NoneSession  == None \notin Sessions \cup Jobs
ASSUME CapIsNat     == Cap \in Nat /\ MaxDisruptions \in Nat

VARIABLES
    status,     \* committed status of each job; "lapsed" is in progress after
                \* lease_expires_at
    queue,      \* ready jobs by next_attempt_at and created_at
    renewing,   \* jobs whose heartbeat has checked the lease and not committed
    revived,    \* live jobs whose lease had lapsed when their heartbeat
                \* committed
    claims,     \* the last claim of each tenant by last_claimed_at, and the
                \* claims in flight with their session
    lock,       \* the session with the advisory lock of each tenant
    pc,         \* where each session is
    list,       \* v_ready: the tenants a session has still to try
    picked,     \* the row a session has updated and not committed
    disruptions \* used of MaxDisruptions

jobVars     == <<status, queue, renewing, revived>>
sessionVars == <<lock, pc, list, picked>>
vars        == <<jobVars, claims, sessionVars, disruptions>>

TypeOK ==
    /\ status \in [Jobs -> {"absent", "ready", "live", "lapsed"}]
    /\ queue \in Seq(Jobs)
    /\ ToSet(queue) = {j \in Jobs : status[j] = "ready"}
    /\ renewing \subseteq Jobs
    /\ revived \subseteq Jobs
    /\ claims \in Seq([tenant : Tenants, by : Sessions \cup {None}])
    /\ lock \in [Tenants -> Sessions \cup {None}]
    /\ pc \in [Sessions -> {"idle", "locking", "picking", "committing"}]
    /\ list \in [Sessions -> Seq(Tenants)]
    /\ picked \in [Sessions -> Jobs \cup {None}]
    /\ disruptions \in 0..MaxDisruptions

Init ==
    /\ status = [j \in Jobs |-> "absent"]
    /\ queue = << >>
    /\ renewing = {}
    /\ revived = {}
    /\ claims = << >>
    /\ lock = [t \in Tenants |-> None]
    /\ pc = [s \in Sessions |-> "idle"]
    /\ list = [s \in Sessions |-> << >>]
    /\ picked = [s \in Sessions |-> None]
    /\ disruptions = 0

\* Queues without repetitions.
Position(q, x) == CHOOSE i \in DOMAIN q : q[i] = x
Without(q, x)  == IF x \in ToSet(q) THEN RemoveAt(q, Position(q, x)) ELSE q

JobsOf(t)  == {j \in Jobs : TenantOf[j] = t}
LiveOf(t)  == {j \in JobsOf(t) : status[j] = "live"}

\* Jobs of t a claim may take.
ReadyOf(t)   == {j \in JobsOf(t) : status[j] = "ready"}
Claimable(t) == IF Cardinality(LiveOf(t)) < Cap THEN ReadyOf(t) ELSE {}
CanClaim(t)  == Claimable(t) # {}

\* ORDER BY last_claimed_at ASC NULLS FIRST, next_attempt_at, created_at.
Oldest(j, jobs)   == \A k \in jobs : Position(queue, j) <= Position(queue, k)
ByAge(t, u)       == \E j \in ReadyOf(t) : Oldest(j, ReadyOf(u))
Stamp(t, s)       == [tenant |-> t, by |-> s]
LastClaim(t)      == Position(claims, Stamp(t, None))
Never(t)          == Stamp(t, None) \notin ToSet(claims)
LatestFirst(t, u) ==
    \/ Never(t) /\ (Never(u) => ByAge(t, u))
    \/ ~Never(t) /\ ~Never(u) /\ LastClaim(t) > LastClaim(u)
Before(t, u) ==
    \/ Never(t) /\ (Never(u) => ByAge(t, u))
    \/ ~Never(t) /\ ~Never(u) /\ LastClaim(t) < LastClaim(u)

Row(j) == \E s \in Sessions : picked[s] = j

-----------------------------------------------------------------------------
(***************************************************************************)
(* One call of claim_ingestion_job.                                        *)
(***************************************************************************)

\* The rows of the FOR loop: a snapshot of the ready tenants.
List(s) ==
    /\ pc[s] = "idle"
    /\ LET ready == {t \in Tenants : CanClaim(t)} IN
         /\ ready # {}
         /\ \E l \in SetToSeqs(ready) :
               /\ \A i, k \in DOMAIN l : i < k => Before(l[i], l[k])
               /\ list' = [list EXCEPT ![s] = l]
    /\ pc' = [pc EXCEPT ![s] = "locking"]
    /\ UNCHANGED <<jobVars, claims, lock, picked, disruptions>>

\* The call returns and its transaction ends.
Return(s) ==
    /\ pc' = [pc EXCEPT ![s] = "idle"]
    /\ list' = [list EXCEPT ![s] = << >>]
    /\ picked' = [picked EXCEPT ![s] = None]
    /\ lock' = [t \in Tenants |-> IF lock[t] = s THEN None ELSE lock[t]]

\* pg_try_advisory_xact_lock: a tenant another claim is working on is skipped.
Lockable(t)   == lock[t] = None
TryLock(s) ==
    /\ pc[s] = "locking"
    /\ \/ /\ Lockable(Head(list[s]))
          /\ lock' = [lock EXCEPT ![Head(list[s])] = s]
          /\ pc' = [pc EXCEPT ![s] = "picking"]
          /\ UNCHANGED <<list, picked>>
       \/ /\ ~Lockable(Head(list[s]))
          /\ Len(list[s]) > 1
          /\ list' = [list EXCEPT ![s] = Tail(@)]
          /\ UNCHANGED <<lock, pc, picked>>
       \/ /\ ~Lockable(Head(list[s]))
          /\ Len(list[s]) = 1
          /\ Return(s)
    /\ UNCHANGED <<jobVars, claims, disruptions>>

\* The second statement reads what was committed in the meantime, and skips
\* locked rows.
Unlocked(jobs)          == {j \in jobs : ~Row(j)}
CandidatesUnchecked(t)  == Unlocked(ReadyOf(t))
Candidates(t)           == Unlocked(Claimable(t))
PickCandidate(s) ==
    /\ pc[s] = "picking"
    /\ LET t == Head(list[s]) IN
         \/ /\ \E j \in Candidates(t) :
                  /\ Oldest(j, Candidates(t))
                  /\ picked' = [picked EXCEPT ![s] = j]
            /\ claims' = Append(claims, Stamp(t, s))
            /\ pc' = [pc EXCEPT ![s] = "committing"]
            /\ UNCHANGED <<lock, list>>
         \/ /\ Candidates(t) = {}
            /\ Return(s)
            /\ UNCHANGED claims
    /\ UNCHANGED <<jobVars, disruptions>>

CommitClaim(s) ==
    /\ pc[s] = "committing"
    /\ status' = [status EXCEPT ![picked[s]] = "live"]
    /\ queue' = Without(queue, picked[s])
    /\ LET t   == TenantOf[picked[s]]
           old == Without(claims, Stamp(t, None))
       IN  claims' = ReplaceAll(old, Stamp(t, s), Stamp(t, None))
    /\ Return(s)
    /\ UNCHANGED <<renewing, revived, disruptions>>

Disrupt == /\ disruptions < MaxDisruptions
           /\ disruptions' = disruptions + 1

\* The connection of the worker is lost: nothing of the claim remains.
Rollback(s) ==
    /\ pc[s] # "idle"
    /\ Disrupt
    /\ Return(s)
    /\ claims' = Without(claims, Stamp(Head(list[s]), s))
    /\ UNCHANGED jobVars

-----------------------------------------------------------------------------
(***************************************************************************)
(* The life of the jobs around it.                                         *)
(***************************************************************************)

\* Where a job that changes to s waits: next_attempt_at is now, or null.
Unforgotten(j, s) == IF s = "ready" THEN Append(queue, j) ELSE queue
Requeued(j, s)    == IF s = "ready" THEN Append(queue, j) ELSE Without(queue, j)

Become(j, s) ==
    /\ status' = [status EXCEPT ![j] = s]
    /\ queue' = Requeued(j, s)
    /\ revived' = revived \ {j}
    /\ UNCHANGED <<renewing, claims, sessionVars>>

\* A job is admitted, or its backoff elapses.
Arrive(j) ==
    /\ status[j] = "absent"
    /\ Become(j, "ready")
    /\ UNCHANGED disruptions

\* A job is cancelled before it is claimed.
Withdraw(j) ==
    /\ status[j] = "ready"
    /\ ~Row(j)
    /\ Disrupt
    /\ Become(j, "absent")

\* An execution records its outcome: the job is settled or waits for a retry,
\* or is ready at once after a release.
Finish(j) ==
    /\ status[j] = "live"
    /\ j \notin renewing
    /\ \E s \in {"absent", "ready"} : Become(j, s)
    /\ UNCHANGED disruptions

LeaseLapses(j) ==
    /\ status[j] = "live"
    /\ Disrupt
    /\ Become(j, "lapsed")

\* reconcile_fiscal_ingestion_foundation skips locked rows.
ReconcileExpiredLease(j) ==
    /\ status[j] = "lapsed"
    /\ j \notin renewing
    /\ Become(j, "absent")
    /\ UNCHANGED disruptions

\* heartbeat: the lease is checked when the row is locked.
CheckLease(j) ==
    /\ status[j] = "live"
    /\ j \notin renewing
    /\ renewing' = renewing \cup {j}
    /\ UNCHANGED <<status, queue, revived, claims, sessionVars, disruptions>>

CommitHeartbeat(j) ==
    /\ j \in renewing
    /\ renewing' = renewing \ {j}
    /\ status' = [status EXCEPT ![j] = "live"]
    /\ revived' = IF status[j] = "lapsed" THEN revived \cup {j} ELSE revived
    /\ UNCHANGED <<queue, claims, sessionVars, disruptions>>

ClaimStep(s) == List(s) \/ TryLock(s) \/ PickCandidate(s) \/ CommitClaim(s)

Next ==
    \/ \E s \in Sessions : ClaimStep(s) \/ Rollback(s)
    \/ \E j \in Jobs : \/ Arrive(j) \/ Withdraw(j) \/ Finish(j) \/ LeaseLapses(j)
                       \/ ReconcileExpiredLease(j)
                       \/ CheckLease(j) \/ CommitHeartbeat(j)

Spec == Init /\ [][Next]_vars

(***************************************************************************)
(* Workers poll and their statements return; heartbeats return; executions *)
(* end, and stop their heartbeat to record the end; leases nobody renews   *)
(* are reconciled.                                                         *)
(***************************************************************************)
Fairness ==
    /\ \A s \in Sessions : WF_vars(ClaimStep(s))
    /\ \A j \in Jobs : /\ WF_vars(CommitHeartbeat(j))
                       /\ WF_vars(ReconcileExpiredLease(j))
                       /\ SF_vars(Finish(j))

FairSpec == Spec /\ Fairness

-----------------------------------------------------------------------------
(***************************************************************************)
(* Properties.                                                             *)
(***************************************************************************)

\* Concurrent claims never give a tenant more slots than the cap, although
\* each lists the tenants before others commit: only a lease that a heartbeat
\* brought back after it lapsed comes on top.
SlotsWithinCap ==
    \A t \in Tenants : Cardinality(LiveOf(t) \ revived) <= Cap

\* A ready job is claimed in the end, or cancelled: no tenant starves another
\* by the jobs it keeps sending, nor a job the ones behind it.
EveryJobServed ==
    \A j \in Jobs : status[j] = "ready" ~> status[j] # "ready" \/ Row(j)

=============================================================================
