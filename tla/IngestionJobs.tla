--------------------------- MODULE IngestionJobs ---------------------------
(***************************************************************************)
(* The durable ingestion queue: rows of ingestion_jobs claimed, leased,    *)
(* heartbeated and settled by the executions of worker processes, repaired *)
(* by the reconciler and cancelled by the API.  PostgreSQL is the only     *)
(* authority: an execution owns a job exactly while the row carries its    *)
(* lease token, and every write of a worker is fenced by that token, the   *)
(* row's status and an unexpired lease.                                    *)
(*                                                                         *)
(* The jobs are manual_xml jobs, which have one item each.  An action is   *)
(* one committed transaction, or one step of the runner between two        *)
(* awaits.  The clock is abstracted to what its readers compare with it:   *)
(* whether a lease has expired and whether next_attempt_at is due.         *)
(***************************************************************************)
EXTENDS Integers, FiniteSets

CONSTANTS
    Jobs,            \* rows of ingestion_jobs
    Tokens,          \* lease tokens; an execution is known by its token
    Workers,         \* worker processes
    Orgs,            \* organizations (tenants)
    OrgOf,           \* the organization of each job
    None,            \* SQL NULL
    MaxRetries,      \* WORKER_MAX_RETRIES
    TenantCap,       \* activeJobsPerTenant
    Concurrency,     \* executions one worker process runs at a time
    MaxDisruptions   \* bound on crashes and shutdowns of worker processes

ASSUME RetriesAssumption == MaxRetries \in Nat
ASSUME CapAssumption == TenantCap \in Nat /\ Concurrency \in Nat
ASSUME BoundAssumption == MaxDisruptions \in Nat
ASSUME OrgAssumption == OrgOf \in [Jobs -> Orgs]
ASSUME NoneAssumption == None \notin Tokens \cup Jobs \cup Workers

VARIABLES
    status,        \* ingestion_jobs.status
    owner,         \* ingestion_jobs.locked_by
    leaseLive,     \* lease_expires_at > clock_timestamp()
    due,           \* next_attempt_at <= clock_timestamp()
    retries,       \* automatic_retry_count
    attempts,      \* attempt_count
    released,      \* audit rows 'ingestion.job.shutdown_released' of the job
    rootGone,      \* jobs whose root object or upload is rejected or deleted
    item,          \* the job's ingestion_items row
    pc,            \* where each execution is
    work,          \* the job an execution was given
    home,          \* the worker process an execution runs in
    lostLease,     \* ActiveExecution.lostLease
    cancelSeen,    \* ActiveExecution.cancelRequested
    worker,        \* the state of each worker process
    disruptions    \* crashes and shutdowns so far

queueVars == <<status, owner, leaseLive, due, retries, attempts, released>>
execVars  == <<pc, work, home, lostLease, cancelSeen>>
procVars  == <<worker, disruptions>>
vars      == <<queueVars, rootGone, item, execVars, procVars>>

Claimable  == {"queued", "failed_retryable"}
InProgress == {"processing", "cancel_requested"}
Terminal   == {"completed", "failed_final", "cancelled"}
Status     == Claimable \cup InProgress \cup Terminal

ItemOpen   == {"pending", "processing"}
ItemState  == ItemOpen \cup {"published", "internal_error"}

\* An execution heartbeats from startExecution until stopHeartbeat.
Handling   == {"begin", "work"}
Ended      == {"returned", "threw_retryable", "threw_final"}
Failures   == {"threw_retryable", "threw_final"}
Beating    == Handling \cup Ended
Settling   == {"completing", "cancelling", "releasing", "failing", "retrying"}
Control    == {"idle", "claimed"} \cup Beating \cup Settling

-----------------------------------------------------------------------------
(***************************************************************************)
(* The fence every worker write repeats in its WHERE clause.               *)
(***************************************************************************)
Owns(t)  == /\ pc[t] # "idle"
            /\ owner[work[t]] = t
            /\ leaseLive[work[t]]
Fence(t) == Owns(t) /\ status[work[t]] = "processing"

\* Executions of a process: runner.active plus the claim in flight.
ExecutionsOf(w) == {t \in Tokens : pc[t] # "idle" /\ home[t] = w}

\* Jobs of an organization that occupy one of its slots.
ActiveOf(o) == {k \in Jobs : /\ OrgOf[k] = o
                             /\ status[k] \in InProgress
                             /\ leaseLive[k]}

TypeOK ==
    /\ status \in [Jobs -> Status]
    /\ owner \in [Jobs -> Tokens \cup {None}]
    /\ leaseLive \in [Jobs -> BOOLEAN]
    /\ due \in [Jobs -> BOOLEAN]
    /\ retries \in [Jobs -> Nat]
    /\ attempts \in [Jobs -> Nat]
    /\ released \in [Jobs -> Nat]
    /\ rootGone \in SUBSET Jobs
    /\ item \in [Jobs -> ItemState]
    /\ pc \in [Tokens -> Control]
    /\ work \in [Tokens -> Jobs \cup {None}]
    /\ home \in [Tokens -> Workers \cup {None}]
    /\ lostLease \in [Tokens -> BOOLEAN]
    /\ cancelSeen \in [Tokens -> BOOLEAN]
    /\ worker \in [Workers -> {"running", "stopping", "down"}]
    /\ disruptions \in Nat

\* Every job has been admitted: createJob inserts it queued, due and with
\* its single item pending.
Init ==
    /\ status = [j \in Jobs |-> "queued"]
    /\ owner = [j \in Jobs |-> None]
    /\ leaseLive = [j \in Jobs |-> FALSE]
    /\ due = [j \in Jobs |-> TRUE]
    /\ retries = [j \in Jobs |-> 0]
    /\ attempts = [j \in Jobs |-> 0]
    /\ released = [j \in Jobs |-> 0]
    /\ rootGone = {}
    /\ item = [j \in Jobs |-> "pending"]
    /\ pc = [t \in Tokens |-> "idle"]
    /\ work = [t \in Tokens |-> None]
    /\ home = [t \in Tokens |-> None]
    /\ lostLease = [t \in Tokens |-> FALSE]
    /\ cancelSeen = [t \in Tokens |-> FALSE]
    /\ worker = [w \in Workers |-> "running"]
    /\ disruptions = 0

-----------------------------------------------------------------------------
(***************************************************************************)
(* Claiming.                                                               *)
(***************************************************************************)

\* The automatic retry budget of a job.  (Variants of a definition, named for
\* what they get wrong, precede it: each breaks a property below.)
ExhaustedLate(j) == retries[j] > MaxRetries
Exhausted(j)     == retries[j] >= MaxRetries

ChargeForgotten(j) == UNCHANGED retries
ChargeReversed(j)  == retries' = [retries EXCEPT ![j] = @ - 1]
Charge(j)          == retries' = [retries EXCEPT ![j] = @ + 1]

\* claim_ingestion_job may hand j out: it is due, within its budget, and its
\* organization has a free slot.
Ready(j) ==
    /\ status[j] \in Claimable
    /\ due[j]
    /\ retries[j] <= MaxRetries
    /\ Cardinality(ActiveOf(OrgOf[j])) < TenantCap

\* drain() calls claimNext with a lease token never used before.  The
\* advisory lock of the organization serializes its claims, so the recheck
\* and the update are one step.
Claim(w, t, j) ==
    /\ worker[w] = "running"
    /\ Cardinality(ExecutionsOf(w)) < Concurrency
    /\ \A u \in ExecutionsOf(w) : pc[u] # "claimed"
    /\ pc[t] = "idle"
    /\ \A k \in Jobs : owner[k] # t
    /\ Ready(j)
    /\ status' = [status EXCEPT ![j] = "processing"]
    /\ attempts' = [attempts EXCEPT ![j] = @ + 1]
    /\ owner' = [owner EXCEPT ![j] = t]
    /\ leaseLive' = [leaseLive EXCEPT ![j] = TRUE]
    /\ due' = [due EXCEPT ![j] = FALSE]
    /\ pc' = [pc EXCEPT ![t] = "claimed"]
    /\ work' = [work EXCEPT ![t] = j]
    /\ home' = [home EXCEPT ![t] = w]
    /\ lostLease' = [lostLease EXCEPT ![t] = FALSE]
    /\ cancelSeen' = [cancelSeen EXCEPT ![t] = FALSE]
    /\ UNCHANGED <<retries, released, rootGone, item, procVars>>

\* The claim returns to drain(): a worker that began stopping meanwhile gives
\* the job back, otherwise the execution starts.
StartExecution(t) ==
    /\ pc[t] = "claimed"
    /\ pc' = [pc EXCEPT ![t] =
                IF worker[home[t]] = "stopping" THEN "releasing" ELSE "begin"]
    /\ UNCHANGED <<queueVars, rootGone, item, work, home, lostLease,
                   cancelSeen, procVars>>

-----------------------------------------------------------------------------
(***************************************************************************)
(* The handler: begin, work outside any transaction, publish.              *)
(***************************************************************************)

\* An item a former execution left terminal is not processed again.
ToProcess(j) == item[j] \in ItemOpen

\* loadAndBegin under the fence: without it either the row is not found or the
\* stage update rolls the item back.
LoadAndBegin(t) ==
    /\ pc[t] = "begin"
    /\ \/ /\ Fence(t)
          /\ ~ToProcess(work[t])
          /\ pc' = [pc EXCEPT ![t] = "returned"]
          /\ UNCHANGED item
       \/ /\ Fence(t)
          /\ ToProcess(work[t])
          /\ item' = [item EXCEPT ![work[t]] = "processing"]
          /\ pc' = [pc EXCEPT ![t] = "work"]
       \/ /\ ~Fence(t)
          /\ \E e \in Failures : pc' = [pc EXCEPT ![t] = e]
          /\ UNCHANGED item
    /\ UNCHANGED <<queueVars, rootGone, work, home, lostLease, cancelSeen,
                   procVars>>

\* publishParsed, publishRejected and publishMalware end in finishItem: the
\* item becomes terminal in the transaction whose last update is fenced; a
\* lost fence rolls everything back and throws JOB_LEASE_LOST.  The answer of
\* the commit may be lost: the handler then throws with the item published.
Publish(t) ==
    /\ pc[t] = "work"
    /\ \/ /\ Fence(t)
          /\ item' = [item EXCEPT ![work[t]] = "published"]
          /\ \E outcome \in {"returned", "threw_retryable"} :
                pc' = [pc EXCEPT ![t] = outcome]
       \/ /\ ~Fence(t)
          /\ pc' = [pc EXCEPT ![t] = "threw_final"]
          /\ UNCHANGED item
    /\ UNCHANGED <<queueVars, rootGone, work, home, lostLease, cancelSeen,
                   procVars>>

\* Storage, scanner, parser or database fails, or the handler observes its
\* abort signal; the error is retryable or final.
HandlerThrows(t) ==
    /\ pc[t] \in Handling
    /\ \E e \in Failures : pc' = [pc EXCEPT ![t] = e]
    /\ UNCHANGED <<queueVars, rootGone, item, work, home, lostLease,
                   cancelSeen, procVars>>

-----------------------------------------------------------------------------
(***************************************************************************)
(* The heartbeat chain of an execution.                                    *)
(***************************************************************************)
Heartbeat(t) ==
    /\ pc[t] \in Beating
    /\ \/ /\ Fence(t)     \* renewed: the lease is live again for 90 s
          /\ leaseLive' = [leaseLive EXCEPT ![work[t]] = TRUE]
          /\ UNCHANGED <<lostLease, cancelSeen>>
       \/ /\ Owns(t)
          /\ status[work[t]] = "cancel_requested"
          /\ cancelSeen' = [cancelSeen EXCEPT ![t] = TRUE]
          /\ UNCHANGED <<lostLease, leaseLive>>
       \/ /\ ~Owns(t)
          /\ lostLease' = [lostLease EXCEPT ![t] = TRUE]
          /\ UNCHANGED <<cancelSeen, leaseLive>>
    /\ UNCHANGED <<status, owner, due, retries, attempts, released, rootGone,
                   item, pc, work, home, procVars>>

\* The heartbeat query fails: the runner gives the lease up for lost.
HeartbeatFails(t) ==
    /\ pc[t] \in Beating
    /\ lostLease' = [lostLease EXCEPT ![t] = TRUE]
    /\ UNCHANGED <<queueVars, rootGone, item, pc, work, home, cancelSeen,
                   procVars>>

-----------------------------------------------------------------------------
(***************************************************************************)
(* The end of an execution: stopHeartbeat, then one fenced transition.     *)
(***************************************************************************)

EndOf(t) == /\ pc' = [pc EXCEPT ![t] = "idle"]
            /\ work' = [work EXCEPT ![t] = None]
            /\ home' = [home EXCEPT ![t] = None]
            /\ lostLease' = [lostLease EXCEPT ![t] = FALSE]
            /\ cancelSeen' = [cancelSeen EXCEPT ![t] = FALSE]

\* The transition execute() attempts for an outcome of the handler, when the
\* lease is not known to be lost: cancellation first, then shutdown.
ByOutcome == [returned        |-> "completing",
              threw_final     |-> "failing",
              threw_retryable |-> "retrying"]

Transition(t, outcome) ==
    IF cancelSeen[t] THEN "cancelling"
    ELSE IF worker[home[t]] = "stopping" THEN "releasing"
    ELSE ByOutcome[outcome]

\* No heartbeat runs any more and the lease is not known to be lost.
Decide(t) ==
    /\ pc[t] \in Ended
    /\ ~lostLease[t]
    /\ pc' = [pc EXCEPT ![t] = Transition(t, @)]
    /\ UNCHANGED <<queueVars, rootGone, item, work, home, lostLease,
                   cancelSeen, procVars>>

Abandon(t) ==
    /\ pc[t] \in Ended
    /\ lostLease[t]
    /\ EndOf(t)
    /\ UNCHANGED <<queueVars, rootGone, item, procVars>>

\* A transition of j: its new status; ownership is always given up with it.
Unlock(j, s) ==
    /\ status' = [status EXCEPT ![j] = s]
    /\ owner' = [owner EXCEPT ![j] = None]
    /\ leaseLive' = [leaseLive EXCEPT ![j] = FALSE]

\* terminalizeManualItems: an open item of a job that failed for good.
CloseItem(j) ==
    item' = [item EXCEPT ![j] = IF @ \in ItemOpen THEN "internal_error" ELSE @]

Complete(t) ==
    /\ pc[t] = "completing"
    /\ Fence(t)
    /\ Unlock(work[t], "completed")
    /\ EndOf(t)
    /\ UNCHANGED <<due, retries, attempts, released, rootGone, item, procVars>>

\* complete() throws inside the try block: its error is handled like one of
\* the handler, by a retry unless the process is stopping by now.
CompleteThrows(t) ==
    /\ pc[t] = "completing"
    /\ pc' = [pc EXCEPT ![t] = Transition(t, "threw_retryable")]
    /\ UNCHANGED <<queueVars, rootGone, item, work, home, lostLease,
                   cancelSeen, procVars>>

AcknowledgeCancel(t) ==
    /\ pc[t] = "cancelling"
    /\ Owns(t)
    /\ status[work[t]] = "cancel_requested"
    /\ Unlock(work[t], "cancelled")
    /\ EndOf(t)
    /\ UNCHANGED <<due, retries, attempts, released, rootGone, item, procVars>>

FailFinal(t) ==
    /\ pc[t] = "failing"
    /\ Fence(t)
    /\ Unlock(work[t], "failed_final")
    /\ CloseItem(work[t])
    /\ EndOf(t)
    /\ UNCHANGED <<due, retries, attempts, released, rootGone, procVars>>

\* The retry budget is spent: the job fails for good and its item is closed;
\* otherwise it waits for its backoff.
ScheduleRetry(t) ==
    /\ pc[t] = "retrying"
    /\ Fence(t)
    /\ \/ /\ Exhausted(work[t])
          /\ Unlock(work[t], "failed_final")
          /\ CloseItem(work[t])
          /\ UNCHANGED retries
       \/ /\ ~Exhausted(work[t])
          /\ Unlock(work[t], "failed_retryable")
          /\ Charge(work[t])
          /\ UNCHANGED item
    /\ EndOf(t)
    /\ UNCHANGED <<due, attempts, released, rootGone, procVars>>

\* A graceful release is due at once and costs no retry; a cancellation that
\* was requested meanwhile is honoured.
ReleasedAs(j) == IF status[j] = "cancel_requested" THEN "cancelled" ELSE "queued"

ReleaseForShutdown(t) ==
    /\ pc[t] = "releasing"
    /\ Owns(t)
    /\ status[work[t]] \in InProgress
    /\ Unlock(work[t], ReleasedAs(work[t]))
    /\ due' = [due EXCEPT ![work[t]] = ReleasedAs(work[t]) = "queued"]
    /\ released' = [released EXCEPT ![work[t]] = @ + 1]
    /\ EndOf(t)
    /\ UNCHANGED <<retries, attempts, rootGone, item, procVars>>

\* The WHERE clause of the transition matched no row, or its query failed
\* outside the try block, or the answer of a committed claim was lost: the
\* execution ends and the row is left to its new owner or the reconciler.
GiveUp(t) ==
    /\ pc[t] \in Settling \cup {"claimed"}
    /\ pc[t] = "completing" => ~Fence(t)
    /\ EndOf(t)
    /\ UNCHANGED <<queueVars, rootGone, item, procVars>>

-----------------------------------------------------------------------------
(***************************************************************************)
(* The API, the reconciler, worker processes and the clock.                *)
(***************************************************************************)

\* request_ingestion_job_cancellation: an active job whose item is not
\* terminal yet; a running one is only asked to stop.
Cancellable(j) == status[j] \notin Terminal /\ item[j] \in ItemOpen

RequestCancellation(j) ==
    /\ Cancellable(j)
    /\ status' = [status EXCEPT ![j] =
                    IF @ \in InProgress THEN "cancel_requested" ELSE "cancelled"]
    /\ due' = [due EXCEPT ![j] = status[j] \in InProgress /\ @]
    /\ UNCHANGED <<owner, leaseLive, retries, attempts, released, rootGone,
                   item, execVars, procVars>>

\* The reconciler's first statement, for one of the rows it locks.  It runs
\* in any worker process, also one that is stopping.
LeaseExpired(j) == status[j] \in InProgress /\ ~leaseLive[j]

ReconcileExpiredLease(j) ==
    /\ \E w \in Workers : worker[w] # "down"
    /\ LeaseExpired(j)
    /\ \/ /\ status[j] = "cancel_requested"
          /\ Unlock(j, "cancelled")
          /\ UNCHANGED retries
       \/ /\ status[j] = "processing"
          /\ Exhausted(j)
          /\ Unlock(j, "failed_final")
          /\ UNCHANGED retries
       \/ /\ status[j] = "processing"
          /\ ~Exhausted(j)
          /\ Unlock(j, "failed_retryable")
          /\ Charge(j)
    /\ UNCHANGED <<due, attempts, released, rootGone, item, execVars, procVars>>

\* The reconciler's orphan statement: a waiting job whose root is gone.
ReconcileOrphanJob(j) ==
    /\ \E w \in Workers : worker[w] # "down"
    /\ status[j] \in Claimable
    /\ j \in rootGone
    /\ status' = [status EXCEPT ![j] = "failed_final"]
    /\ due' = [due EXCEPT ![j] = FALSE]
    /\ UNCHANGED <<owner, leaseLive, retries, attempts, released, rootGone,
                   item, execVars, procVars>>

\* Something outside this module rejects or deletes the root of an open job.
RootLost(j) ==
    /\ status[j] \notin Terminal
    /\ rootGone' = rootGone \cup {j}
    /\ UNCHANGED <<queueVars, item, execVars, procVars>>

\* onApplicationShutdown sets stopping; claims in flight may still arrive.
Shutdown(w) ==
    /\ worker[w] = "running"
    /\ disruptions < MaxDisruptions
    /\ worker' = [worker EXCEPT ![w] = "stopping"]
    /\ disruptions' = disruptions + 1
    /\ UNCHANGED <<queueVars, rootGone, item, execVars>>

\* A stopping process exits when its grace period ends, a running one by a
\* crash; the executions it still runs are gone, their rows stay leased.
Exit(w) ==
    /\ \/ worker[w] = "stopping" /\ UNCHANGED disruptions
       \/ /\ worker[w] = "running"
          /\ disruptions < MaxDisruptions
          /\ disruptions' = disruptions + 1
    /\ worker' = [worker EXCEPT ![w] = "down"]
    /\ LET gone == ExecutionsOf(w)
       IN  /\ pc' = [t \in Tokens |-> IF t \in gone THEN "idle" ELSE pc[t]]
           /\ work' = [t \in Tokens |-> IF t \in gone THEN None ELSE work[t]]
           /\ home' = [t \in Tokens |-> IF t \in gone THEN None ELSE home[t]]
           /\ lostLease' = [t \in Tokens |-> t \notin gone /\ lostLease[t]]
           /\ cancelSeen' = [t \in Tokens |-> t \notin gone /\ cancelSeen[t]]
    /\ UNCHANGED <<queueVars, rootGone, item>>

Restart(w) ==
    /\ worker[w] = "down"
    /\ worker' = [worker EXCEPT ![w] = "running"]
    /\ UNCHANGED <<queueVars, rootGone, item, execVars, disruptions>>

\* 90 seconds pass without a renewal.
LeaseExpires(j) ==
    /\ leaseLive[j]
    /\ leaseLive' = [leaseLive EXCEPT ![j] = FALSE]
    /\ UNCHANGED <<status, owner, due, retries, attempts, released, rootGone,
                   item, execVars, procVars>>

BackoffElapses(j) ==
    /\ status[j] = "failed_retryable"
    /\ ~due[j]
    /\ due' = [due EXCEPT ![j] = TRUE]
    /\ UNCHANGED <<status, owner, leaseLive, retries, attempts, released,
                   rootGone, item, execVars, procVars>>

\* Every job is settled and no execution is left: nothing remains to be done.
Quiescent ==
    /\ \A j \in Jobs : status[j] \in Terminal
    /\ \A t \in Tokens : pc[t] = "idle"
    /\ UNCHANGED vars

-----------------------------------------------------------------------------
ExecutionStep(t) ==
    \/ StartExecution(t)
    \/ LoadAndBegin(t)
    \/ Publish(t)
    \/ HandlerThrows(t)
    \/ Decide(t)
    \/ Abandon(t)
    \/ Complete(t)
    \/ CompleteThrows(t)
    \/ AcknowledgeCancel(t)
    \/ FailFinal(t)
    \/ ScheduleRetry(t)
    \/ ReleaseForShutdown(t)
    \/ GiveUp(t)

JobStep(j) ==
    \/ RequestCancellation(j)
    \/ ReconcileExpiredLease(j)
    \/ ReconcileOrphanJob(j)
    \/ RootLost(j)
    \/ LeaseExpires(j)
    \/ BackoffElapses(j)

Next ==
    \/ \E w \in Workers, t \in Tokens, j \in Jobs : Claim(w, t, j)
    \/ \E t \in Tokens : ExecutionStep(t)
    \/ \E t \in Tokens : Heartbeat(t) \/ HeartbeatFails(t)
    \/ \E j \in Jobs : JobStep(j)
    \/ \E w \in Workers : Shutdown(w) \/ Exit(w) \/ Restart(w)
    \/ Quiescent

Spec == Init /\ [][Next]_vars

(***************************************************************************)
(* Fairness.  Polling retries the claim of the oldest due job, a handler's *)
(* calls have timeouts, the reconciliation timer and supervised restarts   *)
(* recur, and time passes: a lease nobody renews expires.  Nothing is      *)
(* assumed of crashes, shutdowns, cancellations or failures.               *)
(***************************************************************************)
Unrenewed(j) ==
    \A t \in Tokens : ~(pc[t] \in Beating /\ work[t] = j /\ Fence(t))

Fairness ==
    /\ \A j \in Jobs :
          /\ WF_vars(\E w \in Workers, t \in Tokens : Claim(w, t, j))
          /\ WF_vars(ReconcileExpiredLease(j))
          /\ WF_vars(Unrenewed(j) /\ LeaseExpires(j))
          /\ WF_vars(BackoffElapses(j))
    /\ \A t \in Tokens : WF_vars(ExecutionStep(t))
    /\ \A w \in Workers :
          /\ WF_vars(worker[w] = "stopping" /\ Exit(w))
          /\ WF_vars(Restart(w))

FairSpec == Spec /\ Fairness

-----------------------------------------------------------------------------
(***************************************************************************)
(* Properties.                                                             *)
(***************************************************************************)

\* A row has an owner exactly while it is in progress, a live lease only
\* then, and a token never owns two jobs: a transition that forgot to clear
\* locked_by or lease_expires_at would leave a settled job owned.
OwnershipShape ==
    /\ \A j \in Jobs : /\ (owner[j] # None) <=> (status[j] \in InProgress)
                       /\ leaseLive[j] => status[j] \in InProgress
    /\ \A j, k \in Jobs : owner[j] = owner[k] /\ owner[j] # None => j = k

\* A job is completed only with a published result: no interleaving of lease
\* loss, takeover, release and retry lets complete() run on an open item.
CompletedIsPublished ==
    \A j \in Jobs : status[j] = "completed" => item[j] = "published"

\* A cancellation that was accepted came before the publication: neither the
\* running execution nor a later one may publish the item afterwards.
CancelledIsUnpublished ==
    \A j \in Jobs : status[j] \in {"cancel_requested", "cancelled"}
                       => item[j] # "published"

\* Graceful releases apart, a job is executed at most MaxRetries + 1 times,
\* whoever ends its executions: the worker, the reconciler or a crash.
ExecutionBudget ==
    \A j \in Jobs : attempts[j] - released[j] <= MaxRetries + 1

\* A result, once recorded, is never replaced: a worker that lost its job to
\* another execution does not publish over it or reopen it.
ResultIsFinal ==
    [][\A j \in Jobs : item[j] \notin ItemOpen => item'[j] = item[j]]_vars

\* A settled job stays settled, and a requested cancellation can only end as
\* cancelled: no late completion, failure, retry, release or lease recovery
\* overrides either.
SettlementIsFinal ==
    [][\A j \in Jobs :
          /\ status[j] \in Terminal => status'[j] = status[j]
          /\ status[j] = "cancel_requested"
               => status'[j] \in {"cancel_requested", "cancelled"}]_vars

\* The queue implements DurableJobs: a worker that claims, loses, recovers or
\* releases a row through any interleaving of leases, reconciler and API does
\* nothing the abstract job could not do, charged executions included.
PhaseOf == [queued           |-> "waiting",
            failed_retryable |-> "waiting",
            processing       |-> "running",
            cancel_requested |-> "cancelling",
            completed        |-> "succeeded",
            failed_final     |-> "failed",
            cancelled        |-> "cancelled"]

Durable == INSTANCE DurableJobs WITH
    phase   <- [j \in Jobs |-> PhaseOf[status[j]]],
    charged <- [j \in Jobs |-> attempts[j] - released[j]],
    result  <- [j \in Jobs |-> IF item[j] \in ItemOpen THEN "open" ELSE item[j]]

ImplementsDurableJobs == Durable!Spec

\* When crashes and shutdowns stop recurring every job is settled, even if
\* the worker that owned it vanished, forgot it or saw its queries fail.
EveryJobSettles == \A j \in Jobs : <>(status[j] \in Terminal)

\* docs/contracts/CFDI_INGESTION_API.md:214-216: failed_final, by exhausted
\* retries too, closes every open manual_xml item as internal_error in the
\* same fenced operation (jobs whose root disappeared left aside).
FailedFinalClosesItem ==
    \A j \in Jobs : status[j] = "failed_final" /\ j \notin rootGone
                       => item[j] \notin ItemOpen

=============================================================================
