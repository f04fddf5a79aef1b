------------------------ MODULE IngestionJobsProofs ------------------------
(***************************************************************************)
(* Proofs about IngestionJobs, for every set of jobs, tokens and worker    *)
(* processes and every value of its limits.                                *)
(***************************************************************************)
EXTENDS IngestionJobs, TLAPS

USE RetriesAssumption, NoneAssumption

-----------------------------------------------------------------------------
(***************************************************************************)
(* Type correctness.                                                       *)
(***************************************************************************)

\* Whatever transition execute() picks for an outcome is a step of Control.
LEMMA TransitionType ==
    ASSUME NEW t, NEW outcome \in Ended
    PROVE  Transition(t, outcome) \in Settling
BY DEF Transition, Ended, ByOutcome, Settling

LEMMA TypeInit == Init => TypeOK
BY DEF Init, TypeOK, Status, Claimable, ItemState, ItemOpen, Control

\* Every action keeps every variable in its type.
LEMMA TypeStep == TypeOK /\ [Next]_vars => TypeOK'
<1> SUFFICES ASSUME TypeOK, [Next]_vars PROVE TypeOK'
    OBVIOUS
<1> USE DEF TypeOK, queueVars, execVars, procVars
<1>1. ASSUME NEW w \in Workers, NEW t \in Tokens, NEW j \in Jobs, Claim(w, t, j)
      PROVE TypeOK'
    BY <1>1 DEF Claim, Status, InProgress, Control
<1>2. ASSUME NEW t \in Tokens, ExecutionStep(t) PROVE TypeOK'
    <2>1. CASE StartExecution(t)
        BY <2>1 DEF StartExecution, Control, Beating, Handling, Settling
    <2>2. CASE LoadAndBegin(t)
        BY <2>2 DEF LoadAndBegin, Control, Beating, Handling, Ended, Failures,
                    ItemState, ItemOpen
    <2>3. CASE Publish(t)
        BY <2>3 DEF Publish, Control, Beating, Ended, ItemState
    <2>4. CASE HandlerThrows(t)
        BY <2>4 DEF HandlerThrows, Failures, Control, Beating, Ended
    <2>5. CASE Decide(t)
        BY <2>5, TransitionType DEF Decide, Control
    <2>6. CASE Abandon(t)
        BY <2>6 DEF Abandon, EndOf, Control
    <2>7. CASE Complete(t)
        BY <2>7 DEF Complete, Unlock, EndOf, Status, Terminal, Control
    <2>8. CASE CompleteThrows(t)
        BY <2>8, TransitionType DEF CompleteThrows, Control, Ended
    <2>9. CASE AcknowledgeCancel(t)
        BY <2>9 DEF AcknowledgeCancel, Unlock, EndOf, Status, Terminal, Control
    <2>10. CASE FailFinal(t)
        BY <2>10 DEF FailFinal, Unlock, CloseItem, EndOf, Status, Terminal,
                     Control, ItemState
    <2>11. CASE ScheduleRetry(t)
        <3>1. retries' \in [Jobs -> Nat]
            BY <2>11 DEF ScheduleRetry, Charge
        <3>2. /\ status' \in [Jobs -> Status]
              /\ owner' \in [Jobs -> Tokens \cup {None}]
              /\ leaseLive' \in [Jobs -> BOOLEAN]
            BY <2>11 DEF ScheduleRetry, Unlock, Status, Terminal, Claimable
        <3>3. item' \in [Jobs -> ItemState]
            BY <2>11 DEF ScheduleRetry, CloseItem, ItemState
        <3>4. EndOf(t) /\ UNCHANGED <<due, attempts, released, rootGone, procVars>>
            BY <2>11 DEF ScheduleRetry
        <3>5. QED
            BY <3>1, <3>2, <3>3, <3>4 DEF EndOf, Control
    <2>12. CASE ReleaseForShutdown(t)
        <3>1. status' \in [Jobs -> Status]
            BY <2>12 DEF ReleaseForShutdown, ReleasedAs, Unlock, Status,
                         Terminal, Claimable
        <3>2. due' \in [Jobs -> BOOLEAN]
            BY <2>12 DEF ReleaseForShutdown
        <3>3. QED
            BY <2>12, <3>1, <3>2 DEF ReleaseForShutdown, Unlock, EndOf, Control
    <2>13. CASE GiveUp(t)
        BY <2>13 DEF GiveUp, EndOf, Control
    <2>14. QED
        BY <1>2, <2>1, <2>2, <2>3, <2>4, <2>5, <2>6, <2>7, <2>8, <2>9, <2>10,
           <2>11, <2>12, <2>13 DEF ExecutionStep
<1>3. ASSUME NEW t \in Tokens, Heartbeat(t) \/ HeartbeatFails(t) PROVE TypeOK'
    BY <1>3 DEF Heartbeat, HeartbeatFails
<1>4. ASSUME NEW j \in Jobs, JobStep(j) PROVE TypeOK'
    <2>1. CASE RequestCancellation(j)
        <3>1. status' \in [Jobs -> Status]
            BY <2>1 DEF RequestCancellation, Status, InProgress, Terminal
        <3>2. due' \in [Jobs -> BOOLEAN]
            BY <2>1 DEF RequestCancellation
        <3>3. QED
            BY <2>1, <3>1, <3>2 DEF RequestCancellation
    <2>2. CASE ReconcileExpiredLease(j)
        <3>1. retries' \in [Jobs -> Nat]
            BY <2>2 DEF ReconcileExpiredLease, Charge
        <3>2. status' \in [Jobs -> Status]
            BY <2>2 DEF ReconcileExpiredLease, Unlock, Status, Terminal,
                        Claimable
        <3>3. QED
            BY <2>2, <3>1, <3>2 DEF ReconcileExpiredLease, Unlock
    <2>3. CASE ReconcileOrphanJob(j)
        BY <2>3 DEF ReconcileOrphanJob, Status, Terminal
    <2>4. CASE RootLost(j)
        BY <2>4 DEF RootLost
    <2>5. CASE LeaseExpires(j)
        BY <2>5 DEF LeaseExpires
    <2>6. CASE BackoffElapses(j)
        BY <2>6 DEF BackoffElapses
    <2>7. QED
        BY <1>4, <2>1, <2>2, <2>3, <2>4, <2>5, <2>6 DEF JobStep
<1>5. ASSUME NEW w \in Workers, Shutdown(w) \/ Exit(w) \/ Restart(w)
      PROVE TypeOK'
    <2>1. CASE Exit(w)
        BY <2>1 DEF Exit, Control
    <2>2. CASE Shutdown(w) \/ Restart(w)
        BY <2>2 DEF Shutdown, Restart
    <2>3. QED
        BY <1>5, <2>1, <2>2
<1>6. CASE UNCHANGED vars
    BY <1>6 DEF vars
<1>7. QED
    BY <1>1, <1>2, <1>3, <1>4, <1>5, <1>6 DEF Next, Quiescent

\* Every reachable state is well typed: IngestionJobs.TypeOK.
THEOREM TypeCorrect == Spec => []TypeOK
<1>1. Init => TypeOK
    BY TypeInit
<1>2. TypeOK /\ [Next]_vars => TypeOK'
    BY TypeStep
<1>3. QED
    BY <1>1, <1>2, PTL DEF Spec

-----------------------------------------------------------------------------
(***************************************************************************)
(* The inductive invariant.  OwnershipShape is not inductive by itself: an *)
(* execution must also know which job it owns.  The promises about items   *)
(* need what an execution has done so far, and only while it owns its job: *)
(* a zombie may be anywhere.  The budget needs the exact balance of        *)
(* attempts, releases and retries in each status.                          *)
(***************************************************************************)
ExecutionsKnowTheirJob ==
    \A t \in Tokens : pc[t] # "idle" =>
        /\ work[t] \in Jobs
        /\ home[t] \in Workers
        /\ \A j \in Jobs : owner[j] = t => work[t] = j

Ownership == OwnershipShape /\ ExecutionsKnowTheirJob

ItemMatchesStatus ==
    \A j \in Jobs :
        /\ item[j] = "internal_error" => status[j] = "failed_final"
        /\ status[j] = "completed" => item[j] = "published"
        /\ status[j] \in {"cancel_requested", "cancelled"}
              => item[j] # "published"

ItemMatchesOwner ==
    \A t \in Tokens, j \in Jobs : pc[t] # "idle" /\ owner[j] = t =>
        /\ pc[t] = "work" => item[j] = "processing"
        /\ pc[t] \in {"returned", "completing"} => item[j] = "published"

Results == ItemMatchesStatus /\ ItemMatchesOwner

Budget ==
    \A j \in Jobs :
        /\ retries[j] <= MaxRetries
        /\ status[j] \in Claimable => attempts[j] = released[j] + retries[j]
        /\ status[j] \in InProgress => attempts[j] = released[j] + retries[j] + 1
        /\ status[j] \in Terminal =>
              attempts[j] - released[j] \in {retries[j], retries[j] + 1}

LEMMA OwnershipInit == Init => Ownership
BY DEF Init, Ownership, OwnershipShape, ExecutionsKnowTheirJob, InProgress

\* The steps of an execution that leave the queue alone keep the ownership.
LEMMA OwnershipLocal ==
    ASSUME TypeOK, Ownership, NEW t \in Tokens,
           UNCHANGED <<status, owner, leaseLive, work, home>>,
           pc[t] # "idle", NEW c, pc' = [pc EXCEPT ![t] = c]
    PROVE  Ownership'
BY DEF TypeOK, Ownership, OwnershipShape, ExecutionsKnowTheirJob

\* So do those that end an execution and unlock its job, or only end it.
LEMMA OwnershipEnd ==
    ASSUME TypeOK, Ownership, NEW t \in Tokens, EndOf(t),
           \/ UNCHANGED <<status, owner, leaseLive>>
           \/ \E j \in Jobs, s \in Claimable \cup Terminal : Unlock(j, s)
    PROVE  Ownership'
<1> USE DEF TypeOK, Ownership
<1>1. OwnershipShape'
    BY DEF OwnershipShape, Unlock, Claimable, Terminal, InProgress
<1>2. ExecutionsKnowTheirJob'
    BY DEF ExecutionsKnowTheirJob, EndOf, Unlock
<1>3. QED
    BY <1>1, <1>2

LEMMA OwnershipStep == TypeOK /\ Ownership /\ [Next]_vars => Ownership'
<1> SUFFICES ASSUME TypeOK, Ownership, [Next]_vars PROVE Ownership'
    OBVIOUS
<1> USE DEF queueVars, execVars, procVars
<1>1. ASSUME NEW w \in Workers, NEW t \in Tokens, NEW j \in Jobs, Claim(w, t, j)
      PROVE Ownership'
    <2>1. owner[j] = None
        BY <1>1 DEF TypeOK, Ownership, OwnershipShape, Claim, Ready, Claimable,
                    InProgress
    <2>2. OwnershipShape'
        BY <1>1, <2>1 DEF TypeOK, Ownership, OwnershipShape, Claim, InProgress
    <2>3. ExecutionsKnowTheirJob'
        BY <1>1 DEF TypeOK, Ownership, ExecutionsKnowTheirJob, Claim
    <2>4. QED
        BY <2>2, <2>3 DEF Ownership
<1>2. ASSUME NEW t \in Tokens, ExecutionStep(t) PROVE Ownership'
    <2>1. CASE StartExecution(t)
        BY <2>1, OwnershipLocal DEF StartExecution
    <2>2. CASE LoadAndBegin(t)
        BY <2>2, OwnershipLocal DEF LoadAndBegin
    <2>3. CASE Publish(t)
        BY <2>3, OwnershipLocal DEF Publish
    <2>4. CASE HandlerThrows(t)
        BY <2>4, OwnershipLocal DEF HandlerThrows, Handling
    <2>5. CASE Decide(t)
        BY <2>5, OwnershipLocal DEF Decide, Ended
    <2>6. CASE Abandon(t)
        BY <2>6, OwnershipEnd DEF Abandon
    <2>7. CASE Complete(t)
        BY <2>7, OwnershipEnd DEF Complete, Fence, Owns, Terminal, Ownership,
                                  ExecutionsKnowTheirJob
    <2>8. CASE CompleteThrows(t)
        BY <2>8, OwnershipLocal DEF CompleteThrows
    <2>9. CASE AcknowledgeCancel(t)
        BY <2>9, OwnershipEnd DEF AcknowledgeCancel, Owns, Terminal, Ownership,
                                  ExecutionsKnowTheirJob
    <2>10. CASE FailFinal(t)
        BY <2>10, OwnershipEnd DEF FailFinal, Fence, Owns, Terminal, Ownership,
                                   ExecutionsKnowTheirJob
    <2>11. CASE ScheduleRetry(t)
        BY <2>11, OwnershipEnd DEF ScheduleRetry, Fence, Owns, Terminal,
                                   Claimable, Ownership, ExecutionsKnowTheirJob
    <2>12. CASE ReleaseForShutdown(t)
        BY <2>12, OwnershipEnd DEF ReleaseForShutdown, Owns, ReleasedAs, Terminal,
                                   Claimable, Ownership, ExecutionsKnowTheirJob
    <2>13. CASE GiveUp(t)
        BY <2>13, OwnershipEnd DEF GiveUp
    <2>14. QED
        BY <1>2, <2>1, <2>2, <2>3, <2>4, <2>5, <2>6, <2>7, <2>8, <2>9, <2>10,
           <2>11, <2>12, <2>13 DEF ExecutionStep
<1>3. ASSUME NEW t \in Tokens, Heartbeat(t) \/ HeartbeatFails(t)
      PROVE Ownership'
    BY <1>3 DEF Heartbeat, HeartbeatFails, Fence, Owns, TypeOK, Ownership,
                OwnershipShape, ExecutionsKnowTheirJob, InProgress
<1>4. ASSUME NEW j \in Jobs, JobStep(j) PROVE Ownership'
    <2> USE DEF TypeOK, Ownership, OwnershipShape, ExecutionsKnowTheirJob
    <2>1. CASE RequestCancellation(j)
        BY <2>1 DEF RequestCancellation, InProgress
    <2>2. CASE ReconcileExpiredLease(j)
        <3>1. \E s \in Claimable \cup Terminal : Unlock(j, s)
            BY <2>2 DEF ReconcileExpiredLease, Claimable, Terminal
        <3>2. OwnershipShape'
            BY <3>1 DEF Unlock, Claimable, Terminal, InProgress
        <3>3. ExecutionsKnowTheirJob'
            BY <2>2, <3>1 DEF Unlock, ReconcileExpiredLease
        <3>4. QED
            BY <3>2, <3>3
    <2>3. CASE ReconcileOrphanJob(j)
        BY <2>3 DEF ReconcileOrphanJob, Claimable, InProgress
    <2>4. CASE RootLost(j)
        BY <2>4 DEF RootLost
    <2>5. CASE LeaseExpires(j)
        BY <2>5 DEF LeaseExpires
    <2>6. CASE BackoffElapses(j)
        BY <2>6 DEF BackoffElapses
    <2>7. QED
        BY <1>4, <2>1, <2>2, <2>3, <2>4, <2>5, <2>6 DEF JobStep
<1>5. ASSUME NEW w \in Workers, Shutdown(w) \/ Exit(w) \/ Restart(w)
      PROVE Ownership'
    BY <1>5 DEF Shutdown, Exit, Restart, TypeOK, Ownership, OwnershipShape,
                ExecutionsKnowTheirJob
<1>6. CASE UNCHANGED vars
    BY <1>6 DEF vars, Ownership, OwnershipShape, ExecutionsKnowTheirJob
<1>7. QED
    BY <1>1, <1>2, <1>3, <1>4, <1>5, <1>6 DEF Next, Quiescent

-----------------------------------------------------------------------------
(***************************************************************************)
(* Items: what is recorded of a document agrees with the status of its job *)
(* and with what the execution that owns the job has done.                 *)
(***************************************************************************)

\* Only an execution whose handler returned goes on to complete its job.
LEMMA CompletingMeansReturned ==
    ASSUME NEW t, NEW outcome \in Ended,
           Transition(t, outcome) = "completing"
    PROVE  outcome = "returned"
BY DEF Transition, Ended, ByOutcome

LEMMA ResultsInit == Init => Results
BY DEF Init, Results, ItemMatchesStatus, ItemMatchesOwner

\* Steps that leave statuses, owners and items alone and move the execution t
\* to a place about which nothing is promised, or that its item justifies.
LEMMA ResultsLocal ==
    ASSUME TypeOK, Ownership, Results, NEW t \in Tokens,
           UNCHANGED <<status, owner, item>>,
           NEW c, pc' = [pc EXCEPT ![t] = c], pc[t] # "idle",
           c # "work", c \in {"returned", "completing"} => pc[t] = "returned"
    PROVE  Results'
BY DEF TypeOK, Results, ItemMatchesStatus, ItemMatchesOwner

\* An execution ends: it promises nothing any more.
LEMMA ResultsEnd ==
    ASSUME TypeOK, Results, ItemMatchesStatus', NEW t \in Tokens, EndOf(t),
           \A j \in Jobs : \/ owner'[j] = None
                           \/ owner'[j] = owner[j] /\ item'[j] = item[j]
    PROVE  Results'
BY DEF TypeOK, Results, ItemMatchesOwner, EndOf

LEMMA ResultsStep == TypeOK /\ Ownership /\ Results /\ [Next]_vars => Results'
<1> SUFFICES ASSUME TypeOK, Ownership, Results, [Next]_vars PROVE Results'
    OBVIOUS
<1> USE DEF queueVars, execVars, procVars
<1>1. ASSUME NEW w \in Workers, NEW t \in Tokens, NEW j \in Jobs, Claim(w, t, j)
      PROVE Results'
    BY <1>1 DEF Claim, Ready, Claimable, TypeOK, Results, ItemMatchesStatus,
                ItemMatchesOwner
<1>2. ASSUME NEW t \in Tokens, ExecutionStep(t) PROVE Results'
    <2>0. Owns(t) => work[t] \in Jobs /\ owner[work[t]] = t
        BY DEF Owns, Ownership, ExecutionsKnowTheirJob
    <2>1. CASE StartExecution(t)
        BY <2>1, ResultsLocal DEF StartExecution
    <2>2. CASE LoadAndBegin(t)
        <3>1. CASE ~Fence(t)
            BY <2>2, <3>1, ResultsLocal DEF LoadAndBegin, Failures
        <3>2. CASE Fence(t) /\ ~ToProcess(work[t])
            <4>1. item[work[t]] = "published"
                BY <2>0, <3>2 DEF Fence, ToProcess, TypeOK, ItemState, Results,
                                  ItemMatchesStatus
            <4>2. pc' = [pc EXCEPT ![t] = "returned"]
                BY <2>2, <3>2 DEF LoadAndBegin
            <4>3. QED
                BY <2>0, <2>2, <3>2, <4>1, <4>2
                DEF LoadAndBegin, Fence, TypeOK, Ownership, ExecutionsKnowTheirJob,
                    Results, ItemMatchesStatus, ItemMatchesOwner
        <3>3. CASE Fence(t) /\ ToProcess(work[t])
            BY <2>0, <2>2, <3>3
            DEF LoadAndBegin, Fence, TypeOK, Ownership, ExecutionsKnowTheirJob,
                Results, ItemMatchesStatus, ItemMatchesOwner
        <3>4. QED
            BY <3>1, <3>2, <3>3
    <2>3. CASE Publish(t)
        <3>1. CASE ~Fence(t)
            BY <2>3, <3>1, ResultsLocal DEF Publish
        <3>2. CASE Fence(t)
            BY <2>0, <2>3, <3>2
            DEF Publish, Fence, TypeOK, Ownership, ExecutionsKnowTheirJob,
                Results, ItemMatchesStatus, ItemMatchesOwner
        <3>3. QED
            BY <3>1, <3>2
    <2>4. CASE HandlerThrows(t)
        BY <2>4, ResultsLocal DEF HandlerThrows, Handling, Failures
    <2>5. CASE Decide(t)
        BY <2>5, ResultsLocal, TransitionType, CompletingMeansReturned
        DEF Decide, Ended, Settling
    <2>6. CASE Abandon(t)
        BY <2>6, ResultsEnd DEF Abandon, Results, ItemMatchesStatus
    <2>7. CASE Complete(t)
        <3>1. item[work[t]] = "published"
            BY <2>0, <2>7 DEF Complete, Fence, Owns, Results, ItemMatchesOwner
        <3>2. ItemMatchesStatus'
            BY <2>0, <2>7, <3>1 DEF Complete, Fence, Unlock, TypeOK, Results,
                                    ItemMatchesStatus
        <3>3. \A j \in Jobs : \/ owner'[j] = None
                              \/ owner'[j] = owner[j] /\ item'[j] = item[j]
            BY <2>7 DEF Complete, Unlock, TypeOK
        <3>4. QED
            BY <2>7, <3>2, <3>3, ResultsEnd DEF Complete
    <2>8. CASE CompleteThrows(t)
        BY <2>8, ResultsLocal, TransitionType, CompletingMeansReturned
        DEF CompleteThrows, Ended, Settling
    <2>9. CASE AcknowledgeCancel(t)
        <3>1. ItemMatchesStatus'
            BY <2>0, <2>9 DEF AcknowledgeCancel, Unlock, TypeOK, Results,
                              ItemMatchesStatus
        <3>2. \A j \in Jobs : \/ owner'[j] = None
                              \/ owner'[j] = owner[j] /\ item'[j] = item[j]
            BY <2>9 DEF AcknowledgeCancel, Unlock, TypeOK
        <3>3. QED
            BY <2>9, <3>1, <3>2, ResultsEnd DEF AcknowledgeCancel
    <2>10. CASE FailFinal(t)
        <3>1. ItemMatchesStatus'
            BY <2>0, <2>10 DEF FailFinal, Fence, Unlock, CloseItem, TypeOK,
                               Results, ItemMatchesStatus
        <3>2. \A j \in Jobs : \/ owner'[j] = None
                              \/ owner'[j] = owner[j] /\ item'[j] = item[j]
            BY <2>10 DEF FailFinal, Unlock, CloseItem, TypeOK
        <3>3. QED
            BY <2>10, <3>1, <3>2, ResultsEnd DEF FailFinal
    <2>11. CASE ScheduleRetry(t)
        <3>1. ItemMatchesStatus'
            BY <2>0, <2>11 DEF ScheduleRetry, Fence, Unlock, CloseItem, TypeOK,
                               Results, ItemMatchesStatus
        <3>2. \A j \in Jobs : \/ owner'[j] = None
                              \/ owner'[j] = owner[j] /\ item'[j] = item[j]
            BY <2>11 DEF ScheduleRetry, Unlock, CloseItem, TypeOK
        <3>3. EndOf(t)
            BY <2>11 DEF ScheduleRetry
        <3>4. QED
            BY <3>1, <3>2, <3>3, ResultsEnd
    <2>12. CASE ReleaseForShutdown(t)
        <3>1. ItemMatchesStatus'
            BY <2>0, <2>12 DEF ReleaseForShutdown, ReleasedAs, InProgress, Unlock,
                               TypeOK, Results, ItemMatchesStatus
        <3>2. \A j \in Jobs : \/ owner'[j] = None
                              \/ owner'[j] = owner[j] /\ item'[j] = item[j]
            BY <2>12 DEF ReleaseForShutdown, Unlock, TypeOK
        <3>3. QED
            BY <2>12, <3>1, <3>2, ResultsEnd DEF ReleaseForShutdown
    <2>13. CASE GiveUp(t)
        BY <2>13, ResultsEnd DEF GiveUp, Results, ItemMatchesStatus
    <2>14. QED
        BY <1>2, <2>1, <2>2, <2>3, <2>4, <2>5, <2>6, <2>7, <2>8, <2>9, <2>10,
           <2>11, <2>12, <2>13 DEF ExecutionStep
<1>3. ASSUME NEW t \in Tokens, Heartbeat(t) \/ HeartbeatFails(t)
      PROVE Results'
    BY <1>3 DEF Heartbeat, HeartbeatFails, Results, ItemMatchesStatus,
                ItemMatchesOwner
<1>4. ASSUME NEW j \in Jobs, JobStep(j) PROVE Results'
    <2> USE DEF TypeOK, Results, ItemMatchesStatus, ItemMatchesOwner
    <2>1. CASE RequestCancellation(j)
        BY <2>1 DEF RequestCancellation, Cancellable, ItemOpen, InProgress,
                    Terminal
    <2>2. CASE ReconcileExpiredLease(j)
        BY <2>2 DEF ReconcileExpiredLease, LeaseExpired, InProgress, Unlock
    <2>3. CASE ReconcileOrphanJob(j)
        BY <2>3 DEF ReconcileOrphanJob, Claimable
    <2>4. CASE RootLost(j)
        BY <2>4 DEF RootLost
    <2>5. CASE LeaseExpires(j)
        BY <2>5 DEF LeaseExpires
    <2>6. CASE BackoffElapses(j)
        BY <2>6 DEF BackoffElapses
    <2>7. QED
        BY <1>4, <2>1, <2>2, <2>3, <2>4, <2>5, <2>6 DEF JobStep
<1>5. ASSUME NEW w \in Workers, Shutdown(w) \/ Exit(w) \/ Restart(w)
      PROVE Results'
    BY <1>5 DEF Shutdown, Exit, Restart, TypeOK, Results, ItemMatchesStatus,
                ItemMatchesOwner
<1>6. CASE UNCHANGED vars
    BY <1>6 DEF vars, Results, ItemMatchesStatus, ItemMatchesOwner
<1>7. QED
    BY <1>1, <1>2, <1>3, <1>4, <1>5, <1>6 DEF Next, Quiescent

-----------------------------------------------------------------------------
(***************************************************************************)
(* The budget: attempts, releases and retries balance in every status.     *)
(***************************************************************************)
LEMMA BudgetInit == Init => Budget
BY DEF Init, Budget, Claimable, InProgress, Terminal

LEMMA BudgetStep == TypeOK /\ Ownership /\ Budget /\ [Next]_vars => Budget'
<1> SUFFICES ASSUME TypeOK, Ownership, Budget, [Next]_vars PROVE Budget'
    OBVIOUS
<1> USE DEF queueVars, execVars, procVars
<1>1. ASSUME NEW w \in Workers, NEW t \in Tokens, NEW j \in Jobs, Claim(w, t, j)
      PROVE Budget'
    BY <1>1 DEF Claim, Ready, TypeOK, Budget, Claimable, InProgress, Terminal
<1>2. ASSUME NEW t \in Tokens, ExecutionStep(t) PROVE Budget'
    <2>0. Owns(t) => work[t] \in Jobs
        BY DEF Owns, Ownership, ExecutionsKnowTheirJob
    <2>1. CASE UNCHANGED queueVars
        BY <2>1 DEF Budget
    <2>2. CASE Complete(t)
        BY <2>0, <2>2 DEF Complete, Fence, Unlock, TypeOK, Budget, Claimable,
                          InProgress, Terminal
    <2>3. CASE AcknowledgeCancel(t)
        BY <2>0, <2>3 DEF AcknowledgeCancel, Unlock, TypeOK, Budget, Claimable,
                          InProgress, Terminal
    <2>4. CASE FailFinal(t)
        BY <2>0, <2>4 DEF FailFinal, Fence, Unlock, TypeOK, Budget, Claimable,
                          InProgress, Terminal
    <2>5. CASE ScheduleRetry(t)
        <3>1. UNCHANGED <<attempts, released>>
            BY <2>5 DEF ScheduleRetry
        <3>2. CASE Exhausted(work[t])
            <4>1. Unlock(work[t], "failed_final") /\ UNCHANGED retries
                BY <2>5, <3>2 DEF ScheduleRetry
            <4>2. QED
                BY <2>0, <2>5, <3>1, <4>1
                DEF ScheduleRetry, Fence, Unlock, TypeOK, Budget, Claimable,
                    InProgress, Terminal
        <3>3. CASE ~Exhausted(work[t])
            <4>1. Unlock(work[t], "failed_retryable") /\ Charge(work[t])
                BY <2>5, <3>3 DEF ScheduleRetry
            <4>2. status[work[t]] = "processing" /\ work[t] \in Jobs
                BY <2>0, <2>5 DEF ScheduleRetry, Fence
            <4>3. QED
                BY <3>1, <3>3, <4>1, <4>2
                DEF Exhausted, Charge, Unlock, TypeOK, Budget, Claimable,
                    InProgress, Terminal
        <3>4. QED
            BY <3>2, <3>3
    <2>6. CASE ReleaseForShutdown(t)
        BY <2>0, <2>6 DEF ReleaseForShutdown, ReleasedAs, Unlock, TypeOK, Budget,
                          Claimable, InProgress, Terminal
    <2>7. QED
        BY <1>2, <2>1, <2>2, <2>3, <2>4, <2>5, <2>6
        DEF ExecutionStep, StartExecution, LoadAndBegin, Publish, HandlerThrows,
            Decide, Abandon, CompleteThrows, GiveUp
<1>3. ASSUME NEW t \in Tokens, Heartbeat(t) \/ HeartbeatFails(t)
      PROVE Budget'
    BY <1>3 DEF Heartbeat, HeartbeatFails, Budget
<1>4. ASSUME NEW j \in Jobs, JobStep(j) PROVE Budget'
    <2> USE DEF TypeOK, Budget, Claimable, InProgress, Terminal
    <2>1. CASE RequestCancellation(j)
        BY <2>1 DEF RequestCancellation, Cancellable, Status
    <2>2. CASE ReconcileExpiredLease(j)
        <3>1. status[j] \in InProgress /\ UNCHANGED <<attempts, released>>
            BY <2>2 DEF ReconcileExpiredLease, LeaseExpired
        <3>2. CASE UNCHANGED retries /\ (\E s \in Terminal : Unlock(j, s))
            BY <3>1, <3>2 DEF Unlock
        <3>3. CASE ~Exhausted(j) /\ Unlock(j, "failed_retryable") /\ Charge(j)
            BY <3>1, <3>3 DEF Exhausted, Unlock, Charge
        <3>4. QED
            BY <2>2, <3>2, <3>3 DEF ReconcileExpiredLease
    <2>3. CASE ReconcileOrphanJob(j)
        BY <2>3 DEF ReconcileOrphanJob
    <2>4. CASE RootLost(j) \/ LeaseExpires(j) \/ BackoffElapses(j)
        BY <2>4 DEF RootLost, LeaseExpires, BackoffElapses
    <2>5. QED
        BY <1>4, <2>1, <2>2, <2>3, <2>4 DEF JobStep
<1>5. ASSUME NEW w \in Workers, Shutdown(w) \/ Exit(w) \/ Restart(w)
      PROVE Budget'
    BY <1>5 DEF Shutdown, Exit, Restart, Budget
<1>6. CASE UNCHANGED vars
    BY <1>6 DEF vars, Budget
<1>7. QED
    BY <1>1, <1>2, <1>3, <1>4, <1>5, <1>6 DEF Next, Quiescent

-----------------------------------------------------------------------------
(***************************************************************************)
(* The safety properties.                                                  *)
(***************************************************************************)
IInv == TypeOK /\ Ownership /\ Results /\ Budget

\* The inductive invariant holds in every reachable state.
THEOREM Inductive == Spec => []IInv
<1>1. Init => IInv
    BY TypeInit, OwnershipInit, ResultsInit, BudgetInit DEF IInv
<1>2. IInv /\ [Next]_vars => IInv'
    BY TypeStep, OwnershipStep, ResultsStep, BudgetStep DEF IInv
<1>3. QED
    BY <1>1, <1>2, PTL DEF Spec

\* A row is owned exactly while it is in progress, and by one token.
THEOREM OwnershipHolds == Spec => []OwnershipShape
<1>1. IInv => OwnershipShape
    BY DEF IInv, Ownership
<1>2. QED
    BY <1>1, Inductive, PTL

\* A completed job has published its document.
THEOREM ResultsAgree == Spec => []CompletedIsPublished
<1>1. IInv => CompletedIsPublished
    BY DEF IInv, Results, ItemMatchesStatus, CompletedIsPublished
<1>2. QED
    BY <1>1, Inductive, PTL

\* A job that is cancelled, or being cancelled, has not published its document.
THEOREM CancelledHolds == Spec => []CancelledIsUnpublished
<1>1. IInv => CancelledIsUnpublished
    BY DEF IInv, Results, ItemMatchesStatus, CancelledIsUnpublished
<1>2. QED
    BY <1>1, Inductive, PTL

\* Releases apart, no job is executed more than MaxRetries + 1 times.
THEOREM BudgetHolds == Spec => []ExecutionBudget
<1>1. IInv => ExecutionBudget
    BY DEF IInv, TypeOK, Status, Budget, ExecutionBudget
<1>2. QED
    BY <1>1, Inductive, PTL

-----------------------------------------------------------------------------
(***************************************************************************)
(* What no step may undo.                                                  *)
(***************************************************************************)
LEMMA ResultIsFinalStep ==
    ASSUME IInv, [Next]_vars, NEW j \in Jobs, item[j] \notin ItemOpen
    PROVE  item'[j] = item[j]
<1> USE DEF IInv, queueVars, execVars, procVars
<1>1. ASSUME NEW t \in Tokens, ExecutionStep(t) PROVE item'[j] = item[j]
    <2>0. Fence(t) => work[t] \in Jobs /\ owner[work[t]] = t
        BY DEF Fence, Owns, Ownership, ExecutionsKnowTheirJob
    <2>1. CASE LoadAndBegin(t)
        BY <2>0, <2>1 DEF LoadAndBegin, ToProcess, TypeOK
    <2>2. CASE Publish(t)
        <3>1. Fence(t) => item[work[t]] = "processing"
            BY <2>0, <2>2 DEF Publish, Results, ItemMatchesOwner
        <3>2. QED
            BY <2>2, <3>1 DEF Publish, TypeOK, ItemOpen
    <2>3. CASE FailFinal(t)
        BY <2>3 DEF FailFinal, CloseItem, TypeOK
    <2>4. CASE ScheduleRetry(t)
        BY <2>4 DEF ScheduleRetry, CloseItem, TypeOK
    <2>5. CASE UNCHANGED item
        BY <2>5
    <2>6. QED
        BY <1>1, <2>1, <2>2, <2>3, <2>4, <2>5
        DEF ExecutionStep, StartExecution, HandlerThrows, Decide, Abandon,
            Complete, CompleteThrows, AcknowledgeCancel, ReleaseForShutdown,
            GiveUp
<1>2. CASE UNCHANGED item
    BY <1>2
<1>3. QED
    BY <1>1, <1>2
    DEF Next, Claim, Heartbeat, HeartbeatFails, JobStep, RequestCancellation,
        ReconcileExpiredLease, ReconcileOrphanJob, RootLost, LeaseExpires,
        BackoffElapses, Shutdown, Exit, Restart, Quiescent, vars

LEMMA SettlementIsFinalStep ==
    ASSUME IInv, [Next]_vars, NEW j \in Jobs
    PROVE  /\ status[j] \in Terminal => status'[j] = status[j]
           /\ status[j] = "cancel_requested"
                => status'[j] \in {"cancel_requested", "cancelled"}
<1> USE DEF IInv, TypeOK, queueVars, execVars, procVars, Claimable, InProgress,
            Terminal
<1> DEFINE Kept == /\ status[j] \in Terminal => status'[j] = status[j]
                   /\ status[j] = "cancel_requested"
                        => status'[j] \in {"cancel_requested", "cancelled"}
<1>0. CASE UNCHANGED status
    BY <1>0
<1>1. ASSUME NEW w \in Workers, NEW t \in Tokens, NEW k \in Jobs, Claim(w, t, k)
      PROVE Kept
    BY <1>1 DEF Claim, Ready
<1>2. ASSUME NEW t \in Tokens, ExecutionStep(t) PROVE Kept
    <2>1. CASE Complete(t)
        BY <2>1 DEF Complete, Fence, Unlock
    <2>2. CASE AcknowledgeCancel(t)
        BY <2>2 DEF AcknowledgeCancel, Unlock
    <2>3. CASE FailFinal(t)
        BY <2>3 DEF FailFinal, Fence, Unlock
    <2>4. CASE ScheduleRetry(t)
        BY <2>4 DEF ScheduleRetry, Fence, Unlock
    <2>5. CASE ReleaseForShutdown(t)
        BY <2>5 DEF ReleaseForShutdown, ReleasedAs, Unlock
    <2>6. QED
        BY <1>0, <1>2, <2>1, <2>2, <2>3, <2>4, <2>5
        DEF ExecutionStep, StartExecution, LoadAndBegin, Publish, HandlerThrows,
            Decide, Abandon, CompleteThrows, GiveUp
<1>3. ASSUME NEW k \in Jobs, JobStep(k) PROVE Kept
    <2>1. CASE RequestCancellation(k)
        BY <2>1 DEF RequestCancellation, Cancellable
    <2>2. CASE ReconcileExpiredLease(k)
        BY <2>2 DEF ReconcileExpiredLease, LeaseExpired, Unlock
    <2>3. CASE ReconcileOrphanJob(k)
        BY <2>3 DEF ReconcileOrphanJob
    <2>4. QED
        BY <1>0, <1>3, <2>1, <2>2, <2>3
        DEF JobStep, RootLost, LeaseExpires, BackoffElapses
<1>4. Kept
    BY <1>0, <1>1, <1>2, <1>3
    DEF Next, Heartbeat, HeartbeatFails, Shutdown, Exit, Restart, Quiescent, vars
<1>5. QED
    BY <1>4

\* A recorded result is never replaced, by a zombie worker either.
THEOREM ResultStays == Spec => ResultIsFinal
<1>1. IInv /\ [Next]_vars
        => [\A j \in Jobs : item[j] \notin ItemOpen => item'[j] = item[j]]_vars
    BY ResultIsFinalStep
<1>2. QED
    BY <1>1, Inductive, PTL DEF Spec, ResultIsFinal

\* A settled job stays settled; a requested cancellation ends as cancelled.
THEOREM SettlementStays == Spec => SettlementIsFinal
<1>1. IInv /\ [Next]_vars
        => [\A j \in Jobs :
              /\ status[j] \in Terminal => status'[j] = status[j]
              /\ status[j] = "cancel_requested"
                   => status'[j] \in {"cancel_requested", "cancelled"}]_vars
    BY SettlementIsFinalStep
<1>2. QED
    BY <1>1, Inductive, PTL DEF Spec, SettlementIsFinal

-----------------------------------------------------------------------------
(***************************************************************************)
(* IngestionJobs implements DurableJobs: every step of the queue is a step *)
(* of one abstract job, or none.                                           *)
(***************************************************************************)

\* The refinement mapping, and what the abstract specification reads.
Phase   == [j \in Jobs |-> PhaseOf[status[j]]]
Charged == [j \in Jobs |-> attempts[j] - released[j]]
Result  == [j \in Jobs |-> IF item[j] \in ItemOpen THEN "open" ELSE item[j]]

Mapped == <<Phase, Charged, Result>>

-----------------------------------------------------------------------------
\* A step of one job's status is a step of its phase.
LEMMA PhaseMoves ==
    ASSUME TypeOK, NEW j \in Jobs, NEW s, status' = [status EXCEPT ![j] = s]
    PROVE  /\ Phase[j] = PhaseOf[status[j]]
           /\ Phase' = [Phase EXCEPT ![j] = PhaseOf[s]]
BY DEF TypeOK, Phase

\* The phase of each status, as facts.
LEMMA PhaseValues ==
    /\ PhaseOf["queued"] = "waiting"
    /\ PhaseOf["failed_retryable"] = "waiting"
    /\ PhaseOf["processing"] = "running"
    /\ PhaseOf["cancel_requested"] = "cancelling"
    /\ PhaseOf["completed"] = "succeeded"
    /\ PhaseOf["failed_final"] = "failed"
    /\ PhaseOf["cancelled"] = "cancelled"
BY DEF PhaseOf

LEMMA ChargedKept ==
    ASSUME UNCHANGED <<attempts, released>> PROVE UNCHANGED Charged
BY DEF Charged

LEMMA ChargedBack ==
    ASSUME TypeOK, NEW j \in Jobs, UNCHANGED attempts,
           released' = [released EXCEPT ![j] = @ + 1]
    PROVE  Charged' = [Charged EXCEPT ![j] = @ - 1]
<1>1. \A k \in Jobs : attempts'[k] - released'[k] =
         IF k = j THEN (attempts[k] - released[k]) - 1
                  ELSE attempts[k] - released[k]
    BY DEF TypeOK
<1>2. QED
    BY <1>1 DEF Charged

\* The budget as the abstract specification counts it.
LEMMA ChargedWithinBudget ==
    ASSUME IInv, NEW j \in Jobs
    PROVE  /\ status[j] \in Claimable => Charged[j] <= MaxRetries
           /\ status[j] \in InProgress /\ ~Exhausted(j) => Charged[j] <= MaxRetries
<1>1. Charged[j] = attempts[j] - released[j]
    BY DEF Charged
<1>2. /\ attempts[j] \in Nat /\ released[j] \in Nat /\ retries[j] \in Nat
      /\ retries[j] <= MaxRetries
      /\ status[j] \in Claimable => attempts[j] = released[j] + retries[j]
      /\ status[j] \in InProgress => attempts[j] = released[j] + retries[j] + 1
    BY DEF IInv, TypeOK, Budget
<1>3. ~Exhausted(j) => retries[j] + 1 <= MaxRetries
    BY <1>2, RetriesAssumption DEF Exhausted
<1>4. QED
    BY <1>1, <1>2, <1>3

LEMMA ItemCloses ==
    ASSUME TypeOK, NEW j \in Jobs, CloseItem(j) \/ UNCHANGED item
    PROVE  \/ UNCHANGED Result
           \/ /\ Result[j] = "open"
              /\ Result' = [Result EXCEPT ![j] = "internal_error"]
<1>1. CASE item' = item \/ (CloseItem(j) /\ item[j] \notin ItemOpen)
    BY <1>1 DEF TypeOK, Result, CloseItem
<1>2. CASE CloseItem(j) /\ item[j] \in ItemOpen
    <2>1. item' = [item EXCEPT ![j] = "internal_error"]
        BY <1>2 DEF CloseItem
    <2>2. Result[j] = "open"
        BY <1>2 DEF Result
    <2>3. Result' = [Result EXCEPT ![j] = "internal_error"]
        BY <2>1 DEF TypeOK, Result, ItemOpen
    <2>4. QED
        BY <2>2, <2>3
<1>3. QED
    BY <1>1, <1>2

LEMMA ClaimBegins ==
    ASSUME IInv, NEW w \in Workers, NEW t \in Tokens, NEW j \in Jobs,
           Claim(w, t, j)
    PROVE  Durable!Begin(j)
<1>1. status[j] \in Claimable /\ status' = [status EXCEPT ![j] = "processing"]
    BY DEF Claim, Ready
<1>2. Phase[j] = "waiting" /\ Phase' = [Phase EXCEPT ![j] = "running"]
    <2>1. /\ Phase[j] = PhaseOf[status[j]]
          /\ Phase' = [Phase EXCEPT ![j] = PhaseOf["processing"]]
        BY <1>1, PhaseMoves DEF IInv
    <2>2. QED
        BY <1>1, <2>1, PhaseValues DEF Claimable
<1>3. Charged[j] <= MaxRetries
    BY <1>1 DEF IInv, TypeOK, Budget, Charged
<1>4. Charged' = [Charged EXCEPT ![j] = @ + 1]
    <2>1. \A k \in Jobs : attempts'[k] - released'[k] =
             IF k = j THEN (attempts[k] - released[k]) + 1
                      ELSE attempts[k] - released[k]
        BY DEF Claim, IInv, TypeOK
    <2>2. QED
        BY <2>1 DEF Charged
<1>5. UNCHANGED Result
    BY DEF Claim, Result
<1>6. QED
    BY <1>2, <1>3, <1>4, <1>5
    DEF Durable!Begin, Durable!Move, Phase, Charged, Result

\* What an execution that owns its job knows of it.
LEMMA OwnerFacts ==
    ASSUME IInv, NEW t \in Tokens, Owns(t)
    PROVE  /\ work[t] \in Jobs
           /\ owner[work[t]] = t
           /\ pc[t] = "work" => item[work[t]] = "processing"
           /\ pc[t] = "completing" => item[work[t]] = "published"
BY DEF IInv, Owns, Ownership, ExecutionsKnowTheirJob, Results, ItemMatchesOwner

LEMMA PublishPublishes ==
    ASSUME IInv, NEW t \in Tokens, Publish(t)
    PROVE  UNCHANGED Mapped \/ \E j \in Jobs : Durable!Publish(j)
<1>1. CASE ~Fence(t)
    BY <1>1 DEF Publish, queueVars, Mapped, Phase, Charged, Result
<1>2. CASE Fence(t)
    <2>1. /\ work[t] \in Jobs /\ item[work[t]] = "processing"
          /\ status[work[t]] = "processing"
        BY <1>2, OwnerFacts DEF Publish, Fence
    <2>2. item' = [item EXCEPT ![work[t]] = "published"]
        BY <1>2 DEF Publish
    <2>3. Result[work[t]] = "open"
        BY <2>1 DEF Result, ItemOpen
    <2>4. Result' = [Result EXCEPT ![work[t]] = "published"]
        BY <2>1, <2>2 DEF Result, ItemOpen, IInv, TypeOK
    <2>5. Phase[work[t]] = "running"
        BY <2>1, PhaseValues DEF Phase
    <2>6. UNCHANGED <<Phase, Charged>>
        BY <1>2 DEF Publish, queueVars, Phase, Charged
    <2>7. PICK j \in Jobs : j = work[t]
        BY <2>1
    <2>8. Durable!Publish(j)
        BY <2>3, <2>4, <2>5, <2>6, <2>7
        DEF Durable!Publish, Phase, Charged, Result
    <2>9. QED
        BY <2>8
<1>3. QED
    BY <1>1, <1>2

LEMMA CompleteSucceeds ==
    ASSUME IInv, NEW t \in Tokens, Complete(t)
    PROVE  \E j \in Jobs : Durable!Succeed(j)
<1>1. /\ work[t] \in Jobs /\ item[work[t]] = "published"
      /\ status[work[t]] = "processing"
    BY OwnerFacts DEF Complete, Fence
<1>2. status' = [status EXCEPT ![work[t]] = "completed"]
    BY DEF Complete, Unlock
<1>3. /\ Phase[work[t]] = "running"
      /\ Phase' = [Phase EXCEPT ![work[t]] = "succeeded"]
    <2>1. /\ Phase[work[t]] = PhaseOf[status[work[t]]]
          /\ Phase' = [Phase EXCEPT ![work[t]] = PhaseOf["completed"]]
        BY <1>1, <1>2, PhaseMoves DEF IInv
    <2>2. QED
        BY <1>1, <1>2, <2>1, PhaseValues
<1>4. Result[work[t]] = "published"
    BY <1>1 DEF Result, ItemOpen
<1>5. UNCHANGED <<Charged, Result>>
    BY DEF Complete, Charged, Result
<1>6. PICK j \in Jobs : j = work[t]
    BY <1>1
<1>7. Durable!Succeed(j)
    BY <1>3, <1>4, <1>5, <1>6
    DEF Durable!Succeed, Durable!Move, Phase, Charged, Result
<1>8. QED
    BY <1>7

LEMMA AcknowledgeAcknowledges ==
    ASSUME IInv, NEW t \in Tokens, AcknowledgeCancel(t)
    PROVE  \E j \in Jobs : Durable!Acknowledge(j)
<1>1. work[t] \in Jobs /\ status[work[t]] = "cancel_requested"
    BY OwnerFacts DEF AcknowledgeCancel
<1>2. status' = [status EXCEPT ![work[t]] = "cancelled"]
    BY DEF AcknowledgeCancel, Unlock
<1>3. /\ Phase[work[t]] = "cancelling"
      /\ Phase' = [Phase EXCEPT ![work[t]] = "cancelled"]
    <2>1. /\ Phase[work[t]] = PhaseOf[status[work[t]]]
          /\ Phase' = [Phase EXCEPT ![work[t]] = PhaseOf["cancelled"]]
        BY <1>1, <1>2, PhaseMoves DEF IInv
    <2>2. QED
        BY <1>1, <1>2, <2>1, PhaseValues
<1>4. UNCHANGED <<Charged, Result>>
    BY DEF AcknowledgeCancel, Charged, Result
<1>5. PICK j \in Jobs : j = work[t]
    BY <1>1
<1>6. Durable!Acknowledge(j)
    BY <1>3, <1>4, <1>5
    DEF Durable!Acknowledge, Durable!Move, Phase, Charged, Result
<1>7. QED
    BY <1>6

\* A job in progress fails for good, its item closed or not.
LEMMA FailureFails ==
    ASSUME IInv, NEW j \in Jobs, status[j] = "processing",
           Unlock(j, "failed_final"), CloseItem(j) \/ UNCHANGED item,
           UNCHANGED <<attempts, released>>
    PROVE  Durable!Fail(j)
<1>1. Phase[j] = "running" /\ Phase' = [Phase EXCEPT ![j] = "failed"]
    <2>1. status' = [status EXCEPT ![j] = "failed_final"]
        BY DEF Unlock
    <2>2. QED
        <3>1. /\ Phase[j] = PhaseOf[status[j]]
              /\ Phase' = [Phase EXCEPT ![j] = PhaseOf["failed_final"]]
            BY <2>1, PhaseMoves DEF IInv
        <3>2. QED
            BY <2>1, <3>1, PhaseValues
<1>2. UNCHANGED Charged
    BY ChargedKept
<1>3. \/ UNCHANGED Result
      \/ /\ Result[j] = "open"
         /\ Result' = [Result EXCEPT ![j] = "internal_error"]
    BY ItemCloses DEF IInv
<1>4. QED
    BY <1>1, <1>2, <1>3 DEF Durable!Fail, Durable!Move, Phase, Charged, Result

\* A job in progress with retries left waits again.
LEMMA RetryRetries ==
    ASSUME IInv, NEW j \in Jobs, status[j] = "processing", ~Exhausted(j),
           Unlock(j, "failed_retryable"), UNCHANGED <<attempts, released, item>>
    PROVE  Durable!Retry(j)
<1>1. Phase[j] = "running" /\ Phase' = [Phase EXCEPT ![j] = "waiting"]
    <2>1. status' = [status EXCEPT ![j] = "failed_retryable"]
        BY DEF Unlock
    <2>2. QED
        <3>1. /\ Phase[j] = PhaseOf[status[j]]
              /\ Phase' = [Phase EXCEPT ![j] = PhaseOf["failed_retryable"]]
            BY <2>1, PhaseMoves DEF IInv
        <3>2. QED
            BY <2>1, <3>1, PhaseValues
<1>2. Charged[j] <= MaxRetries
    BY ChargedWithinBudget DEF InProgress
<1>3. UNCHANGED <<Charged, Result>>
    BY DEF Charged, Result
<1>4. QED
    BY <1>1, <1>2, <1>3 DEF Durable!Retry, Durable!Move, Phase, Charged, Result

LEMMA ReleaseRefunds ==
    ASSUME IInv, NEW t \in Tokens, ReleaseForShutdown(t)
    PROVE  \E j \in Jobs : Durable!Refund(j) \/ Durable!Acknowledge(j)
<1>1. work[t] \in Jobs
    BY OwnerFacts DEF ReleaseForShutdown
<1>2. Charged' = [Charged EXCEPT ![work[t]] = @ - 1]
    BY <1>1, ChargedBack DEF ReleaseForShutdown, IInv
<1>3. UNCHANGED Result
    BY DEF ReleaseForShutdown, Result
<1>4. CASE status[work[t]] = "cancel_requested"
    <2>1. status' = [status EXCEPT ![work[t]] = "cancelled"]
        BY <1>4 DEF ReleaseForShutdown, ReleasedAs, Unlock
    <2>2. /\ Phase[work[t]] = "cancelling"
          /\ Phase' = [Phase EXCEPT ![work[t]] = "cancelled"]
        <3>1. /\ Phase[work[t]] = PhaseOf[status[work[t]]]
              /\ Phase' = [Phase EXCEPT ![work[t]] = PhaseOf["cancelled"]]
            BY <1>1, <1>4, <2>1, PhaseMoves DEF IInv
        <3>2. QED
            BY <1>1, <1>4, <2>1, <3>1, PhaseValues
    <2>3. PICK j \in Jobs : j = work[t]
        BY <1>1
    <2>4. Durable!Acknowledge(j)
        BY <1>2, <1>3, <2>2, <2>3
        DEF Durable!Acknowledge, Durable!Move, Phase, Charged, Result
    <2>5. QED
        BY <2>4
<1>5. CASE status[work[t]] = "processing"
    <2>1. status' = [status EXCEPT ![work[t]] = "queued"]
        BY <1>5 DEF ReleaseForShutdown, ReleasedAs, Unlock
    <2>2. /\ Phase[work[t]] = "running"
          /\ Phase' = [Phase EXCEPT ![work[t]] = "waiting"]
        <3>1. /\ Phase[work[t]] = PhaseOf[status[work[t]]]
              /\ Phase' = [Phase EXCEPT ![work[t]] = PhaseOf["queued"]]
            BY <1>1, <1>5, <2>1, PhaseMoves DEF IInv
        <3>2. QED
            BY <1>1, <1>5, <2>1, <3>1, PhaseValues
    <2>3. PICK j \in Jobs : j = work[t]
        BY <1>1
    <2>4. Durable!Refund(j)
        BY <1>2, <1>3, <2>2, <2>3
        DEF Durable!Refund, Durable!Move, Phase, Charged, Result
    <2>5. QED
        BY <2>4
<1>6. QED
    BY <1>4, <1>5 DEF ReleaseForShutdown, InProgress

LEMMA CancellationCancels ==
    ASSUME IInv, NEW j \in Jobs, RequestCancellation(j)
    PROVE  UNCHANGED Mapped \/ Durable!Cancel(j)
<1>1. UNCHANGED <<Charged, Result>>
    BY DEF RequestCancellation, Charged, Result
<1>2. Result[j] = "open"
    BY DEF RequestCancellation, Cancellable, Result
<1>3. CASE status[j] \in Claimable
    <2>1. status' = [status EXCEPT ![j] = "cancelled"]
        BY <1>3 DEF RequestCancellation, Claimable, InProgress, IInv, TypeOK
    <2>2. /\ Phase[j] = PhaseOf[status[j]]
          /\ Phase' = [Phase EXCEPT ![j] = PhaseOf["cancelled"]]
        BY <2>1, PhaseMoves DEF IInv
    <2>3. Phase[j] = "waiting" /\ Phase' = [Phase EXCEPT ![j] = "cancelled"]
        BY <1>3, <2>2, PhaseValues DEF Claimable
    <2>4. QED
        BY <1>1, <1>2, <2>3
        DEF Durable!Cancel, Durable!Move, Phase, Charged, Result
<1>4. CASE status[j] = "processing"
    <2>1. status' = [status EXCEPT ![j] = "cancel_requested"]
        BY <1>4 DEF RequestCancellation, InProgress, IInv, TypeOK
    <2>2. /\ Phase[j] = PhaseOf[status[j]]
          /\ Phase' = [Phase EXCEPT ![j] = PhaseOf["cancel_requested"]]
        BY <2>1, PhaseMoves DEF IInv
    <2>3. Phase[j] = "running" /\ Phase' = [Phase EXCEPT ![j] = "cancelling"]
        BY <1>4, <2>2, PhaseValues
    <2>4. QED
        BY <1>1, <1>2, <2>3
        DEF Durable!Cancel, Durable!Move, Phase, Charged, Result
<1>5. CASE status[j] = "cancel_requested"
    <2>1. status' = status
        BY <1>5 DEF RequestCancellation, InProgress, IInv, TypeOK
    <2>2. QED
        BY <1>1, <2>1 DEF Mapped, Phase
<1>6. status[j] \in Claimable \cup InProgress
    BY DEF RequestCancellation, Cancellable, IInv, TypeOK, Status
<1>7. QED
    BY <1>3, <1>4, <1>5, <1>6 DEF InProgress

LEMMA ReconcilerRecovers ==
    ASSUME IInv, NEW j \in Jobs, ReconcileExpiredLease(j)
    PROVE  Durable!Acknowledge(j) \/ Durable!Fail(j) \/ Durable!Retry(j)
<1>1. UNCHANGED <<attempts, released, item>>
    BY DEF ReconcileExpiredLease
<1>2. CASE status[j] = "cancel_requested"
    <2>1. status' = [status EXCEPT ![j] = "cancelled"]
        BY <1>2 DEF ReconcileExpiredLease, Unlock
    <2>2. /\ Phase[j] = PhaseOf[status[j]]
          /\ Phase' = [Phase EXCEPT ![j] = PhaseOf["cancelled"]]
        BY <2>1, PhaseMoves DEF IInv
    <2>3. Phase[j] = "cancelling" /\ Phase' = [Phase EXCEPT ![j] = "cancelled"]
        BY <1>2, <2>2, PhaseValues
    <2>4. UNCHANGED <<Charged, Result>>
        BY <1>1 DEF Charged, Result
    <2>5. QED
        BY <2>3, <2>4 DEF Durable!Acknowledge, Durable!Move, Phase, Charged, Result
<1>3. CASE status[j] = "processing" /\ Exhausted(j)
    <2>1. Unlock(j, "failed_final")
        BY <1>3 DEF ReconcileExpiredLease
    <2>2. QED
        BY <1>1, <1>3, <2>1, FailureFails
<1>4. CASE status[j] = "processing" /\ ~Exhausted(j)
    <2>1. Unlock(j, "failed_retryable")
        BY <1>4 DEF ReconcileExpiredLease
    <2>2. QED
        BY <1>1, <1>4, <2>1, RetryRetries
<1>5. status[j] \in {"processing", "cancel_requested"}
    BY DEF ReconcileExpiredLease, LeaseExpired, InProgress
<1>6. QED
    BY <1>2, <1>3, <1>4, <1>5

LEMMA OrphanFails ==
    ASSUME IInv, NEW j \in Jobs, ReconcileOrphanJob(j)
    PROVE  Durable!Fail(j)
<1>1. status[j] \in Claimable /\ status' = [status EXCEPT ![j] = "failed_final"]
    BY DEF ReconcileOrphanJob
<1>2. /\ Phase[j] = PhaseOf[status[j]]
      /\ Phase' = [Phase EXCEPT ![j] = PhaseOf["failed_final"]]
    BY <1>1, PhaseMoves DEF IInv
<1>3. Phase[j] = "waiting" /\ Phase' = [Phase EXCEPT ![j] = "failed"]
    BY <1>1, <1>2, PhaseValues DEF Claimable
<1>4. UNCHANGED <<Charged, Result>>
    BY DEF ReconcileOrphanJob, Charged, Result
<1>5. QED
    BY <1>3, <1>4 DEF Durable!Fail, Durable!Move, Phase, Charged, Result

\* An item that begins to be processed is as open as it was.
LEMMA BeginningKeepsOpen ==
    ASSUME IInv, NEW t \in Tokens, LoadAndBegin(t)
    PROVE  UNCHANGED Mapped
<1>1. CASE UNCHANGED item
    BY <1>1 DEF LoadAndBegin, queueVars, Mapped, Phase, Charged, Result
<1>2. CASE /\ ToProcess(work[t]) /\ Fence(t)
           /\ item' = [item EXCEPT ![work[t]] = "processing"]
    <2>1. UNCHANGED Result
        BY <1>2 DEF ToProcess, Result, ItemOpen, IInv, TypeOK
    <2>2. QED
        BY <2>1 DEF LoadAndBegin, queueVars, Mapped, Phase, Charged
<1>3. QED
    BY <1>1, <1>2 DEF LoadAndBegin

-----------------------------------------------------------------------------
LEMMA StepRefines ==
    ASSUME IInv, [Next]_vars
    PROVE  UNCHANGED Mapped \/ \E j \in Jobs :
               \/ Durable!Begin(j)
               \/ Durable!Publish(j)
               \/ Durable!Refund(j)
               \/ Durable!Retry(j)
               \/ Durable!Succeed(j)
               \/ Durable!Fail(j)
               \/ Durable!Cancel(j)
               \/ Durable!Acknowledge(j)
<1>0. CASE UNCHANGED <<status, attempts, released, item>>
    BY <1>0 DEF Mapped, Phase, Charged, Result
<1>1. ASSUME NEW w \in Workers, NEW t \in Tokens, NEW j \in Jobs, Claim(w, t, j)
      PROVE Durable!Begin(j)
    BY <1>1, ClaimBegins
<1>2. ASSUME NEW t \in Tokens, ExecutionStep(t)
      PROVE UNCHANGED Mapped \/ \E j \in Jobs :
                \/ Durable!Publish(j)
                \/ Durable!Refund(j)
                \/ Durable!Retry(j)
                \/ Durable!Succeed(j)
                \/ Durable!Fail(j)
                \/ Durable!Acknowledge(j)
    <2>1. CASE LoadAndBegin(t)
        BY <2>1, BeginningKeepsOpen
    <2>2. CASE Publish(t)
        <3>1. CASE ~Fence(t)
            BY <1>0, <2>2, <3>1 DEF Publish, queueVars, Mapped, Phase, Charged, Result
        <3>2. CASE Fence(t)
            BY <2>2, PublishPublishes
        <3>3. QED
            BY <3>1, <3>2
    <2>3. CASE Complete(t)
        BY <2>3, CompleteSucceeds
    <2>4. CASE AcknowledgeCancel(t)
        BY <2>4, AcknowledgeAcknowledges
    <2>5. CASE FailFinal(t)
        <3>1. work[t] \in Jobs /\ status[work[t]] = "processing"
            BY <2>5, OwnerFacts DEF FailFinal, Fence
        <3>2. /\ Unlock(work[t], "failed_final") /\ CloseItem(work[t])
              /\ UNCHANGED <<attempts, released>>
            BY <2>5 DEF FailFinal
        <3>3. QED
            BY <3>1, <3>2, FailureFails
    <2>6. CASE ScheduleRetry(t)
        <3>1. /\ work[t] \in Jobs /\ status[work[t]] = "processing"
              /\ UNCHANGED <<attempts, released>>
            BY <2>6, OwnerFacts DEF ScheduleRetry, Fence
        <3>2. CASE Exhausted(work[t])
            <4>1. Unlock(work[t], "failed_final") /\ CloseItem(work[t])
                BY <2>6, <3>2 DEF ScheduleRetry
            <4>2. QED
                BY <3>1, <4>1, FailureFails
        <3>3. CASE ~Exhausted(work[t])
            <4>1. Unlock(work[t], "failed_retryable") /\ UNCHANGED item
                BY <2>6, <3>3 DEF ScheduleRetry
            <4>2. QED
                BY <3>1, <3>3, <4>1, RetryRetries
        <3>4. QED
            BY <3>2, <3>3
    <2>7. CASE ReleaseForShutdown(t)
        BY <2>7, ReleaseRefunds
    <2>8. CASE UNCHANGED <<status, attempts, released, item>>
        BY <2>8 DEF Mapped, Phase, Charged, Result
    <2>9. QED
        BY <1>2, <2>1, <2>2, <2>3, <2>4, <2>5, <2>6, <2>7, <2>8
        DEF ExecutionStep, StartExecution, HandlerThrows, Decide, Abandon,
            CompleteThrows, GiveUp, queueVars
<1>3. ASSUME NEW j \in Jobs, JobStep(j)
      PROVE UNCHANGED Mapped \/ \E k \in Jobs :
                \/ Durable!Retry(k)
                \/ Durable!Fail(k)
                \/ Durable!Cancel(k)
                \/ Durable!Acknowledge(k)
    <2>1. CASE RequestCancellation(j)
        BY <2>1, CancellationCancels
    <2>2. CASE ReconcileExpiredLease(j)
        BY <2>2, ReconcilerRecovers
    <2>3. CASE ReconcileOrphanJob(j)
        BY <2>3, OrphanFails
    <2>4. CASE UNCHANGED <<status, attempts, released, item>>
        BY <2>4 DEF Mapped, Phase, Charged, Result
    <2>5. QED
        BY <1>3, <2>1, <2>2, <2>3, <2>4
        DEF JobStep, RootLost, LeaseExpires, BackoffElapses, queueVars
<1>4. CASE /\ ~(\E w \in Workers, t \in Tokens, j \in Jobs : Claim(w, t, j))
           /\ ~(\E t \in Tokens : ExecutionStep(t))
           /\ ~(\E j \in Jobs : JobStep(j))
    <2>1. UNCHANGED <<status, attempts, released, item>>
        BY <1>4 DEF Next, Heartbeat, HeartbeatFails, Shutdown, Exit, Restart,
                    Quiescent, vars, queueVars
    <2>2. QED
        BY <1>0, <2>1
<1>5. QED
    BY <1>1, <1>2, <1>3, <1>4

LEMMA InitRefines == Init => Durable!Init
BY PhaseValues DEF Init, Durable!Init, ItemOpen

\* The queue implements the abstract durable job: IngestionJobs.Durable.
THEOREM Refinement == Spec => ImplementsDurableJobs
<1>1. Init => Durable!Init
    BY InitRefines
<1>2. IInv /\ [Next]_vars => [Durable!Next]_(Durable!vars)
    <2> SUFFICES ASSUME IInv, [Next]_vars, ~UNCHANGED Mapped
                 PROVE  Durable!Next
        BY DEF Durable!vars, Mapped, Phase, Charged, Result
    <2>1. QED
        BY StepRefines DEF Durable!Next
<1>3. QED
    BY <1>1, <1>2, Inductive, PTL DEF Spec, ImplementsDurableJobs, Durable!Spec

=============================================================================
