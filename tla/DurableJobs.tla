---------------------------- MODULE DurableJobs ----------------------------
(***************************************************************************)
(* What the ingestion queue promises of a job, whoever executes it: at     *)
(* most MaxRetries + 1 executions are charged to it, its document gets at  *)
(* most one result, success means a published document, and a cancellation *)
(* that was accepted keeps the document unpublished.  There are no worker  *)
(* processes, leases, tokens or reconcilers here.                          *)
(***************************************************************************)
EXTENDS Integers

CONSTANTS Jobs, MaxRetries

VARIABLES
    phase,     \* where each job is in its life
    charged,   \* executions charged to its budget
    result     \* what became of its document

vars == <<phase, charged, result>>

Init ==
    /\ phase = [j \in Jobs |-> "waiting"]
    /\ charged = [j \in Jobs |-> 0]
    /\ result = [j \in Jobs |-> "open"]

Move(j, from, to) ==
    /\ phase[j] = from
    /\ phase' = [phase EXCEPT ![j] = to]

\* An execution starts, within the budget.
Begin(j) ==
    /\ charged[j] <= MaxRetries
    /\ Move(j, "waiting", "running")
    /\ charged' = [charged EXCEPT ![j] = @ + 1]
    /\ UNCHANGED result

Publish(j) ==
    /\ phase[j] = "running"
    /\ result[j] = "open"
    /\ result' = [result EXCEPT ![j] = "published"]
    /\ UNCHANGED <<phase, charged>>

\* An execution is given back: it does not count.
Refund(j) ==
    /\ Move(j, "running", "waiting")
    /\ charged' = [charged EXCEPT ![j] = @ - 1]
    /\ UNCHANGED result

\* An execution failed or vanished, and the budget allows another.
Retry(j) ==
    /\ charged[j] <= MaxRetries
    /\ Move(j, "running", "waiting")
    /\ UNCHANGED <<charged, result>>

Succeed(j) ==
    /\ result[j] = "published"
    /\ Move(j, "running", "succeeded")
    /\ UNCHANGED <<charged, result>>

\* A failed job may close its open document as an error.
Fail(j) ==
    /\ \/ Move(j, "running", "failed")
       \/ Move(j, "waiting", "failed")
    /\ \/ UNCHANGED result
       \/ /\ result[j] = "open"
          /\ result' = [result EXCEPT ![j] = "internal_error"]
    /\ UNCHANGED charged

Cancel(j) ==
    /\ result[j] = "open"
    /\ \/ Move(j, "waiting", "cancelled")
       \/ Move(j, "running", "cancelling")
    /\ UNCHANGED <<charged, result>>

\* The execution stops, or is given back, or is found to have vanished.
Acknowledge(j) ==
    /\ Move(j, "cancelling", "cancelled")
    /\ \/ UNCHANGED charged
       \/ charged' = [charged EXCEPT ![j] = @ - 1]
    /\ UNCHANGED result

Next ==
    \E j \in Jobs :
        \/ Begin(j)
        \/ Publish(j)
        \/ Refund(j)
        \/ Retry(j)
        \/ Succeed(j)
        \/ Fail(j)
        \/ Cancel(j)
        \/ Acknowledge(j)

Spec == Init /\ [][Next]_vars

=============================================================================
