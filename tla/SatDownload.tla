---------------------------- MODULE SatDownload ----------------------------
(* One SAT download job: its row in sat_download_jobs, its request, the        *)
(* packages SAT offers for it and their ingestion jobs. Workers claim the row  *)
(* under a lease and a fence, use one authorization of the user (a custody,    *)
(* see Efirma) for the calls to SAT, and go on locally without one.            *)
(*                                                                             *)
(* Every transaction and every call is a step. A lost reply, a refused check   *)
(* of the authority and a failed authentication are answers of a call; a       *)
(* failed transaction, a crash and an overrun lease are faults, bounded by     *)
(* MaxFaults. Backoff times are passed over: a due time may always have come.  *)
EXTENDS Naturals, FiniteSets

CONSTANTS Workers,    \* processes that run SatWorker.tick
          Packages,   \* what SAT offers once the request is processed
          NoOne,      \* no worker
          MaxGrants,  \* bound: authorizations the user gives to the job
          MaxLocal,   \* local_retry_count at most (the code's is 10)
          MaxFaults   \* bound: failed transactions, crashes, overrun leases

ASSUME WorkersAssumption == NoOne \notin Workers
ASSUME BoundsAssumption == MaxGrants \in Nat /\ MaxLocal \in Nat /\ MaxFaults \in Nat

VARIABLES
    job,        \* the sat_download_jobs row
    request,    \* submission_state of its sat_requests row
    pk,         \* the sat_packages rows, and the state of their ingestion jobs
    binding,    \* purpose of the authorization the user is preparing
    run,        \* where each worker stands in runJob, and what it has read
    lodged,     \* history: submissions SAT has taken, counted to 2
    downloads,  \* history: download calls sent for each package, counted to 3
    asked,      \* history: retries the user asked for before a download
    faults

vars == <<job, request, pk, binding, run, lodged, downloads, asked, faults>>
history == <<lodged, downloads, asked>>

Statuses == {"authorization_pending", "submitting", "waiting_sat", "recovering",
             "requires_user_authorization", "processing_local", "completed",
             "completed_with_issues", "cancelled", "failed", "external_submission_unknown"}
\* The statuses in which the user may authorize, and in which a claim stays local.
Authorizable == {"authorization_pending", "requires_user_authorization", "waiting_sat"}
LocalOnly == {"processing_local", "requires_user_authorization", "waiting_sat"}

NoPackage == [status |-> "absent", attempts |-> 0, down |-> FALSE, retries |-> 0, ingest |-> "none"]
Resting == [pc |-> "idle", seen |-> "none", grant |-> 0, todo |-> {}, next |-> "none",
            answer |-> "none", error |-> "none"]

Init ==
    /\ job = [status |-> "authorization_pending", cancel |-> FALSE, terminal |-> FALSE,
              failures |-> 0, custody |-> "none", grants |-> 0, by |-> NoOne, lease |-> "none"]
    /\ request = "not_sent"
    /\ pk = [p \in Packages |-> NoPackage]
    /\ binding = "none"
    /\ run = [w \in Workers |-> Resting]
    /\ lodged = 0
    /\ downloads = [p \in Packages |-> 0]
    /\ asked = [p \in Packages |-> 0]
    /\ faults = 0

-----------------------------------------------------------------------------
(* Mutations of definitions below.                                             *)

\* A submission in doubt is made free to be sent again.
DoubtedResent == "not_sent"
\* A package is given the status of its ingestion job as it is.
ResultOfSame(ingest) == ingest
\* The fence does not look at the cancellation.
FencedCancelled(w) == job.by = w /\ job.lease = "held"

-----------------------------------------------------------------------------
(* The lease, the fence and the way out.                                       *)

Owns(w) == job.by = w /\ job.lease = "held"
Fenced(w) == Owns(w) /\ ~job.cancel

Goto(w, pc) == run' = [run EXCEPT ![w].pc = pc]
\* runJob's catch, with what it knows of the error.
Catch(w, error) == run' = [run EXCEPT ![w] = [Resting EXCEPT !.pc = "caught", !.error = error]]
FenceError(w) == IF Owns(w) THEN "cancelled" ELSE "other"

\* A transaction of the worker that the fence guards: it lets `effect` happen, or fails.
\* The two inner catches of runJob pass the same fence first, and fail like it.
Transaction(w, from, effect) ==
    /\ run[w].pc = from
    /\ IF Fenced(w) THEN effect ELSE Catch(w, FenceError(w)) /\ UNCHANGED <<job, request, pk>>
    /\ UNCHANGED <<binding, history, faults>>

\* A call to SAT, after a check of the lease and of the authority.
Guarded(w, from, call) ==
    /\ run[w].pc = from
    /\ IF Fenced(w) THEN call ELSE Catch(w, FenceError(w)) /\ UNCHANGED history
    /\ UNCHANGED <<job, request, pk, binding, faults>>

State(w, status, pc) ==
    /\ job' = [job EXCEPT !.status = status, !.terminal = FALSE]
    /\ Goto(w, pc)
    /\ UNCHANGED <<request, pk>>

\* Where a failed call or transaction of the worker leads.
InSubmission == {"submit", "resubmit", "submit_again", "record", "show_accepted"}
InDownload == {"fetch", "store"}
Handler(w) == IF run[w].pc \in InSubmission THEN "doubt"
              ELSE IF run[w].pc \in InDownload THEN "unfetched"
              ELSE IF run[w].pc = "caught" THEN "release"
              ELSE IF run[w].pc = "release" THEN "idle" ELSE "caught"
Fails(w) ==
    run' = [run EXCEPT ![w] =
        IF Handler(w) = "idle" THEN Resting
        ELSE IF Handler(w) \in {"caught", "release"}
        THEN [Resting EXCEPT !.pc = Handler(w), !.error = "other"]
        ELSE [@ EXCEPT !.pc = Handler(w), !.error = "other"]]

-----------------------------------------------------------------------------
(* A worker: from the claim to what the job needs.                             *)

Listed == ~job.terminal /\ job.lease # "held"
          /\ \/ job.cancel \/ job.status \in {"submitting", "recovering", "processing_local"}
             \/ \E p \in Packages : pk[p].status \in {"stored", "processing"}

\* sat_jobs_batch; the jobs listed before this one are run in between.
List(w) ==
    /\ run[w].pc = "idle" /\ Listed
    /\ Goto(w, "listed")
    /\ UNCHANGED <<job, request, pk, binding, history, faults>>

\* What localPackages finds to do: an interrupted download, a package stored and not
\* yet handed over.
LocalWork == {p \in Packages : pk[p].status = "downloading"
                               \/ (pk[p].status = "stored" /\ pk[p].down /\ pk[p].ingest = "none")}

\* The claim returns the row: what it says is not read again.
Claim(w) ==
    LET ok == ~job.terminal /\ job.lease # "held"
    IN  /\ run[w].pc = "listed"
        /\ job' = IF ok THEN [job EXCEPT !.by = w, !.lease = "held"] ELSE job
        /\ run' = [run EXCEPT ![w] =
               IF ~ok THEN Resting
               ELSE IF job.cancel THEN [Resting EXCEPT !.pc = "caught", !.error = "cancelled"]
               ELSE [Resting EXCEPT !.pc = "claimed", !.grant = job.grants,
                                    !.seen = IF job.status \in LocalOnly THEN "local" ELSE "any"]]
        /\ UNCHANGED <<request, pk, binding, history, faults>>

\* The request, then the packages.
Read(w) ==
    /\ run[w].pc = "claimed"
    /\ run' = [run EXCEPT ![w] = IF request \in {"sending", "unknown"}
                                THEN [Resting EXCEPT !.pc = "doubted"]
                                ELSE [@ EXCEPT !.pc = "local", !.todo = LocalWork]]
    /\ UNCHANGED <<job, request, pk, binding, history, faults>>

\* A submission that another run left open is not sent again.
Doubted == "unknown"
MarkDoubted(w) ==
    Transaction(w, "doubted", request' = Doubted /\ Goto(w, "show_unknown") /\ UNCHANGED <<job, pk>>)

\* The error that led here goes on to the catch.
ShowUnknown(w) ==
    Transaction(w, "show_unknown",
        State(w, "external_submission_unknown", IF run[w].error = "none" THEN "release" ELSE "caught"))

Interrupted(p) == IF pk[p].attempts >= 2 THEN "budget_exhausted" ELSE "download_unknown"

\* localPackages, one package: its object may be missing or damaged.
LocalPackage(w) ==
    \E p \in run[w].todo :
        Transaction(w, "local",
            /\ run' = [run EXCEPT ![w].todo = @ \ {p}]
            /\ \/ pk[p].status = "downloading" /\ pk' = [pk EXCEPT ![p].status = Interrupted(p)]
               \/ pk[p].status # "downloading"
                  /\ pk' = [pk EXCEPT ![p].status = "processing", ![p].ingest = "active"]
               \/ pk[p].status # "downloading" /\ pk' = [pk EXCEPT ![p].status = "failed"]
            /\ UNCHANGED <<job, request>>)

\* The decision takes the status and the custody of the claim.
LocalDone(w) ==
    /\ run[w].pc = "local" /\ run[w].todo = {}
    /\ run' = [run EXCEPT ![w] =
           IF run[w].seen = "none" THEN [@ EXCEPT !.pc = "finish"]
           ELSE IF run[w].seen = "local" THEN [Resting EXCEPT !.pc = "reconcile"]
           ELSE [@ EXCEPT !.pc = "use_custody", !.seen = "none"]]
    /\ UNCHANGED <<job, request, pk, binding, history, faults>>

ResultOf(ingest) == CASE ingest = "completed" -> "completed"
                      [] ingest = "issues" -> "with_issues"
                      [] OTHER -> "failed"
Settled == {"completed", "issues", "failed", "cancelled"}

\* reconcileResults: every row of the request that points to a settled ingestion job.
Reconcile(w) ==
    LET rows == [p \in Packages |-> IF pk[p].ingest \in Settled
                                    THEN [pk[p] EXCEPT !.status = ResultOf(pk[p].ingest)] ELSE pk[p]]
        known == {p \in Packages : rows[p].status # "absent"}
        open == {p \in known : rows[p].status \in {"pending", "downloading", "stored", "processing"}}
    IN  Transaction(w, "reconcile",
            /\ pk' = rows
            /\ job' = IF open = {} /\ known # {}
                      THEN [job EXCEPT !.terminal = TRUE, !.status =
                               IF \A p \in known : rows[p].status = "completed"
                               THEN "completed" ELSE "completed_with_issues"]
                      ELSE IF \E p \in known : rows[p].status = "pending"
                      THEN [job EXCEPT !.status = "requires_user_authorization"] ELSE job
            /\ Goto(w, "release") /\ UNCHANGED request)

-----------------------------------------------------------------------------
(* The use of an authorization.                                                *)

Purpose == IF request = "accepted" THEN "recover" ELSE "submit"

\* withCredential: the custody serves once, for its own purpose, and may have ended.
\* The refusal leads where a job without a custody leads.
UseCustody(w) ==
    LET ok == job.custody = Purpose /\ job.grants = run[w].grant
    IN  /\ run[w].pc = "use_custody"
        /\ \/ ok /\ run' = [run EXCEPT ![w].pc = "authenticate", ![w].grant = 0] /\ job' = [job EXCEPT !.custody = "spent"]
           \/ Catch(w, "other") /\ UNCHANGED job
        /\ UNCHANGED <<request, pk, binding, history, faults>>

\* The guard and the call lie outside the try that keeps the error, and withCredential
\* puts one of its own in its place: a cancellation found here is left to a later run,
\* and a technical failure is not counted.
Authenticate(w) ==
    /\ run[w].pc = "authenticate"
    /\ \/ Fenced(w) /\ Goto(w, IF request = "accepted" THEN "verify" ELSE "send")
       \/ Catch(w, "other")
    /\ UNCHANGED <<job, request, pk, binding, history, faults>>

\* The authority is gone, or the worker is told to stop, at a check before a call.
AuthorityLost(w) ==
    /\ \/ run[w].pc \in {"send", "resubmit", "verify", "fetch"}
       \/ run[w].pc = "start" /\ run[w].todo # {}
    /\ Fails(w)
    /\ UNCHANGED <<job, request, pk, binding, history, faults>>

\* The submission is recorded before it is made.
Send(w) ==
    Transaction(w, "send",
        /\ IF request = "not_sent" THEN request' = "sending" /\ Goto(w, "submit")
           ELSE request' = request /\ Catch(w, "other")
        /\ UNCHANGED <<job, pk>>)

Lodge == lodged' = IF lodged < 2 THEN lodged + 1 ELSE lodged

\* SAT takes the submission, refuses it, or does not know the session; the reply may be
\* lost. Only a session SAT does not know is followed by a second call.
Submit(w) ==
    /\ run[w].pc \in {"submit", "submit_again"}
    /\ \/ Lodge /\ run' = [run EXCEPT ![w].pc = "record", ![w].answer = "accepted"]
       \/ Lodge /\ Fails(w)
       \/ UNCHANGED lodged /\ run' = [run EXCEPT ![w].pc = "record", ![w].answer = "rejected"]
       \/ UNCHANGED lodged /\ run[w].pc = "submit" /\ Goto(w, "resubmit")
       \/ UNCHANGED lodged /\ Fails(w)
    /\ UNCHANGED <<job, request, pk, binding, downloads, asked, faults>>

\* A fresh session, between two checks.
Resubmit(w) ==
    Guarded(w, "resubmit", (Goto(w, "submit_again") \/ Fails(w)) /\ UNCHANGED history)

Record(w) ==
    Transaction(w, "record",
        /\ request' = run[w].answer
        /\ Goto(w, IF run[w].answer = "accepted" THEN "show_accepted" ELSE "consume")
        /\ UNCHANGED <<job, pk>>)

ShowWaiting(w) ==
    \E from \in {"show_accepted", "show_waiting"} :
        Transaction(w, from, State(w, "waiting_sat", "consume"))

RecordDoubt(w) ==
    Transaction(w, "doubt",
        /\ request' = IF request = "sending" THEN Doubted ELSE request
        /\ Goto(w, "show_unknown") /\ UNCHANGED <<job, pk>>)

\* VerificaSolicitudDescarga, classified.
Verify(w) ==
    Guarded(w, "verify",
        /\ \/ \E a \in {"waiting", "empty", "packages", "refused"} :
                  run' = [run EXCEPT ![w].pc = "verified", ![w].answer = a]
           \/ Catch(w, "technical") \/ Catch(w, "other")
        /\ UNCHANGED history)

\* Packages that were known and are offered no more contradict the answer.
Verified(w) ==
    LET known == \E p \in Packages : pk[p].status # "absent"
        answer == IF run[w].answer = "empty" /\ known THEN "refused" ELSE run[w].answer
        rows == [p \in Packages |-> IF pk[p].status = "absent" /\ answer = "packages"
                                    THEN [pk[p] EXCEPT !.status = "pending"] ELSE pk[p]]
    IN  Transaction(w, "verified",
            /\ pk' = rows
            /\ run' = [run EXCEPT ![w] =
                   IF answer = "waiting" THEN [@ EXCEPT !.pc = "show_waiting", !.answer = "none"]
                   ELSE IF answer = "packages"
                   THEN [@ EXCEPT !.pc = "start", !.answer = "none",
                                  !.todo = {p \in Packages : rows[p].status = "pending" /\ ~rows[p].down}]
                   ELSE [@ EXCEPT !.pc = "consume", !.answer = answer]]
            /\ UNCHANGED <<job, request>>)

\* A download is recorded before it is made.
StartDownload(w) ==
    \E p \in run[w].todo :
        Transaction(w, "start",
            /\ IF pk[p].attempts >= 2
               THEN /\ pk' = [pk EXCEPT ![p].status = "budget_exhausted"]
                    /\ run' = [run EXCEPT ![w].todo = @ \ {p}]
               ELSE /\ pk' = [pk EXCEPT ![p].status = "downloading", ![p].attempts = @ + 1]
                    /\ run' = [run EXCEPT ![w].pc = "fetch", ![w].next = p, ![w].todo = @ \ {p}]
            /\ UNCHANGED <<job, request>>)

Fetch(w) ==
    LET p == run[w].next
    IN  Guarded(w, "fetch",
            /\ Goto(w, "store")
               \/ \E e \in {"expired", "budget", "other"} : run' = [run EXCEPT ![w].pc = "unfetched", ![w].error = e]
            /\ downloads' = [downloads EXCEPT ![p] = IF @ < 3 THEN @ + 1 ELSE @]
            /\ UNCHANGED <<lodged, asked>>)

Store(w) ==
    LET p == run[w].next
    IN  Transaction(w, "store",
            /\ pk' = [pk EXCEPT ![p].status = "stored", ![p].down = TRUE]
            /\ run' = [run EXCEPT ![w].pc = "start", ![w].next = "none"]
            /\ UNCHANGED <<job, request>>)

Unfetched(w) ==
    LET p == run[w].next
    IN  Transaction(w, "unfetched",
            /\ pk' = IF pk[p].status # "downloading" THEN pk
                     ELSE [pk EXCEPT ![p].status = IF run[w].error = "expired" THEN "expired"
                                                   ELSE IF run[w].error = "budget"
                                                   THEN "budget_exhausted" ELSE Interrupted(p)]
            /\ run' = [run EXCEPT ![w].pc = "start", ![w].next = "none", ![w].error = "none"]
            /\ UNCHANGED <<job, request>>)

Downloaded(w) ==
    /\ run[w].pc = "start" /\ run[w].todo = {}
    /\ run' = [run EXCEPT ![w].pc = "local", ![w].todo = LocalWork]
    /\ UNCHANGED <<job, request, pk, binding, history, faults>>

Finish(w) == Transaction(w, "finish", State(w, "processing_local", "consume"))

\* withCredential's last check and the consumption of the custody.
Consume(w) ==
    /\ run[w].pc = "consume"
    /\ \/ Goto(w, IF run[w].answer \in {"empty", "refused", "rejected"} THEN "result" ELSE "release")
       \/ Catch(w, "other")
    /\ UNCHANGED <<job, request, pk, binding, history, faults>>

ApplyResult(w) ==
    Transaction(w, "result",
        /\ job' = [job EXCEPT !.terminal = TRUE,
                              !.status = IF run[w].answer = "empty" THEN "completed" ELSE "failed"]
        /\ Goto(w, "release") /\ UNCHANGED <<request, pk>>)

-----------------------------------------------------------------------------
(* The end of a run.                                                           *)

\* The job, and what its packages left to the ingestion workers.
CancelJob(w) ==
    /\ run[w].pc = "caught" /\ run[w].error = "cancelled"
    /\ IF Owns(w)
       THEN /\ job' = [job EXCEPT !.status = "cancelled", !.terminal = TRUE]
            /\ pk' = [p \in Packages |-> IF pk[p].ingest = "active"
                                         THEN [pk[p] EXCEPT !.ingest = "cancelling"] ELSE pk[p]]
       ELSE UNCHANGED <<job, pk>>
    /\ Goto(w, "release")
    /\ UNCHANGED <<request, binding, history, faults>>

\* The fence is passed once more, also by an error of the fence.
RecordFailure(w) ==
    LET inDoubt == request \in {"sending", "unknown"}
        last == job.failures >= 2
    IN  /\ run[w].pc = "caught" /\ run[w].error # "cancelled"
        /\ job' = IF ~Fenced(w) \/ job.terminal THEN job
                  ELSE IF run[w].error = "technical" /\ ~inDoubt
                  THEN [job EXCEPT !.failures = IF @ < 3 THEN @ + 1 ELSE @, !.terminal = last,
                                   !.status = IF last THEN "failed" ELSE "requires_user_authorization"]
                  ELSE IF job.status \in {"waiting_sat", "processing_local"} THEN job
                  ELSE [job EXCEPT !.status = IF inDoubt THEN "external_submission_unknown"
                                              ELSE "requires_user_authorization"]
        /\ Goto(w, "release")
        /\ UNCHANGED <<request, pk, binding, history, faults>>

Release(w) ==
    /\ run[w].pc = "release"
    /\ run' = [run EXCEPT ![w] = Resting]
    /\ job' = IF job.by = w THEN [job EXCEPT !.by = NoOne, !.lease = "none"] ELSE job
    /\ UNCHANGED <<request, pk, binding, history, faults>>

Work(w) ==
    \/ List(w) \/ Claim(w) \/ Read(w) \/ MarkDoubted(w) \/ ShowUnknown(w) \/ LocalPackage(w) \/ LocalDone(w)
    \/ Reconcile(w) \/ UseCustody(w) \/ Authenticate(w) \/ AuthorityLost(w)
    \/ Send(w) \/ Submit(w) \/ Resubmit(w) \/ Record(w) \/ ShowWaiting(w) \/ RecordDoubt(w)
    \/ Verify(w) \/ Verified(w) \/ StartDownload(w) \/ Fetch(w) \/ Store(w) \/ Unfetched(w)
    \/ Downloaded(w) \/ Finish(w) \/ Consume(w) \/ ApplyResult(w)
    \/ CancelJob(w) \/ RecordFailure(w) \/ Release(w)

-----------------------------------------------------------------------------
(* Faults.                                                                     *)

Fault == faults < MaxFaults /\ faults' = faults + 1

\* A transaction of the worker fails, or its process dies.
WorkerFault(w) ==
    /\ run[w].pc \notin {"idle", "listed"}
    /\ Fault
    /\ Fails(w) \/ run' = [run EXCEPT ![w] = Resting]
    /\ UNCHANGED <<job, request, pk, binding, history>>

Running(w) == run[w].pc \notin {"idle", "listed"}

\* The lease of a run that died.
LeaseEnds ==
    /\ job.lease = "held" /\ job.by \in Workers /\ ~Running(job.by)
    /\ job' = [job EXCEPT !.lease = "lapsed"]
    /\ UNCHANGED <<request, pk, binding, run, history, faults>>

\* A step of a run takes longer than the 45 seconds of the lease.
LeaseOverrun ==
    /\ job.lease = "held" /\ job.by \in Workers /\ Running(job.by)
    /\ Fault
    /\ job' = [job EXCEPT !.lease = "lapsed"]
    /\ UNCHANGED <<request, pk, binding, run, history>>

-----------------------------------------------------------------------------
(* The user, and the workers of ingestion jobs.                                *)

\* binding: the purpose is fixed here, long before the custody is attached.
Bind ==
    /\ binding = "none" /\ job.grants < MaxGrants
    /\ ~job.terminal /\ ~job.cancel /\ job.status \in Authorizable
    /\ request \in {"not_sent", "accepted"}
    /\ binding' = Purpose
    /\ UNCHANGED <<job, request, pk, run, history, faults>>

\* prepare, once the custody is ready, or without one.
Attach ==
    /\ binding # "none" /\ binding' = "none"
    /\ \/ /\ ~job.terminal /\ ~job.cancel /\ job.status \in Authorizable
          /\ job' = [job EXCEPT !.custody = binding, !.grants = @ + 1,
                                !.status = IF binding = "submit" THEN "submitting" ELSE "recovering"]
       \/ UNCHANGED job
    /\ UNCHANGED <<request, pk, run, history, faults>>

Cancel ==
    /\ ~job.terminal /\ ~job.cancel
    /\ job' = [job EXCEPT !.cancel = TRUE]
    /\ UNCHANGED <<request, pk, binding, run, history, faults>>

RetryAllowed(p) ==
    /\ ~job.cancel /\ job.status # "external_submission_unknown"
    /\ pk[p].status \in {"failed", "download_unknown"} /\ pk[p].retries < MaxLocal
    /\ pk[p].down \/ pk[p].attempts < 2

\* retry with a package: it reopens a job that has ended.
RetryPackage(p) ==
    /\ RetryAllowed(p)
    /\ IF pk[p].down
       THEN /\ pk' = [pk EXCEPT ![p].status = "stored", ![p].ingest = "none", ![p].retries = @ + 1]
            /\ UNCHANGED asked
       ELSE /\ pk' = [pk EXCEPT ![p].status = "pending"]
            /\ asked' = [asked EXCEPT ![p] = IF @ < 2 THEN @ + 1 ELSE @]
    /\ job' = [job EXCEPT !.terminal = FALSE,
                          !.status = IF pk[p].down THEN "processing_local"
                                     ELSE "requires_user_authorization"]
    /\ UNCHANGED <<request, binding, run, lodged, downloads, faults>>

\* The ingestion job of a package settles.
Ingest(p) ==
    /\ pk[p].ingest \in {"active", "cancelling"}
    /\ \E r \in IF pk[p].ingest = "active" THEN {"completed", "issues", "failed"}
                ELSE {"cancelled"} :
           pk' = [pk EXCEPT ![p].ingest = r]
    /\ UNCHANGED <<job, request, binding, run, history, faults>>

Surroundings ==
    \/ LeaseEnds \/ LeaseOverrun \/ Bind \/ Attach \/ Cancel
    \/ \E p \in Packages : RetryPackage(p) \/ Ingest(p)

-----------------------------------------------------------------------------
Next == Surroundings \/ \E w \in Workers : Work(w) \/ WorkerFault(w)

\* Each worker's timer fires and its calls have time limits; a lease that nobody renews
\* runs out. The user need do nothing.
Fairness == WF_vars(LeaseEnds) /\ \A w \in Workers : WF_vars(Work(w))

Spec == Init /\ [][Next]_vars
FairSpec == Spec /\ Fairness

-----------------------------------------------------------------------------
\* Every part of the state keeps its type.
TypeOK ==
    /\ job \in [status : Statuses, cancel : BOOLEAN, terminal : BOOLEAN, failures : 0 .. 3,
                custody : {"none", "submit", "recover", "spent"}, grants : 0 .. MaxGrants,
                by : Workers \cup {NoOne}, lease : {"none", "held", "lapsed"}]
    /\ request \in {"not_sent", "sending", "accepted", "unknown", "rejected"}
    /\ pk \in [Packages -> [status : {"absent", "pending", "downloading", "download_unknown",
                                      "stored", "processing", "completed", "with_issues",
                                      "failed", "expired", "budget_exhausted"},
                            attempts : 0 .. 2, down : BOOLEAN, retries : 0 .. MaxLocal,
                            ingest : {"none", "active", "cancelling"} \cup Settled]]
    /\ binding \in {"none", "submit", "recover"}
    /\ run \in [Workers -> [pc : {"idle", "listed", "claimed", "doubted", "show_unknown", "local", "finish",
                                  "reconcile", "use_custody", "authenticate", "send",
                                  "verify", "verified", "show_waiting", "start", "unfetched",
                                  "consume", "result", "doubt", "caught", "release"}
                                 \cup InSubmission \cup InDownload,
                            seen : {"none", "local", "any"}, grant : 0 .. MaxGrants,
                            todo : SUBSET Packages, next : Packages \cup {"none"},
                            answer : {"none", "accepted", "rejected", "waiting", "empty",
                                      "packages", "refused"},
                            error : {"none", "cancelled", "technical", "expired", "budget", "other"}]]
    /\ lodged \in 0 .. 2
    /\ downloads \in [Packages -> 0 .. 3] /\ asked \in [Packages -> 0 .. 2]
    /\ faults \in 0 .. MaxFaults

\* SAT takes at most one submission of the job, and a request that reads unsent or
\* rejected was not taken: what is uncertain is never sent again.
SubmittedOnce ==
    /\ lodged <= 1
    /\ request \in {"not_sent", "rejected"} => lodged = 0
    /\ request = "accepted" => lodged = 1

\* A package is downloaded twice at most, the second time only because the user asked.
DownloadsAuthorized ==
    \A p \in Packages : downloads[p] <= pk[p].attempts /\ pk[p].attempts <= 1 + asked[p]

\* Whatever is lost, refused or run by two workers at once, SAT is asked no more often
\* than the user asked.
SatIsAskedOnce == SubmittedOnce /\ DownloadsAuthorized

\* A cancellation that found the job open ends it as cancelled, for good, and leaves no
\* ingestion job of its packages that has not been told to stop. (A requested
\* cancellation is never withdrawn.)
CancelSettles ==
    <>[](job.cancel => job.status = "cancelled" /\ \A p \in Packages : pk[p].ingest # "active")
=============================================================================
