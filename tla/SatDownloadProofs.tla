------------------------- MODULE SatDownloadProofs -------------------------
(* Proofs about SatDownload, for any sets of workers and packages, any number  *)
(* of authorizations, local retries and faults.                                *)
(*                                                                             *)
(* A submission is sent by the one run that found it unsent: the request never *)
(* reads unsent again, so no fence is needed for it. Downloads do need it: a   *)
(* package in the list of a run that owns the job still waits for its download *)
(* when its turn comes, and a package waits only for as many downloads as were *)
(* asked for.                                                                  *)
EXTENDS SatDownload, TLAPS

\* The sets the records are of.
Jobs == [status : Statuses, cancel : BOOLEAN, terminal : BOOLEAN, failures : 0 .. 3,
         custody : {"none", "submit", "recover", "spent"}, grants : 0 .. MaxGrants,
         by : Workers \cup {NoOne}, lease : {"none", "held", "lapsed"}]
Requests == {"not_sent", "sending", "accepted", "unknown", "rejected"}
Rows == [status : {"absent", "pending", "downloading", "download_unknown", "stored",
                   "processing", "completed", "with_issues", "failed", "expired",
                   "budget_exhausted"},
         attempts : 0 .. 2, down : BOOLEAN, retries : 0 .. MaxLocal,
         ingest : {"none", "active", "cancelling"} \cup Settled]
Places == {"idle", "listed", "claimed", "doubted", "show_unknown", "local", "finish",
           "reconcile", "use_custody", "authenticate", "send", "verify", "verified",
           "show_waiting", "start", "unfetched", "consume", "result", "doubt", "caught",
           "release"} \cup InSubmission \cup InDownload
Answers == {"none", "accepted", "rejected", "waiting", "empty", "packages", "refused"}
Errors == {"none", "cancelled", "technical", "expired", "budget", "other"}
Runs == [pc : Places, seen : {"none", "local", "any"}, grant : 0 .. MaxGrants,
         todo : SUBSET Packages, next : Packages \cup {"none"}, answer : Answers,
         error : Errors]

\* Where a run has a reply to record, a package in hand, or a list of downloads to make.
Calling == {"submit", "resubmit", "submit_again"}
InHand == {"fetch", "store", "unfetched"}
Downloading == {"start"} \cup InHand

\* What the types leave out: a reply to record is an answer to a submission, a package
\* in hand is one, and authorizations are counted before they are given.
Shaped ==
    /\ \A w \in Workers : run[w].pc = "record" => run[w].answer \in {"accepted", "rejected"}
    /\ \A w \in Workers : run[w].pc \in InHand => run[w].next \in Packages \ run[w].todo
    /\ binding # "none" => job.grants < MaxGrants

\* One run, at most, has sent the submission and may still send it or record the reply,
\* and what it knows is true.
Sent ==
    /\ SubmittedOnce
    /\ request \in {"not_sent", "rejected"} =>
           \A w \in Workers : run[w].pc \notin Calling \cup {"record"}
    /\ \A w, v \in Workers : /\ run[w].pc \in Calling \cup {"record"}
                             /\ run[v].pc \in Calling \cup {"record"}
                             => w = v
    /\ \A w \in Workers :
           /\ run[w].pc \in Calling => lodged = 0
           /\ run[w].pc = "record" => lodged = IF run[w].answer = "accepted" THEN 1 ELSE 0

\* A package waits for as many downloads as were asked for, and the run that owns the
\* job knows which packages wait.
Due ==
    /\ DownloadsAuthorized
    /\ \A p \in Packages : /\ pk[p].status = "pending" => pk[p].attempts <= asked[p]
                           /\ pk[p].status = "absent" => pk[p].attempts = 0
    /\ \A w \in Workers : Owns(w) =>
           /\ run[w].pc \in Downloading => \A p \in run[w].todo : pk[p].status = "pending"
           /\ run[w].pc = "fetch" => downloads[run[w].next] < pk[run[w].next].attempts

IInv == TypeOK /\ Shaped /\ Sent /\ Due

USE WorkersAssumption, BoundsAssumption

-----------------------------------------------------------------------------
(* Type correctness.                                                           *)

\* The type invariant, by its sets.
LEMMA Types ==
    TypeOK <=> /\ job \in Jobs /\ request \in Requests /\ pk \in [Packages -> Rows]
               /\ binding \in {"none", "submit", "recover"}
               /\ run \in [Workers -> Runs]
               /\ lodged \in 0 .. 2
               /\ downloads \in [Packages -> 0 .. 3] /\ asked \in [Packages -> 0 .. 2]
               /\ faults \in 0 .. MaxFaults
BY DEF TypeOK, Jobs, Requests, Rows, Runs, Places, Answers, Errors

\* The same after a step.
LEMMA TypesNext ==
    TypeOK' <=> /\ job' \in Jobs /\ request' \in Requests /\ pk' \in [Packages -> Rows]
                /\ binding' \in {"none", "submit", "recover"}
                /\ run' \in [Workers -> Runs]
                /\ lodged' \in 0 .. 2
                /\ downloads' \in [Packages -> 0 .. 3] /\ asked' \in [Packages -> 0 .. 2]
                /\ faults' \in 0 .. MaxFaults
BY DEF TypeOK, Jobs, Requests, Rows, Runs, Places, Answers, Errors

\* What the two ways out of a step leave of a run.
LEMMA RunTypes ==
    ASSUME run \in [Workers -> Runs], NEW w \in Workers
    PROVE  /\ Resting \in Runs
           /\ \A e \in Errors : [Resting EXCEPT !.pc = "caught", !.error = e] \in Runs
           /\ FenceError(w) \in Errors
           /\ \A pc \in Places : Goto(w, pc) => run' \in [Workers -> Runs]
           /\ Fails(w) => run' \in [Workers -> Runs]
           /\ \A e \in Errors : Catch(w, e) => run' \in [Workers -> Runs]
<1>1. Resting \in Runs
    BY DEF Runs, Resting, Places, Answers, Errors, BoundsAssumption
<1>2. \A e \in Errors : [Resting EXCEPT !.pc = "caught", !.error = e] \in Runs
    BY <1>1 DEF Runs, Places
<1>3. FenceError(w) \in Errors
    BY DEF FenceError, Errors
<1>4. run[w] \in Runs
    OBVIOUS
<1>5. \A pc \in Places : Goto(w, pc) => run' \in [Workers -> Runs]
    BY <1>4 DEF Goto, Runs
<1>6. \A e \in Errors : Catch(w, e) => run' \in [Workers -> Runs]
    BY <1>2 DEF Catch
<1>7. ASSUME Fails(w) PROVE run' \in [Workers -> Runs]
  <2>1. Handler(w) \in Places /\ "other" \in Errors
    BY DEF Handler, Places, Errors
  <2>2. [Resting EXCEPT !.pc = Handler(w), !.error = "other"] \in Runs
    BY <1>1, <2>1 DEF Runs
  <2>3. [run[w] EXCEPT !.pc = Handler(w), !.error = "other"] \in Runs
    BY <1>4, <2>1 DEF Runs
  <2> QED
    BY <1>1, <1>7, <2>2, <2>3 DEF Fails
<1> QED
    BY <1>1, <1>2, <1>3, <1>5, <1>6, <1>7

\* What the steps make of a job.
LEMMA JobTypes ==
    ASSUME job \in Jobs, NEW s \in Statuses
    PROVE  /\ [job EXCEPT !.status = s] \in Jobs
           /\ [job EXCEPT !.status = s, !.terminal = TRUE] \in Jobs
           /\ [job EXCEPT !.terminal = TRUE, !.status = s] \in Jobs
           /\ [job EXCEPT !.status = s, !.terminal = FALSE] \in Jobs
           /\ [job EXCEPT !.terminal = FALSE, !.status = s] \in Jobs
BY DEF Jobs

\* What the steps make of a run, otherwise.
LEMMA RunUpdates ==
    ASSUME run \in [Workers -> Runs], NEW w \in Workers, NEW pc \in Places
    PROVE  /\ \A S \in SUBSET Packages :
                run' = [run EXCEPT ![w].todo = S] => run' \in [Workers -> Runs]
           /\ \A S \in SUBSET Packages :
                run' = [run EXCEPT ![w].pc = pc, ![w].todo = S] => run' \in [Workers -> Runs]
           /\ \A S \in SUBSET Packages, p \in Packages :
                run' = [run EXCEPT ![w].pc = pc, ![w].next = p, ![w].todo = S]
                => run' \in [Workers -> Runs]
           /\ \A a \in Answers :
                run' = [run EXCEPT ![w].pc = pc, ![w].answer = a] => run' \in [Workers -> Runs]
           /\ run' = [run EXCEPT ![w].pc = pc, ![w].next = "none"] => run' \in [Workers -> Runs]
           /\ run' = [run EXCEPT ![w].pc = pc, ![w].grant = 0] => run' \in [Workers -> Runs]
<1>1. run[w] \in Runs
    OBVIOUS
<1>2. ASSUME NEW S \in SUBSET Packages, run' = [run EXCEPT ![w].todo = S]
      PROVE  run' \in [Workers -> Runs]
  <2>1. [run[w] EXCEPT !.todo = S] \in Runs
    BY <1>1 DEF Runs
  <2> QED
    BY <1>2, <2>1
<1>3. ASSUME NEW S \in SUBSET Packages, run' = [run EXCEPT ![w].pc = pc, ![w].todo = S]
      PROVE  run' \in [Workers -> Runs]
  <2>1. [run[w] EXCEPT !.pc = pc, !.todo = S] \in Runs
    BY <1>1 DEF Runs
  <2> QED
    BY <1>3, <2>1
<1>4. ASSUME NEW S \in SUBSET Packages, NEW p \in Packages,
             run' = [run EXCEPT ![w].pc = pc, ![w].next = p, ![w].todo = S]
      PROVE  run' \in [Workers -> Runs]
  <2>1. [run[w] EXCEPT !.pc = pc, !.next = p, !.todo = S] \in Runs
    BY <1>1 DEF Runs
  <2> QED
    BY <1>4, <2>1
<1>5. ASSUME NEW a \in Answers, run' = [run EXCEPT ![w].pc = pc, ![w].answer = a]
      PROVE  run' \in [Workers -> Runs]
  <2>1. [run[w] EXCEPT !.pc = pc, !.answer = a] \in Runs
    BY <1>1 DEF Runs
  <2> QED
    BY <1>5, <2>1
<1>6. ASSUME run' = [run EXCEPT ![w].pc = pc, ![w].next = "none"]
      PROVE  run' \in [Workers -> Runs]
  <2>1. [run[w] EXCEPT !.pc = pc, !.next = "none"] \in Runs
    BY <1>1 DEF Runs
  <2> QED
    BY <1>6, <2>1
<1>7. ASSUME run' = [run EXCEPT ![w].pc = pc, ![w].grant = 0]
      PROVE  run' \in [Workers -> Runs]
  <2>0. 0 \in 0 .. MaxGrants
    BY BoundsAssumption
  <2>1. [run[w] EXCEPT !.pc = pc, !.grant = 0] \in Runs
    BY <1>1, <2>0 DEF Runs
  <2> QED
    BY <1>7, <2>1
<1> QED
    BY <1>2, <1>3, <1>4, <1>5, <1>6, <1>7

\* Every step keeps the types.
LEMMA TypeStep == TypeOK /\ Shaped /\ [Next]_vars => TypeOK'
<1> SUFFICES ASSUME TypeOK, Shaped, [Next]_vars PROVE TypeOK'
    OBVIOUS
<1>t. /\ job \in Jobs /\ request \in Requests /\ pk \in [Packages -> Rows]
      /\ binding \in {"none", "submit", "recover"}
      /\ run \in [Workers -> Runs]
      /\ lodged \in 0 .. 2
      /\ downloads \in [Packages -> 0 .. 3] /\ asked \in [Packages -> 0 .. 2]
      /\ faults \in 0 .. MaxFaults
    BY Types
<1>1. ASSUME NEW w \in Workers, List(w) PROVE TypeOK'
  <2>1. run' \in [Workers -> Runs]
    BY <1>t, <1>1, RunTypes DEF List, Places, InSubmission, InDownload
  <2>2. job' \in Jobs
    BY <1>t, <1>1 DEF List
  <2>3. pk' \in [Packages -> Rows]
    BY <1>t, <1>1 DEF List
  <2>4. /\ request' \in Requests /\ binding' = binding /\ lodged' \in 0 .. 2
        /\ downloads' \in [Packages -> 0 .. 3] /\ asked' = asked /\ faults' \in 0 .. MaxFaults
    BY <1>t, <1>1 DEF List, history
  <2> QED
    BY <1>t, <2>1, <2>2, <2>3, <2>4, TypesNext
<1>2. ASSUME NEW w \in Workers, Claim(w) PROVE TypeOK'
  <2>1. run' \in [Workers -> Runs]
    <3>1. [Resting EXCEPT !.pc = "caught", !.error = "cancelled"] \in Runs
      BY <1>t, RunTypes DEF Errors
    <3>2. \A s \in {"local", "any"} :
             [Resting EXCEPT !.pc = "claimed", !.grant = job.grants, !.seen = s] \in Runs
      BY <1>t, RunTypes DEF Jobs, Runs, Places
    <3>3. run'[w] \in Runs /\ run' = [run EXCEPT ![w] = run'[w]]
      BY <1>t, <1>2, <3>1, <3>2, RunTypes DEF Claim
    <3> QED
      BY <1>t, <3>3
  <2>2. job' \in Jobs
    BY <1>t, <1>2 DEF Claim, Jobs
  <2>3. pk' \in [Packages -> Rows]
    BY <1>t, <1>2 DEF Claim
  <2>4. /\ request' \in Requests /\ binding' = binding /\ lodged' \in 0 .. 2
        /\ downloads' \in [Packages -> 0 .. 3] /\ asked' = asked /\ faults' \in 0 .. MaxFaults
    BY <1>t, <1>2 DEF Claim, history
  <2> QED
    BY <1>t, <2>1, <2>2, <2>3, <2>4, TypesNext
<1>3. ASSUME NEW w \in Workers, Read(w) PROVE TypeOK'
  <2>1. run' \in [Workers -> Runs]
    <3>1. [Resting EXCEPT !.pc = "doubted"] \in Runs
      BY <1>t, RunTypes DEF Runs, Places
    <3>2. [run[w] EXCEPT !.pc = "local", !.todo = LocalWork] \in Runs
      <4>1. LocalWork \subseteq Packages
        BY DEF LocalWork
      <4>2. run[w] \in Runs
        BY <1>t
      <4> QED
        BY <4>1, <4>2 DEF Runs, Places
    <3> QED
      BY <1>t, <1>3, <3>1, <3>2 DEF Read
  <2>2. job' \in Jobs
    BY <1>t, <1>3 DEF Read
  <2>3. pk' \in [Packages -> Rows]
    BY <1>t, <1>3 DEF Read
  <2>4. /\ request' \in Requests /\ binding' = binding /\ lodged' \in 0 .. 2
        /\ downloads' \in [Packages -> 0 .. 3] /\ asked' = asked /\ faults' \in 0 .. MaxFaults
    BY <1>t, <1>3 DEF Read, history
  <2> QED
    BY <1>t, <2>1, <2>2, <2>3, <2>4, TypesNext
<1>4. ASSUME NEW w \in Workers, MarkDoubted(w) PROVE TypeOK'
  <2>1. run' \in [Workers -> Runs]
    BY <1>t, <1>4, RunTypes DEF MarkDoubted, Transaction, Places, InSubmission,
       InDownload
  <2>2. job' \in Jobs
    BY <1>t, <1>4 DEF MarkDoubted, Transaction
  <2>3. pk' \in [Packages -> Rows]
    BY <1>t, <1>4 DEF MarkDoubted, Transaction
  <2>4. /\ request' \in Requests /\ binding' = binding /\ lodged' \in 0 .. 2
        /\ downloads' \in [Packages -> 0 .. 3] /\ asked' = asked /\ faults' \in 0 .. MaxFaults
    BY <1>t, <1>4 DEF MarkDoubted, Transaction, history, Doubted, Requests
  <2> QED
    BY <1>t, <2>1, <2>2, <2>3, <2>4, TypesNext
<1>5. ASSUME NEW w \in Workers, ShowUnknown(w) PROVE TypeOK'
  <2>1. run' \in [Workers -> Runs]
    BY <1>t, <1>5, RunTypes DEF ShowUnknown, Transaction, State, Places, InSubmission,
       InDownload
  <2>2. job' \in Jobs
    BY <1>t, <1>5, JobTypes DEF ShowUnknown, Transaction, State, Statuses
  <2>3. pk' \in [Packages -> Rows]
    BY <1>t, <1>5 DEF ShowUnknown, Transaction, State
  <2>4. /\ request' \in Requests /\ binding' = binding /\ lodged' \in 0 .. 2
        /\ downloads' \in [Packages -> 0 .. 3] /\ asked' = asked /\ faults' \in 0 .. MaxFaults
    BY <1>t, <1>5 DEF ShowUnknown, Transaction, State, history
  <2> QED
    BY <1>t, <2>1, <2>2, <2>3, <2>4, TypesNext
<1>6. ASSUME NEW w \in Workers, LocalPackage(w) PROVE TypeOK'
  <2>1. run' \in [Workers -> Runs]
    <3>1. PICK p \in run[w].todo :
             Catch(w, FenceError(w)) \/ run' = [run EXCEPT ![w].todo = @ \ {p}]
      BY <1>6 DEF LocalPackage, Transaction
    <3>2. run[w].todo \ {p} \in SUBSET Packages /\ run[w].pc \in Places
      BY <1>t DEF Runs
    <3> QED
      BY <1>t, <3>1, <3>2, RunTypes, RunUpdates
  <2>2. job' \in Jobs
    BY <1>t, <1>6 DEF LocalPackage, Transaction
  <2>3. pk' \in [Packages -> Rows]
    BY <1>t, <1>6 DEF LocalPackage, Transaction, Rows, Interrupted
  <2>4. /\ request' \in Requests /\ binding' = binding /\ lodged' \in 0 .. 2
        /\ downloads' \in [Packages -> 0 .. 3] /\ asked' = asked /\ faults' \in 0 .. MaxFaults
    BY <1>t, <1>6 DEF LocalPackage, Transaction, history
  <2> QED
    BY <1>t, <2>1, <2>2, <2>3, <2>4, TypesNext
<1>7. ASSUME NEW w \in Workers, LocalDone(w) PROVE TypeOK'
  <2>1. run' \in [Workers -> Runs]
    <3>1. [Resting EXCEPT !.pc = "reconcile"] \in Runs
      BY <1>t, RunTypes DEF Runs, Places
    <3>2. /\ [run[w] EXCEPT !.pc = "finish"] \in Runs
          /\ [run[w] EXCEPT !.pc = "use_custody", !.seen = "none"] \in Runs
      <4>1. run[w] \in Runs
        BY <1>t
      <4>2. [run[w] EXCEPT !.pc = "finish"] \in Runs
        BY <4>1 DEF Runs, Places
      <4>3. [run[w] EXCEPT !.pc = "use_custody"] \in Runs
        BY <4>1 DEF Runs, Places
      <4>4. \A r \in Runs : [r EXCEPT !.seen = "none"] \in Runs
        BY DEF Runs
      <4>5. [run[w] EXCEPT !.pc = "use_custody", !.seen = "none"] \in Runs
        BY <4>3, <4>4
      <4> QED
        BY <4>2, <4>5
    <3> QED
      BY <1>t, <1>7, <3>1, <3>2 DEF LocalDone
  <2>2. job' \in Jobs
    BY <1>t, <1>7 DEF LocalDone
  <2>3. pk' \in [Packages -> Rows]
    BY <1>t, <1>7 DEF LocalDone
  <2>4. /\ request' \in Requests /\ binding' = binding /\ lodged' \in 0 .. 2
        /\ downloads' \in [Packages -> 0 .. 3] /\ asked' = asked /\ faults' \in 0 .. MaxFaults
    BY <1>t, <1>7 DEF LocalDone, history
  <2> QED
    BY <1>t, <2>1, <2>2, <2>3, <2>4, TypesNext
<1>8. ASSUME NEW w \in Workers, Reconcile(w) PROVE TypeOK'
  <2>1. run' \in [Workers -> Runs]
    BY <1>t, <1>8, RunTypes DEF Reconcile, Transaction, Places, InSubmission, InDownload
  <2>2. job' \in Jobs
    BY <1>t, <1>8, JobTypes DEF Reconcile, Transaction, Statuses
  <2>3. pk' \in [Packages -> Rows]
    <3>1. \A p \in Packages : [pk[p] EXCEPT !.status = ResultOf(pk[p].ingest)] \in Rows
      BY <1>t DEF Rows, ResultOf
    <3> QED
      BY <1>t, <1>8, <3>1 DEF Reconcile, Transaction
  <2>4. /\ request' \in Requests /\ binding' = binding /\ lodged' \in 0 .. 2
        /\ downloads' \in [Packages -> 0 .. 3] /\ asked' = asked /\ faults' \in 0 .. MaxFaults
    BY <1>t, <1>8 DEF Reconcile, Transaction, history
  <2> QED
    BY <1>t, <2>1, <2>2, <2>3, <2>4, TypesNext
<1>9. ASSUME NEW w \in Workers, UseCustody(w) PROVE TypeOK'
  <2>1. run' \in [Workers -> Runs]
    BY <1>t, <1>9, RunTypes, RunUpdates DEF UseCustody, Places, InSubmission,
       InDownload, Errors
  <2>2. job' \in Jobs
    BY <1>t, <1>9 DEF UseCustody, Jobs
  <2>3. pk' \in [Packages -> Rows]
    BY <1>t, <1>9 DEF UseCustody
  <2>4. /\ request' \in Requests /\ binding' = binding /\ lodged' \in 0 .. 2
        /\ downloads' \in [Packages -> 0 .. 3] /\ asked' = asked /\ faults' \in 0 .. MaxFaults
    BY <1>t, <1>9 DEF UseCustody, history
  <2> QED
    BY <1>t, <2>1, <2>2, <2>3, <2>4, TypesNext
<1>10. ASSUME NEW w \in Workers, Authenticate(w) PROVE TypeOK'
  <2>1. run' \in [Workers -> Runs]
    BY <1>t, <1>10, RunTypes DEF Authenticate, Places, InSubmission,
       InDownload, Errors
  <2>2. job' \in Jobs
    BY <1>t, <1>10 DEF Authenticate
  <2>3. pk' \in [Packages -> Rows]
    BY <1>t, <1>10 DEF Authenticate
  <2>4. /\ request' \in Requests /\ binding' = binding /\ lodged' \in 0 .. 2
        /\ downloads' \in [Packages -> 0 .. 3] /\ asked' = asked /\ faults' \in 0 .. MaxFaults
    BY <1>t, <1>10 DEF Authenticate, history
  <2> QED
    BY <1>t, <2>1, <2>2, <2>3, <2>4, TypesNext
<1>11. ASSUME NEW w \in Workers, AuthorityLost(w) PROVE TypeOK'
  <2>1. run' \in [Workers -> Runs]
    BY <1>t, <1>11, RunTypes DEF AuthorityLost, Places, InSubmission, InDownload
  <2>2. job' \in Jobs
    BY <1>t, <1>11 DEF AuthorityLost
  <2>3. pk' \in [Packages -> Rows]
    BY <1>t, <1>11 DEF AuthorityLost
  <2>4. /\ request' \in Requests /\ binding' = binding /\ lodged' \in 0 .. 2
        /\ downloads' \in [Packages -> 0 .. 3] /\ asked' = asked /\ faults' \in 0 .. MaxFaults
    BY <1>t, <1>11 DEF AuthorityLost, history
  <2> QED
    BY <1>t, <2>1, <2>2, <2>3, <2>4, TypesNext
<1>12. ASSUME NEW w \in Workers, Send(w) PROVE TypeOK'
  <2>1. run' \in [Workers -> Runs]
    BY <1>t, <1>12, RunTypes DEF Send, Transaction, Places, InSubmission, InDownload,
       Errors
  <2>2. job' \in Jobs
    BY <1>t, <1>12 DEF Send, Transaction
  <2>3. pk' \in [Packages -> Rows]
    BY <1>t, <1>12 DEF Send, Transaction
  <2>4. /\ request' \in Requests /\ binding' = binding /\ lodged' \in 0 .. 2
        /\ downloads' \in [Packages -> 0 .. 3] /\ asked' = asked /\ faults' \in 0 .. MaxFaults
    BY <1>t, <1>12 DEF Send, Transaction, history, Requests
  <2> QED
    BY <1>t, <2>1, <2>2, <2>3, <2>4, TypesNext
<1>13. ASSUME NEW w \in Workers, Submit(w) PROVE TypeOK'
  <2>1. run' \in [Workers -> Runs]
    BY <1>t, <1>13, RunTypes, RunUpdates DEF Submit, Places, InSubmission, InDownload,
       Answers
  <2>2. job' \in Jobs
    BY <1>t, <1>13 DEF Submit
  <2>3. pk' \in [Packages -> Rows]
    BY <1>t, <1>13 DEF Submit
  <2>4. /\ request' \in Requests /\ binding' = binding /\ lodged' \in 0 .. 2
        /\ downloads' \in [Packages -> 0 .. 3] /\ asked' = asked /\ faults' \in 0 .. MaxFaults
    BY <1>t, <1>13 DEF Submit, history, Lodge, Requests
  <2> QED
    BY <1>t, <2>1, <2>2, <2>3, <2>4, TypesNext
<1>14. ASSUME NEW w \in Workers, Resubmit(w) PROVE TypeOK'
  <2>1. run' \in [Workers -> Runs]
    BY <1>t, <1>14, RunTypes DEF Resubmit, Guarded, Places, InSubmission, InDownload
  <2>2. job' \in Jobs
    BY <1>t, <1>14 DEF Resubmit, Guarded
  <2>3. pk' \in [Packages -> Rows]
    BY <1>t, <1>14 DEF Resubmit, Guarded
  <2>4. /\ request' \in Requests /\ binding' = binding /\ lodged' \in 0 .. 2
        /\ downloads' \in [Packages -> 0 .. 3] /\ asked' = asked /\ faults' \in 0 .. MaxFaults
    BY <1>t, <1>14 DEF Resubmit, Guarded, history
  <2> QED
    BY <1>t, <2>1, <2>2, <2>3, <2>4, TypesNext
<1>15. ASSUME NEW w \in Workers, Record(w) PROVE TypeOK'
  <2>1. run' \in [Workers -> Runs]
    BY <1>t, <1>15, RunTypes DEF Record, Transaction, Places, InSubmission, InDownload
  <2>2. job' \in Jobs
    BY <1>t, <1>15 DEF Record, Transaction
  <2>3. pk' \in [Packages -> Rows]
    BY <1>t, <1>15 DEF Record, Transaction
  <2>4. /\ request' \in Requests /\ binding' = binding /\ lodged' \in 0 .. 2
        /\ downloads' \in [Packages -> 0 .. 3] /\ asked' = asked /\ faults' \in 0 .. MaxFaults
    BY <1>t, <1>15 DEF Record, Transaction, history, Requests, Shaped
  <2> QED
    BY <1>t, <2>1, <2>2, <2>3, <2>4, TypesNext
<1>16. ASSUME NEW w \in Workers, ShowWaiting(w) PROVE TypeOK'
  <2>1. run' \in [Workers -> Runs]
    BY <1>t, <1>16, RunTypes DEF ShowWaiting, Transaction, State, Places, InSubmission,
       InDownload
  <2>2. job' \in Jobs
    BY <1>t, <1>16, JobTypes DEF ShowWaiting, Transaction, State, Statuses
  <2>3. pk' \in [Packages -> Rows]
    BY <1>t, <1>16 DEF ShowWaiting, Transaction, State
  <2>4. /\ request' \in Requests /\ binding' = binding /\ lodged' \in 0 .. 2
        /\ downloads' \in [Packages -> 0 .. 3] /\ asked' = asked /\ faults' \in 0 .. MaxFaults
    BY <1>t, <1>16 DEF ShowWaiting, Transaction, State, history
  <2> QED
    BY <1>t, <2>1, <2>2, <2>3, <2>4, TypesNext
<1>17. ASSUME NEW w \in Workers, RecordDoubt(w) PROVE TypeOK'
  <2>1. run' \in [Workers -> Runs]
    BY <1>t, <1>17, RunTypes DEF RecordDoubt, Transaction, Places, InSubmission,
       InDownload
  <2>2. job' \in Jobs
    BY <1>t, <1>17 DEF RecordDoubt, Transaction
  <2>3. pk' \in [Packages -> Rows]
    BY <1>t, <1>17 DEF RecordDoubt, Transaction
  <2>4. /\ request' \in Requests /\ binding' = binding /\ lodged' \in 0 .. 2
        /\ downloads' \in [Packages -> 0 .. 3] /\ asked' = asked /\ faults' \in 0 .. MaxFaults
    BY <1>t, <1>17 DEF RecordDoubt, Transaction, history, Doubted, Requests
  <2> QED
    BY <1>t, <2>1, <2>2, <2>3, <2>4, TypesNext
<1>18. ASSUME NEW w \in Workers, Verify(w) PROVE TypeOK'
  <2>1. run' \in [Workers -> Runs]
    BY <1>t, <1>18, RunTypes, RunUpdates DEF Verify, Guarded, Places, InSubmission,
       InDownload, Answers, Errors
  <2>2. job' \in Jobs
    BY <1>t, <1>18 DEF Verify, Guarded
  <2>3. pk' \in [Packages -> Rows]
    BY <1>t, <1>18 DEF Verify, Guarded
  <2>4. /\ request' \in Requests /\ binding' = binding /\ lodged' \in 0 .. 2
        /\ downloads' \in [Packages -> 0 .. 3] /\ asked' = asked /\ faults' \in 0 .. MaxFaults
    BY <1>t, <1>18 DEF Verify, Guarded, history
  <2> QED
    BY <1>t, <2>1, <2>2, <2>3, <2>4, TypesNext
<1>19. ASSUME NEW w \in Workers, Verified(w) PROVE TypeOK'
  <2>1. run' \in [Workers -> Runs]
    <3>0. run[w] \in Runs
      BY <1>t
    <3>a. [run[w] EXCEPT !.pc = "show_waiting", !.answer = "none"] \in Runs
      BY <3>0 DEF Runs, Places, Answers
    <3>b. \A todo \in SUBSET Packages :
             [run[w] EXCEPT !.pc = "start", !.answer = "none", !.todo = todo] \in Runs
      BY <3>0 DEF Runs, Places, Answers
    <3>c. \A a \in Answers : [run[w] EXCEPT !.pc = "consume", !.answer = a] \in Runs
      BY <3>0 DEF Runs, Places
    <3>2. run[w].answer \in Answers /\ "refused" \in Answers
      BY <1>t DEF Runs, Answers
    <3>3. ASSUME Fenced(w) PROVE run' \in [Workers -> Runs]
      <4>1. PICK a \in Answers, S \in SUBSET Packages :
                run' = [run EXCEPT ![w] =
                   IF a = "waiting" THEN [@ EXCEPT !.pc = "show_waiting", !.answer = "none"]
                   ELSE IF a = "packages"
                   THEN [@ EXCEPT !.pc = "start", !.answer = "none", !.todo = S]
                   ELSE [@ EXCEPT !.pc = "consume", !.answer = a]]
        BY <1>19, <3>2, <3>3 DEF Verified, Transaction
      <4> QED
        BY <1>t, <3>a, <3>b, <3>c, <4>1
    <3>4. CASE ~Fenced(w)
      BY <1>t, <1>19, <3>4, RunTypes DEF Verified, Transaction
    <3> QED
      BY <3>3, <3>4
  <2>2. job' \in Jobs
    BY <1>t, <1>19 DEF Verified, Transaction
  <2>3. pk' \in [Packages -> Rows]
    BY <1>t, <1>19 DEF Verified, Transaction, Rows
  <2>4. /\ request' \in Requests /\ binding' = binding /\ lodged' \in 0 .. 2
        /\ downloads' \in [Packages -> 0 .. 3] /\ asked' = asked /\ faults' \in 0 .. MaxFaults
    BY <1>t, <1>19 DEF Verified, Transaction, history
  <2> QED
    BY <1>t, <2>1, <2>2, <2>3, <2>4, TypesNext
<1>20. ASSUME NEW w \in Workers, StartDownload(w) PROVE TypeOK'
  <2>1. run' \in [Workers -> Runs]
    <3>1. PICK p \in run[w].todo :
             Catch(w, FenceError(w)) \/ run' = [run EXCEPT ![w].todo = @ \ {p}]
             \/ run' = [run EXCEPT ![w].pc = "fetch", ![w].next = p, ![w].todo = @ \ {p}]
      BY <1>20 DEF StartDownload, Transaction
    <3>2. p \in Packages /\ run[w].todo \ {p} \in SUBSET Packages
      BY <1>t DEF Runs
    <3> QED
      <4>1. "fetch" \in Places /\ FenceError(w) \in Errors
        BY <1>t, RunTypes DEF Places, InDownload
      <4>2. CASE run' = [run EXCEPT ![w].pc = "fetch", ![w].next = p, ![w].todo = @ \ {p}]
        <5>1. [run[w] EXCEPT !.pc = "fetch", !.next = p, !.todo = @ \ {p}] \in Runs
          BY <1>t, <3>2, <4>1 DEF Runs
        <5> QED
          BY <1>t, <4>2, <5>1
      <4>3. CASE Catch(w, FenceError(w)) \/ run' = [run EXCEPT ![w].todo = @ \ {p}]
        BY <1>t, <3>2, <4>1, <4>3, RunTypes, RunUpdates
      <4> QED
        BY <3>1, <4>2, <4>3
  <2>2. job' \in Jobs
    BY <1>t, <1>20 DEF StartDownload, Transaction
  <2>3. pk' \in [Packages -> Rows]
    <3>1. \A p \in Packages : [pk[p] EXCEPT !.status = "budget_exhausted"] \in Rows
      BY <1>t DEF Rows
    <3>2. \A p \in Packages : pk[p].attempts < 2 =>
             [pk[p] EXCEPT !.status = "downloading", !.attempts = @ + 1] \in Rows
      <4> SUFFICES ASSUME NEW p \in Packages, pk[p].attempts < 2
                   PROVE  [pk[p] EXCEPT !.status = "downloading", !.attempts = @ + 1] \in Rows
        OBVIOUS
      <4>1. pk[p] \in Rows
        BY <1>t
      <4>2. pk[p].attempts + 1 \in 0 .. 2
        BY <4>1 DEF Rows
      <4> QED
        BY <4>1, <4>2 DEF Rows
    <3>3. \A p \in Packages : pk[p].attempts >= 2 \/ pk[p].attempts < 2
      BY <1>t DEF Rows
    <3>4. run[w].todo \subseteq Packages
      BY <1>t DEF Runs
    <3>5. PICK p \in run[w].todo :
             \/ pk' = pk
             \/ pk[p].attempts >= 2 /\ pk' = [pk EXCEPT ![p].status = "budget_exhausted"]
             \/ ~(pk[p].attempts >= 2)
                /\ pk' = [pk EXCEPT ![p].status = "downloading", ![p].attempts = @ + 1]
      BY <1>20 DEF StartDownload, Transaction
    <3>6. p \in Packages
      BY <3>4
    <3>7. CASE pk' = pk \/ pk' = [pk EXCEPT ![p].status = "budget_exhausted"]
      BY <1>t, <3>1, <3>6, <3>7
    <3>8. CASE /\ ~(pk[p].attempts >= 2)
               /\ pk' = [pk EXCEPT ![p].status = "downloading", ![p].attempts = @ + 1]
      <4>1. [pk[p] EXCEPT !.status = "downloading", !.attempts = @ + 1] \in Rows
        BY <3>2, <3>3, <3>6, <3>8
      <4> QED
        BY <1>t, <3>6, <3>8, <4>1
    <3> QED
      BY <3>5, <3>7, <3>8
  <2>4. /\ request' \in Requests /\ binding' = binding /\ lodged' \in 0 .. 2
        /\ downloads' \in [Packages -> 0 .. 3] /\ asked' = asked /\ faults' \in 0 .. MaxFaults
    BY <1>t, <1>20 DEF StartDownload, Transaction, history
  <2> QED
    BY <1>t, <2>1, <2>2, <2>3, <2>4, TypesNext
<1>21. ASSUME NEW w \in Workers, Fetch(w) PROVE TypeOK'
  <2>1. run' \in [Workers -> Runs]
    BY <1>t, <1>21, RunTypes DEF Fetch, Guarded, Places, InSubmission, InDownload,
       Runs, Errors
  <2>2. job' \in Jobs
    BY <1>t, <1>21 DEF Fetch, Guarded
  <2>3. pk' \in [Packages -> Rows]
    BY <1>t, <1>21 DEF Fetch, Guarded
  <2>4. /\ request' \in Requests /\ binding' = binding /\ lodged' \in 0 .. 2
        /\ downloads' \in [Packages -> 0 .. 3] /\ asked' = asked /\ faults' \in 0 .. MaxFaults
    BY <1>t, <1>21 DEF Fetch, Guarded, history, Requests
  <2> QED
    BY <1>t, <2>1, <2>2, <2>3, <2>4, TypesNext
<1>22. ASSUME NEW w \in Workers, Store(w) PROVE TypeOK'
  <2>1. run' \in [Workers -> Runs]
    BY <1>t, <1>22, RunTypes, RunUpdates DEF Store, Transaction, Places, InSubmission,
       InDownload
  <2>2. job' \in Jobs
    BY <1>t, <1>22 DEF Store, Transaction
  <2>3. pk' \in [Packages -> Rows]
    BY <1>t, <1>22 DEF Store, Transaction, Rows
  <2>4. /\ request' \in Requests /\ binding' = binding /\ lodged' \in 0 .. 2
        /\ downloads' \in [Packages -> 0 .. 3] /\ asked' = asked /\ faults' \in 0 .. MaxFaults
    BY <1>t, <1>22 DEF Store, Transaction, history
  <2> QED
    BY <1>t, <2>1, <2>2, <2>3, <2>4, TypesNext
<1>23. ASSUME NEW w \in Workers, Unfetched(w) PROVE TypeOK'
  <2>1. run' \in [Workers -> Runs]
    BY <1>t, <1>23, RunTypes DEF Unfetched, Transaction, Places, InSubmission,
       InDownload, Runs, Errors
  <2>2. job' \in Jobs
    BY <1>t, <1>23 DEF Unfetched, Transaction
  <2>3. pk' \in [Packages -> Rows]
    BY <1>t, <1>23 DEF Unfetched, Transaction, Rows, Interrupted
  <2>4. /\ request' \in Requests /\ binding' = binding /\ lodged' \in 0 .. 2
        /\ downloads' \in [Packages -> 0 .. 3] /\ asked' = asked /\ faults' \in 0 .. MaxFaults
    BY <1>t, <1>23 DEF Unfetched, Transaction, history
  <2> QED
    BY <1>t, <2>1, <2>2, <2>3, <2>4, TypesNext
<1>24. ASSUME NEW w \in Workers, Downloaded(w) PROVE TypeOK'
  <2>1. run' \in [Workers -> Runs]
    <3>1. LocalWork \in SUBSET Packages /\ "local" \in Places
      BY DEF LocalWork, Places
    <3> QED
      BY <1>t, <1>24, <3>1, RunUpdates DEF Downloaded
  <2>2. job' \in Jobs
    BY <1>t, <1>24 DEF Downloaded
  <2>3. pk' \in [Packages -> Rows]
    BY <1>t, <1>24 DEF Downloaded
  <2>4. /\ request' \in Requests /\ binding' = binding /\ lodged' \in 0 .. 2
        /\ downloads' \in [Packages -> 0 .. 3] /\ asked' = asked /\ faults' \in 0 .. MaxFaults
    BY <1>t, <1>24 DEF Downloaded, history
  <2> QED
    BY <1>t, <2>1, <2>2, <2>3, <2>4, TypesNext
<1>25. ASSUME NEW w \in Workers, Finish(w) PROVE TypeOK'
  <2>1. run' \in [Workers -> Runs]
    BY <1>t, <1>25, RunTypes DEF Finish, Transaction, State, Places, InSubmission,
       InDownload
  <2>2. job' \in Jobs
    BY <1>t, <1>25, JobTypes DEF Finish, Transaction, State, Statuses
  <2>3. pk' \in [Packages -> Rows]
    BY <1>t, <1>25 DEF Finish, Transaction, State
  <2>4. /\ request' \in Requests /\ binding' = binding /\ lodged' \in 0 .. 2
        /\ downloads' \in [Packages -> 0 .. 3] /\ asked' = asked /\ faults' \in 0 .. MaxFaults
    BY <1>t, <1>25 DEF Finish, Transaction, State, history
  <2> QED
    BY <1>t, <2>1, <2>2, <2>3, <2>4, TypesNext
<1>26. ASSUME NEW w \in Workers, Consume(w) PROVE TypeOK'
  <2>1. run' \in [Workers -> Runs]
    BY <1>t, <1>26, RunTypes DEF Consume, Places, InSubmission, InDownload, Errors
  <2>2. job' \in Jobs
    BY <1>t, <1>26 DEF Consume
  <2>3. pk' \in [Packages -> Rows]
    BY <1>t, <1>26 DEF Consume
  <2>4. /\ request' \in Requests /\ binding' = binding /\ lodged' \in 0 .. 2
        /\ downloads' \in [Packages -> 0 .. 3] /\ asked' = asked /\ faults' \in 0 .. MaxFaults
    BY <1>t, <1>26 DEF Consume, history
  <2> QED
    BY <1>t, <2>1, <2>2, <2>3, <2>4, TypesNext
<1>27. ASSUME NEW w \in Workers, ApplyResult(w) PROVE TypeOK'
  <2>1. run' \in [Workers -> Runs]
    BY <1>t, <1>27, RunTypes DEF ApplyResult, Transaction, Places, InSubmission,
       InDownload
  <2>2. job' \in Jobs
    BY <1>t, <1>27, JobTypes DEF ApplyResult, Transaction, Statuses
  <2>3. pk' \in [Packages -> Rows]
    BY <1>t, <1>27 DEF ApplyResult, Transaction
  <2>4. /\ request' \in Requests /\ binding' = binding /\ lodged' \in 0 .. 2
        /\ downloads' \in [Packages -> 0 .. 3] /\ asked' = asked /\ faults' \in 0 .. MaxFaults
    BY <1>t, <1>27 DEF ApplyResult, Transaction, history
  <2> QED
    BY <1>t, <2>1, <2>2, <2>3, <2>4, TypesNext
<1>28. ASSUME NEW w \in Workers, CancelJob(w) PROVE TypeOK'
  <2>1. run' \in [Workers -> Runs]
    BY <1>t, <1>28, RunTypes DEF CancelJob, Places, InSubmission, InDownload
  <2>2. job' \in Jobs
    BY <1>t, <1>28, JobTypes DEF CancelJob, Statuses
  <2>3. pk' \in [Packages -> Rows]
    BY <1>t, <1>28 DEF CancelJob, Rows
  <2>4. /\ request' \in Requests /\ binding' = binding /\ lodged' \in 0 .. 2
        /\ downloads' \in [Packages -> 0 .. 3] /\ asked' = asked /\ faults' \in 0 .. MaxFaults
    BY <1>t, <1>28 DEF CancelJob, history
  <2> QED
    BY <1>t, <2>1, <2>2, <2>3, <2>4, TypesNext
<1>29. ASSUME NEW w \in Workers, RecordFailure(w) PROVE TypeOK'
  <2>1. run' \in [Workers -> Runs]
    BY <1>t, <1>29, RunTypes DEF RecordFailure, Places, InSubmission, InDownload
  <2>2. job' \in Jobs
    <3>1. \A s \in Statuses, b \in BOOLEAN :
             [job EXCEPT !.failures = IF @ < 3 THEN @ + 1 ELSE @, !.terminal = b, !.status = s] \in Jobs
      <4>1. (IF job.failures < 3 THEN job.failures + 1 ELSE job.failures) \in 0 .. 3
        BY <1>t DEF Jobs
      <4> QED
        BY <1>t, <4>1 DEF Jobs
    <3>2. (job.failures >= 2) \in BOOLEAN /\ {"failed", "requires_user_authorization", "external_submission_unknown"} \subseteq Statuses
      BY DEF Statuses
    <3> QED
      BY <1>t, <1>29, <3>1, <3>2, JobTypes DEF RecordFailure
  <2>3. pk' \in [Packages -> Rows]
    BY <1>t, <1>29 DEF RecordFailure
  <2>4. /\ request' \in Requests /\ binding' = binding /\ lodged' \in 0 .. 2
        /\ downloads' \in [Packages -> 0 .. 3] /\ asked' = asked /\ faults' \in 0 .. MaxFaults
    BY <1>t, <1>29 DEF RecordFailure, history
  <2> QED
    BY <1>t, <2>1, <2>2, <2>3, <2>4, TypesNext
<1>30. ASSUME NEW w \in Workers, Release(w) PROVE TypeOK'
  <2>1. run' \in [Workers -> Runs]
    BY <1>t, <1>30, RunTypes DEF Release, Places, InSubmission, InDownload
  <2>2. job' \in Jobs
    BY <1>t, <1>30 DEF Release, Jobs
  <2>3. pk' \in [Packages -> Rows]
    BY <1>t, <1>30 DEF Release
  <2>4. /\ request' \in Requests /\ binding' = binding /\ lodged' \in 0 .. 2
        /\ downloads' \in [Packages -> 0 .. 3] /\ asked' = asked /\ faults' \in 0 .. MaxFaults
    BY <1>t, <1>30 DEF Release, history
  <2> QED
    BY <1>t, <2>1, <2>2, <2>3, <2>4, TypesNext
<1>31. ASSUME NEW w \in Workers, WorkerFault(w) PROVE TypeOK'
  <2>1. run' \in [Workers -> Runs]
    BY <1>t, <1>31, RunTypes DEF WorkerFault, Places, InSubmission, InDownload
  <2>2. job' \in Jobs
    BY <1>t, <1>31 DEF WorkerFault
  <2>3. pk' \in [Packages -> Rows]
    BY <1>t, <1>31 DEF WorkerFault
  <2>4. /\ request' \in Requests /\ binding' = binding /\ lodged' \in 0 .. 2
        /\ downloads' \in [Packages -> 0 .. 3] /\ asked' = asked /\ faults' \in 0 .. MaxFaults
    BY <1>t, <1>31 DEF WorkerFault, history, Fault, Requests
  <2> QED
    BY <1>t, <2>1, <2>2, <2>3, <2>4, TypesNext
<1>32. ASSUME LeaseEnds PROVE TypeOK'
  <2>1. job' \in Jobs
    BY <1>t, <1>32 DEF Jobs, Statuses, LeaseEnds
  <2> QED
    BY <1>t, <1>32, <2>1, TypesNext DEF history, LeaseEnds
<1>33. ASSUME LeaseOverrun PROVE TypeOK'
  <2>1. job' \in Jobs
    BY <1>t, <1>33 DEF Jobs, Statuses, LeaseOverrun, Fault
  <2> QED
    BY <1>t, <1>33, <2>1, TypesNext DEF history, LeaseOverrun, Fault
<1>34. ASSUME Bind PROVE TypeOK'
  <2>1. job' \in Jobs
    BY <1>t, <1>34 DEF Jobs, Statuses, Bind, Purpose
  <2> QED
    BY <1>t, <1>34, <2>1, TypesNext DEF history, Bind, Purpose
<1>35. ASSUME Attach PROVE TypeOK'
  <2>1. binding # "none" /\ job.grants < MaxGrants
    BY <1>35 DEF Attach, Shaped
  <2>2. job.grants + 1 \in 0 .. MaxGrants
    BY <1>t, <2>1 DEF Jobs, BoundsAssumption
  <2>3. \A s \in Statuses : [job EXCEPT !.custody = binding, !.grants = @ + 1, !.status = s] \in Jobs
    BY <1>t, <2>2 DEF Jobs
  <2>4. job' \in Jobs
    BY <1>t, <1>35, <2>3 DEF Attach, Statuses
  <2> QED
    BY <1>t, <1>35, <2>4, TypesNext DEF history, Attach
<1>36. ASSUME Cancel PROVE TypeOK'
  <2>1. job' \in Jobs
    BY <1>t, <1>36 DEF Jobs, Statuses, Cancel
  <2> QED
    BY <1>t, <1>36, <2>1, TypesNext DEF history, Cancel
<1>37. ASSUME NEW p \in Packages, RetryPackage(p) PROVE TypeOK'
  <2>1. pk' \in [Packages -> Rows]
    BY <1>t, <1>37 DEF Rows, RetryPackage, RetryAllowed
  <2>2. job' \in Jobs
    BY <1>t, <1>37, JobTypes DEF Statuses, RetryPackage
  <2>3. asked' \in [Packages -> 0 .. 2]
    BY <1>t, <1>37 DEF history, RetryPackage
  <2> QED
    BY <1>t, <1>37, <2>1, <2>2, <2>3, TypesNext DEF history, RetryPackage
<1>38. ASSUME NEW p \in Packages, Ingest(p) PROVE TypeOK'
  <2>1. pk' \in [Packages -> Rows]
    BY <1>t, <1>38 DEF Rows, Ingest, Settled
  <2>2. job' \in Jobs
    BY <1>t, <1>38, JobTypes DEF Statuses, Ingest
  <2>3. asked' \in [Packages -> 0 .. 2]
    BY <1>t, <1>38 DEF history, Ingest
  <2> QED
    BY <1>t, <1>38, <2>1, <2>2, <2>3, TypesNext DEF history, Ingest
<1>90. CASE UNCHANGED vars
    BY <1>90, <1>t, TypesNext DEF vars, history
<1> QED
  <2>1. CASE Next
    BY <2>1, <1>1, <1>2, <1>3, <1>4, <1>5, <1>6, <1>7, <1>8, <1>9, <1>10, <1>11, <1>12,
       <1>13, <1>14, <1>15, <1>16, <1>17, <1>18, <1>19, <1>20, <1>21, <1>22, <1>23,
       <1>24, <1>25, <1>26, <1>27, <1>28, <1>29, <1>30, <1>31, <1>32, <1>33, <1>34,
       <1>35, <1>36, <1>37, <1>38 DEF Next, Surroundings, Work
  <2> QED
    BY <1>90, <2>1

-----------------------------------------------------------------------------
(* How the runs move.                                                          *)

\* A worker's step is its own.
LEMMA OwnRun ==
    ASSUME TypeOK, NEW w \in Workers, Work(w) \/ WorkerFault(w)
    PROVE  \A v \in Workers \ {w} : run'[v] = run[v]
<1>r. run \in [Workers -> Runs]
    BY Types
<1> SUFFICES ASSUME NEW v \in Workers \ {w} PROVE run'[v] = run[v]
    OBVIOUS
<1>1. CASE List(w)
    BY <1>r, <1>1 DEF List, Goto
<1>2. CASE Claim(w)
    BY <1>r, <1>2 DEF Claim
<1>3. CASE Read(w)
    BY <1>r, <1>3 DEF Read
<1>4. CASE MarkDoubted(w)
    BY <1>r, <1>4 DEF MarkDoubted, Transaction, Goto, Catch
<1>5. CASE ShowUnknown(w)
    BY <1>r, <1>5 DEF ShowUnknown, Transaction, State, Goto, Catch
<1>6. CASE LocalPackage(w)
    BY <1>r, <1>6 DEF LocalPackage, Transaction, Catch
<1>7. CASE LocalDone(w)
    BY <1>r, <1>7 DEF LocalDone
<1>8. CASE Reconcile(w)
    BY <1>r, <1>8 DEF Reconcile, Transaction, Goto, Catch
<1>9. CASE UseCustody(w)
    BY <1>r, <1>9 DEF UseCustody, Catch
<1>10. CASE Authenticate(w)
    BY <1>r, <1>10 DEF Authenticate, Goto, Catch
<1>11. CASE AuthorityLost(w)
    BY <1>r, <1>11 DEF AuthorityLost, Fails
<1>12. CASE Send(w)
    BY <1>r, <1>12 DEF Send, Transaction, Goto, Catch
<1>13. CASE Submit(w)
    BY <1>r, <1>13 DEF Submit, Goto, Fails
<1>14. CASE Resubmit(w)
    BY <1>r, <1>14 DEF Resubmit, Guarded, Goto, Fails, Catch
<1>15. CASE Record(w)
    BY <1>r, <1>15 DEF Record, Transaction, Goto, Catch
<1>16. CASE ShowWaiting(w)
    BY <1>r, <1>16 DEF ShowWaiting, Transaction, State, Goto, Catch
<1>17. CASE RecordDoubt(w)
    BY <1>r, <1>17 DEF RecordDoubt, Transaction, Goto, Catch
<1>18. CASE Verify(w)
    BY <1>r, <1>18 DEF Verify, Guarded, Catch
<1>19. CASE Verified(w)
    BY <1>r, <1>19 DEF Verified, Transaction, Catch
<1>20. CASE StartDownload(w)
    BY <1>r, <1>20 DEF StartDownload, Transaction, Catch
<1>21. CASE Fetch(w)
    BY <1>r, <1>21 DEF Fetch, Guarded, Goto, Catch
<1>22. CASE Store(w)
    BY <1>r, <1>22 DEF Store, Transaction, Catch
<1>23. CASE Unfetched(w)
    BY <1>r, <1>23 DEF Unfetched, Transaction, Catch
<1>24. CASE Downloaded(w)
    BY <1>r, <1>24 DEF Downloaded
<1>25. CASE Finish(w)
    BY <1>r, <1>25 DEF Finish, Transaction, State, Goto, Catch
<1>26. CASE Consume(w)
    BY <1>r, <1>26 DEF Consume, Goto, Catch
<1>27. CASE ApplyResult(w)
    BY <1>r, <1>27 DEF ApplyResult, Transaction, Goto, Catch
<1>28. CASE CancelJob(w)
    BY <1>r, <1>28 DEF CancelJob, Goto
<1>29. CASE RecordFailure(w)
    BY <1>r, <1>29 DEF RecordFailure, Goto
<1>30. CASE Release(w)
    BY <1>r, <1>30 DEF Release
<1>31. CASE WorkerFault(w)
    BY <1>r, <1>31 DEF WorkerFault, Fails
<1> QED
    BY <1>1, <1>2, <1>3, <1>4, <1>5, <1>6, <1>7, <1>8, <1>9, <1>10, <1>11, <1>12,
       <1>13, <1>14, <1>15, <1>16, <1>17, <1>18, <1>19, <1>20, <1>21, <1>22, <1>23,
       <1>24, <1>25, <1>26, <1>27, <1>28, <1>29, <1>30, <1>31 DEF Work

\* Where the ways out of a step leave a run.
LEMMA RunAfter ==
    ASSUME TypeOK, NEW w \in Workers
    PROVE  /\ \A pc \in Places : Goto(w, pc) => run'[w].pc = pc
           /\ \A e \in Errors : Catch(w, e) => run'[w].pc = "caught"
           /\ FenceError(w) \in Errors
           /\ Fails(w) => run'[w].pc = Handler(w) /\ Handler(w) \notin Calling \cup {"record"}
<1>r. run \in [Workers -> Runs] /\ run[w] \in Runs
    BY Types
<1>1. \A pc \in Places : Goto(w, pc) => run'[w].pc = pc
    BY <1>r DEF Goto, Runs
<1>2. \A e \in Errors : Catch(w, e) => run'[w].pc = "caught"
    BY <1>r DEF Catch, Resting
<1>3. Handler(w) \notin Calling \cup {"record"}
    BY DEF Handler, Calling
<1>4. ASSUME Fails(w) PROVE run'[w].pc = Handler(w)
  <2>1. CASE Handler(w) = "idle"
    BY <1>r, <1>4, <2>1 DEF Fails, Resting
  <2>2. CASE Handler(w) \in {"caught", "release"}
    BY <1>r, <1>4, <2>2 DEF Fails, Resting
  <2>3. CASE Handler(w) \notin {"idle", "caught", "release"}
    BY <1>r, <1>4, <2>3 DEF Fails, Runs
  <2> QED
    BY <2>1, <2>2, <2>3
<1> QED
    BY <1>1, <1>2, <1>3, <1>4, RunTypes, <1>r

\* The answer of SAT to a verification: new packages wait, and the run lists the ones
\* that wait and were never downloaded.
LEMMA VerifiedEffect ==
    ASSUME TypeOK, NEW w \in Workers, Verified(w), Fenced(w)
    PROVE  /\ run'[w].pc \in {"show_waiting", "start", "consume"}
           /\ run'[w].pc = "start" => \A p \in run'[w].todo : pk'[p].status = "pending"
           /\ \A p \in Packages :
                \/ pk'[p] = pk[p]
                \/ pk[p].status = "absent" /\ pk'[p] = [pk[p] EXCEPT !.status = "pending"]
           /\ UNCHANGED <<job, request, binding, history>>
<1>r. /\ run \in [Workers -> Runs] /\ run[w] \in Runs
      /\ pk \in [Packages -> Rows] /\ \A p \in Packages : pk[p] \in Rows
    BY Types
<1> DEFINE known == \E p \in Packages : pk[p].status # "absent"
           answer == IF run[w].answer = "empty" /\ known THEN "refused" ELSE run[w].answer
           rows == [p \in Packages |-> IF pk[p].status = "absent" /\ answer = "packages"
                                       THEN [pk[p] EXCEPT !.status = "pending"] ELSE pk[p]]
           listed == {p \in Packages : rows[p].status = "pending" /\ ~rows[p].down}
<1>1. /\ pk' = rows
      /\ run' = [run EXCEPT ![w] =
             IF answer = "waiting" THEN [@ EXCEPT !.pc = "show_waiting", !.answer = "none"]
             ELSE IF answer = "packages"
             THEN [@ EXCEPT !.pc = "start", !.answer = "none", !.todo = listed]
             ELSE [@ EXCEPT !.pc = "consume", !.answer = answer]]
      /\ UNCHANGED <<job, request, binding, history>>
    BY DEF Verified, Transaction
<1>2. \A p \in Packages : \/ rows[p] = pk[p]
                          \/ pk[p].status = "absent" /\ rows[p] = [pk[p] EXCEPT !.status = "pending"]
    OBVIOUS
<1>3. \A p \in listed : rows[p].status = "pending"
    OBVIOUS
<1> HIDE DEF known, answer, rows, listed
<1>4. /\ run'[w].pc \in {"show_waiting", "start", "consume"}
      /\ run'[w].pc = "start" => run'[w].todo = listed
    BY <1>r, <1>1 DEF Runs
<1> QED
    BY <1>1, <1>2, <1>3, <1>4

\* The steps that neither send, nor record a reply: they leave no run where one may.
LEMMA Elsewhere ==
    ASSUME TypeOK, NEW w \in Workers, Work(w) \/ WorkerFault(w),
           ~Submit(w), ~Send(w), ~Record(w), ~Resubmit(w)
    PROVE  run'[w].pc \notin Calling \cup {"record"} /\ request' \in {request, "unknown"} /\ lodged' = lodged
<1>r. run \in [Workers -> Runs] /\ run[w] \in Runs
    BY Types
<1>1. CASE List(w)
    BY <1>r, <1>1, RunAfter DEF Calling, Places, Errors, InSubmission, InDownload,
       List, history
<1>2. CASE Claim(w)
    BY <1>r, <1>2, RunAfter DEF Calling, Places, Errors, InSubmission, InDownload,
       Claim, history, Resting
<1>3. CASE Read(w)
    BY <1>r, <1>3, RunAfter DEF Calling, Places, Errors, InSubmission, InDownload,
       Read, history, Resting, Runs
<1>4. CASE MarkDoubted(w)
    BY <1>r, <1>4, RunAfter DEF Calling, Places, Errors, InSubmission, InDownload,
       MarkDoubted, Transaction, history, Doubted
<1>5. CASE ShowUnknown(w)
    BY <1>r, <1>5, RunAfter DEF Calling, Places, Errors, InSubmission, InDownload,
       ShowUnknown, Transaction, State, history
<1>6. CASE LocalPackage(w)
    BY <1>r, <1>6, RunAfter DEF Calling, Places, Errors, InSubmission, InDownload,
       LocalPackage, Transaction, history, Runs
<1>7. CASE LocalDone(w)
    BY <1>r, <1>7, RunAfter DEF Calling, Places, Errors, InSubmission, InDownload,
       LocalDone, history, Resting, Runs
<1>8. CASE Reconcile(w)
    BY <1>r, <1>8, RunAfter DEF Calling, Places, Errors, InSubmission, InDownload,
       Reconcile, Transaction, history
<1>9. CASE UseCustody(w)
    BY <1>r, <1>9, RunAfter DEF Calling, Places, Errors, InSubmission, InDownload,
       UseCustody, history, Runs
<1>10. CASE Authenticate(w)
    BY <1>r, <1>10, RunAfter DEF Calling, Places, Errors, InSubmission, InDownload,
       Authenticate, history
<1>11. CASE AuthorityLost(w)
    BY <1>r, <1>11, RunAfter DEF Calling, Places, Errors, InSubmission, InDownload,
       AuthorityLost, history
<1>12. CASE ShowWaiting(w)
    BY <1>r, <1>12, RunAfter DEF Calling, Places, Errors, InSubmission, InDownload,
       ShowWaiting, Transaction, State, history
<1>13. CASE RecordDoubt(w)
    BY <1>r, <1>13, RunAfter DEF Calling, Places, Errors, InSubmission, InDownload,
       RecordDoubt, Transaction, history, Doubted
<1>14. CASE Verify(w)
    BY <1>r, <1>14, RunAfter DEF Calling, Places, Errors, InSubmission, InDownload,
       Verify, Guarded, history, Runs
<1>15. CASE Verified(w)
  <2>1. CASE Fenced(w)
    BY <1>15, <2>1, VerifiedEffect DEF Calling, history
  <2>2. CASE ~Fenced(w)
    BY <1>15, <2>2, RunAfter DEF Verified, Transaction, history, Calling
  <2> QED
    BY <2>1, <2>2
<1>16. CASE StartDownload(w)
    BY <1>r, <1>16, RunAfter DEF Calling, Places, Errors, InSubmission, InDownload,
       StartDownload, Transaction, history, Runs
<1>17. CASE Fetch(w)
    BY <1>r, <1>17, RunAfter DEF Calling, Places, Errors, InSubmission, InDownload,
       Fetch, Guarded, history, Runs
<1>18. CASE Store(w)
    BY <1>r, <1>18, RunAfter DEF Calling, Places, Errors, InSubmission, InDownload,
       Store, Transaction, history, Runs
<1>19. CASE Unfetched(w)
    BY <1>r, <1>19, RunAfter DEF Calling, Places, Errors, InSubmission, InDownload,
       Unfetched, Transaction, history, Runs
<1>20. CASE Downloaded(w)
    BY <1>r, <1>20, RunAfter DEF Calling, Places, Errors, InSubmission, InDownload,
       Downloaded, history, Runs
<1>21. CASE Finish(w)
    BY <1>r, <1>21, RunAfter DEF Calling, Places, Errors, InSubmission, InDownload,
       Finish, Transaction, State, history
<1>22. CASE Consume(w)
    BY <1>r, <1>22, RunAfter DEF Calling, Places, Errors, InSubmission, InDownload,
       Consume, history
<1>23. CASE ApplyResult(w)
    BY <1>r, <1>23, RunAfter DEF Calling, Places, Errors, InSubmission, InDownload,
       ApplyResult, Transaction, history
<1>24. CASE CancelJob(w)
    BY <1>r, <1>24, RunAfter DEF Calling, Places, Errors, InSubmission, InDownload,
       CancelJob, history
<1>25. CASE RecordFailure(w)
    BY <1>r, <1>25, RunAfter DEF Calling, Places, Errors, InSubmission, InDownload,
       RecordFailure, history
<1>26. CASE Release(w)
    BY <1>r, <1>26, RunAfter DEF Calling, Places, Errors, InSubmission, InDownload,
       Release, history, Resting
<1>27. CASE WorkerFault(w)
    BY <1>r, <1>27, RunAfter DEF Calling, Places, Errors, InSubmission, InDownload,
       WorkerFault, history, Fault, Resting
<1> QED
    BY <1>1, <1>2, <1>3, <1>4, <1>5, <1>6, <1>7, <1>8, <1>9, <1>10, <1>11, <1>12,
       <1>13, <1>14, <1>15, <1>16, <1>17, <1>18, <1>19, <1>20, <1>21, <1>22, <1>23,
       <1>24, <1>25, <1>26, <1>27 DEF Work

-----------------------------------------------------------------------------
(* One submission.                                                             *)

\* A step that does not send keeps what is known of the submission.
LEMMA SentKept ==
    ASSUME TypeOK, Sent, request' \in {request, "unknown"}, lodged' = lodged,
           \A v \in Workers : run'[v].pc \in Calling \cup {"record"} =>
               /\ run[v].pc \in Calling \cup {"record"}
               /\ run'[v].pc \in Calling => run[v].pc \in Calling
               /\ run'[v].pc = "record" => run[v].pc = "record" /\ run'[v].answer = run[v].answer
    PROVE  Sent'
BY Types DEF Sent, SubmittedOnce, Requests

\* Every step keeps what is known of the submission.
LEMMA SentStep == TypeOK /\ Shaped /\ Sent /\ [Next]_vars => Sent'
<1> SUFFICES ASSUME TypeOK, Shaped, Sent, [Next]_vars PROVE Sent'
    OBVIOUS
<1>t. run \in [Workers -> Runs] /\ request \in Requests /\ lodged \in 0 .. 2
    BY Types
<1>1. ASSUME NEW w \in Workers, Submit(w) PROVE Sent'
  <2>1. run[w].pc \in Calling /\ lodged = 0 /\ request \notin {"not_sent", "rejected", "accepted"}
    BY <1>1 DEF Submit, Sent, SubmittedOnce, Calling
  <2>2. /\ request' = request
        /\ \A v \in Workers \ {w} : run'[v] = run[v] /\ run[v].pc \notin Calling \cup {"record"}
    BY <1>1, <2>1, OwnRun DEF Submit, Sent, Work
  <2>3. \/ lodged' = 1 /\ run'[w].pc = "record" /\ run'[w].answer = "accepted"
        \/ lodged' = 1 /\ run'[w].pc = "doubt"
        \/ lodged' = 0 /\ run'[w].pc = "record" /\ run'[w].answer = "rejected"
        \/ lodged' = 0 /\ run'[w].pc \in {"resubmit", "doubt"}
    <3>1. Handler(w) = "doubt" /\ "resubmit" \in Places
      BY <1>1 DEF Submit, Handler, InSubmission, Places
    <3> QED
      BY <1>1, <1>t, <2>1, <3>1, RunAfter DEF Submit, Lodge, Runs
  <2> QED
    BY <2>1, <2>2, <2>3 DEF Sent, SubmittedOnce, Calling
<1>2. ASSUME NEW w \in Workers, Send(w) PROVE Sent'
  <2>1. lodged' = lodged /\ \A v \in Workers \ {w} : run'[v] = run[v]
    BY <1>2, OwnRun DEF Send, Transaction, history, Work
  <2>2. CASE request = "not_sent" /\ request' = "sending" /\ run'[w].pc = "submit"
    BY <2>1, <2>2 DEF Sent, SubmittedOnce, Calling
  <2>3. CASE request' = request /\ run'[w].pc = "caught"
    BY <2>1, <2>3, SentKept DEF Calling
  <2> QED
    BY <1>2, <1>t, <2>2, <2>3 DEF Send, Transaction, Goto, Catch, Resting, Runs
<1>3. ASSUME NEW w \in Workers, Record(w) PROVE Sent'
  <2>1. run[w].pc = "record" /\ lodged' = lodged /\ \A v \in Workers \ {w} : run'[v] = run[v]
    BY <1>3, OwnRun DEF Record, Transaction, history, Work
  <2>2. /\ run'[w].pc \notin Calling \cup {"record"}
        /\ request' = request \/ request' = run[w].answer
    BY <1>3, <1>t DEF Record, Transaction, Goto, Catch, Resting, Runs, Calling
  <2>3. run[w].answer \in {"accepted", "rejected"}
        /\ lodged = IF run[w].answer = "accepted" THEN 1 ELSE 0
    BY <2>1 DEF Shaped, Sent
  <2>4. CASE request' = request
    BY <2>1, <2>2, <2>4, SentKept
  <2>5. CASE request' = run[w].answer
    <3>1. \A v \in Workers : run'[v].pc \notin Calling \cup {"record"}
      BY <2>1, <2>2 DEF Sent
    <3> QED
      BY <2>1, <2>3, <2>5, <3>1 DEF Sent, SubmittedOnce
  <2> QED
    BY <2>2, <2>4, <2>5
<1>4. ASSUME NEW w \in Workers, Resubmit(w) PROVE Sent'
  <2>1. /\ request' = request /\ lodged' = lodged
        /\ \A v \in Workers \ {w} : run'[v] = run[v]
    BY <1>4, OwnRun DEF Resubmit, Guarded, history, Work
  <2>2. run[w].pc = "resubmit" /\ run'[w].pc \in {"submit_again", "doubt", "caught"}
    <3>1. run[w].pc = "resubmit" => Handler(w) = "doubt"
      BY DEF Handler, InSubmission
    <3> QED
      BY <1>4, <1>t, <3>1, RunAfter DEF Resubmit, Guarded, Places, InSubmission
  <2> QED
    BY <2>1, <2>2, SentKept DEF Calling
<1>5. ASSUME NEW w \in Workers, Work(w) \/ WorkerFault(w),
             ~Submit(w), ~Send(w), ~Record(w), ~Resubmit(w)
      PROVE  Sent'
    BY <1>5, OwnRun, Elsewhere, SentKept
<1>6. CASE UNCHANGED vars \/ Surroundings
  <2>1. request' = request /\ lodged' = lodged /\ run' = run
    BY <1>6 DEF vars, history, Surroundings, LeaseEnds, LeaseOverrun, Bind, Attach,
       Cancel,
           RetryPackage, Ingest
  <2> QED
    BY <2>1, SentKept
<1> QED
    BY <1>1, <1>2, <1>3, <1>4, <1>5, <1>6 DEF Next, Work

-----------------------------------------------------------------------------
(* Packages in hand.                                                           *)

\* The steps that leave a run neither in the downloads nor with a reply to record.
LEMMA Aside ==
    ASSUME TypeOK, NEW w \in Workers, Work(w) \/ WorkerFault(w),
           ~Submit(w), ~Verified(w), ~StartDownload(w), ~Fetch(w), ~Store(w), ~Unfetched(w),
           ~AuthorityLost(w), ~WorkerFault(w)
    PROVE  run'[w].pc \notin Downloading \cup {"record"}
<1>r. /\ run \in [Workers -> Runs] /\ run[w] \in Runs /\ job \in Jobs
      /\ pk \in [Packages -> Rows] /\ \A p \in Packages : pk[p] \in Rows
    BY Types
<1>1. CASE List(w)
    BY <1>r, <1>1, RunAfter DEF List, Downloading, InHand, Places, Errors,
       InSubmission, InDownload
<1>2. CASE Claim(w)
    BY <1>r, <1>2, RunAfter DEF Claim, Resting, Downloading, InHand, Places, Errors,
       InSubmission, InDownload
<1>3. CASE Read(w)
    BY <1>r, <1>3, RunAfter DEF Read, Resting, Runs, Downloading, InHand, Places,
       Errors, InSubmission, InDownload
<1>4. CASE MarkDoubted(w)
    BY <1>r, <1>4, RunAfter DEF MarkDoubted, Transaction, Downloading, InHand, Places,
       Errors, InSubmission, InDownload
<1>5. CASE ShowUnknown(w)
    BY <1>r, <1>5, RunAfter DEF ShowUnknown, Transaction, State, Downloading, InHand,
       Places, Errors, InSubmission, InDownload
<1>6. CASE LocalPackage(w)
    BY <1>r, <1>6, RunAfter DEF LocalPackage, Transaction, Runs, Downloading, InHand,
       Places, Errors, InSubmission, InDownload
<1>7. CASE LocalDone(w)
    BY <1>r, <1>7, RunAfter DEF LocalDone, Resting, Runs, Downloading, InHand, Places,
       Errors, InSubmission, InDownload
<1>8. CASE Reconcile(w)
    BY <1>r, <1>8, RunAfter DEF Reconcile, Transaction, Downloading, InHand, Places,
       Errors, InSubmission, InDownload
<1>9. CASE UseCustody(w)
    BY <1>r, <1>9, RunAfter DEF UseCustody, Runs, Downloading, InHand, Places, Errors,
       InSubmission, InDownload
<1>10. CASE Authenticate(w)
    BY <1>r, <1>10, RunAfter DEF Authenticate, Downloading, InHand, Places,
       Errors, InSubmission, InDownload
<1>11. CASE Send(w)
    BY <1>r, <1>11, RunAfter DEF Send, Transaction, Downloading, InHand, Places,
       Errors, InSubmission, InDownload
<1>12. CASE Resubmit(w)
  <2>1. Handler(w) = "doubt"
    BY <1>12 DEF Handler, Resubmit, Guarded, InSubmission
  <2> QED
    BY <1>12, <2>1, RunAfter DEF Resubmit, Guarded, Downloading, InHand, Places,
       InSubmission
<1>13. CASE Record(w)
    BY <1>r, <1>13, RunAfter DEF Record, Transaction, Downloading, InHand, Places,
       Errors, InSubmission, InDownload
<1>14. CASE ShowWaiting(w)
    BY <1>r, <1>14, RunAfter DEF ShowWaiting, Transaction, State, Downloading, InHand,
       Places, Errors, InSubmission, InDownload
<1>15. CASE RecordDoubt(w)
    BY <1>r, <1>15, RunAfter DEF RecordDoubt, Transaction, Downloading, InHand, Places,
       Errors, InSubmission, InDownload
<1>16. CASE Verify(w)
    BY <1>r, <1>16, RunAfter DEF Verify, Guarded, Runs, Downloading, InHand, Places,
       Errors, InSubmission, InDownload
<1>17. CASE Downloaded(w)
    BY <1>r, <1>17, RunAfter DEF Downloaded, Runs, Downloading, InHand, Places, Errors,
       InSubmission, InDownload
<1>18. CASE Finish(w)
    BY <1>r, <1>18, RunAfter DEF Finish, Transaction, State, Downloading, InHand,
       Places, Errors, InSubmission, InDownload
<1>19. CASE Consume(w)
    BY <1>r, <1>19, RunAfter DEF Consume, Downloading, InHand, Places, Errors,
       InSubmission, InDownload
<1>20. CASE ApplyResult(w)
    BY <1>r, <1>20, RunAfter DEF ApplyResult, Transaction, Downloading, InHand, Places,
       Errors, InSubmission, InDownload
<1>21. CASE CancelJob(w)
    BY <1>r, <1>21, RunAfter DEF CancelJob, Downloading, InHand, Places, Errors,
       InSubmission, InDownload
<1>22. CASE RecordFailure(w)
    BY <1>r, <1>22, RunAfter DEF RecordFailure, Downloading, InHand, Places, Errors,
       InSubmission, InDownload
<1>23. CASE Release(w)
    BY <1>r, <1>23, RunAfter DEF Release, Resting, Downloading, InHand, Places, Errors,
       InSubmission, InDownload
<1> QED
    BY <1>1, <1>2, <1>3, <1>4, <1>5, <1>6, <1>7, <1>8, <1>9, <1>10, <1>11, <1>12,
       <1>13, <1>14, <1>15, <1>16, <1>17, <1>18, <1>19, <1>20, <1>21, <1>22, <1>23 DEF
       Work

\* A failed step leaves a run in the downloads only if it has a package in hand, and
\* then with that package.
LEMMA FailedRun ==
    ASSUME TypeOK, NEW w \in Workers, Fails(w), run'[w].pc \in Downloading \cup {"record"}
    PROVE  /\ run'[w].pc = "unfetched" /\ run[w].pc \in {"fetch", "store"}
           /\ run'[w].next = run[w].next /\ run'[w].todo = run[w].todo
<1>r. run \in [Workers -> Runs] /\ run[w] \in Runs
    BY Types
<1>1. run'[w].pc = Handler(w)
    BY RunAfter
<1>2. Handler(w) = "unfetched" /\ run[w].pc \in {"fetch", "store"}
    BY <1>1 DEF Handler, Downloading, InHand, InDownload
<1>3. run' = [run EXCEPT ![w] = [run[w] EXCEPT !.pc = "unfetched", !.error = "other"]]
    BY <1>2 DEF Fails
<1> QED
    BY <1>r, <1>2, <1>3 DEF Runs

\* What a download does to its run: the package is in hand, and no longer in the list.
LEMMA StartedRun ==
    ASSUME TypeOK, NEW w \in Workers, StartDownload(w), Fenced(w)
    PROVE  \E p \in run[w].todo :
              /\ p \in Packages
              /\ \/ /\ pk' = [pk EXCEPT ![p].status = "budget_exhausted"]
                    /\ run'[w].pc = "start" /\ run'[w].todo = run[w].todo \ {p}
                 \/ /\ pk' = [pk EXCEPT ![p].status = "downloading", ![p].attempts = @ + 1]
                    /\ run'[w].pc = "fetch" /\ run'[w].next = p
                    /\ run'[w].todo = run[w].todo \ {p}
<1>r. run \in [Workers -> Runs] /\ run[w] \in Runs
    BY Types
<1>1. PICK p \in run[w].todo :
         /\ run[w].pc = "start"
         /\ \/ /\ pk' = [pk EXCEPT ![p].status = "budget_exhausted"]
               /\ run' = [run EXCEPT ![w].todo = @ \ {p}]
            \/ /\ pk' = [pk EXCEPT ![p].status = "downloading", ![p].attempts = @ + 1]
               /\ run' = [run EXCEPT ![w].pc = "fetch", ![w].next = p, ![w].todo = @ \ {p}]
    BY DEF StartDownload, Transaction
<1>2. p \in Packages
    BY <1>r DEF Runs
<1>3. CASE run' = [run EXCEPT ![w].todo = @ \ {p}]
    BY <1>r, <1>1, <1>2, <1>3 DEF Runs
<1>4. CASE run' = [run EXCEPT ![w].pc = "fetch", ![w].next = p, ![w].todo = @ \ {p}]
    BY <1>r, <1>1, <1>2, <1>4 DEF Runs
<1> QED
    BY <1>1, <1>3, <1>4

\* What a change of a row leaves of it.
LEMMA RowFields ==
    ASSUME NEW r \in Rows, NEW s, NEW i, NEW d
    PROVE  /\ [r EXCEPT !.status = s].status = s /\ [r EXCEPT !.status = s].attempts = r.attempts
           /\ [r EXCEPT !.status = s, !.ingest = i].status = s
           /\ [r EXCEPT !.status = s, !.ingest = i].attempts = r.attempts
           /\ [r EXCEPT !.status = s, !.down = d].status = s
           /\ [r EXCEPT !.status = s, !.down = d].attempts = r.attempts
BY DEF Rows

\* What the end of a download does to its run.
LEMMA EndedRun ==
    ASSUME TypeOK, NEW w \in Workers, Store(w) \/ Unfetched(w), Fenced(w)
    PROVE  /\ run'[w].pc = "start" /\ run'[w].todo = run[w].todo /\ run[w].pc \in InHand
           /\ \A p \in Packages \ {run[w].next} : pk'[p] = pk[p]
           /\ \A p \in Packages : /\ pk'[p].attempts = pk[p].attempts
                                  /\ pk'[p].status \in {"pending", "absent"} => pk'[p].status = pk[p].status
<1>r. /\ run \in [Workers -> Runs] /\ run[w] \in Runs
      /\ pk \in [Packages -> Rows] /\ \A p \in Packages : pk[p] \in Rows
    BY Types
<1>1. CASE Store(w)
  <2>1. /\ pk' = [pk EXCEPT ![run[w].next].status = "stored", ![run[w].next].down = TRUE]
        /\ run' = [run EXCEPT ![w].pc = "start", ![w].next = "none"]
        /\ run[w].pc = "store"
    BY <1>1 DEF Store, Transaction
  <2>2. \A p \in Packages : pk'[p] = pk[p] \/ (p = run[w].next /\ pk'[p] = [pk[p] EXCEPT !.status = "stored", !.down = TRUE])
    BY <1>r, <2>1
  <2>3. ASSUME NEW p \in Packages
        PROVE  pk'[p].attempts = pk[p].attempts /\ pk'[p].status \in {pk[p].status, "stored"}
    <3>1. CASE pk'[p] = pk[p]
      BY <3>1
    <3>2. CASE pk'[p] = [pk[p] EXCEPT !.status = "stored", !.down = TRUE]
      BY <1>r, <3>2, RowFields
    <3> QED
      BY <2>2, <3>1, <3>2
  <2>4. run'[w].pc = "start" /\ run'[w].todo = run[w].todo
    BY <1>r, <2>1 DEF Runs
  <2> QED
    BY <2>1, <2>2, <2>3, <2>4 DEF InHand
<1>2. CASE Unfetched(w)
  <2>1. PICK s \in {"expired", "budget_exhausted", "download_unknown"} :
           /\ pk' = pk \/ pk' = [pk EXCEPT ![run[w].next].status = s]
           /\ run' = [run EXCEPT ![w].pc = "start", ![w].next = "none", ![w].error = "none"]
           /\ run[w].pc = "unfetched"
    BY <1>2 DEF Unfetched, Transaction, Interrupted
  <2>2. \A p \in Packages : pk'[p] = pk[p] \/ (p = run[w].next /\ pk'[p] = [pk[p] EXCEPT !.status = s])
    BY <1>r, <2>1
  <2>3. ASSUME NEW p \in Packages
        PROVE  pk'[p].attempts = pk[p].attempts /\ pk'[p].status \in {pk[p].status, s}
    <3>1. CASE pk'[p] = pk[p]
      BY <3>1
    <3>2. CASE pk'[p] = [pk[p] EXCEPT !.status = s]
      BY <1>r, <3>2, RowFields
    <3> QED
      BY <2>2, <3>1, <3>2
  <2>4. run'[w].pc = "start" /\ run'[w].todo = run[w].todo
    BY <1>r, <2>1 DEF Runs
  <2> QED
    BY <2>1, <2>2, <2>3, <2>4 DEF InHand
<1> QED
    BY <1>1, <1>2

\* What a download call does to its run.
LEMMA FetchedRun ==
    ASSUME TypeOK, NEW w \in Workers, Fetch(w), Fenced(w)
    PROVE  /\ run'[w].pc \in {"store", "unfetched"} /\ run[w].pc = "fetch"
           /\ run'[w].next = run[w].next /\ run'[w].todo = run[w].todo
           /\ downloads' = [downloads EXCEPT ![run[w].next] = IF @ < 3 THEN @ + 1 ELSE @]
           /\ UNCHANGED <<job, pk, asked>>
<1>r. run \in [Workers -> Runs] /\ run[w] \in Runs
    BY Types
<1>1. /\ run[w].pc = "fetch"
      /\ downloads' = [downloads EXCEPT ![run[w].next] = IF @ < 3 THEN @ + 1 ELSE @]
      /\ UNCHANGED <<job, pk, asked>>
    BY DEF Fetch, Guarded
<1>2. PICK e : \/ run' = [run EXCEPT ![w].pc = "store"]
               \/ run' = [run EXCEPT ![w].pc = "unfetched", ![w].error = e]
    BY DEF Fetch, Guarded, Goto
<1> QED
    BY <1>r, <1>1, <1>2 DEF Runs

\* No step of a worker gives an authorization.
LEMMA KeptByWorkers ==
    ASSUME TypeOK, NEW w \in Workers, Work(w) \/ WorkerFault(w)
    PROVE  binding' = binding /\ job'.grants = job.grants /\ asked' = asked
<1>r. /\ run \in [Workers -> Runs] /\ run[w] \in Runs /\ job \in Jobs
      /\ pk \in [Packages -> Rows] /\ \A p \in Packages : pk[p] \in Rows
    BY Types
<1>1. CASE List(w)
    BY <1>r, <1>1 DEF List, history, Jobs
<1>2. CASE Claim(w)
    BY <1>r, <1>2 DEF Claim, history, Jobs
<1>3. CASE Read(w)
    BY <1>r, <1>3 DEF Read, history, Jobs
<1>4. CASE MarkDoubted(w)
    BY <1>r, <1>4 DEF MarkDoubted, Transaction, history, Jobs
<1>5. CASE ShowUnknown(w)
    BY <1>r, <1>5 DEF ShowUnknown, Transaction, State, history, Jobs
<1>6. CASE LocalPackage(w)
    BY <1>r, <1>6 DEF LocalPackage, Transaction, history, Jobs
<1>7. CASE LocalDone(w)
    BY <1>r, <1>7 DEF LocalDone, history, Jobs
<1>8. CASE Reconcile(w)
    BY <1>r, <1>8 DEF Reconcile, Transaction, history, Jobs
<1>9. CASE UseCustody(w)
    BY <1>r, <1>9 DEF UseCustody, history, Jobs
<1>10. CASE Authenticate(w)
    BY <1>r, <1>10 DEF Authenticate, history, Jobs
<1>11. CASE AuthorityLost(w)
    BY <1>r, <1>11 DEF AuthorityLost, history, Jobs
<1>12. CASE Send(w)
    BY <1>r, <1>12 DEF Send, Transaction, history, Jobs
<1>13. CASE Submit(w)
    BY <1>r, <1>13 DEF Submit, history, Jobs
<1>14. CASE Resubmit(w)
    BY <1>r, <1>14 DEF Resubmit, Guarded, history, Jobs
<1>15. CASE Record(w)
    BY <1>r, <1>15 DEF Record, Transaction, history, Jobs
<1>16. CASE ShowWaiting(w)
    BY <1>r, <1>16 DEF ShowWaiting, Transaction, State, history, Jobs
<1>17. CASE RecordDoubt(w)
    BY <1>r, <1>17 DEF RecordDoubt, Transaction, history, Jobs
<1>18. CASE Verify(w)
    BY <1>r, <1>18 DEF Verify, Guarded, history, Jobs
<1>19. CASE Verified(w)
    BY <1>r, <1>19 DEF Verified, Transaction, history, Jobs
<1>20. CASE StartDownload(w)
    BY <1>r, <1>20 DEF StartDownload, Transaction, history, Jobs
<1>21. CASE Fetch(w)
    BY <1>r, <1>21 DEF Fetch, Guarded, history, Jobs
<1>22. CASE Store(w)
    BY <1>r, <1>22 DEF Store, Transaction, history, Jobs
<1>23. CASE Unfetched(w)
    BY <1>r, <1>23 DEF Unfetched, Transaction, history, Jobs
<1>24. CASE Downloaded(w)
    BY <1>r, <1>24 DEF Downloaded, history, Jobs
<1>25. CASE Finish(w)
    BY <1>r, <1>25 DEF Finish, Transaction, State, history, Jobs
<1>26. CASE Consume(w)
    BY <1>r, <1>26 DEF Consume, history, Jobs
<1>27. CASE ApplyResult(w)
    BY <1>r, <1>27 DEF ApplyResult, Transaction, history, Jobs
<1>28. CASE CancelJob(w)
    BY <1>r, <1>28 DEF CancelJob, history, Jobs
<1>29. CASE RecordFailure(w)
    BY <1>r, <1>29 DEF RecordFailure, history, Jobs
<1>30. CASE Release(w)
    BY <1>r, <1>30 DEF Release, history, Jobs
<1>31. CASE WorkerFault(w)
    BY <1>r, <1>31 DEF WorkerFault, Fault, history, Jobs
<1> QED
    BY <1>1, <1>2, <1>3, <1>4, <1>5, <1>6, <1>7, <1>8, <1>9, <1>10, <1>11, <1>12,
       <1>13, <1>14, <1>15, <1>16, <1>17, <1>18, <1>19, <1>20, <1>21, <1>22, <1>23,
       <1>24, <1>25, <1>26, <1>27, <1>28, <1>29, <1>30, <1>31 DEF Work

\* Every step keeps the packages in hand and the counted authorizations.
LEMMA ShapedStep == TypeOK /\ Shaped /\ [Next]_vars => Shaped'
<1> SUFFICES ASSUME TypeOK, Shaped, [Next]_vars PROVE Shaped'
    OBVIOUS
<1>t. job \in Jobs /\ run \in [Workers -> Runs] /\ binding \in {"none", "submit", "recover"}
    BY Types
<1> DEFINE Fit(r) == /\ r.pc = "record" => r.answer \in {"accepted", "rejected"}
                     /\ r.pc \in InHand => r.next \in Packages \ r.todo
<1>1. ASSUME NEW w \in Workers, Work(w) \/ WorkerFault(w) PROVE Shaped'
  <2>1. \A v \in Workers \ {w} : run'[v] = run[v]
    BY <1>1, OwnRun
  <2>2. Fit(run[w])
    BY DEF Shaped
  <2>3. Fit(run'[w])
    <3>1. CASE Submit(w)
      BY <1>t, <3>1, FailedRun DEF Submit, Goto, InHand, InSubmission, Runs, Downloading
    <3>2. CASE Verified(w)
      <4>1. CASE Fenced(w)
        BY <3>2, <4>1, VerifiedEffect DEF InHand
      <4> QED
        BY <3>2, <4>1, RunAfter DEF Verified, Transaction, InHand
    <3>3. CASE StartDownload(w)
      <4>1. CASE Fenced(w)
        BY <3>3, <4>1, StartedRun DEF InHand
      <4> QED
        BY <3>3, <4>1, RunAfter DEF StartDownload, Transaction, InHand
    <3>4. CASE Fetch(w)
      <4>1. CASE Fenced(w)
        BY <2>2, <3>4, <4>1, FetchedRun DEF InHand
      <4> QED
        BY <3>4, <4>1, RunAfter DEF Fetch, Guarded, InHand
    <3>5. CASE Store(w) \/ Unfetched(w)
      <4>1. CASE Fenced(w)
        BY <3>5, <4>1, EndedRun DEF InHand
      <4> QED
        BY <3>5, <4>1, RunAfter DEF Store, Unfetched, Transaction, InHand
    <3>6. CASE AuthorityLost(w) \/ WorkerFault(w)
      <4>1. CASE Fails(w)
        BY <2>2, <4>1, FailedRun DEF Downloading, InHand
      <4> QED
        BY <1>t, <3>6, <4>1 DEF AuthorityLost, WorkerFault, Resting, InHand
    <3> QED
      BY <1>1, <3>1, <3>2, <3>3, <3>4, <3>5, <3>6, Aside DEF Downloading, InHand
  <2>4. binding' = binding /\ job'.grants = job.grants
    BY <1>1, KeptByWorkers
  <2> QED
    BY <2>1, <2>3, <2>4 DEF Shaped
<1>2. CASE UNCHANGED vars \/ Surroundings
  <2>1. run' = run /\ (binding' # "none" => job'.grants < MaxGrants)
    <3>1. CASE UNCHANGED vars
      BY <3>1 DEF vars, Shaped
    <3>2. CASE LeaseEnds \/ LeaseOverrun \/ Cancel
      BY <1>t, <3>2 DEF LeaseEnds, LeaseOverrun, Cancel, Shaped, Jobs
    <3>3. CASE Bind \/ Attach
      BY <1>t, <3>3 DEF Bind, Attach
    <3>4. CASE \E p \in Packages : RetryPackage(p) \/ Ingest(p)
      BY <1>t, <3>4 DEF RetryPackage, Ingest, Shaped, Jobs
    <3> QED
      BY <1>2, <3>1, <3>2, <3>3, <3>4 DEF Surroundings
  <2> QED
    BY <2>1 DEF Shaped
<1> QED
    BY <1>1, <1>2 DEF Next

-----------------------------------------------------------------------------
(* Downloads.                                                                  *)

\* A step of one worker gives the job to no other worker, and to itself only by a claim.
LEMMA Owners ==
    ASSUME TypeOK, NEW w \in Workers, Work(w) \/ WorkerFault(w)
    PROVE  /\ \A v \in Workers \ {w} : Owns(v)' => Owns(v)
           /\ Owns(w)' => Owns(w) \/ Claim(w)
<1>r. /\ run \in [Workers -> Runs] /\ run[w] \in Runs /\ job \in Jobs
      /\ pk \in [Packages -> Rows] /\ \A p \in Packages : pk[p] \in Rows
    BY Types
<1>1. CASE List(w)
    BY <1>r, <1>1 DEF List, Owns, Jobs, history
<1>2. CASE Claim(w)
    BY <1>r, <1>2 DEF Claim, Owns, Jobs, history
<1>3. CASE Read(w)
    BY <1>r, <1>3 DEF Read, Owns, Jobs, history
<1>4. CASE MarkDoubted(w)
    BY <1>r, <1>4 DEF MarkDoubted, Transaction, Owns, Jobs, history
<1>5. CASE ShowUnknown(w)
    BY <1>r, <1>5 DEF ShowUnknown, Transaction, State, Owns, Jobs, history
<1>6. CASE LocalPackage(w)
    BY <1>r, <1>6 DEF LocalPackage, Transaction, Owns, Jobs, history
<1>7. CASE LocalDone(w)
    BY <1>r, <1>7 DEF LocalDone, Owns, Jobs, history
<1>8. CASE Reconcile(w)
    BY <1>r, <1>8 DEF Reconcile, Transaction, Owns, Jobs, history
<1>9. CASE UseCustody(w)
    BY <1>r, <1>9 DEF UseCustody, Owns, Jobs, history
<1>10. CASE Authenticate(w)
    BY <1>r, <1>10 DEF Authenticate, Owns, Jobs, history
<1>11. CASE AuthorityLost(w)
    BY <1>r, <1>11 DEF AuthorityLost, Owns, Jobs, history
<1>12. CASE Send(w)
    BY <1>r, <1>12 DEF Send, Transaction, Owns, Jobs, history
<1>13. CASE Submit(w)
    BY <1>r, <1>13 DEF Submit, Owns, Jobs, history
<1>14. CASE Resubmit(w)
    BY <1>r, <1>14 DEF Resubmit, Guarded, Owns, Jobs, history
<1>15. CASE Record(w)
    BY <1>r, <1>15 DEF Record, Transaction, Owns, Jobs, history
<1>16. CASE ShowWaiting(w)
    BY <1>r, <1>16 DEF ShowWaiting, Transaction, State, Owns, Jobs, history
<1>17. CASE RecordDoubt(w)
    BY <1>r, <1>17 DEF RecordDoubt, Transaction, Owns, Jobs, history
<1>18. CASE Verify(w)
    BY <1>r, <1>18 DEF Verify, Guarded, Owns, Jobs, history
<1>19. CASE Verified(w)
    BY <1>r, <1>19 DEF Verified, Transaction, Owns, Jobs, history
<1>20. CASE StartDownload(w)
    BY <1>r, <1>20 DEF StartDownload, Transaction, Owns, Jobs, history
<1>21. CASE Fetch(w)
    BY <1>r, <1>21 DEF Fetch, Guarded, Owns, Jobs, history
<1>22. CASE Store(w)
    BY <1>r, <1>22 DEF Store, Transaction, Owns, Jobs, history
<1>23. CASE Unfetched(w)
    BY <1>r, <1>23 DEF Unfetched, Transaction, Owns, Jobs, history
<1>24. CASE Downloaded(w)
    BY <1>r, <1>24 DEF Downloaded, Owns, Jobs, history
<1>25. CASE Finish(w)
    BY <1>r, <1>25 DEF Finish, Transaction, State, Owns, Jobs, history
<1>26. CASE Consume(w)
    BY <1>r, <1>26 DEF Consume, Owns, Jobs, history
<1>27. CASE ApplyResult(w)
    BY <1>r, <1>27 DEF ApplyResult, Transaction, Owns, Jobs, history
<1>28. CASE CancelJob(w)
    BY <1>r, <1>28 DEF CancelJob, Owns, Jobs, history
<1>29. CASE RecordFailure(w)
    BY <1>r, <1>29 DEF RecordFailure, Owns, Jobs, history
<1>30. CASE Release(w)
    BY <1>r, <1>30 DEF Release, Owns, Jobs, history
<1>31. CASE WorkerFault(w)
    BY <1>r, <1>31 DEF WorkerFault, Fault, Owns, Jobs, history
<1> QED
    BY <1>1, <1>2, <1>3, <1>4, <1>5, <1>6, <1>7, <1>8, <1>9, <1>10, <1>11, <1>12,
       <1>13, <1>14, <1>15, <1>16, <1>17, <1>18, <1>19, <1>20, <1>21, <1>22, <1>23,
       <1>24, <1>25, <1>26, <1>27, <1>28, <1>29, <1>30, <1>31 DEF Work

\* The packages are written by the owner of the job only.
LEMMA OwnerWrites ==
    ASSUME TypeOK, NEW w \in Workers, Work(w) \/ WorkerFault(w), ~Owns(w)
    PROVE  UNCHANGED <<pk, downloads>>
<1>r. /\ run \in [Workers -> Runs] /\ run[w] \in Runs /\ job \in Jobs
      /\ pk \in [Packages -> Rows] /\ \A p \in Packages : pk[p] \in Rows
    BY Types
<1>1. CASE List(w)
    BY <1>r, <1>1 DEF List, Fenced, history
<1>2. CASE Claim(w)
    BY <1>r, <1>2 DEF Claim, Fenced, history
<1>3. CASE Read(w)
    BY <1>r, <1>3 DEF Read, Fenced, history
<1>4. CASE MarkDoubted(w)
    BY <1>r, <1>4 DEF MarkDoubted, Transaction, Fenced, history
<1>5. CASE ShowUnknown(w)
    BY <1>r, <1>5 DEF ShowUnknown, Transaction, State, Fenced, history
<1>6. CASE LocalPackage(w)
    BY <1>r, <1>6 DEF LocalPackage, Transaction, Fenced, history
<1>7. CASE LocalDone(w)
    BY <1>r, <1>7 DEF LocalDone, Fenced, history
<1>8. CASE Reconcile(w)
    BY <1>r, <1>8 DEF Reconcile, Transaction, Fenced, history
<1>9. CASE UseCustody(w)
    BY <1>r, <1>9 DEF UseCustody, Fenced, history
<1>10. CASE Authenticate(w)
    BY <1>r, <1>10 DEF Authenticate, Fenced, history
<1>11. CASE AuthorityLost(w)
    BY <1>r, <1>11 DEF AuthorityLost, Fenced, history
<1>12. CASE Send(w)
    BY <1>r, <1>12 DEF Send, Transaction, Fenced, history
<1>13. CASE Submit(w)
    BY <1>r, <1>13 DEF Submit, Fenced, history
<1>14. CASE Resubmit(w)
    BY <1>r, <1>14 DEF Resubmit, Guarded, Fenced, history
<1>15. CASE Record(w)
    BY <1>r, <1>15 DEF Record, Transaction, Fenced, history
<1>16. CASE ShowWaiting(w)
    BY <1>r, <1>16 DEF ShowWaiting, Transaction, State, Fenced, history
<1>17. CASE RecordDoubt(w)
    BY <1>r, <1>17 DEF RecordDoubt, Transaction, Fenced, history
<1>18. CASE Verify(w)
    BY <1>r, <1>18 DEF Verify, Guarded, Fenced, history
<1>19. CASE Verified(w)
    BY <1>r, <1>19 DEF Verified, Transaction, Fenced, history
<1>20. CASE StartDownload(w)
    BY <1>r, <1>20 DEF StartDownload, Transaction, Fenced, history
<1>21. CASE Fetch(w)
    BY <1>r, <1>21 DEF Fetch, Guarded, Fenced, history
<1>22. CASE Store(w)
    BY <1>r, <1>22 DEF Store, Transaction, Fenced, history
<1>23. CASE Unfetched(w)
    BY <1>r, <1>23 DEF Unfetched, Transaction, Fenced, history
<1>24. CASE Downloaded(w)
    BY <1>r, <1>24 DEF Downloaded, Fenced, history
<1>25. CASE Finish(w)
    BY <1>r, <1>25 DEF Finish, Transaction, State, Fenced, history
<1>26. CASE Consume(w)
    BY <1>r, <1>26 DEF Consume, Fenced, history
<1>27. CASE ApplyResult(w)
    BY <1>r, <1>27 DEF ApplyResult, Transaction, Fenced, history
<1>28. CASE CancelJob(w)
    BY <1>r, <1>28 DEF CancelJob, Fenced, history
<1>29. CASE RecordFailure(w)
    BY <1>r, <1>29 DEF RecordFailure, Fenced, history
<1>30. CASE Release(w)
    BY <1>r, <1>30 DEF Release, Fenced, history
<1>31. CASE WorkerFault(w)
    BY <1>r, <1>31 DEF WorkerFault, Fault, Fenced, history
<1> QED
    BY <1>1, <1>2, <1>3, <1>4, <1>5, <1>6, <1>7, <1>8, <1>9, <1>10, <1>11, <1>12,
       <1>13, <1>14, <1>15, <1>16, <1>17, <1>18, <1>19, <1>20, <1>21, <1>22, <1>23,
       <1>24, <1>25, <1>26, <1>27, <1>28, <1>29, <1>30, <1>31 DEF Work

\* The steps that let no package wait, start no download and make no call.
LEMMA RowsKept ==
    ASSUME TypeOK, NEW w \in Workers, Work(w) \/ WorkerFault(w),
           ~Verified(w), ~StartDownload(w), ~Fetch(w)
    PROVE  /\ downloads' = downloads
           /\ \A p \in Packages :
                /\ pk'[p].attempts = pk[p].attempts
                /\ pk'[p].status \in {"pending", "absent"} => pk'[p].status = pk[p].status
<1>r. /\ run \in [Workers -> Runs] /\ run[w] \in Runs /\ job \in Jobs
      /\ pk \in [Packages -> Rows] /\ \A p \in Packages : pk[p] \in Rows
    BY Types
<1>1. CASE List(w)
    BY <1>r, <1>1 DEF List, history, Rows
<1>2. CASE Claim(w)
    BY <1>r, <1>2 DEF Claim, history, Rows
<1>3. CASE Read(w)
    BY <1>r, <1>3 DEF Read, history, Rows
<1>4. CASE MarkDoubted(w)
    BY <1>r, <1>4 DEF MarkDoubted, Transaction, history, Rows
<1>5. CASE ShowUnknown(w)
    BY <1>r, <1>5 DEF ShowUnknown, Transaction, State, history, Rows
<1>6. CASE LocalPackage(w)
  <2>1. PICK p, s, i : \/ pk' = pk
                       \/ s \notin {"pending", "absent"} /\ pk' = [pk EXCEPT ![p].status = s]
                       \/ pk' = [pk EXCEPT ![p].status = "processing", ![p].ingest = i]
    BY <1>6 DEF LocalPackage, Transaction, Interrupted
  <2>2. downloads' = downloads
    BY <1>6 DEF LocalPackage, Transaction, history
  <2>3. ASSUME NEW q \in Packages
        PROVE  /\ pk'[q].attempts = pk[q].attempts
               /\ pk'[q].status \in {"pending", "absent"} => pk'[q].status = pk[q].status
    <3>1. CASE pk'[q] = pk[q]
      BY <3>1
    <3>2. CASE s \notin {"pending", "absent"} /\ pk' = [pk EXCEPT ![p].status = s] /\ q = p
      <4>1. pk'[q] = [pk[q] EXCEPT !.status = s]
        BY <1>r, <3>2
      <4> QED
        BY <1>r, <3>2, <4>1, RowFields
    <3>3. CASE pk' = [pk EXCEPT ![p].status = "processing", ![p].ingest = i] /\ q = p
      <4>1. pk'[q] = [pk[q] EXCEPT !.status = "processing", !.ingest = i]
        BY <1>r, <3>3
      <4> QED
        BY <1>r, <4>1, RowFields
    <3> QED
      BY <1>r, <2>1, <3>1, <3>2, <3>3
  <2> QED
    BY <2>2, <2>3
<1>7. CASE LocalDone(w)
    BY <1>r, <1>7 DEF LocalDone, history, Rows
<1>8. CASE Reconcile(w)
  <2>1. CASE Fenced(w)
    <3>1. /\ downloads' = downloads
          /\ pk' = [p \in Packages |-> IF pk[p].ingest \in Settled
                                      THEN [pk[p] EXCEPT !.status = ResultOf(pk[p].ingest)] ELSE pk[p]]
      BY <1>8, <2>1 DEF Reconcile, Transaction, history
    <3>2. \A i : ResultOf(i) \notin {"pending", "absent"}
      BY DEF ResultOf
    <3> QED
      BY <1>r, <3>1, <3>2 DEF Rows
  <2> QED
    BY <1>8, <2>1 DEF Reconcile, Transaction, history
<1>9. CASE UseCustody(w)
    BY <1>r, <1>9 DEF UseCustody, history, Rows
<1>10. CASE Authenticate(w)
    BY <1>r, <1>10 DEF Authenticate, history, Rows
<1>11. CASE AuthorityLost(w)
    BY <1>r, <1>11 DEF AuthorityLost, history, Rows
<1>12. CASE Send(w)
    BY <1>r, <1>12 DEF Send, Transaction, history, Rows
<1>13. CASE Submit(w)
    BY <1>r, <1>13 DEF Submit, history, Rows
<1>14. CASE Resubmit(w)
    BY <1>r, <1>14 DEF Resubmit, Guarded, history, Rows
<1>15. CASE Record(w)
    BY <1>r, <1>15 DEF Record, Transaction, history, Rows
<1>16. CASE ShowWaiting(w)
    BY <1>r, <1>16 DEF ShowWaiting, Transaction, State, history, Rows
<1>17. CASE RecordDoubt(w)
    BY <1>r, <1>17 DEF RecordDoubt, Transaction, history, Rows
<1>18. CASE Verify(w)
    BY <1>r, <1>18 DEF Verify, Guarded, history, Rows
<1>19. CASE Store(w)
  <2>1. CASE Fenced(w)
    BY <1>19, <2>1, EndedRun DEF Store, Transaction, history
  <2> QED
    BY <1>19, <2>1 DEF Store, Transaction, history
<1>20. CASE Unfetched(w)
  <2>1. CASE Fenced(w)
    BY <1>20, <2>1, EndedRun DEF Unfetched, Transaction, history
  <2> QED
    BY <1>20, <2>1 DEF Unfetched, Transaction, history
<1>21. CASE Downloaded(w)
    BY <1>r, <1>21 DEF Downloaded, history, Rows
<1>22. CASE Finish(w)
    BY <1>r, <1>22 DEF Finish, Transaction, State, history, Rows
<1>23. CASE Consume(w)
    BY <1>r, <1>23 DEF Consume, history, Rows
<1>24. CASE ApplyResult(w)
    BY <1>r, <1>24 DEF ApplyResult, Transaction, history, Rows
<1>25. CASE CancelJob(w)
    BY <1>r, <1>25 DEF CancelJob, history, Rows
<1>26. CASE RecordFailure(w)
    BY <1>r, <1>26 DEF RecordFailure, history, Rows
<1>27. CASE Release(w)
    BY <1>r, <1>27 DEF Release, history, Rows
<1>28. CASE WorkerFault(w)
    BY <1>r, <1>28 DEF WorkerFault, Fault, history, Rows
<1> QED
    BY <1>1, <1>2, <1>3, <1>4, <1>5, <1>6, <1>7, <1>8, <1>9, <1>10, <1>11, <1>12,
       <1>13, <1>14, <1>15, <1>16, <1>17, <1>18, <1>19, <1>20, <1>21, <1>22, <1>23,
       <1>24, <1>25, <1>26, <1>27, <1>28 DEF Work

\* What the packages of an owner are to it: the ones in its list wait, and the one it is
\* about to ask for has been counted.
LEMMA DueKept ==
    ASSUME TypeOK, Due, asked' = asked, downloads' = downloads,
           \A p \in Packages :
               /\ pk'[p].attempts = pk[p].attempts
               /\ pk'[p].status \in {"pending", "absent"} => pk'[p].status = pk[p].status,
           \A v \in Workers : Owns(v)' /\ run'[v].pc \in Downloading =>
               /\ Owns(v) /\ run[v].pc \in Downloading
               /\ run'[v].pc = "fetch" => run[v].pc = "fetch" /\ run'[v].next = run[v].next
               /\ run'[v].pc = "fetch" => run[v].next \in Packages
               /\ run'[v].todo \subseteq run[v].todo /\ run[v].todo \subseteq Packages
               /\ \A p \in run'[v].todo : pk'[p].status = pk[p].status
    PROVE  Due'
<1>1. DownloadsAuthorized'
    BY DEF Due, DownloadsAuthorized
<1>2. \A p \in Packages : /\ pk'[p].status = "pending" => pk'[p].attempts <= asked'[p]
                          /\ pk'[p].status = "absent" => pk'[p].attempts = 0
    BY DEF Due
<1>3. ASSUME NEW v \in Workers, Owns(v)'
      PROVE  /\ run'[v].pc \in Downloading => \A p \in run'[v].todo : pk'[p].status = "pending"
             /\ run'[v].pc = "fetch" => downloads'[run'[v].next] < pk'[run'[v].next].attempts
  <2>1. CASE run'[v].pc \in Downloading
    BY <1>3, <2>1 DEF Due, Downloading, InHand
  <2> QED
    BY <2>1 DEF Downloading, InHand
<1> QED
    BY <1>1, <1>2, <1>3 DEF Due

\* Every step keeps what the downloads need.
LEMMA DueStep == TypeOK /\ Shaped /\ Due /\ [Next]_vars => Due'
<1> SUFFICES ASSUME TypeOK, Shaped, Due, [Next]_vars PROVE Due'
    OBVIOUS
<1>t. /\ job \in Jobs /\ run \in [Workers -> Runs] /\ \A v \in Workers : run[v] \in Runs
      /\ pk \in [Packages -> Rows] /\ \A p \in Packages : pk[p] \in Rows
      /\ downloads \in [Packages -> 0 .. 3] /\ asked \in [Packages -> 0 .. 2]
      /\ \A p \in Packages : /\ pk[p].attempts \in 0 .. 2 /\ downloads[p] \in 0 .. 3
                             /\ asked[p] \in 0 .. 2
  <2>1. /\ job \in Jobs /\ run \in [Workers -> Runs]
        /\ pk \in [Packages -> Rows]
        /\ downloads \in [Packages -> 0 .. 3] /\ asked \in [Packages -> 0 .. 2]
    BY Types
  <2> QED
    BY <2>1 DEF Rows
<1>s. \A v \in Workers : /\ run[v].todo \subseteq Packages
                         /\ run[v].pc \in InHand => run[v].next \in Packages \ run[v].todo
    BY <1>t DEF Shaped, Runs
<1>1. ASSUME NEW w \in Workers, Work(w) \/ WorkerFault(w) PROVE Due'
  <2>1. /\ \A v \in Workers \ {w} : run'[v] = run[v] /\ (Owns(v)' => Owns(v))
        /\ asked' = asked
        /\ ~Owns(w) => UNCHANGED <<pk, downloads>>
        /\ Owns(w)' => Owns(w) \/ Claim(w)
    BY <1>1, OwnRun, KeptByWorkers, Owners, OwnerWrites
  <2>2. \A v \in Workers \ {w} : Owns(v)' => pk' = pk /\ downloads' = downloads
    BY <2>1 DEF Owns
  <2>3. CASE Verified(w) /\ Fenced(w)
    <3>1. Owns(w) /\ \A v \in Workers \ {w} : ~Owns(v)'
      BY <2>1, <2>3 DEF Fenced, Owns
    <3>2. /\ run'[w].pc \in {"show_waiting", "start", "consume"}
          /\ run'[w].pc = "start" => \A p \in run'[w].todo : pk'[p].status = "pending"
          /\ \A p \in Packages :
               \/ pk'[p] = pk[p]
               \/ pk[p].status = "absent" /\ pk'[p].attempts = pk[p].attempts /\ pk'[p].status = "pending"
      <4>1. ASSUME NEW p \in Packages, pk'[p] = [pk[p] EXCEPT !.status = "pending"]
            PROVE  pk'[p].attempts = pk[p].attempts /\ pk'[p].status = "pending"
        BY <1>t, <4>1, RowFields
      <4> QED
        BY <2>3, <4>1, VerifiedEffect
    <3>3. downloads' = downloads
      BY <2>3, VerifiedEffect DEF history
    <3>4. DownloadsAuthorized'
      BY <2>1, <3>2, <3>3 DEF Due, DownloadsAuthorized
    <3>5. \A p \in Packages : /\ pk'[p].status = "pending" => pk'[p].attempts <= asked'[p]
                              /\ pk'[p].status = "absent" => pk'[p].attempts = 0
      BY <1>t, <2>1, <3>2 DEF Due
    <3> QED
      BY <3>1, <3>2, <3>4, <3>5 DEF Due, Downloading, InHand
  <2>4. CASE StartDownload(w) /\ Fenced(w)
    <3>1. Owns(w) /\ (\A v \in Workers \ {w} : ~Owns(v)') /\ run[w].pc = "start"
      BY <2>1, <2>4 DEF Fenced, Owns, StartDownload, Transaction
    <3>2. downloads' = downloads
      BY <2>4 DEF StartDownload, Transaction, history
    <3>3. PICK p \in run[w].todo :
             /\ p \in Packages
             /\ \/ /\ pk' = [pk EXCEPT ![p].status = "budget_exhausted"]
                   /\ run'[w].pc = "start" /\ run'[w].todo = run[w].todo \ {p}
                \/ /\ pk' = [pk EXCEPT ![p].status = "downloading", ![p].attempts = @ + 1]
                   /\ run'[w].pc = "fetch" /\ run'[w].next = p
                   /\ run'[w].todo = run[w].todo \ {p}
      BY <2>4, StartedRun
    <3>4. \A q \in run[w].todo : pk[q].status = "pending"
      BY <3>1 DEF Due, Downloading
    <3>5. \A q \in Packages \ {p} : pk'[q] = pk[q]
      BY <1>t, <3>3
    <3>6. CASE /\ pk' = [pk EXCEPT ![p].status = "budget_exhausted"]
               /\ run'[w].pc = "start" /\ run'[w].todo = run[w].todo \ {p}
      <4>1. pk'[p].status = "budget_exhausted" /\ pk'[p].attempts = pk[p].attempts
        BY <1>t, <3>3, <3>6 DEF Rows
      <4>2. \A q \in Packages :
               /\ pk'[q].attempts = pk[q].attempts
               /\ pk'[q].status \in {"pending", "absent"} => pk'[q].status = pk[q].status
        BY <3>5, <4>1
      <4>3. \A q \in run'[w].todo : pk'[q].status = pk[q].status
        BY <1>s, <3>5, <3>6
      <4> QED
        BY <1>s, <2>1, <3>1, <3>2, <3>6, <4>2, <4>3, DueKept DEF Downloading, InHand
    <3>7. CASE /\ pk' = [pk EXCEPT ![p].status = "downloading", ![p].attempts = @ + 1]
               /\ run'[w].pc = "fetch" /\ run'[w].next = p
               /\ run'[w].todo = run[w].todo \ {p}
      <4>1. pk'[p].status = "downloading" /\ pk'[p].attempts = pk[p].attempts + 1
        BY <1>t, <3>3, <3>7 DEF Rows
      <4>2. pk[p].attempts <= asked[p] /\ downloads[p] <= pk[p].attempts
        BY <3>3, <3>4 DEF Due, DownloadsAuthorized
      <4>3. downloads'[p] < pk'[p].attempts /\ pk'[p].attempts <= 1 + asked'[p]
        BY <1>t, <2>1, <3>2, <3>3, <4>1, <4>2
      <4>4. DownloadsAuthorized'
        BY <1>t, <2>1, <3>2, <3>3, <3>5, <4>1, <4>3 DEF Due, DownloadsAuthorized
      <4>5. \A q \in Packages : /\ pk'[q].status = "pending" => pk'[q].attempts <= asked'[q]
                                /\ pk'[q].status = "absent" => pk'[q].attempts = 0
        BY <2>1, <3>5, <4>1 DEF Due
      <4>6. \A q \in run'[w].todo : pk'[q].status = "pending"
        BY <1>s, <3>4, <3>5, <3>7
      <4> QED
        BY <3>1, <3>7, <4>3, <4>4, <4>5, <4>6 DEF Due
    <3> QED
      BY <3>3, <3>6, <3>7
  <2>5. CASE Fetch(w) /\ Fenced(w)
    <3>1. Owns(w) /\ \A v \in Workers \ {w} : ~Owns(v)'
      BY <2>1, <2>5 DEF Fenced, Owns
    <3>2. /\ run'[w].pc \in {"store", "unfetched"} /\ run[w].pc = "fetch"
          /\ run'[w].todo = run[w].todo
          /\ downloads' = [downloads EXCEPT ![run[w].next] = IF @ < 3 THEN @ + 1 ELSE @]
          /\ pk' = pk
      BY <2>5, FetchedRun
    <3>3. run[w].next \in Packages /\ downloads[run[w].next] < pk[run[w].next].attempts
      BY <1>s, <3>1, <3>2 DEF Due, InHand
    <3>4. downloads'[run[w].next] <= pk[run[w].next].attempts
      BY <1>t, <3>2, <3>3
    <3>5. DownloadsAuthorized'
      BY <1>t, <2>1, <3>2, <3>4 DEF Due, DownloadsAuthorized
    <3> QED
      BY <2>1, <3>1, <3>2, <3>5 DEF Due, Downloading, InHand
  <2>6. CASE (Store(w) \/ Unfetched(w)) /\ Fenced(w)
    <3>1. Owns(w) /\ \A v \in Workers \ {w} : ~Owns(v)'
      BY <2>1, <2>6 DEF Fenced, Owns
    <3>2. /\ run'[w].pc = "start" /\ run'[w].todo = run[w].todo /\ run[w].pc \in InHand
          /\ \A p \in Packages \ {run[w].next} : pk'[p] = pk[p]
          /\ \A p \in Packages : /\ pk'[p].attempts = pk[p].attempts
                                 /\ pk'[p].status \in {"pending", "absent"} => pk'[p].status = pk[p].status
      BY <2>6, EndedRun
    <3>3. downloads' = downloads
      BY <2>6 DEF Store, Unfetched, Transaction, history
    <3>4. \A p \in run'[w].todo : pk'[p].status = pk[p].status
      BY <1>s, <3>2
    <3> QED
      BY <1>s, <2>1, <3>1, <3>2, <3>3, <3>4, DueKept DEF Downloading
  <2>7. CASE /\ Verified(w) \/ StartDownload(w) \/ Fetch(w) \/ Store(w) \/ Unfetched(w)
             /\ ~Fenced(w)
    <3>1. pk' = pk /\ downloads' = downloads /\ run'[w].pc = "caught"
      BY <2>7, RunAfter DEF Verified, StartDownload, Fetch, Store, Unfetched,
         Transaction, Guarded, history
    <3> QED
      BY <1>s, <2>1, <3>1, DueKept DEF Downloading, InHand
  <2>8. CASE AuthorityLost(w) \/ WorkerFault(w)
    <3>1. pk' = pk /\ downloads' = downloads /\ job' = job
      BY <2>8 DEF AuthorityLost, WorkerFault, history
    <3>2. run'[w].pc \in Downloading =>
             /\ run'[w].pc = "unfetched" /\ run[w].pc \in {"fetch", "store"}
             /\ run'[w].next = run[w].next /\ run'[w].todo = run[w].todo
      <4>1. CASE Fails(w)
        BY <4>1, FailedRun
      <4>2. CASE run' = [run EXCEPT ![w] = Resting]
        BY <1>t, <4>2 DEF Resting, Downloading, InHand
      <4> QED
        BY <2>8, <4>1, <4>2 DEF AuthorityLost, WorkerFault
    <3>3. Owns(w)' => Owns(w)
      BY <3>1 DEF Owns
    <3> QED
      BY <1>s, <2>1, <3>1, <3>2, <3>3, DueKept DEF Downloading, InHand
  <2>9. CASE Submit(w)
    <3>1. pk' = pk /\ downloads' = downloads
      BY <2>9 DEF Submit
    <3>2. run'[w].pc \notin Downloading
      <4>1. run[w].pc \in {"submit", "submit_again"} => Handler(w) = "doubt"
        BY DEF Handler, InSubmission
      <4> QED
        BY <1>t, <2>9, <4>1, RunAfter DEF Submit, Goto, Runs, Downloading, InHand
    <3> QED
      BY <1>s, <2>1, <3>1, <3>2, DueKept DEF Downloading, InHand
  <2>10. CASE /\ ~Submit(w) /\ ~Verified(w) /\ ~StartDownload(w) /\ ~Fetch(w) /\ ~Store(w)
              /\ ~Unfetched(w) /\ ~AuthorityLost(w) /\ ~WorkerFault(w)
    <3>1. run'[w].pc \notin Downloading
      BY <1>1, <2>10, Aside
    <3>2. /\ downloads' = downloads
          /\ \A p \in Packages :
               /\ pk'[p].attempts = pk[p].attempts
               /\ pk'[p].status \in {"pending", "absent"} => pk'[p].status = pk[p].status
      BY <1>1, <2>10, RowsKept
    <3> QED
      BY <1>s, <2>1, <2>2, <3>1, <3>2, DueKept DEF Downloading, InHand
  <2> QED
    BY <2>3, <2>4, <2>5, <2>6, <2>7, <2>8, <2>9, <2>10
<1>2. CASE UNCHANGED vars
    BY <1>s, <1>2, DueKept DEF vars, history, Owns, Downloading, InHand
<1>3. CASE LeaseEnds \/ LeaseOverrun \/ Bind \/ Attach \/ Cancel
  <2>1. pk' = pk /\ downloads' = downloads /\ asked' = asked /\ run' = run
    BY <1>3 DEF LeaseEnds, LeaseOverrun, Bind, Attach, Cancel, history
  <2>2. \A v \in Workers : Owns(v)' => Owns(v)
    BY <1>t, <1>3 DEF LeaseEnds, LeaseOverrun, Bind, Attach, Cancel, Owns, Jobs
  <2> QED
    BY <1>s, <2>1, <2>2, DueKept DEF Downloading, InHand
<1>4. ASSUME NEW p \in Packages, RetryPackage(p) PROVE Due'
  <2>1. /\ pk[p].status \in {"failed", "download_unknown"} /\ run' = run /\ downloads' = downloads
        /\ \A v \in Workers : Owns(v)' => Owns(v)
    BY <1>t, <1>4 DEF RetryPackage, RetryAllowed, Owns, Jobs
  <2>2. /\ pk'[p].attempts = pk[p].attempts /\ \A q \in Packages \ {p} : pk'[q] = pk[q]
        /\ \/ asked' = asked /\ pk'[p].status = "stored"
           \/ /\ asked' = [asked EXCEPT ![p] = IF @ < 2 THEN @ + 1 ELSE @]
              /\ pk'[p].status = "pending"
    <3>1. CASE pk[p].down
      BY <1>t, <1>4, <3>1 DEF RetryPackage, Rows
    <3>2. CASE ~pk[p].down
      BY <1>t, <1>4, <3>2 DEF RetryPackage, Rows
    <3> QED
      BY <3>1, <3>2
  <2>3. \A v \in Workers : Owns(v)' /\ run'[v].pc \in Downloading => p \notin run[v].todo
    BY <2>1 DEF Due
  <2>4. CASE asked' = asked /\ pk'[p].status = "stored"
    <3>1. \A q \in Packages :
             /\ pk'[q].attempts = pk[q].attempts
             /\ pk'[q].status \in {"pending", "absent"} => pk'[q].status = pk[q].status
      BY <2>2, <2>4
    <3>2. \A v \in Workers : Owns(v)' /\ run'[v].pc \in Downloading =>
             \A q \in run'[v].todo : pk'[q].status = pk[q].status
      BY <1>s, <2>1, <2>2, <2>3
    <3> QED
      BY <1>s, <2>1, <2>4, <3>1, <3>2, DueKept DEF Downloading, InHand
  <2>5. CASE /\ asked' = [asked EXCEPT ![p] = IF @ < 2 THEN @ + 1 ELSE @]
             /\ pk'[p].status = "pending"
    <3>1. pk[p].attempts <= 1 + asked[p] /\ pk[p].attempts \in 0 .. 2 /\ asked[p] \in 0 .. 2
      BY <1>t DEF Due, DownloadsAuthorized
    <3>2. pk[p].attempts <= asked'[p] /\ asked'[p] >= asked[p] /\ asked'[p] \in 0 .. 2
      BY <1>t, <2>5, <3>1
    <3>3. \A q \in Packages \ {p} : asked'[q] = asked[q]
      BY <1>t, <2>5
    <3>4. DownloadsAuthorized'
      BY <1>t, <2>1, <2>2, <3>1, <3>2, <3>3 DEF Due, DownloadsAuthorized
    <3>5. \A q \in Packages : /\ pk'[q].status = "pending" => pk'[q].attempts <= asked'[q]
                              /\ pk'[q].status = "absent" => pk'[q].attempts = 0
      BY <2>2, <2>5, <3>2, <3>3 DEF Due
    <3>6. ASSUME NEW v \in Workers, Owns(v)'
          PROVE  /\ run'[v].pc \in Downloading => \A q \in run'[v].todo : pk'[q].status = "pending"
                 /\ run'[v].pc = "fetch" => downloads'[run'[v].next] < pk'[run'[v].next].attempts
      <4>1. Owns(v) /\ run'[v] = run[v]
        BY <2>1, <3>6
      <4>2. run[v].pc = "fetch" => /\ run[v].next \in Packages
                                   /\ pk'[run[v].next].attempts = pk[run[v].next].attempts
        BY <1>s, <2>2 DEF InHand
      <4> QED
        BY <1>s, <2>1, <2>2, <2>5, <4>1, <4>2 DEF Due
    <3> QED
      BY <3>4, <3>5, <3>6 DEF Due
  <2> QED
    BY <2>2, <2>4, <2>5
<1>5. ASSUME NEW p \in Packages, Ingest(p) PROVE Due'
  <2>1. /\ downloads' = downloads /\ asked' = asked /\ run' = run
        /\ \A v \in Workers : Owns(v)' => Owns(v)
    BY <1>5 DEF Ingest, history, Owns
  <2>2. PICK r : pk' = [pk EXCEPT ![p].ingest = r]
    BY <1>5 DEF Ingest
  <2>3. \A q \in Packages : pk'[q].attempts = pk[q].attempts /\ pk'[q].status = pk[q].status
    BY <1>t, <2>2 DEF Rows
  <2> QED
    BY <1>s, <2>1, <2>3, DueKept DEF Downloading, InHand
<1> QED
    BY <1>1, <1>2, <1>3, <1>4, <1>5 DEF Next, Surroundings

-----------------------------------------------------------------------------
(* The theorems.                                                               *)

\* The inductive invariant holds in every reachable state.
THEOREM Invariance == Spec => []IInv
<1>1. Init => IInv
  <2> SUFFICES ASSUME Init PROVE IInv
    OBVIOUS
  <2>1. \A w \in Workers : run[w] = Resting
    BY DEF Init
  <2>2. TypeOK
    <3>1. Resting \in Runs /\ NoPackage \in Rows
      BY BoundsAssumption DEF Resting, Runs, Places, Answers, Errors, NoPackage, Rows
    <3> QED
      BY <3>1, Types, BoundsAssumption DEF Init, Jobs, Statuses, Requests
  <2>3. Shaped
    BY <2>1 DEF Init, Shaped, Resting, InHand
  <2>4. Sent
    BY <2>1 DEF Init, Sent, SubmittedOnce, Calling, Resting
  <2>5. Due
    BY <2>1, WorkersAssumption DEF Init, Due, DownloadsAuthorized, NoPackage, Owns
  <2> QED
    BY <2>2, <2>3, <2>4, <2>5 DEF IInv
<1>2. IInv /\ [Next]_vars => IInv'
    BY TypeStep, ShapedStep, SentStep, DueStep DEF IInv
<1> QED
    BY <1>1, <1>2, PTL DEF Spec

\* Every part of the state keeps its type.
THEOREM TypeCorrect == Spec => []TypeOK
<1>1. IInv => TypeOK
    BY DEF IInv
<1> QED
    BY <1>1, Invariance, PTL

\* SAT is given one submission of a job at most, and as many download calls for a package
\* as the user asked for, whatever fails and however many workers run.
THEOREM AskedOnce == Spec => []SatIsAskedOnce
<1>1. IInv => SatIsAskedOnce
    BY DEF IInv, Sent, Due, SatIsAskedOnce
<1> QED
    BY <1>1, Invariance, PTL

=============================================================================
