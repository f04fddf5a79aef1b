-------------------------- MODULE MonthlyWorkspace --------------------------
(* One month of one taxpayer: the row of periods, the monthly workspace in     *)
(* which a member reviews and closes it, and the documents that take part in   *)
(* it, as workers publish them or the reconciler places them later.            *)
(*                                                                             *)
(* Every write of the API is a REPEATABLE READ transaction: its snapshot is    *)
(* taken by the first statement of run(), the period row is locked after that, *)
(* and everything read later is as old as the snapshot. An UPDATE of a row     *)
(* that changed since fails (40001). Workers run READ COMMITTED; inserting a   *)
(* participation locks its period FOR KEY SHARE, which waits for the API's FOR *)
(* UPDATE, and fires the trigger monthly_arrival.                              *)
EXTENDS Naturals, FiniteSets

CONSTANTS Editors,      \* browser instances of one member
          Requests,     \* writes the API has in hand at once
          Documents,    \* documents whose date falls in the month
          Reconcilers,  \* worker processes, each with its reconciliation cycle
          Nobody,
          Keys,         \* idempotency keys that clients send again
          Fresh,        \* a key that is sent once
          MaxVersion,   \* bound: version of the workspace
          MaxFaults     \* bound: failed, stalled and stopped reconciliations

ASSUME NobodyAssumption == Nobody \notin Editors \cup Documents \cup Reconcilers
ASSUME FreshAssumption == Fresh \notin Keys
ASSUME MonthlyBoundsAssumption == {MaxVersion, MaxFaults} \subseteq Nat

VARIABLES
    period,     \* status of the periods row, "none" before its year is created
    ws,         \* the monthly_workspaces row, with what its latest close keeps
    book,       \* the append-only rows: decisions, confirmations, operations
    parts,      \* documents with a row in period_cfdis
    tx,         \* the transaction of each request
    published,  \* where the publication of each document stands
    recon,      \* rows of cfdi_period_reconciliations
    intents,    \* documents with rows in cfdi_period_intents
    work,       \* the reconciliation cycle of each worker process
    applied,    \* history: times a key took effect, counted to 2
    displaced,  \* history: a write took effect that should not have
    faults

month == <<period, ws, book, parts>>
worker == <<published, recon, intents, work, faults>>
history == <<applied, displaced>>
vars == <<month, tx, worker, history>>

NoRow == "none"
Statuses == {"not_started", "preparation", "ready_to_close", "closed", "changes_detected",
             "reopened"}
Shut == {"closed", "changes_detected"}
\* A publication on its way, and two that were: of a document, and of one whose original
\* cannot be read again.
PublicationStates == {"absent", "unplaced", "placed", "published", "unrecoverable"}

Idle == [open |-> FALSE, seen |-> NoRow, behind |-> FALSE]
Quiet == [todo |-> {}, placing |-> Nobody]

\* Documents may be of the time before the reconciliation existed: published, with an
\* incident FISCAL_PERIOD_NOT_CONFIGURED and nothing else. The original of some of these
\* cannot be used any more: not found clean, too large, missing, altered, or without the
\* dates that were stored of it. Nothing here mends it.
Init ==
    /\ period \in {NoRow, "not_started"}
    /\ ws = [made |-> FALSE, version |-> 0, editor |-> Nobody, lease |-> "none",
             prepared |-> {}, close |-> {}]
    /\ book = [reviewed |-> [d \in Documents |-> FALSE], checked |-> FALSE, ops |-> {}]
    /\ parts = {} /\ intents = {} /\ faults = 0
    /\ tx = [r \in Requests |-> Idle]
    /\ published \in [Documents -> {"absent", "published", "unrecoverable"}]
    /\ recon = [d \in Documents |-> [status |-> NoRow, by |-> Nobody]]
    /\ work = [w \in Reconcilers |-> Quiet]
    /\ applied = [k \in Keys |-> 0] /\ displaced = FALSE

-----------------------------------------------------------------------------
(* Mutations of definitions below.                                             *)

\* The trigger wakes a prepared month and leaves a closed one.
ArrivedInReady(status) == IF status = "ready_to_close" THEN "preparation" ELSE status
\* A lease that is given up keeps its time limit.
GivenUpUntil(row) == [row EXCEPT !.editor = Nobody]
\* The write is not compared with the version its client has read.
UpToDateAnyway(r, expected) == TRUE
\* READ COMMITTED: nobody notices that the period row has changed.
PeriodUnnoticed == tx
\* The response is not stored.
RememberNothing(key) == {}
\* A reconciliation that failed is not tried again.
DueUnfailed(d) == recon[d].status \in {"legacy", "ready"} /\ recon[d].by = Nobody

-----------------------------------------------------------------------------
(* What a transaction sees, and the locks.                                     *)

View == [period |-> period, ws |-> ws, book |-> book, parts |-> parts]

\* snapshot(): the content of the month a member answers for. It is what closes keep
\* and, hashed, what a preparation remembers. Incidents and sources are in it as well: a
\* change of theirs can only refuse a close, which Refuse covers.
ContentOf(v) == [rows |-> [d \in v.parts |-> v.book.reviewed[d]],
                 checked |-> v.book.checked]

\* Transactions that have inserted a participation hold FOR KEY SHARE until they end.
Inserting == {d \in Documents : published[d] = "placed"}
             \cup ({work[w].placing : w \in Reconcilers} \ {Nobody})

\* What a commit does to a transaction that has its snapshot. If the period row changed, it
\* can only fail to lock it (40001): it is rolled back here. If the workspace row changed,
\* it can go on as long as it does not write to it.
PeriodChanged == [q \in Requests |-> Idle]
WorkspaceChanged == [q \in Requests |-> [tx[q] EXCEPT !.behind = tx[q].open]]

-----------------------------------------------------------------------------
(* Requests. What a request asks, for which editor and under which key, is     *)
(* chosen when it is written: until then nothing depends on it.                *)

\* run(): the first statement of the transaction takes its snapshot.
Begin(r) ==
    /\ ~tx[r].open /\ period # NoRow
    /\ tx' = [tx EXCEPT ![r] = [Idle EXCEPT !.open = TRUE, !.seen = View]]
    /\ UNCHANGED <<month, worker, history>>

\* An early return, an exception, 40001, 40P01, a broken unique index, a lost connection:
\* the transaction is rolled back. A replay, too, ends without an effect.
Refuse(r) ==
    /\ tx[r].open
    /\ tx' = [tx EXCEPT ![r] = Idle]
    /\ UNCHANGED <<month, worker, history>>

\* lease() looks at the row as the snapshot has it. Of a row that changed since, the lease
\* may have ended or not: nothing is written to that row.
Editing(r, e) == tx[r].seen.ws.editor = e /\ (tx[r].behind \/ ws.lease = "held")
UpToDate(r, expected) == tx[r].seen.ws.version = expected

\* replay(): no operation is stored under the key, as far as the snapshot knows; and the
\* unique index that remember() meets, which knows them all.
Unknown(r, key) == key \notin tx[r].seen.book.ops /\ key \notin book.ops
Remember(key) == {key} \ {Fresh}
Counted(key) == [k \in Keys |-> IF k = key /\ applied[k] < 2 THEN applied[k] + 1 ELSE applied[k]]

\* changed(): what was prepared is no longer what there is.
Changed(row) == [row EXCEPT !.version = @ + 1, !.prepared = {}]
Touched(status) == IF status \in {"not_started", "ready_to_close"} THEN "preparation" ELSE status

\* A transaction that updates the workspace row commits: the row is the one it has seen.
Commits(r, row, others) ==
    /\ ~tx[r].behind
    /\ ws' = row
    /\ tx' = [others EXCEPT ![r] = Idle]
    /\ UNCHANGED <<parts, worker>>

\* A write to the content of the month by e, whose client has read the version `expected`.
Writes(r, e, expected, row, status) ==
    /\ Editing(r, e) /\ UpToDate(r, expected) /\ ws.version < MaxVersion
    /\ period' = status
    /\ displaced' = (displaced \/ ws.editor # e \/ ws.version # expected)
    /\ Commits(r, row, PeriodChanged)

\* One under an idempotency key, which stores the key with the rows of b.
KeyedWrite(r, e, expected, key, row, b, status) ==
    /\ Unknown(r, key)
    /\ Writes(r, e, expected, row, status)
    /\ book' = [b EXCEPT !.ops = @ \cup Remember(key)]
    /\ applied' = Counted(key)

-----------------------------------------------------------------------------
(* The lease of the editor.                                                    *)

\* acquire() and takeover: the workspace is made when it is first edited.
Acquire(r, e) ==
    \E takeover \in BOOLEAN :
       LET row == tx[r].seen.ws
       IN  /\ row.made \/ ~ws.made
           /\ takeover \/ row.editor = e \/ ws.lease # "held"
           /\ Commits(r, [row EXCEPT !.made = TRUE, !.editor = e, !.lease = "held"], WorkspaceChanged)
           /\ UNCHANGED <<period, book, history>>

GivenUp(row) == [row EXCEPT !.editor = Nobody, !.lease = "none"]

\* renew(), which releases as well.
Renew(r, e) ==
    \E release \in BOOLEAN :
       /\ Editing(r, e) /\ UpToDate(r, ws.version)
       /\ Commits(r, IF release THEN GivenUp(tx[r].seen.ws) ELSE tx[r].seen.ws, WorkspaceChanged)
       /\ UNCHANGED <<period, book, history>>

\* 120 seconds pass without a renewal.
EditLeaseEnds ==
    /\ ws.lease = "held"
    /\ ws' = [ws EXCEPT !.lease = "lapsed"]
    /\ UNCHANGED <<period, book, parts, tx, worker, history>>

-----------------------------------------------------------------------------
(* Review, close and reopening.                                                *)

\* A review, a confirmation or an annotation of a month that is open. The version of the
\* row it is over is compared as well: the version of the workspace covers it.
Edits(r, e, expected, key, b) ==
    /\ tx[r].seen.period \notin Shut
    /\ KeyedWrite(r, e, expected, key, Changed(tx[r].seen.ws), b, Touched(period))

\* decision(), and bulk() of which something applies: a review given or taken back.
Decide(r, e, expected, key) ==
    \E D \in SUBSET tx[r].seen.parts, reviewed \in BOOLEAN :
       /\ D # {}
       /\ Edits(r, e, expected, key, [book EXCEPT !.reviewed =
              [d \in Documents |-> IF d \in D THEN reviewed ELSE @[d]]])

\* bulk() that applies nothing, a preview or one whose items fail: the result is stored, no
\* row of the month is written, and so nothing is compared with the snapshot.
BulkOfNothing(r, e, expected, key) ==
    /\ Editing(r, e) /\ UpToDate(r, expected) /\ Unknown(r, key)
    /\ tx[r].seen.period \notin Shut
    /\ book' = [book EXCEPT !.ops = @ \cup Remember(key)]
    /\ applied' = Counted(key)
    /\ tx' = [tx EXCEPT ![r] = Idle]
    /\ UNCHANGED <<period, ws, parts, worker, displaced>>

\* confirmChecklist(): a confirmation given or taken back.
Confirm(r, e, expected, key) ==
    \E confirmed \in BOOLEAN :
       /\ Edits(r, e, expected, key, [book EXCEPT !.checked = confirmed])

\* manageIncident() and linkSource().
Annotate(r, e, expected, key) ==
    Edits(r, e, expected, key, book)

\* closeChecks(): every participation reviewed, every confirmation given. What it asks of
\* sources and incidents may refuse a request at any time.
Complete(v) == v.book.checked /\ \A d \in v.parts : v.book.reviewed[d]

PrepareClose(r, e, expected) ==
    LET v == tx[r].seen
    IN  /\ v.period \notin Shut /\ Complete(v)
        /\ Writes(r, e, expected, [Changed(v.ws) EXCEPT !.prepared = {ContentOf(v)}],
                  "ready_to_close")
        /\ UNCHANGED <<book, applied>>

Close(r, e, expected, key) ==
    LET v == tx[r].seen
    IN  /\ v.period = "ready_to_close" /\ Complete(v)
        /\ v.ws.prepared = {ContentOf(v)}
        /\ KeyedWrite(r, e, expected, key,
                      [Changed(v.ws) EXCEPT !.close = {ContentOf(v)}], book, "closed")

Reopen(r, e, expected, key) ==
    /\ tx[r].seen.period \in Shut
    /\ KeyedWrite(r, e, expected, key, Changed(tx[r].seen.ws), book, "reopened")

\* The period row is locked, FOR UPDATE, which waits for the locks of others; then all is
\* written and committed. Nobody else can write what is read or written in between.
Write(r) ==
    /\ tx[r].open /\ Inserting = {}
    /\ \E e \in Editors :
       \/ Acquire(r, e) \/ Renew(r, e)
       \/ \E expected \in 0 .. ws.version :
             \/ PrepareClose(r, e, expected)
             \/ \E key \in Keys \cup {Fresh} :
                   \/ Decide(r, e, expected, key) \/ BulkOfNothing(r, e, expected, key)
                   \/ Confirm(r, e, expected, key) \/ Annotate(r, e, expected, key)
                   \/ Close(r, e, expected, key) \/ Reopen(r, e, expected, key)

-----------------------------------------------------------------------------
(* Documents arrive.                                                           *)

\* createYear(): the twelve periods of the year.
CreateYear ==
    /\ period = NoRow
    /\ period' = "not_started"
    /\ UNCHANGED <<ws, book, parts, tx, worker, history>>

\* monthly_arrival(), AFTER INSERT ON period_cfdis, once the foreign key has its lock.
Arrived(status) == IF status = "closed" THEN "changes_detected"
                   ELSE IF status = "ready_to_close" THEN "preparation" ELSE status

\* The transaction that placed d commits.
Arrives(d) ==
    /\ parts' = parts \cup {d}
    /\ period' = Arrived(period)
    /\ tx' = IF Arrived(period) = period THEN tx ELSE PeriodChanged
    /\ UNCHANGED <<ws, book, history>>

\* insertPeriodParticipation(): the period is looked up, and taken when there is one.
Publish(d) ==
    /\ published[d] = "absent"
    /\ published' = [published EXCEPT ![d] = IF period = NoRow THEN "unplaced" ELSE "placed"]
    /\ UNCHANGED <<month, tx, recon, intents, work, faults, history>>

PublicationCommits(d) ==
    /\ published[d] \in {"unplaced", "placed"}
    /\ published' = [published EXCEPT ![d] = "published"]
    /\ recon' = [recon EXCEPT ![d].status = "ready"]
    /\ intents' = intents \cup {d}
    /\ IF published[d] = "placed" THEN Arrives(d) ELSE UNCHANGED <<month, tx, history>>
    /\ UNCHANGED <<work, faults>>

PublicationFails(d) ==
    /\ published[d] \in {"unplaced", "placed"} /\ faults < MaxFaults
    /\ published' = [published EXCEPT ![d] = "absent"]
    /\ faults' = faults + 1
    /\ UNCHANGED <<month, tx, recon, intents, work, history>>

-----------------------------------------------------------------------------
(* The reconciler.                                                             *)

\* claim_monthly_reconciliation() enrols the documents that have an incident and no row.
IsPublished(d) == published[d] \in {"published", "unrecoverable"}
Legacy(d) == IsPublished(d) /\ recon[d].status = NoRow
Due(d) == recon[d].status \in {"legacy", "ready", "failed"} /\ recon[d].by = Nobody

\* It takes all that are due, which are fewer here than its limit of 25. Waiting times
\* are passed over: the next attempt may always have come.
ClaimDue(w) ==
    LET due == {d \in Documents : Legacy(d) \/ Due(d)}
    IN  /\ work[w] = Quiet /\ due # {}
        /\ recon' = [d \in Documents |->
               IF d \notin due THEN recon[d]
               ELSE [status |-> IF Legacy(d) THEN "legacy" ELSE recon[d].status, by |-> w]]
        /\ work' = [work EXCEPT ![w].todo = due]
        /\ UNCHANGED <<month, tx, published, intents, faults, history>>

\* The token is the one of the claim and its 60 seconds are not over.
Holds(w, d) == recon[d].by = w

Done(w, d) == work' = [work EXCEPT ![w].placing = Nobody, ![w].todo = @ \ {d}]

\* recoverLegacy(): the original is read and parsed again, and its intents stored.
NeedsRecovery(d) == recon[d].status \in {"legacy", "failed"} /\ d \notin intents
RecoverLegacy(w, d) ==
    /\ d \in work[w].todo /\ work[w].placing = Nobody
    /\ Holds(w, d) /\ NeedsRecovery(d) /\ published[d] # "unrecoverable"
    /\ recon' = [recon EXCEPT ![d].status = "ready"]
    /\ intents' = intents \cup {d}
    /\ UNCHANGED <<month, tx, published, work, faults, history>>

\* The claim fails, if the worker still holds it, and falls due again.
MarkFailed(w, d) ==
    /\ recon' = [recon EXCEPT ![d] = IF Holds(w, d) THEN [status |-> "failed", by |-> Nobody]
                                     ELSE @]
    /\ Done(w, d)

\* It throws, and will throw on every attempt.
RecoveryFails(w, d) ==
    /\ d \in work[w].todo /\ work[w].placing = Nobody
    /\ NeedsRecovery(d) /\ published[d] = "unrecoverable"
    /\ MarkFailed(w, d)
    /\ UNCHANGED <<month, tx, published, intents, faults, history>>

\* resolveMonthlyClaim(): the claim is checked and its row locked, and the participation
\* inserted if its period exists.
Place(w, d) ==
    /\ d \in work[w].todo /\ work[w].placing = Nobody
    /\ Holds(w, d) /\ ~NeedsRecovery(d)
    /\ period # NoRow /\ d \notin parts
    /\ work' = [work EXCEPT ![w].placing = d]
    /\ UNCHANGED <<month, tx, published, recon, intents, faults, history>>

\* What remains decides the status.
ResolvedAs(d, placed) == IF d \in placed THEN "resolved" ELSE "ready"

Resolve(w, d) ==
    /\ d \in work[w].todo
    /\ \/ work[w].placing = d /\ Arrives(d)
       \/ /\ work[w].placing = Nobody /\ Holds(w, d) /\ ~NeedsRecovery(d)
          /\ period = NoRow \/ d \in parts
          /\ UNCHANGED <<month, tx, history>>
    /\ recon' = [recon EXCEPT ![d] = [status |-> ResolvedAs(d, parts'), by |-> Nobody]]
    /\ Done(w, d)
    /\ UNCHANGED <<published, intents, faults>>

\* The claim was lost: nothing is written.
Skip(w, d) ==
    /\ d \in work[w].todo /\ work[w].placing = Nobody /\ ~Holds(w, d)
    /\ Done(w, d)
    /\ UNCHANGED <<month, tx, published, recon, intents, faults, history>>

\* Another exception while a claim is worked on.
ClaimFails(w, d) ==
    /\ d \in work[w].todo /\ work[w].placing \in {d, Nobody} /\ faults < MaxFaults
    /\ MarkFailed(w, d)
    /\ faults' = faults + 1
    /\ UNCHANGED <<month, tx, published, intents, history>>

\* The process ends, or that exception handler fails as well: the claims are left alone.
Stops(w) ==
    /\ work[w] # Quiet /\ faults < MaxFaults
    /\ work' = [work EXCEPT ![w] = Quiet]
    /\ faults' = faults + 1
    /\ UNCHANGED <<month, tx, published, recon, intents, history>>

Abandoned(d) == recon[d].by # Nobody /\ d \notin work[recon[d].by].todo

\* The 60 seconds of a claim end: of one nobody works on, or, a fault, of one whose worker
\* is slow. A claim whose row is locked can be taken by nobody.
ClaimLapses(d) ==
    /\ recon[d].by # Nobody
    /\ work[recon[d].by].placing # d
    /\ \/ Abandoned(d) /\ UNCHANGED faults
       \/ ~Abandoned(d) /\ faults < MaxFaults /\ faults' = faults + 1
    /\ recon' = [recon EXCEPT ![d].by = Nobody]
    /\ UNCHANGED <<month, tx, published, intents, work, history>>

Reconcile(w) ==
    \/ ClaimDue(w)
    \/ \E d \in Documents : RecoverLegacy(w, d) \/ RecoveryFails(w, d)
                            \/ Place(w, d) \/ Resolve(w, d) \/ Skip(w, d)

-----------------------------------------------------------------------------
Request(r) ==
    Begin(r) \/ Write(r) \/ Refuse(r)

Next ==
    \/ \E r \in Requests : Request(r)
    \/ \E d \in Documents : Publish(d) \/ PublicationCommits(d) \/ PublicationFails(d)
                            \/ ClaimLapses(d)
    \/ \E w \in Reconcilers : Reconcile(w) \/ Stops(w) \/ \E d \in Documents : ClaimFails(w, d)
    \/ EditLeaseEnds \/ CreateYear

\* Publications end, each worker runs its reconciliation cycle, and a claim nobody works on
\* runs out. Nothing is asked of the members.
Fairness ==
    /\ \A d \in Documents : WF_vars(PublicationCommits(d))
                            /\ WF_vars(Abandoned(d) /\ ClaimLapses(d))
    /\ \A w \in Reconcilers : WF_vars(Reconcile(w))

Spec == Init /\ [][Next]_vars
FairSpec == Spec /\ Fairness

-----------------------------------------------------------------------------
Contents == [rows : UNION {[D -> BOOLEAN] : D \in SUBSET Documents},
             checked : BOOLEAN]

\* Every part of the state keeps its type; the columns of a lease are set or null together.
TypeOK ==
    /\ period \in Statuses \cup {NoRow}
    /\ ws.made \in BOOLEAN /\ ws.version \in 0 .. MaxVersion
    /\ ws.editor \in Editors \cup {Nobody} /\ ws.lease \in {"none", "held", "lapsed"}
    /\ (ws.editor = Nobody) = (ws.lease = "none")
    /\ \A kept \in {ws.prepared, ws.close} : kept \subseteq Contents /\ Cardinality(kept) <= 1
    /\ book \in [reviewed : [Documents -> BOOLEAN], checked : BOOLEAN, ops : SUBSET Keys]
    /\ parts \subseteq Documents /\ intents \subseteq Documents
    /\ faults \in 0 .. MaxFaults
    /\ \A r \in Requests : {tx[r].open, tx[r].behind} \subseteq BOOLEAN
    /\ published \in [Documents -> PublicationStates]
    /\ recon \in [Documents -> [status : {NoRow, "legacy", "ready", "resolved", "failed"},
                                by : Reconcilers \cup {Nobody}]]
    /\ work \in [Reconcilers -> [todo : SUBSET Documents, placing : Documents \cup {Nobody}]]
    /\ applied \in [Keys -> 0 .. 2] /\ displaced \in BOOLEAN

\* A month that reads closed is as its last close says: the same participations, with the
\* same decisions, and the same confirmations. What arrives is in the cut, or the month
\* says that there are changes, whatever was under way at the moment of the close.
ClosedIsTheCut ==
    period = "closed" =>
        \E cut \in ws.close : cut.rows = ContentOf(View).rows /\ cut.checked = book.checked

\* What a write changes of the month, it changes for the editor the row names,
\* over the version that editor had read: who was displaced or
\* looks at an old version changes nothing.
WritesAreCurrent == ~displaced

\* However often a request is sent, at once or again, its key takes effect once.
OneEffectPerKey == \A k \in Keys : applied[k] <= 1

\* The month implements MonthlyLedger: requests that decide on snapshots, displaced or
\* resent, and workers that place documents one row at a time do nothing to it that one
\* member after the other, with the month as it is before him, could not do.
Ledger == INSTANCE MonthlyLedger WITH
    status   <- period,
    members  <- parts,
    reviewed <- {d \in Documents : book.reviewed[d]},
    checked  <- book.checked,
    prepared <- IF period = "ready_to_close" THEN ws.prepared ELSE {},
    kept     <- ws.close,
    version  <- ws.version,
    effects  <- applied

ImplementsMonthlyLedger == Ledger!Spec

\* A document that is published, before the year exists, while it is created or after,
\* ends in its month and resolved, whatever stops or fails on the way: one of the time
\* before the reconciliation as well, as long as its original can be read.
\* (MonthlyReconciliationService.reconcile, recoverLegacy)
EveryDocumentArrives ==
    \A d \in Documents :
        (published[d] = "published" /\ period # NoRow)
            ~> (d \in parts /\ recon[d].status = "resolved")
=============================================================================
