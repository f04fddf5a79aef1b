-------------------------- MODULE ArchiveIngestion --------------------------
(***************************************************************************)
(* A ZIP archive from its admitted job to the deletion of its bytes: the   *)
(* executions that scan, extract and publish its entries, the manual       *)
(* retries of its job, the reconciler, the counters of a job with their    *)
(* dirty marker, and the cleaner of objects nothing refers to.             *)
(*                                                                         *)
(* An action is one committed transaction or one storage call.  The queue  *)
(* is the one IngestionJobs details; here an execution ends as soon as it  *)
(* is settled, and failed_retryable, once due, is queued.                  *)
(*                                                                         *)
(* Time is abstracted: a retention that is set may have elapsed, and so    *)
(* may the orphan grace of an object whose job has no execution.  Both     *)
(* outlast any one execution (they are of an hour, a day and more).        *)
(***************************************************************************)
EXTENDS Integers, FiniteSets

CONSTANTS
    First,         \* the job the upload was confirmed with
    Retries,       \* the manual retries of it
    Execs,         \* executions of the workers, one lease token each
    LastEntry,     \* entries of the archive
    Contents,      \* what an entry may hold
    Documents,     \* the contents that parse as a CFDI of the legal entity
    Uuids, UuidOf, \* fiscal UUIDs and the one of each document
    Archives,      \* the archives that may be uploaded
    None,          \* SQL NULL
    Root,          \* the stored object of the archive
    MaxRetries,    \* WORKER_MAX_RETRIES
    MaxReleases,   \* bound on shutdowns in the middle of an execution
    MaxFailures    \* bound on failures of the cleaner

Jobs    == {First} \cup Retries
Entries == 1..LastEntry
Objects == {Root} \cup (Jobs \X Entries)

ASSUME EntriesAssumption == LastEntry \in Nat \ {0}
ASSUME DocumentsAssumption ==
    /\ Documents \subseteq Contents
    /\ {"invalid", "infected", "unsupported"} \subseteq Contents
    /\ Documents \cap {"invalid", "infected", "unsupported"} = {}
    /\ UuidOf \in [Documents -> Uuids]
ASSUME ArchivesAssumption ==
    Archives \subseteq [class : [Entries -> Contents],
                        corruptAt : Entries \cup {0, None}]
ASSUME NullAssumption ==
    /\ None \notin Execs \cup Objects \cup Jobs \cup Int
    /\ Root \notin Jobs \X Entries
    /\ First \notin Retries
ASSUME BoundsAssumption == {MaxRetries, MaxReleases, MaxFailures} \subseteq Nat

VARIABLES
    archive,    \* the bytes: the class of each entry, and where reading fails
    status,     \* ingestion_jobs.status
    owner,      \* locked_by
    leaseLive,  \* lease_expires_at > clock_timestamp()
    retries,    \* automatic_retry_count
    releases,   \* shutdown releases of each job
    item,       \* ingestion_items: its status while open, then its result
    counters,   \* the counters of the job row
    dirty,      \* counters_reconciled_at is NULL
    life,       \* stored_objects.lifecycle_state
    bytes,      \* whether storage holds the object's bytes
    asked,      \* cleanup_requested_at is set
    infected,   \* the root's malware_scan_status
    cfdi,       \* cfdis: the source object of each fiscal UUID
    pc,         \* where each execution is
    work,       \* its job
    at,         \* the entry it is at
    sweep,      \* the cleaner: where it is and its object
    sweeps      \* crashes of the cleaner

jobVars  == <<status, owner, leaseLive, retries, releases>>
itemVars == <<item, counters, dirty>>
objVars  == <<life, bytes, asked, infected, cfdi>>
execVars == <<pc, work, at>>
vars == <<archive, jobVars, itemVars, objVars, execVars, sweep, sweeps>>

InProgress == {"processing", "cancel_requested"}
Active     == {"queued"} \cup InProgress
Settled    == {"completed", "completed_with_issues", "failed_final", "cancelled"}
Status     == {"absent"} \cup Active \cup Settled

OpenItem   == {"pending", "processing"}
Results    == {"incorporated", "duplicate", "invalid", "unsupported",
               "internal_error"}
ItemState  == {"none"} \cup OpenItem \cup Results

\* Lifecycle states of an object whose bytes and hash are recorded.
Usable     == {"uploaded", "quarantined", "available"}
Lifecycle  == {"none", "pending_upload", "rejected", "deleted"} \cup Usable

Handling   == {"load", "scan", "inspect", "reject", "reserve", "extract",
               "record", "parse", "xml", "publish", "completion"}
Failures   == {"threw_retryable", "threw_final"}
Control    == {"idle", "returned"} \cup Handling \cup Failures

\* An entry gets an object only if it can be an XML.
Processable(e) == archive.class[e] # "unsupported"

\* The jobs that read an object, and whether one of them is active.
Reads(j, o)     == o = Root \/ \E e \in Entries : o = <<j, e>>
InActiveUse(o)  == \E j \in Jobs : status[j] \in Active /\ Reads(j, o)
InExecution(o)  == \E x \in Execs : pc[x] # "idle" /\ Reads(work[x], o)

\* An incident is open on the objects rejected as invalid, for ever: nothing
\* in the program closes one.
Incident(o) == \E j \in Jobs, e \in Entries :
                  o = <<j, e>> /\ item[j][e] = "invalid"

Tally(f) == [s \in ItemState \ {"none"} |->
                Cardinality({e \in Entries : f[e] = s})]
OpenItems(j) == \E e \in Entries : item[j][e] \in OpenItem
HasIssues(j) == \E e \in Entries :
                   item[j][e] \in {"invalid", "unsupported", "internal_error"}

NoSweep == [pc |-> "idle", object |-> Root]

TypeOK ==
    /\ archive \in Archives
    /\ status \in [Jobs -> Status]
    /\ owner \in [Jobs -> Execs \cup {None}]
    /\ leaseLive \in [Jobs -> BOOLEAN]
    /\ retries \in [Jobs -> Nat]
    /\ releases \in [Jobs -> Nat]
    /\ item \in [Jobs -> [Entries -> ItemState]]
    /\ counters \in [Jobs -> [ItemState \ {"none"} -> Nat]]
    /\ dirty \in [Jobs -> BOOLEAN]
    /\ life \in [Objects -> Lifecycle]
    /\ bytes \in [Objects -> BOOLEAN]
    /\ asked \in [Objects -> BOOLEAN]
    /\ infected \in BOOLEAN
    /\ cfdi \in [Uuids -> Objects \cup {None}]
    /\ pc \in [Execs -> Control]
    /\ work \in [Execs -> Jobs]
    /\ at \in [Execs -> Entries]
    /\ sweep \in [pc : {"idle", "listed", "claimed", "deleting"},
                  object : Objects]
    /\ sweeps \in Nat

\* The upload is confirmed and its job admitted; createJob inserts the row
\* with its counters at zero and not yet reconciled.
Init ==
    /\ archive \in Archives
    /\ status = [j \in Jobs |-> IF j = First THEN "queued" ELSE "absent"]
    /\ owner = [j \in Jobs |-> None]
    /\ leaseLive = [j \in Jobs |-> FALSE]
    /\ retries = [j \in Jobs |-> 0]
    /\ releases = [j \in Jobs |-> 0]
    /\ item = [j \in Jobs |-> [e \in Entries |-> "none"]]
    /\ counters = [j \in Jobs |-> Tally(item[j])]
    /\ dirty = [j \in Jobs |-> TRUE]
    /\ life = [o \in Objects |-> IF o = Root THEN "uploaded" ELSE "none"]
    /\ bytes = [o \in Objects |-> o = Root]
    /\ asked = [o \in Objects |-> FALSE]
    /\ infected = FALSE
    /\ cfdi = [u \in Uuids |-> None]
    /\ pc = [x \in Execs |-> "idle"]
    /\ work = [x \in Execs |-> First]
    /\ at = [x \in Execs |-> 1]
    /\ sweep = NoSweep
    /\ sweeps = 0

-----------------------------------------------------------------------------
(***************************************************************************)
(* The queue.                                                              *)
(***************************************************************************)

Owns(x)  == pc[x] # "idle" /\ owner[work[x]] = x /\ leaseLive[work[x]]
Fence(x) == Owns(x) /\ status[work[x]] = "processing"

\* An execution that throws is at no entry, and one that ends has no job.
Goto(x, label) ==
    /\ pc' = [pc EXCEPT ![x] = label]
    /\ work' = [work EXCEPT ![x] = IF label = "idle" THEN First ELSE @]
    /\ at' = [at EXCEPT ![x] = IF label \in {"idle"} \cup Failures THEN 1 ELSE @]
\* The next entry, or the first entry of the next phase.
\* (A variant of a definition precedes it, named for what it gets wrong: each breaks a
\* property below.)
AdvancePast(x, here, next) ==
    /\ pc' = [pc EXCEPT ![x] = IF at[x] = LastEntry THEN next ELSE here]
    /\ at' = [at EXCEPT ![x] = IF @ > LastEntry THEN 1 ELSE @ + 1]
    /\ UNCHANGED work
Advance(x, here, next) ==
    /\ pc' = [pc EXCEPT ![x] = IF at[x] = LastEntry THEN next ELSE here]
    /\ at' = [at EXCEPT ![x] = IF @ = LastEntry THEN 1 ELSE @ + 1]
    /\ UNCHANGED work

Unlock(j) == /\ owner' = [owner EXCEPT ![j] = None]
             /\ leaseLive' = [leaseLive EXCEPT ![j] = FALSE]

Claim(x, j) ==
    /\ pc[x] = "idle"
    /\ status[j] = "queued"
    /\ status' = [status EXCEPT ![j] = "processing"]
    /\ owner' = [owner EXCEPT ![j] = x]
    /\ leaseLive' = [leaseLive EXCEPT ![j] = TRUE]
    /\ pc' = [pc EXCEPT ![x] = "load"]
    /\ work' = [work EXCEPT ![x] = j]
    /\ at' = [at EXCEPT ![x] = 1]
    /\ UNCHANGED <<archive, retries, releases, itemVars, objVars, sweep, sweeps>>

\* What tr_finalize_manual_zip_items leaves of the items of a settled job.
ClosePending(j) == [e \in Entries |-> IF item[j][e] = "pending"
                                      THEN "internal_error" ELSE item[j][e]]
CloseItems(j) == [e \in Entries |-> IF item[j][e] \in OpenItem
                                    THEN "internal_error" ELSE item[j][e]]

\* The trigger runs before the update of the job row.  If it closes an item
\* of a job whose counters are marked as reconciled, the trigger on the items
\* clears the marker in that same job row, and PostgreSQL rejects the outer
\* update: the transaction rolls back.
FinalizeRaises(j) == OpenItems(j) /\ ~dirty[j]

\* A terminal transition with its trigger.
SettleAs(j, s) ==
    /\ ~FinalizeRaises(j)
    /\ status' = [status EXCEPT ![j] = s]
    /\ item' = [item EXCEPT ![j] = CloseItems(j)]
    /\ counters' = [counters EXCEPT ![j] = Tally(CloseItems(j))]
    /\ dirty' = [dirty EXCEPT ![j] = FALSE]

Complete(x) ==
    LET j == work[x] IN
    /\ pc[x] = "returned"
    /\ Fence(x)
    /\ SettleAs(j, IF HasIssues(j) THEN "completed_with_issues" ELSE "completed")
    /\ Unlock(j)
    /\ Goto(x, "idle")
    /\ UNCHANGED <<archive, retries, releases, objVars, sweep, sweeps>>

AcknowledgeCancel(x) ==
    /\ pc[x] \in {"returned"} \cup Failures
    /\ Owns(x)
    /\ status[work[x]] = "cancel_requested"
    /\ SettleAs(work[x], "cancelled")
    /\ Unlock(work[x])
    /\ Goto(x, "idle")
    /\ UNCHANGED <<archive, retries, releases, objVars, sweep, sweeps>>

FailFinal(x) ==
    /\ \/ pc[x] = "threw_final"
       \/ pc[x] = "threw_retryable" /\ retries[work[x]] >= MaxRetries
    /\ Fence(x)
    /\ SettleAs(work[x], "failed_final")
    /\ Unlock(work[x])
    /\ Goto(x, "idle")
    /\ UNCHANGED <<archive, retries, releases, objVars, sweep, sweeps>>

ScheduleRetry(x) ==
    LET j == work[x] IN
    /\ pc[x] = "threw_retryable"
    /\ Fence(x)
    /\ retries[j] < MaxRetries
    /\ status' = [status EXCEPT ![j] = "queued"]
    /\ retries' = [retries EXCEPT ![j] = @ + 1]
    /\ Unlock(j)
    /\ Goto(x, "idle")
    /\ UNCHANGED <<archive, releases, itemVars, objVars, sweep, sweeps>>

\* A shutdown aborts the handler, and the job is released at no charge.
Release(x) ==
    LET j == work[x] IN
    /\ pc[x] \in Handling
    /\ Fence(x)
    /\ releases[j] < MaxReleases
    /\ status' = [status EXCEPT ![j] = "queued"]
    /\ releases' = [releases EXCEPT ![j] = @ + 1]
    /\ Unlock(j)
    /\ Goto(x, "idle")
    /\ UNCHANGED <<archive, retries, itemVars, objVars, sweep, sweeps>>

\* The settling transaction does not commit, it finds the lease lost, or the
\* process dies.  (A death in the handler leaves what a throw leaves.)
GiveUp(x) ==
    /\ pc[x] \in {"returned"} \cup Failures
    /\ Goto(x, "idle")
    /\ UNCHANGED <<archive, jobVars, itemVars, objVars, sweep, sweeps>>

LeaseExpires(j) ==
    /\ leaseLive[j]
    /\ leaseLive' = [leaseLive EXCEPT ![j] = FALSE]
    /\ UNCHANGED <<archive, status, owner, retries, releases, itemVars, objVars,
                   execVars, sweep, sweeps>>

-----------------------------------------------------------------------------
(***************************************************************************)
(* The API.                                                                *)
(***************************************************************************)

CancelQueued(j) ==
    /\ status[j] = "queued"
    /\ SettleAs(j, "cancelled")
    /\ UNCHANGED <<archive, owner, leaseLive, retries, releases, objVars,
                   execVars, sweep, sweeps>>

CancelProcessing(j) ==
    /\ status[j] = "processing"
    /\ status' = [status EXCEPT ![j] = "cancel_requested"]
    /\ UNCHANGED <<archive, owner, leaseLive, retries, releases, itemVars,
                   objVars, execVars, sweep, sweeps>>

\* assertJobInputReady, under the lock of the root object.
Retryable(k)     == status[k] \in Settled \ {"completed"}
RootReady        == life[Root] \in Usable /\ ~infected /\ ~asked[Root]

AdmitRetry(j) ==
    /\ status[j] = "absent"
    /\ \E k \in Jobs : Retryable(k)
    /\ RootReady
    /\ status' = [status EXCEPT ![j] = "queued"]
    /\ UNCHANGED <<archive, owner, leaseLive, retries, releases, itemVars,
                   objVars, execVars, sweep, sweeps>>

-----------------------------------------------------------------------------
(***************************************************************************)
(* The handler.                                                            *)
(***************************************************************************)

\* Any call of the handler may fail for a reason of its own, and a worker
\* write whose fence fails throws JOB_LEASE_LOST or ZIP_CANCELLED.
HandlerThrows(x) ==
    /\ pc[x] \in Handling
    /\ \/ Goto(x, "threw_retryable")
       \/ ~Fence(x) /\ Goto(x, "threw_final")
    /\ UNCHANGED <<archive, jobVars, itemVars, objVars, sweep, sweeps>>

Load(x) ==
    /\ pc[x] = "load"
    /\ Fence(x)
    /\ Goto(x, IF RootReady THEN "scan" ELSE "threw_final")
    /\ UNCHANGED <<archive, jobVars, itemVars, objVars, sweep, sweeps>>

RootScan(x) ==
    /\ pc[x] = "scan"
    /\ Fence(x)
    /\ life[Root] \in Usable
    /\ life' = [life EXCEPT ![Root] = "quarantined"]
    /\ \E verdict \in {"clean", "infected"} :
          /\ infected' = (verdict = "infected")
          /\ Goto(x, IF verdict = "clean" THEN "inspect" ELSE "threw_final")
    /\ UNCHANGED <<archive, jobVars, itemVars, bytes, asked, cfdi, sweep, sweeps>>

\* The central directory is read before anything is reserved.
Inspect(x) ==
    /\ pc[x] = "inspect"
    /\ Fence(x)
    /\ Goto(x, IF archive.corruptAt = 0 THEN "reject" ELSE "reserve")
    /\ UNCHANGED <<archive, jobVars, itemVars, objVars, sweep, sweeps>>

RejectRoot(x) ==
    /\ pc[x] = "reject"
    /\ Fence(x)
    /\ life' = [life EXCEPT ![Root] = IF infected THEN @ ELSE "rejected"]
    /\ Goto(x, "threw_final")
    /\ UNCHANGED <<archive, jobVars, itemVars, bytes, asked, infected, cfdi,
                   sweep, sweeps>>

\* A later execution finds the items of an earlier one.
Reserve(x) ==
    LET j == work[x]  e == at[x]  new == item[j][e] = "none" IN
    /\ pc[x] = "reserve"
    /\ Fence(x)
    /\ item' = [item EXCEPT ![j][e] = IF new THEN "pending" ELSE @]
    /\ dirty' = [dirty EXCEPT ![j] = @ \/ new]
    /\ life' = [life EXCEPT ![<<j, e>>] = IF new /\ Processable(e)
                                          THEN "pending_upload" ELSE @]
    /\ Advance(x, "reserve", "extract")
    /\ UNCHANGED <<archive, jobVars, counters, bytes, asked, infected, cfdi,
                   sweep, sweeps>>

\* Decompression, and the storage call, which no fence protects.  The key is
\* written once: bytes that are there are compared with the entry.
ReadsUnchecked(e) == TRUE
ReadsEntry(e) == archive.corruptAt # e
Extract(x) ==
    LET j == work[x]  e == at[x] IN
    /\ pc[x] = "extract"
    /\ IF ReadsEntry(e)
       THEN /\ bytes' = [bytes EXCEPT ![<<j, e>>] =
                            @ \/ (Processable(e) /\ item[j][e] \in OpenItem)]
            /\ Goto(x, "record")
       ELSE /\ UNCHANGED bytes
            /\ Goto(x, "reject")
    /\ UNCHANGED <<archive, jobVars, itemVars, life, asked, infected, cfdi,
                   sweep, sweeps>>

RecordedFiscal(j, e) == item[j][e] \in {"incorporated", "duplicate"}
Recorded(j, e) == item[j][e] \in Results

\* extracted(): the result of an item that is terminal stays; otherwise the
\* counters are counted again in the same transaction.
Extracted(x) ==
    LET j == work[x]  e == at[x]
        after == [item[j] EXCEPT ![e] = IF Processable(e) THEN "pending"
                                        ELSE "unsupported"]
    IN
    /\ pc[x] = "record"
    /\ Fence(x)
    /\ IF Recorded(j, e)
       THEN UNCHANGED <<itemVars, life>>
       ELSE /\ life' = [life EXCEPT ![<<j, e>>] =
                           IF @ = "pending_upload" THEN "uploaded" ELSE @]
            /\ item' = [item EXCEPT ![j] = after]
            /\ counters' = [counters EXCEPT ![j] = Tally(after)]
            /\ dirty' = [dirty EXCEPT ![j] = FALSE]
    /\ Advance(x, "extract", "parse")
    /\ UNCHANGED <<archive, jobVars, bytes, asked, infected, cfdi, sweep, sweeps>>

\* The next entry with an object and no result; loadAndBegin needs its hash.
Begin(x) ==
    LET j == work[x]  e == at[x] IN
    /\ pc[x] = "parse"
    /\ Fence(x)
    /\ \/ /\ item[j][e] \in Results
          /\ Advance(x, "parse", "completion")
          /\ UNCHANGED <<item, dirty>>
       \/ /\ item[j][e] \in OpenItem
          /\ life[<<j, e>>] \in Usable
          /\ item' = [item EXCEPT ![j][e] = "processing"]
          /\ dirty' = [dirty EXCEPT ![j] = TRUE]
          /\ Goto(x, "xml")
       \/ /\ item[j][e] \in OpenItem
          /\ life[<<j, e>>] \notin Usable
          /\ Goto(x, "threw_retryable")
          /\ UNCHANGED <<item, dirty>>
    /\ UNCHANGED <<archive, jobVars, counters, objVars, sweep, sweeps>>

\* finishItem: the result and the counters in one transaction.
Finish(x, result) ==
    LET j == work[x]
        after == [item[j] EXCEPT ![at[x]] = result]
    IN
    /\ Fence(x)
    /\ item' = [item EXCEPT ![j] = after]
    /\ counters' = [counters EXCEPT ![j] = Tally(after)]
    /\ dirty' = [dirty EXCEPT ![j] = FALSE]
    /\ Advance(x, "parse", "completion")

\* Malware is published at once; a clean verdict is recorded.
ScanXml(x) ==
    LET j == work[x]  o == <<j, at[x]>> IN
    /\ pc[x] = "xml"
    /\ life[o] \in Usable
    /\ life' = [life EXCEPT ![o] = "quarantined"]
    /\ IF archive.class[at[x]] = "infected"
       THEN Finish(x, "invalid")
       ELSE /\ Fence(x)
            /\ Goto(x, "publish")
            /\ UNCHANGED itemVars
    /\ UNCHANGED <<archive, jobVars, bytes, asked, infected, cfdi, sweep, sweeps>>

PublishRejected(x) ==
    /\ pc[x] = "publish"
    /\ archive.class[at[x]] = "invalid"
    /\ life' = [life EXCEPT ![<<work[x], at[x]>>] = "quarantined"]
    /\ Finish(x, "invalid")
    /\ UNCHANGED <<archive, jobVars, bytes, asked, infected, cfdi, sweep, sweeps>>

\* The digest of an object is its content: equal classes, equal bytes.
SameName(o, e)  == TRUE
SameBytes(o, e) == archive.class[o[2]] = archive.class[e]

\* The object a duplicate makes disposable: the copy, never the source.
SpareSource(copy, source) == source
Spare(copy, source) == copy

\* publishParsed, under the advisory lock of the fiscal UUID.
PublishParsed(x) ==
    LET o == <<work[x], at[x]>>
        class == archive.class[at[x]]
    IN
    /\ pc[x] = "publish"
    /\ class \in Documents
    /\ LET u == UuidOf[class]  source == cfdi[u] IN
       \/ /\ source = None
          /\ cfdi' = [cfdi EXCEPT ![u] = o]
          /\ life' = [life EXCEPT ![o] = "available"]
          /\ Finish(x, "incorporated")
       \/ /\ source \notin {None, o}
          /\ SameBytes(source, at[x])
          /\ life' = [life EXCEPT ![Spare(o, source)] = "quarantined"]
          /\ Finish(x, "duplicate")
          /\ UNCHANGED cfdi
       \/ /\ source # None
          /\ ~SameBytes(source, at[x])
          /\ life' = [life EXCEPT ![o] = "quarantined"]
          /\ Finish(x, "invalid")
          /\ UNCHANGED cfdi
    /\ UNCHANGED <<archive, jobVars, bytes, asked, infected, sweep, sweeps>>

\* completion() refuses open items; HandlerThrows is that case.
Completion(x) ==
    /\ pc[x] = "completion"
    /\ Fence(x)
    /\ ~OpenItems(work[x])
    /\ Goto(x, "returned")
    /\ UNCHANGED <<archive, jobVars, itemVars, objVars, sweep, sweeps>>

-----------------------------------------------------------------------------
(***************************************************************************)
(* The reconciler: one transaction for every job of the foundation.  It    *)
(* aborts as a whole while a job is due that it cannot settle.             *)
(***************************************************************************)

Lapsed(j)  == status[j] \in InProgress /\ ~leaseLive[j]
Rootless(j) == status[j] = "queued" /\ life[Root] \in {"rejected", "deleted"}
Exhausted(j) == retries[j] >= MaxRetries

Poisoned(j) == /\ FinalizeRaises(j)
               /\ \/ Rootless(j)
                  \/ Lapsed(j) /\ (status[j] = "cancel_requested" \/ Exhausted(j))
Reconciles == \A j \in Jobs : ~Poisoned(j)

RecoverLease(j) ==
    /\ Reconciles
    /\ Lapsed(j)
    /\ Unlock(j)
    /\ \/ /\ status[j] = "cancel_requested"
          /\ SettleAs(j, "cancelled")
          /\ UNCHANGED retries
       \/ /\ status[j] = "processing"
          /\ Exhausted(j)
          /\ SettleAs(j, "failed_final")
          /\ UNCHANGED retries
       \/ /\ status[j] = "processing"
          /\ ~Exhausted(j)
          /\ status' = [status EXCEPT ![j] = "queued"]
          /\ retries' = [retries EXCEPT ![j] = @ + 1]
          /\ UNCHANGED itemVars
    /\ UNCHANGED <<archive, releases, objVars, execVars, sweep, sweeps>>

\* A pending object is an orphan unless it is the root of an active job: the
\* object of an entry never is.
RejectOrphan(o) ==
    /\ Reconciles
    /\ life[o] = "pending_upload"
    /\ o # Root
    /\ ~InExecution(o)
    /\ life' = [life EXCEPT ![o] = "rejected"]
    /\ UNCHANGED <<archive, jobVars, itemVars, bytes, asked, infected, cfdi,
                   execVars, sweep, sweeps>>

FailRootless(j) ==
    /\ Reconciles
    /\ Rootless(j)
    /\ SettleAs(j, "failed_final")
    /\ UNCHANGED <<archive, owner, leaseLive, retries, releases, objVars,
                   execVars, sweep, sweeps>>

RepairCounters(j) ==
    /\ Reconciles
    /\ status[j] # "absent"
    /\ dirty[j]
    /\ counters' = [counters EXCEPT ![j] = Tally(item[j])]
    /\ dirty' = [dirty EXCEPT ![j] = FALSE]
    /\ UNCHANGED <<archive, jobVars, item, objVars, execVars, sweep, sweeps>>

-----------------------------------------------------------------------------
(***************************************************************************)
(* The cleaner.                                                            *)
(***************************************************************************)

\* retention_until is set on every object but the source of a CFDI, and on
\* the root from its scan or its job's settlement on.
ExpiresUnrejected(o) == life[o] \notin {"none", "available", "deleted", "rejected"}
Expires(o) == life[o] \notin {"none", "available", "deleted"}
Cleanable(o) == Expires(o) /\ ~(o = Root /\ infected)
Published(o) == \E u \in Uuids : cfdi[u] = o
Referenced(o) == InActiveUse(o) \/ Published(o) \/ Incident(o)

\* The candidate query reads its snapshot before the object is locked.  An
\* earlier claim whose deletion never came is taken again.  A round of the
\* worker reaches the cleaner only after the reconciler has committed; what
\* the reconciler would do next may have changed since.
ListCandidate(o) ==
    /\ sweep.pc = "idle"
    /\ Cleanable(o)
    /\ ~Referenced(o)
    /\ ~InExecution(o)
    /\ sweep' = [pc |-> "listed", object |-> o]
    /\ UNCHANGED <<archive, jobVars, itemVars, objVars, execVars, sweeps>>

\* Under the object's lock: the row itself is read again when it is locked,
\* what refers to it by a fresh snapshot.
StillUnpublished(o) == ~Published(o) /\ ~Incident(o)
StillUnused(o) == ~Referenced(o)
ClaimCleanup ==
    LET o == sweep.object IN
    /\ sweep.pc = "listed"
    /\ IF Cleanable(o) /\ StillUnused(o)
       THEN /\ asked' = [asked EXCEPT ![o] = TRUE]
            /\ life' = [life EXCEPT ![o] = "rejected"]
            /\ sweep' = [sweep EXCEPT !.pc = "claimed"]
       ELSE /\ sweep' = NoSweep
            /\ UNCHANGED <<asked, life>>
    /\ UNCHANGED <<archive, jobVars, itemVars, bytes, infected, cfdi, execVars,
                   sweeps>>

DeleteBytes ==
    /\ sweep.pc = "claimed"
    /\ bytes' = [bytes EXCEPT ![sweep.object] = FALSE]
    /\ sweep' = [sweep EXCEPT !.pc = "deleting"]
    /\ UNCHANGED <<archive, jobVars, itemVars, life, asked, infected, cfdi,
                   execVars, sweeps>>

MarkDeleted ==
    /\ sweep.pc = "deleting"
    /\ life' = [life EXCEPT ![sweep.object] = "deleted"]
    /\ sweep' = NoSweep
    /\ UNCHANGED <<archive, jobVars, itemVars, bytes, asked, infected, cfdi,
                   execVars, sweeps>>

\* A storage or database failure, or the death of the process.
CleanerFails ==
    /\ sweep.pc # "idle"
    /\ sweeps < MaxFailures
    /\ sweep' = NoSweep
    /\ sweeps' = sweeps + 1
    /\ UNCHANGED <<archive, jobVars, itemVars, objVars, execVars>>

-----------------------------------------------------------------------------
Step(x) == \/ Load(x) \/ RootScan(x) \/ Inspect(x) \/ RejectRoot(x)
           \/ Reserve(x) \/ Extract(x) \/ Extracted(x) \/ Begin(x)
           \/ ScanXml(x) \/ PublishRejected(x) \/ PublishParsed(x)
           \/ Completion(x)
Settle(x) == Complete(x) \/ AcknowledgeCancel(x) \/ FailFinal(x) \/ ScheduleRetry(x)
Sweep == ClaimCleanup \/ DeleteBytes \/ MarkDeleted

Next ==
    \/ \E x \in Execs : \/ \E j \in Jobs : Claim(x, j)
                        \/ Step(x) \/ Settle(x)
                        \/ Release(x) \/ GiveUp(x) \/ HandlerThrows(x)
    \/ \E j \in Jobs : \/ LeaseExpires(j)
                       \/ CancelQueued(j) \/ CancelProcessing(j) \/ AdmitRetry(j)
                       \/ RecoverLease(j) \/ FailRootless(j) \/ RepairCounters(j)
    \/ \E o \in Objects : RejectOrphan(o) \/ ListCandidate(o)
    \/ Sweep
    \/ CleanerFails

\* A lease runs out once nobody renews it; workers poll for queued jobs; an
\* execution that is alive goes on until it has settled its job or ended.  The
\* worker's timer runs the reconciler and, in the rounds in which that commits,
\* the cleaner: nothing is promised of the cleaner while the reconciler aborts.
Abandoned(j) == \A x \in Execs : owner[j] = x => pc[x] = "idle" \/ work[x] # j
CleanerFairness ==
    /\ \A o \in Objects : WF_vars(Reconciles /\ ListCandidate(o))
    /\ WF_vars(Sweep)
ExecutionFairness ==
    \A x \in Execs : WF_vars(Step(x) \/ HandlerThrows(x) \/ Settle(x) \/ GiveUp(x))
JobFairness ==
    /\ \A j \in Jobs :
          /\ WF_vars(\E x \in Execs : Claim(x, j))
          /\ WF_vars(Abandoned(j) /\ LeaseExpires(j))
          /\ WF_vars(RecoverLease(j))
          /\ WF_vars(FailRootless(j))

Spec == Init /\ [][Next]_vars
CleanerSpec == Spec /\ ExecutionFairness /\ CleanerFairness
FairSpec == CleanerSpec /\ JobFairness

-----------------------------------------------------------------------------
(***************************************************************************)
(* Properties.                                                             *)
(***************************************************************************)

\* The source of a published CFDI is never cleaned up: its object stays
\* available, unclaimed and with its bytes, through retries, duplicates,
\* orphan rejection and the cleaner.  (claim_zip_cleanup, publishParsed)
SourceKept ==
    \A u \in Uuids : cfdi[u] # None =>
        /\ life[cfdi[u]] = "available"
        /\ bytes[cfdi[u]]
        /\ ~asked[cfdi[u]]

\* What an active job still has to read is not cleaned under it: neither its
\* root nor an object an item of it waits on, even when the job is a retry
\* admitted while the cleaner was listing its candidates.  (claim_zip_cleanup)
ActiveInputsKept ==
    \A j \in Jobs : status[j] \in Active =>
        /\ bytes[Root] /\ ~asked[Root]
        /\ \A e \in Entries : life[<<j, e>>] \in Usable =>
              bytes[<<j, e>>] /\ ~asked[<<j, e>>]

\* The bytes an open incident is about are kept.  (claim_zip_cleanup)
EvidenceKept ==
    \A j \in Jobs, e \in Entries : item[j][e] = "invalid" =>
        /\ life[<<j, e>>] = "quarantined"
        /\ bytes[<<j, e>>]
        /\ ~asked[<<j, e>>]

\* One fiscal UUID has one source, whatever jobs publish it and in whatever
\* order: an item is incorporated exactly when its object is the source, and
\* a duplicate has the source's bytes.  (publishParsed)
OneSourcePerUuid ==
    \A j \in Jobs, e \in Entries :
        LET class == archive.class[e] IN
        /\ item[j][e] = "incorporated" <=>
              class \in Documents /\ cfdi[UuidOf[class]] = <<j, e>>
        /\ item[j][e] = "duplicate" =>
              /\ class \in Documents
              /\ cfdi[UuidOf[class]] # None
              /\ archive.class[cfdi[UuidOf[class]][2]] = class

\* An archive that is damaged anywhere publishes nothing, in whatever entry
\* the damage is and however often it is tried.  (archive-job.processor)
DamagedPublishesNothing ==
    archive.corruptAt # None => \A u \in Uuids : cfdi[u] = None

\* Counters that are marked as reconciled are the count of the items, and a
\* settled job has such counters and no open item.  (finishItem, extracted,
\* finalize_manual_zip_items, the dirty marker and its repair)
CountersAgree ==
    \A j \in Jobs :
        /\ ~dirty[j] => counters[j] = Tally(item[j])
        /\ status[j] \in Settled => ~dirty[j] /\ ~OpenItems(j)

\* The result of an entry and the status of a settled job are final: no
\* execution that lost its lease, no later attempt and no recovery of the
\* reconciler changes them.  (fence, extracted, finishItem)
ResultsAreFinal ==
    [][\A j \in Jobs :
          /\ status[j] \in Settled => status'[j] = status[j]
          /\ \A e \in Entries :
                item[j][e] \in Results => item'[j][e] = item[j][e]]_vars

\* An object the cleaner asked for ends deleted, and without its bytes, unless
\* the reconciler's transaction aborts for ever: no round reaches the cleaner
\* then.  (ingestion-worker.runner: reconcile; ZipCleanupService)
CleanupFinishes ==
    <>[]Reconciles =>
        \A o \in Objects : asked[o] ~> life[o] = "deleted" /\ ~bytes[o]

\* The comment of finalize_manual_zip_items: it covers worker completion,
\* queued cancellation and lease recovery, so a cancellation settles the job.
CancellationSettles ==
    \A j \in Jobs : status[j] = "cancel_requested" ~> status[j] \in Settled

=============================================================================
