---------------------------- MODULE DirectUpload ----------------------------
(***************************************************************************)
(* One idempotency key of POST .../ingestions/xml: the upload row, its     *)
(* stored object and bytes, and the requests that present the key, the     *)
(* client's retries and duplicates, with the same file or another.  The    *)
(* version of the row is the receiver's fence: a request streams bytes     *)
(* outside any transaction while its heartbeat renews the fence, and a     *)
(* later request takes the reception over when the renewals stop.          *)
(*                                                                         *)
(* Bytes are kept by the S3 adapter, whose write is conditional: a key     *)
(* that exists is never overwritten.  A request that its client or its     *)
(* process abandons, or whose transaction fails, ends at once as refused.  *)
(***************************************************************************)
EXTENDS Integers

CONSTANTS
    Requests,     \* requests that present the key
    Payloads,     \* contents of their files
    None,         \* SQL NULL, an absent object
    MaxVersion    \* bound on the renewals of the receiver fence

ASSUME NonePayload == None \notin Payloads
ASSUME VersionBound == MaxVersion \in Nat

VARIABLES
    state,      \* ingestion_uploads.state, "absent" before the intent
    version,    \* ingestion_uploads.version
    fresh,      \* updated_at is within the receiver lease
    expired,    \* upload_expires_at has passed
    object,     \* stored_objects.lifecycle_state
    sha256,     \* actual_sha256 of the confirmed upload
    bytes,      \* what storage holds under the object key
    job,        \* the content of the job created with the key
    pc,         \* where each request is
    payload,    \* the file each request sends
    held        \* the receiver version a request holds, 0 when it holds none
                \* or UploadReceiverHeartbeat found the fence lost

rowVars == <<state, version, fresh, expired, object, sha256>>
reqVars == <<pc, payload, held>>
vars    == <<rowVars, bytes, job, reqVars>>

Settled   == {"confirmed", "failed", "expired"}
\* Between receiverLease.start and receiverLease.stop.
Receiving == {"head", "compare_stored", "put", "stop"}
Active    == Receiving \cup {"intent", "wait", "compare_confirmed", "confirm",
                             "create", "fail", "delete"}

TypeOK ==
    /\ state \in {"absent", "receiving"} \cup Settled
    /\ version \in Nat
    /\ fresh \in BOOLEAN
    /\ expired \in BOOLEAN
    /\ object \in {"none", "pending_upload", "uploaded", "rejected", "deleted"}
    /\ sha256 \in Payloads \cup {None}
    /\ bytes \in Payloads \cup {None}
    /\ job \in Payloads \cup {None}
    /\ pc \in [Requests -> Active \cup {"accepted", "refused"}]
    /\ payload \in [Requests -> Payloads]
    /\ held \in [Requests -> Nat]

Init ==
    /\ state = "absent"
    /\ version = 0
    /\ fresh = FALSE
    /\ expired = FALSE
    /\ object = "none"
    /\ sha256 = None
    /\ bytes = None
    /\ job = None
    /\ pc = [r \in Requests |-> "intent"]
    /\ payload \in [Requests -> Payloads]
    /\ held = [r \in Requests |-> 0]

\* A request that ends holds nothing.
Goto(r, label) ==
    /\ pc' = [pc EXCEPT ![r] = label]
    /\ held' = [held EXCEPT ![r] = IF label \in Active THEN @ ELSE 0]

BecomeReceiver(r) ==
    /\ pc' = [pc EXCEPT ![r] = "head"]
    /\ held' = [held EXCEPT ![r] = version']

\* The row is written: its version moves and its receiver lease starts again.
Touch(s) == /\ state' = s
            /\ version' = version + 1
            /\ fresh' = TRUE

\* The receiver fence of r: nobody took the reception over since r's last
\* renewal, and it is still open.
Fence(r) == state = "receiving" /\ version = held[r]

-----------------------------------------------------------------------------
(***************************************************************************)
(* Becoming the receiver.                                                  *)
(***************************************************************************)

\* createUploadIntent under the advisory lock of the key: the first request
\* creates the intent and receives; a later one replays it.
CreateIntent(r) ==
    /\ pc[r] = "intent"
    /\ \/ /\ state = "absent"
          /\ Touch("receiving")
          /\ object' = "pending_upload"
          /\ BecomeReceiver(r)
       \/ /\ state = "confirmed"
          /\ Goto(r, "compare_confirmed")
          /\ UNCHANGED <<state, version, fresh, object>>
       \/ /\ state \notin {"absent", "confirmed"}
          /\ Goto(r, "wait")
          /\ UNCHANGED <<state, version, fresh, object>>
    /\ UNCHANGED <<expired, sha256, bytes, job, payload>>

\* claimUploadReceiver takes over a reception whose lease is stale.
TakeoverAllowed == state = "receiving" /\ ~expired /\ ~fresh

\* One round of waitForUploadReceiver; a busy receiver is polled again until
\* the deadline.
ClaimReceiver(r) ==
    /\ pc[r] = "wait"
    /\ \/ /\ TakeoverAllowed
          /\ Touch("receiving")
          /\ BecomeReceiver(r)
       \/ /\ state = "confirmed"
          /\ Goto(r, "compare_confirmed")
          /\ UNCHANGED <<state, version, fresh>>
       \/ /\ state \in {"failed", "expired"}
          /\ Goto(r, "refused")
          /\ UNCHANGED <<state, version, fresh>>
    /\ UNCHANGED <<expired, object, sha256, bytes, job, payload>>

\* A request that finds the upload confirmed must send the same content.
CompareConfirmed(r) ==
    /\ pc[r] = "compare_confirmed"
    /\ Goto(r, IF payload[r] = sha256 THEN "confirm" ELSE "refused")
    /\ UNCHANGED <<rowVars, bytes, job, payload>>

-----------------------------------------------------------------------------
(***************************************************************************)
(* Receiving the bytes.                                                    *)
(***************************************************************************)

Head(r) ==
    /\ pc[r] = "head"
    /\ Goto(r, IF bytes = None THEN "put" ELSE "compare_stored")
    /\ UNCHANGED <<rowVars, bytes, job, payload>>

\* Bytes an earlier receiver left are read back; other content is a conflict
\* with the key that does not fail the upload.
CompareStored(r) ==
    /\ pc[r] = "compare_stored"
    /\ Goto(r, CASE bytes = payload[r] -> "stop"
                 [] bytes = None       -> IF held[r] = 0 THEN "refused" ELSE "fail"
                 [] OTHER              -> "refused")
    /\ UNCHANGED <<rowVars, bytes, job, payload>>

\* putStream with If-None-Match; on a conflict the stored bytes are compared.
Overwrite(r) == bytes' = payload[r] /\ Goto(r, "stop")
PutIfAbsent(r) ==
    \/ /\ bytes = None
       /\ bytes' = payload[r]
       /\ Goto(r, "stop")
    \/ /\ bytes # None
       /\ Goto(r, "compare_stored")
       /\ UNCHANGED bytes

Put(r) ==
    /\ pc[r] = "put"
    /\ PutIfAbsent(r)
    /\ UNCHANGED <<rowVars, job, payload>>

\* The stream, the file check, the multipart body or storage fails, the write
\* possibly done: the lease is stopped and, if it was not lost, the upload
\* fails.
ReceptionFails(r) ==
    /\ pc[r] \in Receiving
    /\ \/ UNCHANGED bytes
       \/ /\ pc[r] = "put"
          /\ bytes = None
          /\ bytes' = payload[r]
    /\ Goto(r, IF held[r] = 0 THEN "refused" ELSE "fail")
    /\ UNCHANGED <<rowVars, job, payload>>

\* UploadReceiverHeartbeat.tick: the fence is renewed and known, or renewed by
\* a commit whose answer is lost, or found to be lost.
Renew(r) ==
    /\ pc[r] \in Receiving
    /\ held[r] # 0
    /\ \/ /\ Fence(r)
          /\ ~expired
          /\ version < MaxVersion
          /\ Touch("receiving")
          /\ \E v \in {version', 0} : held' = [held EXCEPT ![r] = v]
       \/ /\ held' = [held EXCEPT ![r] = 0]
          /\ UNCHANGED <<state, version, fresh>>
    /\ UNCHANGED <<expired, object, sha256, bytes, job, pc, payload>>

StopLease(r) ==
    /\ pc[r] = "stop"
    /\ Goto(r, IF held[r] = 0 THEN "refused" ELSE "confirm")
    /\ UNCHANGED <<rowVars, bytes, job, payload>>

-----------------------------------------------------------------------------
(***************************************************************************)
(* Deciding the upload.                                                    *)
(***************************************************************************)

\* confirmUpload: a replay of the confirmation must carry the same
\* fingerprint; the first one needs the fence of a live, open upload.
Confirm(r) ==
    /\ pc[r] = "confirm"
    /\ \/ /\ state = "confirmed"
          /\ Goto(r, IF payload[r] = sha256 THEN "create" ELSE "refused")
          /\ UNCHANGED <<state, version, fresh, object, sha256>>
       \/ /\ Fence(r)
          /\ ~expired
          /\ object = "pending_upload"
          /\ Touch("confirmed")
          /\ object' = "uploaded"
          /\ sha256' = payload[r]
          /\ Goto(r, "create")
       \/ /\ state # "confirmed"
          /\ ~(Fence(r) /\ ~expired /\ object = "pending_upload")
          /\ Goto(r, "refused")
          /\ UNCHANGED <<state, version, fresh, object, sha256>>
    /\ UNCHANGED <<expired, bytes, job, payload>>

\* createJob: a replay must carry the same fingerprint; the first needs a
\* confirmed upload.  The answer may be lost after the commit.
CreateJob(r) ==
    /\ pc[r] = "create"
    /\ \/ /\ job = None
          /\ state = "confirmed"
          /\ object = "uploaded"
          /\ job' = payload[r]
          /\ \E answer \in {"accepted", "refused"} : Goto(r, answer)
       \/ /\ job # None
          /\ Goto(r, IF job = payload[r] THEN "accepted" ELSE "refused")
          /\ UNCHANGED job
    /\ UNCHANGED <<rowVars, bytes, payload>>

\* An object nobody confirmed is deleted; a later lifecycle is left alone.
DiscardedAsFailed(o) == IF o = "pending_upload" THEN "failed" ELSE o
Discarded(o)         == IF o = "pending_upload" THEN "deleted" ELSE o

\* The bytes deleted before the fence is known to be held.
DeleteFirst(r) ==
    /\ pc[r] = "fail"
    /\ bytes' = None
    /\ IF Fence(r) THEN Touch("failed") ELSE UNCHANGED <<state, version, fresh>>
    /\ Goto(r, "refused")
    /\ UNCHANGED <<expired, object, sha256, job, payload>>

\* failOwnedUpload: the failure is recorded under the fence, and only then are
\* the bytes deleted.
FailUpload(r) ==
    /\ pc[r] = "fail"
    /\ \/ /\ Fence(r)
          /\ Touch("failed")
          /\ object' = Discarded(object)
          /\ Goto(r, "delete")
       \/ /\ ~Fence(r)
          /\ Goto(r, "refused")
          /\ UNCHANGED <<state, version, fresh, object>>
    /\ UNCHANGED <<expired, sha256, bytes, job, payload>>

DeleteBytes(r) ==
    /\ pc[r] = "delete"
    /\ bytes' = None
    /\ Goto(r, "refused")
    /\ UNCHANGED <<rowVars, job, payload>>

\* A transaction fails, a replay window or the waiting deadline has passed,
\* admission is refused, or the client or the process disappears.
Refuse(r) ==
    /\ pc[r] \in Active
    /\ Goto(r, "refused")
    /\ UNCHANGED <<rowVars, bytes, job, payload>>

-----------------------------------------------------------------------------
(***************************************************************************)
(* The clock and the reconciler.                                           *)
(***************************************************************************)

LeaseGoesStale ==
    /\ fresh
    /\ fresh' = FALSE
    /\ UNCHANGED <<state, version, expired, object, sha256, bytes, job, reqVars>>

UploadExpires ==
    /\ state # "absent"
    /\ ~expired
    /\ expired' = TRUE
    /\ UNCHANGED <<state, version, fresh, object, sha256, bytes, job, reqVars>>

\* An upload nobody confirmed in 24 hours, received or not.
ExpirableUnreceived == state = "receiving" /\ expired /\ version = 1
Expirable           == state = "receiving" /\ expired

ReconcileExpiredUpload ==
    /\ Expirable
    /\ Touch("expired")
    /\ UNCHANGED <<expired, object, sha256, bytes, job, reqVars>>

ReconcileOrphanObject ==
    /\ object = "pending_upload"
    /\ state \in {"failed", "expired"}
    /\ object' = "rejected"
    /\ UNCHANGED <<state, version, fresh, expired, sha256, bytes, job, reqVars>>

\* The client gives up: nothing else has to happen.
Quiescent ==
    /\ \A r \in Requests : pc[r] \notin Active
    /\ UNCHANGED vars

RequestStep(r) ==
    \/ CreateIntent(r)
    \/ ClaimReceiver(r)
    \/ CompareConfirmed(r)
    \/ Head(r)
    \/ CompareStored(r)
    \/ Put(r)
    \/ ReceptionFails(r)
    \/ StopLease(r)
    \/ Confirm(r)
    \/ CreateJob(r)
    \/ FailUpload(r)
    \/ DeleteBytes(r)
    \/ Refuse(r)

Next ==
    \/ \E r \in Requests : RequestStep(r) \/ Renew(r)
    \/ LeaseGoesStale
    \/ UploadExpires
    \/ ReconcileExpiredUpload
    \/ ReconcileOrphanObject
    \/ Quiescent

Spec == Init /\ [][Next]_vars

(***************************************************************************)
(* Fairness: handlers return, 24 hours pass and the reconciler recurs.     *)
(***************************************************************************)
Fairness ==
    /\ \A r \in Requests : WF_vars(RequestStep(r))
    /\ WF_vars(UploadExpires)
    /\ WF_vars(ReconcileExpiredUpload)
    /\ WF_vars(ReconcileOrphanObject)

FairSpec == Spec /\ Fairness

-----------------------------------------------------------------------------
(***************************************************************************)
(* Properties.                                                             *)
(***************************************************************************)

\* A request answered 202 has its own file stored, confirmed and queued,
\* whichever request stored the bytes, confirmed them and created the job,
\* and whatever receivers it raced with.
AcceptedIsDurable ==
    \A r \in Requests : pc[r] = "accepted" =>
        /\ state = "confirmed"
        /\ bytes = payload[r]
        /\ job = payload[r]

\* The confirmed hash is the hash of the bytes that are stored: no receiver
\* that lost its fence can confirm other bytes, or delete or replace them.
ConfirmedBytesKept == state = "confirmed" => /\ bytes = sha256
                                             /\ bytes # None

\* At most one request holds the fence with which an open upload is decided.
OneReceiver ==
    \A r, q \in Requests :
        /\ pc[r] \in Receiving \cup {"confirm", "fail"}
        /\ pc[q] \in Receiving \cup {"confirm", "fail"}
        /\ Fence(r) /\ Fence(q)
        => r = q

\* What is decided stays: a late confirmation, failure, takeover or expiry
\* never reopens or redecides an upload, and bytes are never replaced.
DecisionKept ==
    /\ state \in Settled => state' = state
    /\ bytes # None => bytes' \in {bytes, None}
DecisionIsFinal == [][DecisionKept]_vars

\* A reception that its receiver abandoned is decided in the end, and the
\* object of one that was not confirmed does not stay pending.
UploadSettles ==
    state = "receiving" ~> state \in Settled /\ object # "pending_upload"

=============================================================================
