------------------------------- MODULE Efirma -------------------------------
(* The custody of one e.firma credential: an efirma_sessions row, the two      *)
(* stored_objects that hold the certificate and the sealed private key, their  *)
(* bytes in object storage, and the single-use Vault token that wraps the data *)
(* key. One API request prepares the custody, workers claim and use it once,   *)
(* and a reconciler on each worker erases it.                                  *)
(*                                                                             *)
(* A call that acts and loses its reply is the call followed by a fault of the *)
(* step that would have used the reply. Faults are bounded by MaxFaults.       *)
EXTENDS Naturals, FiniteSets

CONSTANTS Consumers,   \* workers that may run withCredential
          Cleaners,    \* worker processes that run the reconciler
          NoOne,       \* no claim
          MaxFaults    \* failed calls, crashes and overrun cleanup leases

ASSUME WorkersAssumption == NoOne \notin Consumers /\ NoOne \notin Cleaners
ASSUME FaultsAssumption == MaxFaults \in Nat

Objects == {"certificate", "key"}
Live == {"preparing", "ready", "claimed", "unwrapping"}
Ended == {"consumed", "revoked", "expired", "requires_user_authorization"}

\* The clock of the custody: the wrapping token still runs; it has lapsed; the
\* custody expired; 35 seconds have passed since, longer than any lease and call.
Wrapped == 0
TokenOver == 1
Expired == 2
Overdue == 3

VARIABLES
    row,         \* the efirma_sessions row
    records,     \* lifecycle_state of the two stored_objects
    bytes,       \* the objects whose bytes are in storage
    wrap,        \* the wrapping token in Vault
    authority,   \* "held": efirma_authorized answers yes and the custody generation is
                 \* the row's; "withheld": one is not so now; "ended": the session is over
    clock,
    prep,        \* where the preparing request stands
    consumer,    \* where each consumer stands
    cleaner,     \* where each reconciler stands, and what it read
    calls,       \* unwrap requests sent, counted to 2
    uses,        \* operations started with the private key, counted to 2
    faults

vars == <<row, records, bytes, wrap, authority, clock, prep,
          consumer, cleaner, calls, uses, faults>>
world == <<authority, clock>>
material == <<records, bytes, wrap>>

Absent == [status |-> "none", claim |-> NoOne, lease |-> "none",
           accessor |-> FALSE, requested |-> FALSE, cleaned |-> FALSE,
           cleaner |-> NoOne, cleanLease |-> "none"]
Resting == [pc |-> "idle", todo |-> {}, at |-> "none", accessor |-> FALSE]

Init ==
    /\ row = Absent
    /\ records = [o \in Objects |-> "none"]
    /\ bytes = {}
    /\ wrap = "none"
    /\ authority = "held"
    /\ clock = Wrapped
    /\ prep = "idle"
    /\ consumer = [c \in Consumers |-> "idle"]
    /\ cleaner = [w \in Cleaners |-> Resting]
    /\ calls = 0
    /\ uses = 0
    /\ faults = 0

-----------------------------------------------------------------------------
(* Mutations of definitions below.                                             *)

\* A custody ends with the status the table allows and the program never sets.
TerminalFailed(status) == [row EXCEPT !.status = "failed", !.requested = TRUE]
\* An interrupted unwrapping is claimed again like an interrupted claim.
ClaimableAgain == row.status = "ready"
                  \/ (row.status \in {"claimed", "unwrapping"} /\ row.lease \in {"lapsed", "settled"})
\* The sweep passes over the records the cleaning has already marked.
ToSweepUndeleted ==
    LET left == {o \in Objects : records[o] \in {"pending", "uploaded"}}
    IN  IF clock = Overdue /\ left # {}
        THEN [Resting EXCEPT !.pc = "sweep", !.todo = left] ELSE Resting
\* Cleaning does not wait for the request that ends the custody.
MayCleanUnrequested(r) == ~r.cleaned /\ r.lease \in {"none", "settled"}
                          /\ r.cleanLease \in {"none", "lapsed"}
\* The token of a custody whose use is uncertain is taken for used.
MustRevokeCertain == row.accessor /\ row.status \notin {"consumed", "requires_user_authorization"}
                     /\ clock = Wrapped

-----------------------------------------------------------------------------
Authorized == authority = "held"
Stored == {o \in Objects : records[o] # "none"}
Terminal(status) == [row EXCEPT !.status = status, !.requested = TRUE]
Fault == faults < MaxFaults /\ faults' = faults + 1

-----------------------------------------------------------------------------
(* The preparing request. Its lease of 30 seconds is set once, at reserve.     *)

PutAt == [certificate |-> "put_certificate", key |-> "put_key"]
RecordAt == [certificate |-> "record_certificate", key |-> "record_key"]
PrepOwns == row.status = "preparing" /\ row.claim = "prep" /\ row.lease = "held"
            /\ clock < Expired

\* One step of the preparation: the guard holds, or the request goes to its catch.
PrepStep(from, guard, to) ==
    /\ prep = from
    /\ prep' = IF guard THEN to ELSE "failing"
    /\ UNCHANGED <<world, consumer, cleaner, calls, uses, faults>>

Reserve ==
    /\ prep = "idle" /\ row.status = "none"
    /\ clock = Wrapped /\ Authorized
    /\ prep' = "insert"
    /\ row' = [Absent EXCEPT !.status = "preparing", !.claim = "prep", !.lease = "held"]
    /\ UNCHANGED <<material, world, consumer, cleaner, calls, uses, faults>>

\* The two object records and their link to the row, in one transaction.
InsertObjects ==
    LET ok == Authorized /\ PrepOwns
    IN  /\ PrepStep("insert", ok, "put_certificate")
        /\ records' = IF ok THEN [o \in Objects |-> "pending"] ELSE records
        /\ UNCHANGED <<row, bytes, wrap>>

\* The upload rechecks neither the row nor the lease.
Put(o) ==
    /\ PrepStep(PutAt[o], TRUE, RecordAt[o])
    /\ bytes' = bytes \cup {o}
    /\ UNCHANGED <<row, records, wrap>>

RecordUpload(o) ==
    /\ PrepStep(RecordAt[o], TRUE, IF o = "certificate" THEN "put_key" ELSE "check")
    /\ records' = [records EXCEPT ![o] = IF @ = "pending" THEN "uploaded" ELSE @]
    /\ UNCHANGED <<row, bytes, wrap>>

CheckPreparation ==
    /\ PrepStep("check", Authorized /\ PrepOwns, "wrap")
    /\ UNCHANGED <<row, material>>

\* The token lives until five seconds before the custody expires.
Wrap ==
    /\ PrepStep("wrap", clock = Wrapped, "save")
    /\ wrap' = IF clock = Wrapped THEN "live" ELSE wrap
    /\ UNCHANGED <<row, records, bytes>>

\* The cleanup reference is saved whatever the status, unless the row was cleaned.
SaveAccessor ==
    /\ PrepStep("save", TRUE, "finish")
    /\ row' = IF row.cleaned THEN row ELSE [row EXCEPT !.accessor = TRUE]
    /\ UNCHANGED material

\* The token was encrypted for the row just before.
FinishPreparation ==
    LET ok == Authorized /\ PrepOwns
    IN  /\ PrepStep("finish", ok, "done")
        /\ row' = IF ok THEN [row EXCEPT !.status = "ready", !.claim = NoOne, !.lease = "none"]
                  ELSE row
        /\ UNCHANGED material

FailPreparation ==
    /\ PrepStep("failing", TRUE, "done")
    /\ row' = IF row.status = "preparing" THEN Terminal("requires_user_authorization") ELSE row
    /\ UNCHANGED material

\* A call of the request fails, its failure transaction fails, or the process dies.
PrepFault ==
    /\ prep \notin {"idle", "done"}
    /\ Fault
    /\ prep' \in (IF prep = "failing" THEN {"done"} ELSE {"failing", "done"})
    /\ UNCHANGED <<row, material, world, consumer, cleaner, calls, uses>>

Preparation ==
    \/ Reserve \/ InsertObjects \/ CheckPreparation \/ Wrap \/ SaveAccessor
    \/ FinishPreparation \/ FailPreparation \/ PrepFault
    \/ \E o \in Objects : Put(o) \/ RecordUpload(o)

-----------------------------------------------------------------------------
(* A worker that uses the credential.                                          *)

Claimable == row.status = "ready" \/ (row.status = "claimed" /\ row.lease \in {"lapsed", "settled"})

ClaimCredential(c) ==
    /\ consumer[c] = "idle"
    /\ Claimable /\ clock < Expired /\ Authorized
    /\ row' = [row EXCEPT !.status = "claimed", !.claim = c, !.lease = "held"]
    /\ consumer' = [consumer EXCEPT ![c] = "read"]
    /\ UNCHANGED <<material, world, prep, cleaner, calls, uses, faults>>

Holds(c, statuses) == row.claim = c /\ row.status \in statuses /\ row.lease = "held"
                      /\ clock < Expired

\* Where a failed step leaves the consumer: only after the row said unwrapping is
\* the failure recorded.
Caught(pc) == IF pc \in {"read", "check", "mark"} THEN "idle" ELSE "uncertain"

ConsumerStep(c, from, guard, to) ==
    /\ consumer[c] = from
    /\ consumer' = [consumer EXCEPT ![c] = IF guard THEN to ELSE Caught(from)]
    /\ UNCHANGED <<world, prep, cleaner, faults>>

ReadMaterial(c) ==
    /\ ConsumerStep(c, "read", bytes = Objects /\ \A o \in Objects : records[o] = "uploaded",
                    "check")
    /\ UNCHANGED <<row, material, calls, uses>>

\* checkAuthority, which also renews the lease it requires. Checks with only a
\* decryption between them are one step.
AfterCheck == [check |-> "mark", verify |-> "operate", confirm |-> "consume"]
CheckAuthority(c) ==
    \E from \in DOMAIN AfterCheck :
        /\ ConsumerStep(c, from, Authorized /\ Holds(c, {"claimed", "unwrapping"}),
                        AfterCheck[from])
        /\ UNCHANGED <<row, material, calls, uses>>

MarkUnwrapping(c) ==
    LET ok == Holds(c, {"claimed"})
    IN  /\ ConsumerStep(c, "mark", ok, "unwrap")
        /\ row' = IF ok THEN [row EXCEPT !.status = "unwrapping"] ELSE row
        /\ UNCHANGED <<material, calls, uses>>

\* One request, never repeated. Vault honours it while the token runs unused.
Unwrap(c) ==
    LET ok == wrap = "live" /\ clock = Wrapped
    IN  /\ ConsumerStep(c, "unwrap", ok, "verify")
        /\ wrap' = IF ok THEN "used" ELSE wrap
        /\ calls' = IF calls < 2 THEN calls + 1 ELSE calls
        /\ UNCHANGED <<row, records, bytes, uses>>

Operate(c) ==
    /\ ConsumerStep(c, "operate", TRUE, "confirm")
    /\ uses' = IF uses < 2 THEN uses + 1 ELSE uses
    /\ UNCHANGED <<row, material, calls>>

Consume(c) ==
    LET ok == Holds(c, {"unwrapping"})
    IN  /\ ConsumerStep(c, "consume", ok, "idle")
        /\ row' = IF ok THEN [Terminal("consumed") EXCEPT !.lease = "none"] ELSE row
        /\ UNCHANGED <<material, calls, uses>>

RecordUncertainty(c) ==
    /\ ConsumerStep(c, "uncertain", TRUE, "idle")
    /\ row' = IF row.claim = c /\ row.status \in {"claimed", "unwrapping"}
              THEN [Terminal("requires_user_authorization") EXCEPT !.lease = "none"]
              ELSE row
    /\ UNCHANGED <<material, calls, uses>>

\* A call of the consumer fails, or its process dies.
ConsumerFault(c) ==
    /\ consumer[c] # "idle"
    /\ Fault
    /\ \E pc \in (IF consumer[c] = "uncertain" THEN {"idle"} ELSE {"idle", Caught(consumer[c])}) :
           consumer' = [consumer EXCEPT ![c] = pc]
    /\ UNCHANGED <<row, material, world, prep, cleaner, calls, uses>>

Consumption(c) ==
    \/ ClaimCredential(c) \/ ReadMaterial(c) \/ CheckAuthority(c) \/ MarkUnwrapping(c)
    \/ Unwrap(c) \/ Operate(c) \/ Consume(c) \/ RecordUncertainty(c) \/ ConsumerFault(c)

-----------------------------------------------------------------------------
(* The reconciler. A round settles and cleans the custody, then sweeps the     *)
(* records that are overdue; a failure of the cleaning does not stop the sweep.*)

ToSweep == IF clock = Overdue /\ Stored # {}
           THEN [Resting EXCEPT !.pc = "sweep", !.todo = Stored] ELSE Resting

\* What the row becomes when the reconciler looks at it.
Unattended == row.status \in {"preparing", "unwrapping"} /\ row.lease # "held"
Settled ==
    IF row.status \notin Live THEN row
    ELSE IF clock >= Expired THEN Terminal("expired")
    ELSE IF ~Authorized THEN Terminal("revoked")
    ELSE IF Unattended THEN Terminal("requires_user_authorization")
    ELSE row

\* A cleaning starts once the lease is over with its margin and nobody else cleans.
MayClean(r) == r.requested /\ ~r.cleaned
               /\ r.lease \in {"none", "settled"} /\ r.cleanLease \in {"none", "lapsed"}

Reconcile(w) ==
    /\ cleaner[w].pc = "idle"
    /\ (row.status # "none" /\ ~row.cleaned) \/ ToSweep # Resting
    /\ IF row.status # "none" /\ ~row.cleaned /\ MayClean(Settled)
       THEN /\ row' = [Settled EXCEPT !.cleaner = w, !.cleanLease = "held"]
            /\ cleaner' = [cleaner EXCEPT ![w] = [pc |-> IF Stored = {} THEN "require" ELSE "delete",
                              todo |-> Stored, at |-> "none", accessor |-> row.accessor]]
       ELSE /\ row' = Settled
            /\ cleaner' = [cleaner EXCEPT ![w] = ToSweep]
    /\ UNCHANGED <<material, world, prep, consumer, calls, uses, faults>>

CleanerStep(w, from) ==
    /\ cleaner[w].pc = from
    /\ UNCHANGED <<world, prep, consumer, calls, uses, faults>>

MarkAfter == [delete |-> "delete_mark", sweep |-> "sweep_mark"]

\* Delete the bytes of one object, for the cleaning and for the sweep.
DeleteBytes(w) ==
    \E from \in DOMAIN MarkAfter, o \in cleaner[w].todo :
        /\ CleanerStep(w, from)
        /\ bytes' = bytes \ {o}
        /\ cleaner' = [cleaner EXCEPT ![w].pc = MarkAfter[from], ![w].at = o]
        /\ UNCHANGED <<row, records, wrap>>

MarkDeleted(w) ==
    \E from \in DOMAIN MarkAfter :
        LET left == cleaner[w].todo \ {cleaner[w].at}
            next == IF left # {} THEN from ELSE IF from = "delete" THEN "require" ELSE "idle"
        IN  /\ CleanerStep(w, MarkAfter[from])
            /\ records' = [records EXCEPT ![cleaner[w].at] = "deleted"]
            /\ cleaner' = [cleaner EXCEPT ![w] =
                   IF next = "idle" THEN Resting
                   ELSE [@ EXCEPT !.pc = next, !.todo = left, !.at = "none"]]
            /\ UNCHANGED <<row, bytes, wrap>>

CleansNow(w) == row.cleaner = w /\ row.cleanLease = "held"
MustRevoke == row.accessor /\ row.status # "consumed" /\ clock = Wrapped

RequireRevocation(w) ==
    /\ CleanerStep(w, "require")
    /\ cleaner' = [cleaner EXCEPT ![w] =
           IF ~CleansNow(w) THEN ToSweep
           ELSE [@ EXCEPT !.pc = IF MustRevoke THEN "revoke" ELSE "complete"]]
    /\ UNCHANGED <<row, material>>

\* Vault refuses an accessor it does not know: one read before it was saved, or one
\* of a token that was used or has lapsed.
RevokeToken(w) ==
    LET ok == cleaner[w].accessor /\ wrap = "live" /\ clock = Wrapped
    IN  /\ CleanerStep(w, "revoke")
        /\ wrap' = IF ok THEN "revoked" ELSE wrap
        /\ cleaner' = [cleaner EXCEPT ![w] = IF ok THEN [@ EXCEPT !.pc = "complete"] ELSE ToSweep]
        /\ UNCHANGED <<row, records, bytes>>

CompleteCleanup(w) ==
    /\ CleanerStep(w, "complete")
    /\ row' = IF CleansNow(w)
              THEN [Absent EXCEPT !.status = row.status, !.requested = TRUE, !.cleaned = TRUE]
              ELSE row
    /\ cleaner' = [cleaner EXCEPT ![w] = ToSweep]
    /\ UNCHANGED material

\* A call of the reconciler fails, and the round goes on with the sweep or the next
\* object; or its process dies.
CleanerFault(w) ==
    LET left == [cleaner[w] EXCEPT !.todo = @ \ {cleaner[w].at}]
        next == IF cleaner[w].pc # "sweep_mark" THEN ToSweep
                ELSE IF left.todo = {} THEN Resting ELSE [left EXCEPT !.pc = "sweep", !.at = "none"]
    IN  /\ cleaner[w].pc # "idle"
        /\ Fault
        /\ \E to \in {Resting, next} : cleaner' = [cleaner EXCEPT ![w] = to]
        /\ UNCHANGED <<row, material, world, prep, consumer, calls, uses>>

Cleaning(w) ==
    \/ Reconcile(w) \/ DeleteBytes(w) \/ MarkDeleted(w) \/ RequireRevocation(w)
    \/ RevokeToken(w) \/ CompleteCleanup(w)

-----------------------------------------------------------------------------
(* The member, the administration and time.                                    *)

World(alive) ==
    /\ alive
    /\ UNCHANGED <<material, prep, consumer, cleaner, calls, uses>>

\* The member revokes the custody.
RevokeCustody ==
    /\ World(row.status \in Live /\ authority # "ended")
    /\ row' = Terminal("revoked")
    /\ UNCHANGED <<world, faults>>

\* The member asks for the status, from the custody's session or from another one.
PollStatus ==
    /\ World(row.status \in Live)
    /\ row' = Terminal(IF clock >= Expired THEN "expired" ELSE "revoked")
    /\ UNCHANGED <<world, faults>>

\* Permissions, assignments, the session's idle time, the generation file: they go and
\* come back.
AuthorityFlips ==
    /\ World(authority # "ended")
    /\ authority' = IF authority = "held" THEN "withheld" ELSE "held"
    /\ UNCHANGED <<row, clock, faults>>

\* The session ends: the trigger revokes the custody in the same statement.
SessionEnds ==
    /\ World(authority # "ended")
    /\ authority' = "ended"
    /\ row' = IF row.status \in Live THEN Terminal("revoked") ELSE row
    /\ UNCHANGED <<clock, faults>>

\* A consumer's lease never passes the expiry; the request's is over 35 seconds later.
Tick ==
    /\ World(clock < Overdue)
    /\ clock = Expired => row.lease \in {"none", "settled"}
    /\ clock' = clock + 1
    /\ row' = IF clock' = Expired /\ row.claim \in Consumers /\ row.lease = "held"
              THEN [row EXCEPT !.lease = "lapsed"] ELSE row
    /\ UNCHANGED <<authority, faults>>

LeaseRuns ==
    /\ World(row.lease \in {"held", "lapsed"})
    /\ row' = [row EXCEPT !.lease = IF @ = "held" THEN "lapsed" ELSE "settled"]
    /\ UNCHANGED <<world, faults>>

\* The cleanup lease outlasts a cleaning that runs: that it does not is a fault.
CleanupLeaseLapses ==
    /\ World(row.cleanLease = "held")
    /\ IF row.cleaner \in Cleaners /\ cleaner[row.cleaner].pc \notin {"idle", "sweep", "sweep_mark"}
       THEN Fault ELSE UNCHANGED faults
    /\ row' = [row EXCEPT !.cleanLease = "lapsed"]
    /\ UNCHANGED world

Surroundings ==
    \/ RevokeCustody \/ PollStatus \/ AuthorityFlips \/ SessionEnds
    \/ Tick \/ LeaseRuns \/ CleanupLeaseLapses

-----------------------------------------------------------------------------
Next ==
    \/ Preparation
    \/ \E c \in Consumers : Consumption(c)
    \/ \E w \in Cleaners : Cleaning(w) \/ CleanerFault(w)
    \/ Surroundings

\* The reconciler runs on a timer and its batches take the oldest rows first, time
\* passes and leases run out. The request and the consumers may stop anywhere.
Fairness ==
    /\ \A w \in Cleaners : WF_vars(Cleaning(w))
    /\ WF_vars(Tick) /\ WF_vars(LeaseRuns) /\ WF_vars(CleanupLeaseLapses)

Spec == Init /\ [][Next]_vars
FairSpec == Spec /\ Fairness

-----------------------------------------------------------------------------
\* Every part of the state keeps its type.
TypeOK ==
    /\ row \in [status : {"none"} \cup Live \cup Ended,
                claim : Consumers \cup {NoOne, "prep"},
                lease : {"none", "held", "lapsed", "settled"},
                accessor : BOOLEAN, requested : BOOLEAN, cleaned : BOOLEAN,
                cleaner : Cleaners \cup {NoOne}, cleanLease : {"none", "held", "lapsed"}]
    /\ records \in [Objects -> {"none", "pending", "uploaded", "deleted"}]
    /\ bytes \subseteq Objects
    /\ wrap \in {"none", "live", "used", "revoked"}
    /\ authority \in {"held", "withheld", "ended"}
    /\ clock \in Wrapped .. Overdue
    /\ prep \in {"idle", "insert", "check", "wrap", "save", "finish", "failing", "done"}
                \cup {PutAt[o] : o \in Objects} \cup {RecordAt[o] : o \in Objects}
    /\ consumer \in [Consumers -> {"idle", "read", "check", "mark", "unwrap", "verify",
                                   "operate", "confirm", "consume", "uncertain"}]
    /\ cleaner \in [Cleaners -> [pc : {"idle", "delete", "delete_mark", "require", "revoke",
                                       "complete", "sweep", "sweep_mark"},
                                 todo : SUBSET Objects, at : Objects \cup {"none"},
                                 accessor : BOOLEAN]]
    /\ calls \in 0 .. 2 /\ uses \in 0 .. 2 /\ faults \in 0 .. MaxFaults

\* Whatever fails or is claimed again, Vault is asked for the data key at most once,
\* the private key serves at most one operation, and a custody that says consumed has
\* served one.
CredentialUsedOnce ==
    /\ calls <= 1
    /\ uses <= calls
    /\ row.status = "consumed" => uses = 1

\* What a custody that a worker may still claim needs is there: until it is overdue
\* nobody has deleted its bytes, and while its token runs nobody has revoked or used it.
LiveMaterialKept ==
    /\ row.status \in {"ready", "claimed", "unwrapping"} /\ clock < Overdue => bytes = Objects
    /\ row.status \in {"ready", "claimed"} /\ clock = Wrapped => wrap = "live"

\* No unwrapping succeeds once the cleanup of the custody is complete, however late the
\* consumer that marked it sends its request.
NoUnwrapAfterCleanup == [][wrap = "live" /\ wrap' = "used" => ~row.cleaned]_vars

\* Every custody that was reserved ends cleaned, with no bytes left in storage, also the
\* bytes of an upload that landed after the cleaning.
CustodyIsErased == <>[](row.status # "none" => row.cleaned /\ bytes = {})
=============================================================================
