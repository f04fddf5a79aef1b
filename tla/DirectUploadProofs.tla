------------------------- MODULE DirectUploadProofs -------------------------
(***************************************************************************)
(* Proofs about DirectUpload, for any requests, contents and bound.        *)
(*                                                                         *)
(* The fence is a version that only grows and that one request at a time   *)
(* has seen; whoever verified the bytes keeps them verified unless the     *)
(* upload failed first; what follows a confirmation carries its content.   *)
(***************************************************************************)
EXTENDS DirectUpload, TLAPS

\* Only the request that wrote the latest version of an open row knows it.
Fences ==
    /\ state # "absent" => version > 0
    /\ \A r \in Requests : held[r] <= version
    /\ \A r, q \in Requests : held[r] = held[q] /\ held[r] # 0 => r = q

\* Bytes are deleted after the failure is recorded, so the ones a request has
\* verified are still there when it comes to confirm them.
Verified ==
    /\ \A r \in Requests : pc[r] = "delete" => state = "failed"
    /\ \A r \in Requests :
         pc[r] \in {"stop", "confirm"} => bytes = payload[r] \/ state = "failed"

\* What was confirmed is stored, and what comes after is about it.
Decided ==
    /\ state = "confirmed" => bytes = sha256 /\ bytes # None
    /\ job # None => state = "confirmed" /\ job = sha256
    /\ \A r \in Requests : pc[r] = "compare_confirmed" => state = "confirmed"
    /\ \A r \in Requests :
         pc[r] \in {"create", "accepted"} => state = "confirmed" /\ payload[r] = sha256
    /\ \A r \in Requests : pc[r] = "accepted" => job = payload[r]

IInv == TypeOK /\ Fences /\ Verified /\ Decided

USE NonePayload, VersionBound

-----------------------------------------------------------------------------
(***************************************************************************)
(* Type correctness.                                                       *)
(***************************************************************************)

\* What Touch does, with the Boolean of the lease as a membership.
LEMMA TouchType ==
    ASSUME NEW s, Touch(s)
    PROVE  state' = s /\ version' = version + 1 /\ fresh' \in BOOLEAN
BY Zenon DEF Touch

\* The initial states are well typed.
LEMMA TypeInit == Init => TypeOK
<1> SUFFICES ASSUME Init PROVE TypeOK
    OBVIOUS
<1>1. fresh \in BOOLEAN /\ expired \in BOOLEAN
    BY Zenon DEF Init
<1> QED
    BY <1>1 DEF Init, TypeOK, Active, Receiving, Settled

\* Every action keeps every variable in its type.
LEMMA TypeStep == TypeOK /\ [Next]_vars => TypeOK'
<1> SUFFICES ASSUME TypeOK, [Next]_vars PROVE TypeOK'
    OBVIOUS
<1> USE DEF TypeOK, rowVars, reqVars, Goto, Active, Receiving, Settled
<1>1. ASSUME NEW r \in Requests, RequestStep(r) PROVE TypeOK'
    <2>1. CASE CreateIntent(r)
        BY <2>1, TouchType DEF CreateIntent, BecomeReceiver
    <2>2. CASE ClaimReceiver(r)
        BY <2>2, TouchType DEF ClaimReceiver, TakeoverAllowed, BecomeReceiver
    <2>3. CASE CompareConfirmed(r)
        BY <2>3 DEF CompareConfirmed
    <2>4. CASE Head(r)
        BY <2>4 DEF Head
    <2>5. CASE CompareStored(r)
        BY <2>5 DEF CompareStored
    <2>6. CASE Put(r)
        BY <2>6 DEF Put, PutIfAbsent
    <2>7. CASE ReceptionFails(r)
        BY <2>7 DEF ReceptionFails, Receiving
    <2>8. CASE StopLease(r)
        BY <2>8 DEF StopLease
    <2>9. CASE Confirm(r)
        BY <2>9, TouchType DEF Confirm, Fence
    <2>10. CASE CreateJob(r)
        BY <2>10 DEF CreateJob
    <2>11. CASE FailUpload(r)
        BY <2>11, TouchType DEF FailUpload, Fence, Discarded
    <2>12. CASE DeleteBytes(r)
        BY <2>12 DEF DeleteBytes
    <2>13. CASE Refuse(r)
        BY <2>13 DEF Refuse, Active, Receiving
    <2> QED
        BY <1>1, <2>1, <2>2, <2>3, <2>4, <2>5, <2>6, <2>7,
           <2>8, <2>9, <2>10, <2>11, <2>12, <2>13 DEF RequestStep
<1>2. ASSUME NEW r \in Requests, Renew(r) PROVE TypeOK'
    BY <1>2, TouchType DEF Renew
<1>3. CASE LeaseGoesStale
    BY <1>3 DEF LeaseGoesStale
<1>4. CASE UploadExpires
    BY <1>4 DEF UploadExpires
<1>5. CASE ReconcileExpiredUpload
    BY <1>5, TouchType DEF ReconcileExpiredUpload
<1>6. CASE ReconcileOrphanObject
    BY <1>6 DEF ReconcileOrphanObject
<1>7. CASE Quiescent \/ UNCHANGED vars
    BY <1>7 DEF Quiescent, vars
<1> QED
    BY <1>1, <1>2, <1>3, <1>4, <1>5, <1>6, <1>7 DEF Next

\* Every reachable state of an upload and its requests is well typed.
THEOREM TypeCorrect == Spec => []TypeOK
<1>1. Init => TypeOK
    BY TypeInit
<1>2. TypeOK /\ [Next]_vars => TypeOK'
    BY TypeStep
<1> QED
    BY <1>1, <1>2, PTL DEF Spec
-----------------------------------------------------------------------------
(***************************************************************************)
(* The fence.                                                              *)
(***************************************************************************)

\* Where a request goes, and what becomes of the version it holds.
LEMMA GotoFacts ==
    ASSUME TypeOK, NEW r \in Requests, NEW label, Goto(r, label)
    PROVE  /\ pc'[r] = label
           /\ \A q \in Requests : q # r => pc'[q] = pc[q]
           /\ \A q \in Requests : held'[q] \in {held[q], 0}
BY DEF Goto, TypeOK

\* A request becomes the receiver with the version it has just written.
LEMMA ReceiverFacts ==
    ASSUME TypeOK, NEW r \in Requests, BecomeReceiver(r)
    PROVE  /\ pc'[r] = "head"
           /\ held'[r] = version'
           /\ \A q \in Requests : q # r => pc'[q] = pc[q] /\ held'[q] = held[q]
BY DEF BecomeReceiver, TypeOK

\* A step that leaves the version alone gives no request a version.
LEMMA FencesKept ==
    ASSUME TypeOK, Fences, version' = version, state' # "absent" => state # "absent",
           \A q \in Requests : held'[q] \in {held[q], 0}
    PROVE  Fences'
BY DEF TypeOK, Fences

\* A step that moves the version tells the new one to a single request.
LEMMA FencesMoved ==
    ASSUME TypeOK, Fences, NEW r \in Requests, version' = version + 1,
           held'[r] \in {held[r], 0, version'},
           \A q \in Requests : q # r => held'[q] \in {held[q], 0}
    PROVE  Fences'
BY DEF TypeOK, Fences

\* No action lets two requests know the version of an open row.
LEMMA FencesStep == TypeOK /\ Fences /\ [Next]_vars => Fences'
<1> SUFFICES ASSUME TypeOK, Fences, [Next]_vars PROVE Fences'
    OBVIOUS
<1> USE DEF rowVars, reqVars
<1>1. ASSUME NEW r \in Requests, RequestStep(r) PROVE Fences'
    <2>1. CASE CreateIntent(r)
        <3>1. CASE state = "absent"
            BY <2>1, <3>1, ReceiverFacts, FencesMoved DEF CreateIntent, Touch
        <3>2. CASE state # "absent"
            BY <2>1, <3>2, GotoFacts, FencesKept DEF CreateIntent
        <3> QED
            BY <3>1, <3>2
    <2>2. CASE ClaimReceiver(r)
        <3>1. CASE TakeoverAllowed /\ Touch("receiving") /\ BecomeReceiver(r)
            BY <3>1, ReceiverFacts, FencesMoved DEF Touch
        <3>2. CASE ~(TakeoverAllowed /\ Touch("receiving") /\ BecomeReceiver(r))
            BY <2>2, <3>2, GotoFacts, FencesKept DEF ClaimReceiver
        <3> QED
            BY <3>1, <3>2
    <2>3. CASE Confirm(r)
        BY <2>3, GotoFacts, FencesKept, FencesMoved DEF Confirm, Touch
    <2>4. CASE FailUpload(r)
        BY <2>4, GotoFacts, FencesKept, FencesMoved DEF FailUpload, Touch
    <2>5. CASE CompareConfirmed(r) \/ Head(r) \/ CompareStored(r)
        BY <2>5, GotoFacts, FencesKept DEF CompareConfirmed, Head, CompareStored
    <2>6. CASE Put(r) \/ ReceptionFails(r) \/ StopLease(r)
        BY <2>6, GotoFacts, FencesKept DEF Put, PutIfAbsent, ReceptionFails, StopLease
    <2>7. CASE CreateJob(r) \/ DeleteBytes(r) \/ Refuse(r)
        BY <2>7, GotoFacts, FencesKept DEF CreateJob, DeleteBytes, Refuse
    <2> QED
        BY <1>1, <2>1, <2>2, <2>3, <2>4, <2>5, <2>6, <2>7 DEF RequestStep
<1>2. ASSUME NEW r \in Requests, Renew(r) PROVE Fences'
    <2>1. CASE version' = version
        BY <1>2, <2>1, FencesKept DEF Renew, Touch, TypeOK
    <2>2. CASE version' # version
        BY <1>2, <2>2, FencesMoved DEF Renew, Touch, TypeOK
    <2> QED
        BY <2>1, <2>2
<1>3. CASE LeaseGoesStale \/ UploadExpires \/ ReconcileOrphanObject
    BY <1>3 DEF LeaseGoesStale, UploadExpires, ReconcileOrphanObject, Fences
<1>4. CASE ReconcileExpiredUpload
    BY <1>4 DEF ReconcileExpiredUpload, Touch, Fences, TypeOK
<1>5. CASE Quiescent \/ UNCHANGED vars
    BY <1>5 DEF Quiescent, vars, Fences
<1> QED
    BY <1>1, <1>2, <1>3, <1>4, <1>5 DEF Next

-----------------------------------------------------------------------------
(***************************************************************************)
(* The bytes and the decision.                                             *)
(***************************************************************************)

\* No action takes away the bytes a request verified, unless the upload failed.
LEMMA VerifiedStep == IInv /\ [Next]_vars => Verified'
<1> SUFFICES ASSUME IInv, [Next]_vars PROVE Verified'
    OBVIOUS
<1> USE DEF IInv, rowVars, reqVars
<1>1. ASSUME NEW r \in Requests, RequestStep(r) PROVE Verified'
    <2>1. CASE CreateIntent(r)
        BY <2>1, GotoFacts, ReceiverFacts DEF CreateIntent, Touch, Verified, Decided,
           TypeOK
    <2>2. CASE ClaimReceiver(r)
        BY <2>2, GotoFacts, ReceiverFacts DEF ClaimReceiver, TakeoverAllowed, Touch,
           Verified, Decided, TypeOK
    <2>3. CASE CompareConfirmed(r)
        BY <2>3, GotoFacts DEF CompareConfirmed, Verified, Decided, TypeOK
    <2>4. CASE Head(r)
        BY <2>4, GotoFacts DEF Head, Verified, Decided, TypeOK
    <2>5. CASE CompareStored(r)
        BY <2>5, GotoFacts DEF CompareStored, Verified, Decided, TypeOK
    <2>6. CASE Put(r)
        BY <2>6, GotoFacts DEF Put, PutIfAbsent, Verified, Decided, TypeOK
    <2>7. CASE ReceptionFails(r)
        BY <2>7, GotoFacts DEF ReceptionFails, Receiving, Verified, Decided, TypeOK
    <2>8. CASE StopLease(r)
        BY <2>8, GotoFacts DEF StopLease, Verified, Decided, TypeOK
    <2>9. CASE Confirm(r)
        BY <2>9, GotoFacts DEF Confirm, Touch, Fence, Verified, Decided, TypeOK
    <2>10. CASE CreateJob(r)
        BY <2>10, GotoFacts DEF CreateJob, Verified, Decided, TypeOK
    <2>11. CASE FailUpload(r)
        BY <2>11, GotoFacts DEF FailUpload, Touch, Fence, Verified, Decided, TypeOK
    <2>12. CASE DeleteBytes(r)
        BY <2>12, GotoFacts DEF DeleteBytes, Verified, Decided, TypeOK
    <2>13. CASE Refuse(r)
        BY <2>13, GotoFacts DEF Refuse, Verified, Decided, TypeOK
    <2> QED
        BY <1>1, <2>1, <2>2, <2>3, <2>4, <2>5, <2>6, <2>7,
           <2>8, <2>9, <2>10, <2>11, <2>12, <2>13 DEF RequestStep
<1>2. ASSUME NEW r \in Requests, Renew(r) PROVE Verified'
    BY <1>2 DEF Renew, Fence, Touch, Verified, Decided, TypeOK
<1>3. CASE LeaseGoesStale \/ UploadExpires \/ ReconcileOrphanObject
    BY <1>3 DEF LeaseGoesStale, UploadExpires, ReconcileOrphanObject, Verified
<1>4. CASE ReconcileExpiredUpload
    BY <1>4 DEF ReconcileExpiredUpload, Expirable, Touch, Verified
<1>5. CASE Quiescent \/ UNCHANGED vars
    BY <1>5 DEF Quiescent, vars, Verified
<1> QED
    BY <1>1, <1>2, <1>3, <1>4, <1>5 DEF Next

\* No action separates a confirmation from its bytes, its job or its answer.
LEMMA DecidedStep == IInv /\ [Next]_vars => Decided'
<1> SUFFICES ASSUME IInv, [Next]_vars PROVE Decided'
    OBVIOUS
<1> USE DEF IInv, rowVars, reqVars
<1>1. ASSUME NEW r \in Requests, RequestStep(r) PROVE Decided'
    <2>1. CASE CreateIntent(r)
        BY <2>1, GotoFacts, ReceiverFacts DEF CreateIntent, Touch, Verified, Decided,
           TypeOK
    <2>2. CASE ClaimReceiver(r)
        BY <2>2, GotoFacts, ReceiverFacts DEF ClaimReceiver, TakeoverAllowed, Touch,
           Verified, Decided, TypeOK
    <2>3. CASE CompareConfirmed(r)
        BY <2>3, GotoFacts DEF CompareConfirmed, Verified, Decided, TypeOK
    <2>4. CASE Head(r)
        BY <2>4, GotoFacts DEF Head, Verified, Decided, TypeOK
    <2>5. CASE CompareStored(r)
        BY <2>5, GotoFacts DEF CompareStored, Verified, Decided, TypeOK
    <2>6. CASE Put(r)
        BY <2>6, GotoFacts DEF Put, PutIfAbsent, Verified, Decided, TypeOK
    <2>7. CASE ReceptionFails(r)
        BY <2>7, GotoFacts DEF ReceptionFails, Receiving, Verified, Decided, TypeOK
    <2>8. CASE StopLease(r)
        BY <2>8, GotoFacts DEF StopLease, Verified, Decided, TypeOK
    <2>9. CASE Confirm(r)
        BY <2>9, GotoFacts DEF Confirm, Touch, Fence, Verified, Decided, TypeOK
    <2>10. CASE CreateJob(r)
        BY <2>10, GotoFacts DEF CreateJob, Verified, Decided, TypeOK
    <2>11. CASE FailUpload(r)
        BY <2>11, GotoFacts DEF FailUpload, Touch, Fence, Verified, Decided, TypeOK
    <2>12. CASE DeleteBytes(r)
        BY <2>12, GotoFacts DEF DeleteBytes, Verified, Decided, TypeOK
    <2>13. CASE Refuse(r)
        BY <2>13, GotoFacts DEF Refuse, Verified, Decided, TypeOK
    <2> QED
        BY <1>1, <2>1, <2>2, <2>3, <2>4, <2>5, <2>6, <2>7,
           <2>8, <2>9, <2>10, <2>11, <2>12, <2>13 DEF RequestStep
<1>2. ASSUME NEW r \in Requests, Renew(r) PROVE Decided'
    BY <1>2 DEF Renew, Fence, Touch, Verified, Decided, TypeOK
<1>3. CASE LeaseGoesStale \/ UploadExpires \/ ReconcileOrphanObject
    BY <1>3 DEF LeaseGoesStale, UploadExpires, ReconcileOrphanObject, Decided
<1>4. CASE ReconcileExpiredUpload
    BY <1>4 DEF ReconcileExpiredUpload, Expirable, Touch, Decided
<1>5. CASE Quiescent \/ UNCHANGED vars
    BY <1>5 DEF Quiescent, vars, Decided
<1> QED
    BY <1>1, <1>2, <1>3, <1>4, <1>5 DEF Next

\* The inductive invariant holds in every reachable state.
THEOREM Inductive == Spec => []IInv
<1>1. Init => IInv
    BY TypeInit DEF Init, IInv, Fences, Verified, Decided
<1>2. IInv /\ [Next]_vars => IInv'
    BY TypeStep, FencesStep, VerifiedStep, DecidedStep DEF IInv
<1> QED
    BY <1>1, <1>2, PTL DEF Spec

-----------------------------------------------------------------------------
(***************************************************************************)
(* What follows.                                                           *)
(***************************************************************************)

\* However many requests race, only one can decide the upload: two that pass
\* the fence would know the same version.
THEOREM FenceIsExclusive == Spec => []OneReceiver
<1>1. IInv => OneReceiver
    <2> SUFFICES ASSUME IInv, NEW r \in Requests, NEW q \in Requests, Fence(r), Fence(q)
                 PROVE  r = q
        BY DEF OneReceiver
    <2>1. held[r] = held[q]
        BY DEF Fence
    <2>2. held[r] # 0
        BY DEF IInv, TypeOK, Fences, Fence
    <2> QED
        BY <2>1, <2>2 DEF IInv, Fences
<1> QED
    BY <1>1, Inductive, PTL

\* The hash of a confirmed upload is the hash of the bytes storage holds.
THEOREM ConfirmedHolds == Spec => []ConfirmedBytesKept
<1>1. IInv => ConfirmedBytesKept
    BY DEF IInv, Decided, ConfirmedBytesKept
<1> QED
    BY <1>1, Inductive, PTL

\* A request answered 202 has its own file stored, confirmed and queued.
THEOREM AcceptedHolds == Spec => []AcceptedIsDurable
<1>1. IInv => AcceptedIsDurable
    BY DEF IInv, Decided, AcceptedIsDurable
<1> QED
    BY <1>1, Inductive, PTL

\* A settled upload keeps its state, and no step replaces stored bytes.
THEOREM DecisionStays == Spec => DecisionIsFinal
<1>1. [Next]_vars => [DecisionKept]_vars
    <2> SUFFICES ASSUME Next PROVE DecisionKept
        OBVIOUS
    <2> USE DEF DecisionKept, rowVars, reqVars, Settled
    <2>1. ASSUME NEW r \in Requests, RequestStep(r) PROVE DecisionKept
        BY <2>1 DEF RequestStep, CreateIntent, ClaimReceiver, TakeoverAllowed,
                    CompareConfirmed, Head, CompareStored, Put, PutIfAbsent,
                    ReceptionFails, StopLease, Confirm, CreateJob, FailUpload,
                    DeleteBytes, Refuse, Fence, Touch
    <2>2. ASSUME NEW r \in Requests, Renew(r) PROVE DecisionKept
        BY <2>2 DEF Renew, Fence, Touch
    <2>3. CASE \/ LeaseGoesStale \/ UploadExpires
               \/ ReconcileOrphanObject \/ ReconcileExpiredUpload
        BY <2>3 DEF LeaseGoesStale, UploadExpires, ReconcileOrphanObject,
                    ReconcileExpiredUpload, Expirable, Touch
    <2>4. CASE Quiescent
        BY <2>4 DEF Quiescent, vars
    <2> QED
        BY <2>1, <2>2, <2>3, <2>4 DEF Next
<1> QED
    BY <1>1, PTL DEF Spec, DecisionIsFinal

=============================================================================
