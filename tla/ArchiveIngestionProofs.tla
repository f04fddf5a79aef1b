----------------------- MODULE ArchiveIngestionProofs -----------------------
(***************************************************************************)
(* The safety of ArchiveIngestion, for archives of any length, any sets of *)
(* jobs, executions and contents, and any number of retries and failures.  *)
(*                                                                         *)
(* Two facts carry the argument.  A cleanup that was asked for is never    *)
(* taken back, and it was asked for while nothing referred to the object.  *)
(* And an execution that still owns its job is the only one that changes   *)
(* the items of it, so what it found when it began an entry is what it     *)
(* finds when it publishes it.                                             *)
(***************************************************************************)
EXTENDS ArchiveIngestion, FiniteSetTheorems, TLAPS

USE EntriesAssumption, DocumentsAssumption, ArchivesAssumption, NullAssumption,
    BoundsAssumption

\* The type invariant, in parts.
JobTypes ==
    /\ status \in [Jobs -> Status]
    /\ owner \in [Jobs -> Execs \cup {None}]
    /\ leaseLive \in [Jobs -> BOOLEAN]
    /\ retries \in [Jobs -> Nat]
    /\ releases \in [Jobs -> Nat]
ItemTypes ==
    /\ item \in [Jobs -> [Entries -> ItemState]]
    /\ counters \in [Jobs -> [ItemState \ {"none"} -> Nat]]
    /\ dirty \in [Jobs -> BOOLEAN]
ObjectTypes ==
    /\ life \in [Objects -> Lifecycle]
    /\ bytes \in [Objects -> BOOLEAN]
    /\ asked \in [Objects -> BOOLEAN]
    /\ infected \in BOOLEAN
    /\ cfdi \in [Uuids -> Objects \cup {None}]
ExecTypes ==
    /\ pc \in [Execs -> Control]
    /\ work \in [Execs -> Jobs]
    /\ at \in [Execs -> Entries]
SweepTypes ==
    /\ sweep \in [pc : {"idle", "listed", "claimed", "deleting"},
                  object : Objects]
    /\ sweeps \in Nat
Typed ==
    /\ archive \in Archives
    /\ JobTypes /\ ItemTypes /\ ObjectTypes /\ ExecTypes /\ SweepTypes

\* A row is owned while it is in progress.
Ownership ==
    \A j \in Jobs : /\ status[j] \in InProgress <=> owner[j] # None
                    /\ leaseLive[j] => owner[j] # None

\* An execution that has passed entry e has read it to its end.
Reading ==
    \A x \in Execs :
        /\ pc[x] \in {"reserve", "extract", "record"} => archive.corruptAt # 0
        /\ pc[x] = "extract" => archive.corruptAt \notin 1 .. (at[x] - 1)
        /\ pc[x] = "record" => archive.corruptAt \notin 1 .. at[x]
        /\ pc[x] \in {"parse", "xml", "publish", "completion", "returned"} =>
              archive.corruptAt = None

\* What was asked for stays asked for; usable objects have their bytes.
Retention ==
    /\ \A o \in Objects : /\ asked[o] => life[o] \in {"rejected", "deleted"}
                          /\ life[o] \in Usable => bytes[o]
    /\ bytes[Root] \/ asked[Root]
    /\ \A j \in Jobs : status[j] \in Active => ~asked[Root]
    /\ sweep.pc # "idle" => life[sweep.object] # "none"
    /\ sweep.pc \in {"claimed", "deleting"} => asked[sweep.object]

\* The object of an item.
Reserved ==
    \A j \in Jobs, e \in Entries :
        /\ item[j][e] = "none" => life[<<j, e>>] = "none"
        /\ life[<<j, e>>] = "pending_upload" =>
              Processable(e) /\ (item[j][e] \in OpenItem \/ status[j] \in Settled)

\* What an execution that owns its job knows of the entry it is at.
Here(x) == <<work[x], at[x]>>
Holds(x) ==
    pc[x] # "idle" /\ owner[work[x]] = x =>
        /\ pc[x] \in {"xml", "publish"} =>
              item[work[x]][at[x]] = "processing" /\ life[Here(x)] \in Usable
        /\ pc[x] = "record" /\ life[Here(x)] = "pending_upload" => bytes[Here(x)]
Holding == \A x \in Execs : Holds(x)

\* A source is the object of an entry that holds a document with its UUID.
Sources ==
    \A u \in Uuids : cfdi[u] # None =>
        \E j \in Jobs, e \in Entries :
            /\ cfdi[u] = <<j, e>>
            /\ archive.class[e] \in Documents
            /\ UuidOf[archive.class[e]] = u

IInv ==
    /\ Typed /\ Ownership /\ CountersAgree
    /\ Reading /\ DamagedPublishesNothing
    /\ Retention /\ Reserved /\ Holding
    /\ Sources /\ OneSourcePerUuid /\ SourceKept /\ EvidenceKept

-----------------------------------------------------------------------------
(***************************************************************************)
(* Types.                                                                  *)
(***************************************************************************)
\* The object of an entry is one.
LEMMA Placed ==
    /\ First \in Jobs /\ 1 \in Entries /\ Root \in Objects
    /\ \A j \in Jobs, e \in Entries : <<j, e>> \in Objects /\ <<j, e>> # Root
    BY DEF Jobs, Entries, Objects

\* The count of the items.
LEMMA TallyType ==
    ASSUME NEW f \in [Entries -> ItemState]
    PROVE  Tally(f) \in [ItemState \ {"none"} -> Nat]
<1>1. ASSUME NEW s \in ItemState PROVE Cardinality({e \in Entries : f[e] = s}) \in Nat
  <2>1. IsFiniteSet(Entries)
    BY FS_Interval DEF Entries
  <2> QED
    BY <2>1, FS_Subset, FS_CardinalityType
<1> QED
    BY <1>1 DEF Tally

\* Where an execution goes.
LEMMA GotoType ==
    ASSUME ExecTypes, NEW x \in Execs, NEW label \in Control, Goto(x, label)
    PROVE  ExecTypes'
    BY Placed DEF ExecTypes, Goto

LEMMA AdvanceType ==
    ASSUME ExecTypes, NEW x \in Execs, NEW here \in Control, NEW next \in Control,
           Advance(x, here, next)
    PROVE  ExecTypes'
    BY Placed DEF ExecTypes, Advance, Entries

\* One item with another state.
LEMMA ItemSet ==
    ASSUME ItemTypes, NEW j \in Jobs, NEW e \in Entries, NEW r \in ItemState,
           item' = [item EXCEPT ![j][e] = r]
    PROVE  item' \in [Jobs -> [Entries -> ItemState]]
<1>1. item[j] \in [Entries -> ItemState]
    BY DEF ItemTypes
<1>2. [item[j] EXCEPT ![e] = r] \in [Entries -> ItemState]
    BY <1>1
<1> QED
    BY <1>2 DEF ItemTypes

\* A settled job.
LEMMA SettleType ==
    ASSUME JobTypes, ItemTypes, NEW j \in Jobs, NEW s \in Status, SettleAs(j, s)
    PROVE  /\ ItemTypes'
           /\ status' \in [Jobs -> Status]
<1>1. CloseItems(j) \in [Entries -> ItemState]
    BY DEF CloseItems, ItemTypes, ItemState, OpenItem, Results
<1>2. Tally(CloseItems(j)) \in [ItemState \ {"none"} -> Nat]
    BY <1>1, TallyType
<1> QED
    BY <1>1, <1>2 DEF SettleAs, ItemTypes, JobTypes

\* A job without an owner.
LEMMA UnlockType ==
    ASSUME JobTypes, NEW j \in Jobs, Unlock(j)
    PROVE  /\ owner' \in [Jobs -> Execs \cup {None}]
           /\ leaseLive' \in [Jobs -> BOOLEAN]
    BY DEF JobTypes, Unlock

\* An item with a result.
LEMMA FinishType ==
    ASSUME ItemTypes, ExecTypes, NEW x \in Execs, NEW r \in Results, Finish(x, r)
    PROVE  ItemTypes' /\ ExecTypes'
<1> DEFINE after == [item[work[x]] EXCEPT ![at[x]] = r]
<1>1. work[x] \in Jobs /\ at[x] \in Entries
    BY DEF ExecTypes
<1>2. after \in [Entries -> ItemState]
    BY <1>1 DEF ItemTypes, ItemState
<1>3. Tally(after) \in [ItemState \ {"none"} -> Nat]
    BY <1>2, TallyType
<1>4. ItemTypes'
    BY <1>1, <1>2, <1>3 DEF Finish, ItemTypes
<1>5. Advance(x, "parse", "completion")
    BY DEF Finish
<1>6. {"parse", "completion"} \subseteq Control
    BY DEF Control, Handling
<1> QED
    BY <1>4, <1>5, <1>6, AdvanceType

\* A part nothing touches keeps its type.
LEMMA Frames ==
    /\ UNCHANGED jobVars /\ JobTypes => JobTypes'
    /\ UNCHANGED itemVars /\ ItemTypes => ItemTypes'
    /\ UNCHANGED objVars /\ ObjectTypes => ObjectTypes'
    /\ UNCHANGED execVars /\ ExecTypes => ExecTypes'
    /\ UNCHANGED <<sweep, sweeps>> /\ SweepTypes => SweepTypes'
    BY DEF jobVars, itemVars, objVars, execVars, JobTypes, ItemTypes, ObjectTypes,
           ExecTypes, SweepTypes

LEMMA TypeInit == Init => Typed
<1> SUFFICES ASSUME Init PROVE Typed
    OBVIOUS
<1>1. JobTypes /\ ObjectTypes /\ ExecTypes /\ SweepTypes
    BY Placed DEF Init, JobTypes, ObjectTypes, ExecTypes, SweepTypes, Status, Active,
                  Lifecycle, Usable, Control, NoSweep
<1>2. item \in [Jobs -> [Entries -> ItemState]]
    BY DEF Init, ItemState
<1>3. \A j \in Jobs : Tally(item[j]) \in [ItemState \ {"none"} -> Nat]
    BY <1>2, TallyType
<1>4. ItemTypes
    BY <1>2, <1>3 DEF Init, ItemTypes
<1> QED
    BY <1>1, <1>4 DEF Init, Typed

\* Every step keeps the types.
LEMMA TypeStep ==
    ASSUME Typed, [Next]_vars
    PROVE  Typed'
<1>1. ASSUME NEW x \in Execs, NEW j \in Jobs, Claim(x, j) PROVE Typed'
  <2>1. JobTypes'
    BY <1>1 DEF Claim, Typed, JobTypes, Status, Active, InProgress
  <2>2. ExecTypes'
    BY <1>1, Placed DEF Claim, Typed, ExecTypes, Control, Handling
  <2> QED
    BY <1>1, <2>1, <2>2, Frames DEF Claim, Typed
<1>2. ASSUME NEW x \in Execs, Load(x) PROVE Typed'
    BY <1>2, Frames, GotoType DEF Load, Typed, Control, Handling, Failures
<1>3. ASSUME NEW x \in Execs, RootScan(x) PROVE Typed'
  <2>1. ObjectTypes'
    BY <1>3, Placed DEF RootScan, Typed, ObjectTypes, ExecTypes, Lifecycle, Usable
  <2> QED
    BY <1>3, <2>1, Frames, GotoType DEF RootScan, Typed, Control, Handling, Failures
<1>4. ASSUME NEW x \in Execs, Inspect(x) PROVE Typed'
    BY <1>4, Frames, GotoType DEF Inspect, Typed, Control, Handling, Failures
<1>5. ASSUME NEW x \in Execs, RejectRoot(x) PROVE Typed'
  <2>1. ObjectTypes'
    BY <1>5, Placed DEF RejectRoot, Typed, ObjectTypes, ExecTypes, Lifecycle, Usable
  <2> QED
    BY <1>5, <2>1, Frames, GotoType DEF RejectRoot, Typed, Control, Handling, Failures
<1>6. ASSUME NEW x \in Execs, Reserve(x) PROVE Typed'
  <2>1. ObjectTypes'
    BY <1>6, Placed DEF Reserve, Typed, ObjectTypes, ExecTypes, Lifecycle
  <2>2. ItemTypes'
    <3>1. work[x] \in Jobs /\ at[x] \in Entries /\ item[work[x]][at[x]] \in ItemState
      BY DEF Typed, ItemTypes, ExecTypes
    <3>2. PICK r \in ItemState : item' = [item EXCEPT ![work[x]][at[x]] = r]
      BY <1>6, <3>1 DEF Reserve, ItemState, OpenItem
    <3>3. item' \in [Jobs -> [Entries -> ItemState]]
      BY <3>1, <3>2, ItemSet DEF Typed
    <3>4. dirty' \in [Jobs -> BOOLEAN] /\ counters' = counters
      BY <1>6 DEF Reserve, Typed, ItemTypes
    <3> QED
      BY <3>3, <3>4 DEF Typed, ItemTypes
  <2>3. ExecTypes'
    BY <1>6, AdvanceType DEF Reserve, Typed, Control, Handling
  <2> QED
    BY <1>6, <2>1, <2>2, <2>3, Frames DEF Reserve, Typed
<1>7. ASSUME NEW x \in Execs, Extract(x) PROVE Typed'
  <2>1. ObjectTypes'
    <3>1. \A b \in BOOLEAN : [bytes EXCEPT ![<<work[x], at[x]>>] = b] \in [Objects -> BOOLEAN]
      BY Placed DEF Typed, ObjectTypes, ExecTypes
    <3>2. (bytes[<<work[x], at[x]>>] \/ (Processable(at[x]) /\ item[work[x]][at[x]] \in OpenItem)) \in BOOLEAN
      OBVIOUS
    <3>3. bytes' \in [Objects -> BOOLEAN]
      BY <1>7, <3>1, <3>2 DEF Extract, Typed, ObjectTypes
    <3> QED
      BY <1>7, <3>3 DEF Extract, Typed, ObjectTypes
  <2> QED
    BY <1>7, <2>1, Frames, GotoType DEF Extract, Typed, Control, Handling, Failures
<1>8. ASSUME NEW x \in Execs, Extracted(x) PROVE Typed'
  <2> DEFINE after == [item[work[x]] EXCEPT ![at[x]] =
                          IF Processable(at[x]) THEN "pending" ELSE "unsupported"]
  <2>1. ObjectTypes'
    BY <1>8, Placed DEF Extracted, Typed, ObjectTypes, ExecTypes, Lifecycle, Usable
  <2>2. after \in [Entries -> ItemState]
    BY DEF Typed, ItemTypes, ExecTypes, ItemState, OpenItem, Results
  <2>3. Tally(after) \in [ItemState \ {"none"} -> Nat]
    BY <2>2, TallyType
  <2>4. ItemTypes'
    <3>1. work[x] \in Jobs
      BY DEF Typed, ExecTypes
    <3>2. CASE Recorded(work[x], at[x])
      BY <1>8, <3>2, Frames DEF Extracted, Typed
    <3>3. CASE ~Recorded(work[x], at[x])
      <4>1. /\ item' = [item EXCEPT ![work[x]] = after]
            /\ counters' = [counters EXCEPT ![work[x]] = Tally(after)]
            /\ dirty' = [dirty EXCEPT ![work[x]] = FALSE]
        BY <1>8, <3>3 DEF Extracted
      <4> HIDE DEF after
      <4> QED
        BY <2>2, <2>3, <3>1, <4>1 DEF Typed, ItemTypes
    <3> QED
      BY <3>2, <3>3
  <2>5. ExecTypes'
    BY <1>8, AdvanceType DEF Extracted, Typed, Control, Handling
  <2> QED
    BY <1>8, <2>1, <2>4, <2>5, Frames DEF Extracted, Typed
<1>9. ASSUME NEW x \in Execs, Begin(x) PROVE Typed'
  <2>1. ItemTypes'
    <3>1. work[x] \in Jobs /\ at[x] \in Entries /\ "processing" \in ItemState
      BY DEF Typed, ExecTypes, ItemState, OpenItem
    <3>2. CASE UNCHANGED <<item, dirty>>
      BY <1>9, <3>2 DEF Begin, Typed, ItemTypes
    <3>3. CASE /\ item' = [item EXCEPT ![work[x]][at[x]] = "processing"]
               /\ dirty' = [dirty EXCEPT ![work[x]] = TRUE]
      <4>1. item' \in [Jobs -> [Entries -> ItemState]]
        BY <3>1, <3>3, ItemSet DEF Typed
      <4> QED
        BY <1>9, <3>3, <4>1 DEF Begin, Typed, ItemTypes
    <3> QED
      BY <1>9, <3>2, <3>3 DEF Begin
  <2> QED
    BY <1>9, <2>1, Frames, GotoType, AdvanceType DEF Begin, Typed, Control, Handling, Failures
<1>10. ASSUME NEW x \in Execs, ScanXml(x) PROVE Typed'
  <2>1. ObjectTypes'
    BY <1>10, Placed DEF ScanXml, Typed, ObjectTypes, ExecTypes, Lifecycle, Usable
  <2> QED
    BY <1>10, <2>1, Frames, FinishType, GotoType
       DEF ScanXml, Typed, Control, Handling, Results
<1>11. ASSUME NEW x \in Execs, PublishRejected(x) PROVE Typed'
  <2>1. ObjectTypes'
    BY <1>11, Placed DEF PublishRejected, Typed, ObjectTypes, ExecTypes, Lifecycle, Usable
  <2> QED
    BY <1>11, <2>1, Frames, FinishType, GotoType
       DEF PublishRejected, Typed, Control, Handling, Results
<1>12. ASSUME NEW x \in Execs, PublishParsed(x) PROVE Typed'
  <2>1. ObjectTypes'
    <3>1. <<work[x], at[x]>> \in Objects
      BY Placed DEF Typed, ExecTypes
    <3>2. \A s \in {"available", "quarantined"} :
              [life EXCEPT ![<<work[x], at[x]>>] = s] \in [Objects -> Lifecycle]
      BY DEF Typed, ObjectTypes, Lifecycle, Usable
    <3>3. life' \in [Objects -> Lifecycle]
      BY <1>12, <3>2 DEF PublishParsed, Spare
    <3>4. cfdi' \in [Uuids -> Objects \cup {None}]
      BY <1>12, <3>1 DEF PublishParsed, Typed, ObjectTypes
    <3> QED
      BY <1>12, <3>3, <3>4 DEF PublishParsed, Typed, ObjectTypes
  <2> QED
    BY <1>12, <2>1, Frames, FinishType, GotoType
       DEF PublishParsed, Typed, Control, Handling, Results
<1>13. ASSUME NEW x \in Execs, Completion(x) PROVE Typed'
    BY <1>13, Frames, GotoType DEF Completion, Typed, Control, Handling, Failures
<1>14. ASSUME NEW x \in Execs, Complete(x) PROVE Typed'
  <2>1. work[x] \in Jobs
    BY DEF Typed, ExecTypes
  <2>2. ItemTypes' /\ status' \in [Jobs -> Status]
    BY <1>14, <2>1, SettleType DEF Complete, Typed, Status, Settled
  <2>3. JobTypes'
    BY <1>14, <2>1, <2>2, UnlockType DEF Complete, Typed, JobTypes
  <2> QED
    BY <1>14, <2>2, <2>3, Frames, GotoType DEF Complete, Typed, Control
<1>15. ASSUME NEW x \in Execs, AcknowledgeCancel(x) PROVE Typed'
  <2>1. work[x] \in Jobs
    BY DEF Typed, ExecTypes
  <2>2. ItemTypes' /\ status' \in [Jobs -> Status]
    BY <1>15, <2>1, SettleType DEF AcknowledgeCancel, Typed, Status, Settled
  <2>3. JobTypes'
    BY <1>15, <2>1, <2>2, UnlockType DEF AcknowledgeCancel, Typed, JobTypes
  <2> QED
    BY <1>15, <2>2, <2>3, Frames, GotoType DEF AcknowledgeCancel, Typed, Control
<1>16. ASSUME NEW x \in Execs, FailFinal(x) PROVE Typed'
  <2>1. work[x] \in Jobs
    BY DEF Typed, ExecTypes
  <2>2. ItemTypes' /\ status' \in [Jobs -> Status]
    BY <1>16, <2>1, SettleType DEF FailFinal, Typed, Status, Settled
  <2>3. JobTypes'
    BY <1>16, <2>1, <2>2, UnlockType DEF FailFinal, Typed, JobTypes
  <2> QED
    BY <1>16, <2>2, <2>3, Frames, GotoType DEF FailFinal, Typed, Control
<1>17. ASSUME NEW x \in Execs, ScheduleRetry(x) PROVE Typed'
  <2>1. work[x] \in Jobs
    BY DEF Typed, ExecTypes
  <2>2. JobTypes'
    BY <1>17, <2>1, UnlockType DEF ScheduleRetry, Typed, JobTypes, Status, Active
  <2> QED
    BY <1>17, <2>2, Frames, GotoType DEF ScheduleRetry, Typed, Control
<1>18. ASSUME NEW x \in Execs, Release(x) PROVE Typed'
  <2>1. work[x] \in Jobs
    BY DEF Typed, ExecTypes
  <2>2. JobTypes'
    BY <1>18, <2>1, UnlockType DEF Release, Typed, JobTypes, Status, Active
  <2> QED
    BY <1>18, <2>2, Frames, GotoType DEF Release, Typed, Control
<1>19. ASSUME NEW x \in Execs, GiveUp(x) PROVE Typed'
    BY <1>19, Frames, GotoType DEF GiveUp, Typed, Control, Handling, Failures
<1>20. ASSUME NEW x \in Execs, HandlerThrows(x) PROVE Typed'
    BY <1>20, Frames, GotoType DEF HandlerThrows, Typed, Control, Handling, Failures
<1>21. ASSUME NEW j \in Jobs, LeaseExpires(j) PROVE Typed'
  <2>1. JobTypes'
    BY <1>21 DEF LeaseExpires, Typed, JobTypes
  <2> QED
    BY <1>21, <2>1, Frames DEF LeaseExpires, Typed
<1>22. ASSUME NEW j \in Jobs, CancelQueued(j) PROVE Typed'
  <2>1. ItemTypes' /\ status' \in [Jobs -> Status]
    BY <1>22, SettleType DEF CancelQueued, Typed, Status, Settled
  <2>2. JobTypes'
    BY <1>22, <2>1 DEF CancelQueued, Typed, JobTypes
  <2> QED
    BY <1>22, <2>1, <2>2, Frames DEF CancelQueued, Typed
<1>23. ASSUME NEW j \in Jobs, CancelProcessing(j) PROVE Typed'
  <2>1. JobTypes'
    BY <1>23 DEF CancelProcessing, Typed, JobTypes, Status, Active, InProgress
  <2> QED
    BY <1>23, <2>1, Frames DEF CancelProcessing, Typed
<1>24. ASSUME NEW j \in Jobs, AdmitRetry(j) PROVE Typed'
  <2>1. JobTypes'
    BY <1>24 DEF AdmitRetry, Typed, JobTypes, Status, Active, InProgress
  <2> QED
    BY <1>24, <2>1, Frames DEF AdmitRetry, Typed
<1>25. ASSUME NEW j \in Jobs, RecoverLease(j) PROVE Typed'
  <2>1. ItemTypes' /\ status' \in [Jobs -> Status]
    BY <1>25, SettleType, Frames
       DEF RecoverLease, Typed, Status, Settled, Active, JobTypes
  <2>2. retries' \in [Jobs -> Nat]
    BY <1>25 DEF RecoverLease, Typed, JobTypes
  <2>3. JobTypes'
    BY <1>25, <2>1, <2>2, UnlockType DEF RecoverLease, Typed, JobTypes
  <2> QED
    BY <1>25, <2>1, <2>3, Frames DEF RecoverLease, Typed
<1>26. ASSUME NEW j \in Jobs, FailRootless(j) PROVE Typed'
  <2>1. ItemTypes' /\ status' \in [Jobs -> Status]
    BY <1>26, SettleType DEF FailRootless, Typed, Status, Settled
  <2>2. JobTypes'
    BY <1>26, <2>1 DEF FailRootless, Typed, JobTypes
  <2> QED
    BY <1>26, <2>1, <2>2, Frames DEF FailRootless, Typed
<1>27. ASSUME NEW j \in Jobs, RepairCounters(j) PROVE Typed'
  <2>1. Tally(item[j]) \in [ItemState \ {"none"} -> Nat]
    BY TallyType DEF Typed, ItemTypes
  <2>2. ItemTypes'
    BY <1>27, <2>1 DEF RepairCounters, Typed, ItemTypes
  <2> QED
    BY <1>27, <2>2, Frames DEF RepairCounters, Typed
<1>28. ASSUME NEW o \in Objects, RejectOrphan(o) PROVE Typed'
  <2>1. ObjectTypes'
    BY <1>28 DEF RejectOrphan, Typed, ObjectTypes, Lifecycle
  <2> QED
    BY <1>28, <2>1, Frames DEF RejectOrphan, Typed
<1>29. ASSUME NEW o \in Objects, ListCandidate(o) PROVE Typed'
  <2>1. SweepTypes'
    BY <1>29 DEF ListCandidate, Typed, SweepTypes
  <2> QED
    BY <1>29, <2>1, Frames DEF ListCandidate, Typed
<1>30. ASSUME ClaimCleanup PROVE Typed'
  <2>1. ObjectTypes' /\ SweepTypes'
    <3>1. sweep.object \in Objects /\ NoSweep \in [pc : {"idle", "listed", "claimed",
                                                          "deleting"}, object : Objects]
      BY Placed DEF Typed, SweepTypes, NoSweep
    <3>2. [sweep EXCEPT !.pc = "claimed"] \in [pc : {"idle", "listed", "claimed",
                                                   "deleting"}, object : Objects]
      BY DEF Typed, SweepTypes
    <3>3. SweepTypes'
      BY <1>30, <3>1, <3>2 DEF ClaimCleanup, Typed, SweepTypes
    <3> QED
      BY <1>30, <3>1, <3>3 DEF ClaimCleanup, Typed, ObjectTypes, Lifecycle
  <2> QED
    BY <1>30, <2>1, Frames DEF ClaimCleanup, Typed
<1>31. ASSUME DeleteBytes PROVE Typed'
  <2>1. ObjectTypes' /\ SweepTypes'
    BY <1>31, Placed DEF DeleteBytes, Typed, ObjectTypes, SweepTypes, Lifecycle, NoSweep
  <2> QED
    BY <1>31, <2>1, Frames DEF DeleteBytes, Typed
<1>32. ASSUME MarkDeleted PROVE Typed'
  <2>1. ObjectTypes' /\ SweepTypes'
    BY <1>32, Placed DEF MarkDeleted, Typed, ObjectTypes, SweepTypes, Lifecycle, NoSweep
  <2> QED
    BY <1>32, <2>1, Frames DEF MarkDeleted, Typed
<1>33. ASSUME CleanerFails PROVE Typed'
  <2>1. SweepTypes'
    BY <1>33, Placed DEF CleanerFails, Typed, SweepTypes, NoSweep
  <2> QED
    BY <1>33, <2>1, Frames DEF CleanerFails, Typed
<1>34. CASE UNCHANGED vars
  <2>1. UNCHANGED vars
    BY <1>34 DEF vars, jobVars, itemVars, objVars, execVars
  <2> QED
    BY <2>1, Frames DEF Typed, vars
<1> QED
    BY <1>1, <1>2, <1>3, <1>4, <1>5, <1>6, <1>7, <1>8, <1>9, <1>10, <1>11, <1>12,
       <1>13, <1>14, <1>15, <1>16, <1>17, <1>18, <1>19, <1>20, <1>21, <1>22, <1>23,
       <1>24, <1>25, <1>26, <1>27, <1>28, <1>29, <1>30, <1>31, <1>32, <1>33, <1>34 DEF
       Next, Step, Settle, Sweep

-----------------------------------------------------------------------------
(***************************************************************************)
(* What a step may do to a job, to an item and to an object.               *)
(***************************************************************************)
Moved(x) == pc'[x] # pc[x] \/ at'[x] # at[x]

JobMoves(k) ==
    \/ /\ status'[k] = status[k] /\ owner'[k] = owner[k]
       /\ leaseLive'[k] => leaseLive[k]
    \/ /\ status[k] = "queued" /\ status'[k] = "processing"
       /\ \E x \in Execs : owner'[k] = x /\ pc[x] = "idle" /\ pc'[x] = "load"
    \/ /\ status[k] \in Active /\ status'[k] \in {"queued"} \cup Settled
       /\ owner'[k] = None /\ ~leaseLive'[k]
    \/ /\ status[k] = "processing" /\ status'[k] = "cancel_requested"
       /\ owner'[k] = owner[k] /\ leaseLive'[k] = leaseLive[k]
    \/ /\ status[k] = "absent" /\ status'[k] = "queued"
       /\ owner'[k] = owner[k] /\ leaseLive'[k] = leaseLive[k]
       /\ ~asked[Root]

\* Every step does one of these to a job.
LEMMA JobEffect ==
    ASSUME Typed, Ownership, [Next]_vars, NEW k \in Jobs
    PROVE  JobMoves(k)
<1>t. /\ status \in [Jobs -> Status] /\ owner \in [Jobs -> Execs \cup {None}]
      /\ leaseLive \in [Jobs -> BOOLEAN] /\ work \in [Execs -> Jobs]
      /\ pc \in [Execs -> Control]
    BY DEF Typed, JobTypes, ExecTypes
<1>1. ASSUME NEW x \in Execs, NEW j \in Jobs, Claim(x, j) PROVE JobMoves(k)
    BY <1>1, <1>t DEF Claim, Typed, JobTypes, ExecTypes, JobMoves, Active
<1>2. ASSUME NEW x \in Execs, Complete(x) PROVE JobMoves(k)
    BY <1>2, <1>t DEF Complete, Fence, Owns, SettleAs, Unlock, Settled, InProgress,
       JobMoves, Active
<1>3. ASSUME NEW x \in Execs, AcknowledgeCancel(x) PROVE JobMoves(k)
    BY <1>3, <1>t DEF AcknowledgeCancel, Fence, Owns, SettleAs, Unlock, Settled,
       InProgress, JobMoves, Active
<1>4. ASSUME NEW x \in Execs, FailFinal(x) PROVE JobMoves(k)
    BY <1>4, <1>t DEF FailFinal, Fence, Owns, SettleAs, Unlock, Settled, InProgress,
       JobMoves, Active
<1>5. ASSUME NEW x \in Execs, ScheduleRetry(x) PROVE JobMoves(k)
    BY <1>5, <1>t DEF ScheduleRetry, Fence, Owns, Unlock, InProgress, JobMoves, Active
<1>6. ASSUME NEW x \in Execs, Release(x) PROVE JobMoves(k)
    BY <1>6, <1>t DEF Release, Fence, Owns, Unlock, InProgress, JobMoves, Active
<1>7. ASSUME NEW j \in Jobs, LeaseExpires(j) PROVE JobMoves(k)
    BY <1>7, <1>t DEF LeaseExpires, JobMoves, Active
<1>8. ASSUME NEW j \in Jobs, CancelQueued(j) PROVE JobMoves(k)
    BY <1>8, <1>t DEF CancelQueued, SettleAs, Rootless, Settled, Ownership, InProgress,
       JobMoves, Active
<1>9. ASSUME NEW j \in Jobs, CancelProcessing(j) PROVE JobMoves(k)
    BY <1>9, <1>t DEF CancelProcessing, JobMoves, Active
<1>10. ASSUME NEW j \in Jobs, AdmitRetry(j) PROVE JobMoves(k)
    BY <1>10, <1>t DEF AdmitRetry, RootReady, JobMoves, Active
<1>11. ASSUME NEW j \in Jobs, RecoverLease(j) PROVE JobMoves(k)
    BY <1>11, <1>t DEF RecoverLease, SettleAs, Unlock, Lapsed, Settled, InProgress,
       JobMoves, Active
<1>12. ASSUME NEW j \in Jobs, FailRootless(j) PROVE JobMoves(k)
    BY <1>12, <1>t DEF FailRootless, SettleAs, Rootless, Settled, Ownership,
       InProgress, JobMoves, Active
<1>13. ASSUME NEW x \in Execs,
             Load(x) \/ RootScan(x) \/ Inspect(x) \/ RejectRoot(x) \/ Reserve(x) \/
             Extract(x) \/ Extracted(x) \/ Begin(x) \/ ScanXml(x) \/
             PublishRejected(x) \/ PublishParsed(x) \/ Completion(x) \/ GiveUp(x)
             \/ HandlerThrows(x)
      PROVE  JobMoves(k)
  <2>1. UNCHANGED <<status, owner, leaseLive>>
    BY <1>13 DEF Load, RootScan, Inspect, RejectRoot, Reserve, Extract, Extracted,
       Begin, ScanXml, PublishRejected, PublishParsed, Completion, GiveUp,
       HandlerThrows, jobVars, itemVars, objVars, execVars
  <2> QED
    BY <2>1 DEF JobMoves
<1>14. ASSUME NEW j \in Jobs,
             RepairCounters(j)
      PROVE  JobMoves(k)
  <2>1. UNCHANGED <<status, owner, leaseLive>>
    BY <1>14 DEF RepairCounters, jobVars, itemVars, objVars, execVars
  <2> QED
    BY <2>1 DEF JobMoves
<1>15. ASSUME NEW o \in Objects,
             RejectOrphan(o) \/ ListCandidate(o)
      PROVE  JobMoves(k)
  <2>1. UNCHANGED <<status, owner, leaseLive>>
    BY <1>15 DEF RejectOrphan, ListCandidate, jobVars, itemVars, objVars, execVars
  <2> QED
    BY <2>1 DEF JobMoves
<1>16. ASSUME ClaimCleanup \/ DeleteBytes \/ MarkDeleted \/ CleanerFails
      PROVE  JobMoves(k)
  <2>1. UNCHANGED <<status, owner, leaseLive>>
    BY <1>16 DEF ClaimCleanup, DeleteBytes, MarkDeleted, CleanerFails, jobVars,
       itemVars, objVars, execVars
  <2> QED
    BY <2>1 DEF JobMoves
<1>17. CASE UNCHANGED vars
  <2>1. UNCHANGED <<status, owner, leaseLive>>
    BY <1>17 DEF vars, jobVars, itemVars, objVars, execVars
  <2> QED
    BY <2>1 DEF JobMoves
<1> QED
    BY <1>1, <1>2, <1>3, <1>4, <1>5, <1>6, <1>7, <1>8, <1>9, <1>10, <1>11, <1>12,
       <1>13, <1>14, <1>15, <1>16, <1>17 DEF Next, Step, Settle, Sweep
\* An execution changes its job while it owns it.
AtWork(x, k) ==
    /\ pc[x] # "idle" /\ work[x] = k /\ owner[k] = x /\ status[k] = "processing"
    /\ Moved(x)

ItemMoves(k, e) ==
    \/ item'[k][e] = item[k][e]
    \/ \E x \in Execs :
          /\ AtWork(x, k)
          /\ \/ item[k][e] = "none" /\ item'[k][e] = "pending"
             \/ /\ item[k][e] \notin Results
                /\ item'[k][e] = IF Processable(e) THEN "pending" ELSE "unsupported"
             \/ item[k][e] \in OpenItem /\ item'[k][e] = "processing"
             \/ /\ pc[x] \in {"xml", "publish"} /\ at[x] = e
                /\ item'[k][e] \in Results
                /\ life'[<<k, e>>] = IF item'[k][e] = "incorporated" THEN "available"
                                     ELSE "quarantined"
                /\ UNCHANGED <<bytes, asked>>
                /\ item'[k][e] \in {"incorporated", "duplicate"} => PublishParsed(x)
    \/ /\ item[k][e] \in OpenItem /\ item'[k][e] = "internal_error"
       /\ status'[k] \in Settled /\ owner'[k] = None

Same(p) == bytes'[p] = bytes[p] /\ asked'[p] = asked[p]

ObjectMoves(p) ==
    \/ life'[p] = life[p] /\ Same(p)
    \/ /\ p = Root /\ \E k \in Jobs : status[k] = "processing"
       /\ life'[p] = "rejected" \/ (life[p] \in Usable /\ life'[p] \in Usable)
       /\ Same(p)
    \/ life'[p] = life[p] /\ bytes'[p] = TRUE /\ asked'[p] = asked[p]
    \/ \E k \in Jobs, e \in Entries, x \in Execs :
          /\ p = <<k, e>> /\ AtWork(x, k) /\ Same(p)
          /\ \/ /\ item[k][e] = "none" /\ item'[k][e] = "pending"
                /\ Processable(e) /\ life'[p] = "pending_upload"
             \/ /\ pc[x] = "record" /\ at[x] = e
                /\ life[p] = "pending_upload" /\ life'[p] = "uploaded"
             \/ /\ pc[x] \in {"xml", "publish"} /\ at[x] = e
                /\ life'[p] \in {"quarantined", "available"}
    \/ life[p] = "pending_upload" /\ life'[p] = "rejected" /\ Same(p)
    \/ /\ p = sweep.object /\ sweep.pc = "listed" /\ ~Referenced(p)
       /\ life'[p] = "rejected" /\ asked'[p] = TRUE /\ bytes'[p] = bytes[p]
       /\ status' = status
    \/ /\ p = sweep.object /\ sweep.pc = "claimed"
       /\ life'[p] = life[p] /\ asked'[p] = asked[p]
    \/ /\ p = sweep.object /\ sweep.pc = "deleting"
       /\ life'[p] = "deleted" /\ Same(p)

\* Every step does one of these to an item.
LEMMA ItemEffect ==
    ASSUME Typed, Ownership, [Next]_vars, NEW k \in Jobs, NEW e \in Entries
    PROVE  ItemMoves(k, e)
<1>t. /\ status \in [Jobs -> Status] /\ owner \in [Jobs -> Execs \cup {None}]
      /\ work \in [Execs -> Jobs] /\ pc \in [Execs -> Control]
      /\ at \in [Execs -> Entries] /\ item \in [Jobs -> [Entries -> ItemState]]
      /\ item[k] \in [Entries -> ItemState]
      /\ life \in [Objects -> Lifecycle]
      /\ \A x \in Execs : <<work[x], at[x]>> \in Objects /\ at[x] + 1 # at[x]
    BY Placed DEF Typed, JobTypes, ExecTypes, ItemTypes, ObjectTypes, Entries
<1>1. ASSUME NEW x \in Execs, Reserve(x) PROVE ItemMoves(k, e)
  <2>1. AtWork(x, work[x])
    BY <1>1, <1>t DEF Reserve, Fence, Owns, AtWork, Moved, Advance
  <2>2. item' = [item EXCEPT ![work[x]][at[x]] =
                    IF item[work[x]][at[x]] = "none" THEN "pending" ELSE @]
    BY <1>1 DEF Reserve
  <2>3. CASE k = work[x] /\ e = at[x] /\ item[k][e] = "none"
    BY <1>t, <2>1, <2>2, <2>3 DEF ItemMoves
  <2>4. CASE ~(k = work[x] /\ e = at[x] /\ item[k][e] = "none")
    <3>1. item'[k][e] = item[k][e]
      BY <1>t, <2>2, <2>4
    <3> QED
      BY <3>1 DEF ItemMoves
  <2> QED
    BY <2>3, <2>4
<1>2. ASSUME NEW x \in Execs, Extracted(x) PROVE ItemMoves(k, e)
    BY <1>2, <1>t DEF Extracted, Fence, Owns, AtWork, Moved, Advance, Recorded,
       itemVars, ItemMoves
<1>3. ASSUME NEW x \in Execs, Begin(x) PROVE ItemMoves(k, e)
  <2>1. CASE item' = item
    BY <2>1 DEF ItemMoves
  <2>2. CASE /\ item[work[x]][at[x]] \in OpenItem
             /\ item' = [item EXCEPT ![work[x]][at[x]] = "processing"]
             /\ Goto(x, "xml")
    <3>1. AtWork(x, work[x])
      BY <1>3, <1>t, <2>2 DEF Begin, Fence, Owns, AtWork, Moved, Goto
    <3>2. CASE k = work[x] /\ e = at[x]
      BY <1>t, <2>2, <3>1, <3>2 DEF ItemMoves
    <3>3. CASE ~(k = work[x] /\ e = at[x])
      <4>1. item'[k][e] = item[k][e]
        BY <1>t, <2>2, <3>3
      <4> QED
        BY <4>1 DEF ItemMoves
    <3> QED
      BY <3>2, <3>3
  <2> QED
    BY <1>3, <2>1, <2>2 DEF Begin
<1>4. ASSUME NEW x \in Execs, ScanXml(x) PROVE ItemMoves(k, e)
    BY <1>4, <1>t DEF ScanXml, Fence, Owns, AtWork, Moved, Advance, Finish, Results,
       itemVars, ItemMoves
<1>5. ASSUME NEW x \in Execs, PublishRejected(x) PROVE ItemMoves(k, e)
    BY <1>5, <1>t DEF PublishRejected, Fence, Owns, AtWork, Moved, Advance, Finish,
       Results, ItemMoves
<1>6. ASSUME NEW x \in Execs, PublishParsed(x) PROVE ItemMoves(k, e)
  <2>1. PICK r \in {"incorporated", "duplicate", "invalid"} :
           /\ Finish(x, r)
           /\ life' = [life EXCEPT ![<<work[x], at[x]>>] =
                          IF r = "incorporated" THEN "available" ELSE "quarantined"]
    BY <1>6 DEF PublishParsed, Spare
  <2>2. AtWork(x, work[x])
    BY <1>6, <1>t, <2>1 DEF PublishParsed, Finish, Fence, Owns, AtWork, Moved, Advance
  <2>3. item' = [item EXCEPT ![work[x]] = [item[work[x]] EXCEPT ![at[x]] = r]]
    BY <2>1 DEF Finish
  <2>4. CASE k = work[x] /\ e = at[x]
    <3>1. item'[k][e] = r /\ r \in Results
      BY <1>t, <2>3, <2>4 DEF Results
    <3>2. life'[<<k, e>>] = IF r = "incorporated" THEN "available" ELSE "quarantined"
      BY <1>t, <2>1, <2>4
    <3>3. pc[x] \in {"xml", "publish"} /\ UNCHANGED <<bytes, asked>>
      BY <1>6 DEF PublishParsed
    <3> QED
      BY <1>6, <2>2, <2>4, <3>1, <3>2, <3>3 DEF ItemMoves
  <2>5. CASE ~(k = work[x] /\ e = at[x])
    <3>1. item'[k][e] = item[k][e]
      BY <1>t, <2>3, <2>5
    <3> QED
      BY <3>1 DEF ItemMoves
  <2> QED
    BY <2>4, <2>5
<1>7. ASSUME NEW x \in Execs, Complete(x) PROVE ItemMoves(k, e)
    BY <1>7, <1>t DEF Complete, SettleAs, CloseItems, Unlock, Settled, ItemMoves
<1>8. ASSUME NEW x \in Execs, AcknowledgeCancel(x) PROVE ItemMoves(k, e)
    BY <1>8, <1>t DEF AcknowledgeCancel, SettleAs, CloseItems, Unlock, Settled,
       ItemMoves
<1>9. ASSUME NEW x \in Execs, FailFinal(x) PROVE ItemMoves(k, e)
    BY <1>9, <1>t DEF FailFinal, SettleAs, CloseItems, Unlock, Settled, ItemMoves
<1>10. ASSUME NEW j \in Jobs, CancelQueued(j) PROVE ItemMoves(k, e)
    BY <1>10, <1>t DEF CancelQueued, SettleAs, CloseItems, Settled, Ownership,
       InProgress, Rootless, ItemMoves
<1>11. ASSUME NEW j \in Jobs, RecoverLease(j) PROVE ItemMoves(k, e)
    BY <1>11, <1>t DEF RecoverLease, SettleAs, CloseItems, Unlock, Settled, itemVars,
       ItemMoves
<1>12. ASSUME NEW j \in Jobs, FailRootless(j) PROVE ItemMoves(k, e)
    BY <1>12, <1>t DEF FailRootless, SettleAs, CloseItems, Settled, Ownership,
       InProgress, Rootless, ItemMoves
<1>13. ASSUME NEW x \in Execs,
             Load(x) \/ RootScan(x) \/ Inspect(x) \/ RejectRoot(x) \/ Extract(x) \/
             Completion(x) \/ ScheduleRetry(x) \/ Release(x) \/ GiveUp(x) \/
             HandlerThrows(x)
      PROVE  ItemMoves(k, e)
  <2>1. UNCHANGED item
    BY <1>13 DEF Load, RootScan, Inspect, RejectRoot, Extract, Completion,
       ScheduleRetry, Release, GiveUp, HandlerThrows, jobVars, itemVars, objVars,
       execVars
  <2> QED
    BY <2>1 DEF ItemMoves
<1>14. ASSUME NEW x \in Execs, NEW j \in Jobs, Claim(x, j) PROVE ItemMoves(k, e)
  <2>1. UNCHANGED item
    BY <1>14 DEF Claim, jobVars, itemVars, objVars, execVars
  <2> QED
    BY <2>1 DEF ItemMoves
<1>15. ASSUME NEW j \in Jobs,
             LeaseExpires(j) \/ CancelProcessing(j) \/ AdmitRetry(j) \/
             RepairCounters(j)
      PROVE  ItemMoves(k, e)
  <2>1. UNCHANGED item
    BY <1>15 DEF LeaseExpires, CancelProcessing, AdmitRetry, RepairCounters, jobVars,
       itemVars, objVars, execVars
  <2> QED
    BY <2>1 DEF ItemMoves
<1>16. ASSUME NEW o \in Objects,
             RejectOrphan(o) \/ ListCandidate(o)
      PROVE  ItemMoves(k, e)
  <2>1. UNCHANGED item
    BY <1>16 DEF RejectOrphan, ListCandidate, jobVars, itemVars, objVars, execVars
  <2> QED
    BY <2>1 DEF ItemMoves
<1>17. ASSUME ClaimCleanup \/ DeleteBytes \/ MarkDeleted \/ CleanerFails
      PROVE  ItemMoves(k, e)
  <2>1. UNCHANGED item
    BY <1>17 DEF ClaimCleanup, DeleteBytes, MarkDeleted, CleanerFails, jobVars,
       itemVars, objVars, execVars
  <2> QED
    BY <2>1 DEF ItemMoves
<1>18. CASE UNCHANGED vars
  <2>1. UNCHANGED item
    BY <1>18 DEF vars, jobVars, itemVars, objVars, execVars
  <2> QED
    BY <2>1 DEF ItemMoves
<1> QED
    BY <1>1, <1>2, <1>3, <1>4, <1>5, <1>6, <1>7, <1>8, <1>9, <1>10, <1>11, <1>12,
       <1>13, <1>14, <1>15, <1>16, <1>17, <1>18 DEF Next, Step, Settle, Sweep

\* Every step does one of these to an object.
LEMMA ObjectEffect ==
    ASSUME Typed, [Next]_vars, NEW p \in Objects
    PROVE  ObjectMoves(p)
<1>t. /\ status \in [Jobs -> Status] /\ work \in [Execs -> Jobs]
      /\ pc \in [Execs -> Control] /\ at \in [Execs -> Entries]
      /\ item \in [Jobs -> [Entries -> ItemState]]
      /\ life \in [Objects -> Lifecycle] /\ bytes \in [Objects -> BOOLEAN]
      /\ asked \in [Objects -> BOOLEAN] /\ Root \in Objects
      /\ \A x \in Execs : <<work[x], at[x]>> \in Objects /\ at[x] + 1 # at[x]
    BY Placed DEF Typed, JobTypes, ExecTypes, ItemTypes, ObjectTypes, Entries
<1>1. ASSUME NEW x \in Execs, RootScan(x) PROVE ObjectMoves(p)
    BY <1>1, <1>t DEF RootScan, Fence, Owns, Usable, ObjectMoves, Same
<1>2. ASSUME NEW x \in Execs, RejectRoot(x) PROVE ObjectMoves(p)
    BY <1>2, <1>t DEF RejectRoot, Fence, Owns, ObjectMoves, Same
<1>3. ASSUME NEW x \in Execs, Reserve(x) PROVE ObjectMoves(p)
  <2>1. AtWork(x, work[x])
    BY <1>3, <1>t DEF Reserve, Fence, Owns, AtWork, Moved, Advance
  <2>2. Same(p)
    BY <1>3 DEF Reserve, Same
  <2>3. CASE /\ p = <<work[x], at[x]>> /\ item[work[x]][at[x]] = "none"
             /\ Processable(at[x])
    <3>1. life'[p] = "pending_upload" /\ item'[work[x]][at[x]] = "pending"
      BY <1>3, <1>t, <2>3 DEF Reserve
    <3> QED
      BY <1>t, <2>1, <2>2, <2>3, <3>1 DEF ObjectMoves
  <2>4. CASE ~(/\ p = <<work[x], at[x]>> /\ item[work[x]][at[x]] = "none"
               /\ Processable(at[x]))
    <3>1. life'[p] = life[p]
      BY <1>3, <1>t, <2>4 DEF Reserve
    <3> QED
      BY <2>2, <3>1 DEF ObjectMoves
  <2> QED
    BY <2>3, <2>4
<1>4. ASSUME NEW x \in Execs, Extract(x) PROVE ObjectMoves(p)
    BY <1>4, <1>t DEF Extract, ObjectMoves, Same
<1>5. ASSUME NEW x \in Execs, Extracted(x) PROVE ObjectMoves(p)
    BY <1>5, <1>t DEF Extracted, Fence, Owns, AtWork, Moved, Advance, ObjectMoves, Same
<1>6. ASSUME NEW x \in Execs, ScanXml(x) PROVE ObjectMoves(p)
    BY <1>6, <1>t DEF ScanXml, Fence, Owns, AtWork, Moved, Advance, Finish, Goto,
       ObjectMoves, Same
<1>7. ASSUME NEW x \in Execs, PublishRejected(x) PROVE ObjectMoves(p)
    BY <1>7, <1>t DEF PublishRejected, Fence, Owns, AtWork, Moved, Advance, Finish,
       ObjectMoves, Same
<1>8. ASSUME NEW x \in Execs, PublishParsed(x) PROVE ObjectMoves(p)
    BY <1>8, <1>t DEF PublishParsed, Fence, Owns, AtWork, Moved, Advance, Finish,
       Spare, ObjectMoves, Same
<1>9. ASSUME NEW o \in Objects, RejectOrphan(o) PROVE ObjectMoves(p)
    BY <1>9, <1>t DEF RejectOrphan, ObjectMoves, Same
<1>10. ASSUME ClaimCleanup PROVE ObjectMoves(p)
    BY <1>10, <1>t DEF ClaimCleanup, StillUnused, jobVars, ObjectMoves, Same
<1>11. ASSUME DeleteBytes PROVE ObjectMoves(p)
    BY <1>11, <1>t DEF DeleteBytes, ObjectMoves, Same
<1>12. ASSUME MarkDeleted PROVE ObjectMoves(p)
    BY <1>12, <1>t DEF MarkDeleted, ObjectMoves, Same
<1>13. ASSUME NEW x \in Execs,
             Load(x) \/ Inspect(x) \/ Begin(x) \/ Completion(x) \/ Complete(x) \/
             AcknowledgeCancel(x) \/ FailFinal(x) \/ ScheduleRetry(x) \/ Release(x)
             \/ GiveUp(x) \/ HandlerThrows(x)
      PROVE  ObjectMoves(p)
  <2>1. UNCHANGED <<life, bytes, asked>>
    BY <1>13 DEF Load, Inspect, Begin, Completion, Complete, AcknowledgeCancel,
       FailFinal, ScheduleRetry, Release, GiveUp, HandlerThrows, jobVars, itemVars,
       objVars, execVars
  <2> QED
    BY <2>1 DEF ObjectMoves, Same
<1>14. ASSUME NEW x \in Execs, NEW j \in Jobs, Claim(x, j) PROVE ObjectMoves(p)
  <2>1. UNCHANGED <<life, bytes, asked>>
    BY <1>14 DEF Claim, jobVars, itemVars, objVars, execVars
  <2> QED
    BY <2>1 DEF ObjectMoves, Same
<1>15. ASSUME NEW j \in Jobs,
             LeaseExpires(j) \/ CancelQueued(j) \/ CancelProcessing(j) \/
             AdmitRetry(j) \/ RecoverLease(j) \/ FailRootless(j) \/
             RepairCounters(j)
      PROVE  ObjectMoves(p)
  <2>1. UNCHANGED <<life, bytes, asked>>
    BY <1>15 DEF LeaseExpires, CancelQueued, CancelProcessing, AdmitRetry,
       RecoverLease, FailRootless, RepairCounters, jobVars, itemVars, objVars, execVars
  <2> QED
    BY <2>1 DEF ObjectMoves, Same
<1>16. ASSUME NEW o \in Objects,
             ListCandidate(o)
      PROVE  ObjectMoves(p)
  <2>1. UNCHANGED <<life, bytes, asked>>
    BY <1>16 DEF ListCandidate, jobVars, itemVars, objVars, execVars
  <2> QED
    BY <2>1 DEF ObjectMoves, Same
<1>17. ASSUME CleanerFails
      PROVE  ObjectMoves(p)
  <2>1. UNCHANGED <<life, bytes, asked>>
    BY <1>17 DEF CleanerFails, jobVars, itemVars, objVars, execVars
  <2> QED
    BY <2>1 DEF ObjectMoves, Same
<1>18. CASE UNCHANGED vars
  <2>1. UNCHANGED <<life, bytes, asked>>
    BY <1>18 DEF vars, jobVars, itemVars, objVars, execVars
  <2> QED
    BY <2>1 DEF ObjectMoves, Same
<1> QED
    BY <1>1, <1>2, <1>3, <1>4, <1>5, <1>6, <1>7, <1>8, <1>9, <1>10, <1>11, <1>12,
       <1>13, <1>14, <1>15, <1>16, <1>17, <1>18 DEF Next, Step, Settle, Sweep
ExecMoves(q) ==
    \/ ~Moved(q) /\ work'[q] = work[q]
    \/ pc'[q] \in {"idle", "load", "scan", "inspect", "reject"} \cup Failures
    \/ pc[q] = "inspect" /\ pc'[q] = "reserve" /\ archive.corruptAt # 0
    \/ pc[q] = "reserve" /\ pc'[q] = "reserve"
    \/ pc[q] = "reserve" /\ pc'[q] = "extract" /\ at'[q] = 1
    \/ /\ pc[q] = "extract" /\ pc'[q] = "record"
       /\ at'[q] = at[q] /\ work'[q] = work[q]
       /\ archive.corruptAt # at[q]
       /\ UNCHANGED <<life, item>>
       /\ Processable(at[q]) /\ item[work[q]][at[q]] \in OpenItem => bytes'[Here(q)]
    \/ pc[q] = "record" /\ pc'[q] = "extract" /\ at'[q] = at[q] + 1
    \/ pc[q] = "record" /\ pc'[q] = "parse" /\ at[q] = LastEntry
    \/ /\ pc[q] = "parse" /\ pc'[q] = "xml"
       /\ at'[q] = at[q] /\ work'[q] = work[q]
       /\ item'[work[q]][at[q]] = "processing"
       /\ life' = life /\ life[Here(q)] \in Usable
    \/ /\ pc[q] = "xml" /\ pc'[q] = "publish"
       /\ at'[q] = at[q] /\ work'[q] = work[q]
       /\ item' = item /\ life'[Here(q)] = "quarantined"
    \/ /\ pc[q] \in {"parse", "xml", "publish", "completion"}
       /\ pc'[q] \in {"parse", "completion", "returned"}

SweepMoves ==
    \/ sweep' = sweep
    \/ sweep'.pc = "idle"
    \/ sweep'.pc = "listed" /\ life[sweep'.object] # "none"
    \/ /\ sweep.pc = "listed" /\ sweep'.pc = "claimed" /\ sweep'.object = sweep.object
       /\ asked'[sweep.object] = TRUE
    \/ sweep.pc = "claimed" /\ sweep'.pc = "deleting" /\ sweep'.object = sweep.object

\* Every step does one of these to an execution.
LEMMA ExecEffect ==
    ASSUME Typed, [Next]_vars, NEW q \in Execs
    PROVE  ExecMoves(q)
<1>t. /\ work \in [Execs -> Jobs] /\ pc \in [Execs -> Control]
      /\ at \in [Execs -> Entries] /\ item \in [Jobs -> [Entries -> ItemState]]
      /\ life \in [Objects -> Lifecycle] /\ bytes \in [Objects -> BOOLEAN]
      /\ \A x \in Execs : <<work[x], at[x]>> \in Objects /\ at[x] + 1 # at[x]
    BY Placed DEF Typed, ExecTypes, ItemTypes, ObjectTypes, Entries
<1>1. ASSUME NEW x \in Execs, NEW j \in Jobs, Claim(x, j) PROVE ExecMoves(q)
    BY <1>1, <1>t DEF Claim, Moved, ExecMoves
<1>2. ASSUME NEW x \in Execs, Load(x) PROVE ExecMoves(q)
    BY <1>2, <1>t DEF Load, Moved, Goto, Failures, ExecMoves
<1>3. ASSUME NEW x \in Execs, RootScan(x) PROVE ExecMoves(q)
    BY <1>3, <1>t DEF RootScan, Moved, Goto, Failures, ExecMoves
<1>4. ASSUME NEW x \in Execs, Inspect(x) PROVE ExecMoves(q)
    BY <1>4, <1>t DEF Inspect, Moved, Goto, Failures, ExecMoves
<1>5. ASSUME NEW x \in Execs, RejectRoot(x) PROVE ExecMoves(q)
    BY <1>5, <1>t DEF RejectRoot, Moved, Goto, Failures, ExecMoves
<1>6. ASSUME NEW x \in Execs, Reserve(x) PROVE ExecMoves(q)
    BY <1>6, <1>t DEF Reserve, Moved, Advance, ExecMoves
<1>7. ASSUME NEW x \in Execs, Extract(x) PROVE ExecMoves(q)
  <2>1. CASE q # x
    BY <1>7, <1>t, <2>1 DEF Extract, Moved, Goto, ExecMoves
  <2>2. CASE q = x /\ ReadsEntry(at[x])
    <3>1. pc[q] = "extract" /\ pc'[q] = "record" /\ UNCHANGED <<life, item>>
      BY <1>7, <1>t, <2>2 DEF Extract, Goto, itemVars
    <3>2. at'[q] = at[q] /\ work'[q] = work[q]
      BY <1>7, <1>t, <2>2 DEF Extract, Goto, Failures
    <3>3. archive.corruptAt # at[q]
      BY <2>2 DEF ReadsEntry
    <3>4. ASSUME Processable(at[q]), item[work[q]][at[q]] \in OpenItem
          PROVE  bytes'[Here(q)]
      BY <1>7, <1>t, <2>2, <3>4 DEF Extract, Here
    <3> QED
      BY <3>1, <3>2, <3>3, <3>4 DEF ExecMoves
  <2>3. CASE q = x /\ ~ReadsEntry(at[x])
    BY <1>7, <1>t, <2>3 DEF Extract, Goto, ExecMoves
  <2> QED
    BY <2>1, <2>2, <2>3
<1>8. ASSUME NEW x \in Execs, Extracted(x) PROVE ExecMoves(q)
    BY <1>8, <1>t DEF Extracted, Moved, Advance, ExecMoves
<1>9. ASSUME NEW x \in Execs, Begin(x) PROVE ExecMoves(q)
  <2>1. CASE q # x
    BY <1>9, <1>t, <2>1 DEF Begin, Moved, Goto, Advance, ExecMoves
  <2>2. CASE q = x /\ Goto(x, "xml") /\ life[<<work[x], at[x]>>] \in Usable
             /\ item' = [item EXCEPT ![work[x]][at[x]] = "processing"]
    <3>1. pc[q] = "parse" /\ pc'[q] = "xml" /\ life' = life
      BY <1>9, <1>t, <2>2 DEF Begin, Goto, objVars
    <3>2. at'[q] = at[q] /\ work'[q] = work[q]
      BY <1>t, <2>2 DEF Goto, Failures
    <3>3. item'[work[q]][at[q]] = "processing"
      BY <1>t, <2>2
    <3> QED
      BY <2>2, <3>1, <3>2, <3>3 DEF ExecMoves, Here
  <2>3. CASE q = x /\ (Advance(x, "parse", "completion") \/ Goto(x, "threw_retryable"))
    BY <1>9, <1>t, <2>3 DEF Begin, Goto, Advance, Failures, ExecMoves
  <2> QED
    BY <1>9, <2>1, <2>2, <2>3 DEF Begin
<1>10. ASSUME NEW x \in Execs, ScanXml(x) PROVE ExecMoves(q)
    BY <1>10, <1>t DEF ScanXml, Moved, Goto, Finish, Advance, Fence, Owns, itemVars,
       Here, ExecMoves
<1>11. ASSUME NEW x \in Execs, PublishRejected(x) PROVE ExecMoves(q)
    BY <1>11, <1>t DEF PublishRejected, Moved, Finish, Advance, ExecMoves
<1>12. ASSUME NEW x \in Execs, PublishParsed(x) PROVE ExecMoves(q)
    BY <1>12, <1>t DEF PublishParsed, Moved, Finish, Advance, ExecMoves
<1>13. ASSUME NEW x \in Execs, Completion(x) PROVE ExecMoves(q)
    BY <1>13, <1>t DEF Completion, Moved, Goto, Failures, ExecMoves
<1>14. ASSUME NEW x \in Execs, Complete(x) PROVE ExecMoves(q)
    BY <1>14, <1>t DEF Complete, Moved, Goto, Failures, ExecMoves
<1>15. ASSUME NEW x \in Execs, AcknowledgeCancel(x) PROVE ExecMoves(q)
    BY <1>15, <1>t DEF AcknowledgeCancel, Moved, Goto, Failures, ExecMoves
<1>16. ASSUME NEW x \in Execs, FailFinal(x) PROVE ExecMoves(q)
    BY <1>16, <1>t DEF FailFinal, Moved, Goto, Failures, ExecMoves
<1>17. ASSUME NEW x \in Execs, ScheduleRetry(x) PROVE ExecMoves(q)
    BY <1>17, <1>t DEF ScheduleRetry, Moved, Goto, Failures, ExecMoves
<1>18. ASSUME NEW x \in Execs, Release(x) PROVE ExecMoves(q)
    BY <1>18, <1>t DEF Release, Moved, Goto, Failures, ExecMoves
<1>19. ASSUME NEW x \in Execs, GiveUp(x) PROVE ExecMoves(q)
    BY <1>19, <1>t DEF GiveUp, Moved, Goto, Failures, ExecMoves
<1>20. ASSUME NEW x \in Execs, HandlerThrows(x) PROVE ExecMoves(q)
    BY <1>20, <1>t DEF HandlerThrows, Moved, Goto, Failures, ExecMoves
<1>21. ASSUME NEW j \in Jobs,
             LeaseExpires(j) \/ CancelQueued(j) \/ CancelProcessing(j) \/
             AdmitRetry(j) \/ RecoverLease(j) \/ FailRootless(j) \/
             RepairCounters(j)
      PROVE  ExecMoves(q)
  <2>1. UNCHANGED <<pc, work, at>>
    BY <1>21 DEF LeaseExpires, CancelQueued, CancelProcessing, AdmitRetry,
       RecoverLease, FailRootless, RepairCounters, jobVars, itemVars, objVars, execVars
  <2> QED
    BY <2>1 DEF ExecMoves, Moved
<1>22. ASSUME NEW o \in Objects,
             RejectOrphan(o) \/ ListCandidate(o)
      PROVE  ExecMoves(q)
  <2>1. UNCHANGED <<pc, work, at>>
    BY <1>22 DEF RejectOrphan, ListCandidate, jobVars, itemVars, objVars, execVars
  <2> QED
    BY <2>1 DEF ExecMoves, Moved
<1>23. ASSUME ClaimCleanup \/ DeleteBytes \/ MarkDeleted \/ CleanerFails
      PROVE  ExecMoves(q)
  <2>1. UNCHANGED <<pc, work, at>>
    BY <1>23 DEF ClaimCleanup, DeleteBytes, MarkDeleted, CleanerFails, jobVars,
       itemVars, objVars, execVars
  <2> QED
    BY <2>1 DEF ExecMoves, Moved
<1>24. CASE UNCHANGED vars
  <2>1. UNCHANGED <<pc, work, at>>
    BY <1>24 DEF vars, jobVars, itemVars, objVars, execVars
  <2> QED
    BY <2>1 DEF ExecMoves, Moved
<1> QED
    BY <1>1, <1>2, <1>3, <1>4, <1>5, <1>6, <1>7, <1>8, <1>9, <1>10, <1>11, <1>12,
       <1>13, <1>14, <1>15, <1>16, <1>17, <1>18, <1>19, <1>20, <1>21, <1>22, <1>23,
       <1>24 DEF Next, Step, Settle, Sweep

\* Every step does one of these to the cleaner.
LEMMA SweepEffect ==
    ASSUME Typed, [Next]_vars
    PROVE  SweepMoves
<1>t. /\ sweep \in [pc : {"idle", "listed", "claimed", "deleting"}, object : Objects]
      /\ asked \in [Objects -> BOOLEAN]
    BY DEF Typed, SweepTypes, ObjectTypes
<1>1. ASSUME NEW o \in Objects, ListCandidate(o) PROVE SweepMoves
    BY <1>1, <1>t DEF ListCandidate, Cleanable, Expires, SweepMoves
<1>2. ASSUME ClaimCleanup PROVE SweepMoves
    BY <1>2, <1>t DEF ClaimCleanup, NoSweep, SweepMoves
<1>3. ASSUME DeleteBytes PROVE SweepMoves
    BY <1>3, <1>t DEF DeleteBytes, SweepMoves
<1>4. ASSUME MarkDeleted PROVE SweepMoves
    BY <1>4, <1>t DEF MarkDeleted, NoSweep, SweepMoves
<1>5. ASSUME CleanerFails PROVE SweepMoves
    BY <1>5, <1>t DEF CleanerFails, NoSweep, SweepMoves
<1>6. ASSUME NEW x \in Execs,
             Load(x) \/ RootScan(x) \/ Inspect(x) \/ RejectRoot(x) \/ Reserve(x) \/
             Extract(x) \/ Extracted(x) \/ Begin(x) \/ ScanXml(x) \/
             PublishRejected(x) \/ PublishParsed(x) \/ Completion(x) \/ Complete(x)
             \/ AcknowledgeCancel(x) \/ FailFinal(x) \/ ScheduleRetry(x) \/
             Release(x) \/ GiveUp(x) \/ HandlerThrows(x)
      PROVE  SweepMoves
  <2>1. UNCHANGED sweep
    BY <1>6 DEF Load, RootScan, Inspect, RejectRoot, Reserve, Extract, Extracted,
       Begin, ScanXml, PublishRejected, PublishParsed, Completion, Complete,
       AcknowledgeCancel, FailFinal, ScheduleRetry, Release, GiveUp, HandlerThrows,
       jobVars, itemVars, objVars, execVars
  <2> QED
    BY <2>1 DEF SweepMoves
<1>7. ASSUME NEW x \in Execs, NEW j \in Jobs, Claim(x, j) PROVE SweepMoves
  <2>1. UNCHANGED sweep
    BY <1>7 DEF Claim, jobVars, itemVars, objVars, execVars
  <2> QED
    BY <2>1 DEF SweepMoves
<1>8. ASSUME NEW j \in Jobs,
             LeaseExpires(j) \/ CancelQueued(j) \/ CancelProcessing(j) \/
             AdmitRetry(j) \/ RecoverLease(j) \/ FailRootless(j) \/
             RepairCounters(j)
      PROVE  SweepMoves
  <2>1. UNCHANGED sweep
    BY <1>8 DEF LeaseExpires, CancelQueued, CancelProcessing, AdmitRetry, RecoverLease,
       FailRootless, RepairCounters, jobVars, itemVars, objVars, execVars
  <2> QED
    BY <2>1 DEF SweepMoves
<1>9. ASSUME NEW o \in Objects,
             RejectOrphan(o)
      PROVE  SweepMoves
  <2>1. UNCHANGED sweep
    BY <1>9 DEF RejectOrphan, jobVars, itemVars, objVars, execVars
  <2> QED
    BY <2>1 DEF SweepMoves
<1>10. CASE UNCHANGED vars
  <2>1. UNCHANGED sweep
    BY <1>10 DEF vars, jobVars, itemVars, objVars, execVars
  <2> QED
    BY <2>1 DEF SweepMoves
<1> QED
    BY <1>1, <1>2, <1>3, <1>4, <1>5, <1>6, <1>7, <1>8, <1>9, <1>10 DEF Next, Step,
       Settle, Sweep

\* The archive stays.
LEMMA ArchiveStays == [Next]_vars => archive' = archive
    BY DEF Next, vars, Step, Settle, Sweep, Claim, Load, RootScan, Inspect, RejectRoot,
           Reserve, Extract, Extracted, Begin, ScanXml, PublishRejected, PublishParsed,
           Completion, Complete, AcknowledgeCancel, FailFinal, ScheduleRetry, Release,
           GiveUp, HandlerThrows, LeaseExpires, CancelQueued, CancelProcessing,
           AdmitRetry, RecoverLease, FailRootless, RepairCounters, RejectOrphan,
           ListCandidate, ClaimCleanup, DeleteBytes, MarkDeleted, CleanerFails
\* Only the publication of a document changes the sources.
LEMMA CfdiEffect == [Next]_vars => cfdi' = cfdi \/ \E x \in Execs : PublishParsed(x)
    BY DEF Next, vars, Step, Settle, Sweep, Claim, Load, RootScan, Inspect, RejectRoot,
           Reserve, Extract, Extracted, Begin, ScanXml, PublishRejected, Completion,
           Complete, AcknowledgeCancel, FailFinal, ScheduleRetry, Release, GiveUp,
           HandlerThrows, LeaseExpires, CancelQueued, CancelProcessing, AdmitRetry,
           RecoverLease, FailRootless, RepairCounters, RejectOrphan, ListCandidate,
           ClaimCleanup, DeleteBytes, MarkDeleted, CleanerFails, objVars

-----------------------------------------------------------------------------
(***************************************************************************)
(* Jobs and executions.                                                    *)
(***************************************************************************)
LEMMA OwnershipStep ==
    ASSUME Typed, Ownership, [Next]_vars
    PROVE  Ownership'
<1> SUFFICES ASSUME NEW j \in Jobs
             PROVE  /\ status'[j] \in InProgress <=> owner'[j] # None
                    /\ leaseLive'[j] => owner'[j] # None
    BY DEF Ownership
<1>1. JobMoves(j)
    BY JobEffect
<1> QED
    BY <1>1 DEF JobMoves, Ownership, InProgress, Active, Settled

\* A settled job stays as it is.
LEMMA SettledStays ==
    ASSUME Typed, Ownership, [Next]_vars, NEW j \in Jobs, status[j] \in Settled
    PROVE  status'[j] = status[j]
<1>1. JobMoves(j)
    BY JobEffect
<1> QED
    BY <1>1 DEF JobMoves, Settled, Active, InProgress

\* An execution that owns a job after a step, and has not just claimed it, owned it before.
LEMMA OwnedBefore ==
    ASSUME Typed, Ownership, [Next]_vars, NEW x \in Execs,
           owner'[work[x]] = x, pc'[x] # "load"
    PROVE  owner[work[x]] = x /\ status[work[x]] \in InProgress
<1>1. work[x] \in Jobs
    BY DEF Typed, ExecTypes
<1>2. JobMoves(work[x])
    BY <1>1, JobEffect
<1>3. owner[work[x]] = x
    BY <1>2 DEF JobMoves
<1> QED
    BY <1>1, <1>3 DEF Ownership

LEMMA ReadingStep ==
    ASSUME Typed, Reading, [Next]_vars
    PROVE  Reading'
<1>1. archive' = archive
    BY ArchiveStays
<1> SUFFICES ASSUME NEW x \in Execs
             PROVE
        /\ pc'[x] \in {"reserve", "extract", "record"} => archive.corruptAt # 0
        /\ pc'[x] = "extract" => archive.corruptAt \notin 1 .. (at'[x] - 1)
        /\ pc'[x] = "record" => archive.corruptAt \notin 1 .. at'[x]
        /\ pc'[x] \in {"parse", "xml", "publish", "completion", "returned"} =>
              archive.corruptAt = None
    BY <1>1 DEF Reading
<1>2. ExecMoves(x)
    BY ExecEffect
<1>3. at[x] \in 1 .. LastEntry /\ archive.corruptAt \in (1 .. LastEntry) \cup {0, None}
    BY DEF Typed, ExecTypes, Entries
<1>4. CASE ~Moved(x)
    BY <1>4 DEF Moved, Reading
<1>5. CASE pc[x] = "extract" /\ pc'[x] = "record" /\ at'[x] = at[x]
           /\ archive.corruptAt # at[x]
  <2>1. archive.corruptAt # 0 /\ archive.corruptAt \notin 1 .. (at[x] - 1)
    BY <1>5 DEF Reading
  <2> QED
    BY <1>3, <1>5, <2>1
<1>6. CASE pc[x] = "record" /\ pc'[x] = "extract" /\ at'[x] = at[x] + 1
  <2>1. archive.corruptAt # 0 /\ archive.corruptAt \notin 1 .. at[x]
    BY <1>6 DEF Reading
  <2> QED
    BY <1>3, <1>6, <2>1
<1>7. CASE pc[x] = "record" /\ pc'[x] = "parse" /\ at[x] = LastEntry
  <2>1. archive.corruptAt # 0 /\ archive.corruptAt \notin 1 .. at[x]
    BY <1>7 DEF Reading
  <2> QED
    BY <1>3, <1>7, <2>1
<1>8. CASE pc[x] \in {"inspect", "reserve"} /\ pc'[x] \in {"reserve", "extract"}
           /\ (pc'[x] = "extract" => at'[x] = 1)
           /\ (pc[x] = "inspect" => archive.corruptAt # 0)
    BY <1>8 DEF Reading
<1>9. CASE pc[x] \in {"parse", "xml", "publish", "completion"}
           /\ pc'[x] \in {"parse", "xml", "publish", "completion", "returned"}
    BY <1>9 DEF Reading
<1> QED
    BY <1>2, <1>4, <1>5, <1>6, <1>7, <1>8, <1>9 DEF ExecMoves, Failures

LEMMA DamagedStep ==
    ASSUME Typed, Reading, DamagedPublishesNothing, [Next]_vars
    PROVE  DamagedPublishesNothing'
<1>1. archive' = archive
    BY ArchiveStays
<1>2. CASE cfdi' = cfdi
    BY <1>1, <1>2 DEF DamagedPublishesNothing
<1>3. ASSUME NEW x \in Execs, PublishParsed(x) PROVE DamagedPublishesNothing'
    BY <1>1, <1>3 DEF PublishParsed, Reading, DamagedPublishesNothing
<1> QED
    BY <1>2, <1>3, CfdiEffect

-----------------------------------------------------------------------------
(***************************************************************************)
(* Objects.                                                                *)
(***************************************************************************)
\* What an execution in the middle of an entry may rely on.
LEMMA InHand ==
    ASSUME Typed, Retention, Holding, NEW x \in Execs, NEW k \in Jobs, NEW e \in Entries,
           AtWork(x, k), pc[x] \in {"xml", "publish"}, at[x] = e
    PROVE  /\ item[k][e] = "processing" /\ life[<<k, e>>] \in Usable
           /\ bytes[<<k, e>>] /\ ~asked[<<k, e>>]
<1>1. item[k][e] = "processing" /\ life[<<k, e>>] \in Usable
    BY DEF Holding, Holds, Here, AtWork
<1> QED
    BY <1>1, Placed DEF Retention, Usable

LEMMA RetentionStep ==
    ASSUME Typed, Ownership, Retention, Reserved, Holding, [Next]_vars
    PROVE  Retention'
<1>1. ASSUME NEW p \in Objects
      PROVE  /\ asked'[p] => life'[p] \in {"rejected", "deleted"}
             /\ life'[p] \in Usable => bytes'[p]
             /\ life[p] # "none" => life'[p] # "none"
             /\ asked[p] => asked'[p]
             /\ p = Root => bytes'[p] \/ asked'[p]
  <2>1. ObjectMoves(p)
    BY ObjectEffect
  <2>2. /\ asked[p] \in BOOLEAN /\ asked'[p] \in BOOLEAN
        /\ bytes[p] \in BOOLEAN /\ bytes'[p] \in BOOLEAN
    BY TypeStep DEF Typed, ObjectTypes
  <2>3. /\ asked[p] => life[p] \in {"rejected", "deleted"}
        /\ life[p] \in Usable => bytes[p]
        /\ p = Root => bytes[p] \/ asked[p]
    BY DEF Retention
  <2>4. CASE \E k \in Jobs, e \in Entries, x \in Execs :
          /\ p = <<k, e>> /\ AtWork(x, k) /\ Same(p)
          /\ \/ /\ item[k][e] = "none" /\ item'[k][e] = "pending"
                /\ Processable(e) /\ life'[p] = "pending_upload"
             \/ /\ pc[x] = "record" /\ at[x] = e
                /\ life[p] = "pending_upload" /\ life'[p] = "uploaded"
             \/ /\ pc[x] \in {"xml", "publish"} /\ at[x] = e
                /\ life'[p] \in {"quarantined", "available"}
    <3>1. PICK k \in Jobs, e \in Entries, x \in Execs :
          /\ p = <<k, e>> /\ AtWork(x, k) /\ Same(p)
          /\ \/ /\ item[k][e] = "none" /\ life'[p] = "pending_upload"
             \/ /\ pc[x] = "record" /\ at[x] = e
                /\ life[p] = "pending_upload" /\ life'[p] = "uploaded"
             \/ /\ pc[x] \in {"xml", "publish"} /\ at[x] = e
                /\ life'[p] \in {"quarantined", "available"}
      BY <2>4
    <3>2. p # Root
      BY <3>1, Placed
    <3>3. CASE item[k][e] = "none" /\ life'[p] = "pending_upload"
      <4>1. life[p] = "none"
        BY <3>1, <3>3 DEF Reserved
      <4> QED
        BY <2>3, <3>1, <3>2, <3>3, <4>1 DEF Same, Usable
    <3>4. CASE pc[x] = "record" /\ at[x] = e /\ life[p] = "pending_upload"
               /\ life'[p] = "uploaded"
      <4>1. bytes[p]
        BY <3>1, <3>4 DEF Holding, Holds, Here, AtWork
      <4> QED
        BY <2>3, <3>1, <3>2, <3>4, <4>1 DEF Same, Usable
    <3>5. CASE /\ pc[x] \in {"xml", "publish"} /\ at[x] = e
               /\ life'[p] \in {"quarantined", "available"}
      <4>1. bytes[p] /\ ~asked[p]
        BY <3>1, <3>5, InHand
      <4> QED
        BY <3>1, <3>2, <3>5, <4>1 DEF Same
    <3> QED
      BY <3>1, <3>3, <3>4, <3>5
  <2>5. CASE /\ p = Root /\ \E k \in Jobs : status[k] = "processing"
             /\ life'[p] = "rejected" \/ (life[p] \in Usable /\ life'[p] \in Usable)
             /\ Same(p)
    <3>1. ~asked[Root]
      BY <2>5 DEF Retention, Active, InProgress
    <3> QED
      BY <2>3, <2>5, <3>1 DEF Same, Usable
  <2>6. CASE p = sweep.object /\ sweep.pc \in {"claimed", "deleting"}
    <3>1. asked[p]
      BY <2>6 DEF Retention
    <3>2. life[p] \in {"rejected", "deleted"}
      BY <2>3, <3>1
    <3> HIDE <2>4, <2>5
    <3> QED
      BY <2>1, <2>2, <2>3, <2>4, <2>5, <3>1, <3>2 DEF ObjectMoves, Same, Usable
  <2>7. CASE /\ p = sweep.object /\ sweep.pc = "listed"
             /\ life'[p] = "rejected" /\ asked'[p] = TRUE /\ bytes'[p] = bytes[p]
    BY <2>7 DEF Usable
  <2>8. CASE life[p] = "pending_upload" /\ life'[p] = "rejected" /\ Same(p)
    BY <2>3, <2>8 DEF Same, Usable
  <2>9. CASE life'[p] = life[p] /\ asked'[p] = asked[p]
             /\ (bytes'[p] = bytes[p] \/ bytes'[p] = TRUE)
    BY <2>3, <2>9
  <2> QED
    BY <2>1, <2>4, <2>5, <2>6, <2>7, <2>8, <2>9 DEF ObjectMoves, Same
<1>2. ASSUME NEW j \in Jobs, status'[j] \in Active PROVE ~asked'[Root]
  <2>1. JobMoves(j) /\ ObjectMoves(Root)
    BY JobEffect, ObjectEffect, Placed
  <2>2. ~asked[Root]
    BY <1>2, <2>1 DEF JobMoves, Retention, Active, InProgress, Settled
  <2>3. asked'[Root] = asked[Root]
        \/ (~Referenced(Root) /\ status' = status)
    BY <2>1 DEF ObjectMoves, Same
  <2>4. CASE ~Referenced(Root) /\ status' = status
    BY <1>2, <2>4 DEF Referenced, InActiveUse, Reads
  <2> QED
    BY <2>2, <2>3, <2>4
<1>3. sweep.object \in Objects /\ sweep'.object \in Objects
    BY TypeStep DEF Typed, SweepTypes
<1>4. SweepMoves
    BY SweepEffect
<1>5. sweep'.pc # "idle" => life'[sweep'.object] # "none"
    BY <1>1, <1>3, <1>4 DEF SweepMoves, Retention
<1>6. sweep'.pc \in {"claimed", "deleting"} => asked'[sweep'.object]
    BY <1>1, <1>3, <1>4 DEF SweepMoves, Retention
<1> QED
    BY <1>1, <1>2, <1>5, <1>6, Placed DEF Retention

LEMMA ReservedStep ==
    ASSUME Typed, Ownership, Retention, Reserved, Holding, [Next]_vars
    PROVE  Reserved'
<1>a. archive' = archive
    BY ArchiveStays
<1> SUFFICES ASSUME NEW k \in Jobs, NEW e \in Entries
             PROVE
        /\ item'[k][e] = "none" => life'[<<k, e>>] = "none"
        /\ life'[<<k, e>>] = "pending_upload" =>
              Processable(e) /\ (item'[k][e] \in OpenItem \/ status'[k] \in Settled)
    BY <1>a DEF Reserved, Processable
<1> DEFINE p == <<k, e>>
<1>1. p \in Objects /\ p # Root
    BY Placed
<1>2. ObjectMoves(p) /\ ItemMoves(k, e)
    BY <1>1, ObjectEffect, ItemEffect
<1>3. /\ item[k][e] = "none" => life[p] = "none"
      /\ life[p] = "pending_upload" =>
            Processable(e) /\ (item[k][e] \in OpenItem \/ status[k] \in Settled)
    BY DEF Reserved
<1>4. ASSUME NEW x \in Execs, AtWork(x, k), pc[x] \in {"xml", "publish"}, at[x] = e
      PROVE  item[k][e] = "processing" /\ life[p] \in Usable
    BY <1>4, InHand
<1>5. /\ p = sweep.object /\ sweep.pc # "idle" => life[p] # "none"
    BY DEF Retention
<1> HIDE DEF p
<1>6. ASSUME life'[p] # life[p]
      PROVE  \/ life'[p] \in {"rejected", "deleted", "uploaded", "quarantined", "available"}
                /\ life[p] # "none"
             \/ Processable(e) /\ item'[k][e] = "pending" /\ life'[p] = "pending_upload"
  <2>1. CASE \E l \in Jobs, f \in Entries, x \in Execs :
          /\ p = <<l, f>> /\ AtWork(x, l) /\ Same(p)
          /\ \/ /\ item[l][f] = "none" /\ item'[l][f] = "pending"
                /\ Processable(f) /\ life'[p] = "pending_upload"
             \/ /\ pc[x] = "record" /\ at[x] = f
                /\ life[p] = "pending_upload" /\ life'[p] = "uploaded"
             \/ /\ pc[x] \in {"xml", "publish"} /\ at[x] = f
                /\ life'[p] \in {"quarantined", "available"}
    BY <1>4, <2>1 DEF p, Usable
  <2> QED
    BY <1>1, <1>2, <1>5, <1>6, <2>1 DEF ObjectMoves, Usable
<1>7. ASSUME item'[k][e] = "none" PROVE life'[p] = "none"
  <2>1. item[k][e] = "none"
    BY <1>2, <1>7 DEF ItemMoves, Results
  <2> QED
    BY <1>3, <1>6, <1>7, <2>1
<1>8. ASSUME life'[p] = "pending_upload"
      PROVE  Processable(e) /\ (item'[k][e] \in OpenItem \/ status'[k] \in Settled)
  <2>1. CASE life[p] = "pending_upload"
    <3>1. CASE status[k] \in Settled
      BY <1>3, <2>1, <3>1, SettledStays
    <3>2. CASE item[k][e] \in OpenItem
      BY <1>2, <1>3, <1>8, <2>1, <3>2 DEF ItemMoves, OpenItem, p
    <3> QED
      BY <1>3, <2>1, <3>1, <3>2
  <2>2. CASE life[p] # "pending_upload"
    BY <1>6, <1>8, <2>2 DEF OpenItem
  <2> QED
    BY <2>1, <2>2
<1> QED
    BY <1>7, <1>8 DEF p

LEMMA HoldingStep ==
    ASSUME Typed, Ownership, Retention, Reserved, Holding, [Next]_vars
    PROVE  Holding'
<1> SUFFICES ASSUME NEW x \in Execs, pc'[x] # "idle", owner'[work'[x]] = x,
                    pc'[x] \in {"xml", "publish", "record"}
             PROVE
        /\ pc'[x] \in {"xml", "publish"} =>
              item'[work'[x]][at'[x]] = "processing" /\ life'[Here(x)'] \in Usable
        /\ pc'[x] = "record" /\ life'[Here(x)'] = "pending_upload" => bytes'[Here(x)']
    BY DEF Holding, Holds
<1> DEFINE p == Here(x)
<1>1. ExecMoves(x) /\ Holds(x)
    BY ExecEffect DEF Holding
<1>2. /\ work[x] \in Jobs /\ at[x] \in Entries /\ p \in Objects /\ p # Root
    BY Placed DEF Typed, ExecTypes, Here
<1>3. CASE ~Moved(x) /\ work'[x] = work[x]
  <2>1. pc'[x] = pc[x] /\ at'[x] = at[x] /\ Here(x)' = p
    BY <1>3 DEF Moved, Here
  <2>2. owner[work[x]] = x /\ status[work[x]] \in InProgress
    BY <1>3, OwnedBefore
  <2>3. ASSUME NEW y \in Execs, AtWork(y, work[x]) PROVE FALSE
    BY <1>3, <2>2, <2>3 DEF AtWork
  <2>4. item'[work[x]][at[x]] = item[work[x]][at[x]]
    <3>1. ItemMoves(work[x], at[x])
      BY <1>2, ItemEffect
    <3> QED
      BY <1>3, <2>3, <3>1 DEF ItemMoves
  <2>5. ObjectMoves(p)
    BY <1>2, ObjectEffect
  <2>6. Referenced(p)
    BY <1>2, <2>2 DEF Referenced, InActiveUse, Reads, Here, Active
  <2>7. sweep.pc \in {"claimed", "deleting"} /\ p = sweep.object =>
            life[p] \in {"rejected", "deleted"}
    BY <1>2 DEF Retention
  <2>8. ~\E k \in Jobs, e \in Entries, y \in Execs : p = <<k, e>> /\ AtWork(y, k)
    BY <2>3 DEF Here
  <2>9. CASE pc[x] \in {"xml", "publish"}
    <3>1. item[work[x]][at[x]] = "processing" /\ life[p] \in Usable
      BY <1>1, <2>1, <2>2, <2>9 DEF Holds
    <3>2. life'[p] = life[p]
      BY <1>2, <2>5, <2>6, <2>7, <2>8, <3>1 DEF ObjectMoves, Usable
    <3> QED
      BY <1>3, <2>1, <2>4, <2>9, <3>1, <3>2
  <2>10. CASE pc[x] = "record"
    <3>1. life[p] = "pending_upload" => bytes[p]
      BY <1>1, <2>1, <2>2, <2>10 DEF Holds
    <3>2. ASSUME life'[p] = "pending_upload" PROVE bytes'[p]
      <4>1. life[p] = life'[p] /\ (bytes'[p] = bytes[p] \/ bytes'[p] = TRUE)
        BY <1>2, <2>5, <2>6, <2>7, <2>8, <3>2 DEF ObjectMoves, Usable, Same
      <4> QED
        BY <3>1, <3>2, <4>1
    <3> QED
      BY <1>3, <2>1, <2>10, <3>2
  <2> QED
    BY <2>1, <2>9, <2>10
<1>4. CASE /\ pc[x] = "extract" /\ pc'[x] = "record"
           /\ at'[x] = at[x] /\ work'[x] = work[x]
           /\ UNCHANGED <<life, item>>
           /\ Processable(at[x]) /\ item[work[x]][at[x]] \in OpenItem => bytes'[p]
  <2>1. Here(x)' = p
    BY <1>4 DEF Here
  <2>2. status[work[x]] \in InProgress
    BY <1>4, OwnedBefore
  <2>3. ASSUME life[p] = "pending_upload" PROVE bytes'[p]
    <3>1. Processable(at[x]) /\ item[work[x]][at[x]] \in OpenItem
      BY <1>2, <2>2, <2>3 DEF Reserved, Here, InProgress, Settled
    <3> QED
      BY <1>4, <3>1
  <2> QED
    BY <1>4, <2>1, <2>3
<1>5. CASE /\ pc[x] = "parse" /\ pc'[x] = "xml"
           /\ at'[x] = at[x] /\ work'[x] = work[x]
           /\ item'[work[x]][at[x]] = "processing"
           /\ life' = life /\ life[p] \in Usable
  <2>1. Here(x)' = p
    BY <1>5 DEF Here
  <2> QED
    BY <1>5, <2>1
<1>6. CASE /\ pc[x] = "xml" /\ pc'[x] = "publish"
           /\ at'[x] = at[x] /\ work'[x] = work[x]
           /\ item' = item /\ life'[p] = "quarantined"
  <2>1. Here(x)' = p
    BY <1>6 DEF Here
  <2>2. owner[work[x]] = x
    BY <1>6, OwnedBefore
  <2> QED
    BY <1>1, <1>6, <2>1, <2>2 DEF Holds, Usable
<1> QED
    BY <1>1, <1>3, <1>4, <1>5, <1>6 DEF ExecMoves, Failures
-----------------------------------------------------------------------------
(***************************************************************************)
(* The counters.                                                           *)
(***************************************************************************)
LEMMA Recount ==
    ASSUME Typed, CountersAgree, NEW j \in Jobs, NEW f \in [Entries -> ItemState],
           item' = [item EXCEPT ![j] = f],
           counters' = [counters EXCEPT ![j] = Tally(f)],
           dirty' = [dirty EXCEPT ![j] = FALSE],
           status' = status, status[j] \notin Settled
    PROVE  CountersAgree'
<1> SUFFICES ASSUME NEW k \in Jobs
             PROVE  /\ ~dirty'[k] => counters'[k] = Tally(item'[k])
                    /\ status'[k] \in Settled =>
                          ~dirty'[k] /\ ~\E e \in Entries : item'[k][e] \in OpenItem
    BY DEF CountersAgree, OpenItems, Tally
<1>1. /\ ~dirty[k] => counters[k] = Tally(item[k])
      /\ status[k] \in Settled =>
            ~dirty[k] /\ ~\E e \in Entries : item[k][e] \in OpenItem
    BY DEF CountersAgree, OpenItems
<1> QED
    BY <1>1 DEF Typed, ItemTypes

LEMMA SettleCounts ==
    ASSUME Typed, CountersAgree, NEW j \in Jobs, NEW s, SettleAs(j, s)
    PROVE  CountersAgree'
<1> DEFINE f == CloseItems(j)
<1>1. /\ item' = [item EXCEPT ![j] = f]
      /\ counters' = [counters EXCEPT ![j] = Tally(f)]
      /\ dirty' = [dirty EXCEPT ![j] = FALSE]
      /\ status' = [status EXCEPT ![j] = s]
    BY DEF SettleAs
<1>2. \A e \in Entries : f[e] \notin OpenItem
    BY DEF CloseItems, OpenItem
<1> HIDE DEF f
<1> SUFFICES ASSUME NEW k \in Jobs
             PROVE  /\ ~dirty'[k] => counters'[k] = Tally(item'[k])
                    /\ status'[k] \in Settled =>
                          ~dirty'[k] /\ ~\E e \in Entries : item'[k][e] \in OpenItem
    BY DEF CountersAgree, OpenItems, Tally
<1>3. /\ ~dirty[k] => counters[k] = Tally(item[k])
      /\ status[k] \in Settled =>
            ~dirty[k] /\ ~\E e \in Entries : item[k][e] \in OpenItem
    BY DEF CountersAgree, OpenItems
<1> QED
    BY <1>1, <1>2, <1>3 DEF Typed, ItemTypes, JobTypes

\* An item changed without a count: the job is not settled, and dirty.
LEMMA MarkedDirty ==
    ASSUME Typed, CountersAgree, NEW j \in Jobs, NEW e \in Entries, NEW r \in ItemState,
           item' = [item EXCEPT ![j][e] = r], counters' = counters,
           dirty' = [dirty EXCEPT ![j] = TRUE], status' = status, status[j] \notin Settled
    PROVE  CountersAgree'
<1> SUFFICES ASSUME NEW k \in Jobs
             PROVE  /\ ~dirty'[k] => counters'[k] = Tally(item'[k])
                    /\ status'[k] \in Settled =>
                          ~dirty'[k] /\ ~\E f \in Entries : item'[k][f] \in OpenItem
    BY DEF CountersAgree, OpenItems, Tally
<1>1. /\ ~dirty[k] => counters[k] = Tally(item[k])
      /\ status[k] \in Settled =>
            ~dirty[k] /\ ~\E f \in Entries : item[k][f] \in OpenItem
    BY DEF CountersAgree, OpenItems
<1> QED
    BY <1>1 DEF Typed, ItemTypes

\* A transition of a job that settles none.
LEMMA KeepsCounts ==
    ASSUME CountersAgree, UNCHANGED itemVars,
           \A k \in Jobs : status'[k] \in Settled => status[k] \in Settled
    PROVE  CountersAgree'
<1> SUFFICES ASSUME NEW k \in Jobs
             PROVE  /\ ~dirty'[k] => counters'[k] = Tally(item'[k])
                    /\ status'[k] \in Settled =>
                          ~dirty'[k] /\ ~\E f \in Entries : item'[k][f] \in OpenItem
    BY DEF CountersAgree, OpenItems, Tally
<1>1. /\ ~dirty[k] => counters[k] = Tally(item[k])
      /\ status[k] \in Settled =>
            ~dirty[k] /\ ~\E f \in Entries : item[k][f] \in OpenItem
    BY DEF CountersAgree, OpenItems
<1> QED
    BY <1>1 DEF itemVars

LEMMA FinishCounts ==
    ASSUME Typed, CountersAgree, NEW x \in Execs, NEW r \in Results, Finish(x, r),
           status' = status
    PROVE  CountersAgree'
<1> DEFINE after == [item[work[x]] EXCEPT ![at[x]] = r]
<1>1. work[x] \in Jobs /\ after \in [Entries -> ItemState]
    BY DEF Typed, ExecTypes, ItemTypes, ItemState
<1>2. /\ item' = [item EXCEPT ![work[x]] = after]
      /\ counters' = [counters EXCEPT ![work[x]] = Tally(after)]
      /\ dirty' = [dirty EXCEPT ![work[x]] = FALSE]
    BY DEF Finish
<1>3. status[work[x]] \notin Settled
    BY DEF Finish, Fence, Settled
<1> HIDE DEF after
<1> QED
    BY <1>1, <1>2, <1>3, Recount

\* Every step keeps the counters, dirty or true.
LEMMA CountersStep ==
    ASSUME Typed, CountersAgree, [Next]_vars
    PROVE  CountersAgree'
<1>t. /\ status \in [Jobs -> Status] /\ work \in [Execs -> Jobs]
      /\ at \in [Execs -> Entries] /\ item \in [Jobs -> [Entries -> ItemState]]
      /\ counters \in [Jobs -> [ItemState \ {"none"} -> Nat]]
      /\ dirty \in [Jobs -> BOOLEAN]
      /\ \A k \in Execs : item[work[k]] \in [Entries -> ItemState]
    BY DEF Typed, JobTypes, ExecTypes, ItemTypes
<1>1. ASSUME NEW x \in Execs, NEW j \in Jobs, Claim(x, j) PROVE CountersAgree'
    BY <1>1, KeepsCounts, <1>t DEF Claim, Settled, itemVars
<1>2. ASSUME NEW x \in Execs, Reserve(x) PROVE CountersAgree'
  <2>1. CASE item[work[x]][at[x]] = "none"
    <3>1. /\ item' = [item EXCEPT ![work[x]][at[x]] = "pending"]
          /\ counters' = counters /\ status' = status
          /\ dirty' = [dirty EXCEPT ![work[x]] = TRUE]
          /\ status[work[x]] \notin Settled
      BY <1>2, <1>t, <2>1 DEF Reserve, jobVars, Fence, Settled
    <3>2. "pending" \in ItemState
      BY DEF ItemState, OpenItem
    <3> QED
      BY <1>t, <3>1, <3>2, MarkedDirty
  <2>2. CASE item[work[x]][at[x]] # "none"
    <3>1. UNCHANGED <<item, counters, dirty, status>>
      BY <1>2, <1>t, <2>2 DEF Reserve, jobVars
    <3> QED
      BY <3>1, KeepsCounts DEF itemVars
  <2> QED
    BY <2>1, <2>2
<1>3. ASSUME NEW x \in Execs, Extracted(x) PROVE CountersAgree'
  <2> DEFINE after == [item[work[x]] EXCEPT ![at[x]] =
                          IF Processable(at[x]) THEN "pending" ELSE "unsupported"]
  <2>1. after \in [Entries -> ItemState]
    BY <1>t DEF ItemState, OpenItem, Results
  <2>2. CASE UNCHANGED itemVars
    BY <1>3, <2>2, KeepsCounts DEF Extracted, jobVars
  <2>3. CASE /\ item' = [item EXCEPT ![work[x]] = after]
             /\ counters' = [counters EXCEPT ![work[x]] = Tally(after)]
             /\ dirty' = [dirty EXCEPT ![work[x]] = FALSE]
    <3>1. status' = status /\ status[work[x]] \notin Settled
      BY <1>3 DEF Extracted, jobVars, Fence, Settled
    <3> HIDE DEF after
    <3> QED
      BY <1>t, <2>1, <2>3, <3>1, Recount
  <2> QED
    BY <1>3, <2>2, <2>3 DEF Extracted
<1>4. ASSUME NEW x \in Execs, Begin(x) PROVE CountersAgree'
  <2>1. CASE UNCHANGED <<item, dirty>>
    <3>1. UNCHANGED <<item, counters, dirty, status>>
      BY <1>4, <2>1 DEF Begin, jobVars
    <3> QED
      BY <3>1, KeepsCounts DEF itemVars
  <2>2. CASE /\ item' = [item EXCEPT ![work[x]][at[x]] = "processing"]
             /\ dirty' = [dirty EXCEPT ![work[x]] = TRUE]
    <3>1. counters' = counters /\ status' = status /\ status[work[x]] \notin Settled
      BY <1>4 DEF Begin, jobVars, Fence, Settled
    <3>2. "processing" \in ItemState
      BY DEF ItemState, OpenItem
    <3> QED
      BY <1>t, <2>2, <3>1, <3>2, MarkedDirty
  <2> QED
    BY <1>4, <2>1, <2>2 DEF Begin
<1>5. ASSUME NEW x \in Execs, ScanXml(x) PROVE CountersAgree'
  <2>1. CASE Finish(x, "invalid")
    BY <1>5, <2>1, FinishCounts DEF ScanXml, jobVars, Results
  <2>2. CASE UNCHANGED itemVars
    BY <1>5, <2>2, KeepsCounts DEF ScanXml, jobVars
  <2> QED
    BY <1>5, <2>1, <2>2 DEF ScanXml
<1>6. ASSUME NEW x \in Execs, PublishRejected(x) PROVE CountersAgree'
    BY <1>6, FinishCounts DEF PublishRejected, jobVars, Results
<1>7. ASSUME NEW x \in Execs, PublishParsed(x) PROVE CountersAgree'
  <2>1. PICK r \in Results : Finish(x, r)
    BY <1>7 DEF PublishParsed, Results
  <2> QED
    BY <1>7, <2>1, FinishCounts DEF PublishParsed, jobVars
<1>8. ASSUME NEW x \in Execs, Complete(x) PROVE CountersAgree'
    BY <1>8, SettleCounts, <1>t DEF Complete
<1>9. ASSUME NEW x \in Execs, AcknowledgeCancel(x) PROVE CountersAgree'
    BY <1>9, SettleCounts, <1>t DEF AcknowledgeCancel
<1>10. ASSUME NEW x \in Execs, FailFinal(x) PROVE CountersAgree'
    BY <1>10, SettleCounts, <1>t DEF FailFinal
<1>11. ASSUME NEW x \in Execs, ScheduleRetry(x) PROVE CountersAgree'
    BY <1>11, KeepsCounts, <1>t DEF ScheduleRetry, Settled, itemVars
<1>12. ASSUME NEW x \in Execs, Release(x) PROVE CountersAgree'
    BY <1>12, KeepsCounts, <1>t DEF Release, Settled, itemVars
<1>13. ASSUME NEW j \in Jobs, CancelQueued(j) PROVE CountersAgree'
    BY <1>13, SettleCounts, <1>t DEF CancelQueued
<1>14. ASSUME NEW j \in Jobs, CancelProcessing(j) PROVE CountersAgree'
    BY <1>14, KeepsCounts, <1>t DEF CancelProcessing, Settled, itemVars
<1>15. ASSUME NEW j \in Jobs, AdmitRetry(j) PROVE CountersAgree'
    BY <1>15, KeepsCounts, <1>t DEF AdmitRetry, Settled, itemVars
<1>16. ASSUME NEW j \in Jobs, RecoverLease(j) PROVE CountersAgree'
  <2>1. CASE SettleAs(j, "cancelled") \/ SettleAs(j, "failed_final")
    BY <2>1, SettleCounts
  <2>2. CASE UNCHANGED itemVars /\ status' = [status EXCEPT ![j] = "queued"]
    BY <1>t, <2>2, KeepsCounts DEF Settled
  <2> QED
    BY <1>16, <2>1, <2>2 DEF RecoverLease
<1>17. ASSUME NEW j \in Jobs, FailRootless(j) PROVE CountersAgree'
    BY <1>17, SettleCounts, <1>t DEF FailRootless
<1>18. ASSUME NEW j \in Jobs, RepairCounters(j) PROVE CountersAgree'
  <2> SUFFICES ASSUME NEW k \in Jobs
               PROVE  /\ ~dirty'[k] => counters'[k] = Tally(item'[k])
                      /\ status'[k] \in Settled =>
                            ~dirty'[k] /\ ~\E e \in Entries : item'[k][e] \in OpenItem
    BY DEF CountersAgree, OpenItems, Tally
  <2>1. /\ ~dirty[k] => counters[k] = Tally(item[k])
        /\ status[k] \in Settled =>
              ~dirty[k] /\ ~\E e \in Entries : item[k][e] \in OpenItem
    BY DEF CountersAgree, OpenItems
  <2> QED
    BY <1>18, <1>t, <2>1 DEF RepairCounters, jobVars
<1>19. ASSUME NEW x \in Execs,
             Load(x) \/ RootScan(x) \/ Inspect(x) \/ RejectRoot(x) \/ Extract(x) \/
             Completion(x) \/ GiveUp(x) \/ HandlerThrows(x)
      PROVE  CountersAgree'
  <2>1. UNCHANGED <<status, item, counters, dirty>>
    BY <1>19 DEF Load, RootScan, Inspect, RejectRoot, Extract, Completion, GiveUp,
       HandlerThrows, jobVars, itemVars, objVars, execVars
  <2> QED
    BY <2>1, KeepsCounts DEF itemVars
<1>20. ASSUME NEW j \in Jobs,
             LeaseExpires(j)
      PROVE  CountersAgree'
  <2>1. UNCHANGED <<status, item, counters, dirty>>
    BY <1>20 DEF LeaseExpires, jobVars, itemVars, objVars, execVars
  <2> QED
    BY <2>1, KeepsCounts DEF itemVars
<1>21. ASSUME NEW o \in Objects,
             RejectOrphan(o) \/ ListCandidate(o)
      PROVE  CountersAgree'
  <2>1. UNCHANGED <<status, item, counters, dirty>>
    BY <1>21 DEF RejectOrphan, ListCandidate, jobVars, itemVars, objVars, execVars
  <2> QED
    BY <2>1, KeepsCounts DEF itemVars
<1>22. ASSUME ClaimCleanup \/ DeleteBytes \/ MarkDeleted \/ CleanerFails
      PROVE  CountersAgree'
  <2>1. UNCHANGED <<status, item, counters, dirty>>
    BY <1>22 DEF ClaimCleanup, DeleteBytes, MarkDeleted, CleanerFails, jobVars,
       itemVars, objVars, execVars
  <2> QED
    BY <2>1, KeepsCounts DEF itemVars
<1>23. CASE UNCHANGED vars
  <2>1. UNCHANGED <<status, item, counters, dirty>>
    BY <1>23 DEF vars, jobVars, itemVars, objVars, execVars
  <2> QED
    BY <2>1, KeepsCounts DEF itemVars
<1> QED
    BY <1>1, <1>2, <1>3, <1>4, <1>5, <1>6, <1>7, <1>8, <1>9, <1>10, <1>11, <1>12,
       <1>13, <1>14, <1>15, <1>16, <1>17, <1>18, <1>19, <1>20, <1>21, <1>22, <1>23 DEF
       Next, Step, Settle, Sweep

-----------------------------------------------------------------------------
(***************************************************************************)
(* The sources and the evidence.                                           *)
(***************************************************************************)
\* What a publication does to its item and to the sources.
Publishes(k, e) ==
    LET class == archive.class[e]  u == UuidOf[class] IN
    /\ class \in Documents /\ u \in Uuids
    /\ item[k][e] = "processing"
    /\ bytes[<<k, e>>] /\ ~asked[<<k, e>>]
    /\ UNCHANGED <<bytes, asked>>
    /\ \A l \in Jobs, f \in Entries : <<l, f>> # <<k, e>> => item'[l][f] = item[l][f]
    /\ \/ /\ cfdi[u] = None
          /\ cfdi' = [cfdi EXCEPT ![u] = <<k, e>>]
          /\ item'[k][e] = "incorporated"
          /\ life'[<<k, e>>] = "available"
       \/ /\ cfdi' = cfdi
          /\ item'[k][e] = "duplicate"
          /\ cfdi[u] \notin {None, <<k, e>>}
          /\ archive.class[cfdi[u][2]] = class
       \/ /\ cfdi' = cfdi
          /\ item'[k][e] = "invalid"
          /\ cfdi[u] # <<k, e>>

LEMMA Publication ==
    ASSUME Typed, Retention, Holding, OneSourcePerUuid,
           NEW x \in Execs, PublishParsed(x)
    PROVE  \E k \in Jobs, e \in Entries : Publishes(k, e)
<1> DEFINE k == work[x]
           e == at[x]
           class == archive.class[e]
           u == UuidOf[class]
<1>1. k \in Jobs /\ e \in Entries /\ <<k, e>> \in Objects /\ e + 1 # e
    BY Placed DEF Typed, ExecTypes, Entries
<1>2. class \in Documents /\ u \in Uuids /\ pc[x] = "publish"
    BY DEF PublishParsed
<1>3. PICK r \in Results : Finish(x, r)
    BY DEF PublishParsed, Results
<1>4. AtWork(x, k)
    BY <1>1, <1>2, <1>3 DEF Finish, Fence, Owns, AtWork, Moved, Advance, Typed, ExecTypes
<1>5. item[k][e] = "processing" /\ bytes[<<k, e>>] /\ ~asked[<<k, e>>]
    BY <1>1, <1>2, <1>4, InHand
<1>6. ASSUME NEW s, Finish(x, s)
      PROVE  /\ item'[k][e] = s
             /\ \A l \in Jobs, f \in Entries :
                   <<l, f>> # <<k, e>> => item'[l][f] = item[l][f]
    BY <1>1, <1>6 DEF Finish, Typed, ItemTypes
<1>7. UNCHANGED <<bytes, asked>>
    BY DEF PublishParsed
<1>8. ASSUME /\ cfdi[u] = None /\ cfdi' = [cfdi EXCEPT ![u] = <<k, e>>]
             /\ life' = [life EXCEPT ![<<k, e>>] = "available"]
             /\ Finish(x, "incorporated")
      PROVE  Publishes(k, e)
  <2>1. life'[<<k, e>>] = "available"
    BY <1>1, <1>8 DEF Typed, ObjectTypes
  <2> QED
    BY <1>1, <1>2, <1>5, <1>6, <1>7, <1>8, <2>1 DEF Publishes
<1>9. ASSUME /\ cfdi[u] \notin {None, <<k, e>>} /\ SameBytes(cfdi[u], e)
             /\ cfdi' = cfdi /\ Finish(x, "duplicate")
      PROVE  Publishes(k, e)
  <2>1. archive.class[cfdi[u][2]] = class
    BY <1>9 DEF SameBytes
  <2> QED
    BY <1>1, <1>2, <1>5, <1>6, <1>7, <1>9, <2>1 DEF Publishes
<1>10. ASSUME ~SameBytes(cfdi[u], e), cfdi' = cfdi, Finish(x, "invalid")
       PROVE  Publishes(k, e)
  <2>1. cfdi[u] # <<k, e>>
    BY <1>10 DEF SameBytes
  <2> QED
    BY <1>1, <1>2, <1>5, <1>6, <1>7, <1>10, <2>1 DEF Publishes
<1>11. Publishes(k, e)
    BY <1>8, <1>9, <1>10 DEF PublishParsed
<1> QED
    BY <1>1, <1>11

LEMMA SourcesStep ==
    ASSUME Typed, Retention, Holding, OneSourcePerUuid, Sources, [Next]_vars
    PROVE  Sources'
<1>1. archive' = archive
    BY ArchiveStays
<1>2. CASE cfdi' = cfdi
    BY <1>1, <1>2 DEF Sources
<1>3. ASSUME NEW x \in Execs, PublishParsed(x), cfdi' # cfdi PROVE Sources'
  <2>1. PICK k \in Jobs, e \in Entries : Publishes(k, e)
    BY <1>3, Publication
  <2>2. cfdi \in [Uuids -> Objects \cup {None}]
    BY DEF Typed, ObjectTypes
  <2> QED
    BY <1>1, <1>3, <2>1, <2>2 DEF Sources, Publishes
<1> QED
    BY <1>2, <1>3, CfdiEffect

LEMMA OneStep ==
    ASSUME Typed, Ownership, Retention, Holding, OneSourcePerUuid, Sources, [Next]_vars
    PROVE  OneSourcePerUuid'
<1>1. archive' = archive
    BY ArchiveStays
<1> SUFFICES ASSUME NEW l \in Jobs, NEW f \in Entries
             PROVE
        /\ item'[l][f] = "incorporated" <=>
              /\ archive.class[f] \in Documents
              /\ cfdi'[UuidOf[archive.class[f]]] = <<l, f>>
        /\ item'[l][f] = "duplicate" =>
              /\ archive.class[f] \in Documents
              /\ cfdi'[UuidOf[archive.class[f]]] # None
              /\ archive.class[cfdi'[UuidOf[archive.class[f]]][2]] = archive.class[f]
    BY <1>1 DEF OneSourcePerUuid
<1>2. /\ item[l][f] = "incorporated" <=>
            /\ archive.class[f] \in Documents
            /\ cfdi[UuidOf[archive.class[f]]] = <<l, f>>
      /\ item[l][f] = "duplicate" =>
            /\ archive.class[f] \in Documents
            /\ cfdi[UuidOf[archive.class[f]]] # None
            /\ archive.class[cfdi[UuidOf[archive.class[f]]][2]] = archive.class[f]
    BY DEF OneSourcePerUuid
<1>3. <<l, f>> # None
    BY Placed
<1>4. cfdi \in [Uuids -> Objects \cup {None}]
    BY DEF Typed, ObjectTypes
<1>5. CASE ~\E x \in Execs : PublishParsed(x)
  <2>1. cfdi' = cfdi
    BY <1>5, CfdiEffect
  <2>2. ItemMoves(l, f)
    BY ItemEffect
  <2>3. ASSUME NEW x \in Execs, AtWork(x, l), pc[x] \in {"xml", "publish"}, at[x] = f
        PROVE  item[l][f] = "processing"
    BY <2>3, InHand
  <2>4. /\ item'[l][f] = "incorporated" <=> item[l][f] = "incorporated"
        /\ item'[l][f] = "duplicate" <=> item[l][f] = "duplicate"
    BY <1>5, <2>2, <2>3 DEF ItemMoves, OpenItem, Results
  <2> QED
    BY <1>2, <2>1, <2>4
<1>6. ASSUME NEW x \in Execs, PublishParsed(x)
      PROVE
        /\ item'[l][f] = "incorporated" <=>
              /\ archive.class[f] \in Documents
              /\ cfdi'[UuidOf[archive.class[f]]] = <<l, f>>
        /\ item'[l][f] = "duplicate" =>
              /\ archive.class[f] \in Documents
              /\ cfdi'[UuidOf[archive.class[f]]] # None
              /\ archive.class[cfdi'[UuidOf[archive.class[f]]][2]] = archive.class[f]
  <2>0. PICK k \in Jobs, e \in Entries : Publishes(k, e)
    BY <1>6, Publication
  <2> DEFINE u == UuidOf[archive.class[e]]
  <2>1. /\ archive.class[e] \in Documents /\ u \in Uuids
        /\ item[k][e] = "processing"
        /\ <<l, f>> # <<k, e>> => item'[l][f] = item[l][f]
        /\ \/ /\ cfdi[u] = None
              /\ cfdi' = [cfdi EXCEPT ![u] = <<k, e>>]
              /\ item'[k][e] = "incorporated"
           \/ /\ cfdi' = cfdi
              /\ item'[k][e] = "duplicate"
              /\ cfdi[u] \notin {None, <<k, e>>}
              /\ archive.class[cfdi[u][2]] = archive.class[e]
           \/ /\ cfdi' = cfdi
              /\ item'[k][e] = "invalid"
              /\ cfdi[u] # <<k, e>>
    BY <2>0 DEF Publishes
  <2>2. CASE <<l, f>> = <<k, e>>
    <3>1. l = k /\ f = e
      BY <2>2
    <3> QED
      BY <1>4, <2>1, <3>1
  <2>3. CASE <<l, f>> # <<k, e>> /\ cfdi' = cfdi
    BY <1>2, <2>1, <2>3
  <2>4. CASE /\ <<l, f>> # <<k, e>> /\ cfdi[u] = None
             /\ cfdi' = [cfdi EXCEPT ![u] = <<k, e>>]
    <3>1. CASE archive.class[f] \in Documents /\ UuidOf[archive.class[f]] = u
      BY <1>2, <1>3, <1>4, <2>1, <2>4, <3>1
    <3>2. CASE ~(archive.class[f] \in Documents /\ UuidOf[archive.class[f]] = u)
      BY <1>2, <1>4, <2>1, <2>4, <3>2
    <3> QED
      BY <3>1, <3>2
  <2> QED
    BY <2>1, <2>2, <2>3, <2>4
<1> QED
    BY <1>5, <1>6

\* The object of a result that something refers to stays as it is.
LEMMA Kept ==
    ASSUME Typed, Ownership, Retention, Holding, [Next]_vars,
           NEW k \in Jobs, NEW e \in Entries,
           item[k][e] \in {"incorporated", "invalid"},
           life[<<k, e>>] \in {"available", "quarantined"},
           bytes[<<k, e>>], ~asked[<<k, e>>], Referenced(<<k, e>>)
    PROVE  life'[<<k, e>>] = life[<<k, e>>] /\ bytes'[<<k, e>>] /\ ~asked'[<<k, e>>]
<1> DEFINE p == <<k, e>>
<1>1. p \in Objects /\ p # Root
    BY Placed
<1>2. ObjectMoves(p)
    BY <1>1, ObjectEffect
<1>3. ~\E l \in Jobs, f \in Entries, x \in Execs :
          /\ p = <<l, f>> /\ AtWork(x, l)
          /\ \/ item[l][f] = "none"
             \/ pc[x] = "record" /\ life[p] = "pending_upload"
             \/ pc[x] \in {"xml", "publish"} /\ at[x] = f
  <2> SUFFICES ASSUME NEW x \in Execs, AtWork(x, k), pc[x] \in {"xml", "publish"},
                      at[x] = e
               PROVE  FALSE
    OBVIOUS
  <2> QED
    BY InHand
<1>4. ~(p = sweep.object /\ sweep.pc \in {"claimed", "deleting"})
    BY DEF Retention
<1>5. Referenced(p)
    OBVIOUS
<1> HIDE DEF p
<1> QED
    BY <1>1, <1>2, <1>3, <1>4, <1>5 DEF ObjectMoves, Same, p

LEMMA SourceKeptStep ==
    ASSUME Typed, Ownership, Retention, Holding, OneSourcePerUuid, Sources, SourceKept,
           [Next]_vars
    PROVE  SourceKept'
<1> SUFFICES ASSUME NEW u \in Uuids, cfdi'[u] # None
             PROVE  /\ life'[cfdi'[u]] = "available"
                    /\ bytes'[cfdi'[u]] /\ ~asked'[cfdi'[u]]
    BY DEF SourceKept
<1>1. CASE cfdi'[u] = cfdi[u]
  <2>1. PICK k \in Jobs, e \in Entries :
           /\ cfdi[u] = <<k, e>>
           /\ archive.class[e] \in Documents
           /\ UuidOf[archive.class[e]] = u
    BY <1>1 DEF Sources
  <2>2. item[k][e] = "incorporated"
    BY <2>1 DEF OneSourcePerUuid
  <2>3. life[<<k, e>>] = "available" /\ bytes[<<k, e>>] /\ ~asked[<<k, e>>]
    BY <1>1, <2>1 DEF SourceKept
  <2>4. Referenced(<<k, e>>)
    BY <2>1 DEF Referenced, Published
  <2> QED
    BY <1>1, <2>1, <2>2, <2>3, <2>4, Kept
<1>2. CASE cfdi'[u] # cfdi[u]
  <2>1. PICK x \in Execs : PublishParsed(x)
    BY <1>2, CfdiEffect
  <2>2. cfdi \in [Uuids -> Objects \cup {None}]
    BY DEF Typed, ObjectTypes
  <2>3. PICK k \in Jobs, e \in Entries :
           /\ UuidOf[archive.class[e]] \in Uuids
           /\ cfdi' = [cfdi EXCEPT ![UuidOf[archive.class[e]]] = <<k, e>>]
           /\ life'[<<k, e>>] = "available"
           /\ bytes[<<k, e>>] /\ ~asked[<<k, e>>] /\ UNCHANGED <<bytes, asked>>
    <3>1. PICK k \in Jobs, e \in Entries : Publishes(k, e)
      BY <2>1, Publication
    <3> QED
      BY <1>2, <3>1 DEF Publishes
  <2>4. cfdi'[u] = <<k, e>>
    BY <1>2, <2>2, <2>3
  <2> QED
    BY <2>3, <2>4
<1> QED
    BY <1>1, <1>2

LEMMA EvidenceStep ==
    ASSUME Typed, Ownership, Retention, Holding, EvidenceKept, [Next]_vars
    PROVE  EvidenceKept'
<1> SUFFICES ASSUME NEW k \in Jobs, NEW e \in Entries, item'[k][e] = "invalid"
             PROVE  /\ life'[<<k, e>>] = "quarantined"
                    /\ bytes'[<<k, e>>] /\ ~asked'[<<k, e>>]
    BY DEF EvidenceKept
<1>1. CASE item[k][e] = "invalid"
  <2>1. life[<<k, e>>] = "quarantined" /\ bytes[<<k, e>>] /\ ~asked[<<k, e>>]
    BY <1>1 DEF EvidenceKept
  <2>2. Referenced(<<k, e>>)
    BY <1>1 DEF Referenced, Incident
  <2> QED
    BY <1>1, <2>1, <2>2, Kept
<1>2. CASE item[k][e] # "invalid"
  <2>1. ItemMoves(k, e)
    BY ItemEffect
  <2>2. PICK x \in Execs :
           /\ AtWork(x, k) /\ pc[x] \in {"xml", "publish"} /\ at[x] = e
           /\ life'[<<k, e>>] = "quarantined" /\ UNCHANGED <<bytes, asked>>
    BY <1>2, <2>1 DEF ItemMoves
  <2> QED
    BY <2>2, InHand
<1> QED
    BY <1>1, <1>2

-----------------------------------------------------------------------------
(***************************************************************************)
(* The inductive invariant.                                                *)
(***************************************************************************)
LEMMA InvInit == Init => IInv
<1> SUFFICES ASSUME Init PROVE IInv
    OBVIOUS
<1>1. Typed
    BY TypeInit
<1>2. Ownership
    BY DEF Init, Ownership, InProgress
<1>3. CountersAgree
    BY DEF Init, CountersAgree, Settled
<1>4. Reading /\ DamagedPublishesNothing /\ Holding /\ Sources /\ SourceKept
    BY DEF Init, Reading, DamagedPublishesNothing, Holding, Holds, Sources, SourceKept
<1>5. Retention
    BY Placed DEF Init, Retention, Usable, NoSweep
<1>6. Reserved
    BY Placed DEF Init, Reserved
<1>7. OneSourcePerUuid
    BY Placed DEF Init, OneSourcePerUuid
<1>8. EvidenceKept
    BY DEF Init, EvidenceKept
<1> QED
    BY <1>1, <1>2, <1>3, <1>4, <1>5, <1>6, <1>7, <1>8 DEF IInv

LEMMA InvStep == IInv /\ [Next]_vars => IInv'
    BY TypeStep, OwnershipStep, CountersStep, ReadingStep, DamagedStep, RetentionStep,
       ReservedStep, HoldingStep, SourcesStep, OneStep, SourceKeptStep, EvidenceStep
       DEF IInv

\* Every reachable state of the archives satisfies the parts above, for any
\* archives, jobs, executions and contents.
THEOREM Inductive == Spec => []IInv
<1>1. Init => IInv
    BY InvInit
<1>2. IInv /\ [Next]_vars => IInv'
    BY InvStep
<1> QED
    BY <1>1, <1>2, PTL DEF Spec

\* Every variable has its type.
THEOREM TypeCorrect == Spec => []TypeOK
<1>1. IInv => TypeOK
    BY DEF IInv, Typed, TypeOK, JobTypes, ItemTypes, ObjectTypes, ExecTypes, SweepTypes
<1> QED
    BY <1>1, Inductive, PTL

\* The source of a published CFDI is never cleaned up.
THEOREM SourcesStay == Spec => []SourceKept
<1>1. IInv => SourceKept
    BY DEF IInv
<1> QED
    BY <1>1, Inductive, PTL

\* The bytes an open incident is about are kept.
THEOREM EvidenceStays == Spec => []EvidenceKept
<1>1. IInv => EvidenceKept
    BY DEF IInv
<1> QED
    BY <1>1, Inductive, PTL

\* One fiscal UUID has one source, whatever jobs publish it.
THEOREM SourceIsUnique == Spec => []OneSourcePerUuid
<1>1. IInv => OneSourcePerUuid
    BY DEF IInv
<1> QED
    BY <1>1, Inductive, PTL

\* A damaged archive publishes nothing.
THEOREM DamageIsTotal == Spec => []DamagedPublishesNothing
<1>1. IInv => DamagedPublishesNothing
    BY DEF IInv
<1> QED
    BY <1>1, Inductive, PTL

\* The counters marked as reconciled are the count of the items.
THEOREM CountersHold == Spec => []CountersAgree
<1>1. IInv => CountersAgree
    BY DEF IInv
<1> QED
    BY <1>1, Inductive, PTL

\* What an active job has to read is not cleaned under it.
THEOREM InputsStay == Spec => []ActiveInputsKept
<1>1. IInv => ActiveInputsKept
    BY Placed DEF IInv, ActiveInputsKept, Retention, Usable
<1> QED
    BY <1>1, Inductive, PTL

\* Neither a lost lease, a later attempt nor a recovery changes a result.
THEOREM ResultsHold == Spec => ResultsAreFinal
<1>1. ASSUME IInv, [Next]_vars, NEW j \in Jobs
      PROVE  /\ status[j] \in Settled => status'[j] = status[j]
             /\ \A e \in Entries : item[j][e] \in Results => item'[j][e] = item[j][e]
  <2>1. status[j] \in Settled => status'[j] = status[j]
    BY <1>1, SettledStays DEF IInv
  <2>2. ASSUME NEW e \in Entries, item[j][e] \in Results
        PROVE  item'[j][e] = item[j][e]
    <3>1. ItemMoves(j, e)
      BY <1>1, ItemEffect DEF IInv
    <3>2. ASSUME NEW x \in Execs, AtWork(x, j), pc[x] \in {"xml", "publish"}, at[x] = e
          PROVE  FALSE
      BY <1>1, <2>2, <3>2, InHand DEF IInv, Results
    <3> QED
      BY <2>2, <3>1, <3>2 DEF ItemMoves, OpenItem, Results
  <2> QED
    BY <2>1, <2>2
<1>2. IInv /\ [Next]_vars =>
        [\A j \in Jobs :
            /\ status[j] \in Settled => status'[j] = status[j]
            /\ \A e \in Entries :
                  item[j][e] \in Results => item'[j][e] = item[j][e]]_vars
    BY <1>1
<1> QED
    BY <1>2, Inductive, PTL DEF Spec, ResultsAreFinal
=============================================================================
