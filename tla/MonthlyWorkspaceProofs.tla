----------------------- MODULE MonthlyWorkspaceProofs -----------------------
(* Proofs about MonthlyWorkspace, for any sets of editors, requests, documents *)
(* and reconcilers, any keys and any bounds.                                   *)
(*                                                                             *)
(* Whoever commits a change of the period or of the workspace decides what the *)
(* other open transactions may still do: they are rolled back, or they know    *)
(* that they are behind. So what an open transaction has read of the rows it   *)
(* decides on is what the rows still say, and a decision on a snapshot is a    *)
(* decision on the present.                                                    *)
EXTENDS MonthlyWorkspace, FiniteSetTheorems, TLAPS

USE NobodyAssumption, FreshAssumption, MonthlyBoundsAssumption

\* The types of the rows and of what a transaction has read of them.
WsFields == [made : BOOLEAN, version : 0 .. MaxVersion,
             editor : Editors \cup {Nobody}, lease : {"none", "held", "lapsed"},
             prepared : SUBSET Contents, close : SUBSET Contents]
WsRows == {w \in WsFields :
             /\ (w.editor = Nobody) <=> (w.lease = "none")
             /\ w.prepared = {} \/ \E c \in Contents : w.prepared = {c}
             /\ w.close = {} \/ \E c \in Contents : w.close = {c}}
BookRows == [reviewed : [Documents -> BOOLEAN], checked : BOOLEAN, ops : SUBSET Keys]
Views == [period : Statuses, ws : WsRows, book : BookRows, parts : SUBSET Documents]
OpenTx == [open : {TRUE}, seen : Views, behind : BOOLEAN]
ShutTx == [open : {FALSE}, seen : {NoRow}, behind : {FALSE}]
Reads == OpenTx \cup ShutTx

Typed ==
    /\ period \in Statuses \cup {NoRow} /\ ws \in WsRows /\ book \in BookRows
    /\ parts \in SUBSET Documents /\ intents \in SUBSET Documents /\ faults \in 0 .. MaxFaults
    /\ tx \in [Requests -> Reads]
    /\ published \in [Documents -> PublicationStates]
    /\ recon \in [Documents -> [status : {NoRow, "legacy", "ready", "resolved", "failed"},
                                by : Reconcilers \cup {Nobody}]]
    /\ work \in [Reconcilers -> [todo : SUBSET Documents, placing : Documents \cup {Nobody}]]
    /\ applied \in [Keys -> 0 .. 2] /\ displaced \in BOOLEAN

\* What the rows of the month say, apart from the time limit of the lease and the keys.
SameRow(v) == /\ v.made = ws.made /\ v.version = ws.version /\ v.editor = ws.editor
              /\ v.prepared = ws.prepared /\ v.close = ws.close

\* A snapshot is as good as the rows: of the workspace row as long as it is not behind,
\* of the status and the decisions always, of the participations while the month is ready.
SnapshotsHold ==
    \A r \in Requests : tx[r].open =>
       /\ ~tx[r].behind => SameRow(tx[r].seen.ws)
       /\ tx[r].seen.period = period
       /\ tx[r].seen.book.reviewed = book.reviewed
       /\ tx[r].seen.book.checked = book.checked
       /\ period = "ready_to_close" => tx[r].seen.parts = parts

\* A key that took effect is stored.
KeysStored == \A k \in Keys : applied[k] > 0 => k \in book.ops

-----------------------------------------------------------------------------
(* Type correctness.                                                           *)

\* What is known of the transaction of an open request.
LEMMA OpenReads ==
    ASSUME Typed, NEW r \in Requests, tx[r].open
    PROVE  tx[r].seen \in Views /\ tx[r].behind \in BOOLEAN
<1>1. tx[r] \in Reads
    BY DEF Typed
<1>2. tx[r] \in OpenTx
    BY <1>1 DEF Reads, ShutTx
<1> QED
    BY <1>2 DEF OpenTx

LEMMA Bounds == MaxVersion \in Nat /\ MaxFaults \in Nat
OBVIOUS

\* The content of a month is one that a close can keep.
LEMMA ContentTyped ==
    ASSUME NEW v \in Views PROVE ContentOf(v) \in Contents
<1>1. [d \in v.parts |-> v.book.reviewed[d]] \in [v.parts -> BOOLEAN]
    BY DEF Views, BookRows
<1>2. v.parts \in SUBSET Documents /\ v.book.checked \in BOOLEAN
    BY DEF Views, BookRows
<1>3. [d \in v.parts |-> v.book.reviewed[d]] \in UNION {[D -> BOOLEAN] : D \in SUBSET Documents}
    BY <1>1, <1>2
<1> QED
    BY <1>2, <1>3 DEF ContentOf, Contents

\* The rows a write makes of one it has read.
LEMMA RowsMade ==
    ASSUME NEW w \in WsRows
    PROVE  /\ w.version < MaxVersion => Changed(w) \in WsRows
           /\ GivenUp(w) \in WsRows
           /\ \A e \in Editors : [w EXCEPT !.made = TRUE, !.editor = e, !.lease = "held"] \in WsRows
           /\ \A c \in Contents : /\ [w EXCEPT !.prepared = {c}] \in WsRows
                                  /\ [w EXCEPT !.close = {c}] \in WsRows
<1>0. w \in WsFields /\ w.version \in 0 .. MaxVersion
    BY DEF WsRows, WsFields
<1>1. w.version < MaxVersion => Changed(w) \in WsRows
  <2> SUFFICES ASSUME w.version < MaxVersion PROVE Changed(w) \in WsRows
    OBVIOUS
  <2>0. w.version + 1 \in 0 .. MaxVersion
    BY <1>0, Bounds
  <2>1. Changed(w) \in WsFields
    BY <1>0, <2>0 DEF WsFields, Changed
  <2>2. /\ Changed(w).editor = w.editor /\ Changed(w).lease = w.lease
        /\ Changed(w).prepared = {} /\ Changed(w).close = w.close
    BY <1>0 DEF WsFields, Changed
  <2> QED
    BY <2>1, <2>2 DEF WsRows
<1>2. GivenUp(w) \in WsRows
    BY DEF WsRows, WsFields, GivenUp
<1>3. \A e \in Editors : [w EXCEPT !.made = TRUE, !.editor = e, !.lease = "held"] \in WsRows
    BY DEF WsRows, WsFields
<1>4. \A c \in Contents : /\ [w EXCEPT !.prepared = {c}] \in WsRows
                          /\ [w EXCEPT !.close = {c}] \in WsRows
    BY DEF WsRows, WsFields
<1> QED
    BY <1>1, <1>2, <1>3, <1>4

LEMMA IdleTyped == Idle \in Reads
BY DEF Reads, ShutTx, Idle

\* The transactions after a commit.
LEMMA OthersTyped ==
    ASSUME Typed
    PROVE  /\ PeriodChanged \in [Requests -> Reads]
           /\ WorkspaceChanged \in [Requests -> Reads]
<1>1. Idle \in Reads
    BY IdleTyped
<1>2. \A q \in Requests : [tx[q] EXCEPT !.behind = tx[q].open] \in Reads
  <2> SUFFICES ASSUME NEW q \in Requests PROVE [tx[q] EXCEPT !.behind = tx[q].open] \in Reads
    OBVIOUS
  <2>1. CASE tx[q] \in ShutTx
    <3>1. [tx[q] EXCEPT !.behind = tx[q].open] \in ShutTx
      BY <2>1 DEF ShutTx
    <3> QED
      BY <3>1 DEF Reads
  <2>2. CASE tx[q] \in OpenTx
    <3>1. [tx[q] EXCEPT !.behind = tx[q].open] \in OpenTx
      BY <2>2 DEF OpenTx
    <3> QED
      BY <3>1 DEF Reads
  <2> QED
    BY <2>1, <2>2 DEF Typed, Reads
<1> QED
    BY <1>1, <1>2 DEF PeriodChanged, WorkspaceChanged

\* A commit that writes a row, a status and the stored keys of their types.
LEMMA CommitTyped ==
    ASSUME Typed, NEW r \in Requests, NEW row \in WsRows,
           NEW others \in [Requests -> Reads], Commits(r, row, others),
           period' \in Statuses \cup {NoRow}, book' \in BookRows,
           applied' \in [Keys -> 0 .. 2], displaced' \in BOOLEAN
    PROVE  Typed'
<1>1. tx' \in [Requests -> Reads]
    BY IdleTyped DEF Commits
<1> QED
    BY <1>1 DEF Typed, Commits, worker

\* The history of a key is counted to 2.
LEMMA CountedTyped ==
    ASSUME Typed, NEW key PROVE Counted(key) \in [Keys -> 0 .. 2]
BY DEF Typed, Counted

\* A write to the content of the month.
LEMMA WritesTyped ==
    ASSUME Typed, NEW r \in Requests, tx[r].open, NEW e, NEW expected, NEW row \in WsRows,
           NEW status \in Statuses \cup {NoRow}, Writes(r, e, expected, row, status),
           book' \in BookRows, applied' \in [Keys -> 0 .. 2]
    PROVE  Typed'
<1>1. displaced' \in BOOLEAN
    BY DEF Typed, Writes
<1>2. period' \in Statuses \cup {NoRow} /\ Commits(r, row, PeriodChanged)
    BY DEF Writes
<1> QED
    BY <1>1, <1>2, OthersTyped, CommitTyped

LEMMA KeyedTyped ==
    ASSUME Typed, NEW r \in Requests, tx[r].open, NEW e, NEW expected,
           NEW key \in Keys \cup {Fresh}, NEW row \in WsRows, NEW b \in BookRows,
           NEW status \in Statuses \cup {NoRow}, KeyedWrite(r, e, expected, key, row, b, status)
    PROVE  Typed'
<1>1. book' \in BookRows
    BY DEF KeyedWrite, BookRows, Remember
<1>2. applied' \in [Keys -> 0 .. 2]
    BY CountedTyped DEF KeyedWrite
<1> QED
    BY <1>1, <1>2, WritesTyped DEF KeyedWrite

\* The version a write has read is below the bound.
LEMMA ReadVersion ==
    ASSUME Typed, NEW r \in Requests, tx[r].open, NEW e, NEW expected \in 0 .. ws.version,
           NEW row, NEW status, Writes(r, e, expected, row, status)
    PROVE  tx[r].seen.ws \in WsRows /\ Changed(tx[r].seen.ws) \in WsRows
<1>1. tx[r].seen.ws \in WsRows
    BY OpenReads DEF Views
<1>2. tx[r].seen.ws.version = expected /\ ws.version < MaxVersion
    BY DEF Writes, UpToDate
<1>3. ws.version \in 0 .. MaxVersion
    BY DEF Typed, WsRows, WsFields
<1>4. tx[r].seen.ws.version < MaxVersion
    BY <1>2, <1>3
<1> QED
    BY <1>1, <1>4, RowsMade

LEMMA EditsTyped ==
    ASSUME Typed, NEW r \in Requests, tx[r].open, NEW e, NEW expected \in 0 .. ws.version,
           NEW key \in Keys \cup {Fresh}, NEW b \in BookRows, Edits(r, e, expected, key, b)
    PROVE  Typed'
<1>1. Changed(tx[r].seen.ws) \in WsRows
    BY ReadVersion DEF Edits, KeyedWrite
<1>2. Touched(period) \in Statuses \cup {NoRow}
    BY DEF Typed, Touched, Statuses
<1> QED
    BY <1>1, <1>2, KeyedTyped DEF Edits

\* A step that leaves the month, its transactions and its history alone.
LEMMA WorkerTyped ==
    ASSUME Typed, UNCHANGED <<month, tx, history>>,
           published' \in [Documents -> PublicationStates],
           recon' \in [Documents -> [status : {NoRow, "legacy", "ready", "resolved", "failed"},
                                     by : Reconcilers \cup {Nobody}]],
           work' \in [Reconcilers -> [todo : SUBSET Documents,
                                      placing : Documents \cup {Nobody}]],
           intents' \in SUBSET Documents, faults' \in 0 .. MaxFaults
    PROVE  Typed'
BY DEF Typed, month, history

\* A fault is counted up to its bound.
LEMMA FaultTyped ==
    ASSUME Typed, UNCHANGED faults \/ (faults < MaxFaults /\ faults' = faults + 1)
    PROVE  faults' \in 0 .. MaxFaults
<1>1. faults \in 0 .. MaxFaults
    BY DEF Typed
<1> QED
    BY <1>1, Bounds

\* The arrival of a document, with what a worker writes in the same transaction.
LEMMA ArrivesTyped ==
    ASSUME Typed, NEW d \in Documents, Arrives(d), faults' \in 0 .. MaxFaults,
           published' \in [Documents -> PublicationStates],
           recon' \in [Documents -> [status : {NoRow, "legacy", "ready", "resolved", "failed"},
                                     by : Reconcilers \cup {Nobody}]],
           work' \in [Reconcilers -> [todo : SUBSET Documents,
                                      placing : Documents \cup {Nobody}]],
           intents' \in SUBSET Documents
    PROVE  Typed'
<1>1. period' \in Statuses \cup {NoRow}
    BY DEF Typed, Arrives, Arrived, Statuses
<1>2. tx' \in [Requests -> Reads]
    BY OthersTyped DEF Typed, Arrives
<1>3. parts' \in SUBSET Documents
    BY DEF Typed, Arrives
<1> QED
    BY <1>1, <1>2, <1>3 DEF Typed, Arrives, history

\* A cycle of a reconciler goes on with what remains.
LEMMA DoneTyped ==
    ASSUME Typed, NEW w \in Reconcilers, NEW d, Done(w, d)
    PROVE  work' \in [Reconcilers -> [todo : SUBSET Documents,
                                      placing : Documents \cup {Nobody}]]
BY DEF Typed, Done

LEMMA TypedInit == Init => Typed
<1> SUFFICES ASSUME Init PROVE Typed
    OBVIOUS
<1>1. ws \in WsRows
    BY Bounds DEF Init, WsRows, WsFields
<1>2. book \in BookRows
    BY DEF Init, BookRows
<1>3. tx \in [Requests -> Reads]
    BY IdleTyped DEF Init
<1>4. period \in Statuses \cup {NoRow}
    BY DEF Init, Statuses
<1>5. recon \in [Documents -> [status : {NoRow, "legacy", "ready", "resolved", "failed"},
                              by : Reconcilers \cup {Nobody}]]
    BY DEF Init
<1>6. work \in [Reconcilers -> [todo : SUBSET Documents, placing : Documents \cup {Nobody}]]
    BY DEF Init, Quiet
<1>7. published \in [Documents -> PublicationStates]
    BY DEF Init, PublicationStates
<1>8. parts \in SUBSET Documents /\ intents \in SUBSET Documents /\ displaced \in BOOLEAN
    BY DEF Init
<1>9. faults \in 0 .. MaxFaults
    BY Bounds DEF Init
<1>10. applied \in [Keys -> 0 .. 2]
    BY DEF Init
<1> QED
    BY <1>1, <1>2, <1>3, <1>4, <1>5, <1>6, <1>7, <1>8, <1>9, <1>10 DEF Typed

\* What a request writes.
LEMMA WriteTyped ==
    ASSUME Typed, NEW r \in Requests, Write(r)
    PROVE  Typed'
<1>0. tx[r].open /\ tx[r].seen \in Views /\ tx[r].seen.ws \in WsRows
  <2>1. tx[r].open
    BY DEF Write
  <2> QED
    BY <2>1, OpenReads DEF Views
<1>v. PICK e \in Editors :
       \/ Acquire(r, e) \/ Renew(r, e)
       \/ \E expected \in 0 .. ws.version :
             \/ PrepareClose(r, e, expected)
             \/ \E key \in Keys \cup {Fresh} :
                   \/ Decide(r, e, expected, key) \/ BulkOfNothing(r, e, expected, key)
                   \/ Confirm(r, e, expected, key) \/ Annotate(r, e, expected, key)
                   \/ Close(r, e, expected, key) \/ Reopen(r, e, expected, key)
    BY DEF Write
<1>1. CASE Acquire(r, e)
  <2>1. PICK row \in WsRows : Commits(r, row, WorkspaceChanged)
    BY <1>0, <1>1, RowsMade DEF Acquire
  <2>2. UNCHANGED <<period, book, history>>
    BY <1>1 DEF Acquire
  <2> QED
    BY <2>1, <2>2, OthersTyped, CommitTyped DEF Typed, history
<1>2. CASE Renew(r, e)
  <2>1. PICK row \in WsRows : Commits(r, row, WorkspaceChanged)
    BY <1>0, <1>2, RowsMade DEF Renew
  <2>2. UNCHANGED <<period, book, history>>
    BY <1>2 DEF Renew
  <2> QED
    BY <2>1, <2>2, OthersTyped, CommitTyped DEF Typed, history
<1>3. ASSUME NEW expected \in 0 .. ws.version, PrepareClose(r, e, expected) PROVE Typed'
  <2>1. Changed(tx[r].seen.ws) \in WsRows
    BY <1>0, <1>3, ReadVersion DEF PrepareClose
  <2>2. [Changed(tx[r].seen.ws) EXCEPT !.prepared = {ContentOf(tx[r].seen)}] \in WsRows
    BY <1>0, <2>1, ContentTyped, RowsMade
  <2>3. book' \in BookRows /\ applied' \in [Keys -> 0 .. 2]
    BY <1>3 DEF PrepareClose, Typed
  <2>4. "ready_to_close" \in Statuses
    BY DEF Statuses
  <2> QED
    BY <1>0, <1>3, <2>2, <2>3, <2>4, WritesTyped DEF PrepareClose
<1> SUFFICES ASSUME NEW expected \in 0 .. ws.version, NEW key \in Keys \cup {Fresh},
                    \/ Decide(r, e, expected, key) \/ BulkOfNothing(r, e, expected, key)
                    \/ Confirm(r, e, expected, key) \/ Annotate(r, e, expected, key)
                    \/ Close(r, e, expected, key) \/ Reopen(r, e, expected, key)
             PROVE  Typed'
    BY <1>v, <1>1, <1>2, <1>3
<1>b. book \in BookRows
    BY DEF Typed
<1>4. CASE Decide(r, e, expected, key)
  <2>1. PICK D \in SUBSET tx[r].seen.parts, reviewed \in BOOLEAN :
           Edits(r, e, expected, key, [book EXCEPT !.reviewed =
              [d \in Documents |-> IF d \in D THEN reviewed ELSE @[d]]])
    BY <1>4 DEF Decide
  <2>2. [book EXCEPT !.reviewed = [d \in Documents |-> IF d \in D THEN reviewed ELSE @[d]]]
          \in BookRows
    BY <1>b DEF BookRows
  <2> QED
    BY <1>0, <2>1, <2>2, EditsTyped
<1>5. CASE BulkOfNothing(r, e, expected, key)
  <2>1. book' \in BookRows
    BY <1>5, <1>b DEF BulkOfNothing, BookRows, Remember
  <2>2. tx' \in [Requests -> Reads]
    BY <1>5, IdleTyped DEF BulkOfNothing, Typed
  <2>3. applied' \in [Keys -> 0 .. 2]
    BY <1>5, CountedTyped DEF BulkOfNothing
  <2> QED
    BY <1>5, <2>1, <2>2, <2>3 DEF BulkOfNothing, Typed, worker
<1>6. CASE Confirm(r, e, expected, key)
  <2>1. PICK confirmed \in BOOLEAN :
           Edits(r, e, expected, key, [book EXCEPT !.checked = confirmed])
    BY <1>6 DEF Confirm
  <2>2. [book EXCEPT !.checked = confirmed] \in BookRows
    BY <1>b DEF BookRows
  <2> QED
    BY <1>0, <2>1, <2>2, EditsTyped
<1>7. CASE Annotate(r, e, expected, key)
    BY <1>0, <1>7, <1>b, EditsTyped DEF Annotate
<1>8. CASE Close(r, e, expected, key)
  <2>1. Changed(tx[r].seen.ws) \in WsRows
    BY <1>0, <1>8, ReadVersion DEF Close, KeyedWrite
  <2>2. [Changed(tx[r].seen.ws) EXCEPT !.close = {ContentOf(tx[r].seen)}] \in WsRows
    BY <1>0, <2>1, ContentTyped, RowsMade
  <2>3. "closed" \in Statuses
    BY DEF Statuses
  <2> QED
    BY <1>0, <1>8, <1>b, <2>2, <2>3, KeyedTyped DEF Close
<1>9. CASE Reopen(r, e, expected, key)
  <2>1. Changed(tx[r].seen.ws) \in WsRows
    BY <1>0, <1>9, ReadVersion DEF Reopen, KeyedWrite
  <2>2. "reopened" \in Statuses
    BY DEF Statuses
  <2> QED
    BY <1>0, <1>9, <1>b, <2>1, <2>2, KeyedTyped DEF Reopen
<1> QED
    BY <1>4, <1>5, <1>6, <1>7, <1>8, <1>9

\* Every step keeps the types.
LEMMA TypedStep == Typed /\ [Next]_vars => Typed'
<1> SUFFICES ASSUME Typed, [Next]_vars PROVE Typed'
    OBVIOUS
<1>r. /\ published \in [Documents -> PublicationStates]
      /\ recon \in [Documents -> [status : {NoRow, "legacy", "ready", "resolved", "failed"},
                                  by : Reconcilers \cup {Nobody}]]
      /\ work \in [Reconcilers -> [todo : SUBSET Documents,
                                   placing : Documents \cup {Nobody}]]
      /\ intents \in SUBSET Documents /\ faults \in 0 .. MaxFaults
    BY DEF Typed
<1>1. ASSUME NEW r \in Requests, Begin(r) PROVE Typed'
  <2>1. View \in Views
    BY <1>1 DEF Begin, View, Views, Typed
  <2>2. [Idle EXCEPT !.open = TRUE, !.seen = View] \in OpenTx
    BY <2>1 DEF Idle, OpenTx
  <2>3. tx' \in [Requests -> Reads]
    BY <1>1, <2>2 DEF Begin, Typed, Reads
  <2> QED
    BY <1>1, <2>3 DEF Begin, Typed, month, worker, history
<1>2. ASSUME NEW r \in Requests, Refuse(r) PROVE Typed'
  <2>1. tx' \in [Requests -> Reads]
    BY <1>2, IdleTyped DEF Refuse, Typed
  <2> QED
    BY <1>2, <2>1 DEF Refuse, Typed, month, worker, history
<1>3. ASSUME NEW r \in Requests, Write(r) PROVE Typed'
    BY <1>3, WriteTyped
<1>4. ASSUME NEW d \in Documents, Publish(d) PROVE Typed'
    BY <1>r, <1>4, WorkerTyped DEF Publish, PublicationStates
<1>5. ASSUME NEW d \in Documents, PublicationCommits(d) PROVE Typed'
  <2>1. /\ published' \in [Documents -> PublicationStates]
        /\ intents' \in SUBSET Documents /\ UNCHANGED <<work, faults>>
    BY <1>r, <1>5 DEF PublicationCommits, PublicationStates
  <2>2. recon' \in [Documents -> [status : {NoRow, "legacy", "ready", "resolved", "failed"},
                                  by : Reconcilers \cup {Nobody}]]
    BY <1>r, <1>5 DEF PublicationCommits
  <2>3. Arrives(d) \/ UNCHANGED <<month, tx, history>>
    BY <1>5 DEF PublicationCommits
  <2>4. work' \in [Reconcilers -> [todo : SUBSET Documents, placing : Documents \cup {Nobody}]]
        /\ faults' \in 0 .. MaxFaults
    BY <1>r, <2>1
  <2> QED
    BY <2>1, <2>2, <2>3, <2>4, ArrivesTyped, WorkerTyped
<1>6. ASSUME NEW d \in Documents, PublicationFails(d) PROVE Typed'
  <2>1. faults' \in 0 .. MaxFaults
    BY <1>6, FaultTyped DEF PublicationFails
  <2> QED
    BY <1>r, <1>6, <2>1, WorkerTyped DEF PublicationFails, PublicationStates
<1>7. ASSUME NEW d \in Documents, ClaimLapses(d) PROVE Typed'
  <2>1. faults' \in 0 .. MaxFaults
    BY <1>7, FaultTyped DEF ClaimLapses
  <2> QED
    BY <1>r, <1>7, <2>1, WorkerTyped DEF ClaimLapses
<1>8. ASSUME NEW w \in Reconcilers, ClaimDue(w) PROVE Typed'
  <2>1. recon' \in [Documents -> [status : {NoRow, "legacy", "ready", "resolved", "failed"},
                                  by : Reconcilers \cup {Nobody}]]
    BY <1>r, <1>8 DEF ClaimDue
  <2>2. work' \in [Reconcilers -> [todo : SUBSET Documents, placing : Documents \cup {Nobody}]]
    BY <1>r, <1>8 DEF ClaimDue
  <2> QED
    BY <1>r, <1>8, <2>1, <2>2, WorkerTyped DEF ClaimDue
<1>9. ASSUME NEW w \in Reconcilers, NEW d \in Documents, RecoverLegacy(w, d) PROVE Typed'
    BY <1>r, <1>9, WorkerTyped DEF RecoverLegacy
<1>10. ASSUME NEW w \in Reconcilers, NEW d \in Documents, Place(w, d) PROVE Typed'
    BY <1>r, <1>10, WorkerTyped DEF Place
<1>11. ASSUME NEW w \in Reconcilers, NEW d \in Documents, Resolve(w, d) PROVE Typed'
  <2>1. recon' \in [Documents -> [status : {NoRow, "legacy", "ready", "resolved", "failed"},
                                  by : Reconcilers \cup {Nobody}]]
    BY <1>r, <1>11 DEF Resolve, ResolvedAs
  <2>2. work' \in [Reconcilers -> [todo : SUBSET Documents, placing : Documents \cup {Nobody}]]
    BY <1>11, DoneTyped DEF Resolve
  <2>3. Arrives(d) \/ UNCHANGED <<month, tx, history>>
    BY <1>11 DEF Resolve
  <2>4. UNCHANGED <<published, intents, faults>>
    BY <1>11 DEF Resolve
  <2> QED
    BY <1>r, <2>1, <2>2, <2>3, <2>4, ArrivesTyped, WorkerTyped
<1>12. ASSUME NEW w \in Reconcilers, NEW d \in Documents, Skip(w, d) PROVE Typed'
  <2>1. work' \in [Reconcilers -> [todo : SUBSET Documents, placing : Documents \cup {Nobody}]]
    BY <1>12, DoneTyped DEF Skip
  <2> QED
    BY <1>r, <1>12, <2>1, WorkerTyped DEF Skip
<1>13. ASSUME NEW w \in Reconcilers, NEW d \in Documents, ClaimFails(w, d) \/ RecoveryFails(w, d)
       PROVE  Typed'
  <2>0. MarkFailed(w, d)
    BY <1>13 DEF ClaimFails, RecoveryFails
  <2>1. work' \in [Reconcilers -> [todo : SUBSET Documents, placing : Documents \cup {Nobody}]]
    BY <2>0, DoneTyped DEF MarkFailed
  <2>2. faults' \in 0 .. MaxFaults
    BY <1>13, FaultTyped DEF ClaimFails, RecoveryFails
  <2>3. recon' \in [Documents -> [status : {NoRow, "legacy", "ready", "resolved", "failed"},
                                  by : Reconcilers \cup {Nobody}]]
    BY <1>r, <2>0 DEF MarkFailed
  <2> QED
    BY <1>r, <1>13, <2>1, <2>2, <2>3, WorkerTyped DEF ClaimFails, RecoveryFails
<1>14. ASSUME NEW w \in Reconcilers, Stops(w) PROVE Typed'
  <2>1. faults' \in 0 .. MaxFaults
    BY <1>14, FaultTyped DEF Stops
  <2>2. work' \in [Reconcilers -> [todo : SUBSET Documents, placing : Documents \cup {Nobody}]]
    BY <1>r, <1>14 DEF Stops, Quiet
  <2> QED
    BY <1>r, <1>14, <2>1, <2>2, WorkerTyped DEF Stops
<1>15. ASSUME EditLeaseEnds PROVE Typed'
  <2>1. [ws EXCEPT !.lease = "lapsed"] \in WsRows
    BY <1>15 DEF EditLeaseEnds, Typed, WsRows, WsFields
  <2> QED
    BY <1>15, <2>1 DEF EditLeaseEnds, Typed, worker, history
<1>16. ASSUME CreateYear PROVE Typed'
  <2>1. period' \in Statuses \cup {NoRow}
    BY <1>16 DEF CreateYear, Statuses
  <2> QED
    BY <1>16, <2>1 DEF CreateYear, Typed, worker, history
<1>17. ASSUME UNCHANGED vars PROVE Typed'
    BY <1>r, <1>17, WorkerTyped DEF vars, worker
<1> QED
    BY <1>1, <1>2, <1>3, <1>4, <1>5, <1>6, <1>7, <1>8, <1>9, <1>10, <1>11, <1>12, <1>13,
       <1>14, <1>15, <1>16, <1>17 DEF Next, Request, Reconcile

\* What the types of the proof say of the states, in the words of the specification.
LEMMA TypedIsTypeOK == Typed => TypeOK
<1> SUFFICES ASSUME Typed PROVE TypeOK
    OBVIOUS
<1>1. /\ ws.made \in BOOLEAN /\ ws.version \in 0 .. MaxVersion
      /\ ws.editor \in Editors \cup {Nobody} /\ ws.lease \in {"none", "held", "lapsed"}
      /\ ws.prepared \in SUBSET Contents /\ ws.close \in SUBSET Contents
    BY DEF Typed, WsRows, WsFields
<1>2. /\ (ws.editor = Nobody) <=> (ws.lease = "none")
      /\ ws.prepared = {} \/ \E c \in Contents : ws.prepared = {c}
      /\ ws.close = {} \/ \E c \in Contents : ws.close = {c}
    BY DEF Typed, WsRows
<1>3. \A kept \in {ws.prepared, ws.close} : kept \subseteq Contents /\ Cardinality(kept) <= 1
  <2>1. Cardinality({}) = 0 /\ \A c \in Contents : Cardinality({c}) = 1
    BY FS_EmptySet, FS_Singleton
  <2> SUFFICES ASSUME NEW kept \in {ws.prepared, ws.close}
               PROVE  kept \subseteq Contents /\ Cardinality(kept) <= 1
    OBVIOUS
  <2>2. kept \subseteq Contents /\ (kept = {} \/ \E c \in Contents : kept = {c})
    BY <1>1, <1>2
  <2>3. Cardinality(kept) \in {0, 1}
    BY <2>1, <2>2
  <2> QED
    BY <2>2, <2>3
<1>4. (ws.editor = Nobody) = (ws.lease = "none")
    BY <1>2
<1>5. \A r \in Requests : {tx[r].open, tx[r].behind} \subseteq BOOLEAN
    BY DEF Typed, Reads, OpenTx, ShutTx
<1> QED
    BY <1>1, <1>3, <1>4, <1>5 DEF Typed, TypeOK, BookRows

-----------------------------------------------------------------------------
(* What a commit leaves to the others, and to the month.                       *)

Safe == SnapshotsHold /\ KeysStored /\ WritesAreCurrent /\ OneEffectPerKey /\ ClosedIsTheCut

\* Nothing of this changes with the work of the workers.
LEMMA SafeKept ==
    ASSUME Safe, UNCHANGED <<month, tx, history>> PROVE Safe'
BY DEF Safe, SnapshotsHold, SameRow, KeysStored, WritesAreCurrent, OneEffectPerKey,
       ClosedIsTheCut, ContentOf, View, month, history

\* The content of a month is what its participations and its decisions are.
LEMMA ContentKept ==
    ASSUME UNCHANGED parts, book'.reviewed = book.reviewed, book'.checked = book.checked
    PROVE  ContentOf(View)' = ContentOf(View)
BY DEF ContentOf, View

\* A write to the content of a month ends every transaction, and changes the month for
\* the editor that the row names, over the version it has.
LEMMA WritesSafe ==
    ASSUME Typed, Safe, NEW r \in Requests, tx[r].open, NEW e, NEW expected, NEW row,
           NEW status, Writes(r, e, expected, row, status)
    PROVE  SnapshotsHold' /\ WritesAreCurrent'
<1>1. \A q \in Requests : ~tx'[q].open
    BY DEF Typed, Writes, Commits, PeriodChanged, Idle
<1>2. SameRow(tx[r].seen.ws)
    BY DEF Safe, SnapshotsHold, Writes, Commits
<1>3. ws.editor = e /\ ws.version = expected
    BY <1>2 DEF SameRow, Writes, Editing, UpToDate
<1>4. ~displaced'
    BY <1>3 DEF Safe, WritesAreCurrent, Writes
<1> QED
    BY <1>1, <1>4 DEF SnapshotsHold, WritesAreCurrent

\* A key that is not stored has had no effect; it is stored as it has one.
LEMMA KeyTaken ==
    ASSUME Typed, KeysStored, OneEffectPerKey, NEW key \in Keys \cup {Fresh},
           key \notin book.ops, book'.ops = book.ops \cup Remember(key),
           applied' = Counted(key)
    PROVE  KeysStored' /\ OneEffectPerKey'
<1>1. \A k \in Keys : applied[k] \in 0 .. 2
    BY DEF Typed
<1>2. \A k \in Keys : k # key => applied'[k] = applied[k] /\ (k \in book.ops => k \in book'.ops)
    BY DEF Counted
<1>3. key \in Keys => applied[key] = 0 /\ applied'[key] = 1 /\ key \in book'.ops
    BY <1>1 DEF KeysStored, Counted, Remember
<1> QED
    BY <1>1, <1>2, <1>3 DEF KeysStored, OneEffectPerKey

LEMMA KeyedSafe ==
    ASSUME Typed, Safe, NEW r \in Requests, tx[r].open, NEW e, NEW expected,
           NEW key \in Keys \cup {Fresh}, NEW row, NEW b \in BookRows, b.ops = book.ops,
           NEW status, KeyedWrite(r, e, expected, key, row, b, status)
    PROVE  /\ SnapshotsHold' /\ WritesAreCurrent' /\ KeysStored' /\ OneEffectPerKey'
           /\ period' = status /\ ws' = row /\ parts' = parts
           /\ book'.reviewed = b.reviewed /\ book'.checked = b.checked
<1>1. Writes(r, e, expected, row, status) /\ period' = status /\ ws' = row /\ parts' = parts
    BY DEF KeyedWrite, Writes, Commits
<1>2. SnapshotsHold' /\ WritesAreCurrent'
    BY <1>1, WritesSafe
<1>3. /\ book'.ops = book.ops \cup Remember(key) /\ book'.reviewed = b.reviewed
      /\ book'.checked = b.checked
    BY DEF KeyedWrite, BookRows
<1>4. KeysStored' /\ OneEffectPerKey'
    BY <1>3, KeyTaken DEF Safe, KeyedWrite, Unknown
<1> QED
    BY <1>1, <1>2, <1>3, <1>4

\* An edit leaves the month open.
LEMMA EditsSafe ==
    ASSUME Typed, Safe, NEW r \in Requests, tx[r].open, NEW e, NEW expected,
           NEW key \in Keys \cup {Fresh}, NEW b \in BookRows, b.ops = book.ops,
           Edits(r, e, expected, key, b)
    PROVE  Safe'
<1>1. KeyedWrite(r, e, expected, key, Changed(tx[r].seen.ws), b, Touched(period))
    BY DEF Edits
<1>2. tx[r].seen.period = period /\ period # "closed"
    BY DEF Safe, SnapshotsHold, Edits, Shut
<1>3. period' # "closed"
    BY <1>1, <1>2, KeyedSafe DEF Touched
<1> QED
    BY <1>1, <1>3, KeyedSafe DEF Safe, ClosedIsTheCut

\* A change of the lease: the others are behind, the row keeps what it says of the month.
LEMMA LeaseSafe ==
    ASSUME Typed, Safe, NEW r \in Requests, tx[r].open, NEW row,
           Commits(r, row, WorkspaceChanged), UNCHANGED <<period, book, history>>,
           row.close = tx[r].seen.ws.close
    PROVE  Safe'
<1>1. ws'.close = ws.close
    BY DEF Commits, Safe, SnapshotsHold, SameRow
<1>2. parts' = parts
    BY DEF Commits
<1>3. ClosedIsTheCut'
    BY <1>1, <1>2, ContentKept DEF Safe, ClosedIsTheCut
<1>4. ASSUME NEW q \in Requests, tx'[q].open
      PROVE  tx[q].open /\ tx'[q].seen = tx[q].seen /\ tx'[q].behind
  <2>1. q # r
    BY <1>4 DEF Typed, Commits, WorkspaceChanged, Idle
  <2>2. tx'[q] = [tx[q] EXCEPT !.behind = tx[q].open]
    BY <2>1 DEF Commits, WorkspaceChanged
  <2>3. tx[q] \in Reads
    BY DEF Typed
  <2>4. CASE tx[q] \in OpenTx
    BY <2>2, <2>4 DEF OpenTx
  <2>5. CASE tx[q] \in ShutTx
    BY <1>4, <2>2, <2>5 DEF ShutTx
  <2> QED
    BY <2>3, <2>4, <2>5 DEF Reads
<1>5. SnapshotsHold'
    BY <1>2, <1>4 DEF Safe, SnapshotsHold
<1> QED
    BY <1>3, <1>5 DEF Safe, KeysStored, WritesAreCurrent, OneEffectPerKey, history

\* A document that arrives wakes a closed month, and ends the transactions on one that is
\* prepared.
LEMMA ArrivesSafe ==
    ASSUME Typed, Safe, NEW d \in Documents, Arrives(d) PROVE Safe'
<1>1. UNCHANGED <<ws, book, history>>
    BY DEF Arrives
<1>2. period' # "closed" /\ period' # "ready_to_close"
    BY DEF Arrives, Arrived
<1>3. CASE period' = period
  <2>1. tx' = tx
    BY <1>3 DEF Arrives
  <2> QED
    BY <1>1, <1>2, <1>3, <2>1 DEF Safe, SnapshotsHold, SameRow, KeysStored, WritesAreCurrent,
       OneEffectPerKey, ClosedIsTheCut, history
<1>4. CASE period' # period
  <2>1. \A q \in Requests : ~tx'[q].open
    BY <1>4 DEF Arrives, PeriodChanged, Idle
  <2> QED
    BY <1>1, <1>2, <2>1 DEF Safe, SnapshotsHold, KeysStored, WritesAreCurrent,
       OneEffectPerKey, ClosedIsTheCut, history
<1> QED
    BY <1>3, <1>4

\* The close keeps the content that its transaction has read, which is the month's: the
\* month is ready, so nothing has arrived since.
LEMMA CloseSafe ==
    ASSUME Typed, Safe, NEW r \in Requests, tx[r].open, NEW e, NEW expected,
           NEW key \in Keys \cup {Fresh}, Close(r, e, expected, key)
    PROVE  Safe'
<1>1. KeyedWrite(r, e, expected, key,
                 [Changed(tx[r].seen.ws) EXCEPT !.close = {ContentOf(tx[r].seen)}], book, "closed")
    BY DEF Close
<1>2. book \in BookRows
    BY DEF Typed
<1>3. /\ SnapshotsHold' /\ WritesAreCurrent' /\ KeysStored' /\ OneEffectPerKey'
      /\ ws' = [Changed(tx[r].seen.ws) EXCEPT !.close = {ContentOf(tx[r].seen)}]
      /\ parts' = parts /\ book'.reviewed = book.reviewed /\ book'.checked = book.checked
    BY <1>1, <1>2, KeyedSafe
<1>4. ws'.close = {ContentOf(tx[r].seen)}
  <2>1. tx[r].seen.ws \in WsFields
    BY OpenReads DEF Views, WsRows
  <2> QED
    BY <1>3, <2>1 DEF Changed, WsFields
<1>5. period = "ready_to_close"
    BY DEF Close, Safe, SnapshotsHold
<1>6. ContentOf(tx[r].seen) = ContentOf(View)
    BY <1>5 DEF Safe, SnapshotsHold, ContentOf, View
<1>7. ContentOf(View)' = ContentOf(View)
    BY <1>3, ContentKept
<1>8. ContentOf(View)'.checked = book'.checked
    BY DEF ContentOf, View
<1>9. ClosedIsTheCut'
    BY <1>4, <1>6, <1>7, <1>8 DEF ClosedIsTheCut
<1> QED
    BY <1>3, <1>9 DEF Safe

\* What a request writes.
LEMMA WriteSafe ==
    ASSUME Typed, Safe, NEW r \in Requests, Write(r)
    PROVE  Safe'
<1>0. tx[r].open
    BY DEF Write
<1>w. tx[r].seen.ws \in WsFields
    BY <1>0, OpenReads DEF Views, WsRows
<1>b. book \in BookRows
    BY DEF Typed
<1>v. PICK e \in Editors :
       \/ Acquire(r, e) \/ Renew(r, e)
       \/ \E expected \in 0 .. ws.version :
             \/ PrepareClose(r, e, expected)
             \/ \E key \in Keys \cup {Fresh} :
                   \/ Decide(r, e, expected, key) \/ BulkOfNothing(r, e, expected, key)
                   \/ Confirm(r, e, expected, key) \/ Annotate(r, e, expected, key)
                   \/ Close(r, e, expected, key) \/ Reopen(r, e, expected, key)
    BY DEF Write
<1>1. CASE Acquire(r, e)
  <2> DEFINE row == [tx[r].seen.ws EXCEPT !.made = TRUE, !.editor = e, !.lease = "held"]
  <2>1. row.close = tx[r].seen.ws.close
    BY <1>w DEF WsFields
  <2>2. Commits(r, row, WorkspaceChanged) /\ UNCHANGED <<period, book, history>>
    BY <1>1 DEF Acquire
  <2> QED
    BY <1>0, <2>1, <2>2, LeaseSafe
<1>2. CASE Renew(r, e)
  <2>1. GivenUp(tx[r].seen.ws).close = tx[r].seen.ws.close
    BY <1>w DEF GivenUp, WsFields
  <2>2. PICK row \in {GivenUp(tx[r].seen.ws), tx[r].seen.ws} : Commits(r, row, WorkspaceChanged)
    BY <1>2 DEF Renew
  <2>3. UNCHANGED <<period, book, history>> /\ row.close = tx[r].seen.ws.close
    BY <1>2, <2>1, <2>2 DEF Renew
  <2> QED
    BY <1>0, <2>2, <2>3, LeaseSafe
<1>3. ASSUME NEW expected \in 0 .. ws.version, PrepareClose(r, e, expected) PROVE Safe'
  <2>1. PICK row : Writes(r, e, expected, row, "ready_to_close")
    BY <1>3 DEF PrepareClose
  <2>2. SnapshotsHold' /\ WritesAreCurrent'
    BY <1>0, <2>1, WritesSafe
  <2>3. period' # "closed" /\ UNCHANGED <<book, applied>>
    BY <1>3, <2>1 DEF PrepareClose, Writes
  <2> QED
    BY <2>2, <2>3 DEF Safe, KeysStored, OneEffectPerKey, ClosedIsTheCut
<1> SUFFICES ASSUME NEW expected \in 0 .. ws.version, NEW key \in Keys \cup {Fresh},
                    \/ Decide(r, e, expected, key) \/ BulkOfNothing(r, e, expected, key)
                    \/ Confirm(r, e, expected, key) \/ Annotate(r, e, expected, key)
                    \/ Close(r, e, expected, key) \/ Reopen(r, e, expected, key)
             PROVE  Safe'
    BY <1>v, <1>1, <1>2, <1>3
<1>4. CASE Decide(r, e, expected, key)
  <2>1. PICK D \in SUBSET tx[r].seen.parts, reviewed \in BOOLEAN :
           Edits(r, e, expected, key, [book EXCEPT !.reviewed =
              [d \in Documents |-> IF d \in D THEN reviewed ELSE @[d]]])
    BY <1>4 DEF Decide
  <2> DEFINE b == [book EXCEPT !.reviewed =
                     [d \in Documents |-> IF d \in D THEN reviewed ELSE @[d]]]
  <2>2. b \in BookRows /\ b.ops = book.ops
    BY <1>b DEF BookRows
  <2> QED
    BY <1>0, <2>1, <2>2, EditsSafe
<1>5. CASE BulkOfNothing(r, e, expected, key)
  <2>1. /\ book'.reviewed = book.reviewed /\ book'.checked = book.checked
        /\ book'.ops = book.ops \cup Remember(key)
    BY <1>5, <1>b DEF BulkOfNothing, BookRows
  <2>2. KeysStored' /\ OneEffectPerKey'
    BY <1>5, <2>1, KeyTaken DEF BulkOfNothing, Unknown, Safe
  <2>3. UNCHANGED <<period, ws, parts, displaced>>
    BY <1>5 DEF BulkOfNothing
  <2>4. ClosedIsTheCut'
    BY <2>1, <2>3, ContentKept DEF Safe, ClosedIsTheCut
  <2>5. \A q \in Requests : tx'[q].open => tx'[q] = tx[q]
    BY <1>5 DEF BulkOfNothing, Typed, Idle
  <2>6. SnapshotsHold'
    BY <2>1, <2>3, <2>5 DEF Safe, SnapshotsHold, SameRow
  <2> QED
    BY <2>2, <2>3, <2>4, <2>6 DEF Safe, WritesAreCurrent
<1>6. CASE Confirm(r, e, expected, key)
  <2>1. PICK confirmed \in BOOLEAN :
           Edits(r, e, expected, key, [book EXCEPT !.checked = confirmed])
    BY <1>6 DEF Confirm
  <2>2. [book EXCEPT !.checked = confirmed] \in BookRows
        /\ [book EXCEPT !.checked = confirmed].ops = book.ops
    BY <1>b DEF BookRows
  <2> QED
    BY <1>0, <2>1, <2>2, EditsSafe
<1>7. CASE Annotate(r, e, expected, key)
    BY <1>0, <1>b, <1>7, EditsSafe DEF Annotate
<1>8. CASE Close(r, e, expected, key)
    BY <1>0, <1>8, CloseSafe
<1>9. CASE Reopen(r, e, expected, key)
  <2>1. PICK row : KeyedWrite(r, e, expected, key, row, book, "reopened")
    BY <1>9 DEF Reopen
  <2> QED
    BY <1>0, <1>b, <2>1, KeyedSafe DEF Safe, ClosedIsTheCut
<1> QED
    BY <1>4, <1>5, <1>6, <1>7, <1>8, <1>9

\* Every step keeps it.
LEMMA SafeStep == Typed /\ Safe /\ [Next]_vars => Safe'
<1> SUFFICES ASSUME Typed, Safe, [Next]_vars PROVE Safe'
    OBVIOUS
<1>1. ASSUME NEW r \in Requests, Begin(r) PROVE Safe'
  <2>1. UNCHANGED <<month, history>> /\ tx' = [tx EXCEPT ![r] = [Idle EXCEPT !.open = TRUE, !.seen = View]]
    BY <1>1 DEF Begin
  <2>2. /\ tx'[r].seen = View
        /\ \A q \in Requests : q # r => tx'[q] = tx[q]
    BY <2>1 DEF Typed, Idle
  <2>3. /\ tx'[r].seen.ws = ws /\ tx'[r].seen.period = period
        /\ tx'[r].seen.book = book /\ tx'[r].seen.parts = parts
    BY <2>2 DEF View
  <2>4. SnapshotsHold'
    BY <2>1, <2>2, <2>3 DEF Safe, SnapshotsHold, SameRow, month
  <2> QED
    BY <2>1, <2>4 DEF Safe, KeysStored, WritesAreCurrent, OneEffectPerKey, ClosedIsTheCut,
       ContentOf, View, month, history
<1>2. ASSUME NEW r \in Requests, Refuse(r) PROVE Safe'
  <2>1. UNCHANGED <<month, history>>
    BY <1>2 DEF Refuse
  <2>2. \A q \in Requests : tx'[q].open => tx'[q] = tx[q]
    BY <1>2 DEF Refuse, Typed, Idle
  <2>3. SnapshotsHold'
    BY <2>1, <2>2 DEF Safe, SnapshotsHold, SameRow, month
  <2> QED
    BY <2>1, <2>3 DEF Safe, KeysStored, WritesAreCurrent, OneEffectPerKey, ClosedIsTheCut,
       ContentOf, View, month, history
<1>3. ASSUME NEW r \in Requests, Write(r) PROVE Safe'
    BY <1>3, WriteSafe
<1>4. ASSUME NEW d \in Documents, Publish(d) \/ PublicationFails(d) \/ ClaimLapses(d) PROVE Safe'
    BY <1>4, SafeKept DEF Publish, PublicationFails, ClaimLapses
<1>5. ASSUME NEW d \in Documents, PublicationCommits(d) PROVE Safe'
    BY <1>5, SafeKept, ArrivesSafe DEF PublicationCommits
<1>6. ASSUME NEW w \in Reconcilers, ClaimDue(w) \/ Stops(w) PROVE Safe'
    BY <1>6, SafeKept DEF ClaimDue, Stops
<1>7. ASSUME NEW w \in Reconcilers, NEW d \in Documents,
             RecoverLegacy(w, d) \/ RecoveryFails(w, d) \/ Place(w, d)
                \/ Skip(w, d) \/ ClaimFails(w, d)
      PROVE  Safe'
    BY <1>7, SafeKept DEF RecoverLegacy, RecoveryFails, Place, Skip, ClaimFails
<1>8. ASSUME NEW w \in Reconcilers, NEW d \in Documents, Resolve(w, d) PROVE Safe'
    BY <1>8, SafeKept, ArrivesSafe DEF Resolve
<1>9. ASSUME EditLeaseEnds PROVE Safe'
  <2>1. /\ ws'.made = ws.made /\ ws'.version = ws.version /\ ws'.editor = ws.editor
        /\ ws'.prepared = ws.prepared /\ ws'.close = ws.close
    BY <1>9 DEF EditLeaseEnds, Typed, WsRows, WsFields
  <2>2. UNCHANGED <<period, book, parts, tx, history>>
    BY <1>9 DEF EditLeaseEnds
  <2>3. SnapshotsHold'
    BY <2>1, <2>2 DEF Safe, SnapshotsHold, SameRow
  <2>4. ContentOf(View)' = ContentOf(View)
    BY <2>2, ContentKept
  <2> QED
    BY <2>1, <2>2, <2>3, <2>4 DEF Safe, KeysStored, WritesAreCurrent, OneEffectPerKey,
       ClosedIsTheCut, history
<1>10. ASSUME CreateYear PROVE Safe'
  <2>1. \A r \in Requests : ~tx[r].open
    BY <1>10, OpenReads DEF CreateYear, Safe, SnapshotsHold, Views, Statuses, NoRow
  <2>2. period' # "closed" /\ UNCHANGED <<book, tx, history>>
    BY <1>10 DEF CreateYear
  <2> QED
    BY <2>1, <2>2 DEF Safe, SnapshotsHold, KeysStored, WritesAreCurrent, OneEffectPerKey,
       ClosedIsTheCut, history
<1>11. ASSUME UNCHANGED vars PROVE Safe'
    BY <1>11, SafeKept DEF vars
<1> QED
    BY <1>1, <1>2, <1>3, <1>4, <1>5, <1>6, <1>7, <1>8, <1>9, <1>10, <1>11
       DEF Next, Request, Reconcile

LEMMA SafeInit == Init => Safe
<1> SUFFICES ASSUME Init PROVE Safe
    OBVIOUS
<1>1. SnapshotsHold
    BY DEF Init, SnapshotsHold, Idle
<1>2. KeysStored /\ OneEffectPerKey
    BY DEF Init, KeysStored, OneEffectPerKey
<1>3. period # "closed" /\ ~displaced
    BY DEF Init, NoRow
<1> QED
    BY <1>1, <1>2, <1>3 DEF Safe, WritesAreCurrent, ClosedIsTheCut

-----------------------------------------------------------------------------
(* The theorems.                                                               *)

\* What the open transactions have read, the keys that are stored and the properties
\* hold together in every state.
THEOREM Invariance == Spec => [](Typed /\ Safe)
<1>1. Init => Typed /\ Safe
    BY TypedInit, SafeInit
<1>2. Typed /\ Safe /\ [Next]_vars => (Typed /\ Safe)'
    BY TypedStep, SafeStep
<1> QED
    BY <1>1, <1>2, PTL DEF Spec

\* Every part of the state keeps its type.
THEOREM Typing == Spec => []TypeOK
<1>1. Typed => TypeOK
    BY TypedIsTypeOK
<1> QED
    BY <1>1, Invariance, PTL

\* monthly.service.ts, close() and the trigger monthly_arrival: a month that reads closed
\* is what its last close says.
THEOREM ClosedHolds == Spec => []ClosedIsTheCut
<1>1. Safe => ClosedIsTheCut
    BY DEF Safe
<1> QED
    BY <1>1, Invariance, PTL

\* lease() and the version of a request: nobody who was displaced, or who read an older
\* version, changes the month.
THEOREM WritesHold == Spec => []WritesAreCurrent
<1>1. Safe => WritesAreCurrent
    BY DEF Safe
<1> QED
    BY <1>1, Invariance, PTL

\* replay() and remember(): a key takes effect once.
THEOREM KeysHold == Spec => []OneEffectPerKey
<1>1. Safe => OneEffectPerKey
    BY DEF Safe
<1> QED
    BY <1>1, Invariance, PTL

-----------------------------------------------------------------------------
(* The month implements MonthlyLedger.                                         *)

\* No document leaves the month: what a transaction has seen of it is still there.
SeenBefore == \A r \in Requests : tx[r].open => tx[r].seen.parts \subseteq parts

\* Only one worker can place a document: the one that publishes it, and after that the one
\* that holds its claim, whose row is locked meanwhile.
PlacedOnce ==
    /\ \A d \in Documents : ~IsPublished(d) =>
          d \notin parts /\ recon[d].by = Nobody /\ recon[d].status = NoRow
    /\ \A d \in Documents : recon[d].status = NoRow => recon[d].by = Nobody
    /\ \A w \in Reconcilers : work[w].placing # Nobody =>
          recon[work[w].placing].by = w /\ work[w].placing \notin parts

\* A step that opens no transaction and takes no document out keeps what was seen.
LEMMA SeenKept ==
    ASSUME SeenBefore, parts \subseteq parts',
           \A q \in Requests : tx'[q].open => tx[q].open /\ tx'[q].seen = tx[q].seen
    PROVE  SeenBefore'
BY DEF SeenBefore

\* What a commit leaves of the transactions.
LEMMA OthersKept ==
    ASSUME Typed, NEW r \in Requests, NEW others \in {PeriodChanged, WorkspaceChanged, tx},
           tx' = [others EXCEPT ![r] = Idle]
    PROVE  \A q \in Requests : tx'[q].open => tx[q].open /\ tx'[q].seen = tx[q].seen
<1> SUFFICES ASSUME NEW q \in Requests, tx'[q].open
             PROVE  tx[q].open /\ tx'[q].seen = tx[q].seen
    OBVIOUS
<1>1. q # r /\ tx'[q] = others[q]
    BY DEF Typed, PeriodChanged, WorkspaceChanged, Idle
<1>2. others # PeriodChanged
    BY <1>1 DEF PeriodChanged, Idle
<1>3. CASE others = tx
    BY <1>1, <1>3
<1>4. CASE others = WorkspaceChanged
  <2>1. tx'[q] = [tx[q] EXCEPT !.behind = tx[q].open]
    BY <1>1, <1>4 DEF WorkspaceChanged
  <2>2. tx[q] \in Reads
    BY DEF Typed
  <2>3. CASE tx[q] \in OpenTx
    BY <2>1, <2>3 DEF OpenTx
  <2>4. CASE tx[q] \in ShutTx
    BY <1>1, <2>1, <2>4 DEF ShutTx
  <2> QED
    BY <2>2, <2>3, <2>4 DEF Reads
<1> QED
    BY <1>2, <1>3, <1>4

\* What a request writes is no document, and no work of the workers.
LEMMA WriteKeeps ==
    ASSUME NEW r \in Requests, Write(r)
    PROVE  /\ UNCHANGED <<parts, worker>>
           /\ \E others \in {PeriodChanged, WorkspaceChanged, tx} :
                 tx' = [others EXCEPT ![r] = Idle]
<1> DEFINE Kept == /\ UNCHANGED <<parts, worker>>
                   /\ \E others \in {PeriodChanged, WorkspaceChanged, tx} :
                         tx' = [others EXCEPT ![r] = Idle]
<1> SUFFICES Kept
    OBVIOUS
<1>v. PICK e \in Editors :
       \/ Acquire(r, e) \/ Renew(r, e)
       \/ \E expected \in 0 .. ws.version :
             \/ PrepareClose(r, e, expected)
             \/ \E key \in Keys \cup {Fresh} :
                   \/ Decide(r, e, expected, key) \/ BulkOfNothing(r, e, expected, key)
                   \/ Confirm(r, e, expected, key) \/ Annotate(r, e, expected, key)
                   \/ Close(r, e, expected, key) \/ Reopen(r, e, expected, key)
    BY DEF Write
<1>c. ASSUME NEW row, NEW others \in {PeriodChanged, WorkspaceChanged}, Commits(r, row, others)
      PROVE  Kept
    BY <1>c DEF Commits
<1>w. ASSUME NEW expected, NEW row, NEW status, Writes(r, e, expected, row, status) PROVE Kept
  <2>1. Commits(r, row, PeriodChanged)
    BY <1>w DEF Writes
  <2> HIDE DEF Kept
  <2> QED
    BY <1>c, <2>1
<1> HIDE DEF Kept
<1>1. CASE Acquire(r, e) \/ Renew(r, e)
    BY <1>c, <1>1 DEF Acquire, Renew
<1>2. ASSUME NEW expected, PrepareClose(r, e, expected) PROVE Kept
    BY <1>w, <1>2 DEF PrepareClose
<1>k. ASSUME NEW expected, NEW key, NEW row, NEW b, NEW status,
             KeyedWrite(r, e, expected, key, row, b, status)
      PROVE  Kept
    BY <1>w, <1>k DEF KeyedWrite
<1>e. ASSUME NEW expected, NEW key, NEW b, Edits(r, e, expected, key, b) PROVE Kept
    BY <1>k, <1>e DEF Edits
<1>3. ASSUME NEW expected, NEW key,
             Decide(r, e, expected, key) \/ Confirm(r, e, expected, key)
                \/ Annotate(r, e, expected, key)
      PROVE  Kept
    BY <1>e, <1>3 DEF Decide, Confirm, Annotate
<1>4. ASSUME NEW expected, NEW key, Close(r, e, expected, key) \/ Reopen(r, e, expected, key)
      PROVE  Kept
    BY <1>k, <1>4 DEF Close, Reopen
<1>5. ASSUME NEW expected, NEW key, BulkOfNothing(r, e, expected, key) PROVE Kept
    BY <1>5 DEF BulkOfNothing, Kept
<1> QED
    BY <1>v, <1>1, <1>2, <1>3, <1>4, <1>5

\* An arrival ends transactions or leaves them alone.
LEMMA ArrivesSeen ==
    ASSUME SeenBefore, NEW d, Arrives(d) PROVE SeenBefore'
<1>1. \A q \in Requests : tx'[q].open => tx'[q] = tx[q]
    BY DEF Arrives, PeriodChanged, Idle
<1> QED
    BY <1>1, SeenKept DEF Arrives

\* Every step keeps what was seen.
LEMMA SeenStep == Typed /\ SeenBefore /\ [Next]_vars => SeenBefore'
<1> SUFFICES ASSUME Typed, SeenBefore, [Next]_vars PROVE SeenBefore'
    OBVIOUS
<1>0. ASSUME UNCHANGED <<parts, tx>> PROVE SeenBefore'
    BY <1>0 DEF SeenBefore
<1>1. ASSUME NEW r \in Requests, Begin(r) PROVE SeenBefore'
  <2>1. parts' = parts /\ tx' = [tx EXCEPT ![r] = [Idle EXCEPT !.open = TRUE, !.seen = View]]
    BY <1>1 DEF Begin, month
  <2>2. tx'[r].seen.parts = parts /\ \A q \in Requests : q # r => tx'[q] = tx[q]
    BY <2>1 DEF Typed, Idle, View
  <2> QED
    BY <2>1, <2>2 DEF SeenBefore
<1>2. ASSUME NEW r \in Requests, Refuse(r) PROVE SeenBefore'
    BY <1>2, OthersKept, SeenKept DEF Refuse, month
<1>3. ASSUME NEW r \in Requests, Write(r) PROVE SeenBefore'
    BY <1>3, WriteKeeps, OthersKept, SeenKept
<1>4. ASSUME NEW d \in Documents, PublicationCommits(d) PROVE SeenBefore'
    BY <1>0, <1>4, ArrivesSeen DEF PublicationCommits, month
<1>5. ASSUME NEW w \in Reconcilers, NEW d \in Documents, Resolve(w, d) PROVE SeenBefore'
    BY <1>0, <1>5, ArrivesSeen DEF Resolve, month
<1> QED
    BY <1>0, <1>1, <1>2, <1>3, <1>4, <1>5
       DEF Next, Request, Reconcile, Publish, PublicationFails, ClaimLapses, ClaimDue, Stops,
           RecoverLegacy, RecoveryFails, Place, Skip, ClaimFails, EditLeaseEnds, CreateYear, vars, month

\* Every step of a worker keeps the documents placed once.
LEMMA PlacedStep == Typed /\ PlacedOnce /\ [Next]_vars => PlacedOnce'
<1> SUFFICES ASSUME Typed, PlacedOnce, [Next]_vars PROVE PlacedOnce'
    OBVIOUS
<1>0. ASSUME UNCHANGED <<parts, published, recon, work>> PROVE PlacedOnce'
    BY <1>0 DEF PlacedOnce, IsPublished
<1>t. /\ \A d \in Documents : /\ recon[d].by \in Reconcilers \cup {Nobody}
                              /\ recon[d] = [status |-> recon[d].status, by |-> recon[d].by]
      /\ \A w \in Reconcilers : work[w].placing \in Documents \cup {Nobody}
    BY DEF Typed
<1>1. ASSUME NEW r \in Requests, Request(r) PROVE PlacedOnce'
    BY <1>0, <1>1, WriteKeeps DEF Request, Begin, Refuse, worker, month
<1>2. ASSUME NEW d \in Documents, Publish(d) \/ PublicationFails(d) PROVE PlacedOnce'
  <2>1. /\ ~IsPublished(d) /\ UNCHANGED <<parts, recon, work>>
        /\ \A c \in Documents : c # d => published'[c] = published[c]
    BY <1>2 DEF Publish, PublicationFails, IsPublished, month, Typed
  <2> QED
    BY <2>1 DEF PlacedOnce, IsPublished
<1>3. ASSUME NEW d \in Documents, PublicationCommits(d) PROVE PlacedOnce'
  <2>1. /\ ~IsPublished(d) /\ work' = work
        /\ published'[d] = "published" /\ recon'[d].status = "ready" /\ recon'[d].by = recon[d].by
        /\ \A c \in Documents : c # d => published'[c] = published[c] /\ recon'[c] = recon[c]
        /\ parts' \subseteq parts \cup {d}
    BY <1>3 DEF PublicationCommits, IsPublished, Arrives, month, Typed
  <2>2. \A w \in Reconcilers : work[w].placing # d
    BY <2>1 DEF PlacedOnce, Typed
  <2> QED
    BY <2>1, <2>2, <1>t DEF PlacedOnce, IsPublished, NoRow
<1>4. ASSUME NEW w \in Reconcilers, ClaimDue(w) PROVE PlacedOnce'
  <2>1. /\ UNCHANGED <<parts, published>>
        /\ \A v \in Reconcilers : work'[v].placing = work[v].placing
    BY <1>4 DEF ClaimDue, month, Typed
  <2>2. \A d \in Documents :
           \/ recon'[d] = recon[d]
           \/ /\ Legacy(d) \/ Due(d)
              /\ recon'[d].status # NoRow
    <3>1. recon' = [d \in Documents |->
               IF d \notin {c \in Documents : Legacy(c) \/ Due(c)} THEN recon[d]
               ELSE [status |-> IF Legacy(d) THEN "legacy" ELSE recon[d].status, by |-> w]]
      BY <1>4 DEF ClaimDue
    <3> QED
      BY <3>1 DEF Legacy, Due, NoRow
  <2>3. \A d \in Documents : Legacy(d) \/ Due(d) =>
           recon[d].by = Nobody /\ IsPublished(d)
    BY DEF PlacedOnce, Legacy, Due, NoRow
  <2> QED
    BY <2>1, <2>2, <2>3, <1>t DEF PlacedOnce, IsPublished
<1>5. ASSUME NEW w \in Reconcilers, Stops(w) PROVE PlacedOnce'
  <2>1. /\ UNCHANGED <<parts, published, recon>>
        /\ \A v \in Reconcilers : work'[v].placing \in {work[v].placing, Nobody}
    BY <1>5 DEF Stops, month, Typed, Quiet
  <2> QED
    BY <2>1 DEF PlacedOnce, IsPublished
<1>6. ASSUME NEW d \in Documents, ClaimLapses(d) PROVE PlacedOnce'
  <2>1. /\ UNCHANGED <<parts, published, work>> /\ work[recon[d].by].placing # d
        /\ recon'[d].by = Nobody /\ recon'[d].status = recon[d].status
        /\ \A c \in Documents : c # d => recon'[c] = recon[c]
    BY <1>6 DEF ClaimLapses, month, Typed
  <2> QED
    BY <2>1, <1>t DEF PlacedOnce, IsPublished
<1>7. ASSUME NEW w \in Reconcilers, NEW d \in Documents, RecoverLegacy(w, d) PROVE PlacedOnce'
  <2>1. /\ UNCHANGED <<parts, published, work>> /\ recon[d].by = w
        /\ recon'[d].by = w /\ recon'[d].status = "ready"
        /\ \A c \in Documents : c # d => recon'[c] = recon[c]
    BY <1>7 DEF RecoverLegacy, Holds, month, Typed
  <2> QED
    BY <2>1, <1>t DEF PlacedOnce, IsPublished, NoRow
<1>8. ASSUME NEW w \in Reconcilers, NEW d \in Documents, Place(w, d) PROVE PlacedOnce'
  <2>1. /\ UNCHANGED <<parts, published, recon>> /\ recon[d].by = w /\ d \notin parts
        /\ work'[w].placing = d /\ \A v \in Reconcilers : v # w => work'[v] = work[v]
    BY <1>8 DEF Place, Holds, month, Typed
  <2> QED
    BY <2>1 DEF PlacedOnce, IsPublished
<1>9. ASSUME NEW w \in Reconcilers, NEW d \in Documents, Done(w, d) PROVE
        /\ work'[w].placing = Nobody
        /\ \A v \in Reconcilers : v # w => work'[v] = work[v]
    BY <1>9 DEF Done, Typed
<1>10. ASSUME NEW w \in Reconcilers, NEW d \in Documents, Resolve(w, d) PROVE PlacedOnce'
  <2>1. /\ UNCHANGED published /\ Done(w, d)
        /\ recon'[d].by = Nobody /\ recon'[d].status # NoRow
        /\ \A c \in Documents : c # d => recon'[c] = recon[c]
        /\ parts' \subseteq parts \cup {d}
    BY <1>10 DEF Resolve, Arrives, ResolvedAs, NoRow, month, Typed
  <2>2. recon[d].by = w
    BY <1>10, <1>t DEF Resolve, Holds, PlacedOnce
  <2>3. IsPublished(d)
    BY <2>2 DEF PlacedOnce, IsPublished
  <2>4. \A v \in Reconcilers : v # w => work[v].placing # d
    BY <2>2, <1>t DEF PlacedOnce, IsPublished
  <2> QED
    BY <2>1, <2>3, <2>4, <1>9, <1>t DEF PlacedOnce, IsPublished
<1>11. ASSUME NEW w \in Reconcilers, NEW d \in Documents, Skip(w, d) PROVE PlacedOnce'
  <2>1. UNCHANGED <<parts, published, recon>> /\ Done(w, d)
    BY <1>11 DEF Skip, month
  <2> QED
    BY <2>1, <1>9 DEF PlacedOnce, IsPublished
<1>12. ASSUME NEW w \in Reconcilers, NEW d \in Documents, ClaimFails(w, d) \/ RecoveryFails(w, d)
       PROVE  PlacedOnce'
  <2>0. MarkFailed(w, d)
    BY <1>12 DEF ClaimFails, RecoveryFails
  <2>1. UNCHANGED <<parts, published>> /\ Done(w, d)
    BY <1>12, <2>0 DEF ClaimFails, RecoveryFails, MarkFailed, month
  <2>2. CASE Holds(w, d)
    <3>1. /\ recon[d].by = w /\ recon'[d].by = Nobody /\ recon'[d].status = "failed"
          /\ \A c \in Documents : c # d => recon'[c] = recon[c]
      BY <2>0, <2>2 DEF MarkFailed, Holds, Typed
    <3>2. \A v \in Reconcilers : v # w => work[v].placing # d
      BY <3>1, <1>t DEF PlacedOnce, IsPublished
    <3> QED
      BY <2>1, <3>1, <3>2, <1>9, <1>t DEF PlacedOnce, IsPublished, NoRow
  <2>3. CASE ~Holds(w, d)
    <3>1. \A c \in Documents : recon'[c] = recon[c]
      BY <2>0, <2>3 DEF MarkFailed, Typed
    <3> QED
      BY <2>1, <3>1, <1>9, <1>t DEF PlacedOnce, IsPublished
  <2> QED
    BY <2>2, <2>3
<1>13. ASSUME EditLeaseEnds \/ CreateYear \/ UNCHANGED vars PROVE PlacedOnce'
  <2>1. UNCHANGED <<parts, published, recon, work>>
    BY <1>13 DEF EditLeaseEnds, CreateYear, vars, worker, month
  <2> QED
    BY <1>0, <2>1
<1> QED
    BY <1>1, <1>2, <1>3, <1>4, <1>5, <1>6, <1>7, <1>8, <1>10, <1>11, <1>12, <1>13
       DEF Next, Reconcile
\* The variables of the ledger, as the month gives them.
Reviewed == {d \in Documents : book.reviewed[d]}
Prepared == IF period = "ready_to_close" THEN ws.prepared ELSE {}
Mapped == <<period, parts, Reviewed, book.checked, Prepared, ws.close, ws.version, applied>>

\* What the commit of a transaction has in hand: the rows as they are now.
LEMMA RowsRead ==
    ASSUME Typed, Safe, SeenBefore, NEW r \in Requests, tx[r].open
    PROVE  /\ tx[r].seen.ws \in WsFields
           /\ tx[r].seen.period = period /\ period \in Statuses
           /\ tx[r].seen.parts \in SUBSET parts
           /\ ~tx[r].behind => SameRow(tx[r].seen.ws)
           /\ tx[r].seen.book.reviewed = book.reviewed
           /\ tx[r].seen.book.checked = book.checked
           /\ period = "ready_to_close" => tx[r].seen.parts = parts
<1>1. tx[r].seen \in Views
    BY OpenReads
<1>2. tx[r].seen.ws \in WsFields /\ tx[r].seen.period \in Statuses
    BY <1>1 DEF Views, WsRows
<1> QED
    BY <1>2 DEF Safe, SnapshotsHold, SeenBefore

\* The content of a snapshot is what the ledger says of those documents.
LEMMA ContentMaps ==
    ASSUME Typed, Safe, SeenBefore, NEW r \in Requests, tx[r].open
    PROVE  ContentOf(tx[r].seen) = Ledger!Content(tx[r].seen.parts)
<1>1. tx[r].seen.parts \subseteq Documents
    BY RowsRead DEF Typed
<1>2. \A d \in Documents : book.reviewed[d] \in BOOLEAN
    BY DEF Typed, BookRows
<1>3. \A d \in tx[r].seen.parts : tx[r].seen.book.reviewed[d] = (d \in Reviewed)
    BY <1>1, <1>2, RowsRead DEF Reviewed
<1>4. [d \in tx[r].seen.parts |-> tx[r].seen.book.reviewed[d]]
        = [d \in tx[r].seen.parts |-> d \in Reviewed]
    BY <1>3
<1> QED
    BY <1>4, RowsRead DEF ContentOf, Ledger!Content, Reviewed

\* A key takes effect once, and a request with none at all.
LEMMA EffectOnce ==
    ASSUME Typed, KeysStored, NEW key \in Keys \cup {Fresh}, key \notin book.ops,
           applied' = Counted(key)
    PROVE  Ledger!Once
<1>0. applied \in [Keys -> 0 .. 2]
    BY DEF Typed
<1>1. CASE key = Fresh
  <2>1. applied' = applied
    BY <1>0, <1>1 DEF Counted
  <2> QED
    BY <2>1 DEF Ledger!Once
<1>2. CASE key \in Keys
  <2>1. applied[key] = 0
    BY <1>0, <1>2 DEF KeysStored
  <2>2. \A k \in Keys : (IF k = key /\ applied[k] < 2 THEN applied[k] + 1 ELSE applied[k])
                          = IF k = key THEN 1 ELSE applied[k]
    BY <2>1
  <2>3. applied' = [k \in Keys |-> IF k = key THEN 1 ELSE applied[k]]
    BY <2>2 DEF Counted
  <2>4. applied' = [applied EXCEPT ![key] = 1]
    BY <1>0, <2>3
  <2> QED
    BY <1>2, <2>1, <2>4 DEF Ledger!Once
<1> QED
    BY <1>1, <1>2

\* A row that is changed, whatever the bound.
ChangedRows == [made : BOOLEAN, version : Nat, editor : Editors \cup {Nobody},
                lease : {"none", "held", "lapsed"},
                prepared : SUBSET Contents, close : SUBSET Contents]

LEMMA ChangedRow ==
    ASSUME NEW w \in WsFields, w.version \in Nat
    PROVE  /\ Changed(w).version = w.version + 1 /\ Changed(w).close = w.close
           /\ Changed(w).prepared = {} /\ Changed(w) \in ChangedRows
<1>1. w \in ChangedRows /\ w.version + 1 \in Nat
    BY DEF WsFields, ChangedRows
<1>2. /\ [w EXCEPT !.version = w.version + 1, !.prepared = {}] \in ChangedRows
      /\ [w EXCEPT !.version = w.version + 1, !.prepared = {}].version = w.version + 1
      /\ [w EXCEPT !.version = w.version + 1, !.prepared = {}].close = w.close
      /\ [w EXCEPT !.version = w.version + 1, !.prepared = {}].prepared = {}
    BY <1>1 DEF ChangedRows
<1> QED
    BY <1>2 DEF Changed

\* A write to the content of the month is one to the ledger, of the version it has.
LEMMA WritesMap ==
    ASSUME Typed, Safe, SeenBefore, NEW r \in Requests, tx[r].open, NEW e, NEW expected,
           NEW row, NEW status, Writes(r, e, expected, row, status)
    PROVE  /\ period' = status /\ ws' = row /\ parts' = parts
           /\ SameRow(tx[r].seen.ws)
           /\ Changed(tx[r].seen.ws) \in ChangedRows
           /\ Changed(tx[r].seen.ws).version = ws.version + 1
           /\ Changed(tx[r].seen.ws).close = ws.close
           /\ Changed(tx[r].seen.ws).prepared = {}
<1>1. /\ period' = status /\ ws' = row /\ parts' = parts /\ ~tx[r].behind
    BY DEF Writes, Commits
<1>2. SameRow(tx[r].seen.ws) /\ tx[r].seen.ws \in WsFields
    BY <1>1, RowsRead
<1>3. tx[r].seen.ws.version \in Nat
    BY <1>2, Bounds DEF WsFields
<1>4. /\ Changed(tx[r].seen.ws).version = tx[r].seen.ws.version + 1
      /\ Changed(tx[r].seen.ws).close = tx[r].seen.ws.close
      /\ Changed(tx[r].seen.ws).prepared = {}
      /\ Changed(tx[r].seen.ws) \in ChangedRows
    BY <1>2, <1>3, ChangedRow
<1> QED
    BY <1>1, <1>2, <1>4 DEF SameRow

\* A keyed write has its effect once.
LEMMA KeyedMaps ==
    ASSUME Typed, Safe, NEW r \in Requests, tx[r].open, NEW e, NEW expected,
           NEW key \in Keys \cup {Fresh}, NEW row, NEW b \in BookRows, NEW status,
           KeyedWrite(r, e, expected, key, row, b, status)
    PROVE  /\ Ledger!Once /\ Writes(r, e, expected, row, status)
           /\ book'.reviewed = b.reviewed /\ book'.checked = b.checked
<1>1. Ledger!Once
    BY EffectOnce DEF Safe, KeyedWrite, Unknown
<1> QED
    BY <1>1 DEF KeyedWrite, BookRows

\* Reviews, confirmations and annotations.
LEMMA EditsMap ==
    ASSUME Typed, Safe, SeenBefore, NEW r \in Requests, tx[r].open, NEW e, NEW expected,
           NEW key \in Keys \cup {Fresh}, NEW b \in BookRows, Edits(r, e, expected, key, b),
           \/ \E D \in SUBSET parts :
                 /\ {d \in Documents : b.reviewed[d]} \in {Reviewed \cup D, Reviewed \ D}
                 /\ b.checked = book.checked
           \/ b.checked \in BOOLEAN /\ b.reviewed = book.reviewed
    PROVE  Ledger!Edit
<1>1. KeyedWrite(r, e, expected, key, Changed(tx[r].seen.ws), b, Touched(period))
    BY DEF Edits
<1>2. /\ Ledger!Once /\ Writes(r, e, expected, Changed(tx[r].seen.ws), Touched(period))
      /\ book'.reviewed = b.reviewed /\ book'.checked = b.checked
    BY <1>1, KeyedMaps
<1>3. /\ period' = Touched(period) /\ parts' = parts
      /\ ws'.version = ws.version + 1 /\ ws'.close = ws.close
    BY <1>2, WritesMap
<1>4. period \in Ledger!Open
    BY RowsRead DEF Edits, Statuses, Shut, Ledger!Open
<1>5. /\ period' = IF period = "reopened" THEN period ELSE "preparation"
      /\ Prepared' = {}
    BY <1>3, <1>4 DEF Touched, Ledger!Open, Prepared
<1>6. Reviewed' = {d \in Documents : b.reviewed[d]}
    BY <1>2 DEF Reviewed
<1>7. \/ \E D \in SUBSET parts : Reviewed' \in {Reviewed \cup D, Reviewed \ D}
                                 /\ book'.checked = book.checked
      \/ book'.checked \in BOOLEAN /\ Reviewed' = Reviewed
    BY <1>2, <1>6 DEF Reviewed
<1> QED
    BY <1>2, <1>3, <1>4, <1>5, <1>7 DEF Ledger!Edit, Ledger!Written, Reviewed, Prepared

\* What is prepared is what its transaction has seen of the month.
LEMMA PrepareMaps ==
    ASSUME Typed, Safe, SeenBefore, NEW r \in Requests, tx[r].open, NEW e, NEW expected,
           PrepareClose(r, e, expected)
    PROVE  Ledger!Prepare
<1> DEFINE v == tx[r].seen
           row == [Changed(v.ws) EXCEPT !.prepared = {ContentOf(v)}]
<1>1. /\ Writes(r, e, expected, row, "ready_to_close")
      /\ v.period \notin Shut /\ Complete(v) /\ UNCHANGED <<book, applied>>
    BY DEF PrepareClose
<1>2. /\ period' = "ready_to_close" /\ ws' = row /\ parts' = parts
    BY <1>1, WritesMap
<1>3. /\ row.version = ws.version + 1 /\ row.close = ws.close
      /\ row.prepared = {ContentOf(v)}
    BY <1>1, WritesMap DEF ChangedRows
<1>4. period \in Ledger!Open
    BY <1>1, RowsRead DEF Statuses, Shut, Ledger!Open
<1>5. v.parts \in SUBSET parts /\ v.parts \subseteq Reviewed /\ book.checked
    BY <1>1, RowsRead DEF Complete, Reviewed, Typed
<1>6. Prepared' = {Ledger!Content(v.parts)}
    BY <1>2, <1>3, ContentMaps DEF Prepared
<1>7. \E D \in SUBSET parts : D \subseteq Reviewed /\ Prepared' = {Ledger!Content(D)}
    BY <1>5, <1>6
<1>8. ws'.version = ws.version + 1 /\ ws'.close = ws.close /\ Reviewed' = Reviewed
    BY <1>1, <1>2, <1>3 DEF Reviewed
<1> HIDE DEF v, row
<1> QED
    BY <1>1, <1>2, <1>4, <1>5, <1>7, <1>8
       DEF Ledger!Prepare, Ledger!Written, Reviewed, Prepared

\* What is closed is what was prepared, and nothing has arrived since.
LEMMA CloseMaps ==
    ASSUME Typed, Safe, SeenBefore, NEW r \in Requests, tx[r].open, NEW e, NEW expected,
           NEW key \in Keys \cup {Fresh}, Close(r, e, expected, key)
    PROVE  Ledger!Close
<1> DEFINE v == tx[r].seen
           row == [Changed(v.ws) EXCEPT !.close = {ContentOf(v)}]
<1>b. book \in BookRows
    BY DEF Typed
<1>1. /\ KeyedWrite(r, e, expected, key, row, book, "closed")
      /\ v.period = "ready_to_close" /\ v.ws.prepared = {ContentOf(v)}
    BY DEF Close
<1>2. /\ Ledger!Once /\ Writes(r, e, expected, row, "closed")
      /\ book'.reviewed = book.reviewed /\ book'.checked = book.checked
    BY <1>1, <1>b, KeyedMaps
<1>3. /\ period' = "closed" /\ ws' = row /\ parts' = parts /\ SameRow(v.ws)
    BY <1>2, WritesMap
<1>4. row.version = ws.version + 1 /\ row.close = {ContentOf(v)}
    BY <1>2, WritesMap DEF ChangedRows
<1>5. period = "ready_to_close" /\ v.parts = parts
    BY <1>1, RowsRead
<1>6. ContentOf(v) = Ledger!Content(parts)
    BY <1>5, ContentMaps
<1>7. Prepared = {Ledger!Content(parts)} /\ ws'.close = {Ledger!Content(parts)}
    BY <1>1, <1>3, <1>4, <1>5, <1>6 DEF Prepared, SameRow
<1>8. ws'.version = ws.version + 1 /\ Reviewed' = Reviewed /\ Prepared' = {}
    BY <1>2, <1>3, <1>4 DEF Reviewed, Prepared
<1> HIDE DEF v, row
<1> QED
    BY <1>2, <1>3, <1>5, <1>7, <1>8 DEF Ledger!Close, Ledger!Written, Reviewed, Prepared

LEMMA ReopenMaps ==
    ASSUME Typed, Safe, SeenBefore, NEW r \in Requests, tx[r].open, NEW e, NEW expected,
           NEW key \in Keys \cup {Fresh}, Reopen(r, e, expected, key)
    PROVE  Ledger!Reopen
<1>b. book \in BookRows
    BY DEF Typed
<1>1. /\ KeyedWrite(r, e, expected, key, Changed(tx[r].seen.ws), book, "reopened")
      /\ tx[r].seen.period \in Shut
    BY DEF Reopen
<1>2. /\ Ledger!Once /\ Writes(r, e, expected, Changed(tx[r].seen.ws), "reopened")
      /\ book'.reviewed = book.reviewed /\ book'.checked = book.checked
    BY <1>1, <1>b, KeyedMaps
<1>3. /\ period' = "reopened" /\ parts' = parts
      /\ ws'.version = ws.version + 1 /\ ws'.close = ws.close
    BY <1>2, WritesMap
<1>4. period \in Shut
    BY <1>1, RowsRead
<1>5. Reviewed' = Reviewed /\ Prepared' = {} /\ Prepared = {}
    BY <1>2, <1>3, <1>4 DEF Reviewed, Prepared, Shut
<1> QED
    BY <1>2, <1>3, <1>4, <1>5
       DEF Ledger!Reopen, Ledger!Shut, Shut, Ledger!Written, Reviewed, Prepared

LEMMA AnswerMaps ==
    ASSUME Typed, Safe, SeenBefore, NEW r \in Requests, tx[r].open, NEW e, NEW expected,
           NEW key \in Keys \cup {Fresh}, BulkOfNothing(r, e, expected, key)
    PROVE  Ledger!Answer
<1>1. Ledger!Once
    BY EffectOnce DEF BulkOfNothing, Unknown, Safe
<1>2. period \in Ledger!Open
    BY RowsRead DEF BulkOfNothing, Statuses, Shut, Ledger!Open
<1>3. book'.reviewed = book.reviewed /\ book'.checked = book.checked
    BY DEF BulkOfNothing, Typed, BookRows
<1>4. UNCHANGED <<period, ws, parts>>
    BY DEF BulkOfNothing
<1> QED
    BY <1>1, <1>2, <1>3, <1>4 DEF Ledger!Answer, Ledger!content

\* A change of the lease changes nothing of the ledger.
LEMMA LeaseMaps ==
    ASSUME Typed, Safe, SeenBefore, NEW r \in Requests, tx[r].open, NEW e,
           Acquire(r, e) \/ Renew(r, e)
    PROVE  UNCHANGED Mapped
<1>1. tx[r].seen.ws \in WsFields
    BY RowsRead
<1>2. PICK row : /\ Commits(r, row, WorkspaceChanged)
                 /\ row.version = tx[r].seen.ws.version
                 /\ row.prepared = tx[r].seen.ws.prepared
                 /\ row.close = tx[r].seen.ws.close
  <2>1. CASE Acquire(r, e)
    <3> DEFINE row == [tx[r].seen.ws EXCEPT !.made = TRUE, !.editor = e, !.lease = "held"]
    <3>1. /\ row.version = tx[r].seen.ws.version /\ row.prepared = tx[r].seen.ws.prepared
          /\ row.close = tx[r].seen.ws.close
      BY <1>1 DEF WsFields
    <3>2. Commits(r, row, WorkspaceChanged)
      BY <2>1 DEF Acquire
    <3> QED
      BY <3>1, <3>2
  <2>2. CASE Renew(r, e)
    <3>1. \A row \in {GivenUp(tx[r].seen.ws), tx[r].seen.ws} :
             /\ row.version = tx[r].seen.ws.version /\ row.prepared = tx[r].seen.ws.prepared
             /\ row.close = tx[r].seen.ws.close
      BY <1>1 DEF GivenUp, WsFields
    <3>2. \E row \in {GivenUp(tx[r].seen.ws), tx[r].seen.ws} : Commits(r, row, WorkspaceChanged)
      BY <2>2 DEF Renew
    <3> QED
      BY <3>1, <3>2
  <2> QED
    BY <2>1, <2>2
<1>3. SameRow(tx[r].seen.ws)
    BY <1>2, RowsRead DEF Commits
<1>4. /\ ws'.version = ws.version /\ ws'.prepared = ws.prepared /\ ws'.close = ws.close
      /\ parts' = parts
    BY <1>2, <1>3 DEF Commits, SameRow
<1>5. UNCHANGED <<period, book, applied>>
    BY DEF Acquire, Renew, history
<1> QED
    BY <1>4, <1>5 DEF Mapped, Reviewed, Prepared

\* What a request writes is one step of the ledger, or none.
LEMMA WriteMaps ==
    ASSUME Typed, Safe, SeenBefore, NEW r \in Requests, Write(r)
    PROVE  \/ UNCHANGED Mapped
           \/ Ledger!Edit \/ Ledger!Prepare \/ Ledger!Close \/ Ledger!Reopen \/ Ledger!Answer
<1>0. tx[r].open
    BY DEF Write
<1>b. book \in BookRows
    BY DEF Typed
<1>v. PICK e \in Editors :
       \/ Acquire(r, e) \/ Renew(r, e)
       \/ \E expected \in 0 .. ws.version :
             \/ PrepareClose(r, e, expected)
             \/ \E key \in Keys \cup {Fresh} :
                   \/ Decide(r, e, expected, key) \/ BulkOfNothing(r, e, expected, key)
                   \/ Confirm(r, e, expected, key) \/ Annotate(r, e, expected, key)
                   \/ Close(r, e, expected, key) \/ Reopen(r, e, expected, key)
    BY DEF Write
<1>1. CASE Acquire(r, e) \/ Renew(r, e)
    BY <1>0, <1>1, LeaseMaps
<1>2. ASSUME NEW expected, PrepareClose(r, e, expected) PROVE Ledger!Prepare
    BY <1>0, <1>2, PrepareMaps
<1>3. ASSUME NEW expected, NEW key \in Keys \cup {Fresh}, Close(r, e, expected, key)
      PROVE  Ledger!Close
    BY <1>0, <1>3, CloseMaps
<1>4. ASSUME NEW expected, NEW key \in Keys \cup {Fresh}, Reopen(r, e, expected, key)
      PROVE  Ledger!Reopen
    BY <1>0, <1>4, ReopenMaps
<1>5. ASSUME NEW expected, NEW key \in Keys \cup {Fresh}, BulkOfNothing(r, e, expected, key)
      PROVE  Ledger!Answer
    BY <1>0, <1>5, AnswerMaps
<1>6. ASSUME NEW expected, NEW key \in Keys \cup {Fresh}, Annotate(r, e, expected, key)
      PROVE  Ledger!Edit
  <2>1. book.checked \in BOOLEAN
    BY <1>b DEF BookRows
  <2> QED
    BY <1>0, <1>b, <1>6, <2>1, EditsMap DEF Annotate
<1>7. ASSUME NEW expected, NEW key \in Keys \cup {Fresh}, Confirm(r, e, expected, key)
      PROVE  Ledger!Edit
  <2>1. PICK confirmed \in BOOLEAN :
           Edits(r, e, expected, key, [book EXCEPT !.checked = confirmed])
    BY <1>7 DEF Confirm
  <2>2. /\ [book EXCEPT !.checked = confirmed] \in BookRows
        /\ [book EXCEPT !.checked = confirmed].checked \in BOOLEAN
        /\ [book EXCEPT !.checked = confirmed].reviewed = book.reviewed
    BY <1>b DEF BookRows
  <2> QED
    BY <1>0, <2>1, <2>2, EditsMap
<1>8. ASSUME NEW expected, NEW key \in Keys \cup {Fresh}, Decide(r, e, expected, key)
      PROVE  Ledger!Edit
  <2>1. PICK D \in SUBSET tx[r].seen.parts, reviewed \in BOOLEAN :
           Edits(r, e, expected, key, [book EXCEPT !.reviewed =
              [d \in Documents |-> IF d \in D THEN reviewed ELSE @[d]]])
    BY <1>8 DEF Decide
  <2> DEFINE b == [book EXCEPT !.reviewed =
                     [d \in Documents |-> IF d \in D THEN reviewed ELSE @[d]]]
  <2>2. /\ b \in BookRows /\ b.checked = book.checked
        /\ \A d \in Documents : b.reviewed[d] = IF d \in D THEN reviewed ELSE book.reviewed[d]
    BY <1>b DEF BookRows
  <2>3. D \in SUBSET parts /\ D \subseteq Documents
    BY <1>0, RowsRead DEF Typed
  <2>4. {d \in Documents : b.reviewed[d]} \in {Reviewed \cup D, Reviewed \ D}
    <3> HIDE DEF b
    <3>1. CASE reviewed = TRUE
      <4>1. {d \in Documents : b.reviewed[d]} = Reviewed \cup D
        BY <2>2, <2>3, <3>1 DEF Reviewed
      <4> QED
        BY <4>1
    <3>2. CASE reviewed = FALSE
      <4>1. {d \in Documents : b.reviewed[d]} = Reviewed \ D
        BY <2>2, <2>3, <3>2 DEF Reviewed
      <4> QED
        BY <4>1
    <3> QED
      BY <3>1, <3>2
  <2>5. Edits(r, e, expected, key, b)
    BY <2>1
  <2> HIDE DEF b
  <2> QED
    BY <1>0, <2>2, <2>3, <2>4, <2>5, EditsMap
<1> QED
    BY <1>v, <1>1, <1>2, <1>3, <1>4, <1>5, <1>6, <1>7, <1>8

LEMMA ArrivesMaps ==
    ASSUME Typed, NEW d \in Documents, Arrives(d), d \notin parts
    PROVE  Ledger!Arrive(d)
<1>1. /\ period' = CASE period = "closed" -> "changes_detected"
                     [] period = "ready_to_close" -> "preparation"
                     [] OTHER -> period
    BY DEF Arrives, Arrived
<1>2. period' # "ready_to_close" /\ parts' = parts \cup {d}
    BY DEF Arrives, Arrived
<1>3. UNCHANGED <<ws, book, applied>>
    BY DEF Arrives, history
<1> QED
    BY <1>1, <1>2, <1>3 DEF Ledger!Arrive

\* Every step of the month is one of the ledger, or none.
LEMMA StepRefines ==
    ASSUME Typed, Safe, SeenBefore, PlacedOnce, [Next]_vars
    PROVE  [Ledger!Next]_(Ledger!vars)
<1>m. ASSUME UNCHANGED Mapped PROVE UNCHANGED Ledger!vars
    BY <1>m DEF Mapped, Reviewed, Prepared, Ledger!vars, Ledger!content
<1>k. ASSUME UNCHANGED <<month, tx, history>> PROVE UNCHANGED Ledger!vars
    BY <1>m, <1>k DEF month, history, Mapped, Reviewed, Prepared
<1>1. ASSUME NEW r \in Requests, Request(r) PROVE Ledger!Next \/ UNCHANGED Ledger!vars
  <2>1. CASE Begin(r) \/ Refuse(r)
    BY <2>1, <1>m DEF Begin, Refuse, month, history, Mapped, Reviewed, Prepared
  <2>2. CASE Write(r)
    BY <2>2, <1>m, WriteMaps DEF Ledger!Next
  <2> QED
    BY <1>1, <2>1, <2>2 DEF Request
<1>2. ASSUME NEW d \in Documents, PublicationCommits(d)
      PROVE  Ledger!Next \/ UNCHANGED Ledger!vars
  <2>1. CASE Arrives(d)
    <3>1. d \notin parts
      BY <1>2 DEF PublicationCommits, PlacedOnce, IsPublished
    <3> QED
      BY <2>1, <3>1, ArrivesMaps DEF Ledger!Next
  <2>2. CASE ~Arrives(d)
    BY <1>2, <1>k, <2>2 DEF PublicationCommits
  <2> QED
    BY <2>1, <2>2
<1>3. ASSUME NEW w \in Reconcilers, NEW d \in Documents, Resolve(w, d)
      PROVE  Ledger!Next \/ UNCHANGED Ledger!vars
  <2>1. CASE work[w].placing = d /\ Arrives(d)
    <3>1. d \notin parts
      BY <2>1 DEF PlacedOnce
    <3> QED
      BY <2>1, <3>1, ArrivesMaps DEF Ledger!Next
  <2>2. CASE UNCHANGED <<month, tx, history>>
    BY <1>k, <2>2
  <2> QED
    BY <1>3, <2>1, <2>2 DEF Resolve
<1>4. ASSUME NEW d \in Documents, Publish(d) \/ PublicationFails(d) \/ ClaimLapses(d)
      PROVE  UNCHANGED Ledger!vars
    BY <1>4, <1>k DEF Publish, PublicationFails, ClaimLapses
<1>5. ASSUME NEW w \in Reconcilers, ClaimDue(w) \/ Stops(w) PROVE UNCHANGED Ledger!vars
    BY <1>5, <1>k DEF ClaimDue, Stops
<1>6. ASSUME NEW w \in Reconcilers, NEW d \in Documents,
             RecoverLegacy(w, d) \/ RecoveryFails(w, d) \/ Place(w, d)
                \/ Skip(w, d) \/ ClaimFails(w, d)
      PROVE  UNCHANGED Ledger!vars
    BY <1>6, <1>k DEF RecoverLegacy, RecoveryFails, Place, Skip, ClaimFails
<1>7. ASSUME EditLeaseEnds PROVE UNCHANGED Ledger!vars
  <2>1. /\ ws'.version = ws.version /\ ws'.prepared = ws.prepared /\ ws'.close = ws.close
    BY <1>7 DEF EditLeaseEnds, Typed, WsRows, WsFields
  <2> QED
    BY <1>7, <1>m, <2>1 DEF EditLeaseEnds, history, Mapped, Reviewed, Prepared
<1>8. ASSUME CreateYear PROVE Ledger!Create
  <2>1. period = "none" /\ period' = "not_started" /\ UNCHANGED <<ws, book, parts, applied>>
    BY <1>8 DEF CreateYear, NoRow, history
  <2> QED
    BY <2>1 DEF Ledger!Create, Ledger!content
<1>9. ASSUME UNCHANGED vars PROVE UNCHANGED Ledger!vars
    BY <1>9, <1>k DEF vars
<1> QED
    BY <1>1, <1>2, <1>3, <1>4, <1>5, <1>6, <1>7, <1>8, <1>9 DEF Next, Reconcile, Ledger!Next

LEMMA InitRefines == Init => Ledger!Init /\ SeenBefore /\ PlacedOnce
<1> SUFFICES ASSUME Init PROVE Ledger!Init /\ SeenBefore /\ PlacedOnce
    OBVIOUS
<1>1. {d \in Documents : book.reviewed[d]} = {}
    BY DEF Init
<1>2. period \in {"none", "not_started"} /\ parts = {} /\ applied = [k \in Keys |-> 0]
    BY DEF Init, NoRow
<1>3. book.checked = FALSE /\ ws.prepared = {} /\ ws.close = {} /\ ws.version = 0
    BY DEF Init
<1>4. Ledger!Init
    BY <1>1, <1>2, <1>3 DEF Ledger!Init
<1>5. SeenBefore
    BY DEF Init, SeenBefore, Idle
<1>6. PlacedOnce
    BY DEF Init, PlacedOnce, Quiet
<1> QED
    BY <1>4, <1>5, <1>6

\* The reconciler and the publication: a document is placed by one worker only, and what a
\* transaction has seen of the month is in it.
THEOREM Placing == Spec => [](SeenBefore /\ PlacedOnce)
<1>1. Init => SeenBefore /\ PlacedOnce
    BY InitRefines
<1>2. Typed /\ SeenBefore /\ PlacedOnce /\ [Next]_vars => (SeenBefore /\ PlacedOnce)'
    BY SeenStep, PlacedStep
<1> QED
    BY <1>1, <1>2, Invariance, PTL DEF Spec

\* The month implements the ledger, in which members and documents come one by one:
\* MonthlyWorkspace.Ledger.
THEOREM Refinement == Spec => ImplementsMonthlyLedger
<1>1. Init => Ledger!Init
    BY InitRefines
<1>2. (Typed /\ Safe) /\ (SeenBefore /\ PlacedOnce) /\ [Next]_vars
        => [Ledger!Next]_(Ledger!vars)
    BY StepRefines
<1> QED
    BY <1>1, <1>2, Invariance, Placing, PTL DEF Spec, ImplementsMonthlyLedger, Ledger!Spec
=============================================================================
