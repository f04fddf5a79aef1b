---------------------------- MODULE MonthlyLedger ----------------------------
(* What one month promises to its members: documents arrive once, reviews and  *)
(* confirmations are written one after the other, each over the version before *)
(* it and at most once for its key, and a close keeps what the month says at   *)
(* that moment.  There are no transactions, snapshots, leases, workers or      *)
(* reconcilers here.                                                           *)
EXTENDS Naturals

CONSTANTS Documents, Keys

VARIABLES
    status,    \* of the month
    members,   \* documents that have arrived
    reviewed,  \* those whose review stands
    checked,   \* the confirmations are given
    prepared,  \* what a month ready to close was prepared with
    kept,      \* what the latest close keeps
    version,   \* of what the members have written
    effects    \* how often each key has had its effect

content == <<members, reviewed, checked>>
vars == <<status, content, prepared, kept, version, effects>>

Shut == {"closed", "changes_detected"}
Open == {"not_started", "preparation", "ready_to_close", "reopened"}

Content(D) == [rows |-> [d \in D |-> d \in reviewed], checked |-> checked]

Init ==
    /\ status \in {"none", "not_started"}
    /\ members = {} /\ reviewed = {} /\ checked = FALSE
    /\ prepared = {} /\ kept = {}
    /\ version = 0
    /\ effects = [k \in Keys |-> 0]

Create ==
    /\ status = "none"
    /\ status' = "not_started"
    /\ UNCHANGED <<content, prepared, kept, version, effects>>

\* A document arrives: a prepared month is prepared no more, a closed one says so.
Arrive(d) ==
    /\ d \notin members
    /\ members' = members \cup {d}
    /\ status' = CASE status = "closed" -> "changes_detected"
                   [] status = "ready_to_close" -> "preparation"
                   [] OTHER -> status
    /\ prepared' = {}
    /\ UNCHANGED <<reviewed, checked, kept, version, effects>>

\* A write has its effect once if it has a key.
Once ==
    \/ UNCHANGED effects
    \/ \E k \in Keys : effects[k] = 0 /\ effects' = [effects EXCEPT ![k] = 1]

Written(to) ==
    /\ status' = to
    /\ version' = version + 1
    /\ UNCHANGED members

\* Reviews are given or taken back, or confirmations, or a note is made.
Edit ==
    /\ status \in Open
    /\ \/ \E D \in SUBSET members : reviewed' \in {reviewed \cup D, reviewed \ D}
                                    /\ UNCHANGED checked
       \/ checked' \in BOOLEAN /\ UNCHANGED reviewed
    /\ Once
    /\ Written(IF status = "reopened" THEN status ELSE "preparation")
    /\ prepared' = {}
    /\ UNCHANGED kept

\* The month is prepared with documents D, all of them reviewed: others may have arrived
\* meanwhile.
Prepare ==
    /\ status \in Open /\ checked
    /\ \E D \in SUBSET members : D \subseteq reviewed /\ prepared' = {Content(D)}
    /\ Written("ready_to_close")
    /\ UNCHANGED <<reviewed, checked, kept, effects>>

\* What is closed is what was prepared, and it is all there is.
Close ==
    /\ status = "ready_to_close"
    /\ prepared = {Content(members)}
    /\ kept' = {Content(members)}
    /\ Once
    /\ Written("closed")
    /\ prepared' = {}
    /\ UNCHANGED <<reviewed, checked>>

Reopen ==
    /\ status \in Shut
    /\ Once
    /\ Written("reopened")
    /\ UNCHANGED <<reviewed, checked, prepared, kept>>

\* A request that changes nothing of the month has its effect, too.
Answer ==
    /\ status \in Open
    /\ Once
    /\ UNCHANGED <<status, content, prepared, kept, version>>

Next ==
    \/ Create \/ Edit \/ Prepare \/ Close \/ Reopen \/ Answer
    \/ \E d \in Documents : Arrive(d)

Spec == Init /\ [][Next]_vars
=============================================================================
