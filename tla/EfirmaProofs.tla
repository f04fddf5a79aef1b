---------------------------- MODULE EfirmaProofs ----------------------------
(* Proofs about Efirma, for any sets of consumers and cleaners and any number  *)
(* of faults.                                                                  *)
(*                                                                             *)
(* A status never goes back: what a consumer past the mark, or a cleaner, does *)
(* it does under a status that no claim leaves any more. The cleanup reference *)
(* is in the row before the custody is ready, so a cleaning that finds none    *)
(* has nobody to race with.                                                    *)
EXTENDS Efirma, TLAPS

\* The statuses before the mark, and those a consumer may hold the custody in.
Unmarked == {"none", "preparing", "ready", "claimed"}
Usable == {"ready", "claimed", "unwrapping"}
\* Where a consumer stands after the mark.
Past == {"unwrap", "verify", "operate", "confirm", "consume"}
\* Where a cleaner stands that cleans a custody, and one that sweeps.
AtCleaning == {"delete", "delete_mark", "require", "revoke", "complete"}
AtSweep == {"sweep", "sweep_mark"}

\* Cleaning is asked for when the custody ends, and done to what has ended; the sweep
\* runs on what is overdue.
CleaningIsLate ==
    /\ row.requested \/ row.cleaned => row.status \in Ended
    /\ \A w \in Cleaners : cleaner[w].pc \in AtCleaning => row.status \in Ended
    /\ \A w \in Cleaners : cleaner[w].pc \in AtSweep => clock = Overdue

\* One consumer passes the mark, once, and the counters say how far it got.
OnePasses ==
    /\ row.status \in Unmarked => calls = 0 /\ uses = 0 /\ \A c \in Consumers : consumer[c] \notin Past
    /\ \A c, d \in Consumers : consumer[c] \in Past /\ consumer[d] \in Past => c = d
    /\ \A c \in Consumers :
          /\ consumer[c] = "unwrap" => calls = 0 /\ uses = 0
          /\ consumer[c] \in {"verify", "operate"} => calls = 1 /\ uses = 0
          /\ consumer[c] \in {"confirm", "consume"} => calls = 1 /\ uses = 1
    /\ CredentialUsedOnce

\* While the request prepares, what it has stored is there.
Prepared ==
    /\ row.status \in Usable => prep = "done"
    /\ row.status = "none" => prep = "idle"
    /\ row.status = "preparing" /\ clock < Overdue =>
          /\ prep \in {"record_certificate", "put_key"} => "certificate" \in bytes
          /\ prep \in {"record_key", "check", "wrap", "save", "finish"} => bytes = Objects
    /\ row.status = "preparing" /\ clock = Wrapped /\ prep \in {"save", "finish"} => wrap = "live"
    /\ LiveMaterialKept

\* The reference precedes readiness, and a cleaning at its end leaves no token to a
\* consumer that has still to use it.
Referenced ==
    /\ prep = "finish" \/ row.status \in Usable => row.accessor \/ row.cleaned
    /\ \A c \in Consumers : consumer[c] = "unwrap" => prep = "done" /\ (row.accessor \/ row.cleaned)
    /\ \A c \in Consumers : consumer[c] = "unwrap" /\ clock = Wrapped =>
          /\ row.cleaned => wrap # "live"
          /\ \A w \in Cleaners : cleaner[w].pc = "complete" => wrap # "live"

IInv == TypeOK /\ CleaningIsLate /\ OnePasses /\ Prepared /\ Referenced

USE WorkersAssumption, FaultsAssumption
    DEF Objects, Live, Ended, Wrapped, TokenOver, Expired, Overdue, Unmarked, Usable

-----------------------------------------------------------------------------
(* Type correctness.                                                           *)

Rows == [status : {"none"} \cup Live \cup Ended,
         claim : Consumers \cup {NoOne, "prep"},
         lease : {"none", "held", "lapsed", "settled"},
         accessor : BOOLEAN, requested : BOOLEAN, cleaned : BOOLEAN,
         cleaner : Cleaners \cup {NoOne}, cleanLease : {"none", "held", "lapsed"}]
Visits == [pc : {"idle", "delete", "delete_mark", "require", "revoke",
                 "complete", "sweep", "sweep_mark"},
           todo : SUBSET Objects, at : Objects \cup {"none"}, accessor : BOOLEAN]

\* A visit goes on to the next place and object.
LEMMA VisitMoves ==
    ASSUME NEW v \in Visits, NEW o \in Objects,
           NEW p \in {"delete_mark", "sweep_mark"}
    PROVE  [v EXCEPT !.pc = p, !.at = o] \in Visits
    BY DEF Visits

\* What a step of a cleaner puts in the place of its visit is one.
LEMMA VisitTypes ==
    ASSUME TypeOK
    PROVE  Resting \in Visits /\ ToSweep \in Visits /\ Stored \subseteq Objects
BY DEF TypeOK, Visits, Resting, ToSweep, Stored

\* What the reconciler makes of a row is one.
LEMMA RowTypes ==
    ASSUME TypeOK
    PROVE  /\ \A s \in Ended : Terminal(s) \in Rows
           /\ Settled \in Rows
<1>1. row \in Rows
    BY DEF TypeOK, Rows
<1>2. \A s \in Ended : Terminal(s) \in Rows
    BY <1>1 DEF Terminal, Rows
<1>3. Settled \in {row, Terminal("expired"), Terminal("revoked"),
                  Terminal("requires_user_authorization")}
    BY DEF Settled
<1> QED
    BY <1>1, <1>2, <1>3

\* A step of a cleaner that takes care of its visit, the row, the records, the bytes
\* and the token.
LEMMA CleanerType ==
    ASSUME TypeOK, NEW w \in Cleaners, NEW v \in Visits,
           cleaner' = [cleaner EXCEPT ![w] = v],
           row' \in Rows, records' \in [Objects -> {"none", "pending", "uploaded", "deleted"}],
           bytes' \subseteq Objects, wrap' \in {"none", "live", "used", "revoked"},
           UNCHANGED <<authority, clock, prep, consumer, calls, uses>>,
           UNCHANGED faults \/ Fault
    PROVE  TypeOK'
<1>1. cleaner \in [Cleaners -> Visits]
    BY DEF TypeOK, Visits
<1>2. cleaner' \in [Cleaners -> Visits]
    BY <1>1
<1>3. faults' \in 0 .. MaxFaults
    BY DEF TypeOK, Fault
<1> QED
    BY <1>2, <1>3 DEF TypeOK, Rows, Visits

\* Every step keeps the types.
LEMMA TypeStep == TypeOK /\ [Next]_vars => TypeOK'
<1> SUFFICES ASSUME TypeOK, [Next]_vars PROVE TypeOK'
    OBVIOUS
<1>r. /\ row \in Rows /\ cleaner \in [Cleaners -> Visits]
      /\ records \in [Objects -> {"none", "pending", "uploaded", "deleted"}]
      /\ bytes \subseteq Objects /\ wrap \in {"none", "live", "used", "revoked"}
    BY DEF TypeOK, Rows, Visits
<1>1. ASSUME Reserve PROVE TypeOK'
    BY <1>1 DEF TypeOK, Reserve, material, world, Absent
<1>2. ASSUME InsertObjects PROVE TypeOK'
    BY <1>2 DEF TypeOK, InsertObjects, PrepStep, PutAt, world
<1>3. ASSUME CheckPreparation PROVE TypeOK'
    BY <1>3 DEF TypeOK, CheckPreparation, PrepStep, material, world
<1>4. ASSUME Wrap PROVE TypeOK'
    BY <1>4 DEF TypeOK, Wrap, PrepStep, world
<1>5. ASSUME SaveAccessor PROVE TypeOK'
    BY <1>5 DEF TypeOK, SaveAccessor, PrepStep, material, world
<1>6. ASSUME FinishPreparation PROVE TypeOK'
    BY <1>6 DEF TypeOK, FinishPreparation, PrepStep, material, world
<1>7. ASSUME FailPreparation PROVE TypeOK'
    BY <1>7 DEF TypeOK, FailPreparation, PrepStep, Terminal, material, world
<1>8. ASSUME PrepFault PROVE TypeOK'
    BY <1>8 DEF TypeOK, PrepFault, Fault, material, world
<1>9. ASSUME NEW o \in Objects, Put(o) PROVE TypeOK'
    BY <1>9 DEF TypeOK, Put, PrepStep, PutAt, RecordAt, world
<1>10. ASSUME NEW o \in Objects, RecordUpload(o) PROVE TypeOK'
    BY <1>10 DEF TypeOK, RecordUpload, PrepStep, PutAt, RecordAt, world
<1>11. ASSUME NEW c \in Consumers, ClaimCredential(c) PROVE TypeOK'
    BY <1>11 DEF TypeOK, ClaimCredential, material, world
<1>12. ASSUME NEW c \in Consumers, ReadMaterial(c) PROVE TypeOK'
    BY <1>12 DEF TypeOK, ReadMaterial, ConsumerStep, Caught, material, world
<1>13. ASSUME NEW c \in Consumers, CheckAuthority(c) PROVE TypeOK'
    BY <1>13 DEF TypeOK, CheckAuthority, ConsumerStep, Caught, AfterCheck, material,
       world
<1>14. ASSUME NEW c \in Consumers, MarkUnwrapping(c) PROVE TypeOK'
    BY <1>14 DEF TypeOK, MarkUnwrapping, ConsumerStep, Caught, material, world
<1>15. ASSUME NEW c \in Consumers, Unwrap(c) PROVE TypeOK'
    BY <1>15 DEF TypeOK, Unwrap, ConsumerStep, Caught, world
<1>16. ASSUME NEW c \in Consumers, Operate(c) PROVE TypeOK'
    BY <1>16 DEF TypeOK, Operate, ConsumerStep, Caught, material, world
<1>17. ASSUME NEW c \in Consumers, Consume(c) PROVE TypeOK'
  <2>1. [Terminal("consumed") EXCEPT !.lease = "none"] \in Rows
    BY RowTypes DEF Rows
  <2>2. row' \in Rows
    BY <1>r, <1>17, <2>1 DEF Consume
  <2> QED
    BY <1>17, <2>2 DEF TypeOK, Rows, Consume, ConsumerStep, Caught, material, world
<1>18. ASSUME NEW c \in Consumers, RecordUncertainty(c) PROVE TypeOK'
  <2>1. [Terminal("requires_user_authorization") EXCEPT !.lease = "none"] \in Rows
    BY RowTypes DEF Rows
  <2>2. row' \in Rows
    BY <1>r, <1>18, <2>1 DEF RecordUncertainty
  <2> QED
    BY <1>18, <2>2 DEF TypeOK, Rows, RecordUncertainty, ConsumerStep, Caught, material,
       world
<1>19. ASSUME NEW c \in Consumers, ConsumerFault(c) PROVE TypeOK'
    BY <1>19 DEF TypeOK, ConsumerFault, Caught, Fault, material, world
<1>20. ASSUME NEW w \in Cleaners, Reconcile(w) PROVE TypeOK'
  <2>1. row' \in Rows
    <3>1. [Settled EXCEPT !.cleaner = w, !.cleanLease = "held"] \in Rows
      BY RowTypes DEF Rows
    <3> QED
      BY <1>20, <3>1, RowTypes DEF Reconcile
  <2>2. PICK v \in Visits : cleaner' = [cleaner EXCEPT ![w] = v]
    <3>1. [pc |-> IF Stored = {} THEN "require" ELSE "delete", todo |-> Stored,
           at |-> "none", accessor |-> row.accessor] \in Visits
      BY <1>r, VisitTypes DEF Visits, Rows
    <3> QED
      BY <1>20, <3>1, VisitTypes DEF Reconcile
  <2>3. UNCHANGED <<material, world, prep, consumer, calls, uses, faults>>
    BY <1>20 DEF Reconcile
  <2> QED
    BY <1>r, <2>1, <2>2, <2>3, CleanerType DEF material, world
<1>21. ASSUME NEW w \in Cleaners, DeleteBytes(w) PROVE TypeOK'
  <2>1. PICK from \in DOMAIN MarkAfter, o \in cleaner[w].todo :
           /\ bytes' = bytes \ {o}
           /\ cleaner' = [cleaner EXCEPT ![w].pc = MarkAfter[from], ![w].at = o]
    BY <1>21 DEF DeleteBytes
  <2>2. PICK v \in Visits : cleaner' = [cleaner EXCEPT ![w] = v]
    <3>1. from \in {"delete", "sweep"} /\ MarkAfter[from] \in {"delete_mark", "sweep_mark"}
      BY <2>1 DEF MarkAfter
    <3>2. o \in Objects
      BY <1>r, <2>1 DEF Visits
    <3>3. cleaner[w] \in Visits
      BY <1>r
    <3>4. [cleaner[w] EXCEPT !.pc = MarkAfter[from], !.at = o] \in Visits
      BY <3>1, <3>2, <3>3, VisitMoves
    <3> QED
      BY <1>r, <2>1, <3>4
  <2>3. UNCHANGED <<row, records, wrap, world, prep, consumer, calls, uses, faults>>
    BY <1>21 DEF DeleteBytes, CleanerStep
  <2>4. bytes' \subseteq Objects
    BY <1>r, <2>1
  <2> QED
    BY <1>r, <2>2, <2>3, <2>4, CleanerType DEF world
<1>22. ASSUME NEW w \in Cleaners, MarkDeleted(w) PROVE TypeOK'
  <2>1. PICK next \in {"delete", "sweep", "require", "idle"} :
           cleaner' = [cleaner EXCEPT ![w] =
               IF next = "idle" THEN Resting
               ELSE [@ EXCEPT !.pc = next, !.todo = cleaner[w].todo \ {cleaner[w].at}, !.at = "none"]]
    BY <1>22 DEF MarkDeleted, MarkAfter
  <2>2. PICK v \in Visits : cleaner' = [cleaner EXCEPT ![w] = v]
    <3>1. [cleaner[w] EXCEPT !.pc = next, !.todo = cleaner[w].todo \ {cleaner[w].at},
                              !.at = "none"] \in Visits
      BY <1>r DEF Visits
    <3> QED
      BY <1>r, <2>1, <3>1, VisitTypes
  <2>3. records' \in [Objects -> {"none", "pending", "uploaded", "deleted"}]
    BY <1>r, <1>22 DEF MarkDeleted
  <2>4. UNCHANGED <<row, bytes, wrap, world, prep, consumer, calls, uses, faults>>
    BY <1>22 DEF MarkDeleted, CleanerStep
  <2> QED
    BY <1>r, <2>2, <2>3, <2>4, CleanerType DEF world
<1>23. ASSUME NEW w \in Cleaners, RequireRevocation(w) PROVE TypeOK'
  <2>1. PICK v \in Visits : cleaner' = [cleaner EXCEPT ![w] = v]
    BY <1>r, <1>23, VisitTypes DEF RequireRevocation, Visits
  <2> QED
    BY <1>r, <1>23, <2>1, CleanerType DEF RequireRevocation, CleanerStep, material,
       world
<1>24. ASSUME NEW w \in Cleaners, RevokeToken(w) PROVE TypeOK'
  <2>1. PICK v \in Visits : cleaner' = [cleaner EXCEPT ![w] = v]
    BY <1>r, <1>24, VisitTypes DEF RevokeToken, Visits
  <2>2. wrap' \in {"none", "live", "used", "revoked"}
    BY <1>24 DEF RevokeToken, TypeOK
  <2> QED
    BY <1>r, <1>24, <2>1, <2>2, CleanerType DEF RevokeToken, CleanerStep, world
<1>25. ASSUME NEW w \in Cleaners, CompleteCleanup(w) PROVE TypeOK'
  <2>1. row' \in Rows
    BY <1>r, <1>25 DEF CompleteCleanup, Rows, Absent
  <2>2. UNCHANGED <<material, world, prep, consumer, calls, uses, faults>>
    BY <1>25 DEF CompleteCleanup, CleanerStep
  <2>3. cleaner' = [cleaner EXCEPT ![w] = ToSweep]
    BY <1>25 DEF CompleteCleanup
  <2> QED
    BY <1>r, <2>1, <2>2, <2>3, VisitTypes, CleanerType DEF material, world
<1>26. ASSUME NEW w \in Cleaners, CleanerFault(w) PROVE TypeOK'
  <2>1. PICK v \in Visits : cleaner' = [cleaner EXCEPT ![w] = v]
    <3> DEFINE left == [cleaner[w] EXCEPT !.todo = @ \ {cleaner[w].at}]
    <3>1. left \in Visits /\ [left EXCEPT !.pc = "sweep", !.at = "none"] \in Visits
      BY <1>r DEF Visits
    <3> QED
      BY <1>26, <3>1, VisitTypes DEF CleanerFault
  <2> QED
    BY <1>r, <1>26, <2>1, CleanerType DEF CleanerFault, material, world
<1>27. ASSUME RevokeCustody PROVE TypeOK'
    BY <1>27 DEF TypeOK, RevokeCustody, World, Terminal, material, world
<1>28. ASSUME PollStatus PROVE TypeOK'
  <2>1. row' \in Rows
    BY <1>28, RowTypes DEF PollStatus, World
  <2> QED
    BY <1>28, <2>1 DEF TypeOK, Rows, PollStatus, World, material, world
<1>29. ASSUME AuthorityFlips PROVE TypeOK'
    BY <1>29 DEF TypeOK, AuthorityFlips, World, material, world
<1>30. ASSUME SessionEnds PROVE TypeOK'
    BY <1>30 DEF TypeOK, SessionEnds, World, Terminal, material, world
<1>31. ASSUME Tick PROVE TypeOK'
    BY <1>31 DEF TypeOK, Tick, World, material, world
<1>32. ASSUME LeaseRuns PROVE TypeOK'
    BY <1>32 DEF TypeOK, LeaseRuns, World, material, world
<1>33. ASSUME CleanupLeaseLapses PROVE TypeOK'
    BY <1>33 DEF TypeOK, CleanupLeaseLapses, World, Fault, material, world
<1>34. CASE UNCHANGED vars
    BY <1>34 DEF TypeOK, vars
<1> QED
    BY <1>1, <1>2, <1>3, <1>4, <1>5, <1>6, <1>7, <1>8, <1>9, <1>10, <1>11, <1>12,
       <1>13, <1>14,
       <1>15, <1>16, <1>17, <1>18, <1>19, <1>20, <1>21, <1>22, <1>23, <1>24, <1>25, <1>26,
       <1>27, <1>28, <1>29, <1>30, <1>31, <1>32, <1>33, <1>34
    DEF Next, Preparation, Consumption, Cleaning, Surroundings

-----------------------------------------------------------------------------
(* How a step moves the row, and what it leaves alone.                         *)

\* A status only goes forward, and nobody but the owner of a use takes anything away.
Moves ==
    /\ row.status \in Ended => row'.status \in Ended
    /\ row'.requested \/ row'.cleaned => row.requested \/ row.cleaned \/ row'.status \in Ended
    /\ row.status # "none" /\ row.cleaned => row'.cleaned
    /\ row.status # "none" /\ row.accessor => row'.accessor \/ row'.cleaned
    /\ row'.status \in Unmarked => row.status \in Unmarked
    /\ row'.status \in {"ready", "claimed"} =>
          row.status \in {"ready", "claimed"} \/ (FinishPreparation /\ PrepOwns)
    /\ row'.status = "unwrapping" => row.status \in {"claimed", "unwrapping"}
    /\ row'.status = "preparing" => row.status = "preparing" \/ Reserve
    /\ row'.status = "none" => row.status = "none"
    /\ clock <= clock'
    /\ prep = "done" => prep' = "done"

\* What the reconciler makes of a row keeps it or ends it.
LEMMA SettledMoves ==
    ASSUME TypeOK
    PROVE  /\ Settled = row \/ (row.status \in Live /\ Settled.status \in Ended)
           /\ Settled.cleaned = row.cleaned /\ Settled.accessor = row.accessor
           /\ Settled.requested => row.requested \/ Settled.status \in Ended
<1>1. row \in Rows
    BY DEF TypeOK, Rows
<1>2. \A s \in Ended : /\ Terminal(s).status = s /\ Terminal(s).cleaned = row.cleaned
                       /\ Terminal(s).accessor = row.accessor
    BY <1>1 DEF Terminal, Rows
<1>3. Settled = row \/ (row.status \in Live /\ \E s \in Ended : Settled = Terminal(s))
    BY DEF Settled
<1> QED
    BY <1>2, <1>3

\* Every step moves the row as Moves says.
LEMMA MovesStep == TypeOK /\ CleaningIsLate /\ [Next]_vars => Moves
<1> SUFFICES ASSUME TypeOK, CleaningIsLate, [Next]_vars PROVE Moves
    OBVIOUS
<1>r. row \in Rows /\ clock \in 0 .. 3
    BY DEF TypeOK, Rows
<1> USE <1>r DEF Moves
<1>1. ASSUME Reserve PROVE Moves
    BY <1>1 DEF Reserve, Absent, material, world, Rows
<1>2. ASSUME InsertObjects PROVE Moves
    BY <1>2 DEF InsertObjects, PrepStep, PutAt, material, world, Rows
<1>3. ASSUME CheckPreparation PROVE Moves
    BY <1>3 DEF CheckPreparation, PrepStep, material, world, Rows
<1>4. ASSUME Wrap PROVE Moves
    BY <1>4 DEF Wrap, PrepStep, material, world, Rows
<1>5. ASSUME SaveAccessor PROVE Moves
    BY <1>5 DEF SaveAccessor, PrepStep, material, world, Rows
<1>6. ASSUME FinishPreparation PROVE Moves
    BY <1>6 DEF FinishPreparation, PrepStep, PrepOwns, material, world, Rows
<1>7. ASSUME FailPreparation PROVE Moves
    BY <1>7 DEF FailPreparation, PrepStep, Terminal, material, world, Rows
<1>8. ASSUME PrepFault PROVE Moves
    BY <1>8 DEF PrepFault, Fault, material, world, Rows
<1>9. ASSUME NEW o \in Objects, Put(o) PROVE Moves
    BY <1>9 DEF Put, PrepStep, PutAt, RecordAt, material, world, Rows
<1>10. ASSUME NEW o \in Objects, RecordUpload(o) PROVE Moves
    BY <1>10 DEF RecordUpload, PrepStep, PutAt, RecordAt, material, world, Rows
<1>11. ASSUME NEW c \in Consumers, ClaimCredential(c) PROVE Moves
    BY <1>11 DEF ClaimCredential, Claimable, material, world, Rows
<1>12. ASSUME NEW c \in Consumers, ReadMaterial(c) PROVE Moves
    BY <1>12 DEF ReadMaterial, ConsumerStep, Caught, material, world, Rows
<1>13. ASSUME NEW c \in Consumers, CheckAuthority(c) PROVE Moves
    BY <1>13 DEF CheckAuthority, ConsumerStep, Caught, AfterCheck, material, world, Rows
<1>14. ASSUME NEW c \in Consumers, MarkUnwrapping(c) PROVE Moves
    BY <1>14 DEF MarkUnwrapping, ConsumerStep, Caught, Holds, material, world, Rows
<1>15. ASSUME NEW c \in Consumers, Unwrap(c) PROVE Moves
    BY <1>15 DEF Unwrap, ConsumerStep, Caught, material, world, Rows
<1>16. ASSUME NEW c \in Consumers, Operate(c) PROVE Moves
    BY <1>16 DEF Operate, ConsumerStep, Caught, material, world, Rows
<1>17. ASSUME NEW c \in Consumers, Consume(c) PROVE Moves
    BY <1>17 DEF Consume, ConsumerStep, Caught, Terminal, Holds, material, world, Rows
<1>18. ASSUME NEW c \in Consumers, RecordUncertainty(c) PROVE Moves
    BY <1>18 DEF RecordUncertainty, ConsumerStep, Caught, Terminal, material, world,
       Rows
<1>19. ASSUME NEW c \in Consumers, ConsumerFault(c) PROVE Moves
    BY <1>19 DEF ConsumerFault, Caught, Fault, material, world, Rows
<1>20. ASSUME NEW w \in Cleaners, Reconcile(w) PROVE Moves
  <2>1. row' = Settled \/ row' = [Settled EXCEPT !.cleaner = w, !.cleanLease = "held"]
    BY <1>20 DEF Reconcile
  <2>2. /\ row'.status = Settled.status /\ row'.requested = Settled.requested
        /\ row'.cleaned = Settled.cleaned /\ row'.accessor = Settled.accessor
    BY <2>1, RowTypes DEF Rows
  <2>3. clock' = clock /\ prep' = prep
    BY <1>20 DEF Reconcile, world
  <2> QED
    BY <2>2, <2>3, SettledMoves
<1>21. ASSUME NEW w \in Cleaners, DeleteBytes(w) PROVE Moves
    BY <1>21 DEF DeleteBytes, CleanerStep, MarkAfter, AtCleaning, AtSweep, material,
       world, Rows
<1>22. ASSUME NEW w \in Cleaners, MarkDeleted(w) PROVE Moves
    BY <1>22 DEF MarkDeleted, CleanerStep, MarkAfter, material, world, Rows
<1>23. ASSUME NEW w \in Cleaners, RequireRevocation(w) PROVE Moves
    BY <1>23 DEF RequireRevocation, CleanerStep, material, world, Rows
<1>24. ASSUME NEW w \in Cleaners, RevokeToken(w) PROVE Moves
    BY <1>24 DEF RevokeToken, CleanerStep, AtCleaning, material, world, Rows
<1>25. ASSUME NEW w \in Cleaners, CompleteCleanup(w) PROVE Moves
    BY <1>25 DEF CompleteCleanup, CleanerStep, Absent, AtCleaning, CleaningIsLate,
       material,
       world, Rows
<1>26. ASSUME NEW w \in Cleaners, CleanerFault(w) PROVE Moves
    BY <1>26 DEF CleanerFault, material, world, Rows
<1>27. ASSUME RevokeCustody PROVE Moves
    BY <1>27 DEF RevokeCustody, World, Terminal, material, world, Rows
<1>28. ASSUME PollStatus PROVE Moves
    BY <1>28 DEF PollStatus, World, Terminal, material, world, Rows
<1>29. ASSUME AuthorityFlips PROVE Moves
    BY <1>29 DEF AuthorityFlips, World, material, world, Rows
<1>30. ASSUME SessionEnds PROVE Moves
    BY <1>30 DEF SessionEnds, World, Terminal, material, world, Rows
<1>31. ASSUME Tick PROVE Moves
    BY <1>31 DEF Tick, World, material, world, Rows
<1>32. ASSUME LeaseRuns PROVE Moves
    BY <1>32 DEF LeaseRuns, World, material, world, Rows
<1>33. ASSUME CleanupLeaseLapses PROVE Moves
    BY <1>33 DEF CleanupLeaseLapses, World, Fault, material, world, Rows
<1>34. CASE UNCHANGED vars
    BY <1>34 DEF vars
<1> QED
    BY <1>1, <1>2, <1>3, <1>4, <1>5, <1>6, <1>7, <1>8, <1>9, <1>10, <1>11, <1>12,
       <1>13, <1>14,
       <1>15, <1>16, <1>17, <1>18, <1>19, <1>20, <1>21, <1>22, <1>23, <1>24, <1>25, <1>26,
       <1>27, <1>28, <1>29, <1>30, <1>31, <1>32, <1>33, <1>34
    DEF Next, Preparation, Consumption, Cleaning, Surroundings

-----------------------------------------------------------------------------
(* Cleaning comes after the end.                                               *)

\* Where a step puts a cleaner: at a cleaning only from a cleaning or when it is asked
\* for, and at the sweep only when it is due.
LEMMA CleanerMoves ==
    ASSUME TypeOK, CleaningIsLate, [Next]_vars, NEW w \in Cleaners
    PROVE  /\ cleaner'[w].pc \in AtCleaning => cleaner[w].pc \in AtCleaning \/ row'.requested
           /\ cleaner'[w].pc \in AtSweep => clock = Overdue
<1> USE DEF AtCleaning, AtSweep
<1>r. /\ row \in Rows /\ cleaner \in [Cleaners -> Visits]
      /\ \A v \in Cleaners : cleaner[v].pc \in AtSweep => clock = Overdue
    BY DEF TypeOK, Rows, Visits, CleaningIsLate
<1>s. ToSweep.pc \in AtSweep => clock = Overdue
    BY DEF ToSweep, Resting
<1>t. Resting.pc = "idle" /\ ToSweep.pc \in {"idle", "sweep"}
    BY DEF ToSweep, Resting
<1>1. CASE UNCHANGED cleaner
    BY <1>1, <1>r
<1>2. ASSUME NEW u \in Cleaners, Reconcile(u)
      PROVE  /\ cleaner'[w].pc \in AtCleaning => cleaner[w].pc \in AtCleaning \/ row'.requested
             /\ cleaner'[w].pc \in AtSweep => clock = Overdue
  <2>1. CASE cleaner' = [cleaner EXCEPT ![u] = ToSweep]
    BY <1>r, <1>s, <1>t, <2>1
  <2>2. CASE MayClean(Settled) /\ row' = [Settled EXCEPT !.cleaner = u, !.cleanLease = "held"]
             /\ \E p \in {"require", "delete"} : cleaner' = [cleaner EXCEPT ![u] =
                   [pc |-> p, todo |-> Stored, at |-> "none", accessor |-> row.accessor]]
    BY <1>r, <2>2, RowTypes DEF MayClean, Rows
  <2> QED
    BY <1>2, <2>1, <2>2 DEF Reconcile
<1>3. ASSUME NEW u \in Cleaners, DeleteBytes(u) \/ MarkDeleted(u)
      PROVE  /\ cleaner'[w].pc \in AtCleaning => cleaner[w].pc \in AtCleaning \/ row'.requested
             /\ cleaner'[w].pc \in AtSweep => clock = Overdue
  <2>1. CASE DeleteBytes(u)
    <3>1. PICK from \in DOMAIN MarkAfter, o \in cleaner[u].todo :
             /\ cleaner[u].pc = from
             /\ cleaner' = [cleaner EXCEPT ![u].pc = MarkAfter[from], ![u].at = o]
      BY <2>1 DEF DeleteBytes, CleanerStep
    <3>2. cleaner'[u].pc = MarkAfter[from] /\ (w # u => cleaner'[w] = cleaner[w])
      BY <1>r, <3>1 DEF Visits
    <3> QED
      BY <1>r, <3>1, <3>2 DEF MarkAfter
  <2>2. CASE MarkDeleted(u)
    <3>1. PICK from \in DOMAIN MarkAfter : \E next \in {from, "require", "idle"} :
             /\ cleaner[u].pc = MarkAfter[from]
             /\ next = "require" => from = "delete"
             /\ cleaner' = [cleaner EXCEPT ![u] =
                  IF next = "idle" THEN Resting
                  ELSE [@ EXCEPT !.pc = next, !.todo = cleaner[u].todo \ {cleaner[u].at}, !.at = "none"]]
      BY <2>2 DEF MarkDeleted, CleanerStep, MarkAfter
    <3>2. /\ cleaner[u].pc = MarkAfter[from] /\ (w # u => cleaner'[w] = cleaner[w])
          /\ cleaner'[u].pc \in {from, "idle"} \/ (from = "delete" /\ cleaner'[u].pc = "require")
      BY <1>r, <1>t, <3>1 DEF Visits
    <3> QED
      BY <1>r, <3>1, <3>2 DEF MarkAfter
  <2> QED
    BY <1>3, <2>1, <2>2
<1>4. ASSUME NEW u \in Cleaners,
             RequireRevocation(u) \/ RevokeToken(u) \/ CompleteCleanup(u)
      PROVE  /\ cleaner'[w].pc \in AtCleaning => cleaner[w].pc \in AtCleaning \/ row'.requested
             /\ cleaner'[w].pc \in AtSweep => clock = Overdue
    BY <1>4, <1>r, <1>s, <1>t DEF RequireRevocation, RevokeToken, CompleteCleanup,
       CleanerStep,
       Visits
<1>5. ASSUME NEW u \in Cleaners, CleanerFault(u)
      PROVE  /\ cleaner'[w].pc \in AtCleaning => cleaner[w].pc \in AtCleaning \/ row'.requested
             /\ cleaner'[w].pc \in AtSweep => clock = Overdue
    BY <1>5, <1>r, <1>s, <1>t DEF CleanerFault, Visits
<1>6. UNCHANGED cleaner \/ \E u \in Cleaners : Cleaning(u) \/ CleanerFault(u)
    BY DEF Next, vars, Preparation, Reserve, InsertObjects, Put, RecordUpload,
       CheckPreparation,
           Wrap, SaveAccessor, FinishPreparation, FailPreparation, PrepFault, PrepStep,
           Consumption, ClaimCredential, ReadMaterial, CheckAuthority, MarkUnwrapping, Unwrap,
           Operate, Consume, RecordUncertainty, ConsumerFault, ConsumerStep,
           Surroundings, RevokeCustody, PollStatus, AuthorityFlips, SessionEnds, Tick,
           LeaseRuns, CleanupLeaseLapses, World
<1> QED
    BY <1>1, <1>2, <1>3, <1>4, <1>5, <1>6 DEF Cleaning

\* Every step keeps cleaning after the end.
LEMMA LateStep == TypeOK /\ CleaningIsLate /\ [Next]_vars => CleaningIsLate'
<1> SUFFICES ASSUME TypeOK, CleaningIsLate, [Next]_vars PROVE CleaningIsLate'
    OBVIOUS
<1>1. Moves /\ TypeOK'
    BY MovesStep, TypeStep
<1>2. row'.requested \/ row'.cleaned => row'.status \in Ended
    BY <1>1 DEF Moves, CleaningIsLate
<1>3. \A w \in Cleaners : cleaner'[w].pc \in AtCleaning => row'.status \in Ended
    BY <1>1, <1>2, CleanerMoves DEF Moves, CleaningIsLate
<1>4. clock = Overdue => clock' = Overdue
    BY <1>1 DEF TypeOK, Moves
<1>5. \A w \in Cleaners : cleaner'[w].pc \in AtSweep => clock' = Overdue
    BY <1>4, CleanerMoves
<1> QED
    BY <1>2, <1>3, <1>5 DEF CleaningIsLate

-----------------------------------------------------------------------------
(* One consumer passes.                                                        *)

\* Nobody but a consumer moves a consumer, sends an unwrap request or starts an
\* operation, and nobody else says consumed.
LEMMA ConsumersAlone ==
    ASSUME TypeOK, CleaningIsLate, [Next]_vars
    PROVE  \/ UNCHANGED <<consumer, calls, uses>> /\ (row'.status = "consumed" => row.status = "consumed")
           \/ \E c \in Consumers : Consumption(c)
<1>r. row \in Rows
    BY DEF TypeOK, Rows
<1>1. CASE Preparation
    BY <1>1, <1>r DEF Preparation, Reserve, InsertObjects, Put, RecordUpload,
       CheckPreparation,
           Wrap, SaveAccessor, FinishPreparation, FailPreparation, PrepFault, PrepStep,
           Absent, Terminal, Rows
<1>2. ASSUME NEW w \in Cleaners, Reconcile(w)
      PROVE  UNCHANGED <<consumer, calls, uses>> /\ (row'.status = "consumed" => row.status = "consumed")
  <2>1. Settled.status = "consumed" => row.status = "consumed"
    BY <1>r DEF Settled, Terminal, Rows
  <2>2. row' = Settled \/ row' = [Settled EXCEPT !.cleaner = w, !.cleanLease = "held"]
    BY <1>2 DEF Reconcile
  <2>3. row'.status = Settled.status
    BY <2>2, RowTypes DEF Rows
  <2> QED
    BY <1>2, <2>1, <2>3 DEF Reconcile
<1>3. ASSUME NEW w \in Cleaners, ~Reconcile(w), Cleaning(w) \/ CleanerFault(w)
      PROVE  UNCHANGED <<consumer, calls, uses>> /\ (row'.status = "consumed" => row.status = "consumed")
    BY <1>3, <1>r DEF Cleaning, DeleteBytes, MarkDeleted, RequireRevocation,
       RevokeToken,
           CompleteCleanup, CleanerFault, CleanerStep, Absent, Rows
<1>4. CASE Surroundings
    BY <1>4, <1>r DEF Surroundings, RevokeCustody, PollStatus, AuthorityFlips,
       SessionEnds, Tick,
           LeaseRuns, CleanupLeaseLapses, World, Terminal, Rows
<1>5. CASE UNCHANGED vars
    BY <1>5 DEF vars
<1> QED
    BY <1>1, <1>2, <1>3, <1>4, <1>5 DEF Next

\* Every step keeps the mark to one consumer.
LEMMA OneStep == TypeOK /\ CleaningIsLate /\ OnePasses /\ [Next]_vars => OnePasses'
<1> SUFFICES ASSUME TypeOK, CleaningIsLate, OnePasses, [Next]_vars PROVE OnePasses'
    OBVIOUS
<1>m. Moves
    BY MovesStep
<1>r. row \in Rows /\ consumer \in [Consumers -> {"idle", "read", "check", "mark", "unwrap", "verify",
                                   "operate", "confirm", "consume", "uncertain"}]
    BY DEF TypeOK, Rows
<1> USE DEF OnePasses, CredentialUsedOnce, Past
<1>0. CASE UNCHANGED <<consumer, calls, uses>> /\ (row'.status = "consumed" => row.status = "consumed")
    BY <1>0, <1>m DEF Moves
<1>1. ASSUME NEW c \in Consumers, ClaimCredential(c) PROVE OnePasses'
    BY <1>1, <1>m, <1>r DEF Moves, ClaimCredential, Rows
<1>2. ASSUME NEW c \in Consumers, ReadMaterial(c) PROVE OnePasses'
    BY <1>2, <1>m, <1>r DEF Moves, ReadMaterial, ConsumerStep, Caught
<1>3. ASSUME NEW c \in Consumers, CheckAuthority(c) PROVE OnePasses'
    BY <1>3, <1>m, <1>r DEF Moves, CheckAuthority, ConsumerStep, Caught, AfterCheck
<1>4. ASSUME NEW c \in Consumers, MarkUnwrapping(c) PROVE OnePasses'
    BY <1>4, <1>m, <1>r DEF Moves, MarkUnwrapping, Holds, ConsumerStep, Caught, Rows
<1>5. ASSUME NEW c \in Consumers, Unwrap(c) PROVE OnePasses'
    BY <1>5, <1>m, <1>r DEF Moves, Unwrap, ConsumerStep, Caught
<1>6. ASSUME NEW c \in Consumers, Operate(c) PROVE OnePasses'
    BY <1>6, <1>m, <1>r DEF Moves, Operate, ConsumerStep, Caught
<1>7. ASSUME NEW c \in Consumers, Consume(c) PROVE OnePasses'
    BY <1>7, <1>m, <1>r DEF Moves, Consume, Terminal, ConsumerStep, Caught, Rows
<1>8. ASSUME NEW c \in Consumers, RecordUncertainty(c) PROVE OnePasses'
    BY <1>8, <1>m, <1>r DEF Moves, RecordUncertainty, Terminal, ConsumerStep, Caught,
       Rows
<1>9. ASSUME NEW c \in Consumers, ConsumerFault(c) PROVE OnePasses'
    BY <1>9, <1>m, <1>r DEF Moves, ConsumerFault, Caught
<1> QED
    BY <1>0, <1>1, <1>2, <1>3, <1>4, <1>5, <1>6, <1>7, <1>8, <1>9, ConsumersAlone DEF
       Consumption

-----------------------------------------------------------------------------
(* What is stored stays until the end.                                         *)

\* Bytes go only at a cleaning or at the sweep, and a running token only by a
\* cleaning or by the one consumer that passed.
LEMMA Kept ==
    ASSUME TypeOK, CleaningIsLate, OnePasses, [Next]_vars
    PROVE  /\ row.status \notin Ended /\ clock < Overdue => bytes \subseteq bytes'
           /\ row.status \in Unmarked /\ wrap = "live" => wrap' = "live"
<1>1. ASSUME NEW w \in Cleaners, DeleteBytes(w)
      PROVE  row.status \in Ended \/ clock = Overdue
    BY <1>1 DEF DeleteBytes, CleanerStep, MarkAfter, CleaningIsLate, AtCleaning, AtSweep
<1>2. ASSUME NEW w \in Cleaners, RevokeToken(w) PROVE row.status \in Ended
    BY <1>2 DEF RevokeToken, CleanerStep, CleaningIsLate, AtCleaning
<1>3. ASSUME NEW c \in Consumers, Unwrap(c) PROVE row.status \notin Unmarked
    BY <1>3 DEF Unwrap, ConsumerStep, OnePasses, Past
<1>4. ASSUME ~(\E w \in Cleaners : DeleteBytes(w)) PROVE bytes \subseteq bytes'
  <2>1. ASSUME NEW o \in Objects, Put(o) PROVE bytes \subseteq bytes'
    BY <2>1 DEF Put
  <2> QED
    BY <1>4, <2>1 DEF Next, vars, Preparation, Reserve, InsertObjects, RecordUpload,
       CheckPreparation,
           Wrap, SaveAccessor, FinishPreparation, FailPreparation, PrepFault, PrepStep,
           Consumption, ClaimCredential, ReadMaterial, CheckAuthority, MarkUnwrapping, Unwrap,
           Operate, Consume, RecordUncertainty, ConsumerFault, ConsumerStep,
           Cleaning, Reconcile, MarkDeleted, RequireRevocation, RevokeToken, CompleteCleanup,
           CleanerFault, CleanerStep, material,
           Surroundings, RevokeCustody, PollStatus, AuthorityFlips, SessionEnds, Tick,
           LeaseRuns, CleanupLeaseLapses, World
<1>5. ASSUME ~(\E w \in Cleaners : RevokeToken(w)), ~(\E c \in Consumers : Unwrap(c)), wrap = "live"
      PROVE  wrap' = "live"
    BY <1>5 DEF Next, vars, Preparation, Reserve, InsertObjects, Put, RecordUpload,
       CheckPreparation,
           Wrap, SaveAccessor, FinishPreparation, FailPreparation, PrepFault, PrepStep,
           Consumption, ClaimCredential, ReadMaterial, CheckAuthority, MarkUnwrapping,
           Operate, Consume, RecordUncertainty, ConsumerFault, ConsumerStep,
           Cleaning, Reconcile, DeleteBytes, MarkDeleted, RequireRevocation, CompleteCleanup,
           CleanerFault, CleanerStep, material,
           Surroundings, RevokeCustody, PollStatus, AuthorityFlips, SessionEnds, Tick,
           LeaseRuns, CleanupLeaseLapses, World
<1> QED
    BY <1>1, <1>2, <1>3, <1>4, <1>5

\* What the preparing request has stored is there at each of its steps.
InPlace ==
    row.status = "preparing" /\ clock < Overdue =>
        /\ prep \in {"record_certificate", "put_key"} => "certificate" \in bytes
        /\ prep \in {"record_key", "check", "wrap", "save", "finish"} => bytes = Objects
TokenRuns ==
    row.status = "preparing" /\ clock = Wrapped /\ prep \in {"save", "finish"} => wrap = "live"

\* Where the request goes from, for the places the two depend on.
LEMMA PrepMoves ==
    ASSUME TypeOK, [Next]_vars
    PROVE  /\ UNCHANGED prep \/ Preparation
           /\ prep' \in {"record_certificate", "put_key"} =>
                prep \in {"record_certificate", "put_key"} \/ "certificate" \in bytes'
           /\ prep' = "record_key" => prep = "record_key"
                \/ (prep = "put_key" /\ bytes' = bytes \cup {"key"})
           /\ prep' \in {"check", "wrap", "save", "finish"} =>
                prep \in {"record_key", "check", "wrap", "save", "finish"}
           /\ prep' \in {"save", "finish"} => prep \in {"save", "finish"}
                    \/ (clock = Wrapped => wrap' = "live")
<1>1. UNCHANGED prep \/ Preparation
    BY DEF Next, vars, Consumption, ClaimCredential, ReadMaterial, CheckAuthority,
       MarkUnwrapping,
           Unwrap, Operate, Consume, RecordUncertainty, ConsumerFault, ConsumerStep,
           Cleaning, Reconcile, DeleteBytes, MarkDeleted, RequireRevocation, RevokeToken,
           CompleteCleanup, CleanerFault, CleanerStep,
           Surroundings, RevokeCustody, PollStatus, AuthorityFlips, SessionEnds, Tick,
           LeaseRuns, CleanupLeaseLapses, World
<1>2. CASE Preparation
  <2>1. ASSUME NEW o \in Objects, Put(o) \/ RecordUpload(o)
        PROVE  /\ prep' \in {"record_certificate", "put_key"} =>
                    prep \in {"record_certificate", "put_key"} \/ "certificate" \in bytes'
               /\ prep' = "record_key" => prep = "put_key" /\ bytes' = bytes \cup {"key"}
               /\ prep' \in {"check", "wrap", "save", "finish"} => prep = "record_key"
               /\ prep' \notin {"save", "finish"}
    BY <2>1 DEF Put, RecordUpload, PrepStep, PutAt, RecordAt
  <2>2. ASSUME ~(\E o \in Objects : Put(o) \/ RecordUpload(o))
        PROVE  /\ prep' \notin {"record_certificate", "put_key", "record_key"}
               /\ prep' \in {"check", "wrap", "save", "finish"} =>
                    prep \in {"record_key", "check", "wrap", "save", "finish"}
               /\ prep' \in {"save", "finish"} =>
                    prep \in {"save", "finish"} \/ (clock = Wrapped => wrap' = "live")
    BY <1>2, <2>2 DEF Preparation, Reserve, InsertObjects, CheckPreparation, Wrap,
       SaveAccessor,
           FinishPreparation, FailPreparation, PrepFault, PrepStep
  <2> QED
    BY <1>1, <2>1, <2>2
<1> QED
    BY <1>1, <1>2

\* Every step keeps what the request has stored, until the custody ends.
LEMMA PreparedStep ==
    TypeOK /\ CleaningIsLate /\ OnePasses /\ Prepared /\ [Next]_vars => Prepared'
<1> SUFFICES ASSUME TypeOK, CleaningIsLate, OnePasses, Prepared, [Next]_vars PROVE Prepared'
    OBVIOUS
<1>m. Moves /\ TypeOK'
    BY MovesStep, TypeStep
<1>t. clock \in 0 .. 3 /\ clock' \in 0 .. 3 /\ bytes' \subseteq Objects
    BY <1>m DEF TypeOK
<1>r. /\ Reserve => prep' = "insert"
      /\ FinishPreparation /\ PrepOwns => row.status = "preparing" /\ prep = "finish"
    BY DEF Reserve, FinishPreparation, PrepStep, PrepOwns
<1>1. row'.status \in Usable => prep' = "done"
  <2>1. CASE row.status \in Usable
    BY <1>m, <2>1 DEF Moves, Prepared
  <2>2. CASE FinishPreparation /\ PrepOwns
    <3>1. row' = row \/ prep' = "done"
      BY <2>2 DEF FinishPreparation, PrepStep
    <3>2. row.status \notin Usable
      BY <1>r, <2>2
    <3> QED
      BY <3>1, <3>2
  <2> QED
    BY <1>m, <2>1, <2>2 DEF Moves
<1>2. InPlace'
  <2> SUFFICES ASSUME row'.status = "preparing", clock' < Overdue,
                      prep' \in {"record_certificate", "put_key", "record_key",
                                 "check", "wrap", "save", "finish"}
               PROVE  /\ prep' \in {"record_certificate", "put_key"} => "certificate" \in bytes'
                      /\ prep' \in {"record_key", "check", "wrap", "save", "finish"} => bytes' = Objects
    BY DEF InPlace
  <2>1. row.status = "preparing" /\ clock < Overdue
    BY <1>m, <1>r, <1>t DEF Moves
  <2>2. bytes \subseteq bytes'
    BY <2>1, Kept
  <2> QED
    BY <1>t, <2>1, <2>2, PrepMoves DEF Prepared
<1>3. TokenRuns'
  <2> SUFFICES ASSUME row'.status = "preparing", clock' = Wrapped, prep' \in {"save", "finish"}
               PROVE  wrap' = "live"
    BY DEF TokenRuns
  <2>1. row.status = "preparing" /\ clock = Wrapped
    BY <1>m, <1>r, <1>t DEF Moves
  <2> QED
    BY <2>1, Kept, PrepMoves DEF Prepared
<1>4. row'.status \in Usable /\ clock' < Overdue => bytes' = Objects
  <2> SUFFICES ASSUME row'.status \in Usable, clock' < Overdue PROVE bytes' = Objects
    OBVIOUS
  <2>1. clock < Overdue
    BY <1>m, <1>t DEF Moves
  <2>2. bytes = Objects /\ row.status \notin Ended
    BY <1>m, <1>r, <2>1 DEF Moves, Prepared, LiveMaterialKept
  <2> QED
    BY <1>t, <2>1, <2>2, Kept
<1>5. row'.status \in {"ready", "claimed"} /\ clock' = Wrapped => wrap' = "live"
  <2> SUFFICES ASSUME row'.status \in {"ready", "claimed"}, clock' = Wrapped PROVE wrap' = "live"
    OBVIOUS
  <2>1. clock = Wrapped
    BY <1>m, <1>t DEF Moves
  <2>2. wrap = "live" /\ row.status \in Unmarked
    BY <1>m, <1>r, <2>1 DEF Moves, Prepared, LiveMaterialKept
  <2> QED
    BY <2>2, Kept
<1>6. row'.status = "none" => prep' = "idle"
  <2> SUFFICES ASSUME row'.status = "none" PROVE prep' = "idle"
    OBVIOUS
  <2>1. row.status = "none" /\ prep = "idle"
    BY <1>m DEF Moves, Prepared
  <2>2. ASSUME Preparation PROVE FALSE
    <3>1. CASE Reserve
      BY <3>1 DEF Reserve, Absent
    <3>2. ASSUME NEW o \in Objects, Put(o) \/ RecordUpload(o) PROVE FALSE
      BY <2>1, <3>2 DEF Put, RecordUpload, PrepStep, PutAt, RecordAt
    <3> QED
      BY <2>1, <2>2, <3>1, <3>2 DEF Preparation, InsertObjects, CheckPreparation, Wrap,
         SaveAccessor,
           FinishPreparation, FailPreparation, PrepFault, PrepStep
  <2> QED
    BY <2>1, <2>2, PrepMoves
<1> QED
    BY <1>1, <1>2, <1>3, <1>4, <1>5, <1>6 DEF Prepared, InPlace, TokenRuns,
       LiveMaterialKept

-----------------------------------------------------------------------------
(* No token is left to a late consumer.                                        *)

\* A consumer comes to the unwrap request only by its mark.
LEMMA Marks ==
    ASSUME TypeOK, CleaningIsLate, [Next]_vars, NEW c \in Consumers, consumer'[c] = "unwrap"
    PROVE  consumer[c] = "unwrap" \/ (MarkUnwrapping(c) /\ row.status = "claimed")
<1>r. consumer \in [Consumers -> {"idle", "read", "check", "mark", "unwrap", "verify",
                                   "operate", "confirm", "consume", "uncertain"}]
    BY DEF TypeOK
<1>1. CASE UNCHANGED consumer
    BY <1>1
<1>2. ASSUME NEW d \in Consumers, Consumption(d)
      PROVE consumer[c] = "unwrap" \/ (MarkUnwrapping(c) /\ row.status = "claimed")
  <2>1. CASE c # d
    BY <1>2, <1>r, <2>1 DEF Consumption, ClaimCredential, ReadMaterial, CheckAuthority,
           MarkUnwrapping, Unwrap, Operate, Consume, RecordUncertainty, ConsumerFault, ConsumerStep
  <2>2. CASE c = d /\ ~MarkUnwrapping(c)
    BY <1>2, <1>r, <2>2 DEF Consumption, ClaimCredential, ReadMaterial, CheckAuthority,
       AfterCheck,
           Unwrap, Operate, Consume, RecordUncertainty, ConsumerFault, ConsumerStep, Caught
  <2>3. CASE c = d /\ MarkUnwrapping(c)
    BY <1>r, <2>3 DEF MarkUnwrapping, ConsumerStep, Caught, Holds
  <2> QED
    BY <2>1, <2>2, <2>3
<1> QED
    BY <1>1, <1>2, ConsumersAlone

\* A cleaner comes to the end only past the revocation that is due.
LEMMA Completes ==
    ASSUME TypeOK, [Next]_vars, NEW w \in Cleaners, cleaner'[w].pc = "complete"
    PROVE  \/ cleaner[w].pc = "complete"
           \/ ~MustRevoke /\ UNCHANGED <<row, wrap, clock>>
           \/ wrap' = "revoked"
<1>r. cleaner \in [Cleaners -> Visits]
    BY DEF TypeOK, Visits
<1>t. Resting.pc = "idle" /\ ToSweep.pc \in {"idle", "sweep"}
    BY DEF ToSweep, Resting
<1> DEFINE Goal == \/ cleaner[w].pc = "complete"
                   \/ ~MustRevoke /\ UNCHANGED <<row, wrap, clock>>
                   \/ wrap' = "revoked"
<1>1. CASE UNCHANGED cleaner
    BY <1>1
<1>2. ASSUME NEW u \in Cleaners, Reconcile(u) PROVE Goal
    BY <1>2, <1>r, <1>t DEF Reconcile
<1>3. ASSUME NEW u \in Cleaners, DeleteBytes(u) PROVE Goal
    BY <1>3, <1>r, <1>t DEF DeleteBytes, MarkAfter, Visits
<1>4. ASSUME NEW u \in Cleaners, MarkDeleted(u) PROVE Goal
  <2>1. PICK next \in {"delete", "sweep", "require", "idle"} :
           cleaner' = [cleaner EXCEPT ![u] =
               IF next = "idle" THEN Resting
               ELSE [@ EXCEPT !.pc = next, !.todo = cleaner[u].todo \ {cleaner[u].at}, !.at = "none"]]
    BY <1>4 DEF MarkDeleted, MarkAfter
  <2> QED
    BY <1>r, <1>t, <2>1 DEF Visits
<1>5. ASSUME NEW u \in Cleaners, RequireRevocation(u) PROVE Goal
    BY <1>5, <1>r, <1>t DEF RequireRevocation, CleanerStep, material, world, Visits
<1>6. ASSUME NEW u \in Cleaners, RevokeToken(u) PROVE Goal
    BY <1>6, <1>r, <1>t DEF RevokeToken, Visits
<1>7. ASSUME NEW u \in Cleaners, CompleteCleanup(u) PROVE Goal
    BY <1>7, <1>r, <1>t DEF CompleteCleanup, Visits
<1>8. ASSUME NEW u \in Cleaners, CleanerFault(u) PROVE Goal
  <2> DEFINE left == [cleaner[u] EXCEPT !.todo = @ \ {cleaner[u].at}]
  <2>1. [left EXCEPT !.pc = "sweep", !.at = "none"].pc = "sweep"
    BY <1>r DEF Visits
  <2>2. \E v \in {Resting, ToSweep, [left EXCEPT !.pc = "sweep", !.at = "none"]} :
           cleaner' = [cleaner EXCEPT ![u] = v]
    BY <1>8 DEF CleanerFault
  <2> QED
    BY <1>r, <1>t, <2>1, <2>2
<1> QED
    BY <1>1, <1>2, <1>3, <1>4, <1>5, <1>6, <1>7, <1>8 DEF Next, vars, Cleaning,
           Preparation, Reserve, InsertObjects, Put, RecordUpload, CheckPreparation,
           Wrap, SaveAccessor, FinishPreparation, FailPreparation, PrepFault, PrepStep,
           Consumption, ClaimCredential, ReadMaterial, CheckAuthority, MarkUnwrapping, Unwrap,
           Operate, Consume, RecordUncertainty, ConsumerFault, ConsumerStep,
           Surroundings, RevokeCustody, PollStatus, AuthorityFlips, SessionEnds, Tick,
           LeaseRuns, CleanupLeaseLapses, World

\* A row becomes cleaned only by a cleaner at the end of its cleaning, and a token runs
\* anew only by the preparing request.
LEMMA Cleans ==
    ASSUME TypeOK, [Next]_vars
    PROVE  /\ row'.cleaned /\ ~row.cleaned =>
                UNCHANGED wrap /\ \E w \in Cleaners : cleaner[w].pc = "complete"
           /\ wrap' = "live" => wrap = "live" \/ prep = "wrap"
<1>r. row \in Rows
    BY DEF TypeOK, Rows
<1>1. ASSUME NEW w \in Cleaners, CompleteCleanup(w)
      PROVE UNCHANGED wrap /\ cleaner[w].pc = "complete"
    BY <1>1 DEF CompleteCleanup, CleanerStep, material
<1>2. ASSUME NEW w \in Cleaners, Reconcile(w) PROVE row'.cleaned = row.cleaned /\ UNCHANGED wrap
  <2>1. row' = Settled \/ row' = [Settled EXCEPT !.cleaner = w, !.cleanLease = "held"]
    BY <1>2 DEF Reconcile
  <2>2. row'.cleaned = Settled.cleaned
    BY <2>1, RowTypes DEF Rows
  <2> QED
    BY <1>2, <2>2, SettledMoves DEF Reconcile, material
<1>3. ASSUME ~(\E w \in Cleaners : CompleteCleanup(w) \/ Reconcile(w))
      PROVE  /\ row'.cleaned => row.cleaned
             /\ wrap' = "live" => wrap = "live" \/ prep = "wrap"
  <2>1. CASE Preparation
    BY <1>r, <2>1 DEF Preparation, Reserve, InsertObjects, Put, RecordUpload,
       CheckPreparation,
           Wrap, SaveAccessor, FinishPreparation, FailPreparation, PrepFault, PrepStep,
           Absent, Terminal, material, Rows
  <2>2. ASSUME NEW c \in Consumers, Consumption(c)
        PROVE  (row'.cleaned => row.cleaned) /\ (wrap' = "live" => wrap = "live")
    BY <1>r, <2>2 DEF Consumption, ClaimCredential, ReadMaterial, CheckAuthority,
       MarkUnwrapping,
           Unwrap, Operate, Consume, RecordUncertainty, ConsumerFault, ConsumerStep,
           Terminal, material, Rows
  <2>3. ASSUME NEW w \in Cleaners, Cleaning(w) \/ CleanerFault(w)
        PROVE  (row'.cleaned => row.cleaned) /\ (wrap' = "live" => wrap = "live")
    BY <1>3, <2>3 DEF Cleaning, DeleteBytes, MarkDeleted, RequireRevocation,
       RevokeToken,
           CleanerFault, CleanerStep, material
  <2>4. CASE Surroundings \/ UNCHANGED vars
    BY <1>r, <2>4 DEF Surroundings, RevokeCustody, PollStatus, AuthorityFlips,
       SessionEnds, Tick,
           LeaseRuns, CleanupLeaseLapses, World, Terminal, material, vars, Rows
  <2> QED
    BY <2>1, <2>2, <2>3, <2>4 DEF Next
<1> QED
    BY <1>1, <1>2, <1>3

\* Every step keeps the reference ahead of its use, and the end of a cleaning free of
\* tokens a consumer could still unwrap.
LEMMA ReferencedStep == IInv /\ [Next]_vars => Referenced'
<1> SUFFICES ASSUME IInv, [Next]_vars PROVE Referenced'
    OBVIOUS
<1>i. TypeOK /\ CleaningIsLate /\ OnePasses /\ Prepared /\ Referenced
    BY DEF IInv
<1>m. Moves /\ TypeOK'
    BY <1>i, MovesStep, TypeStep
<1>t. clock \in 0 .. 3 /\ clock' \in 0 .. 3 /\ row \in Rows
    BY <1>i, <1>m DEF TypeOK, Rows
<1>1. ASSUME row.accessor \/ row.cleaned, row.status # "none" PROVE row'.accessor \/ row'.cleaned
    BY <1>m, <1>1 DEF Moves
<1>2. row'.status \in Usable => row'.accessor \/ row'.cleaned
  <2>1. CASE row.status \in Usable
    BY <1>i, <1>1, <2>1 DEF Referenced
  <2>2. CASE FinishPreparation /\ PrepOwns
    BY <1>i, <1>1, <2>2 DEF Referenced, FinishPreparation, PrepStep, PrepOwns
  <2> QED
    BY <1>m, <2>1, <2>2 DEF Moves
<1>3. prep' = "finish" => row'.accessor \/ row'.cleaned
  <2>1. CASE prep = "finish"
    BY <1>i, <1>1, <2>1 DEF Referenced, Prepared
  <2>2. CASE SaveAccessor
    BY <1>t, <2>2 DEF SaveAccessor, Rows
  <2>3. ASSUME prep' = "finish", prep # "finish" PROVE SaveAccessor
    <3>1. Preparation
      BY <1>i, <2>3, PrepMoves
    <3> QED
      BY <2>3, <3>1 DEF Preparation, Reserve, InsertObjects, Put, RecordUpload,
         CheckPreparation,
           Wrap, FinishPreparation, FailPreparation, PrepFault, PrepStep, PutAt, RecordAt
  <2> QED
    BY <2>1, <2>2, <2>3
<1>4. ASSUME NEW c \in Consumers, consumer'[c] = "unwrap"
      PROVE  /\ row.status # "none" /\ row.status # "consumed" /\ prep = "done"
             /\ row.accessor \/ row.cleaned
             /\ consumer[c] = "unwrap" \/ (MarkUnwrapping(c) /\ row.status = "claimed")
  <2>1. CASE consumer[c] = "unwrap"
    BY <1>i, <2>1 DEF Referenced, OnePasses, CredentialUsedOnce, Past
  <2>2. CASE MarkUnwrapping(c) /\ row.status = "claimed"
    BY <1>i, <2>2 DEF Referenced, Prepared
  <2> QED
    BY <1>i, <1>4, <2>1, <2>2, Marks
<1>5. ASSUME NEW c \in Consumers, consumer'[c] = "unwrap", clock' = Wrapped
      PROVE  /\ row'.cleaned => wrap' # "live"
             /\ \A w \in Cleaners : cleaner'[w].pc = "complete" => wrap' # "live"
  <2>0. clock = Wrapped
    BY <1>m, <1>t, <1>5 DEF Moves
  <2>1. wrap' = "live" => wrap = "live"
    BY <1>i, <1>4, <1>5, Cleans
  <2>2. CASE consumer[c] = "unwrap"
    <3>1. /\ row.cleaned => wrap # "live"
          /\ \A w \in Cleaners : cleaner[w].pc = "complete" => wrap # "live"
      BY <1>i, <2>0, <2>2 DEF Referenced
    <3>2. row'.cleaned => wrap' # "live"
      BY <1>i, <2>1, <3>1, Cleans
    <3>3. ASSUME NEW w \in Cleaners, cleaner'[w].pc = "complete" PROVE wrap' # "live"
      <4>1. ~MustRevoke => row.cleaned
        BY <1>4, <1>5, <2>0 DEF MustRevoke
      <4> QED
        BY <1>i, <2>1, <3>1, <3>3, <4>1, Completes
    <3> QED
      BY <3>2, <3>3
  <2>3. CASE MarkUnwrapping(c) /\ row.status = "claimed"
    <3>1. ~row.cleaned /\ \A w \in Cleaners : cleaner[w].pc # "complete"
      BY <1>i, <2>3 DEF CleaningIsLate, AtCleaning
    <3>2. row'.cleaned = row.cleaned /\ cleaner' = cleaner
      BY <1>t, <2>3 DEF MarkUnwrapping, ConsumerStep, Rows
    <3> QED
      BY <3>1, <3>2
  <2> QED
    BY <1>4, <1>5, <2>2, <2>3
<1> QED
  <2>1. \A c \in Consumers : consumer'[c] = "unwrap" => prep' = "done" /\ (row'.accessor \/ row'.cleaned)
    BY <1>1, <1>4, <1>m DEF Moves
  <2> QED
    BY <1>2, <1>3, <1>5, <2>1 DEF Referenced

-----------------------------------------------------------------------------
(* The theorems.                                                               *)

\* An initial state satisfies the inductive invariant.
LEMMA Start == Init => IInv
<1> SUFFICES ASSUME Init PROVE IInv
    OBVIOUS
<1>1. TypeOK
    BY DEF Init, TypeOK, Absent, Resting
<1>2. CleaningIsLate
    BY DEF Init, CleaningIsLate, Absent, Resting, AtCleaning, AtSweep
<1>3. OnePasses
    BY DEF Init, OnePasses, CredentialUsedOnce, Absent, Past
<1>4. Prepared /\ Referenced
    BY DEF Init, Prepared, Referenced, LiveMaterialKept, Absent
<1> QED
    BY <1>1, <1>2, <1>3, <1>4 DEF IInv

\* The inductive invariant of a custody: its type, that cleaning comes after the end,
\* that one consumer passes the mark, that what was stored stays, and that the reference
\* to the token precedes its use.
THEOREM Invariance == Spec => []IInv
<1>1. IInv /\ [Next]_vars => IInv'
    BY TypeStep, LateStep, OneStep, PreparedStep, ReferencedStep DEF IInv
<1> QED
    BY <1>1, Start, PTL DEF Spec

\* Every reachable state of a custody is well typed, for any workers and faults.
THEOREM Typing == Spec => []TypeOK
<1>1. IInv => TypeOK
    BY DEF IInv
<1> QED
    BY <1>1, Invariance, PTL

\* Vault is asked for the data key at most once and the private key serves at most one
\* operation, however many workers claim the custody again and whatever fails.
THEOREM UsedOnce == Spec => []CredentialUsedOnce
<1>1. IInv => CredentialUsedOnce
    BY DEF IInv, OnePasses
<1> QED
    BY <1>1, Invariance, PTL

\* A custody that can still be claimed has its bytes, and its token while that runs.
THEOREM MaterialKept == Spec => []LiveMaterialKept
<1>1. IInv => LiveMaterialKept
    BY DEF IInv, Prepared
<1> QED
    BY <1>1, Invariance, PTL

\* No unwrapping succeeds once the cleanup is complete.
THEOREM CleanupIsFinal == Spec => NoUnwrapAfterCleanup
<1>1. IInv /\ [Next]_vars => [wrap = "live" /\ wrap' = "used" => ~row.cleaned]_vars
  <2> SUFFICES ASSUME IInv, [Next]_vars, wrap = "live", wrap' = "used" PROVE ~row.cleaned
    OBVIOUS
  <2>1. PICK c \in Consumers : Unwrap(c)
    BY DEF Next, vars, Preparation, Reserve, InsertObjects, Put, RecordUpload,
       CheckPreparation,
           Wrap, SaveAccessor, FinishPreparation, FailPreparation, PrepFault, PrepStep,
           Consumption, ClaimCredential, ReadMaterial, CheckAuthority, MarkUnwrapping,
           Operate, Consume, RecordUncertainty, ConsumerFault, ConsumerStep,
           Cleaning, Reconcile, DeleteBytes, MarkDeleted, RequireRevocation, RevokeToken,
           CompleteCleanup, CleanerFault, CleanerStep, material,
           Surroundings, RevokeCustody, PollStatus, AuthorityFlips, SessionEnds, Tick,
           LeaseRuns, CleanupLeaseLapses, World
  <2>2. consumer[c] = "unwrap" /\ clock = Wrapped
    BY <2>1 DEF Unwrap, ConsumerStep
  <2> QED
    BY <2>1, <2>2 DEF IInv, Referenced
<1> QED
    BY <1>1, Invariance, PTL DEF Spec, NoUnwrapAfterCleanup

=============================================================================
