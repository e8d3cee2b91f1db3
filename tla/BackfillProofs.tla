---------------------------- MODULE BackfillProofs ----------------------------
(***************************************************************************)
(* Proofs about the backfill command (BackfillRun), for any matches, any   *)
(* slates, any window and any number of reruns, failures, crashes and      *)
(* daemon polls.                                                           *)
(*                                                                         *)
(* The argument: of a match the daemon leaves alone, only the command      *)
(* writes, in the order row, side tables, events.  So the first event row  *)
(* is evidence for the two other parts (Evidence), also when the run that  *)
(* wrote it is gone, and "has events" may stand for "complete".            *)
(***************************************************************************)
EXTENDS BackfillRun, FiniteSetTheorems, TLAPS

-----------------------------------------------------------------------------
(* The inductive invariant.                                                *)

\* No snapshot of the daemon has more events than the match.
EventsBounded == daemon.match # None => daemon.snap.events <= Total[daemon.match]

\* Of an untouched match, events are evidence of everything else, and a part is
\* final or missing.
Evidence ==
    \A m \in Matches \ touched :
        /\ stored[m].row # "live" /\ stored[m].sides # "live"
        /\ stored[m].events > 0 => Complete(m)

\* How far the apply in progress has come.
ApplyOrder ==
    (run.pc = "apply" /\ run.match \notin touched) =>
        /\ run.part > 1 => stored[run.match].row = "final"
        /\ run.part > 2 => stored[run.match].sides = "final"

\* What the skip check has passed over, and what it has read.
SkippedStored ==
    \A m \in run.skipped : Complete(m) \/ m \in touched

\* Every occurrence of a match in the window is still ahead, has been examined,
\* or was in a chunk that failed.
Enumerating ==
    \A m \in run.overAtStart, d \in ChunkDays :
        m \in Slate[d] => \/ d \in run.days \cup run.failedChunks
                          \/ m \in run.queue \cup run.enumerated

\* Matches are waiting only while a chunk is gone through, days until the end.
QueueInMatch == /\ run.pc \in {"idle", "chunk", "done"} => run.queue = {}
                /\ run.pc = "done" => run.days = {}

Tally ==
    /\ QueueInMatch
    /\ ReportConsistent
    /\ IsFiniteSet(run.appliedIds)
    /\ run.match \notin run.appliedIds
    /\ run.overAtStart \subseteq over

IInv == TypeOK /\ EventsBounded /\ Evidence /\ ApplyOrder /\ SkippedStored
            /\ AppliedMeansStored /\ Enumerating /\ Tally

-----------------------------------------------------------------------------
LEMMA OrderFacts ==
    /\ Len(BackfillOrder) = 3 /\ Len(DaemonOrder) = 3
    /\ BackfillOrder[1] = "row" /\ BackfillOrder[2] = "sides" /\ BackfillOrder[3] = "events"
    /\ \A i \in 1 .. 3 : BackfillOrder[i] \in {"row", "sides", "events"}
                         /\ DaemonOrder[i] \in {"row", "sides", "events"}
  BY DEF BackfillOrder, DaemonOrder

\* A new process and a dead one remember nothing.
LEMMA FreshRun ==
  ASSUME StartRun \/ RunDies
  PROVE  /\ run'.pc \in {"idle", "chunk"} /\ run'.match = None /\ run'.part = 1 /\ run'.applied = 0
         /\ run'.skipped = {} /\ run'.appliedIds = {} /\ run'.failed = {} /\ run'.queue = {}
         /\ run'.enumerated = {} /\ run'.failedChunks = {}
         /\ \/ run'.overAtStart = {}
            \/ run'.overAtStart = over /\ run'.days = ChunkDays
<1>1. CASE StartRun
  BY <1>1 DEF StartRun, NoRun
<1>2. CASE RunDies
  BY <1>2 DEF RunDies, NoRun
<1>3. QED
  BY <1>1, <1>2

LEMMA NoRunType == NoRun \in Runs
  BY DEF NoRun, Runs, Phases

\* Written stores the part it names and nothing else.
LEMMA WrittenFacts ==
  ASSUME NEW rec \in Stored, NEW snap \in Snapshots, NEW part \in {"row", "sides", "events"}
  PROVE  /\ Written(rec, part, snap) \in Stored
         /\ Written(rec, part, snap).row = IF part = "row" THEN snap.state ELSE rec.row
         /\ Written(rec, part, snap).sides = IF part = "sides" THEN snap.state ELSE rec.sides
         /\ Written(rec, part, snap).events =
                IF part = "events" THEN Larger(rec.events, snap.events) ELSE rec.events
  BY DEF Written, Stored, States, Snapshots, Larger

LEMMA TotalType == \A m \in Matches : Total[m] \in Nat
  BY BackfillAssumption

LEMMA FinalSnapshotType ==
  ASSUME NEW m \in Matches
  PROVE  FinalSnapshot(m) \in Snapshots
  BY TotalType DEF FinalSnapshot, Snapshots

\* What a write does to a match that has it: the events never get fewer, nor more
\* than the match has.
LEMMA WrittenBounded ==
  ASSUME NEW m \in Matches, NEW rec \in Stored, NEW snap \in Snapshots,
         NEW part \in {"row", "sides", "events"},
         rec.events <= Total[m], snap.events <= Total[m]
  PROVE  /\ Written(rec, part, snap).events <= Total[m]
         /\ Written(rec, part, snap).events >= rec.events
<1>1. rec.events \in Nat /\ snap.events \in Nat /\ Total[m] \in Nat
  BY TotalType DEF Stored, Snapshots
<1>2. Written(rec, part, snap).events =
          IF part = "events" THEN Larger(rec.events, snap.events) ELSE rec.events
  BY WrittenFacts
<1>3. QED
  BY <1>1, <1>2 DEF Larger

\* Type correctness.
LEMMA TypeStep ==
  ASSUME TypeOK, EventsBounded, [Next]_vars
  PROVE  TypeOK' /\ EventsBounded'
<1> USE NoRunType DEF TypeOK, EventsBounded
<1>1. ASSUME NEW m \in Matches, MatchEnds(m) PROVE TypeOK' /\ EventsBounded'
  BY <1>1 DEF MatchEnds
<1>2. ASSUME NEW m \in Matches, DaemonPoll(m) PROVE TypeOK' /\ EventsBounded'
  BY <1>2, BackfillAssumption DEF DaemonPoll, Snapshots
<1>3. CASE DaemonWrite
  <2>1. CASE daemon.match \in foreign
    BY <1>3, <2>1 DEF DaemonWrite, Resting, Snapshots
  <2>2. CASE daemon.match \notin foreign
    <3> DEFINE m == daemon.match
               new == Written(stored[m], DaemonOrder[daemon.part], daemon.snap)
    <3>1. m \in Matches /\ stored[m] \in Stored /\ daemon.snap \in Snapshots
          /\ daemon.part \in 1 .. 3
      BY <1>3 DEF DaemonWrite
    <3>2. DaemonOrder[daemon.part] \in {"row", "sides", "events"}
      BY <3>1, OrderFacts
    <3>3. stored[m].events <= Total[m] /\ daemon.snap.events <= Total[m]
      BY <1>3, <3>1 DEF DaemonWrite
    <3>7. new \in Stored /\ new.events <= Total[m]
      BY <3>1, <3>2, <3>3, WrittenFacts, WrittenBounded
    <3>4. stored' = [stored EXCEPT ![m] = new] /\ UNCHANGED <<over, foreign, run, polls, faults>>
          /\ touched' = touched \cup {m}
      BY <1>3, <2>2 DEF DaemonWrite
    <3>5. daemon' \in [match : Matches \cup {None}, part : 1 .. 3, snap : Snapshots]
          /\ EventsBounded'
      BY <1>3, <2>2, <3>1, OrderFacts DEF DaemonWrite, Resting, Snapshots
    <3> HIDE DEF new, m
    <3>6. QED
      BY <3>1, <3>7, <3>4, <3>5
  <2>3. QED
    BY <2>1, <2>2
<1>4. CASE DaemonFails
  BY <1>4 DEF DaemonFails, Fault, Resting, Snapshots
<1>5. CASE StartRun
  BY <1>5 DEF StartRun, theDaemon, NoRun, Runs, Phases, Examining
<1>6. ASSUME NEW d \in ChunkDays, FetchChunk(d) PROVE TypeOK' /\ EventsBounded'
  BY <1>6 DEF FetchChunk, NextDay, theDaemon, Runs, Phases, Examining
<1>7. ASSUME NEW d \in ChunkDays, ChunkFails(d) PROVE TypeOK' /\ EventsBounded'
  <2>1. run' \in Runs
    BY <1>7 DEF ChunkFails, NextDay, Runs, Phases
  <2>2. (run.match # None <=> run.pc \in Examining)'
    BY <1>7 DEF ChunkFails, NextDay, Runs, Phases, Examining
  <2>3. QED
    BY <1>7, <2>1, <2>2 DEF ChunkFails, Fault, theDaemon
<1>8. CASE ChunkDone \/ EndRun
  BY <1>8 DEF ChunkDone, EndRun, theDaemon, Runs, Phases, Examining
<1>9. ASSUME NEW m \in Matches, NextMatch(m) PROVE TypeOK' /\ EventsBounded'
  BY <1>9, BackfillAssumption DEF NextMatch, theDaemon, Runs, Phases, Examining
<1>10. CASE CheckSource \/ FetchDetail
  <2>1. run' \in Runs
    <3>1. CASE CheckSource
      <4>1. (run.match \notin foreign /\ stored[run.match].row # None) \in BOOLEAN
        OBVIOUS
      <4>2. QED
        BY <3>1, <4>1 DEF CheckSource, Runs, Phases
    <3>2. CASE FetchDetail
      <4>1. 1 \in 1 .. 3 /\ "apply" \in Phases
        BY DEF Phases
      <4>2. QED
        BY <3>2, <4>1 DEF FetchDetail, Runs
    <3>3. QED
      BY <1>10, <3>1, <3>2
  <2>2. (run.match # None <=> run.pc \in Examining)'
    BY <1>10 DEF CheckSource, FetchDetail, Runs, Phases, Examining
  <2>3. QED
    BY <1>10, <2>1, <2>2 DEF CheckSource, FetchDetail, theDaemon
<1>11. CASE CheckEvents
  BY <1>11 DEF CheckEvents, theDaemon, Runs, Phases, Examining
<1>12. CASE ApplyPart
  <2> DEFINE m == run.match
             new == Written(stored[m], BackfillOrder[run.part], FinalSnapshot(m))
  <2>1. m \in Matches /\ stored[m] \in Stored /\ run.part \in 1 .. 3 /\ run.applied \in Nat
        /\ run.pc = "apply"
    BY <1>12 DEF ApplyPart, Examining, Runs
  <2>2. CASE m \in foreign
    <3>1. run' = [run EXCEPT !.pc = "aborted", !.match = None] /\ UNCHANGED <<theDaemon, stored, faults>>
      BY <1>12, <2>2 DEF ApplyPart
    <3>2. run' \in Runs /\ (run.match # None <=> run.pc \in Examining)'
      BY <3>1 DEF Runs, Phases, Examining
    <3>3. QED
      BY <3>1, <3>2 DEF theDaemon
  <2>3. CASE m \notin foreign
    <3>1. BackfillOrder[run.part] \in {"row", "sides", "events"}
      BY <2>1, OrderFacts
    <3>2. FinalSnapshot(m) \in Snapshots /\ FinalSnapshot(m).events <= Total[m]
      BY <2>1, FinalSnapshotType, BackfillAssumption DEF FinalSnapshot
    <3>3. new \in Stored /\ new.events <= Total[m]
      BY <2>1, <3>1, <3>2, WrittenFacts, WrittenBounded
    <3>4. stored' = [stored EXCEPT ![m] = new] /\ UNCHANGED <<over, foreign, touched, daemon, polls, faults>>
      BY <1>12, <2>3 DEF ApplyPart, theDaemon
    <3>5. run' \in Runs /\ (run.match # None <=> run.pc \in Examining)'
      <4>1. CASE run.part = 3
        <5>1. run' = Succeeded(run)
          BY <1>12, <2>3, <4>1, OrderFacts DEF ApplyPart
        <5>2. run' = [run EXCEPT !.pc = "match", !.match = None, !.failed = @ \ {m},
                        !.appliedIds = @ \cup {m}, !.applied = @ + 1]
          BY <5>1 DEF Succeeded
        <5>3. run.failed \ {m} \in SUBSET Matches /\ run.appliedIds \cup {m} \in SUBSET Matches
          BY <2>1 DEF Runs
        <5>4. run.applied + 1 \in Nat
          BY <2>1
        <5> HIDE DEF m
        <5>5. QED
          BY <5>2, <5>3, <5>4 DEF Runs, Phases, Examining
      <4>2. CASE run.part # 3
        <5>1. run' = [run EXCEPT !.part = @ + 1]
          BY <1>12, <2>3, <4>2, OrderFacts DEF ApplyPart
        <5>2. QED
          BY <2>1, <4>2, <5>1 DEF Runs, Phases, Examining
      <4>3. QED
        BY <4>1, <4>2
    <3> HIDE DEF new, m
    <3>6. QED
      BY <2>1, <3>3, <3>4, <3>5
  <2>4. QED
    BY <2>2, <2>3
<1>13. CASE MatchFails
  <2>1. run' \in Runs
    BY <1>13, BackfillAssumption DEF MatchFails, Runs, Phases, Examining
  <2>2. (run.match # None <=> run.pc \in Examining)'
    BY <1>13 DEF MatchFails, Runs, Phases, Examining
  <2>3. QED
    BY <1>13, <2>1, <2>2 DEF MatchFails, Fault, theDaemon
<1>14. CASE RunDies
  BY <1>14 DEF RunDies, Fault, theDaemon, NoRun, Examining
<1>15. CASE UNCHANGED vars
  BY <1>15 DEF vars
<1>16. QED
  BY <1>1, <1>2, <1>3, <1>4, <1>5, <1>6, <1>7, <1>8, <1>9, <1>10, <1>11, <1>12, <1>13, <1>14,
     <1>15 DEF Next, RunStep

-----------------------------------------------------------------------------
(* What a step does to the file.                                           *)

\* One write of the command: it leaves other matches alone, keeps what is
\* complete, and its own part is then final.
LEMMA ApplyWrites ==
  ASSUME TypeOK, ApplyPart, run.match \notin foreign
  PROVE  LET m == run.match
             new == Written(stored[m], BackfillOrder[run.part], FinalSnapshot(m))
         IN /\ m \in Matches /\ run.pc = "apply" /\ run.part \in 1 .. 3
            /\ stored' = [stored EXCEPT ![m] = new]
            /\ new \in Stored
            /\ new.row = IF run.part = 1 THEN "final" ELSE stored[m].row
            /\ new.sides = IF run.part = 2 THEN "final" ELSE stored[m].sides
            /\ new.events = IF run.part = 3 THEN Total[m] ELSE stored[m].events
            /\ UNCHANGED theDaemon
<1> DEFINE m == run.match
           new == Written(stored[m], BackfillOrder[run.part], FinalSnapshot(m))
<1>1. m \in Matches /\ run.pc = "apply" /\ run.part \in 1 .. 3 /\ stored[m] \in Stored
  BY DEF ApplyPart, TypeOK, Runs, Examining
<1>2. stored' = [stored EXCEPT ![m] = new] /\ UNCHANGED theDaemon
  BY DEF ApplyPart
<1>3. FinalSnapshot(m) \in Snapshots /\ FinalSnapshot(m).state = "final"
      /\ FinalSnapshot(m).events = Total[m]
  BY <1>1, FinalSnapshotType DEF FinalSnapshot
<1>4. BackfillOrder[run.part] \in {"row", "sides", "events"}
  BY <1>1, OrderFacts
<1>5. /\ new \in Stored
      /\ new.row = IF BackfillOrder[run.part] = "row" THEN "final" ELSE stored[m].row
      /\ new.sides = IF BackfillOrder[run.part] = "sides" THEN "final" ELSE stored[m].sides
      /\ new.events = IF BackfillOrder[run.part] = "events" THEN Larger(stored[m].events, Total[m])
                      ELSE stored[m].events
  <2> DEFINE snap == FinalSnapshot(m)
             part == BackfillOrder[run.part]
  <2>1. snap \in Snapshots /\ part \in {"row", "sides", "events"} /\ stored[m] \in Stored
    BY <1>1, <1>3, <1>4
  <2>2. snap.state = "final" /\ snap.events = Total[m]
    BY <1>3
  <2>3. /\ Written(stored[m], part, snap) \in Stored
        /\ Written(stored[m], part, snap).row = IF part = "row" THEN snap.state ELSE stored[m].row
        /\ Written(stored[m], part, snap).sides =
               IF part = "sides" THEN snap.state ELSE stored[m].sides
        /\ Written(stored[m], part, snap).events =
               IF part = "events" THEN Larger(stored[m].events, snap.events) ELSE stored[m].events
    <3> HIDE DEF snap, part
    <3>1. QED
      BY <2>1, WrittenFacts
  <2>4. QED
    BY <2>2, <2>3
<1>6. stored[m].events <= Total[m] /\ Total[m] \in Nat /\ stored[m].events \in Nat
  BY <1>1, TotalType DEF TypeOK, Stored
<1>7. Larger(stored[m].events, Total[m]) = Total[m]
  BY <1>6 DEF Larger
<1>8. CASE run.part = 1
  BY <1>1, <1>2, <1>5, <1>8, OrderFacts
<1>9. CASE run.part = 2
  BY <1>1, <1>2, <1>5, <1>9, OrderFacts
<1>10. CASE run.part = 3
  BY <1>1, <1>2, <1>5, <1>7, <1>10, OrderFacts
<1>11. QED
  BY <1>1, <1>8, <1>9, <1>10

\* One write of the daemon: it marks the match, and no event goes.
LEMMA DaemonWrites ==
  ASSUME TypeOK, EventsBounded, DaemonWrite
  PROVE  /\ UNCHANGED run
         /\ touched \subseteq touched'
         /\ \A m \in Matches : m \notin touched' => stored'[m] = stored[m]
         /\ \A m \in Matches : stored'[m].events >= stored[m].events
<1>1. CASE daemon.match \in foreign
  <2>1. stored' = stored /\ touched' = touched /\ run' = run
    BY <1>1 DEF DaemonWrite
  <2>2. \A m \in Matches : stored[m].events \in Nat
    BY DEF TypeOK, Stored
  <2>3. QED
    BY <2>1, <2>2
<1>2. CASE daemon.match \notin foreign
  <2> DEFINE d == daemon.match
             new == Written(stored[d], DaemonOrder[daemon.part], daemon.snap)
  <2>1. d \in Matches /\ stored[d] \in Stored /\ daemon.snap \in Snapshots /\ daemon.part \in 1 .. 3
        /\ stored[d].events <= Total[d] /\ daemon.snap.events <= Total[d]
    BY DEF DaemonWrite, TypeOK, EventsBounded
  <2>2. stored' = [stored EXCEPT ![d] = new] /\ touched' = touched \cup {d} /\ run' = run
    BY <1>2 DEF DaemonWrite
  <2>3. DaemonOrder[daemon.part] \in {"row", "sides", "events"}
    BY <2>1, OrderFacts
  <2>4. new.events >= stored[d].events
    BY <2>1, <2>3, WrittenBounded
  <2>5. \A m \in Matches : stored[m].events \in Nat
    BY DEF TypeOK, Stored
  <2>6. stored \in [Matches -> Stored]
    BY DEF TypeOK
  <2> HIDE DEF new, d
  <2>7. QED
    BY <2>1, <2>2, <2>4, <2>5, <2>6
<1>3. QED
  BY <1>1, <1>2

\* The steps that write nothing.
Reading ==
    \/ \E m \in Matches : MatchEnds(m) \/ DaemonPoll(m) \/ NextMatch(m)
    \/ \E d \in ChunkDays : FetchChunk(d) \/ ChunkFails(d)
    \/ DaemonFails \/ StartRun \/ ChunkDone \/ EndRun \/ CheckSource \/ CheckEvents
    \/ FetchDetail \/ MatchFails \/ RunDies \/ UNCHANGED vars
    \/ ApplyPart /\ run.match \in foreign

LEMMA ReadingFacts ==
  ASSUME Reading
  PROVE  UNCHANGED <<stored, touched>> /\ over \subseteq over'
  BY DEF Reading, MatchEnds, DaemonPoll, NextMatch, FetchChunk, ChunkFails, DaemonFails, StartRun,
         ChunkDone, EndRun, CheckSource, CheckEvents, FetchDetail, MatchFails, RunDies, ApplyPart,
         theDaemon, vars

LEMMA StepKinds ==
  ASSUME [Next]_vars
  PROVE  Reading \/ DaemonWrite \/ (ApplyPart /\ run.match \notin foreign)
  BY DEF Next, RunStep, Reading

\* No step takes away an event, and no step undoes a match the daemon leaves alone.
LEMMA Monotone ==
  ASSUME TypeOK, EventsBounded, [Next]_vars
  PROVE  /\ touched \subseteq touched'
         /\ over \subseteq over'
         /\ \A m \in Matches : /\ stored'[m].events >= stored[m].events
                               /\ m \notin touched' /\ Complete(m) => Complete(m)'
<1>1. \A m \in Matches : stored[m] \in Stored /\ stored[m].events \in Nat
      /\ stored[m].events <= Total[m] /\ Total[m] \in Nat
  BY TotalType DEF TypeOK, Stored
<1>2. CASE Reading
  BY <1>1, <1>2, ReadingFacts DEF Complete
<1>3. CASE DaemonWrite
  <2>1. over' = over
    BY <1>3 DEF DaemonWrite
  <2>2. QED
    BY <1>3, <2>1, DaemonWrites DEF Complete
<1>4. CASE ApplyPart /\ run.match \notin foreign
  <2> DEFINE m == run.match
             new == Written(stored[m], BackfillOrder[run.part], FinalSnapshot(m))
  <2>1. m \in Matches /\ stored' = [stored EXCEPT ![m] = new] /\ UNCHANGED theDaemon /\ new \in Stored
    BY <1>4, ApplyWrites
  <2>2. new.events >= stored[m].events
    BY <1>1, <1>4, <2>1, ApplyWrites
  <2>3. Complete(m) => new = stored[m]
    <3>1. ASSUME Complete(m) PROVE new = stored[m]
      <4>1. new.row = "final" /\ new.sides = "final" /\ new.events = Total[m]
        BY <1>4, <3>1, ApplyWrites DEF Complete
      <4>2. new = [row |-> "final", sides |-> "final", events |-> Total[m]]
        BY <2>1, <4>1 DEF Stored
      <4>3. QED
        BY <3>1, <4>2 DEF Complete
    <3>2. QED
      BY <3>1
  <2>4. stored \in [Matches -> Stored]
    BY DEF TypeOK
  <2> HIDE DEF new, m
  <2>5. QED
    BY <1>1, <2>1, <2>2, <2>3, <2>4 DEF Complete, theDaemon
<1>5. QED
  BY <1>2, <1>3, <1>4, StepKinds

-----------------------------------------------------------------------------
(* The invariant is inductive.                                             *)

LEMMA EvidenceStep ==
  ASSUME IInv, [Next]_vars
  PROVE  Evidence' /\ ApplyOrder'
<1>1. CASE Reading
  <2>1. Evidence'
    BY <1>1, ReadingFacts DEF IInv, Evidence, Complete
  <2>2. CASE run' = run
    <3>1. stored' = stored /\ touched' = touched
      BY <1>1, ReadingFacts
    <3>2. ApplyOrder'
      BY <2>2, <3>1 DEF IInv, ApplyOrder
    <3>3. QED
      BY <2>1, <3>2
  <2>3. CASE FetchDetail
    <3>1. run'.part = 1
      BY <2>3 DEF FetchDetail, IInv, TypeOK, Runs
    <3>2. QED
      BY <2>1, <3>1 DEF ApplyOrder
  <2>4. CASE run' # run /\ ~FetchDetail
    <3>1. run'.pc # "apply"
      <4> USE DEF IInv, TypeOK, Runs
      <4>1. CASE StartRun \/ RunDies
        BY <4>1, FreshRun
      <4>2. ASSUME NEW d \in ChunkDays, FetchChunk(d) \/ ChunkFails(d) PROVE run'.pc # "apply"
        BY <4>2 DEF FetchChunk, ChunkFails, NextDay
      <4>3. ASSUME NEW m \in Matches, NextMatch(m) PROVE run'.pc # "apply"
        BY <4>3 DEF NextMatch
      <4>4. CASE ChunkDone \/ EndRun \/ MatchFails
        BY <4>4 DEF ChunkDone, EndRun, MatchFails
      <4>5. CASE CheckSource \/ CheckEvents
        BY <4>5 DEF CheckSource, CheckEvents
      <4>6. CASE ApplyPart /\ run.match \in foreign
        BY <4>6 DEF ApplyPart
      <4>7. QED
        BY <1>1, <2>4, <4>1, <4>2, <4>3, <4>4, <4>5, <4>6
           DEF Reading, MatchEnds, DaemonPoll, DaemonFails, vars
    <3>2. QED
      BY <2>1, <3>1 DEF ApplyOrder
  <2>5. QED
    BY <2>1, <2>2, <2>3, <2>4
<1>2. CASE DaemonWrite
  <2>1. run' = run /\ touched \subseteq touched'
        /\ \A m \in Matches : m \notin touched' => stored'[m] = stored[m]
    BY <1>2, DaemonWrites DEF IInv
  <2>2. run.pc = "apply" => run.match \in Matches
    BY DEF IInv, TypeOK, Runs, Examining
  <2>3. QED
    BY <2>1, <2>2 DEF IInv, Evidence, ApplyOrder, Complete
<1>3. CASE ApplyPart /\ run.match \notin foreign
  <2>0. PICK m \in Matches : m = run.match
    BY <1>3 DEF ApplyPart, IInv, TypeOK, Runs, Examining
  <2> DEFINE new == Written(stored[m], BackfillOrder[run.part], FinalSnapshot(m))
  <2>1. /\ run.pc = "apply" /\ run.part \in 1 .. 3
        /\ stored' = [stored EXCEPT ![m] = new] /\ touched' = touched
        /\ new \in Stored
    BY <1>3, <2>0, ApplyWrites DEF theDaemon, IInv
  <2>2. /\ new.row = IF run.part = 1 THEN "final" ELSE stored[m].row
        /\ new.sides = IF run.part = 2 THEN "final" ELSE stored[m].sides
        /\ new.events = IF run.part = 3 THEN Total[m] ELSE stored[m].events
    BY <1>3, <2>0, ApplyWrites DEF IInv
  <2>3. stored \in [Matches -> Stored] /\ run \in Runs
    BY DEF IInv, TypeOK
  <2>4. ASSUME m \notin touched
        PROVE  /\ new.row # "live" /\ new.sides # "live"
               /\ new.events > 0 => new = [row |-> "final", sides |-> "final", events |-> Total[m]]
    <3>1. stored[m].row # "live" /\ stored[m].sides # "live"
          /\ (stored[m].events > 0 => Complete(m))
      BY <2>1, <2>4 DEF IInv, Evidence
    <3>2. new.row # "live" /\ new.sides # "live"
      BY <2>2, <3>1
    <3>3. ASSUME new.events > 0
          PROVE  new.row = "final" /\ new.sides = "final" /\ new.events = Total[m]
      <4>1. CASE run.part = 3
        BY <2>0, <2>1, <2>2, <2>4, <4>1 DEF IInv, ApplyOrder
      <4>2. CASE run.part # 3
        BY <2>2, <3>1, <3>3, <4>2 DEF Complete
      <4>3. QED
        BY <4>1, <4>2
    <3> HIDE DEF new
    <3>4. QED
      BY <2>1, <3>2, <3>3 DEF Stored
  <2>5. Evidence'
    <3> HIDE DEF new
    <3>1. ASSUME NEW n \in Matches \ touched, n # m
          PROVE  stored'[n].row # "live" /\ stored'[n].sides # "live"
                 /\ (stored'[n].events > 0 => Complete(n)')
      BY <2>1, <2>3, <3>1 DEF IInv, Evidence, Complete
    <3>2. m \notin touched =>
                /\ stored'[m].row # "live" /\ stored'[m].sides # "live"
                /\ stored'[m].events > 0 => Complete(m)'
      BY <2>1, <2>3, <2>4 DEF Complete
    <3>3. QED
      BY <2>1, <3>1, <3>2 DEF Evidence
  <2>6. ApplyOrder'
    <3>1. CASE run.part = 3
      <4>1. run' = Succeeded(run)
        BY <1>3, <3>1, OrderFacts DEF ApplyPart
      <4>2. run'.pc = "match"
        BY <2>3, <4>1 DEF Succeeded, Runs
      <4>3. QED
        BY <4>2 DEF ApplyOrder
    <3>2. CASE run.part # 3
      <4>1. run' = [run EXCEPT !.part = @ + 1]
        BY <1>3, <3>2, OrderFacts DEF ApplyPart
      <4>2. run'.part = run.part + 1 /\ run'.match = m
        BY <2>0, <2>3, <4>1 DEF Runs
      <4>3. stored'[m] = new
        BY <2>1, <2>3
      <4>4. m \notin touched => /\ run.part > 1 => stored[m].row = "final"
                                /\ run.part > 2 => stored[m].sides = "final"
        BY <2>0, <2>1 DEF IInv, ApplyOrder
      <4>5. ASSUME m \notin touched
            PROVE  /\ run.part + 1 > 1 => new.row = "final"
                   /\ run.part + 1 > 2 => new.sides = "final"
        BY <2>1, <2>2, <3>2, <4>4, <4>5
      <4> HIDE DEF new
      <4>6. QED
        BY <2>1, <4>2, <4>3, <4>5 DEF ApplyOrder
    <3>3. QED
      BY <3>1, <3>2
  <2>7. QED
    BY <2>5, <2>6
<1>4. QED
  BY <1>1, <1>2, <1>3, StepKinds

\* What a step may add to the matches taken for stored, and to the applied ones.
LEMMA RunSets ==
  ASSUME IInv, [Next]_vars
  PROVE  /\ \A m \in run'.skipped :
               \/ m \in run.skipped
               \/ m \in run.appliedIds
               \/ m = run.match /\ run.pc = "events" /\ stored[m].events > 0
         /\ \A m \in run'.appliedIds :
               \/ m \in run.appliedIds
               \/ /\ m = run.match /\ run.pc = "apply" /\ run.part = 3
                  /\ ApplyPart /\ m \notin foreign
<1> USE DEF IInv, TypeOK, Runs
<1>1. CASE UNCHANGED run
  BY <1>1
<1>2. CASE StartRun \/ RunDies
  <2>1. run'.skipped = {} /\ run'.appliedIds = {}
    BY <1>2, FreshRun
  <2>2. QED
    BY <2>1
<1>3. ASSUME NEW d \in ChunkDays, FetchChunk(d) \/ ChunkFails(d)
      PROVE  run'.skipped = run.skipped /\ run'.appliedIds = run.appliedIds
  BY <1>3 DEF FetchChunk, ChunkFails
<1>4. CASE ChunkDone \/ EndRun \/ CheckSource \/ FetchDetail \/ MatchFails
  BY <1>4 DEF ChunkDone, EndRun, CheckSource, FetchDetail, MatchFails
<1>5. ASSUME NEW m \in Matches, NextMatch(m)
      PROVE  run'.appliedIds = run.appliedIds
             /\ \A n \in run'.skipped : n \in run.skipped \/ n \in run.appliedIds
  BY <1>5 DEF NextMatch, AppliedBefore
<1>6. CASE CheckEvents
  BY <1>6 DEF CheckEvents, AlreadyStored
<1>7. CASE ApplyPart
  <2>1. CASE run.match \in foreign \/ run.part # 3
    BY <1>7, <2>1, OrderFacts DEF ApplyPart
  <2>2. CASE run.match \notin foreign /\ run.part = 3
    <3>1. run' = Succeeded(run) /\ run.pc = "apply"
      BY <1>7, <2>2, OrderFacts DEF ApplyPart
    <3>2. run'.skipped = run.skipped /\ run'.appliedIds = run.appliedIds \cup {run.match}
      BY <3>1 DEF Succeeded
    <3>3. QED
      BY <1>7, <2>2, <3>1, <3>2
  <2>3. QED
    BY <2>1, <2>2
<1>8. QED
  BY <1>1, <1>2, <1>3, <1>4, <1>5, <1>6, <1>7
     DEF Next, RunStep, MatchEnds, DaemonPoll, DaemonWrite, DaemonFails, vars

LEMMA StoredStep ==
  ASSUME IInv, [Next]_vars
  PROVE  SkippedStored' /\ AppliedMeansStored'
<1>1. TypeOK /\ TypeOK' /\ EventsBounded
  BY TypeStep DEF IInv
<1>2. run'.skipped \subseteq Matches /\ run'.appliedIds \subseteq Matches
      /\ run.skipped \subseteq Matches /\ run.appliedIds \subseteq Matches
  BY <1>1 DEF TypeOK, Runs
<1>3. /\ touched \subseteq touched'
      /\ \A m \in Matches : /\ stored'[m].events >= stored[m].events
                            /\ m \notin touched' /\ Complete(m) => Complete(m)'
  BY <1>1, Monotone
<1>4. ASSUME NEW m \in run'.skipped PROVE Complete(m)' \/ m \in touched'
  <2>1. Complete(m) \/ m \in touched
    <3>1. CASE m \in run.skipped
      BY <3>1 DEF IInv, SkippedStored
    <3>2. CASE m \in run.appliedIds
      BY <3>2 DEF IInv, AppliedMeansStored
    <3>3. CASE stored[m].events > 0
      BY <1>2, <3>3 DEF IInv, Evidence
    <3>4. QED
      BY <3>1, <3>2, <3>3, RunSets
  <2>2. QED
    BY <1>2, <1>3, <2>1
<1>5. ASSUME NEW m \in run'.appliedIds
      PROVE  stored'[m].events = Total[m] /\ (m \notin touched' => Complete(m)')
  <2>1. CASE m \in run.appliedIds
    <3>1. stored[m].events = Total[m] /\ (m \notin touched => Complete(m))
      BY <2>1 DEF IInv, AppliedMeansStored
    <3>2. stored'[m].events <= Total[m] /\ stored'[m].events \in Nat /\ Total[m] \in Nat
      BY <1>1, <1>2, TotalType DEF TypeOK, Stored
    <3>3. stored'[m].events >= stored[m].events
      BY <1>2, <1>3
    <3>4. stored'[m].events = Total[m]
      BY <3>1, <3>2, <3>3
    <3>5. QED
      BY <1>2, <1>3, <3>1, <3>4
  <2>2. CASE /\ m = run.match /\ run.pc = "apply" /\ run.part = 3
             /\ ApplyPart /\ m \notin foreign
    <3> DEFINE new == Written(stored[m], BackfillOrder[run.part], FinalSnapshot(m))
    <3>1. /\ stored' = [stored EXCEPT ![m] = new] /\ touched' = touched /\ new \in Stored
          /\ new.row = stored[m].row /\ new.sides = stored[m].sides
          /\ new.events = Total[m]
      BY <1>1, <2>2, ApplyWrites DEF theDaemon
    <3>2. stored'[m] = new
      BY <1>1, <1>2, <3>1 DEF TypeOK
    <3>3. m \notin touched => stored[m].row = "final" /\ stored[m].sides = "final"
      BY <2>2 DEF IInv, ApplyOrder
    <3> HIDE DEF new
    <3>4. m \notin touched => new = [row |-> "final", sides |-> "final", events |-> Total[m]]
      BY <3>1, <3>3 DEF Stored
    <3>5. QED
      BY <3>1, <3>2, <3>4 DEF Complete
  <2>3. QED
    BY <2>1, <2>2, RunSets
<1>6. QED
  BY <1>4, <1>5 DEF SkippedStored, AppliedMeansStored

LEMMA EnumeratingStep ==
  ASSUME IInv, [Next]_vars
  PROVE  Enumerating'
<1> USE DEF IInv, TypeOK, Runs, Enumerating
<1>1. CASE UNCHANGED run
  BY <1>1
<1>2. CASE StartRun \/ RunDies
  <2>1. run'.overAtStart = {} \/ run'.days = ChunkDays
    BY <1>2, FreshRun
  <2>2. QED
    BY <2>1
<1>3. ASSUME NEW d \in ChunkDays, FetchChunk(d)
      PROVE  Enumerating'
  <2>1. run' = [run EXCEPT !.pc = "match", !.days = @ \ {d}, !.queue = Slate[d] \cap over]
        /\ run.pc = "chunk"
    BY <1>3 DEF FetchChunk, NextDay
  <2>2. run'.overAtStart = run.overAtStart /\ run'.days = run.days \ {d}
        /\ run'.queue = Slate[d] \cap over /\ run'.failedChunks = run.failedChunks
        /\ run'.enumerated = run.enumerated
    BY <2>1
  <2>3. run.overAtStart \subseteq over /\ run.queue = {}
    BY <2>1 DEF Tally, QueueInMatch
  <2>4. QED
    BY <2>2, <2>3
<1>4. ASSUME NEW d \in ChunkDays, ChunkFails(d)
      PROVE  Enumerating'
  <2>1. run'.overAtStart = run.overAtStart /\ run'.days = run.days \ {d}
        /\ run'.queue = run.queue /\ run'.failedChunks = run.failedChunks \cup {d}
        /\ run'.enumerated = run.enumerated
    BY <1>4 DEF ChunkFails
  <2>2. QED
    BY <2>1
<1>5. ASSUME NEW m \in Matches, NextMatch(m)
      PROVE  Enumerating'
  <2>1. run'.overAtStart = run.overAtStart /\ run'.days = run.days
        /\ run'.queue = run.queue \ {m} /\ run'.failedChunks = run.failedChunks
        /\ run'.enumerated = run.enumerated \cup {m}
    BY <1>5 DEF NextMatch
  <2>2. QED
    BY <2>1
<1>6. CASE ChunkDone \/ EndRun \/ CheckSource \/ CheckEvents \/ FetchDetail \/ MatchFails
  <2>1. run'.overAtStart = run.overAtStart /\ run'.days = run.days
        /\ run'.queue = run.queue /\ run'.failedChunks = run.failedChunks
        /\ run'.enumerated = run.enumerated
    <3>1. CASE ChunkDone \/ EndRun
      BY <3>1 DEF ChunkDone, EndRun
    <3>2. CASE CheckSource
      BY <3>2 DEF CheckSource
    <3>3. CASE CheckEvents
      BY <3>3 DEF CheckEvents
    <3>4. CASE FetchDetail
      BY <3>4 DEF FetchDetail
    <3>5. CASE MatchFails
      BY <3>5 DEF MatchFails
    <3>6. QED
      BY <1>6, <3>1, <3>2, <3>3, <3>4, <3>5
  <2>2. QED
    BY <2>1
<1>7. CASE ApplyPart
  <2>1. run'.overAtStart = run.overAtStart /\ run'.days = run.days
        /\ run'.queue = run.queue /\ run'.failedChunks = run.failedChunks
        /\ run'.enumerated = run.enumerated
    BY <1>7 DEF ApplyPart, Succeeded
  <2>2. QED
    BY <2>1
<1>8. QED
  BY <1>1, <1>2, <1>3, <1>4, <1>5, <1>6, <1>7
     DEF Next, RunStep, MatchEnds, DaemonPoll, DaemonWrite, DaemonFails, vars

LEMMA TallyStep ==
  ASSUME IInv, [Next]_vars
  PROVE  Tally'
<1> USE DEF IInv, TypeOK, Runs, Tally, QueueInMatch, ReportConsistent
<1>0. over \subseteq over'
  BY Monotone
<1>1. CASE UNCHANGED run
  BY <1>0, <1>1
<1>2. CASE StartRun \/ RunDies
  <2>1. /\ run'.pc # "done" /\ run'.match = None /\ run'.applied = 0 /\ run'.appliedIds = {} /\ run'.failed = {}
        /\ run'.queue = {} /\ run'.enumerated = {} /\ run'.overAtStart \subseteq over
    BY <1>2, FreshRun
  <2>2. IsFiniteSet(run'.appliedIds) /\ Cardinality(run'.appliedIds) = 0
    BY <2>1, FS_EmptySet
  <2>3. QED
    BY <1>0, <2>1, <2>2
<1>3. ASSUME NEW d \in ChunkDays, FetchChunk(d) PROVE Tally'
  <2>1. run' = [run EXCEPT !.pc = "match", !.days = @ \ {d}, !.queue = Slate[d] \cap over]
        /\ run.pc = "chunk"
    BY <1>3 DEF FetchChunk, NextDay
  <2>2. QED
    BY <1>0, <2>1
<1>4. ASSUME NEW d \in ChunkDays, ChunkFails(d) PROVE Tally'
  <2>1. run' = [run EXCEPT !.days = @ \ {d}, !.failedChunks = @ \cup {d}]
    BY <1>4 DEF ChunkFails
  <2>2. QED
    BY <1>0, <2>1
<1>5. CASE ChunkDone \/ EndRun
  BY <1>0, <1>5 DEF ChunkDone, EndRun
<1>6. ASSUME NEW m \in Matches, NextMatch(m) PROVE Tally'
  <2>1. run.pc = "match" /\ run.match = None
    BY <1>6 DEF NextMatch, Examining
  <2>2. CASE AppliedBefore(m)
    <3>1. run' = [run EXCEPT !.queue = @ \ {m}, !.enumerated = @ \cup {m},
                             !.skipped = @ \cup {m}]
      BY <1>6, <2>2 DEF NextMatch
    <3>2. QED
      BY <1>0, <2>1, <3>1
  <2>3. CASE ~AppliedBefore(m)
    <3>1. run' = [run EXCEPT !.queue = @ \ {m}, !.enumerated = @ \cup {m},
                             !.pc = "source", !.match = m]
      BY <1>6, <2>3 DEF NextMatch
    <3>2. m \notin run.appliedIds
      BY <2>3 DEF AppliedBefore
    <3>3. None \notin run.enumerated
      BY BackfillAssumption
    <3>4. QED
      BY <1>0, <2>1, <3>1, <3>2, <3>3
  <2>4. QED
    BY <2>2, <2>3
<1>7. CASE CheckSource \/ FetchDetail
  <2>1. CASE CheckSource
    BY <1>0, <2>1 DEF CheckSource
  <2>2. CASE FetchDetail
    BY <1>0, <2>2 DEF FetchDetail
  <2>3. QED
    BY <1>7, <2>1, <2>2
<1>8. CASE CheckEvents
  <2>1. run.pc = "events" /\ None \notin run.appliedIds
    BY <1>8, BackfillAssumption DEF CheckEvents
  <2>2. CASE AlreadyStored
    <3>1. run' = [run EXCEPT !.pc = "match", !.skipped = @ \cup {run.match}, !.match = None]
      BY <1>8, <2>2 DEF CheckEvents
    <3>2. QED
      BY <1>0, <2>1, <3>1
  <2>3. CASE ~AlreadyStored
    <3>1. run' = [run EXCEPT !.pc = "detail"]
      BY <1>8, <2>3 DEF CheckEvents
    <3>2. QED
      BY <1>0, <2>1, <3>1
  <2>4. QED
    BY <2>2, <2>3
<1>9. CASE ApplyPart
  <2>1. run.pc = "apply" /\ None \notin run.appliedIds /\ run.match \in Matches
    BY <1>9, BackfillAssumption DEF ApplyPart, Examining
  <2>2. CASE run.match \in foreign
    <3>1. run' = [run EXCEPT !.pc = "aborted", !.match = None]
      BY <1>9, <2>2 DEF ApplyPart
    <3>2. QED
      BY <1>0, <2>1, <3>1
  <2>3. CASE run.match \notin foreign /\ run.part # 3
    <3>1. run' = [run EXCEPT !.part = @ + 1]
      BY <1>9, <2>3, OrderFacts DEF ApplyPart
    <3>2. QED
      BY <1>0, <2>1, <3>1
  <2>4. CASE run.match \notin foreign /\ run.part = 3
    <3>0. PICK m \in Matches : m = run.match
      BY <2>1
    <3>1. run' = [run EXCEPT !.pc = "match", !.match = None, !.failed = @ \ {m},
                            !.appliedIds = @ \cup {m}, !.applied = @ + 1]
      BY <1>9, <2>4, <3>0, OrderFacts DEF ApplyPart, Succeeded
    <3>2. IsFiniteSet(run.appliedIds \cup {m})
          /\ Cardinality(run.appliedIds \cup {m}) = Cardinality(run.appliedIds) + 1
      BY <3>0, FS_AddElement
    <3>3. /\ run'.pc = "match" /\ run'.match = None /\ run'.failed = run.failed \ {m}
          /\ run'.appliedIds = run.appliedIds \cup {m} /\ run'.applied = run.applied + 1
          /\ run'.enumerated = run.enumerated /\ run'.skipped = run.skipped
          /\ run'.overAtStart = run.overAtStart
      BY <3>1
    <3>4. run'.appliedIds \cap run'.failed = {} /\ run'.match \notin run'.appliedIds
      BY <2>1, <3>0, <3>3, BackfillAssumption
    <3>5. IsFiniteSet(run'.appliedIds) /\ run'.applied = Cardinality(run'.appliedIds)
      BY <3>2, <3>3
    <3>6. run'.enumerated \subseteq
              run'.appliedIds \cup run'.skipped \cup run'.failed \cup {run'.match}
      BY <2>1, <3>0, <3>3
    <3>7. QED
      BY <1>0, <3>3, <3>4, <3>5, <3>6
  <2>5. QED
    BY <2>2, <2>3, <2>4
<1>10. CASE MatchFails
  <2>1. run' = [run EXCEPT !.pc = "match", !.failed = @ \cup {run.match}, !.match = None]
        /\ None \notin run.appliedIds
    BY <1>10, BackfillAssumption DEF MatchFails
  <2>2. /\ run'.pc = "match" /\ run'.match = None /\ run'.failed = run.failed \cup {run.match}
        /\ run'.appliedIds = run.appliedIds /\ run'.applied = run.applied
        /\ run'.enumerated = run.enumerated /\ run'.skipped = run.skipped
        /\ run'.overAtStart = run.overAtStart
    BY <2>1
  <2>3. run.pc # "aborted"
    BY <1>10 DEF MatchFails, Examining
  <2>4. QED
    BY <1>0, <2>1, <2>2, <2>3
<1>11. QED
  BY <1>1, <1>2, <1>3, <1>4, <1>5, <1>6, <1>7, <1>8, <1>9, <1>10
     DEF Next, RunStep, MatchEnds, DaemonPoll, DaemonWrite, DaemonFails, vars

LEMMA InductiveStep ==
  ASSUME IInv, [Next]_vars
  PROVE  IInv'
<1>1. TypeOK' /\ EventsBounded'
  BY TypeStep DEF IInv
<1>2. QED
  BY <1>1, EvidenceStep, StoredStep, EnumeratingStep, TallyStep DEF IInv

LEMMA InitInv == Init => IInv
<1> SUFFICES ASSUME Init PROVE IInv
  OBVIOUS
<1>1. TypeOK
  BY NoRunType, TotalType
     DEF Init, TypeOK, NotStored, Stored, States, Resting, Snapshots, NoRun, Examining
<1>2. EventsBounded
  BY DEF Init, EventsBounded, Resting
<1>3. Evidence /\ ApplyOrder
  BY DEF Init, Evidence, ApplyOrder, NotStored, NoRun, None
<1>4. SkippedStored /\ AppliedMeansStored /\ Enumerating
  BY DEF Init, SkippedStored, AppliedMeansStored, Enumerating, NoRun
<1>5. Tally
  <2>1. IsFiniteSet({}) /\ Cardinality({}) = 0
    BY FS_EmptySet
  <2>2. QED
    BY <2>1 DEF Init, Tally, QueueInMatch, ReportConsistent, NoRun
<1>6. QED
  BY <1>1, <1>2, <1>3, <1>4, <1>5 DEF IInv

LEMMA Invariance == Spec => []IInv
<1>1. IInv /\ [Next]_vars => IInv'
  BY InductiveStep
<1>2. QED
  BY InitInv, <1>1, PTL DEF Spec

-----------------------------------------------------------------------------
(* The theorems.                                                           *)

\* Type correctness: of the file, of the daemon's apply and of the locals of
\* run_backfill.
THEOREM TypeCorrect == Spec => []TypeOK
<1>1. IInv => TypeOK
  BY DEF IInv
<1>2. QED
  BY Invariance, <1>1, PTL

\* What a run of run_backfill counts as applied is in the file, and stays there.
THEOREM AppliedMeansStoredAlways == Spec => []AppliedMeansStored
<1>1. IInv => AppliedMeansStored
  BY DEF IInv
<1>2. QED
  BY Invariance, <1>1, PTL

\* The report of run_backfill adds up, although padded chunks enumerate a match
\* several times and each occurrence may fail.
THEOREM ReportConsistentAlways == Spec => []ReportConsistent
<1>1. IInv => ReportConsistent
  BY DEF IInv, Tally
<1>2. QED
  BY Invariance, <1>1, PTL

\* The skip check of run_backfill takes for stored only what is stored in full,
\* or what the daemon has written a part of.
THEOREM SkipReliableAlways == Spec => SkipReliable
<1>1. IInv /\ [Next]_vars =>
        [(run.pc = "events" /\ run'.pc = "match" /\ run'.skipped # run.skipped)
            => (Complete(run.match) \/ run.match \in touched)]_vars
  <2> SUFFICES ASSUME IInv, [Next]_vars, run.pc = "events", run'.pc = "match",
                      run'.skipped # run.skipped
               PROVE  Complete(run.match) \/ run.match \in touched
    OBVIOUS
  <2>1. CheckEvents
    <3>1. run' # run
      OBVIOUS
    <3>2. ~(StartRun \/ RunDies)
      BY FreshRun
    <3>3. ~MatchFails
      BY DEF MatchFails, IInv, TypeOK, Runs
    <3>4. ~\E d \in ChunkDays : FetchChunk(d) \/ ChunkFails(d)
      BY DEF FetchChunk, ChunkFails, NextDay
    <3>5. ~\E m \in Matches : NextMatch(m)
      BY DEF NextMatch
    <3>6. ~(ChunkDone \/ EndRun \/ CheckSource \/ FetchDetail \/ ApplyPart)
      BY DEF ChunkDone, EndRun, CheckSource, FetchDetail, ApplyPart
    <3>7. QED
      BY <3>1, <3>2, <3>3, <3>4, <3>5, <3>6
         DEF Next, RunStep, MatchEnds, DaemonPoll, DaemonWrite, DaemonFails, vars
  <2>2. AlreadyStored
    BY <2>1 DEF CheckEvents, IInv, TypeOK, Runs
  <2>3. run.match \in Matches
    BY DEF IInv, TypeOK, Runs, Examining
  <2>4. QED
    BY <2>2, <2>3 DEF AlreadyStored, IInv, Evidence
<1>2. QED
  BY Invariance, <1>1, PTL DEF Spec, SkipReliable

\* A run that reports no failure has brought in every match of the window that
\* was over when it started: the padded chunks of chunk_date_range reach it.
THEOREM CleanRunCompleteAlways == Spec => []CleanRunComplete
<1>1. IInv => CleanRunComplete
  <2> SUFFICES ASSUME IInv, Clean, NEW m \in run.overAtStart, Kickoff[m] \in Start .. End
               PROVE  Complete(m) \/ m \in touched
    BY DEF CleanRunComplete
  <2>1. m \in Matches
    BY DEF IInv, TypeOK, Runs
  <2>2. Start \in Int /\ End \in Int /\ Kickoff[m] \in Int
    BY <2>1, BackfillAssumption
  <2>3. PICK d \in Kickoff[m] - 1 .. Kickoff[m] + 1 : m \in Slate[d]
    BY <2>1, BackfillAssumption
  <2>4. d \in ChunkDays
    BY <2>2 DEF ChunkDays
  <2>5. run.queue = {} /\ run.failedChunks = {} /\ run.failed = {} /\ run.match = None
    BY DEF Clean, IInv, Tally, QueueInMatch, TypeOK, Examining
  <2>6. m \in run.enumerated
    <3>1. run.days = {}
      BY DEF Clean, IInv, Tally, QueueInMatch
    <3>2. QED
      BY <2>3, <2>4, <2>5, <3>1 DEF IInv, Enumerating
  <2>7. m \in run.appliedIds \cup run.skipped
    BY <2>1, <2>5, <2>6, BackfillAssumption DEF Clean, IInv, Tally, ReportConsistent
  <2>8. QED
    BY <2>7 DEF IInv, SkippedStored, AppliedMeansStored
<1>2. QED
  BY Invariance, <1>1, PTL
=============================================================================
