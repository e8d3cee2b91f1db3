------------------------------ MODULE BackfillRun ------------------------------
(***************************************************************************)
(* The one-shot backfill command: run_backfill in                          *)
(* src/gamecollect/backfill.py over apply_one_off_match and _apply of the  *)
(* engine, run again and again, with the daemon of the same source writing *)
(* the same file and either process dying anywhere.                        *)
(*                                                                         *)
(* A match in the file is three parts that separate transactions write:    *)
(* the matches row, the side tables, the event rows.  The daemon writes    *)
(* its parts events first, the command side tables first.                  *)
(*                                                                         *)
(* Abstracted data: the row and the side tables are the state (live or     *)
(* final) of the snapshot they were last written from, the events are how  *)
(* many of the match's events are stored.  The daemon's engine is reduced  *)
(* to what it does to the file: it applies snapshots it took earlier, in   *)
(* the order and with the failures of Engine.                              *)
(***************************************************************************)
EXTENDS Integers, FiniteSets, Sequences

CONSTANTS
    Matches,       \* match ids
    Total,         \* Total[m]: the events of the finished match (0: eventless)
    Kickoff,       \* Kickoff[m]: its calendar day
    Slate,         \* Slate[d]: the matches the scoreboard of day d lists
    Start, End,    \* --start-date and --end-date
    MaxFaults,     \* bound: failed calls and crashes
    MaxDaemonPolls \* bound: snapshots the daemon applies

Days == DOMAIN Slate

None == "none"

\* A match is on the slate of its kickoff day or of a neighbouring day: the
\* scoreboard rolls over by slate, not at midnight (chunk_date_range).
ASSUME BackfillAssumption ==
    /\ Total \in [Matches -> Nat]
    /\ Kickoff \in [Matches -> Int]
    /\ Days \subseteq Int
    /\ Slate \in [Days -> SUBSET Matches]
    /\ Start \in Int /\ End \in Int
    /\ Start - 1 .. End + 1 \subseteq Days
    /\ \A m \in Matches : Kickoff[m] \in Start .. End =>
           \E d \in Kickoff[m] - 1 .. Kickoff[m] + 1 : m \in Slate[d]
    /\ None \notin Matches
    /\ MaxFaults \in Nat /\ MaxDaemonPolls \in Nat

VARIABLES
    over,     \* the matches that are over at the provider
    foreign,  \* the matches whose row another source owns
    stored,   \* stored[m]: the match in the file
    touched,  \* history: the matches the daemon has written a part of
    daemon,   \* the daemon's apply in progress
    run,      \* the locals of run_backfill, and of _apply below it
    polls,    \* snapshots the daemon has taken
    faults    \* failures so far

vars == <<over, foreign, stored, touched, daemon, run, polls, faults>>

-----------------------------------------------------------------------------
States == {None, "live", "final"}

Stored == [row : States, sides : States, events : Nat]

NotStored == [row |-> None, sides |-> None, events |-> 0]

Complete(m) == stored[m] = [row |-> "final", sides |-> "final", events |-> Total[m]]

\* Mutant: no padding around the requested window.
ChunkDaysUnpadded == Start .. End

\* chunk_date_range with its default overlap of one day; empty if start > end.
ChunkDays == IF Start > End THEN {} ELSE Start - 1 .. End + 1

\* Mutant: the one-shot apply keeps the daemon's order.
BackfillOrderEventsFirst == <<"row", "events", "sides">>

\* _apply: the parts in the order they are written.
DaemonOrder == <<"row", "events", "sides">>

BackfillOrder == <<"row", "sides", "events">>

Snapshots == [state : {"live", "final"}, events : Nat]

\* What fetch_match_detail returns for a match that is over.
FinalSnapshot(m) == [state |-> "final", events |-> Total[m]]

Larger(a, b) == IF a >= b THEN a ELSE b

\* Mutant: a snapshot's event list replaces the stored one.
WrittenReplacing(rec, part, snap) ==
    CASE part = "row"    -> [rec EXCEPT !.row = snap.state]
      [] part = "sides"  -> [rec EXCEPT !.sides = snap.state]
      [] part = "events" -> [rec EXCEPT !.events = snap.events]

\* One transaction of _apply: upserts, and INSERT OR IGNORE of the events.
Written(rec, part, snap) ==
    CASE part = "row"    -> [rec EXCEPT !.row = snap.state]
      [] part = "sides"  -> [rec EXCEPT !.sides = snap.state]
      [] part = "events" -> [rec EXCEPT !.events = Larger(@, snap.events)]

Phases == {"idle", "chunk", "match", "source", "events", "detail", "apply", "done", "aborted"}

\* The local variables of run_backfill.
Runs == [pc : Phases, days : SUBSET ChunkDays, queue : SUBSET Matches,
         match : Matches \cup {None}, part : 1 .. 3, mine : BOOLEAN,
         enumerated : SUBSET Matches, skipped : SUBSET Matches,
         appliedIds : SUBSET Matches, applied : Nat, failed : SUBSET Matches,
         failedChunks : SUBSET ChunkDays, overAtStart : SUBSET Matches]

\* A match is being examined.
Examining == {"source", "events", "detail", "apply"}

NoRun == [pc |-> "idle", days |-> {}, queue |-> {}, match |-> None, part |-> 1,
          mine |-> FALSE, enumerated |-> {}, skipped |-> {}, appliedIds |-> {},
          applied |-> 0, failed |-> {}, failedChunks |-> {}, overAtStart |-> {}]

Resting == [match |-> None, part |-> 1, snap |-> [state |-> "live", events |-> 0]]

Fault == /\ faults < MaxFaults
         /\ faults' = faults + 1

-----------------------------------------------------------------------------
(* The daemon.                                                             *)

\* A match ends.
MatchEnds(m) ==
    /\ m \notin over
    /\ over' = over \cup {m}
    /\ UNCHANGED <<foreign, stored, touched, daemon, run, polls, faults>>

\* The daemon's poll sees the match and starts to apply its snapshot.  A give-up
\* closes a match with whatever events it had.
DaemonPoll(m) ==
    /\ daemon.match = None /\ polls < MaxDaemonPolls
    /\ polls' = polls + 1
    /\ \E n \in 0 .. Total[m] :
          daemon' = [match |-> m, part |-> 1,
                     snap |-> [state |-> IF m \in over THEN "final" ELSE "live", events |-> n]]
    /\ UNCHANGED <<over, foreign, stored, touched, run, faults>>

\* One transaction of the daemon's apply; CrossPartitionError ends it.
DaemonWrite ==
    LET m == daemon.match IN
    /\ m # None
    /\ IF m \in foreign
       THEN /\ daemon' = Resting
            /\ UNCHANGED <<stored, touched>>
       ELSE /\ stored' = [stored EXCEPT ![m] =
                             Written(@, DaemonOrder[daemon.part], daemon.snap)]
            /\ touched' = touched \cup {m}
            /\ daemon' = IF daemon.part = Len(DaemonOrder) THEN Resting
                         ELSE [daemon EXCEPT !.part = @ + 1]
    /\ UNCHANGED <<over, foreign, run, polls, faults>>

\* The apply raises, or the daemon dies: the parts written so far stay.
DaemonFails ==
    /\ daemon.match # None
    /\ Fault
    /\ daemon' = Resting
    /\ UNCHANGED <<over, foreign, stored, touched, run, polls>>

-----------------------------------------------------------------------------
(* The backfill command.                                                   *)

Running == run.pc \notin {"idle", "done", "aborted"}

theDaemon == <<over, foreign, touched, daemon, polls>>

\* The operator starts the command: a new process, nothing remembered.
StartRun ==
    /\ ~Running
    /\ run' = [NoRun EXCEPT !.pc = "chunk", !.days = ChunkDays, !.overAtStart = over]
    /\ UNCHANGED <<theDaemon, stored, faults>>

\* d is the next chunk of the iteration.
NextDay(d) == run.pc = "chunk" /\ d \in run.days /\ \A e \in run.days : d <= e

\* _fetch_terminal_matches for the next chunk.
FetchChunk(d) ==
    /\ NextDay(d)
    /\ run' = [run EXCEPT !.pc = "match", !.days = @ \ {d}, !.queue = Slate[d] \cap over]
    /\ UNCHANGED <<theDaemon, stored, faults>>

\* fetch_schedule raises: the chunk is recorded and the next one tried.
ChunkFails(d) ==
    /\ NextDay(d)
    /\ Fault
    /\ run' = [run EXCEPT !.days = @ \ {d}, !.failedChunks = @ \cup {d}]
    /\ UNCHANGED <<theDaemon, stored>>

ChunkDone ==
    /\ run.pc = "match" /\ run.queue = {}
    /\ run' = [run EXCEPT !.pc = "chunk"]
    /\ UNCHANGED <<theDaemon, stored, faults>>

\* The report is returned.
EndRun ==
    /\ run.pc = "chunk" /\ run.days = {}
    /\ run' = [run EXCEPT !.pc = "done"]
    /\ UNCHANGED <<theDaemon, stored, faults>>

\* match_id in applied_ids
AppliedBefore(m) == m \in run.appliedIds

\* The next match of the chunk, up to the applied_ids check.
NextMatch(m) ==
    /\ run.pc = "match" /\ m \in run.queue
    /\ run' = IF AppliedBefore(m)
              THEN [run EXCEPT !.queue = @ \ {m}, !.enumerated = @ \cup {m},
                               !.skipped = @ \cup {m}]
              ELSE [run EXCEPT !.queue = @ \ {m}, !.enumerated = @ \cup {m},
                               !.pc = "source", !.match = m]
    /\ UNCHANGED <<theDaemon, stored, faults>>

\* stored_source_and_has_events: the row, looked up among this source's own.
CheckSource ==
    /\ run.pc = "source"
    /\ run' = [run EXCEPT !.pc = "events",
                          !.mine = run.match \notin foreign /\ stored[run.match].row # None]
    /\ UNCHANGED <<theDaemon, stored, faults>>

\* Mutant: any row of this source counts as stored.
AlreadyStoredByRow == run.mine

\* stored_source == source and has_events
AlreadyStored == run.mine /\ stored[run.match].events > 0

\* stored_source_and_has_events: has_any_event, and the skip.
CheckEvents ==
    /\ run.pc = "events"
    /\ run' = IF AlreadyStored
              THEN [run EXCEPT !.pc = "match", !.skipped = @ \cup {run.match}, !.match = None]
              ELSE [run EXCEPT !.pc = "detail"]
    /\ UNCHANGED <<theDaemon, stored, faults>>

FetchDetail ==
    /\ run.pc = "detail"
    /\ run' = [run EXCEPT !.pc = "apply", !.part = 1]
    /\ UNCHANGED <<theDaemon, stored, faults>>

\* Mutant: a success leaves the failure of an earlier chunk in the report.
SucceededKeepingFailure(r) ==
    [r EXCEPT !.pc = "match", !.match = None, !.appliedIds = @ \cup {r.match},
              !.applied = @ + 1]

\* The apply returned a baseline.
Succeeded(r) ==
    [r EXCEPT !.pc = "match", !.match = None, !.failed = @ \ {r.match},
              !.appliedIds = @ \cup {r.match}, !.applied = @ + 1]

\* One transaction of apply_one_off_match; CrossPartitionError ends the run.
ApplyPart ==
    LET m == run.match IN
    /\ run.pc = "apply"
    /\ IF m \in foreign
       THEN /\ run' = [run EXCEPT !.pc = "aborted", !.match = None]
            /\ UNCHANGED stored
       ELSE /\ stored' = [stored EXCEPT ![m] =
                             Written(@, BackfillOrder[run.part], FinalSnapshot(m))]
            /\ run' = IF run.part = Len(BackfillOrder) THEN Succeeded(run)
                      ELSE [run EXCEPT !.part = @ + 1]
    /\ UNCHANGED <<theDaemon, faults>>

\* A read of the skip check, the fetch or a write raises, or seed_match returns
\* None: the match is reported as failed and the loop goes on.
MatchFails ==
    /\ run.pc \in Examining
    /\ Fault
    /\ run' = [run EXCEPT !.pc = "match", !.failed = @ \cup {run.match}, !.match = None]
    /\ UNCHANGED <<theDaemon, stored>>

\* The command dies.
RunDies ==
    /\ Running
    /\ Fault
    /\ run' = NoRun
    /\ UNCHANGED <<theDaemon, stored>>

-----------------------------------------------------------------------------
Init ==
    /\ over \in SUBSET Matches
    /\ foreign \in SUBSET Matches
    /\ stored = [m \in Matches |-> NotStored]
    /\ touched = {}
    /\ daemon = Resting
    /\ run = NoRun
    /\ polls = 0
    /\ faults = 0

RunStep ==
    \/ StartRun \/ ChunkDone \/ EndRun
    \/ \E d \in ChunkDays : FetchChunk(d)
    \/ \E m \in Matches : NextMatch(m)
    \/ CheckSource \/ CheckEvents \/ FetchDetail \/ ApplyPart

Next ==
    \/ \E m \in Matches : MatchEnds(m) \/ DaemonPoll(m)
    \/ DaemonWrite \/ DaemonFails
    \/ RunStep
    \/ \E d \in ChunkDays : ChunkFails(d)
    \/ MatchFails \/ RunDies

\* Matches end, the processes run, and the operator runs the command again and
\* again: "a match whose side-table persist failed is retried on a rerun".
Fairness ==
    /\ \A m \in Matches : WF_vars(MatchEnds(m))
    /\ WF_vars(DaemonWrite)
    /\ WF_vars(RunStep)

Spec == Init /\ [][Next]_vars /\ Fairness

-----------------------------------------------------------------------------
(* Properties.                                                             *)

TypeOK ==
    /\ over \in SUBSET Matches /\ foreign \in SUBSET Matches /\ touched \in SUBSET Matches
    /\ stored \in [Matches -> Stored]
    /\ \A m \in Matches : stored[m].events <= Total[m]
    /\ daemon \in [match : Matches \cup {None}, part : 1 .. 3, snap : Snapshots]
    /\ run \in Runs
    /\ run.match # None <=> run.pc \in Examining
    /\ polls \in Nat /\ faults \in Nat

\* The skip check is sound against the command's own crashes and failures: what
\* it takes for stored is stored in full, unless the daemon wrote a part of it.
\* A run that died inside an apply never makes a later run skip the match.
SkipReliable ==
    [][(run.pc = "events" /\ run'.pc = "match" /\ run'.skipped # run.skipped)
          => (Complete(run.match) \/ run.match \in touched)]_vars

\* What a run counts as applied has all its events in the file, whatever the
\* daemon writes before or after, and all its parts if the daemon stays away.
AppliedMeansStored ==
    \A m \in run.appliedIds :
        /\ stored[m].events = Total[m]
        /\ m \notin touched => Complete(m)

\* The report: no match is both applied and failed or applied twice, although
\* padded chunks enumerate a match several times and either occurrence can fail,
\* and every match enumerated is accounted for.
ReportConsistent ==
    /\ run.appliedIds \cap run.failed = {}
    /\ run.applied = Cardinality(run.appliedIds)
    /\ run.pc # "aborted" =>
          run.enumerated \subseteq run.appliedIds \cup run.skipped \cup run.failed \cup {run.match}

Clean == run.pc = "done" /\ run.failed = {} /\ run.failedChunks = {}

\* A run that reports no failure has brought in every match of the requested days
\* that was over when it started: the padding finds it whatever slate it is on,
\* and the skip check passed over none that was not there.
CleanRunComplete ==
    Clean => \A m \in run.overAtStart :
                 Kickoff[m] \in Start .. End => Complete(m) \/ m \in touched

\* Run again often enough, the command brings in every match the daemon left alone.
Backfilled ==
    (foreign = {}) => <>[](\A m \in Matches :
        Kickoff[m] \in Start .. End => Complete(m) \/ m \in touched)

=============================================================================
