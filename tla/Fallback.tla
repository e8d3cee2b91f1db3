------------------------------- MODULE Fallback -------------------------------
(***************************************************************************)
(* What the engine captures of one match that it cannot close yet: the     *)
(* fallback of its tracker and the fallback that its abandonment cooldown  *)
(* carries on (_TransitionTracker, _Cooldown, _tracker, _enter_cooldown in *)
(* engine.py), each built by AccrueFallback from the observations the      *)
(* provider happens to send, in any order.                                 *)
(*                                                                         *)
(* best and sawFinal are history: the highest score and whether a final    *)
(* status was among the observations captured so far.                      *)
(***************************************************************************)
EXTENDS Snapshots

CONSTANT Observations  \* the snapshots the provider sends

ASSUME ObservationAssumption == Observations \subseteq Snapshot

VARIABLES
    tracking,  \* the tracker's fallback; Null when there is none
    cooling,   \* the cooldown's fallback; Null when there is none
    best,      \* best[s]: the highest score of a side captured so far
    sawFinal   \* a FINISHED observation has been captured

vars == <<tracking, cooling, best, sawFinal>>

Capture(o) ==
    /\ best' = MaxScores(best, o.score)
    /\ sawFinal' = (sawFinal \/ Terminal(o))

\* Mutant: a new tracker forgets what the cooldown carried.
SeededFresh(fallback, carried) == fallback

\* A tracker is created with the fallback its match's cooldown carries.
Seeded(fallback, carried) == IF fallback = Null THEN carried ELSE fallback

\* A tracked match is observed; the first observation creates its tracker.
Track(o) ==
    /\ tracking' = AccrueFallback(Seeded(tracking, cooling), o)
    /\ Capture(o)
    /\ UNCHANGED cooling

\* A match without a tracker is observed while its cooldown runs.
Cool(o) ==
    /\ tracking = Null
    /\ cooling' = AccrueFallback(cooling, o)
    /\ Capture(o)
    /\ UNCHANGED tracking

\* _abandon: the tracker goes, the cooldown accrues what it had captured.
Abandon ==
    /\ tracking # Null
    /\ cooling' = AccrueFallback(cooling, tracking)
    /\ tracking' = Null
    /\ UNCHANGED <<best, sawFinal>>

Init ==
    /\ tracking = Null
    /\ cooling = Null
    /\ best = [s \in Sides |-> Null]
    /\ sawFinal = FALSE

Next ==
    \/ \E o \in Observations : Track(o) \/ Cool(o)
    \/ Abandon

Spec == Init /\ [][Next]_vars

-----------------------------------------------------------------------------
(* Properties.                                                             *)

TypeOK ==
    /\ tracking \in Snapshot \cup {Null}
    /\ cooling \in Snapshot \cup {Null}
    /\ best \in [Sides -> Scores \cup {Null}]
    /\ sawFinal \in BOOLEAN

Captured == {tracking, cooling} \ {Null}

\* No goal is lost and none invented, however often the match is abandoned and
\* re-tracked and whatever order observations come in: what the engine would
\* persist now has, on each side, exactly the highest score it was ever shown
\* (the SCORES rule of accrue_fallback).
BestScoreKept ==
    LET current == Seeded(tracking, cooling) IN
    \A s \in Sides : best[s] = IF current = Null THEN Null ELSE current.score[s]

\* A final status, once captured, is never forgotten: neither a later live board
\* nor a reset board nor an abandonment takes it back (accrue_fallback, STATUS).
FinalKept ==
    sawFinal <=> (Seeded(tracking, cooling) # Null /\ Terminal(Seeded(tracking, cooling)))

\* Each half of a captured clock was observed together with the captured status:
\* the minute of live play never shows in a final state (paired_clock, X1).
ClockWitnessed ==
    \A f \in Captured :
        /\ f.minute # Null => \E o \in Observations : o.status = f.status /\ o.minute = f.minute
        /\ f.clock # Null => \E o \in Observations : o.status = f.status /\ o.clock = f.clock

\* A captured event list is one that the provider sent, never a mixture of
\* two of them, whose seqs would not line up (accrue_fallback, EVENTS).
EventsWitnessed == \A f \in Captured : \E o \in Observations : o.events = f.events

\* While a final state is captured, its event list only ever gives way to the list
\* of the final observation that comes in (accrue_fallback, X4 and Y1): the longer
\* list of a lagging live detail does not get in.
FinalListKept ==
    [][(/\ tracking # Null /\ Terminal(tracking) /\ tracking.events # NoEvents
        /\ tracking' # Null /\ tracking'.events # tracking.events)
          => \E o \in Observations : Track(o) /\ Terminal(o) /\ o.events = tracking'.events]_vars
=============================================================================
