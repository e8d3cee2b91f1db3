------------------------------ MODULE Snapshots ------------------------------
(***************************************************************************)
(* Match snapshots and the pure functions the engine combines them with:   *)
(* src/gamecollect/provider.py (the snapshot), fallback_merge.py (the      *)
(* accumulated fallback), diffing.py (what changed) and the merge helpers  *)
(* of engine.py.                                                           *)
(*                                                                         *)
(* Abstracted data: `info' stands for every identity field and payload key *)
(* (home_team, away_team, kickoff_utc, payload): all of them follow one    *)
(* rule, a known value is never replaced by an unknown one.  The two       *)
(* scores are one function on Sides.  An event list, whose seqs are        *)
(* distinct, is the function from its seqs to their contents.              *)
(***************************************************************************)
EXTENDS Integers, FiniteSets

CONSTANTS
    Sides,     \* home and away
    Scores,    \* goals of one side
    Minutes,   \* match minutes
    Clocks,    \* display clocks
    Infos,     \* identities and payloads
    Seqs,      \* event sequence numbers
    Contents,  \* event contents
    Null       \* None

Statuses == {"SCHEDULED", "IN_PLAY", "PAUSED", "FINISHED", "UNKNOWN"}

LIVE_STATUSES == {"IN_PLAY", "PAUSED"}

EventLists == UNION {[S -> Contents] : S \in SUBSET Seqs}

NoEvents == [q \in {} |-> Null]

Snapshot == [status : Statuses, minute : Minutes \cup {Null}, clock : Clocks \cup {Null},
             score : [Sides -> Scores \cup {Null}], info : Infos \cup {Null},
             events : EventLists]

ASSUME SnapshotAssumption ==
    /\ Scores \subseteq Nat
    /\ Minutes \subseteq Nat
    /\ Seqs \subseteq Nat
    /\ IsFiniteSet(Seqs)
    /\ Null \notin Scores \cup Minutes \cup Clocks \cup Infos \cup Contents
    /\ Null \notin Snapshot

Terminal(s) == s.status = "FINISHED"

Live(s) == s.status \in LIVE_STATUSES

\* How authoritative a status is.
StatusRank == [UNKNOWN |-> -1, SCHEDULED |-> 0, IN_PLAY |-> 1, PAUSED |-> 1, FINISHED |-> 2]

-----------------------------------------------------------------------------
(* Merging what the provider says of one match.                            *)

\* The first value unless it is unknown.
Prefer(x, y) == IF x # Null THEN x ELSE y

PreferScores(f, g) == [s \in Sides |-> Prefer(f[s], g[s])]

\* snap with what it does not know filled from base (its events are its own).
MergeOverBase(base, snap) ==
    [snap EXCEPT !.info = Prefer(snap.info, base.info),
                 !.score = PreferScores(snap.score, base.score)]

\* The detail of a match over its scoreboard snapshot.  A detail whose status
\* lags the board's yields status, clock and scores to the board.
MergeDetail(board, detail) ==
    LET merged == MergeOverBase(board, detail) IN
    IF StatusRank[detail.status] < StatusRank[board.status]
    THEN [merged EXCEPT !.status = board.status, !.minute = board.minute,
                        !.clock = board.clock,
                        !.score = PreferScores(board.score, merged.score)]
    ELSE merged

-----------------------------------------------------------------------------
(* The accumulated fallback of a tracker.                                  *)

\* The larger of the known values; the same for max_known and non_regressing_score.
MaxKnown(a, b) ==
    CASE a = Null -> b
      [] a # Null /\ b = Null -> a
      [] a # Null /\ b # Null -> IF a >= b THEN a ELSE b

MaxScores(f, g) == [s \in Sides |-> MaxKnown(f[s], g[s])]

Below(a, b) == a # Null /\ b # Null /\ a < b

\* new takes back a goal that old knew of.
Regressed(old, new) == \E s \in Sides : Below(new.score[s], old.score[s])

SameClass(s, t) == Terminal(s) <=> Terminal(t)

\* The reset board: a regression within one terminality class.
Vetoed(old, new) == Regressed(old, new) /\ SameClass(old, new)

\* Mutant: the newer side always defines the status.
IncumbentWinsNever(old, new) == Vetoed(old, new)

\* The incumbent defines the status: it vetoes, or it alone is terminal.
IncumbentWins(old, new) == Vetoed(old, new) \/ (Terminal(old) /\ ~Terminal(new))

\* Mutant: any state may lend its clock.
ClockEligibleAny(winner, other) == TRUE

\* May `other' fill the clock of `winner'?
ClockEligible(winner, other) == other.status = winner.status

\* The minute and display clock of an accumulated fallback: the winner's, each
\* filled from the other side unless that side is vetoed, of another status, or
\* contradicts the half of the clock that the winner knows.
PairedMinute(winner, other, vetoed) ==
    IF /\ winner.minute = Null /\ ~vetoed /\ ClockEligible(winner, other)
       /\ winner.clock = Null \/ other.clock \in {Null, winner.clock}
    THEN other.minute ELSE winner.minute

PairedDisplay(winner, other, vetoed) ==
    IF /\ winner.clock = Null /\ ~vetoed /\ ClockEligible(winner, other)
       /\ winner.minute = Null \/ other.minute \in {Null, winner.minute}
    THEN other.clock ELSE winner.clock

\* Mutant: the longer list wins whatever its authority.
AccruedEventsLonger(old, new) ==
    IF Cardinality(DOMAIN new.events) >= Cardinality(DOMAIN old.events)
    THEN new.events ELSE old.events

\* An authoritative winner's list if it has one; else a terminal newer list;
\* else the longer one.
AccruedEvents(old, new) ==
    LET authoritative == Vetoed(old, new) \/ ~SameClass(old, new)
        winner == IF IncumbentWins(old, new) THEN old.events ELSE new.events
        other  == IF IncumbentWins(old, new) THEN new.events ELSE old.events
    IN  CASE authoritative -> IF winner # NoEvents THEN winner ELSE other
          [] ~authoritative /\ new.events # NoEvents /\ Terminal(new) -> new.events
          [] ~authoritative /\ ~(new.events # NoEvents /\ Terminal(new)) ->
                IF Cardinality(DOMAIN new.events) >= Cardinality(DOMAIN old.events)
                THEN new.events ELSE old.events

\* Everything seen so far (old, or Null) and one more observation.
AccrueFallback(old, new) ==
    IF old = Null THEN new ELSE
    LET winner == IF IncumbentWins(old, new) THEN old ELSE new
        other  == IF IncumbentWins(old, new) THEN new ELSE old
    IN  [status |-> winner.status,
         minute |-> PairedMinute(winner, other, Vetoed(old, new)),
         clock  |-> PairedDisplay(winner, other, Vetoed(old, new)),
         score  |-> MaxScores(old.score, new.score),
         info   |-> Prefer(winner.info, other.info),
         events |-> AccruedEvents(old, new)]

\* Does the applied live state supersede a captured fallback?  It knows every
\* captured score, and is ahead of one or, when both are known, of the minute.
LiveSupersedes(applied, fallback) ==
    LET captured == {s \in Sides : fallback.score[s] # Null} IN
    /\ \A s \in captured : applied.score[s] # Null /\ applied.score[s] >= fallback.score[s]
    /\ \/ \E s \in captured : applied.score[s] > fallback.score[s]
       \/ captured = Sides /\ Below(fallback.minute, applied.minute)

\* Is there anything in the fallback that only it knows?
WorthRetaining(fallback) ==
    \/ fallback.events # NoEvents
    \/ \E s \in Sides : fallback.score[s] # Null
    \/ Terminal(fallback)

-----------------------------------------------------------------------------
(* The give-up decision table: a candidate against the stored row (or Null). *)

\* G1: a stored score is never taken back.
NonRegressScore(snap, stored) ==
    IF stored = Null THEN snap.score ELSE MaxScores(snap.score, stored.score)

\* Mutant: what was captured last is persisted under its own status.
NonRegressOverStoredOpen(snap, stored, forceTerminal) ==
    [snap EXCEPT !.score = NonRegressScore(snap, stored)]

NonRegressOverStored(snap, stored, forceTerminal) ==
    LET coerced == forceTerminal /\ ~Terminal(snap)
        closed  == stored # Null /\ Terminal(stored)
        minute  == IF coerced THEN Null ELSE snap.minute
        clock   == IF coerced THEN Null ELSE snap.clock
    IN  [snap EXCEPT
            !.status = IF coerced \/ closed THEN "FINISHED" ELSE @,
            !.minute = IF closed THEN Prefer(minute, stored.minute) ELSE minute,
            !.clock  = IF closed THEN Prefer(clock, stored.clock) ELSE clock,
            !.score  = NonRegressScore(snap, stored)]

-----------------------------------------------------------------------------
(* The diff of a snapshot against the last one (or Null).                  *)

StateOf(s) == [s EXCEPT !.events = NoEvents]

StateChanged(snap, last) == last = Null \/ StateOf(snap) # StateOf(last)

\* The events of snap that last does not carry with the same content.
NewEvents(snap, last) ==
    LET fresh == {q \in DOMAIN snap.events :
                     \/ last = Null
                     \/ q \notin DOMAIN last.events
                     \/ last.events[q] # snap.events[q]}
    IN  [q \in fresh |-> snap.events[q]]

HasChanges(snap, last) == StateChanged(snap, last) \/ NewEvents(snap, last) # NoEvents
=============================================================================
