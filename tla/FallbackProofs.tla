----------------------------- MODULE FallbackProofs -----------------------------
(***************************************************************************)
(* Theorems about Fallback, for any set of observations, scores, clocks    *)
(* and events.                                                             *)
(***************************************************************************)
EXTENDS Fallback, SnapshotProofs

\* The seed of a tracker is captured state, or nothing.
LEMMA SeededType ==
    ASSUME TypeOK
    PROVE  Seeded(tracking, cooling) \in Snapshot \cup {Null}
BY DEF Seeded, TypeOK

-----------------------------------------------------------------------------
(* Type correctness.                                                       *)

\* The highest scores stay scores.
LEMMA CaptureType ==
    ASSUME TypeOK, NEW o \in Observations, Capture(o)
    PROVE  best' \in [Sides -> Scores \cup {Null}] /\ sawFinal' \in BOOLEAN
<1>1. o.score \in [Sides -> Scores \cup {Null}]
  BY ObservationAssumption DEF Snapshot
<1>2. best' \in [Sides -> Scores \cup {Null}]
  BY <1>1, MaxKnownType DEF Capture, MaxScores, TypeOK
<1>3. sawFinal' \in BOOLEAN
  BY DEF Capture, Terminal, TypeOK
<1>4. QED BY <1>2, <1>3

\* Every step keeps the types.
LEMMA TypeStep == TypeOK /\ [Next]_vars => TypeOK'
<1> SUFFICES ASSUME TypeOK, [Next]_vars PROVE TypeOK'
  OBVIOUS
<1>1. ASSUME NEW o \in Observations, Track(o) PROVE TypeOK'
  <2>1. tracking' \in Snapshot
    BY <1>1, SeededType, AccrueType, ObservationAssumption DEF Track
  <2>2. QED BY <1>1, <2>1, CaptureType DEF Track, TypeOK
<1>2. ASSUME NEW o \in Observations, Cool(o) PROVE TypeOK'
  <2>1. cooling' \in Snapshot
    BY <1>2, AccrueType, ObservationAssumption DEF Cool, TypeOK
  <2>2. QED BY <1>2, <2>1, CaptureType DEF Cool, TypeOK
<1>3. CASE Abandon
  <2>1. cooling' \in Snapshot
    BY <1>3, AccrueType DEF Abandon, TypeOK
  <2>2. QED BY <1>3, <2>1 DEF Abandon, TypeOK
<1>4. CASE UNCHANGED vars
  BY <1>4 DEF vars, TypeOK
<1>5. QED BY <1>1, <1>2, <1>3, <1>4 DEF Next

\* The initial state is well typed.
LEMMA TypeInit == Init => TypeOK
BY DEF Init, TypeOK

\* Whatever is captured of a match is a snapshot (accrue_fallback, _enter_cooldown).
THEOREM TypeCorrect == Spec => []TypeOK
BY TypeInit, TypeStep, PTL DEF Spec

-----------------------------------------------------------------------------
(* What is captured.                                                       *)

\* Seeded(tracking, cooling), in the two cases.
LEMMA SeededCases ==
    /\ tracking = Null => Seeded(tracking, cooling) = cooling
    /\ tracking # Null => Seeded(tracking, cooling) = tracking
BY DEF Seeded

\* What the cooldown carries is no more than what was seen: BestScoreKept and
\* FinalKept speak of the tracker while there is one, and need this of the cooldown
\* that a next abandonment accrues it into.
CoolingBelow ==
    cooling # Null => /\ \A s \in Sides : MaxKnown(cooling.score[s], best[s]) = best[s]
                      /\ Terminal(cooling) => sawFinal

KeptInv == TypeOK /\ BestScoreKept /\ FinalKept /\ CoolingBelow

\* A state that captured one more observation.
LEMMA CaptureEffect ==
    ASSUME KeptInv, NEW o \in Observations, Capture(o)
    PROVE  LET f == AccrueFallback(Seeded(tracking, cooling), o) IN
           /\ \A s \in Sides : best'[s] = f.score[s]
           /\ sawFinal' <=> Terminal(f)
<1> DEFINE old == Seeded(tracking, cooling)
           f == AccrueFallback(old, o)
<1>1. o \in Snapshot /\ old \in Snapshot \cup {Null}
  BY ObservationAssumption, SeededType DEF KeptInv
<1>2. ASSUME NEW s \in Sides PROVE best'[s] = MaxKnown(best[s], o.score[s])
  BY DEF Capture, MaxScores
<1>3. CASE old = Null
  <2>1. f = o
    BY <1>3 DEF AccrueFallback
  <2>2. ASSUME NEW s \in Sides PROVE best'[s] = f.score[s]
    <3>1. best[s] = Null
      BY <1>3 DEF KeptInv, BestScoreKept
    <3>2. o.score[s] \in Scores \cup {Null}
      BY <1>1 DEF Snapshot
    <3>3. QED BY <1>2, <2>1, <3>1, <3>2, MaxKnownLaws
  <2>3. sawFinal' <=> Terminal(f)
    BY <1>3, <2>1 DEF KeptInv, FinalKept, Capture
  <2>4. QED BY <2>2, <2>3
<1>4. CASE old # Null
  <2>1. old \in Snapshot
    BY <1>1, <1>4
  <2>2. ASSUME NEW s \in Sides PROVE best'[s] = f.score[s]
    <3>1. best[s] = old.score[s]
      BY <1>4 DEF KeptInv, BestScoreKept
    <3>2. f.score[s] = MaxKnown(old.score[s], o.score[s])
      BY <1>1, <2>1, AccrueScore
    <3>3. QED BY <1>2, <3>1, <3>2
  <2>3. sawFinal' <=> Terminal(f)
    <3>1. Terminal(f) <=> Terminal(old) \/ Terminal(o)
      BY <1>1, <2>1, AccrueTerminal
    <3>2. sawFinal <=> Terminal(old)
      BY <1>4 DEF KeptInv, FinalKept
    <3>3. QED BY <3>1, <3>2 DEF Capture
  <2>4. QED BY <2>2, <2>3
<1>5. QED BY <1>3, <1>4

\* A tracked observation.
LEMMA KeptTrack ==
    ASSUME KeptInv, NEW o \in Observations, Track(o)
    PROVE  BestScoreKept' /\ FinalKept' /\ CoolingBelow'
<1> DEFINE f == AccrueFallback(Seeded(tracking, cooling), o)
<1>1. o \in Snapshot /\ Seeded(tracking, cooling) \in Snapshot \cup {Null}
  BY ObservationAssumption, SeededType DEF KeptInv
<1>2. tracking' = f /\ cooling' = cooling /\ Capture(o)
  BY DEF Track
<1>3. tracking' # Null /\ Seeded(tracking, cooling)' = f
  BY <1>1, <1>2, AccrueKnown DEF Seeded
<1>4. /\ \A s \in Sides : best'[s] = f.score[s]
      /\ sawFinal' <=> Terminal(f)
  BY <1>2, CaptureEffect
<1>5. BestScoreKept'
  BY <1>2, <1>3, <1>4 DEF BestScoreKept
<1>6. FinalKept'
  BY <1>2, <1>3, <1>4 DEF FinalKept
<1>7. CoolingBelow'
  <2>1. SUFFICES ASSUME cooling # Null
                 PROVE  /\ \A s \in Sides : MaxKnown(cooling.score[s], best'[s]) = best'[s]
                        /\ Terminal(cooling) => sawFinal'
    BY <1>2 DEF CoolingBelow
  <2>2. ASSUME NEW s \in Sides PROVE MaxKnown(cooling.score[s], best'[s]) = best'[s]
    <3>1. /\ cooling.score[s] \in Scores \cup {Null}
          /\ best[s] \in Scores \cup {Null}
          /\ o.score[s] \in Scores \cup {Null}
      BY <1>1, <2>1 DEF KeptInv, TypeOK, Snapshot
    <3>2. best'[s] = MaxKnown(best[s], o.score[s])
      BY <1>2 DEF Capture, MaxScores
    <3>3. MaxKnown(cooling.score[s], best[s]) = best[s]
      BY <2>1 DEF KeptInv, CoolingBelow
    <3>4. QED BY <3>1, <3>2, <3>3, MaxKnownLaws
  <2>3. Terminal(cooling) => sawFinal'
    BY <1>2, <2>1 DEF KeptInv, CoolingBelow, Capture
  <2>4. QED BY <2>2, <2>3
<1>8. QED BY <1>5, <1>6, <1>7

\* An observation during the cooldown.
LEMMA KeptCool ==
    ASSUME KeptInv, NEW o \in Observations, Cool(o)
    PROVE  BestScoreKept' /\ FinalKept' /\ CoolingBelow'
<1> DEFINE f == AccrueFallback(cooling, o)
<1>1. o \in Snapshot /\ cooling \in Snapshot \cup {Null}
  BY ObservationAssumption DEF KeptInv, TypeOK
<1>2. tracking = Null /\ tracking' = Null /\ cooling' = f /\ Capture(o)
  BY DEF Cool
<1>3. Seeded(tracking, cooling) = cooling /\ Seeded(tracking, cooling)' = f
  BY <1>2 DEF Seeded
<1>4. f # Null /\ f \in Snapshot
  BY <1>1, AccrueKnown, AccrueType
<1>5. /\ \A s \in Sides : best'[s] = f.score[s]
      /\ sawFinal' <=> Terminal(f)
  BY <1>2, <1>3, CaptureEffect
<1>6. BestScoreKept'
  BY <1>2, <1>3, <1>4, <1>5 DEF BestScoreKept
<1>7. FinalKept'
  BY <1>2, <1>3, <1>4, <1>5 DEF FinalKept
<1>8. CoolingBelow'
  <2>1. ASSUME NEW s \in Sides PROVE MaxKnown(f.score[s], best'[s]) = best'[s]
    <3>1. f.score[s] \in Scores \cup {Null}
      BY <1>4 DEF Snapshot
    <3>2. QED BY <1>5, <3>1, MaxKnownLaws
  <2>2. QED BY <1>2, <1>5, <2>1 DEF CoolingBelow
<1>9. QED BY <1>6, <1>7, <1>8

\* An abandonment.
LEMMA KeptAbandon ==
    ASSUME KeptInv, Abandon
    PROVE  BestScoreKept' /\ FinalKept' /\ CoolingBelow'
<1> DEFINE f == AccrueFallback(cooling, tracking)
<1>1. tracking \in Snapshot /\ cooling \in Snapshot \cup {Null}
  BY DEF KeptInv, TypeOK, Abandon
<1>2. /\ tracking # Null /\ tracking' = Null /\ cooling' = f
      /\ best' = best /\ sawFinal' = sawFinal
  BY DEF Abandon
<1>3. Seeded(tracking, cooling) = tracking /\ Seeded(tracking, cooling)' = f
  BY <1>2 DEF Seeded
<1>4. f # Null /\ f \in Snapshot
  BY <1>1, AccrueKnown, AccrueType
<1>5. ASSUME NEW s \in Sides PROVE f.score[s] = best[s]
  <2>1. best[s] = tracking.score[s]
    BY <1>2, <1>3 DEF KeptInv, BestScoreKept
  <2>2. CASE cooling = Null
    BY <2>1, <2>2 DEF AccrueFallback
  <2>3. CASE cooling # Null
    <3>1. f.score[s] = MaxKnown(cooling.score[s], tracking.score[s])
      BY <1>1, <2>3, AccrueScore
    <3>2. QED BY <2>1, <2>3, <3>1 DEF KeptInv, CoolingBelow
  <2>4. QED BY <2>2, <2>3
<1>6. sawFinal <=> Terminal(f)
  <2>1. sawFinal <=> Terminal(tracking)
    BY <1>2, <1>3 DEF KeptInv, FinalKept
  <2>2. CASE cooling = Null
    BY <2>1, <2>2 DEF AccrueFallback
  <2>3. CASE cooling # Null
    <3>1. Terminal(f) <=> Terminal(cooling) \/ Terminal(tracking)
      BY <1>1, <2>3, AccrueTerminal
    <3>2. QED BY <2>1, <2>3, <3>1 DEF KeptInv, CoolingBelow
  <2>4. QED BY <2>2, <2>3
<1>7. BestScoreKept'
  BY <1>2, <1>3, <1>4, <1>5 DEF BestScoreKept
<1>8. FinalKept'
  BY <1>2, <1>3, <1>4, <1>6 DEF FinalKept
<1>9. CoolingBelow'
  <2>1. ASSUME NEW s \in Sides PROVE MaxKnown(f.score[s], best[s]) = best[s]
    <3>1. f.score[s] \in Scores \cup {Null}
      BY <1>4 DEF Snapshot
    <3>2. QED BY <1>5, <3>1, MaxKnownLaws
  <2>2. QED BY <1>2, <1>6, <2>1 DEF CoolingBelow
<1>10. QED BY <1>7, <1>8, <1>9

\* Every step keeps the strengthened invariant.
LEMMA KeptStep == KeptInv /\ [Next]_vars => KeptInv'
<1> SUFFICES ASSUME KeptInv, [Next]_vars PROVE KeptInv'
  OBVIOUS
<1>1. TypeOK'
  BY TypeStep DEF KeptInv
<1>2. BestScoreKept' /\ FinalKept' /\ CoolingBelow'
  <2>1. CASE UNCHANGED vars
    BY <2>1 DEF vars, KeptInv, BestScoreKept, FinalKept, CoolingBelow, Seeded
  <2>2. QED BY <2>1, KeptTrack, KeptCool, KeptAbandon DEF Next
<1>3. QED BY <1>1, <1>2 DEF KeptInv

\* It holds at first.
LEMMA KeptInit == Init => KeptInv
BY TypeInit DEF Init, KeptInv, BestScoreKept, FinalKept, CoolingBelow, Seeded

\* No goal is lost and none invented, in whatever order a match is observed,
\* abandoned and tracked again (accrue_fallback, SCORES).
THEOREM BestScoreKeptAlways == Spec => []BestScoreKept
<1>1. KeptInv => BestScoreKept
  BY DEF KeptInv
<1>2. QED BY <1>1, KeptInit, KeptStep, PTL DEF Spec

\* A captured final status is never forgotten (accrue_fallback, STATUS).
THEOREM FinalKeptAlways == Spec => []FinalKept
<1>1. KeptInv => FinalKept
  BY DEF KeptInv
<1>2. QED BY <1>1, KeptInit, KeptStep, PTL DEF Spec

-----------------------------------------------------------------------------
(* Where what is captured comes from.                                      *)

\* The clock of f was observed with its status, and its events were observed.
Witnessed(f) ==
    /\ f.minute # Null => \E o \in Observations : o.status = f.status /\ o.minute = f.minute
    /\ f.clock # Null => \E o \in Observations : o.status = f.status /\ o.clock = f.clock
    /\ \E o \in Observations : o.events = f.events

\* Accruing makes nothing up.
LEMMA AccrueWitnessed ==
    ASSUME NEW old \in Snapshot \cup {Null}, NEW new \in Snapshot,
           old # Null => Witnessed(old), Witnessed(new)
    PROVE  Witnessed(AccrueFallback(old, new))
<1> DEFINE f == AccrueFallback(old, new)
<1>1. CASE old = Null
  BY <1>1 DEF AccrueFallback
<1>2. CASE old # Null
  <2>1. PICK winner \in {old, new}, other \in {old, new} :
           f = [status |-> winner.status,
                minute |-> PairedMinute(winner, other, Vetoed(old, new)),
                clock  |-> PairedDisplay(winner, other, Vetoed(old, new)),
                score  |-> MaxScores(old.score, new.score),
                info   |-> Prefer(winner.info, other.info),
                events |-> AccruedEvents(old, new)]
    BY <1>2, AccruedParts
  <2>2. Witnessed(winner) /\ Witnessed(other)
    BY <1>2
  <2>3. f.minute # Null => \E o \in Observations : o.status = f.status /\ o.minute = f.minute
    BY <2>1, <2>2 DEF PairedMinute, ClockEligible, Witnessed
  <2>4. f.clock # Null => \E o \in Observations : o.status = f.status /\ o.clock = f.clock
    BY <2>1, <2>2 DEF PairedDisplay, ClockEligible, Witnessed
  <2>5. \E o \in Observations : o.events = f.events
    <3>1. f.events \in {old.events, new.events}
      BY <2>1, AccruedEventsOneOf
    <3>2. QED BY <1>2, <3>1 DEF Witnessed
  <2>6. QED BY <2>3, <2>4, <2>5 DEF Witnessed
<1>3. QED BY <1>1, <1>2

\* An observation is its own witness.
LEMMA ObservationWitnessed == \A o \in Observations : o \in Snapshot /\ Witnessed(o)
BY ObservationAssumption DEF Witnessed

WitnessInv == TypeOK /\ \A f \in Captured : Witnessed(f)

\* Every step keeps what is captured witnessed.
LEMMA WitnessStep == WitnessInv /\ [Next]_vars => WitnessInv'
<1> SUFFICES ASSUME WitnessInv, [Next]_vars PROVE WitnessInv'
  OBVIOUS
<1>1. TypeOK'
  BY TypeStep DEF WitnessInv
<1>2. /\ tracking # Null => Witnessed(tracking)
      /\ cooling # Null => Witnessed(cooling)
      /\ Seeded(tracking, cooling) # Null => Witnessed(Seeded(tracking, cooling))
  BY DEF WitnessInv, Captured, Seeded
<1>3. /\ tracking' # Null => Witnessed(tracking')
      /\ cooling' # Null => Witnessed(cooling')
  <2>1. ASSUME NEW o \in Observations, Track(o)
        PROVE  Witnessed(tracking') /\ cooling' = cooling
    <3>1. Seeded(tracking, cooling) \in Snapshot \cup {Null}
      BY SeededType DEF WitnessInv
    <3>2. QED BY <1>2, <2>1, <3>1, AccrueWitnessed, ObservationWitnessed DEF Track
  <2>2. ASSUME NEW o \in Observations, Cool(o)
        PROVE  Witnessed(cooling') /\ tracking' = tracking
    <3>1. cooling \in Snapshot \cup {Null}
      BY DEF WitnessInv, TypeOK
    <3>2. QED BY <1>2, <2>2, <3>1, AccrueWitnessed, ObservationWitnessed DEF Cool
  <2>3. CASE Abandon
    <3>1. tracking \in Snapshot /\ cooling \in Snapshot \cup {Null}
      BY <2>3 DEF WitnessInv, TypeOK, Abandon
    <3>2. QED BY <1>2, <2>3, <3>1, AccrueWitnessed DEF Abandon
  <2>4. CASE UNCHANGED vars
    BY <1>2, <2>4 DEF vars
  <2>5. QED BY <1>2, <2>1, <2>2, <2>3, <2>4 DEF Next
<1>4. (\A f \in Captured : Witnessed(f))'
  BY <1>3 DEF Captured, Witnessed
<1>5. QED BY <1>1, <1>4 DEF WitnessInv

\* Nothing is captured at first.
LEMMA WitnessInit == Init => WitnessInv
BY TypeInit DEF Init, WitnessInv, Captured

\* Neither half of a captured clock is ever shown with a status it was not
\* observed with (paired_clock, X1).
THEOREM ClockWitnessedAlways == Spec => []ClockWitnessed
<1>1. WitnessInv => ClockWitnessed
  BY DEF WitnessInv, Witnessed, ClockWitnessed
<1>2. QED BY <1>1, WitnessInit, WitnessStep, PTL DEF Spec

\* A captured event list is one that was observed (accrue_fallback, EVENTS).
THEOREM EventsWitnessedAlways == Spec => []EventsWitnessed
<1>1. WitnessInv => EventsWitnessed
  BY DEF WitnessInv, Witnessed, EventsWitnessed
<1>2. QED BY <1>1, WitnessInit, WitnessStep, PTL DEF Spec

\* While a final state is captured, its event list only gives way to the list of
\* another final observation (accrue_fallback, X4 and Y1).
THEOREM FinalListKeptAlways == Spec => FinalListKept
<1> DEFINE Held == tracking # Null /\ Terminal(tracking) /\ tracking.events # NoEvents
           Replaced == tracking' # Null /\ tracking'.events # tracking.events
           ByFinal == \E o \in Observations : Track(o) /\ Terminal(o) /\ o.events = tracking'.events
<1>1. TypeOK /\ [Next]_vars => [(Held /\ Replaced) => ByFinal]_vars
  <2> SUFFICES ASSUME TypeOK, Next, Held, Replaced PROVE ByFinal
    OBVIOUS
  <2>1. PICK o \in Observations : Track(o)
    BY DEF Next, Cool, Abandon
  <2>2. tracking' = AccrueFallback(tracking, o)
    BY <2>1 DEF Track, Seeded
  <2>3. tracking \in Snapshot /\ o \in Snapshot
    BY ObservationAssumption DEF TypeOK
  <2>4. Terminal(o) /\ tracking'.events = o.events
    BY <2>2, <2>3, FinalListOnly
  <2>5. QED BY <2>1, <2>4
<1>2. QED BY <1>1, TypeCorrect, PTL DEF Spec, FinalListKept
=============================================================================
