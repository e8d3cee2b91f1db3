------------------------------ MODULE FeedProofs ------------------------------
(***************************************************************************)
(* What the diff, the refused batch and the drift log guarantee of one     *)
(* match, for every list that ESPN may send and every change of it.        *)
(*                                                                         *)
(* Three facts carry the argument.  The baseline holds nothing that the    *)
(* log lacks or has otherwise, so an event that is not diffed again is     *)
(* stored as it was sent.  What the latest poll reported is remembered, so *)
(* the same report of the next poll is recognised.  And neither ESPN's     *)
(* positions nor the log's have gaps, so whatever of a list is not in the  *)
(* log is above its head, where the writer takes it.                       *)
(***************************************************************************)
EXTENDS Feed, SequenceTheorems, WellFoundedInduction, TLAPS

BaselineStored == last # Null => Begins(last.events, log)

Remembered == \A q \in DOMAIN reported : q \in DOMAIN logged /\ logged[q] = reported[q]

FeedInv == BaselineStored /\ DriftStaysLoud /\ Remembered

-----------------------------------------------------------------------------
(* The operators of a poll.                                                *)

\* What is not new is in the baseline, and so in the log.
LEMMA OldIsStored ==
  ASSUME BaselineStored, NEW events, NEW q \in DOMAIN events, q \notin DOMAIN NewEvents(events)
  PROVE  q \in DOMAIN log /\ log[q] = events[q]
<1>1. last # Null /\ q \in DOMAIN last.events /\ last.events[q] = events[q]
  BY DEF NewEvents
<1> QED BY <1>1 DEF BaselineStored, Begins

LEMMA NewAsSent ==
  ASSUME NEW events, NEW q \in DOMAIN NewEvents(events)
  PROVE  q \in DOMAIN events /\ NewEvents(events)[q] = events[q]
BY DEF NewEvents

\* Stored rows are never changed.
LEMMA LogBegins == ASSUME NEW new PROVE Begins(log, Extended(new))
BY DEF Begins, Extended

\* A batch that is not refused is stored as it was sent.
LEMMA StoredAsSent ==
  ASSUME BaselineStored, NEW events, ~Conflict(NewEvents(events))
  PROVE  Begins(events, Extended(NewEvents(events)))
<1> DEFINE new == NewEvents(events)
<1> SUFFICES ASSUME NEW q \in DOMAIN events
             PROVE  q \in DOMAIN Extended(new) /\ events[q] = Extended(new)[q]
  BY DEF Begins
<1>1. CASE q \in DOMAIN new
  <2>1. new[q] = events[q]
    BY <1>1, NewAsSent
  <2>2. IF q \in DOMAIN log THEN log[q] = new[q] ELSE AboveHead(q, log)
    BY <1>1 DEF Conflict
  <2> HIDE DEF new
  <2> QED BY <1>1, <2>1, <2>2 DEF Extended
<1>2. CASE q \notin DOMAIN new
  <2>1. q \in DOMAIN log /\ log[q] = events[q]
    BY <1>2, OldIsStored
  <2> QED BY <2>1, LogBegins DEF Begins
<1> QED BY <1>1, <1>2

\* A position that a poll contradicts is among the mismatches.
LEMMA DriftIsMismatch ==
  ASSUME BaselineStored, NEW events, NEW q \in DOMAIN events \cap DOMAIN Extended(NewEvents(events)),
         events[q] # Extended(NewEvents(events))[q]
  PROVE  q \in Mismatches(NewEvents(events))
<1> DEFINE new == NewEvents(events)
<1>1. q \in DOMAIN new
  <2>1. SUFFICES ASSUME q \notin DOMAIN new PROVE FALSE
    OBVIOUS
  <2>2. q \in DOMAIN log /\ log[q] = events[q]
    BY <2>1, OldIsStored
  <2> QED BY <2>2, LogBegins DEF Begins
<1>2. new[q] = events[q]
  BY <1>1, NewAsSent
<1> HIDE DEF new
<1>3. q \in DOMAIN Extended(new) /\ events[q] # Extended(new)[q]
  BY DEF new
<1>4. q \in DOMAIN log /\ log[q] # new[q]
  BY <1>1, <1>2, <1>3 DEF Extended
<1>5. q \in Mismatches(new)
  BY <1>1, <1>4 DEF Mismatches
<1> QED BY <1>5 DEF new

\* What is reported is remembered after the apply, whatever is evicted.
LEMMA ReportsRemembered ==
  ASSUME NEW new, NEW q \in DOMAIN Reports(new)
  PROVE  q \in DOMAIN LoggedAfter(new) /\ LoggedAfter(new)[q] = Reports(new)[q]
<1>1. q \in Mismatches(new) /\ Reports(new)[q] = Signature(q, new)
  BY DEF Reports
<1> QED BY <1>1 DEF LoggedAfter

-----------------------------------------------------------------------------
(* The steps.                                                              *)

LEMMA InitInv == Init => FeedInv
BY DEF Init, FeedInv, BaselineStored, DriftStaysLoud, Remembered, NoEvents

\* ESPN touches nothing of the collector's.
LEMMA EspnInv ==
  ASSUME FeedInv, UNCHANGED <<row, log, last, drift, polled>>
  PROVE  FeedInv'
BY DEF FeedInv, BaselineStored, DriftStaysLoud, Remembered, Begins, drift

LEMMA UnchangedInv ==
  ASSUME FeedInv, NEW events, PollUnchanged(events), polled' = events \/ polled' = Null
  PROVE  FeedInv'
<1>1. UNCHANGED <<log, last>> /\ reported' = NoEvents /\ NewEvents(events) = NoEvents
  BY DEF PollUnchanged
<1>2. DriftStaysLoud'
  <2> SUFFICES ASSUME polled' # Null, NEW q \in DOMAIN polled' \cap DOMAIN log'
               PROVE  polled'[q] = log'[q]
    BY DEF DriftStaysLoud
  <2>1. polled' = events
    OBVIOUS
  <2>2. q \notin DOMAIN NewEvents(events)
    BY <1>1 DEF NoEvents
  <2> QED BY <1>1, <2>1, <2>2, OldIsStored DEF FeedInv
<1>3. BaselineStored'
  BY <1>1 DEF FeedInv, BaselineStored, Begins
<1>4. Remembered'
  BY <1>1 DEF Remembered, NoEvents
<1> QED BY <1>2, <1>3, <1>4 DEF FeedInv

LEMMA AppliedInv ==
  ASSUME FeedInv, NEW events, NEW ok \in BOOLEAN, PollApplied(events, ok),
         polled' = events \/ polled' = Null
  PROVE  FeedInv'
<1> DEFINE new == NewEvents(events)
<1>0. BaselineStored /\ Remembered
  BY DEF FeedInv
<1>1. log' = Extended(new)
  BY DEF PollApplied
<1>2. reported' = IF Conflict(new) THEN Reports(new) ELSE NoEvents
  BY DEF PollApplied
<1>3. BaselineStored'
  <2>1. CASE ok
    <3>1. last' = [over |-> over, events |-> Baseline(events, new)]
      BY <2>1 DEF PollApplied
    <3>2. last'.events = IF Conflict(new) THEN log' ELSE events
      BY <1>1, <3>1 DEF Baseline
    <3>3. CASE Conflict(new)
      BY <3>2, <3>3 DEF BaselineStored, Begins
    <3>4. CASE ~Conflict(new)
      <4>1. Begins(events, log')
        BY <1>0, <1>1, <3>4, StoredAsSent
      <4> QED BY <3>2, <3>4, <4>1 DEF BaselineStored, Begins
    <3> QED BY <3>3, <3>4
  <2>2. CASE ~ok
    <3>1. last' = last
      BY <2>2 DEF PollApplied
    <3>2. Begins(log, log')
      BY <1>1, LogBegins
    <3> QED BY <1>0, <3>1, <3>2 DEF BaselineStored, Begins
  <2> QED BY <2>1, <2>2
<1>4. DriftStaysLoud'
  <2> SUFFICES ASSUME polled' # Null, NEW q \in DOMAIN polled' \cap DOMAIN log',
                      polled'[q] # log'[q]
               PROVE  q \in DOMAIN reported'
    BY DEF DriftStaysLoud
  <2>1. polled' = events
    OBVIOUS
  <2>2. q \in Mismatches(new)
    BY <1>0, <1>1, <2>1, DriftIsMismatch
  <2>3. Conflict(new)
    BY <2>2 DEF Mismatches, Conflict
  <2> QED BY <1>2, <2>2, <2>3 DEF Reports
<1>5. Remembered'
  <2>1. CASE Conflict(new)
    <3>1. logged' = LoggedAfter(new)
      BY <2>1 DEF PollApplied, KeptAfter
    <3>2. reported' = Reports(new)
      BY <1>2, <2>1
    <3> HIDE DEF new
    <3> QED BY <3>1, <3>2, ReportsRemembered DEF Remembered
  <2>2. CASE ~Conflict(new)
    BY <1>2, <2>2 DEF Remembered, NoEvents
  <2> QED BY <2>1, <2>2
<1> QED BY <1>3, <1>4, <1>5 DEF FeedInv

LEMMA NextInv == FeedInv /\ [Next]_vars => FeedInv'
<1> SUFFICES ASSUME FeedInv, [Next]_vars PROVE FeedInv'
  OBVIOUS
<1>1. CASE AddEvent
  BY <1>1, EspnInv DEF AddEvent, Edit
<1>2. CASE AmendEvent
  BY <1>2, EspnInv DEF AmendEvent, Edit
<1>3. CASE InsertEvent
  BY <1>3, EspnInv DEF InsertEvent, Edit
<1>4. CASE RemoveEvent
  BY <1>4, EspnInv DEF RemoveEvent, Edit
<1>5. CASE Whistle
  BY <1>5, EspnInv DEF Whistle
<1>6. CASE PollWithDetail
  <2> DEFINE events == Numbered(keyEvents)
  <2>1. CASE PollUnchanged(events) /\ polled' = events
    BY <2>1, UnchangedInv
  <2>2. CASE \E ok \in BOOLEAN :
               PollApplied(events, ok) /\ polled' = IF ok THEN events ELSE Null
    <3>1. PICK ok \in BOOLEAN : PollApplied(events, ok) /\ (polled' = events \/ polled' = Null)
      BY <2>2
    <3> QED BY <3>1, AppliedInv
  <2> QED BY <1>6, <2>1, <2>2 DEF PollWithDetail
<1>7. CASE PollBoardOnly
  <2>1. CASE PollUnchanged(NoEvents)
    BY <1>7, <2>1, UnchangedInv DEF PollBoardOnly
  <2>2. CASE \E ok \in BOOLEAN : PollApplied(NoEvents, ok)
    <3>1. PICK ok \in BOOLEAN : PollApplied(NoEvents, ok)
      BY <2>2
    <3> QED BY <1>7, <3>1, AppliedInv DEF PollBoardOnly
  <2> QED BY <1>7, <2>1, <2>2 DEF PollBoardOnly
<1>8. CASE Restart
  BY <1>8 DEF Restart, FeedInv, BaselineStored, DriftStaysLoud, Remembered, NoEvents
<1>9. CASE UNCHANGED vars
  <2>1. UNCHANGED <<row, log, last, drift, polled>>
    BY <1>9 DEF vars, drift
  <2> QED BY <2>1, EspnInv
<1> QED BY <1>1, <1>2, <1>3, <1>4, <1>5, <1>6, <1>7, <1>8, <1>9 DEF Next

LEMMA Inductive == Spec => []FeedInv
<1> QED BY InitInv, NextInv, PTL DEF Spec

\* Every contradiction between a stored poll and the log is reported in that poll, for
\* every list ESPN may send: none is baselined away.
THEOREM DriftStaysLoudAlways == Spec => []DriftStaysLoud
<1>1. FeedInv => DriftStaysLoud
  BY DEF FeedInv
<1> QED BY <1>1, Inductive, PTL

ErrorOnceStep ==
    UNCHANGED espn => \A q \in errors' \cap DOMAIN reported : reported'[q] # reported[q]

\* An apply calls nothing an error that the poll before reported the same way.
LEMMA AppliedErrorOnce ==
  ASSUME Remembered, NEW events, NEW ok \in BOOLEAN, PollApplied(events, ok)
  PROVE  ErrorOnceStep
<1> DEFINE new == NewEvents(events)
<1> SUFFICES ASSUME NEW q \in errors' \cap DOMAIN reported
             PROVE  reported'[q] # reported[q]
  BY DEF ErrorOnceStep
<1>1. Conflict(new) /\ errors' = FreshReports(new) /\ reported' = Reports(new)
  BY DEF PollApplied
<1> HIDE DEF new
<1>2. q \in Mismatches(new) /\ ~(q \in DOMAIN logged /\ logged[q] = Signature(q, new))
  BY <1>1 DEF FreshReports
<1>3. reported'[q] = Signature(q, new)
  BY <1>1, <1>2 DEF Reports
<1>4. q \in DOMAIN logged /\ logged[q] = reported[q]
  BY DEF Remembered
<1> QED BY <1>2, <1>3, <1>4

\* ESPN's own steps change ESPN.
LEMMA StepErrorOnce == FeedInv /\ [Next]_vars => [ErrorOnceStep]_vars
<1> SUFFICES ASSUME FeedInv, Next PROVE ErrorOnceStep
  OBVIOUS
<1>1. CASE AddEvent \/ AmendEvent \/ InsertEvent \/ RemoveEvent
  <2>1. keyEvents' # keyEvents
    BY <1>1 DEF AddEvent, AmendEvent, InsertEvent, RemoveEvent, Edit
  <2> QED BY <2>1 DEF ErrorOnceStep, espn
<1>2. CASE Whistle
  <2>1. comp' # comp
    BY <1>2 DEF Whistle
  <2> QED BY <2>1 DEF ErrorOnceStep, espn
<1>3. ASSUME NEW events, PollUnchanged(events) PROVE ErrorOnceStep
  BY <1>3 DEF PollUnchanged, ErrorOnceStep
<1>4. ASSUME NEW events, NEW ok \in BOOLEAN, PollApplied(events, ok) PROVE ErrorOnceStep
  BY <1>4, AppliedErrorOnce DEF FeedInv
<1>5. CASE PollWithDetail
  BY <1>3, <1>4, <1>5 DEF PollWithDetail
<1>6. CASE PollBoardOnly
  BY <1>3, <1>4, <1>6 DEF PollBoardOnly
<1>7. CASE Restart
  BY <1>7 DEF Restart, ErrorOnceStep
<1> QED BY <1>1, <1>2, <1>5, <1>6, <1>7 DEF Next

\* A mismatch that persists is an error in the first poll only, whatever is evicted when
\* the match ends.
THEOREM ErrorOnceAlways == Spec => ErrorOnce
<1>1. ErrorOnce <=> [][ErrorOnceStep]_vars
  BY DEF ErrorOnce, ErrorOnceStep
<1> QED BY <1>1, Inductive, StepErrorOnce, PTL DEF Spec

-----------------------------------------------------------------------------
(* The positions.  A timeline is a fold; induction by a least              *)
(* counterexample shows that it is a sequence, so that its positions have  *)
(* no gaps.                                                                *)

Less == {pair \in Nat \X Nat : pair[1] < pair[2]}

\* A set of natural numbers has a least element: the induction of this module.
LEMMA LeastNumber ==
  ASSUME NEW T \in SUBSET Nat, T # {}
  PROVE  \E n \in T : \A m \in T : n <= m
<1>1. IsWellFoundedOn(Less, Nat)
  BY NatLessThanWellFounded, Zenon DEF OpToRel, Less
<1>2. PICK n \in T : \A m \in T : ~ (<<m, n>> \in Less)
  BY <1>1, WFMin
<1>3. \A m \in T : ~ (m < n)
  BY <1>2 DEF Less
<1> QED BY <1>3

Unfold(list, f, s) ==
    IF s = {} THEN <<>> ELSE f[s \ {Max(s)}] \o NormalizeKeyEvent(list[Max(s)])

\* f is the function that the fold over the first n key events evaluates.
Folds(list, f, n) == f = [s \in SUBSET (1 .. n) |-> Unfold(list, f, s)]

LEMMA MaxOfBeginning ==
  ASSUME NEW n \in Nat, NEW s \in SUBSET (1 .. n + 1), n + 1 \in s
  PROVE  Max(s) = n + 1
<1>1. \A x \in s : (\A y \in s : x >= y) <=> x = n + 1
  OBVIOUS
<1> QED BY <1>1 DEF Max

LEMMA FoldExtends ==
  ASSUME NEW list, NEW n \in Nat, NEW f, Folds(list, f, n)
  PROVE  \E g : Folds(list, g, n + 1)
<1> DEFINE g == [s \in SUBSET (1 .. n + 1) |->
                   IF n + 1 \in s THEN f[s \ {n + 1}] \o NormalizeKeyEvent(list[n + 1]) ELSE f[s]]
<1>1. \A s \in SUBSET (1 .. n) : g[s] = f[s]
  OBVIOUS
<1>2. ASSUME NEW s \in SUBSET (1 .. n + 1) PROVE g[s] = Unfold(list, g, s)
  <2>1. CASE n + 1 \in s
    <3>1. Max(s) = n + 1
      BY <2>1, MaxOfBeginning
    <3>2. s \ {n + 1} \in SUBSET (1 .. n)
      OBVIOUS
    <3>3. g[s] = g[s \ {n + 1}] \o NormalizeKeyEvent(list[n + 1])
      BY <1>1, <2>1, <3>2
    <3> HIDE DEF g
    <3> QED BY <2>1, <3>1, <3>3 DEF Unfold
  <2>2. CASE n + 1 \notin s
    <3>0. s \subseteq 1 .. n
      BY <2>2
    <3>1. s \in SUBSET (1 .. n) /\ s \ {Max(s)} \in SUBSET (1 .. n)
      BY <3>0
    <3>2. f[s] = Unfold(list, f, s)
      BY <3>1 DEF Folds
    <3>3. g[s] = f[s] /\ g[s \ {Max(s)}] = f[s \ {Max(s)}]
      BY <1>1, <3>1
    <3> HIDE DEF g
    <3> QED BY <3>2, <3>3 DEF Unfold
  <2> QED BY <2>1, <2>2
<1>3. g = [s \in SUBSET (1 .. n + 1) |-> g[s]]
  OBVIOUS
<1> HIDE DEF g
<1>4. Folds(list, g, n + 1)
  BY <1>2, <1>3 DEF Folds
<1> QED BY <1>4

LEMMA FoldExists ==
  ASSUME NEW list, NEW n \in Nat
  PROVE  \E f : Folds(list, f, n)
<1> DEFINE Fails == {m \in Nat : ~ \E f : Folds(list, f, m)}
<1> SUFFICES ASSUME Fails # {} PROVE FALSE
  OBVIOUS
<1>1. PICK least \in Fails : \A m \in Fails : least <= m
  BY LeastNumber
<1>2. 0 \notin Fails
  <2> DEFINE f == [s \in SUBSET (1 .. 0) |-> <<>>]
  <2>1. \A s \in SUBSET (1 .. 0) : s = {}
    OBVIOUS
  <2>2. Folds(list, f, 0)
    BY <2>1 DEF Folds, Unfold
  <2> QED BY <2>2
<1>3. least - 1 \in Nat /\ least - 1 \notin Fails
  BY <1>1, <1>2
<1>4. PICK f : Folds(list, f, least - 1)
  BY <1>3
<1>5. \E g : Folds(list, g, least - 1 + 1)
  BY <1>3, <1>4, FoldExtends
<1>6. least - 1 + 1 = least
  BY <1>1
<1> QED BY <1>1, <1>5, <1>6

LEMMA TimelineFolds ==
  ASSUME NEW list, NEW n \in Nat, DOMAIN list = 1 .. n
  PROVE  \E f : Folds(list, f, n) /\ Timeline(list) = f[1 .. n]
<1> DEFINE iter == CHOOSE f : f = [s \in SUBSET DOMAIN list |-> Unfold(list, f, s)]
<1>1. Timeline(list) = iter[DOMAIN list]
  BY Zenon DEF Timeline, FoldLeft, MapThenFoldSet, Unfold
<1>2. Folds(list, iter, n)
  BY FoldExists DEF Folds
<1> QED BY <1>1, <1>2

LEMMA FoldSteps ==
  ASSUME NEW list, NEW n \in Nat, NEW f, Folds(list, f, n)
  PROVE  /\ f[1 .. 0] = <<>>
         /\ \A m \in 1 .. n : f[1 .. m] = f[1 .. m - 1] \o NormalizeKeyEvent(list[m])
<1>1. 1 .. 0 \in SUBSET (1 .. n) /\ 1 .. 0 = {}
  OBVIOUS
<1>2. f[1 .. 0] = <<>>
  BY <1>1 DEF Folds, Unfold
<1>3. ASSUME NEW m \in 1 .. n
      PROVE  f[1 .. m] = f[1 .. m - 1] \o NormalizeKeyEvent(list[m])
  <2> DEFINE k == m - 1
  <2>1. k \in Nat /\ k + 1 = m
    OBVIOUS
  <2>2. 1 .. m \in SUBSET (1 .. n) /\ 1 .. m # {} /\ m \in 1 .. m
    OBVIOUS
  <2>3. Max(1 .. m) = m
    <3>1. 1 .. m \in SUBSET (1 .. k + 1) /\ k + 1 \in 1 .. m
      BY <2>1, <2>2
    <3>2. Max(1 .. m) = k + 1
      BY <2>1, <3>1, MaxOfBeginning
    <3> QED BY <2>1, <3>2
  <2>4. (1 .. m) \ {m} = 1 .. m - 1
    OBVIOUS
  <2>5. f[1 .. m] = Unfold(list, f, 1 .. m)
    BY <2>2 DEF Folds
  <2> QED BY <2>2, <2>3, <2>4, <2>5 DEF Unfold
<1> QED BY <1>2, <1>3


\* grown[m] is the timeline of the first m key events.
Grows(list, n, grown) ==
    /\ grown = [m \in 0 .. n |-> grown[m]]
    /\ grown[0] = <<>>
    /\ \A m \in 1 .. n : grown[m] = grown[m - 1] \o NormalizeKeyEvent(list[m])

LEMMA TimelineGrows ==
  ASSUME NEW list, NEW n \in Nat, DOMAIN list = 1 .. n
  PROVE  \E grown : Grows(list, n, grown) /\ Timeline(list) = grown[n]
<1>1. PICK f : Folds(list, f, n) /\ Timeline(list) = f[1 .. n]
  BY TimelineFolds
<1>2. Folds(list, f, n)
  BY <1>1
<1>3. f[1 .. 0] = <<>> /\ \A m \in 1 .. n : f[1 .. m] = f[1 .. m - 1] \o NormalizeKeyEvent(list[m])
  BY <1>2, FoldSteps, Zenon
<1> DEFINE grown == [m \in 0 .. n |-> f[1 .. m]]
<1>4. grown[0] = f[1 .. 0] /\ grown[n] = f[1 .. n]
  OBVIOUS
<1>5. ASSUME NEW m \in 1 .. n
      PROVE  grown[m] = grown[m - 1] \o NormalizeKeyEvent(list[m])
  <2>1. m \in 0 .. n /\ m - 1 \in 0 .. n
    OBVIOUS
  <2>2. grown[m] = f[1 .. m] /\ grown[m - 1] = f[1 .. m - 1]
    BY <2>1
  <2>3. f[1 .. m] = f[1 .. m - 1] \o NormalizeKeyEvent(list[m])
    BY <1>3, Zenon
  <2> HIDE DEF grown
  <2> QED BY <2>2, <2>3
<1>6. grown = [m \in 0 .. n |-> grown[m]]
  OBVIOUS
<1> HIDE DEF grown
<1> QED BY <1>1, <1>3, <1>4, <1>5, <1>6 DEF Grows

\* The events that the key events of the list become.
EventsOf(list) == {NormalizeKeyEvent(list[i])[j] : i \in DOMAIN list, j \in {1, 2}}

LEMMA NormalizedIsSeq ==
  ASSUME NEW list, NEW i \in DOMAIN list
  PROVE  NormalizeKeyEvent(list[i]) \in Seq(EventsOf(list))
<1> DEFINE raw == list[i]
           type == EventType(raw.slug)
           rows == NormalizeKeyEvent(raw)
<1>1. \A j \in {1, 2} : rows[j] \in EventsOf(list)
  BY DEF EventsOf
<1>2. ASSUME NEW n \in Nat, rows \in [1 .. n -> EventsOf(list)]
      PROVE  rows \in Seq(EventsOf(list))
  BY <1>2, SeqDef
<1>3. CASE raw.slug = SecondYellowSlug
  <2>1. rows = <<Event(raw, "yellow", SecondYellowDetail), Event(raw, "red", raw.text)>>
    BY <1>3 DEF NormalizeKeyEvent
  <2> HIDE DEF rows
  <2>2. rows \in [1 .. 2 -> EventsOf(list)]
    BY <1>1, <2>1
  <2> QED BY <1>2, <2>2 DEF rows
<1>4. CASE raw.slug # SecondYellowSlug
  <2>1. DOMAIN type = 1 .. 0 \/ DOMAIN type = 1 .. 1
    <3>1. type \in {<<>>, <<"own_goal">>, <<"goal">>, <<"yellow">>, <<"red">>, <<"sub">>,
                    <<"penalty">>, <<"kickoff">>, <<"half_time">>, <<"full_time">>}
      BY DEF EventType
    <3> HIDE DEF type
    <3> QED BY <3>1
  <2>2. rows = [k \in DOMAIN type |-> Event(raw, type[k], raw.text)]
    BY <1>4 DEF NormalizeKeyEvent
  <2> HIDE DEF rows, type
  <2>3. rows \in [1 .. 0 -> EventsOf(list)] \/ rows \in [1 .. 1 -> EventsOf(list)]
    BY <1>1, <2>1, <2>2
  <2> QED BY <1>2, <2>3 DEF rows
<1> QED BY <1>3, <1>4

\* Whatever ESPN lists, its timeline is a sequence.
LEMMA TimelineIsSeq ==
  ASSUME NEW list, NEW n \in Nat, DOMAIN list = 1 .. n
  PROVE  Timeline(list) \in Seq(EventsOf(list))
<1>1. PICK grown : Grows(list, n, grown) /\ Timeline(list) = grown[n]
  BY TimelineGrows
<1> DEFINE Fails == {m \in 0 .. n : grown[m] \notin Seq(EventsOf(list))}
<1> SUFFICES ASSUME Fails # {} PROVE FALSE
  BY <1>1
<1>2. Fails \in SUBSET Nat
  OBVIOUS
<1>3. PICK least \in Fails : \A m \in Fails : least <= m
  BY <1>2, LeastNumber
<1>4. 0 \notin Fails
  BY <1>1, EmptySeq DEF Grows
<1>5. least \in 1 .. n /\ least - 1 \in 0 .. n /\ least - 1 \notin Fails
  BY <1>3, <1>4
<1>6. grown[least - 1] \in Seq(EventsOf(list))
  BY <1>5
<1>7. NormalizeKeyEvent(list[least]) \in Seq(EventsOf(list))
  BY <1>5, NormalizedIsSeq
<1>8. grown[least] = grown[least - 1] \o NormalizeKeyEvent(list[least])
  BY <1>1, <1>5 DEF Grows
<1>9. grown[least] \in Seq(EventsOf(list))
  BY <1>6, <1>7, <1>8, ConcatProperties
<1> QED BY <1>3, <1>9

LEMMA TimelineOfAppend ==
  ASSUME NEW S, NEW list \in Seq(S), NEW raw \in S
  PROVE  Timeline(Append(list, raw)) = Timeline(list) \o NormalizeKeyEvent(raw)
<1> DEFINE n == Len(list)
           longer == Append(list, raw)
<1>1. /\ n \in Nat /\ DOMAIN list = 1 .. n /\ DOMAIN longer = 1 .. n + 1
      /\ longer[n + 1] = raw
      /\ \A i \in 1 .. n : longer[i] = list[i]
  BY AppendProperties, LenProperties
<1> HIDE DEF n, longer
<1>2. PICK k \in Nat \ {0} : k = n + 1
  BY <1>1
<1>3. PICK f : Grows(list, n, f) /\ Timeline(list) = f[n]
  BY <1>1, TimelineGrows
<1>4. PICK g : Grows(longer, k, g) /\ Timeline(longer) = g[k]
  BY <1>1, <1>2, TimelineGrows
<1>5. g[n] = f[n]
  <2> DEFINE Fails == {m \in 0 .. n : g[m] # f[m]}
  <2> SUFFICES ASSUME Fails # {} PROVE FALSE
    BY <1>1
  <2>1. Fails \in SUBSET Nat
    BY <1>1
  <2>2. PICK least \in Fails : \A m \in Fails : least <= m
    BY <2>1, LeastNumber
  <2>3. 0 \notin Fails
    BY <1>3, <1>4 DEF Grows
  <2>4. /\ least \in 1 .. n /\ least \in 1 .. k
        /\ least - 1 \in 0 .. n /\ least - 1 \notin Fails
    BY <1>1, <1>2, <2>2, <2>3
  <2>5. longer[least] = list[least] /\ g[least - 1] = f[least - 1]
    BY <1>1, <2>4
  <2>6. f[least] = f[least - 1] \o NormalizeKeyEvent(list[least])
    BY <1>3, <2>4 DEF Grows
  <2>7. g[least] = g[least - 1] \o NormalizeKeyEvent(longer[least])
    BY <1>4, <2>4 DEF Grows
  <2> QED BY <2>2, <2>5, <2>6, <2>7
<1>6. g[k] = g[n] \o NormalizeKeyEvent(raw)
  <2>1. g[k] = g[k - 1] \o NormalizeKeyEvent(longer[k])
    BY <1>2, <1>4 DEF Grows
  <2>2. k - 1 = n /\ longer[k] = raw
    BY <1>1, <1>2
  <2> QED BY <2>1, <2>2
<1>7. Timeline(longer) = Timeline(list) \o NormalizeKeyEvent(raw)
  BY <1>3, <1>4, <1>5, <1>6
<1> QED BY <1>7 DEF longer

\* A key event that is added at the end moves no event to another seq, the two rows of
\* a second booking included.
THEOREM AppendKeepsNumbers ==
  ASSUME NEW list \in Seq(KeyEvents), NEW raw \in KeyEvents
  PROVE  Begins(Numbered(list), Numbered(Append(list, raw)))
<1> DEFINE S == EventsOf(list)
           T == EventsOf(Append(list, raw))
           short == Timeline(list)
           more == NormalizeKeyEvent(raw)
           long == Timeline(Append(list, raw))
<1>1. /\ Len(list) \in Nat /\ DOMAIN list = 1 .. Len(list)
      /\ Append(list, raw) \in Seq(KeyEvents)
      /\ Append(list, raw)[Len(list) + 1] = raw
      /\ Len(Append(list, raw)) = Len(list) + 1
  BY AppendProperties, LenProperties
<1>2. Len(list) + 1 \in Nat /\ DOMAIN Append(list, raw) = 1 .. Len(list) + 1
  BY <1>1, LenProperties
<1>3. short \in Seq(S) /\ long \in Seq(T)
  BY <1>1, <1>2, TimelineIsSeq
<1>4. more \in Seq(T)
  <2>1. Len(list) + 1 \in DOMAIN Append(list, raw)
    BY <1>1, <1>2
  <2> QED BY <1>1, <2>1, NormalizedIsSeq
<1>5. long = short \o more
  BY TimelineOfAppend
<1> HIDE DEF S, T, short, more, long
<1>6. short \in Seq(S \cup T) /\ more \in Seq(S \cup T)
  BY <1>3, <1>4, SeqMonotonic
<1>7. /\ Len(short) \in Nat /\ Len(more) \in Nat /\ Len(long) = Len(short) + Len(more)
      /\ \A i \in 1 .. Len(short) : long[i] = short[i]
  BY <1>5, <1>6, ConcatProperties, LenProperties
<1>8. ASSUME NEW q \in 0 .. Len(short) - 1
      PROVE  q \in 0 .. Len(long) - 1 /\ short[q + 1] = long[q + 1]
  <2>1. q + 1 \in 1 .. Len(short)
    BY <1>7
  <2> QED BY <1>7, <2>1
<1> QED BY <1>8 DEF Begins, Numbered, short, long

Gapless(positions) == positions \subseteq Nat /\ \A q \in positions : 0 .. q \subseteq positions

LEMMA NumberedGapless ==
  ASSUME NEW list \in Seq(KeyEvents)
  PROVE  Gapless(DOMAIN Numbered(list))
<1>1. Len(list) \in Nat /\ DOMAIN list = 1 .. Len(list)
  BY LenProperties
<1>2. Timeline(list) \in Seq(EventsOf(list))
  BY <1>1, TimelineIsSeq
<1>3. Len(Timeline(list)) \in Nat
  BY <1>2, LenProperties
<1>4. DOMAIN Numbered(list) = 0 .. Len(Timeline(list)) - 1
  BY DEF Numbered
<1> QED BY <1>3, <1>4 DEF Gapless

\* A poll leaves no position out, whether its batch is refused or not.
LEMMA PollStores ==
  ASSUME BaselineStored, Gapless(DOMAIN log), NEW events, Gapless(DOMAIN events)
  PROVE  DOMAIN Extended(NewEvents(events)) = DOMAIN log \cup DOMAIN events
<1> DEFINE new == NewEvents(events)
<1>1. DOMAIN new \subseteq DOMAIN events
  BY DEF NewEvents
<1>2. DOMAIN Extended(new) = DOMAIN log \cup {p \in DOMAIN new : AboveHead(p, log)}
  BY DEF Extended
<1>3. ASSUME NEW q \in DOMAIN events, q \notin DOMAIN log
      PROVE  q \in DOMAIN new /\ AboveHead(q, log)
  <2>1. q \in DOMAIN new
    BY <1>3, OldIsStored
  <2>2. ASSUME NEW p \in DOMAIN log, ~(p < q) PROVE FALSE
    <3>1. q \in 0 .. p
      BY <2>2 DEF Gapless
    <3> QED BY <1>3, <3>1 DEF Gapless
  <2> QED BY <2>1, <2>2 DEF AboveHead
<1> HIDE DEF new
<1> QED BY <1>1, <1>2, <1>3 DEF new

\* While the log is the beginning of what ESPN sends, no batch is refused.
LEMMA NothingRefused ==
  ASSUME BaselineStored, Gapless(DOMAIN log), NEW events, Gapless(DOMAIN events),
         Begins(log, events)
  PROVE  ~Conflict(NewEvents(events))
<1> DEFINE new == NewEvents(events)
<1> SUFFICES ASSUME NEW q \in DOMAIN new
             PROVE  IF q \in DOMAIN log THEN log[q] = new[q] ELSE AboveHead(q, log)
  BY DEF Conflict
<1>1. q \in DOMAIN events /\ new[q] = events[q]
  BY NewAsSent
<1>2. CASE q \in DOMAIN log
  BY <1>1, <1>2 DEF Begins
<1>3. CASE q \notin DOMAIN log
  <2>1. q \in DOMAIN Extended(new)
    BY <1>1, PollStores
  <2> HIDE DEF new
  <2> QED BY <1>3, <2>1 DEF Extended
<1> QED BY <1>2, <1>3

-----------------------------------------------------------------------------
(* The log and the list.                                                   *)

Mirrors == ~shifted => /\ Begins(log, Numbered(keyEvents))
                       /\ polled # Null => Begins(polled, log)

MirrorInv ==
    /\ keyEvents \in Seq(KeyEvents)
    /\ Gapless(DOMAIN log)
    /\ NoWedge
    /\ Mirrors

LEMMA NoEventsGapless == Gapless(DOMAIN NoEvents)
BY DEF Gapless, NoEvents

LEMMA InitMirror == Init => MirrorInv
<1> SUFFICES ASSUME Init PROVE MirrorInv
  OBVIOUS
<1>1. keyEvents \in Seq(KeyEvents)
  BY EmptySeq DEF Init
<1>2. log = NoEvents /\ polled = Null /\ DOMAIN NoEvents = {}
  BY DEF Init, NoEvents
<1> QED BY <1>1, <1>2, NoEventsGapless DEF MirrorInv, NoWedge, Mirrors, Begins

LEMMA EditMirror ==
  ASSUME MirrorInv, NEW list \in Seq(KeyEvents), Edit(list)
  PROVE  MirrorInv'
<1>1. keyEvents' = list /\ UNCHANGED <<log, polled>>
  BY DEF Edit
<1>2. Mirrors'
  <2> SUFFICES ASSUME ~shifted'
               PROVE  Begins(log, Numbered(list)) /\ (polled # Null => Begins(polled, log))
    BY <1>1 DEF Mirrors, Begins
  <2>1. ~shifted /\ Begins(Numbered(keyEvents), Numbered(list))
    BY DEF Edit
  <2>2. Begins(log, Numbered(keyEvents)) /\ (polled # Null => Begins(polled, log))
    BY <2>1 DEF MirrorInv, Mirrors
  <2>3. Begins(log, Numbered(list))
    BY <2>1, <2>2 DEF Begins
  <2> QED BY <2>2, <2>3
<1> QED BY <1>1, <1>2 DEF MirrorInv, NoWedge, Gapless

LEMMA UnchangedMirror ==
  ASSUME MirrorInv, BaselineStored, UNCHANGED espn, NEW events,
         PollUnchanged(events), polled' = events \/ polled' = Null
  PROVE  MirrorInv'
<1>1. log' = log /\ DOMAIN NewEvents(events) = {}
  BY DEF PollUnchanged, NoEvents
<1>2. Begins(events, log)
  BY <1>1, OldIsStored DEF Begins
<1>3. UNCHANGED <<keyEvents, shifted>>
  BY DEF espn
<1>4. NoWedge'
  BY <1>1, <1>2 DEF NoWedge, Begins
<1>5. Mirrors'
  BY <1>1, <1>2, <1>3 DEF MirrorInv, Mirrors, Begins
<1> QED BY <1>1, <1>3, <1>4, <1>5 DEF MirrorInv, Gapless

\* The events of a poll are ESPN's list, or none.
LEMMA AppliedMirror ==
  ASSUME MirrorInv, BaselineStored, UNCHANGED espn, NEW events, NEW ok \in BOOLEAN,
         PollApplied(events, ok),
         \/ events = Numbered(keyEvents) /\ (polled' = events \/ polled' = Null)
         \/ events = NoEvents /\ polled' = Null
  PROVE  MirrorInv'
<1> DEFINE new == NewEvents(events)
<1>1. log' = Extended(new)
  BY DEF PollApplied
<1>2. Gapless(DOMAIN events) /\ Gapless(DOMAIN log)
  BY NumberedGapless, NoEventsGapless DEF MirrorInv
<1>3. UNCHANGED <<keyEvents, shifted>>
  BY DEF espn
<1>4. DOMAIN log' = DOMAIN log \cup DOMAIN events
  BY <1>1, <1>2, PollStores
<1>5. Gapless(DOMAIN log')
  BY <1>2, <1>4 DEF Gapless
<1>6. NoWedge'
  BY <1>4 DEF NoWedge
<1>7. Mirrors'
  <2> SUFFICES ASSUME ~shifted
               PROVE  /\ Begins(log', Numbered(keyEvents))
                      /\ polled' # Null => Begins(polled', log')
    BY <1>3 DEF Mirrors, Begins
  <2>1. Begins(log, Numbered(keyEvents))
    BY DEF MirrorInv, Mirrors
  <2>2. CASE events = Numbered(keyEvents)
    <3>1. ~Conflict(new)
      BY <1>2, <2>1, <2>2, NothingRefused
    <3>2. Begins(events, log')
      BY <1>1, <3>1, StoredAsSent
    <3>3. DOMAIN log' = DOMAIN events
      BY <1>4, <2>1, <2>2 DEF Begins
    <3>4. Begins(log', events)
      BY <3>2, <3>3 DEF Begins
    <3> QED BY <2>2, <3>2, <3>4 DEF Begins
  <2>3. CASE events = NoEvents /\ polled' = Null
    <3>1. DOMAIN log' = DOMAIN log
      BY <1>4, <2>3 DEF NoEvents
    <3>2. Begins(log, log')
      BY <1>1, LogBegins
    <3>3. Begins(log', Numbered(keyEvents))
      BY <2>1, <3>1, <3>2 DEF Begins
    <3> QED BY <2>3, <3>3
  <2> QED BY <2>2, <2>3
<1> QED BY <1>3, <1>5, <1>6, <1>7 DEF MirrorInv

\* Every change of the list leaves a list of key events.
LEMMA EditsTyped ==
  ASSUME keyEvents \in Seq(KeyEvents), AddEvent \/ AmendEvent \/ InsertEvent \/ RemoveEvent
  PROVE  \E list \in Seq(KeyEvents) : Edit(list)
<1>1. Len(keyEvents) \in Nat /\ DOMAIN keyEvents = 1 .. Len(keyEvents)
  BY LenProperties
<1>2. ASSUME NEW first \in 1 .. Len(keyEvents) + 1, NEW end \in 0 .. Len(keyEvents)
      PROVE  SubSeq(keyEvents, first, end) \in Seq(KeyEvents)
  BY <1>1, <1>2, SubSeqProperties
<1>3. CASE AddEvent
  BY <1>3, AppendProperties DEF AddEvent
<1>4. CASE AmendEvent
  <2>1. PICK i \in DOMAIN keyEvents, slug \in Slugs, text \in Texts :
               Edit([keyEvents EXCEPT ![i].slug = slug, ![i].text = text])
    BY <1>4 DEF AmendEvent
  <2>2. keyEvents[i] \in KeyEvents
    BY <1>1, ElementOfSeq
  <2>3. [keyEvents EXCEPT ![i].slug = slug, ![i].text = text]
          = [keyEvents EXCEPT ![i] = [keyEvents[i] EXCEPT !.slug = slug, !.text = text]]
    BY <1>1, <2>2 DEF KeyEvents
  <2>4. [keyEvents[i] EXCEPT !.slug = slug, !.text = text] \in KeyEvents
    BY <2>2 DEF KeyEvents
  <2>5. [keyEvents EXCEPT ![i] = [keyEvents[i] EXCEPT !.slug = slug, !.text = text]]
          \in Seq(KeyEvents)
    BY <1>1, <2>4, ExceptSeq
  <2> QED BY <2>1, <2>3, <2>5
<1>5. CASE InsertEvent
  <2>1. PICK i \in DOMAIN keyEvents, raw \in KeyEvents : Edit(InsertAt(keyEvents, i, raw))
    BY <1>5 DEF InsertEvent
  <2>2. SubSeq(keyEvents, 1, i - 1) \in Seq(KeyEvents)
    BY <1>1, <1>2
  <2>3. SubSeq(keyEvents, i, Len(keyEvents)) \in Seq(KeyEvents)
    BY <1>1, <1>2
  <2>4. <<raw>> \in Seq(KeyEvents)
    OBVIOUS
  <2>5. InsertAt(keyEvents, i, raw) \in Seq(KeyEvents)
    BY <2>2, <2>3, <2>4, ConcatProperties DEF InsertAt
  <2> QED BY <2>1, <2>5
<1>6. CASE RemoveEvent
  <2>1. PICK i \in DOMAIN keyEvents : Edit(RemoveAt(keyEvents, i))
    BY <1>6 DEF RemoveEvent
  <2>2. SubSeq(keyEvents, 1, i - 1) \in Seq(KeyEvents)
    BY <1>1, <1>2
  <2>3. SubSeq(keyEvents, i + 1, Len(keyEvents)) \in Seq(KeyEvents)
    BY <1>1, <1>2
  <2>4. RemoveAt(keyEvents, i) \in Seq(KeyEvents)
    BY <2>2, <2>3, ConcatProperties DEF RemoveAt
  <2> QED BY <2>1, <2>4
<1> QED BY <1>3, <1>4, <1>5, <1>6

LEMMA NextMirror == FeedInv /\ MirrorInv /\ [Next]_vars => MirrorInv'
<1> SUFFICES ASSUME FeedInv, MirrorInv, [Next]_vars PROVE MirrorInv'
  OBVIOUS
<1>0. BaselineStored
  BY DEF FeedInv
<1>1. CASE AddEvent \/ AmendEvent \/ InsertEvent \/ RemoveEvent
  <2>1. \E list \in Seq(KeyEvents) : Edit(list)
    BY <1>1, EditsTyped DEF MirrorInv
  <2> QED BY <2>1, EditMirror
<1>2. CASE Whistle
  BY <1>2 DEF Whistle, MirrorInv, NoWedge, Mirrors, Gapless, Begins
<1>3. CASE PollWithDetail
  <2> DEFINE events == Numbered(keyEvents)
  <2>1. CASE PollUnchanged(events) /\ polled' = events
    BY <1>0, <1>3, <2>1, UnchangedMirror DEF PollWithDetail
  <2>2. CASE \E ok \in BOOLEAN :
               PollApplied(events, ok) /\ polled' = IF ok THEN events ELSE Null
    <3>1. PICK ok \in BOOLEAN : PollApplied(events, ok) /\ (polled' = events \/ polled' = Null)
      BY <2>2
    <3> QED BY <1>0, <1>3, <3>1, AppliedMirror DEF PollWithDetail
  <2> QED BY <1>3, <2>1, <2>2 DEF PollWithDetail
<1>4. CASE PollBoardOnly
  <2>1. CASE PollUnchanged(NoEvents)
    BY <1>0, <1>4, <2>1, UnchangedMirror DEF PollBoardOnly
  <2>2. CASE \E ok \in BOOLEAN : PollApplied(NoEvents, ok)
    <3>1. PICK ok \in BOOLEAN : PollApplied(NoEvents, ok)
      BY <2>2
    <3> QED BY <1>0, <1>4, <3>1, AppliedMirror DEF PollBoardOnly
  <2> QED BY <1>4, <2>1, <2>2 DEF PollBoardOnly
<1>5. CASE Restart
  BY <1>5 DEF Restart, espn, MirrorInv, NoWedge, Mirrors, Gapless, Begins
<1>6. CASE UNCHANGED vars
  BY <1>6 DEF vars, MirrorInv, NoWedge, Mirrors, Gapless, Begins
<1> QED BY <1>1, <1>2, <1>3, <1>4, <1>5, <1>6 DEF Next

LEMMA MirrorInductive == Spec => []MirrorInv
<1> QED BY InitMirror, NextMirror, Inductive, PTL DEF Spec

\* Whatever ESPN inserts, removes or amends, and however often the daemon restarts: every
\* position of a stored poll is in the log, so the match is never wedged.
THEOREM NoWedgeAlways == Spec => []NoWedge
<1>1. MirrorInv => NoWedge
  BY DEF MirrorInv
<1> QED BY <1>1, MirrorInductive, PTL

\* While ESPN only adds to the end, the log is the beginning of the match's timeline and
\* holds every event of a stored poll as it was sent.
THEOREM LogMirrorsFeedAlways == Spec => []LogMirrorsFeed
<1>1. MirrorInv => LogMirrorsFeed
  <2> SUFFICES ASSUME MirrorInv, ~shifted
               PROVE  /\ Begins(log, Numbered(keyEvents))
                      /\ polled # Null => Begins(polled, log)
    BY DEF LogMirrorsFeed, Begins, Numbered
  <2> QED BY DEF MirrorInv, Mirrors
<1> QED BY <1>1, MirrorInductive, PTL
=============================================================================
