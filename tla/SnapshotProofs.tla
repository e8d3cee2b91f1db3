----------------------------- MODULE SnapshotProofs -----------------------------
(***************************************************************************)
(* Lemmas about the operators of Snapshots: what they return and what they *)
(* keep.  The proofs about Fallback and Engine cite them.                  *)
(***************************************************************************)
EXTENDS Snapshots, TLAPS

-----------------------------------------------------------------------------
(* The accumulated fallback.                                               *)

\* The larger known value is one of the two.
LEMMA MaxKnownType ==
    ASSUME NEW a \in Scores \cup {Null}, NEW b \in Scores \cup {Null}
    PROVE  MaxKnown(a, b) \in Scores \cup {Null}
BY DEF MaxKnown

\* Taking the larger known value is associative, idempotent, and unknown is neutral.
LEMMA MaxKnownLaws ==
    ASSUME NEW a \in Scores \cup {Null}, NEW b \in Scores \cup {Null}, NEW c \in Scores \cup {Null}
    PROVE  /\ MaxKnown(MaxKnown(a, b), c) = MaxKnown(a, MaxKnown(b, c))
           /\ MaxKnown(a, MaxKnown(a, b)) = MaxKnown(a, b)
           /\ MaxKnown(Null, a) = a /\ MaxKnown(a, Null) = a
           /\ MaxKnown(a, a) = a
BY SnapshotAssumption DEF MaxKnown

\* The seven parts of an accrued fallback, whoever wins.
LEMMA AccruedParts ==
    ASSUME NEW old \in Snapshot, NEW new \in Snapshot, old # Null
    PROVE  LET f == AccrueFallback(old, new) IN
           \E winner, other \in {old, new} :
              /\ winner = (IF IncumbentWins(old, new) THEN old ELSE new)
              /\ other = (IF IncumbentWins(old, new) THEN new ELSE old)
              /\ f = [status |-> winner.status,
                      minute |-> PairedMinute(winner, other, Vetoed(old, new)),
                      clock  |-> PairedDisplay(winner, other, Vetoed(old, new)),
                      score  |-> MaxScores(old.score, new.score),
                      info   |-> Prefer(winner.info, other.info),
                      events |-> AccruedEvents(old, new)]
BY DEF AccrueFallback

\* The accrued event list is one of the two lists.
LEMMA AccruedEventsOneOf ==
    ASSUME NEW old, NEW new
    PROVE  AccruedEvents(old, new) \in {old.events, new.events}
BY DEF AccruedEvents

\* An accrued fallback is a snapshot.
LEMMA AccrueType ==
    ASSUME NEW old \in Snapshot \cup {Null}, NEW new \in Snapshot
    PROVE  AccrueFallback(old, new) \in Snapshot
<1>1. CASE old = Null
  BY <1>1 DEF AccrueFallback
<1>2. CASE old # Null
  <2>1. old \in Snapshot
    BY <1>2
  <2>2. PICK winner \in {old, new}, other \in {old, new} :
           AccrueFallback(old, new) =
             [status |-> winner.status,
              minute |-> PairedMinute(winner, other, Vetoed(old, new)),
              clock  |-> PairedDisplay(winner, other, Vetoed(old, new)),
              score  |-> MaxScores(old.score, new.score),
              info   |-> Prefer(winner.info, other.info),
              events |-> AccruedEvents(old, new)]
    BY <1>2, <2>1, AccruedParts
  <2>3. winner \in Snapshot /\ other \in Snapshot
    BY <2>1
  <2>4. PairedMinute(winner, other, Vetoed(old, new)) \in Minutes \cup {Null}
    BY <2>3 DEF PairedMinute, Snapshot
  <2>5. PairedDisplay(winner, other, Vetoed(old, new)) \in Clocks \cup {Null}
    BY <2>3 DEF PairedDisplay, Snapshot
  <2>6. MaxScores(old.score, new.score) \in [Sides -> Scores \cup {Null}]
    <3>1. old.score \in [Sides -> Scores \cup {Null}] /\ new.score \in [Sides -> Scores \cup {Null}]
      BY <2>1 DEF Snapshot
    <3>2. QED BY <3>1, MaxKnownType DEF MaxScores
  <2>7. Prefer(winner.info, other.info) \in Infos \cup {Null}
    BY <2>3 DEF Prefer, Snapshot
  <2>8. AccruedEvents(old, new) \in EventLists
    BY <2>1, AccruedEventsOneOf DEF Snapshot
  <2>9. winner.status \in Statuses
    BY <2>3 DEF Snapshot
  <2>10. QED BY <2>2, <2>4, <2>5, <2>6, <2>7, <2>8, <2>9 DEF Snapshot
<1>3. QED BY <1>1, <1>2

\* Accruing keeps, side by side, the higher of the two scores.
LEMMA AccrueScore ==
    ASSUME NEW old \in Snapshot, NEW new \in Snapshot, NEW s \in Sides
    PROVE  AccrueFallback(old, new).score[s] = MaxKnown(old.score[s], new.score[s])
<1>1. old # Null
  BY SnapshotAssumption
<1>2. AccrueFallback(old, new).score = MaxScores(old.score, new.score)
  BY <1>1, AccruedParts
<1>3. QED BY <1>2 DEF MaxScores

\* The accrued fallback is final if and only if one of the two was.
LEMMA AccrueTerminal ==
    ASSUME NEW old \in Snapshot, NEW new \in Snapshot
    PROVE  Terminal(AccrueFallback(old, new)) <=> Terminal(old) \/ Terminal(new)
<1>1. old # Null
  BY SnapshotAssumption
<1>2. AccrueFallback(old, new).status = IF IncumbentWins(old, new) THEN old.status ELSE new.status
  BY <1>1, AccruedParts
<1>3. QED BY <1>2 DEF Terminal, IncumbentWins, Vetoed, SameClass

\* A fallback is never accrued to nothing.
LEMMA AccrueKnown ==
    ASSUME NEW old \in Snapshot \cup {Null}, NEW new \in Snapshot
    PROVE  AccrueFallback(old, new) # Null
BY AccrueType, SnapshotAssumption

\* Against a final fallback with events, only a final observation's list gets in.
LEMMA FinalListOnly ==
    ASSUME NEW old \in Snapshot, NEW new \in Snapshot, Terminal(old), old.events # NoEvents,
           AccrueFallback(old, new).events # old.events
    PROVE  Terminal(new) /\ AccrueFallback(old, new).events = new.events
<1>1. old # Null
  BY SnapshotAssumption
<1>2. AccrueFallback(old, new).events = AccruedEvents(old, new)
  BY <1>1, AccruedParts
<1>3. Terminal(new)
  BY <1>2 DEF AccruedEvents, SameClass, IncumbentWins
<1>4. QED BY <1>2, <1>3, AccruedEventsOneOf

-----------------------------------------------------------------------------
(* Merging.                                                                *)

\* A score filled from another is a score.
LEMMA PreferScoresType ==
    ASSUME NEW f \in [Sides -> Scores \cup {Null}], NEW g \in [Sides -> Scores \cup {Null}]
    PROVE  PreferScores(f, g) \in [Sides -> Scores \cup {Null}]
BY DEF PreferScores, Prefer

\* A snapshot over a base is a snapshot.
LEMMA MergeOverBaseType ==
    ASSUME NEW base \in Snapshot, NEW snap \in Snapshot
    PROVE  MergeOverBase(base, snap) \in Snapshot
<1>1. PreferScores(snap.score, base.score) \in [Sides -> Scores \cup {Null}]
  BY PreferScoresType DEF Snapshot
<1>2. Prefer(snap.info, base.info) \in Infos \cup {Null}
  BY DEF Prefer, Snapshot
<1>3. QED BY <1>1, <1>2 DEF MergeOverBase, Snapshot

\* The detail over its board is a snapshot.
LEMMA MergeDetailType ==
    ASSUME NEW board \in Snapshot, NEW detail \in Snapshot
    PROVE  MergeDetail(board, detail) \in Snapshot
<1> DEFINE merged == MergeOverBase(board, detail)
<1>1. merged \in Snapshot
  BY MergeOverBaseType
<1>2. PreferScores(board.score, merged.score) \in [Sides -> Scores \cup {Null}]
  BY <1>1, PreferScoresType DEF Snapshot
<1>3. /\ board.status \in Statuses /\ board.minute \in Minutes \cup {Null}
      /\ board.clock \in Clocks \cup {Null}
  BY DEF Snapshot
<1> HIDE DEF merged
<1>4. [merged EXCEPT !.status = board.status, !.minute = board.minute, !.clock = board.clock,
                     !.score = PreferScores(board.score, merged.score)] \in Snapshot
  BY <1>1, <1>2, <1>3 DEF Snapshot
<1>5. QED BY <1>1, <1>4 DEF MergeDetail, merged

\* What a give-up persists is a snapshot.
LEMMA NonRegressType ==
    ASSUME NEW snap \in Snapshot, NEW row \in Snapshot \cup {Null}, NEW force \in BOOLEAN
    PROVE  NonRegressOverStored(snap, row, force) \in Snapshot
<1> DEFINE coerced == force /\ ~Terminal(snap)
           closed == row # Null /\ Terminal(row)
           minute == IF coerced THEN Null ELSE snap.minute
           clock == IF coerced THEN Null ELSE snap.clock
<1>1. NonRegressScore(snap, row) \in [Sides -> Scores \cup {Null}]
  <2>1. CASE row = Null
    BY <2>1 DEF NonRegressScore, Snapshot
  <2>2. CASE row # Null
    <3>1. /\ snap.score \in [Sides -> Scores \cup {Null}]
          /\ row.score \in [Sides -> Scores \cup {Null}]
      BY <2>2 DEF Snapshot
    <3>2. QED BY <2>2, <3>1, MaxKnownType DEF NonRegressScore, MaxScores
  <2>3. QED BY <2>1, <2>2
<1>2. (IF closed THEN Prefer(minute, row.minute) ELSE minute) \in Minutes \cup {Null}
  BY DEF Prefer, Snapshot
<1>3. (IF closed THEN Prefer(clock, row.clock) ELSE clock) \in Clocks \cup {Null}
  BY DEF Prefer, Snapshot
<1>4. (IF coerced \/ closed THEN "FINISHED" ELSE snap.status) \in Statuses
  BY DEF Statuses, Snapshot
<1> HIDE DEF coerced, closed, minute, clock
<1>5. [snap EXCEPT !.status = IF coerced \/ closed THEN "FINISHED" ELSE @,
                   !.minute = IF closed THEN Prefer(minute, row.minute) ELSE minute,
                   !.clock = IF closed THEN Prefer(clock, row.clock) ELSE clock,
                   !.score = NonRegressScore(snap, row)] \in Snapshot
  BY <1>1, <1>2, <1>3, <1>4 DEF Snapshot
<1>6. QED BY <1>5 DEF NonRegressOverStored, coerced, closed, minute, clock

-----------------------------------------------------------------------------
(* Diffing.                                                                *)

\* The empty event list is one.
LEMMA NoEventsType == NoEvents \in EventLists
<1>1. NoEvents \in [{} -> Contents]
  BY DEF NoEvents
<1>2. QED BY <1>1 DEF EventLists

\* The functions on a set of seqs are event lists.
LEMMA EventListsIntro ==
    ASSUME NEW S \in SUBSET Seqs, NEW f \in [S -> Contents]
    PROVE  f \in EventLists
BY DEF EventLists

\* An event list is a function from seqs to contents.
LEMMA EventListsElim ==
    ASSUME NEW f \in EventLists
    PROVE  DOMAIN f \subseteq Seqs /\ f \in [DOMAIN f -> Contents]
BY DEF EventLists

\* The new events are events of the snapshot.
LEMMA NewEventsOf ==
    ASSUME NEW snap, NEW base
    PROVE  /\ DOMAIN NewEvents(snap, base) \subseteq DOMAIN snap.events
           /\ \A q \in DOMAIN NewEvents(snap, base) : NewEvents(snap, base)[q] = snap.events[q]
BY DEF NewEvents

\* They form an event list.
LEMMA NewEventsType ==
    ASSUME NEW snap \in Snapshot, NEW base
    PROVE  NewEvents(snap, base) \in EventLists
<1>1. snap.events \in EventLists
  BY DEF Snapshot
<1>2. NewEvents(snap, base) \in [DOMAIN NewEvents(snap, base) -> Contents]
  BY <1>1, EventListsElim DEF NewEvents
<1>3. DOMAIN NewEvents(snap, base) \in SUBSET Seqs
  BY <1>1, EventListsElim, NewEventsOf
<1>4. QED BY <1>2, <1>3, EventListsIntro

\* A snapshot has changes or has none.
LEMMA HasChangesType == ASSUME NEW snap, NEW base PROVE HasChanges(snap, base) \in BOOLEAN
BY DEF HasChanges, StateChanged
=============================================================================
