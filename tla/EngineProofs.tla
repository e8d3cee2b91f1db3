------------------------------ MODULE EngineProofs ------------------------------
(***************************************************************************)
(* Theorems about Engine, for any matches, boards, details, outcomes and   *)
(* caps.                                                                   *)
(*                                                                         *)
(* Four inductive invariants stand on the one about the types, TypeInv.    *)
(* StoredInv says what is stored of a baseline.  HeldInv says what is      *)
(* still owed to a finished match.  GentleInv adds to it what holds when a *)
(* pack writes all of a snapshot or nothing of it (PacksGentle).  ShownInv *)
(* follows the scores the provider showed through everything the engine    *)
(* remembers.                                                              *)
(*                                                                         *)
(* Where a row lists its teams the other way round than the provider, the  *)
(* engine compares scores of different teams: the theorems about scores    *)
(* assume that none does (NoneTurned).                                     *)
(***************************************************************************)
EXTENDS EngineLive, SnapshotProofs, SequenceTheorems

-----------------------------------------------------------------------------
(* Trackers, cooldowns and give-ups are well typed.                        *)

\* A new tracker.
LEMMA NewTrackerType ==
    ASSUME NEW f \in Snapshot \cup {Null}
    PROVE  NewTracker(f) \in Tracker
BY DEF NewTracker, Tracker

\* What a cooldown carries is a snapshot or nothing.
LEMMA CarriedType ==
    ASSUME TypeOK, NEW m \in Matches
    PROVE  CarriedFallback(m) \in Snapshot \cup {Null}
BY DEF CarriedFallback, TypeOK, Cooldown

\* The tracker of a match, new or not.
LEMMA TrackerOfType ==
    ASSUME TypeOK, NEW m \in Matches
    PROVE  TrackerOf(m) \in Tracker /\ BackfillTrackerOf(m) \in Tracker
BY CarriedType, NewTrackerType DEF TrackerOf, BackfillTrackerOf, TypeOK

\* A tracker that observed one more snapshot.
LEMMA ObservedType ==
    ASSUME NEW t \in Tracker, NEW snap \in Snapshot
    PROVE  Observed(t, snap) \in Tracker
<1>1. t.fallback \in Snapshot \cup {Null}
  BY DEF Tracker
<1>2. AccrueFallback(t.fallback, snap) \in Snapshot
  BY <1>1, AccrueType
<1>3. QED BY <1>2 DEF Observed, Tracker

\* A tracker that counted one more failure, attempt or give-up.
LEMMA TrackerUpdates ==
    ASSUME NEW t \in Tracker
    PROVE  /\ FailedFetch(t) \in Tracker
           /\ [t EXCEPT !.failures = 0] \in Tracker
           /\ [t EXCEPT !.failures = @ + 1] \in Tracker
           /\ [t EXCEPT !.attempts = @ + 1] \in Tracker
           /\ [t EXCEPT !.pending = TRUE, !.emissions = @ + 1] \in Tracker
<1>1. t.failures + 1 \in Nat /\ t.attempts + 1 \in Nat /\ t.emissions + 1 \in Nat
  BY DEF Tracker
<1>2. FailedFetch(t) \in Tracker
  BY <1>1, Zenon DEF FailedFetch, Tracker
<1>3. [t EXCEPT !.failures = 0] \in Tracker
  BY DEF Tracker
<1>4. [t EXCEPT !.failures = @ + 1] \in Tracker /\ [t EXCEPT !.attempts = @ + 1] \in Tracker
  BY DEF Tracker
<1>5. [t EXCEPT !.pending = TRUE, !.emissions = @ + 1] \in Tracker
  BY <1>1, Zenon DEF Tracker
<1>6. QED BY <1>2, <1>3, <1>4, <1>5

\* A failed attempt of a backfill.
LEMMA BackfillFailureType ==
    ASSUME TypeOK, NEW m \in Matches, NEW snap \in Snapshot
    PROVE  BackfillFailure(m, snap) \in Tracker
BY TrackerOfType, ObservedType, TrackerUpdates DEF BackfillFailure

\* A cooldown's length is a number of polls.
LEMMA CooldownLengthType ==
    ASSUME NEW epoch \in 1 .. MaxEpoch
    PROVE  CooldownLength(epoch) \in Nat
<1>1. /\ 2^(epoch - 1) \in Nat /\ CooldownBase \in Nat /\ CooldownMax \in Nat
  BY PowerAssumption, EngineAssumption
<1> DEFINE p == 2^(epoch - 1)
<1> HIDE DEF p
<1>2. CooldownBase * p \in Nat
  BY <1>1 DEF p
<1>3. QED BY <1>1, <1>2 DEF CooldownLength, p

\* A new cooldown.
LEMMA NextCooldownType ==
    ASSUME TypeOK, NEW m \in Matches, NEW f \in Snapshot \cup {Null}, NEW origin \in BOOLEAN
    PROVE  NextCooldown(m, f, origin) \in Cooldown
<1> DEFINE previous == cooldowns[m]
           epoch == IF previous = Null THEN 1
                    ELSE IF previous.epoch < MaxEpoch THEN previous.epoch + 1 ELSE MaxEpoch
           carried == CASE CarriedFallback(m) = Null -> f
                        [] CarriedFallback(m) # Null /\ f = Null -> CarriedFallback(m)
                        [] OTHER -> AccrueFallback(CarriedFallback(m), f)
<1>1. epoch \in 1 .. MaxEpoch
  <2>1. previous \in Cooldown \cup {Null}
    BY DEF TypeOK
  <2>2. MaxEpoch \in Nat \ {0}
    BY EngineAssumption
  <2>3. QED BY <2>1, <2>2 DEF Cooldown
<1>2. CooldownLength(epoch) \in Nat
  BY <1>1, CooldownLengthType
<1>3. carried \in Snapshot \cup {Null}
  <2>1. CASE CarriedFallback(m) = Null
    BY <2>1
  <2>2. CASE CarriedFallback(m) # Null /\ f = Null
    BY <2>2, CarriedType
  <2>3. CASE CarriedFallback(m) # Null /\ f # Null
    BY <2>3, CarriedType, AccrueType
  <2>4. QED BY <2>1, <2>2, <2>3
<1> HIDE DEF epoch, carried
<1>4. [remaining |-> CooldownLength(epoch), epoch |-> epoch, unseen |-> 0,
       fallback |-> carried, backfillOrigin |-> origin] \in Cooldown
  BY <1>1, <1>2, <1>3 DEF Cooldown
<1>5. QED BY <1>4 DEF NextCooldown, epoch, carried

\* What a give-up persists is a snapshot, if there is anything to persist.
LEMMA GiveUpType ==
    ASSUME TypeOK, NEW m \in Matches, NEW t \in Tracker, NEW fresh \in Snapshot \cup {Null},
           NEW force \in BOOLEAN
    PROVE  GiveUpSnapshot(m, t, fresh, force) \in Snapshot \cup {Null}
<1> DEFINE candidate == IF t.fallback # Null /\ fresh # Null
                        THEN AccrueFallback(t.fallback, fresh)
                        ELSE FirstKnown(t.fallback, fresh, Prefer(last[m], rows[m]))
           base == FirstKnown(Other(last[m], candidate), Other(t.fallback, candidate),
                              Other(rows[m], candidate))
           merged == IF base = Null THEN candidate ELSE MergeOverBase(base, candidate)
<1>1. /\ t.fallback \in Snapshot \cup {Null}
      /\ last[m] \in Snapshot \cup {Null}
      /\ rows[m] \in Snapshot \cup {Null}
  BY DEF TypeOK, Tracker
<1>2. candidate \in Snapshot \cup {Null}
  <2>1. CASE t.fallback # Null /\ fresh # Null
    BY <1>1, <2>1, AccrueType
  <2>2. CASE ~(t.fallback # Null /\ fresh # Null)
    BY <1>1, <2>2 DEF FirstKnown, Prefer
  <2>3. QED BY <2>1, <2>2
<1> HIDE DEF candidate
<1>3. base \in Snapshot \cup {Null}
  BY <1>1 DEF FirstKnown, Prefer, Other
<1> HIDE DEF base
<1>4. candidate # Null => merged \in Snapshot
  BY <1>2, <1>3, MergeOverBaseType
<1> HIDE DEF merged
<1>5. candidate # Null => NonRegressOverStored(merged, rows[m], force) \in Snapshot
  BY <1>1, <1>4, NonRegressType
<1>6. QED BY <1>5 DEF GiveUpSnapshot, candidate, base, merged

-----------------------------------------------------------------------------
(* Type correctness.                                                       *)

Trackers == [Matches -> Tracker \cup {Null}]

Cooldowns == [Matches -> Cooldown \cup {Null}]

\* A match still to be visited has what its visit reads.
BoardKnown == phase = "slate" => \A m \in todo : slate[m] # Null

BackfillKnown == phase = "vanishedBackfill" => \A m \in todo : backfill[m] # Null

TypeInv == TypeOK /\ BoardKnown /\ BackfillKnown

\* Outside the apply phase the queue grows by hydrated snapshots.
LEMMA EnqueueType ==
    ASSUME TypeOK, phase # "apply", NEW m \in Matches, NEW snap \in Snapshot,
           NEW giveUp \in {"no", "transition", "backfill"}
    PROVE  Append(queue, Hydrated(m, snap, giveUp)) \in Seq(HydratedSnapshot)
<1>1. queue \in Seq(HydratedSnapshot)
  BY DEF TypeOK
<1>2. Hydrated(m, snap, giveUp) \in HydratedSnapshot
  BY DEF Hydrated, HydratedSnapshot
<1>3. QED BY <1>1, <1>2, AppendProperties

\* The types of what a visit may change.
VisitTyped ==
    /\ transitions \in Trackers /\ backfill \in Trackers /\ cooldowns \in Cooldowns
    /\ applyPending \subseteq Matches /\ fetches \in 0 .. BackfillMaxFetches
    /\ liveResumptions \subseteq Matches /\ queue \in Seq(HydratedSnapshot)

\* A visit that leaves its variables well typed preserves the invariant.
LEMMA VisitType ==
    ASSUME TypeInv, NEW m \in Matches, NEW in \in {"slate", "vanished", "vanishedBackfill"},
           Visit(m, in), VisitTyped',
           in = "vanishedBackfill" => \A n \in Matches \ {m} : backfill'[n] = backfill[n]
    PROVE  TypeInv'
<1>1. phase = in /\ todo' = todo \ {m} /\ UNCHANGED <<last, scanned, phase, slate, rows, log>>
  BY DEF Visit
<1>2. TypeOK'
  BY <1>1 DEF VisitTyped, TypeInv, TypeOK, Trackers, Cooldowns
<1>3. BoardKnown'
  BY <1>1 DEF TypeInv, BoardKnown
<1>4. BackfillKnown'
  BY <1>1 DEF TypeInv, BackfillKnown, TypeOK
<1>5. QED BY <1>2, <1>3, <1>4 DEF TypeInv

\* Giving up on a match that was live.
LEMMA EmitGiveUpType ==
    ASSUME TypeOK, phase # "apply", NEW m \in Matches, NEW t \in Tracker,
           NEW fresh \in Snapshot \cup {Null}, EmitGiveUp(m, t, fresh)
    PROVE  transitions' \in Trackers /\ cooldowns' \in Cooldowns /\ queue' \in Seq(HydratedSnapshot)
<1> DEFINE snap == GiveUpSnapshot(m, t, fresh, TRUE)
           emitted == [t EXCEPT !.pending = TRUE, !.emissions = @ + 1]
<1>1. /\ transitions \in Trackers /\ cooldowns \in Cooldowns
      /\ queue \in Seq(HydratedSnapshot)
  BY DEF TypeOK, Trackers, Cooldowns
<1>2. snap \in Snapshot \cup {Null}
  BY GiveUpType
<1> HIDE DEF snap
<1>3. CASE snap # Null /\ t.emissions < MaxGiveUpEmissions
  <2>1. emitted \in Tracker
    BY TrackerUpdates
  <2> HIDE DEF emitted
  <2>2. /\ transitions' = [transitions EXCEPT ![m] = emitted]
        /\ queue' = Append(queue, Hydrated(m, snap, "transition"))
        /\ UNCHANGED cooldowns
    BY <1>3 DEF EmitGiveUp, snap, emitted
  <2>3. queue' \in Seq(HydratedSnapshot)
    BY <1>2, <1>3, <2>2, EnqueueType
  <2>4. transitions' \in Trackers
    BY <1>1, <2>1, <2>2 DEF Trackers
  <2>5. QED BY <1>1, <2>2, <2>3, <2>4
<1>4. CASE ~(snap # Null /\ t.emissions < MaxGiveUpEmissions)
  <2>1. /\ transitions' = [transitions EXCEPT ![m] = Null]
        /\ cooldowns' = [cooldowns EXCEPT ![m] = NextCooldown(m, t.fallback, FALSE)]
        /\ UNCHANGED queue
    BY <1>4 DEF EmitGiveUp, snap
  <2>2. NextCooldown(m, t.fallback, FALSE) \in Cooldown
    BY NextCooldownType DEF Tracker
  <2>3. QED BY <1>1, <2>1, <2>2 DEF Trackers, Cooldowns
<1>5. QED BY <1>3, <1>4

\* Keeping a tracker or giving up.
LEMMA KeepOrGiveUpType ==
    ASSUME TypeOK, phase # "apply", NEW m \in Matches, NEW t \in Tracker,
           NEW fresh \in Snapshot \cup {Null}, KeepOrGiveUp(m, t, fresh)
    PROVE  transitions' \in Trackers /\ cooldowns' \in Cooldowns /\ queue' \in Seq(HydratedSnapshot)
<1>1. CASE AtCap(t)
  BY <1>1, EmitGiveUpType DEF KeepOrGiveUp
<1>2. CASE ~AtCap(t)
  BY <1>2 DEF KeepOrGiveUp, TypeOK, Trackers, Cooldowns
<1>3. QED BY <1>1, <1>2

\* Giving up on a backfill.
LEMMA EmitBackfillGiveUpType ==
    ASSUME TypeOK, phase # "apply", NEW m \in Matches, NEW t \in Tracker,
           NEW fresh \in Snapshot \cup {Null}, NEW pending \in SUBSET Matches,
           EmitBackfillGiveUp(m, t, fresh, pending)
    PROVE  /\ backfill' \in Trackers /\ cooldowns' \in Cooldowns
           /\ applyPending' \subseteq Matches /\ queue' \in Seq(HydratedSnapshot)
           /\ \A n \in Matches \ {m} : backfill'[n] = backfill[n]
<1> DEFINE snap == GiveUpSnapshot(m, t, fresh, FALSE)
           emitted == [t EXCEPT !.pending = TRUE, !.emissions = @ + 1]
<1>1. /\ backfill \in Trackers /\ cooldowns \in Cooldowns
      /\ queue \in Seq(HydratedSnapshot)
  BY DEF TypeOK, Trackers, Cooldowns
<1>2. snap \in Snapshot \cup {Null}
  BY GiveUpType
<1> HIDE DEF snap
<1>3. CASE snap # Null /\ t.emissions < MaxGiveUpEmissions
  <2>1. emitted \in Tracker
    BY TrackerUpdates
  <2> HIDE DEF emitted
  <2>2. /\ backfill' = [backfill EXCEPT ![m] = emitted]
        /\ applyPending' = pending \cup {m}
        /\ queue' = Append(queue, Hydrated(m, snap, "backfill"))
        /\ UNCHANGED cooldowns
    BY <1>3 DEF EmitBackfillGiveUp, snap, emitted
  <2>3. queue' \in Seq(HydratedSnapshot)
    BY <1>2, <1>3, <2>2, EnqueueType
  <2>4. backfill' \in Trackers /\ \A n \in Matches \ {m} : backfill'[n] = backfill[n]
    BY <1>1, <2>1, <2>2 DEF Trackers
  <2>5. QED BY <1>1, <2>2, <2>3, <2>4
<1>4. CASE ~(snap # Null /\ t.emissions < MaxGiveUpEmissions)
  <2>1. /\ backfill' = [backfill EXCEPT ![m] = Null]
        /\ cooldowns' = [cooldowns EXCEPT ![m] = NextCooldown(m, t.fallback, TRUE)]
        /\ applyPending' = pending
        /\ UNCHANGED queue
    BY <1>4 DEF EmitBackfillGiveUp, snap
  <2>2. NextCooldown(m, t.fallback, TRUE) \in Cooldown
    BY NextCooldownType DEF Tracker
  <2>3. QED BY <1>1, <2>1, <2>2 DEF Trackers, Cooldowns
<1>5. QED BY <1>3, <1>4

\* Keeping a backfill's tracker or giving up.
LEMMA KeepOrGiveUpBackfillType ==
    ASSUME TypeOK, phase # "apply", NEW m \in Matches, NEW t \in Tracker,
           NEW fresh \in Snapshot \cup {Null}, NEW pending \in SUBSET Matches,
           KeepOrGiveUpBackfill(m, t, fresh, pending)
    PROVE  /\ backfill' \in Trackers /\ cooldowns' \in Cooldowns
           /\ applyPending' \subseteq Matches /\ queue' \in Seq(HydratedSnapshot)
           /\ \A n \in Matches \ {m} : backfill'[n] = backfill[n]
<1>1. CASE BackfillAtCap(t)
  BY <1>1, EmitBackfillGiveUpType DEF KeepOrGiveUpBackfill
<1>2. CASE ~BackfillAtCap(t)
  BY <1>2 DEF KeepOrGiveUpBackfill, TypeOK, Trackers, Cooldowns
<1>3. QED BY <1>1, <1>2

\* The start of a poll, whatever board is sent.
LEMMA StartPollType ==
    ASSUME TypeInv, NEW board \in [Matches -> Boards \cup {Null}], StartPoll(board)
    PROVE  TypeInv'
<1>1. \A m \in Matches : Aged(board, m) \in Cooldown \cup {Null}
  <2> TAKE m \in Matches
  <2> DEFINE c == cooldowns[m]
  <2>1. c \in Cooldown \cup {Null} /\ CooldownMax \in Nat
    BY EngineAssumption DEF TypeInv, TypeOK
  <2> HIDE DEF c
  <2>2. CASE c = Null
    BY <2>2 DEF Aged, c
  <2>3. CASE c # Null
    <3>1. c \in Cooldown /\ c.remaining \in Nat /\ c.unseen \in Nat
      BY <2>1, <2>3 DEF Cooldown
    <3>2. c.remaining > 0 => c.remaining - 1 \in Nat
      BY <3>1
    <3>3. c.unseen + 1 \in Nat
      BY <3>1
    <3>4. c.remaining > 0 => [c EXCEPT !.remaining = @ - 1, !.unseen = 0] \in Cooldown
      BY <3>1, <3>2, Zenon DEF Cooldown
    <3>5. [c EXCEPT !.unseen = 0] \in Cooldown
      BY <3>1 DEF Cooldown
    <3>6. [c EXCEPT !.unseen = @ + 1] \in Cooldown
      BY <3>1, <3>3 DEF Cooldown
    <3>7. Aged(board, m) \in {[c EXCEPT !.unseen = 0], [c EXCEPT !.unseen = @ + 1], Null}
             \/ (c.remaining > 0 /\ Aged(board, m) = [c EXCEPT !.remaining = @ - 1, !.unseen = 0])
      BY <2>3, <3>1 DEF Aged, c
    <3>8. QED BY <3>4, <3>5, <3>6, <3>7
  <2>4. QED BY <2>2, <2>3
<1>2. \A m \in Matches : NewTracker(CarriedFallback(m)) \in Tracker
  BY CarriedType, NewTrackerType DEF TypeInv
<1>3. \A trackers \in Trackers, S \in SUBSET Matches : Seed(trackers, S) \in Trackers
  BY <1>2 DEF Seed, Trackers
<1>4. transitions' \in Trackers /\ backfill' \in Trackers
  BY <1>3 DEF StartPoll, RestartLive, RestartBackfill, TypeInv, TypeOK, Trackers
<1>5. cooldowns' \in Cooldowns
  BY <1>1 DEF StartPoll, Cooldowns
<1>6. queue' \in Seq(HydratedSnapshot) /\ phase' = "slate" /\ slate' = board
  BY DEF StartPoll, TypeInv, TypeOK
<1>7. TypeOK'
  BY <1>4, <1>5, <1>6 DEF StartPoll, TypeInv, TypeOK, Trackers, Cooldowns
<1>8. BoardKnown' /\ BackfillKnown'
  BY <1>6 DEF StartPoll, BoardKnown, BackfillKnown, OnSlate
<1>9. QED BY <1>7, <1>8 DEF TypeInv

\* The types a visit of the slate or of a vanished match starts from.
LEMMA Before ==
    ASSUME TypeInv, phase # "apply"
    PROVE  /\ TypeOK /\ VisitTyped
           /\ \A m \in Matches : /\ last[m] \in Snapshot \cup {Null}
                                 /\ rows[m] \in Snapshot \cup {Null}
                                 /\ slate[m] \in Snapshot \cup {Null}
           /\ BackfillMaxFetches \in Nat
BY EngineAssumption DEF VisitTyped, TypeInv, TypeOK, Trackers, Cooldowns

\* A match visited on the slate has a board.
LEMMA BoardType ==
    ASSUME TypeInv, NEW m \in Matches, Visit(m, "slate")
    PROVE  phase # "apply" /\ slate[m] \in Snapshot
<1>1. phase = "slate" /\ m \in todo
  BY DEF Visit
<1>2. slate[m] # Null
  BY <1>1 DEF TypeInv, BoardKnown
<1>3. QED BY <1>1, <1>2, Before

\* A cooldown that captured one more observation.
LEMMA CoolingCaptureType ==
    ASSUME TypeOK, NEW m \in Matches, NEW snap \in Snapshot, CoolingDown(m)
    PROVE  [cooldowns EXCEPT ![m].fallback = AccrueFallback(@, snap)] \in Cooldowns
<1>1. cooldowns \in Cooldowns /\ cooldowns[m] \in Cooldown
  BY DEF TypeOK, Cooldowns, CoolingDown
<1>2. AccrueFallback(cooldowns[m].fallback, snap) \in Snapshot
  BY <1>1, AccrueType DEF Cooldown
<1>3. QED BY <1>1, <1>2 DEF Cooldown, Cooldowns

\* A tracker after a successful fetch, or after its match resumed.
LEMMA FetchedType ==
    ASSUME TypeOK, NEW m \in Matches
    PROVE  /\ [transitions EXCEPT ![m] = Fetched(@)] \in Trackers
           /\ [transitions EXCEPT ![m] = ResetBudget(@)] \in Trackers
<1>1. transitions \in Trackers /\ transitions[m] \in Tracker \cup {Null}
  BY DEF TypeOK, Trackers
<1>2. Fetched(transitions[m]) \in Tracker \cup {Null}
  BY <1>1 DEF Fetched, Tracker
<1>3. ResetBudget(transitions[m]) \in Tracker \cup {Null}
  BY <1>1, NewTrackerType DEF ResetBudget, Tracker
<1>4. QED BY <1>1, <1>2, <1>3 DEF Trackers

\* A step for one match is a visit of it.
LEMMA VisitOf ==
    ASSUME NEW m \in Matches, SlateStep(m) \/ VanishedStep(m)
    PROVE  \E in \in {"slate", "vanished", "vanishedBackfill"} : Visit(m, in)
<1>1. CASE SlateStep(m)
  BY <1>1 DEF SlateStep, LiveBoard, DeferBoard, PersistBoard, TransitionCapped,
         TransitionFetchFailed, TransitionFinal, TransitionCooling, TransitionNotFinal,
         BackfillCapped, BackfillDeferred, BackfillFetchFailed, BackfillFetched, VisitBackfill,
         VisitBoard
<1>2. CASE VanishedStep(m)
  BY <1>2 DEF VanishedStep, VanishedCapped, VanishedFetchFailed, VanishedFetched, VisitVanished,
         VanishedBackfillCapped, VanishedBackfillDeferred, VanishedBackfillFailed,
         VanishedBackfillFetched, VanishedBackfillDue, VisitVanishedBackfill
<1>3. QED BY <1>1, <1>2

\* The visits of the slate.
LEMMA SlateStepType ==
    ASSUME TypeInv, NEW m \in Matches, SlateStep(m)
    PROVE  TypeInv'
<1>1. Visit(m, "slate")
  BY DEF SlateStep, LiveBoard, DeferBoard, PersistBoard, TransitionCapped, TransitionFetchFailed,
         TransitionFinal, TransitionCooling, TransitionNotFinal, BackfillCapped, BackfillDeferred,
         BackfillFetchFailed, BackfillFetched, VisitBackfill, VisitBoard
<1>2. phase # "apply" /\ slate[m] \in Snapshot
  BY <1>1, BoardType
<1>3. \A d \in Details : d \in Snapshot /\ MergeDetail(slate[m], d) \in Snapshot
  BY <1>2, MergeDetailType, EngineAssumption
<1> SUFFICES VisitTyped'
  BY <1>1, VisitType
<1> USE DEF VisitTyped
<1>4. ASSUME NEW d \in Details \cup {Null}, LiveBoard(m, d)
      PROVE  VisitTyped'
  <2>1. (IF d = Null THEN slate[m] ELSE MergeDetail(slate[m], d)) \in Snapshot
    BY <1>2, <1>3
  <2>2. queue' \in Seq(HydratedSnapshot)
    BY <1>2, <1>4, <2>1, Before, EnqueueType DEF LiveBoard, Enqueue
  <2>3. QED BY <1>2, <1>4, <2>2, Before, FetchedType DEF LiveBoard
<1>5. CASE DeferBoard(m)
  BY <1>2, <1>5, Before DEF DeferBoard, VisitBoard
<1>6. CASE PersistBoard(m)
  BY <1>2, <1>6, Before, EnqueueType DEF PersistBoard, VisitBoard, Enqueue
<1>7. CASE TransitionCapped(m)
  <2>1. transitions[m] \in Tracker
    BY <1>2, <1>7, Before DEF TransitionCapped, Trackers
  <2>2. QED BY <1>2, <1>7, <2>1, Before, EmitGiveUpType DEF TransitionCapped, VisitBoard
<1>8. CASE TransitionFetchFailed(m)
  <2>1. FailedFetch(Observed(TrackerOf(m), slate[m])) \in Tracker
    BY <1>2, Before, TrackerOfType, ObservedType, TrackerUpdates
  <2>2. QED BY <1>2, <1>8, <2>1, Before, CoolingCaptureType, KeepOrGiveUpType
           DEF TransitionFetchFailed, VisitBoard
<1>9. ASSUME NEW d \in Details, TransitionFinal(m, d)
      PROVE  VisitTyped'
  BY <1>2, <1>3, <1>9, Before, FetchedType, EnqueueType DEF TransitionFinal, VisitBoard, Enqueue
<1>10. ASSUME NEW d \in Details, TransitionCooling(m, d)
       PROVE  VisitTyped'
  BY <1>2, <1>3, <1>10, Before, FetchedType, CoolingCaptureType, EnqueueType
     DEF TransitionCooling, VisitBoard, Enqueue
<1>11. ASSUME NEW d \in Details, TransitionNotFinal(m, d)
       PROVE  VisitTyped'
  <2> DEFINE merged == MergeDetail(slate[m], d)
             t == [Observed([TrackerOf(m) EXCEPT !.failures = 0], merged) EXCEPT !.attempts = @ + 1]
  <2>1. merged \in Snapshot
    BY <1>3
  <2>2. t \in Tracker
    BY <1>2, <2>1, Before, TrackerOfType, ObservedType, TrackerUpdates
  <2> HIDE DEF merged, t
  <2>3. /\ IF AtCap(t) \/ ~Live(merged) THEN KeepOrGiveUp(m, t, merged)
           ELSE /\ transitions' = [transitions EXCEPT ![m] = t]
                /\ Enqueue(m, merged)
                /\ UNCHANGED cooldowns
        /\ UNCHANGED <<backfill, applyPending, fetches, liveResumptions>>
    BY <1>11 DEF TransitionNotFinal, VisitBoard, merged, t
  <2>4. CASE AtCap(t) \/ ~Live(merged)
    BY <1>2, <2>1, <2>2, <2>3, <2>4, Before, KeepOrGiveUpType
  <2>5. CASE ~(AtCap(t) \/ ~Live(merged))
    BY <1>2, <2>1, <2>2, <2>3, <2>5, Before, EnqueueType DEF Enqueue, Trackers
  <2>6. QED BY <2>4, <2>5
<1>12. CASE BackfillCapped(m)
  <2>1. backfill[m] \in Tracker
    BY <1>2, <1>12, Before DEF BackfillCapped, Trackers
  <2>2. QED BY <1>2, <1>12, <2>1, Before, EmitBackfillGiveUpType
           DEF BackfillCapped, VisitBackfill, VisitBoard
<1>13. CASE BackfillDeferred(m)
  <2>1. Observed(BackfillTrackerOf(m), slate[m]) \in Tracker
    BY <1>2, Before, TrackerOfType, ObservedType, TrackerUpdates
  <2>2. backfill' \in Trackers
    BY <1>2, <1>13, <2>1, Before DEF BackfillDeferred, Trackers
  <2>3. QED BY <1>2, <1>13, <2>2, Before DEF BackfillDeferred, VisitBackfill, VisitBoard
<1>14. CASE BackfillFetchFailed(m)
  <2>1. BackfillFailure(m, slate[m]) \in Tracker
    BY <1>2, Before, BackfillFailureType
  <2>2. fetches' \in 0 .. BackfillMaxFetches
    BY <1>2, <1>14, Before DEF BackfillFetchFailed
  <2>3. QED BY <1>2, <1>14, <2>1, <2>2, Before, KeepOrGiveUpBackfillType
           DEF BackfillFetchFailed, VisitBackfill, VisitBoard
<1>15. ASSUME NEW d \in Details, BackfillFetched(m, d)
       PROVE  VisitTyped'
  <2> DEFINE merged == MergeDetail(slate[m], d)
  <2>1. merged \in Snapshot
    BY <1>3
  <2> HIDE DEF merged
  <2>2. BackfillFailure(m, merged) \in Tracker
    BY <1>2, <2>1, Before, BackfillFailureType
  <2>3. fetches' \in 0 .. BackfillMaxFetches
    BY <1>2, <1>15, Before DEF BackfillFetched
  <2>4. /\ IF Live(merged) \/ Terminal(merged)
           THEN /\ Enqueue(m, merged)
                /\ applyPending' = applyPending \cup {m}
                /\ UNCHANGED <<backfill, cooldowns>>
           ELSE KeepOrGiveUpBackfill(m, BackfillFailure(m, merged), merged, applyPending \cup {m})
        /\ UNCHANGED <<transitions, liveResumptions>>
    BY <1>15 DEF BackfillFetched, VisitBackfill, VisitBoard, merged
  <2>5. CASE Live(merged) \/ Terminal(merged)
    BY <1>2, <2>1, <2>3, <2>4, <2>5, Before, EnqueueType DEF Enqueue
  <2>6. CASE ~(Live(merged) \/ Terminal(merged))
    <3>1. applyPending \cup {m} \in SUBSET Matches
      BY <1>2, Before
    <3>2. KeepOrGiveUpBackfill(m, BackfillFailure(m, merged), merged, applyPending \cup {m})
      BY <2>4, <2>6
    <3>3. QED BY <1>2, <2>1, <2>2, <2>3, <2>4, <3>1, <3>2, Before, KeepOrGiveUpBackfillType
  <2>7. QED BY <2>5, <2>6
<1>16. QED
  BY <1>4, <1>5, <1>6, <1>7, <1>8, <1>9, <1>10, <1>11, <1>12, <1>13, <1>14, <1>15 DEF SlateStep

\* The visits of tracked matches off the slate.
LEMMA VanishedVisitType ==
    ASSUME TypeInv, NEW m \in Matches,
           \/ VanishedCapped(m) \/ VanishedFetchFailed(m)
           \/ \E d \in Details : VanishedFetched(m, d)
    PROVE  TypeInv'
<1>1. Visit(m, "vanished") /\ UNCHANGED <<backfill, applyPending, fetches, liveResumptions>>
  BY DEF VanishedCapped, VanishedFetchFailed, VanishedFetched, VisitVanished
<1>2. phase # "apply"
  BY <1>1 DEF Visit
<1>3. TrackerOf(m) \in Tracker
  BY <1>2, Before, TrackerOfType
<1> SUFFICES VisitTyped'
  BY <1>1, VisitType
<1> USE DEF VisitTyped
<1>4. CASE VanishedCapped(m)
  BY <1>1, <1>2, <1>3, <1>4, Before, EmitGiveUpType DEF VanishedCapped
<1>5. CASE VanishedFetchFailed(m)
  <2>1. FailedFetch(TrackerOf(m)) \in Tracker
    BY <1>3, TrackerUpdates
  <2>2. QED BY <1>1, <1>2, <1>5, <2>1, Before, KeepOrGiveUpType DEF VanishedFetchFailed
<1>6. ASSUME NEW d \in Details, VanishedFetched(m, d)
      PROVE  VisitTyped'
  <2> DEFINE t == [TrackerOf(m) EXCEPT !.failures = 0]
             counted == [t EXCEPT !.attempts = @ + 1]
             merged == OverTransitionBase(m, t, d)
  <2>1. d \in Snapshot
    BY EngineAssumption
  <2>2. t \in Tracker
    BY <1>3, <2>1, TrackerUpdates
  <2>3. merged \in Snapshot
    <3>1. t.fallback \in Snapshot \cup {Null}
      BY <2>2 DEF Tracker
    <3> HIDE DEF t
    <3>2. FirstKnown(last[m], t.fallback, rows[m]) \in Snapshot \cup {Null}
      BY <1>2, <3>1, Before DEF FirstKnown, Prefer
    <3>3. QED BY <2>1, <3>2, MergeOverBaseType DEF OverTransitionBase
  <2> HIDE DEF t
  <2>4. counted \in Tracker
    BY <2>1, <2>2, TrackerUpdates
  <2> HIDE DEF counted, merged
  <2>5. IF Terminal(d) \/ (Live(d) /\ ~AtCap(counted))
        THEN /\ transitions' = [transitions EXCEPT ![m] = IF Terminal(d) THEN t ELSE counted]
             /\ Enqueue(m, merged)
             /\ UNCHANGED cooldowns
        ELSE KeepOrGiveUp(m, counted, IF Live(d) THEN merged ELSE Null)
    BY <1>6 DEF VanishedFetched, t, counted, merged
  <2>6. CASE Terminal(d) \/ (Live(d) /\ ~AtCap(counted))
    <3>1. transitions' \in Trackers
      BY <1>2, <2>2, <2>4, <2>5, <2>6, Before DEF Trackers
    <3>2. QED BY <1>1, <1>2, <2>3, <2>5, <2>6, <3>1, Before, EnqueueType DEF Enqueue
  <2>7. CASE ~(Terminal(d) \/ (Live(d) /\ ~AtCap(counted)))
    <3>1. (IF Live(d) THEN merged ELSE Null) \in Snapshot \cup {Null}
      BY <2>3
    <3>2. KeepOrGiveUp(m, counted, IF Live(d) THEN merged ELSE Null)
      BY <2>5, <2>7
    <3>3. QED BY <1>1, <1>2, <2>4, <3>1, <3>2, Before, KeepOrGiveUpType
  <2>8. QED BY <2>6, <2>7
<1>7. QED BY <1>4, <1>5, <1>6

\* The visits of pending backfills off the slate.
LEMMA VanishedBackfillVisitType ==
    ASSUME TypeInv, NEW m \in Matches,
           \/ VanishedBackfillCapped(m) \/ VanishedBackfillDeferred(m) \/ VanishedBackfillFailed(m)
           \/ \E d \in Details : VanishedBackfillFetched(m, d)
    PROVE  TypeInv'
<1>1. Visit(m, "vanishedBackfill") /\ UNCHANGED <<transitions, liveResumptions>>
  BY DEF VanishedBackfillCapped, VanishedBackfillDeferred, VanishedBackfillFailed,
         VanishedBackfillFetched, VanishedBackfillDue, VisitVanishedBackfill
<1>2. phase # "apply" /\ backfill[m] \in Tracker
  BY <1>1 DEF Visit, TypeInv, TypeOK, BackfillKnown
<1> SUFFICES VisitTyped' /\ \A n \in Matches \ {m} : backfill'[n] = backfill[n]
  BY <1>1, VisitType
<1> USE DEF VisitTyped
<1>3. CASE VanishedBackfillCapped(m)
  BY <1>1, <1>2, <1>3, Before, EmitBackfillGiveUpType DEF VanishedBackfillCapped
<1>4. CASE VanishedBackfillDeferred(m)
  BY <1>1, <1>2, <1>4, Before DEF VanishedBackfillDeferred
<1>5. CASE VanishedBackfillFailed(m)
  <2>1. [backfill[m] EXCEPT !.failures = @ + 1] \in Tracker
    BY <1>2, TrackerUpdates
  <2>2. fetches' \in 0 .. BackfillMaxFetches
    BY <1>2, <1>5, Before DEF VanishedBackfillFailed, VanishedBackfillDue
  <2>3. QED BY <1>1, <1>2, <1>5, <2>1, <2>2, Before, KeepOrGiveUpBackfillType
           DEF VanishedBackfillFailed
<1>6. ASSUME NEW d \in Details, VanishedBackfillFetched(m, d)
      PROVE  VisitTyped' /\ \A n \in Matches \ {m} : backfill'[n] = backfill[n]
  <2> DEFINE base == backfill[m].fallback
             merged == IF base = Null THEN d ELSE MergeOverBase(base, d)
  <2>1. base \in Snapshot \cup {Null} /\ d \in Snapshot
    BY <1>2, EngineAssumption DEF Tracker
  <2> HIDE DEF base
  <2>2. merged \in Snapshot
    BY <2>1, MergeOverBaseType
  <2> HIDE DEF merged
  <2>3. BackfillFailure(m, merged) \in Tracker
    BY <1>2, <2>2, Before, BackfillFailureType
  <2>4. fetches' \in 0 .. BackfillMaxFetches
    BY <1>2, <1>6, Before DEF VanishedBackfillFetched, VanishedBackfillDue
  <2>5. IF Live(merged) \/ Terminal(merged)
        THEN /\ Enqueue(m, merged)
             /\ applyPending' = applyPending \cup {m}
             /\ UNCHANGED <<backfill, cooldowns>>
        ELSE KeepOrGiveUpBackfill(m, BackfillFailure(m, merged), merged, applyPending \cup {m})
    BY <1>6 DEF VanishedBackfillFetched, base, merged
  <2>6. CASE Live(merged) \/ Terminal(merged)
    BY <1>1, <1>2, <2>2, <2>4, <2>5, <2>6, Before, EnqueueType DEF Enqueue
  <2>7. CASE ~(Live(merged) \/ Terminal(merged))
    <3>1. applyPending \cup {m} \in SUBSET Matches
      BY <1>2, Before
    <3>2. KeepOrGiveUpBackfill(m, BackfillFailure(m, merged), merged, applyPending \cup {m})
      BY <2>5, <2>7
    <3>3. QED BY <1>1, <1>2, <2>2, <2>3, <2>4, <3>1, <3>2, Before, KeepOrGiveUpBackfillType
  <2>8. QED BY <2>6, <2>7
<1>7. QED BY <1>3, <1>4, <1>5, <1>6

\* A queue of hydrated snapshots becomes a queue of diffs.
LEMMA DiffsType ==
    ASSUME TypeOK, phase # "apply"
    PROVE  Diffs \in Seq(Diff) /\ Len(Diffs) = Len(queue)
<1>1. queue \in Seq(HydratedSnapshot) /\ last \in [Matches -> Snapshot \cup {Null}]
  BY DEF TypeOK
<1>2. ASSUME NEW i \in DOMAIN queue
      PROVE  Diffs[i] \in Diff
  <2>1. queue[i] \in HydratedSnapshot
    BY <1>1
  <2>2. queue[i].match \in Matches /\ queue[i].snap \in Snapshot
        /\ queue[i].giveUp \in {"no", "transition", "backfill"}
    BY <2>1 DEF HydratedSnapshot
  <2>3. HasChanges(queue[i].snap, last[queue[i].match]) \in BOOLEAN
        /\ NewEvents(queue[i].snap, last[queue[i].match]) \in EventLists
    BY <2>2, HasChangesType, NewEventsType
  <2>4. QED BY <2>2, <2>3 DEF Diffs, Diff
<1>3. DOMAIN queue = 1 .. Len(queue) /\ Len(queue) \in Nat
  BY <1>1
<1>4. Diffs = [i \in 1 .. Len(queue) |-> Diffs[i]]
  BY <1>3 DEF Diffs
<1>5. QED BY <1>2, <1>3, <1>4, IsASeq

\* The ends of the phases.
LEMMA PhaseDoneType ==
    ASSUME TypeInv, SlateDone \/ VanishedDone \/ VanishedBackfillDone \/ PollDone
    PROVE  TypeInv'
<1>1. CASE SlateDone
  BY <1>1 DEF SlateDone, Vanished, memory, stored, TypeInv, TypeOK, BoardKnown, BackfillKnown
<1>2. CASE VanishedDone /\ BackfillEnabled
  BY <1>2 DEF VanishedDone, VanishedBackfills, memory, stored, TypeInv, TypeOK, BoardKnown,
              BackfillKnown
<1>3. CASE (VanishedDone /\ ~BackfillEnabled) \/ VanishedBackfillDone
  <2>1. phase # "apply" /\ BeginApply
        /\ UNCHANGED <<memory, slate, fetches, liveResumptions, stored>>
    BY <1>3 DEF VanishedDone, VanishedBackfillDone
  <2>2. phase' = "apply" /\ queue' \in Seq(Diff) /\ todo' = {}
    BY <2>1, DiffsType DEF BeginApply, TypeInv
  <2>3. QED BY <2>1, <2>2 DEF memory, stored, TypeInv, TypeOK, BoardKnown, BackfillKnown
<1>4. CASE PollDone
  <2>1. queue' \in Seq(HydratedSnapshot) /\ phase' = "idle" /\ fetches' \in 0 .. BackfillMaxFetches
    BY <1>4, EngineAssumption DEF PollDone
  <2>2. QED BY <1>4, <2>1 DEF PollDone, memory, stored, TypeInv, TypeOK, BoardKnown, BackfillKnown
<1>5. QED BY <1>1, <1>2, <1>3, <1>4

\* A stored row is a snapshot.
LEMMA SeededRowType ==
    ASSUME NEW m \in Matches, NEW snap \in Snapshot, NEW row \in Snapshot \cup {Null}
    PROVE  SeededRow(m, snap, row) \in Snapshot
<1>1. AsStored(m, snap) \in Snapshot
  <2>1. [s \in Sides |-> snap.score[Opposite[s]]] \in [Sides -> Scores \cup {Null}]
    BY EngineAssumption DEF Snapshot
  <2>2. QED BY <2>1 DEF AsStored, Snapshot
<1>2. SeededInfo(m, snap, row) \in Infos \cup {Null}
  BY EngineAssumption DEF SeededInfo, Prefer, Snapshot
<1> DEFINE turned == AsStored(m, snap)
           info == SeededInfo(m, snap, row)
<1> HIDE DEF turned, info
<1>3. [turned EXCEPT !.events = NoEvents, !.info = info] \in Snapshot
  BY <1>1, <1>2, NoEventsType DEF Snapshot, turned, info
<1>4. QED BY <1>3 DEF SeededRow, turned, info

\* The log with more events is an event list.
LEMMA ExtendedType ==
    ASSUME NEW events \in EventLists, NEW new \in EventLists
    PROVE  Extended(events, new) \in EventLists
<1> DEFINE S == DOMAIN events \cup {p \in DOMAIN new : AboveHead(p, events)}
<1>1. /\ DOMAIN events \subseteq Seqs /\ events \in [DOMAIN events -> Contents]
      /\ DOMAIN new \subseteq Seqs /\ new \in [DOMAIN new -> Contents]
  BY EventListsElim
<1>2. S \in SUBSET Seqs /\ \A q \in S : q \notin DOMAIN events => q \in DOMAIN new
  BY <1>1
<1> HIDE DEF S
<1>3. [q \in S |-> IF q \in DOMAIN events THEN events[q] ELSE new[q]] \in [S -> Contents]
  BY <1>1, <1>2
<1>4. QED BY <1>2, <1>3, EventListsIntro DEF Extended, S

\* What a crash leaves of the log is an event list.
LEMMA CutShortType ==
    ASSUME NEW events \in EventLists, NEW new \in EventLists
    PROVE  CutShort(events, new) \subseteq EventLists
<1> SUFFICES ASSUME NEW cut \in CutShort(events, new)
             PROVE  cut \in EventLists
  OBVIOUS
<1> DEFINE above == DOMAIN Extended(events, new) \ DOMAIN events
<1>1. PICK S \in SUBSET above :
         cut = [q \in DOMAIN events \cup S |-> IF q \in DOMAIN events THEN events[q] ELSE new[q]]
  BY DEF CutShort
<1>2. above \subseteq DOMAIN new
  BY DEF Extended
<1>3. /\ DOMAIN events \subseteq Seqs /\ events \in [DOMAIN events -> Contents]
      /\ DOMAIN new \subseteq Seqs /\ new \in [DOMAIN new -> Contents]
  BY EventListsElim
<1>4. DOMAIN events \cup S \in SUBSET Seqs
  BY <1>2, <1>3
<1>5. cut \in [DOMAIN events \cup S -> Contents]
  BY <1>1, <1>2, <1>3
<1>6. QED BY <1>4, <1>5, EventListsIntro

\* The entry that is applied next.
LEMMA HeadType ==
    ASSUME TypeInv, phase = "apply", queue # <<>>
    PROVE  /\ Head(queue) \in Diff /\ Tail(queue) \in Seq(Diff)
           /\ Head(queue).match \in Matches /\ Head(queue).snap \in Snapshot
           /\ Head(queue).new \in EventLists
<1>1. queue \in Seq(Diff)
  BY DEF TypeInv, TypeOK
<1>2. Head(queue) \in Diff /\ Tail(queue) \in Seq(Diff)
  BY <1>1, HeadTailProperties
<1>3. QED BY <1>2 DEF Diff

\* The rows and the log that applying an entry leaves.
LEMMA WriteType ==
    ASSUME TypeInv, phase = "apply", queue # <<>>
    PROVE  LET e == Head(queue) IN
           /\ SeedRow(e) => rows' \in [Matches -> Snapshot \cup {Null}]
           /\ AppendNewEvents(e) => log' \in [Matches -> EventLists]
<1> DEFINE e == Head(queue)
<1>1. /\ rows \in [Matches -> Snapshot \cup {Null}] /\ log \in [Matches -> EventLists]
      /\ e.match \in Matches /\ e.snap \in Snapshot /\ e.new \in EventLists
  BY HeadType DEF TypeInv, TypeOK
<1> HIDE DEF e
<1>2. SeededRow(e.match, e.snap, rows[e.match]) \in Snapshot
  BY <1>1, SeededRowType
<1>3. Extended(log[e.match], e.new) \in EventLists
  BY <1>1, ExtendedType
<1>4. SeedRow(e) => rows' \in [Matches -> Snapshot \cup {Null}]
  BY <1>1, <1>2 DEF SeedRow
<1>5. AppendNewEvents(e) => log' \in [Matches -> EventLists]
  BY <1>1, <1>3 DEF AppendNewEvents
<1>6. QED BY <1>4, <1>5 DEF e

\* The durable-snapshot hook.
LEMMA DurableType ==
    ASSUME TypeOK, NEW m \in Matches, NEW snap \in Snapshot, NEW advanced \in BOOLEAN,
           OnDurableSnapshot(m, snap, advanced)
    PROVE  transitions' \in Trackers /\ backfill' \in Trackers /\ cooldowns' \in Cooldowns
<1> DEFINE cooldown == IF backfill[m] # Null THEN Null ELSE cooldowns[m]
           cooldownAfter == CASE ~Live(snap) -> Null
                              [] Live(snap) /\ advanced -> ClearedGate(cooldown, snap)
                              [] OTHER -> cooldown
           trackerAfter == CASE ~Live(snap) -> Null
                             [] Live(snap) /\ advanced /\ m \in liveResumptions ->
                                   Reconciled(transitions[m], snap)
                             [] OTHER -> transitions[m]
<1>1. transitions \in Trackers /\ backfill \in Trackers /\ cooldowns \in Cooldowns
  BY DEF TypeOK, Trackers, Cooldowns
<1>2. cooldown \in Cooldown \cup {Null}
  BY <1>1 DEF Cooldowns
<1> HIDE DEF cooldown
<1>3. ClearedGate(cooldown, snap) \in Cooldown \cup {Null}
  <2>1. CASE cooldown = Null
    BY <2>1 DEF ClearedGate
  <2>2. CASE cooldown # Null
    <3> DEFINE f == IF cooldown.fallback # Null /\ LiveSupersedes(snap, cooldown.fallback)
                    THEN Null ELSE cooldown.fallback
    <3>1. cooldown \in Cooldown /\ f \in Snapshot \cup {Null}
      BY <1>2, <2>2 DEF Cooldown
    <3> HIDE DEF f
    <3>2. [cooldown EXCEPT !.remaining = 0, !.fallback = f] \in Cooldown
      BY <3>1 DEF Cooldown
    <3>3. ClearedGate(cooldown, snap) = [cooldown EXCEPT !.remaining = 0, !.fallback = f]
      BY <2>2, Zenon DEF ClearedGate, f
    <3>4. QED BY <3>2, <3>3
  <2>3. QED BY <2>1, <2>2
<1>4. Reconciled(transitions[m], snap) \in Tracker \cup {Null}
  BY <1>1 DEF Reconciled, Trackers
<1>5. cooldownAfter \in Cooldown \cup {Null}
  BY <1>2, <1>3
<1>6. trackerAfter \in Tracker \cup {Null}
  BY <1>1, <1>4 DEF Trackers
<1> HIDE DEF cooldownAfter, trackerAfter
<1>7. /\ backfill' = [backfill EXCEPT ![m] = Null]
      /\ cooldowns' = [cooldowns EXCEPT ![m] = cooldownAfter]
      /\ transitions' = [transitions EXCEPT ![m] = trackerAfter]
  BY <1>1 DEF OnDurableSnapshot, cooldown, cooldownAfter, trackerAfter, Trackers, Cooldowns
<1>8. QED BY <1>1, <1>5, <1>6, <1>7 DEF Trackers, Cooldowns

\* The baseline after an apply is a snapshot.
LEMMA AppliedBaselineType ==
    ASSUME TypeOK, NEW m \in Matches, NEW snap \in Snapshot, NEW new \in EventLists
    PROVE  AppliedBaseline(m, snap, new) \in Snapshot
<1>1. Extended(log[m], new) \in EventLists
  BY ExtendedType DEF TypeOK
<1>2. [snap EXCEPT !.events = Extended(log[m], new)] \in Snapshot
  BY <1>1 DEF Snapshot
<1>3. QED BY <1>2 DEF AppliedBaseline

\* A failed apply.
LEMMA NotAppliedType ==
    ASSUME TypeInv, phase = "apply", queue # <<>>, NotApplied(Head(queue))
    PROVE  backfill' \in Trackers /\ UNCHANGED <<last, transitions, cooldowns>>
<1> DEFINE e == Head(queue)
<1>1. e.match \in Matches /\ e.snap \in Snapshot /\ backfill \in Trackers /\ TypeOK
  BY HeadType DEF TypeInv, TypeOK, Trackers
<1> HIDE DEF e
<1>2. BackfillFailure(e.match, e.snap) \in Tracker
  BY <1>1, BackfillFailureType
<1>3. NotApplied(e)
  BY DEF e
<1>4. QED BY <1>1, <1>2, <1>3 DEF NotApplied, Trackers

\* One entry of the queue is dealt with.
LEMMA ApplyType ==
    ASSUME TypeInv, Unchanged \/ Applied \/ ApplyFailed
    PROVE  TypeInv'
<1> DEFINE e == Head(queue)
<1>1. ApplyNext
  BY DEF Unchanged, Applied, ApplyFailed, NotSeeded, EventsRejected, SideTablesFailed
<1>2. /\ phase = "apply" /\ queue # <<>> /\ queue' = Tail(queue)
      /\ UNCHANGED <<applyPending, scanned, phase, slate, todo, fetches, liveResumptions>>
  BY <1>1 DEF ApplyNext
<1>3. /\ e.match \in Matches /\ e.snap \in Snapshot /\ e.new \in EventLists
      /\ queue' \in Seq(Diff)
  BY <1>2, HeadType
<1>4. /\ last \in [Matches -> Snapshot \cup {Null}] /\ rows \in [Matches -> Snapshot \cup {Null}]
      /\ log \in [Matches -> EventLists]
      /\ transitions \in Trackers /\ backfill \in Trackers /\ cooldowns \in Cooldowns
  BY DEF TypeInv, TypeOK, Trackers, Cooldowns
<1> SUFFICES /\ last' \in [Matches -> Snapshot \cup {Null}]
             /\ rows' \in [Matches -> Snapshot \cup {Null}]
             /\ log' \in [Matches -> EventLists]
             /\ transitions' \in Trackers /\ backfill' \in Trackers /\ cooldowns' \in Cooldowns
  BY <1>2, <1>3 DEF TypeInv, TypeOK, BoardKnown, BackfillKnown, Trackers, Cooldowns
<1>5. CASE Unchanged
  <2>1. OnDurableSnapshot(e.match, e.snap, FALSE) /\ UNCHANGED <<last, rows, log>>
    BY <1>5 DEF Unchanged, stored
  <2>2. QED BY <1>3, <1>4, <2>1, DurableType DEF TypeInv
<1>6. CASE Applied
  <2> DEFINE baseline == AppliedBaseline(e.match, e.snap, e.new)
  <2>1. baseline \in Snapshot
    BY <1>3, AppliedBaselineType DEF TypeInv
  <2> HIDE DEF baseline
  <2>2. /\ SeedRow(e) /\ AppendNewEvents(e)
        /\ last' = [last EXCEPT ![e.match] = baseline]
        /\ OnDurableSnapshot(e.match, baseline, TRUE)
    BY <1>6 DEF Applied, baseline
  <2>3. rows' \in [Matches -> Snapshot \cup {Null}] /\ log' \in [Matches -> EventLists]
    BY <1>2, <2>2, WriteType
  <2>4. transitions' \in Trackers /\ backfill' \in Trackers /\ cooldowns' \in Cooldowns
    BY <1>3, <2>1, <2>2, DurableType DEF TypeInv
  <2>5. QED BY <1>3, <1>4, <2>1, <2>2, <2>3, <2>4
<1>7. CASE ApplyFailed
  <2>1. backfill' \in Trackers /\ UNCHANGED <<last, transitions, cooldowns>>
    BY <1>2, <1>7, NotAppliedType DEF ApplyFailed, NotSeeded, EventsRejected, SideTablesFailed
  <2>2. /\ SeedRow(e) \/ UNCHANGED rows
        /\ AppendNewEvents(e) \/ UNCHANGED log
    BY <1>7 DEF ApplyFailed, NotSeeded, EventsRejected, SideTablesFailed, stored
  <2>3. rows' \in [Matches -> Snapshot \cup {Null}] /\ log' \in [Matches -> EventLists]
    BY <1>2, <1>4, <2>2, WriteType
  <2>4. QED BY <1>4, <2>1, <2>3
<1>8. QED BY <1>5, <1>6, <1>7

\* A crash forgets the process and keeps what was committed.
LEMMA CrashType ==
    ASSUME TypeInv, Crash
    PROVE  TypeInv'
<1>1. rows \in [Matches -> Snapshot \cup {Null}] /\ log \in [Matches -> EventLists]
  BY DEF TypeInv, TypeOK
<1>2. rows' \in [Matches -> Snapshot \cup {Null}] /\ log' \in [Matches -> EventLists]
  <2> DEFINE e == Head(queue)
  <2>1. CASE UNCHANGED stored
    BY <1>1, <2>1 DEF stored
  <2>2. CASE /\ phase = "apply" /\ queue # <<>>
             /\ SeedRow(e)
             /\ \E events \in CutShort(log[e.match], e.new) :
                   log' = [log EXCEPT ![e.match] = events]
    <3>1. e.match \in Matches /\ e.new \in EventLists
      BY <2>2, HeadType
    <3> HIDE DEF e
    <3>2. CutShort(log[e.match], e.new) \subseteq EventLists
      BY <1>1, <3>1, CutShortType
    <3>3. log' \in [Matches -> EventLists]
      BY <1>1, <2>2, <3>1, <3>2
    <3>4. rows' \in [Matches -> Snapshot \cup {Null}]
      BY <2>2, WriteType DEF e
    <3>5. QED BY <3>3, <3>4
  <2>3. QED BY <2>1, <2>2 DEF Crash, CutShortApply
<1>3. /\ last' = [m \in Matches |-> Null] /\ transitions' = [m \in Matches |-> Null]
      /\ backfill' = [m \in Matches |-> Null] /\ cooldowns' = [m \in Matches |-> Null]
      /\ applyPending' = {} /\ scanned' = FALSE /\ phase' = "idle"
      /\ slate' = [m \in Matches |-> Null] /\ todo' = {} /\ fetches' = 0
      /\ liveResumptions' = {} /\ queue' = <<>>
  BY DEF Crash, Forget
<1>4. queue' \in Seq(HydratedSnapshot) /\ fetches' \in 0 .. BackfillMaxFetches
  BY <1>3, EngineAssumption
<1>5. QED BY <1>2, <1>3, <1>4 DEF TypeInv, TypeOK, BoardKnown, BackfillKnown

\* The types, and what a visit reads being there, are an inductive invariant.
LEMMA TypeInvStep ==
    ASSUME TypeInv, [Next]_vars
    PROVE  TypeInv'
<1>1. CASE NewPoll
  BY <1>1, StartPollType DEF NewPoll
<1>2. CASE SlateUnavailable
  BY <1>2 DEF SlateUnavailable, poll, stored, TypeInv, TypeOK, BoardKnown, BackfillKnown
<1>3. ASSUME NEW m \in Matches, SlateStep(m)
      PROVE  TypeInv'
  BY <1>3, SlateStepType
<1>4. ASSUME NEW m \in Matches, VanishedStep(m)
      PROVE  TypeInv'
  BY <1>4, VanishedVisitType, VanishedBackfillVisitType DEF VanishedStep
<1>5. CASE SlateDone \/ VanishedDone \/ VanishedBackfillDone \/ PollDone
  BY <1>5, PhaseDoneType
<1>6. CASE Unchanged \/ Applied \/ ApplyFailed
  BY <1>6, ApplyType
<1>7. CASE Crash
  BY <1>7, CrashType
<1>8. CASE UNCHANGED vars
  BY <1>8 DEF vars, TypeInv, TypeOK, BoardKnown, BackfillKnown
<1>9. QED BY <1>1, <1>2, <1>3, <1>4, <1>5, <1>6, <1>7, <1>8 DEF Next, SmoothStep

\* The engine starts well typed.
LEMMA TypeInvInit == Init => TypeInv
<1> SUFFICES ASSUME Init
             PROVE  TypeInv
  OBVIOUS
<1>1. queue \in Seq(HydratedSnapshot) /\ fetches \in 0 .. BackfillMaxFetches
  BY EngineAssumption DEF Init
<1>2. QED BY <1>1, NoEventsType DEF Init, TypeInv, TypeOK, BoardKnown, BackfillKnown

\* It stays so: each visit finds the board or the tracker it reads (poll_once).
LEMMA TypeInvAlways == Spec => []TypeInv
BY TypeInvInit, TypeInvStep, PTL DEF Spec

\* Type correctness: every value the engine keeps, queues or stores is of its type.
THEOREM TypeCorrect == Spec => []TypeOK
<1>1. TypeInv => TypeOK
  BY DEF TypeInv
<1>2. QED BY <1>1, TypeInvAlways, PTL

-----------------------------------------------------------------------------
(* A baseline never holds an event that is not stored.                     *)

\* Event q of a list is kept, with that content.
InLog(q, events, kept) == q \in DOMAIN kept /\ kept[q] = events[q]

\* Each event of a queued snapshot is still to be appended, or stored already.
QueueCovered ==
    phase = "apply" =>
        \A i \in DOMAIN queue : \A q \in DOMAIN queue[i].snap.events :
            InLog(q, queue[i].snap.events, queue[i].new)
            \/ InLog(q, queue[i].snap.events, log[queue[i].match])

StoredInv == TypeInv /\ BaselineEventsStored /\ QueueCovered

\* Appending keeps what is stored.
LEMMA ExtendedKeeps ==
    ASSUME NEW events, NEW new, NEW q \in DOMAIN events
    PROVE  q \in DOMAIN Extended(events, new) /\ Extended(events, new)[q] = events[q]
BY DEF Extended

\* Without a conflict, the whole batch is stored.
LEMMA ExtendedTakes ==
    ASSUME NEW events, NEW new, ~SequenceConflict(events, new), NEW q \in DOMAIN new
    PROVE  q \in DOMAIN Extended(events, new) /\ Extended(events, new)[q] = new[q]
BY DEF Extended, SequenceConflict

\* The rest of the queue stays covered while the log only grows.
LEMMA TailCovered ==
    ASSUME TypeInv, QueueCovered, phase = "apply", queue # <<>>, queue' = Tail(queue),
           \A m \in Matches : \A q \in DOMAIN log[m] : q \in DOMAIN log'[m] /\ log'[m][q] = log[m][q]
    PROVE  QueueCovered'
<1>1. queue \in Seq(Diff)
  BY DEF TypeInv, TypeOK
<1> SUFFICES ASSUME NEW i \in DOMAIN queue', NEW q \in DOMAIN queue'[i].snap.events
             PROVE  InLog(q, queue'[i].snap.events, queue'[i].new)
                    \/ InLog(q, queue'[i].snap.events, log'[queue'[i].match])
  BY DEF QueueCovered
<1>2. i + 1 \in DOMAIN queue /\ queue'[i] = queue[i + 1]
  BY <1>1
<1>3. queue[i + 1].match \in Matches
  <2>1. queue[i + 1] \in Diff
    BY <1>1, <1>2
  <2>2. QED BY <2>1 DEF Diff
<1>4. InLog(q, queue[i + 1].snap.events, queue[i + 1].new)
      \/ InLog(q, queue[i + 1].snap.events, log[queue[i + 1].match])
  BY <1>2 DEF QueueCovered
<1>5. QED BY <1>2, <1>3, <1>4 DEF InLog

\* What is diffed against the baselines is new or stored.
LEMMA DiffsCovered ==
    ASSUME StoredInv, phase # "apply", NEW i \in DOMAIN Diffs,
           NEW q \in DOMAIN Diffs[i].snap.events
    PROVE  InLog(q, Diffs[i].snap.events, Diffs[i].new)
           \/ InLog(q, Diffs[i].snap.events, log[Diffs[i].match])
<1> DEFINE h == queue[i]
<1>1. i \in DOMAIN queue /\ queue \in Seq(HydratedSnapshot)
  BY DEF Diffs, StoredInv, TypeInv, TypeOK
<1>2. h.match \in Matches
  <2>1. h \in HydratedSnapshot
    BY <1>1
  <2>2. QED BY <2>1 DEF HydratedSnapshot
<1>3. /\ Diffs[i].snap = h.snap /\ Diffs[i].match = h.match
      /\ Diffs[i].new = NewEvents(h.snap, last[h.match])
  BY <1>1 DEF Diffs
<1> HIDE DEF h
<1>4. CASE q \in DOMAIN NewEvents(h.snap, last[h.match])
  BY <1>3, <1>4, NewEventsOf DEF InLog
<1>5. CASE q \notin DOMAIN NewEvents(h.snap, last[h.match])
  <2>1. /\ last[h.match] # Null /\ q \in DOMAIN last[h.match].events
        /\ last[h.match].events[q] = h.snap.events[q]
    BY <1>3, <1>5 DEF NewEvents
  <2>2. q \in DOMAIN log[h.match] /\ log[h.match][q] = last[h.match].events[q]
    BY <1>2, <2>1 DEF StoredInv, BaselineEventsStored
  <2>3. QED BY <1>3, <2>1, <2>2 DEF InLog
<1>6. QED BY <1>4, <1>5

\* The successful apply of an entry.
LEMMA AppliedStored ==
    ASSUME StoredInv, TypeInv', Applied
    PROVE  StoredInv'
<1> DEFINE e == Head(queue)
           grown == Extended(log[e.match], e.new)
           baseline == AppliedBaseline(e.match, e.snap, e.new)
<1>1. /\ phase = "apply" /\ phase' = phase /\ queue # <<>> /\ queue' = Tail(queue)
      /\ log' = [log EXCEPT ![e.match] = grown]
      /\ last' = [last EXCEPT ![e.match] = baseline]
  BY DEF Applied, ApplyNext, AppendNewEvents
<1>2. /\ e.match \in Matches /\ e.snap \in Snapshot /\ e.new \in EventLists
      /\ queue \in Seq(Diff)
      /\ log \in [Matches -> EventLists] /\ last \in [Matches -> Snapshot \cup {Null}]
  BY <1>1, HeadType DEF StoredInv, TypeInv, TypeOK
<1>3. \A q \in DOMAIN e.snap.events :
         InLog(q, e.snap.events, e.new) \/ InLog(q, e.snap.events, log[e.match])
  <2>1. 1 \in DOMAIN queue /\ e = queue[1]
    BY <1>1, <1>2
  <2>2. QED BY <1>1, <2>1 DEF StoredInv, QueueCovered
<1>4. \A q \in DOMAIN baseline.events : InLog(q, baseline.events, grown)
  <2>1. CASE SequenceConflict(log[e.match], e.new)
    <3>1. baseline.events = grown
      BY <1>2, <2>1 DEF AppliedBaseline, Snapshot
    <3>2. QED BY <3>1 DEF InLog
  <2>2. CASE ~SequenceConflict(log[e.match], e.new)
    <3>1. baseline.events = e.snap.events
      BY <2>2 DEF AppliedBaseline
    <3>2. QED BY <1>3, <2>2, <3>1, ExtendedKeeps, ExtendedTakes DEF InLog
  <2>3. QED BY <2>1, <2>2
<1>5. \A m \in Matches : \A q \in DOMAIN log[m] : q \in DOMAIN log'[m] /\ log'[m][q] = log[m][q]
  BY <1>1, <1>2, ExtendedKeeps
<1> HIDE DEF baseline, grown, e
<1>6. BaselineEventsStored'
  <2> SUFFICES ASSUME NEW m \in Matches, last'[m] # Null, NEW q \in DOMAIN last'[m].events
               PROVE  q \in DOMAIN log'[m] /\ log'[m][q] = last'[m].events[q]
    BY DEF BaselineEventsStored
  <2>1. CASE m = e.match
    BY <1>1, <1>2, <1>4, <2>1 DEF InLog
  <2>2. CASE m # e.match
    BY <1>1, <1>2, <2>2 DEF StoredInv, BaselineEventsStored
  <2>3. QED BY <2>1, <2>2
<1>7. QueueCovered'
  BY <1>1, <1>2, <1>5, TailCovered DEF StoredInv
<1>8. QED BY <1>6, <1>7 DEF StoredInv

\* The steps that are not a successful apply.
LEMMA OtherStepStored ==
    ASSUME StoredInv, TypeInv', [Next]_vars, ~Applied
    PROVE  StoredInv'
<1>1. CASE Crash
  <2>1. last' = [m \in Matches |-> Null] /\ phase' = "idle"
    BY <1>1 DEF Crash, Forget
  <2>2. QED BY <2>1 DEF StoredInv, BaselineEventsStored, QueueCovered
<1>2. CASE (VanishedDone /\ ~BackfillEnabled) \/ VanishedBackfillDone
  <2>1. phase # "apply" /\ queue' = Diffs /\ UNCHANGED <<last, log>>
    BY <1>2 DEF VanishedDone, VanishedBackfillDone, BeginApply, memory, stored
  <2>2. QueueCovered'
    BY <2>1, DiffsCovered DEF QueueCovered, InLog
  <2>3. QED BY <2>1, <2>2 DEF StoredInv, BaselineEventsStored
<1>3. CASE Unchanged \/ ApplyFailed
  <2> DEFINE e == Head(queue)
  <2>1. /\ phase = "apply" /\ queue # <<>> /\ queue' = Tail(queue) /\ UNCHANGED last
        /\ AppendNewEvents(e) \/ UNCHANGED log
    BY <1>3 DEF Unchanged, ApplyFailed, NotSeeded, EventsRejected, SideTablesFailed, NotApplied,
                ApplyNext, stored
  <2>2. e.match \in Matches /\ log \in [Matches -> EventLists]
    BY <2>1, HeadType DEF StoredInv, TypeInv, TypeOK
  <2> HIDE DEF e
  <2>3. \A m \in Matches : \A q \in DOMAIN log[m] : q \in DOMAIN log'[m] /\ log'[m][q] = log[m][q]
    BY <2>1, <2>2, ExtendedKeeps DEF AppendNewEvents
  <2>4. BaselineEventsStored'
    BY <2>1, <2>3 DEF StoredInv, BaselineEventsStored
  <2>5. QED BY <2>1, <2>3, <2>4, TailCovered DEF StoredInv
<1>4. ASSUME UNCHANGED <<last, log>>, phase' # "apply"
      PROVE  StoredInv'
  BY <1>4 DEF StoredInv, BaselineEventsStored, QueueCovered
<1>5. CASE NewPoll \/ SlateUnavailable \/ SlateDone \/ (VanishedDone /\ BackfillEnabled) \/ PollDone
  BY <1>4, <1>5 DEF NewPoll, StartPoll, SlateUnavailable, SlateDone, VanishedDone, PollDone,
                    memory, poll, stored
<1>6. ASSUME NEW m \in Matches, SlateStep(m) \/ VanishedStep(m)
      PROVE  StoredInv'
  <2>1. PICK in \in {"slate", "vanished", "vanishedBackfill"} : Visit(m, in)
    BY <1>6, VisitOf
  <2>2. QED BY <1>4, <2>1 DEF Visit
<1>7. CASE UNCHANGED vars
  BY <1>7 DEF vars, StoredInv, BaselineEventsStored, QueueCovered
<1>8. QED BY <1>1, <1>2, <1>3, <1>5, <1>6, <1>7 DEF Next, SmoothStep

\* No event is baked into a baseline that is not stored (poll_once): whatever fails
\* or crashes, an event the engine will not diff again is in the log.
THEOREM BaselineEventsStoredAlways == Spec => []BaselineEventsStored
<1>1. Init => StoredInv
  BY TypeInvInit DEF Init, StoredInv, BaselineEventsStored, QueueCovered
<1>2. StoredInv /\ [Next]_vars => StoredInv'
  <2> SUFFICES ASSUME StoredInv, [Next]_vars
               PROVE  StoredInv'
    OBVIOUS
  <2>1. TypeInv'
    BY TypeInvStep DEF StoredInv
  <2>2. QED BY <2>1, AppliedStored, OtherStepStored
<1>3. StoredInv => BaselineEventsStored
  BY DEF StoredInv
<1>4. QED BY <1>1, <1>2, <1>3, PTL DEF Spec

-----------------------------------------------------------------------------
(* What a visit of a match may leave behind.                               *)

\* The entries of a queue.
Entries(q) == {q[i] : i \in DOMAIN q}

Queued(m) == \E e \in Entries(queue) : e.match = m

\* A snapshot of play or of its end.
InPlay(snap) == Live(snap) \/ Terminal(snap)

\* A give-up's entry takes back no stored goal and reopens no stored end, and that of
\* a match that was live closes it.
GiveUpSound(e) ==
    e.giveUp # "no" =>
        LET row == rows[e.match] IN
        /\ row # Null => ~Regressed(row, e.snap) /\ (Terminal(row) => Terminal(e.snap))
        /\ e.giveUp = "transition" => Terminal(e.snap)

\* Nothing is remembered of the other matches, or forgotten.
OthersKept(m) ==
    /\ \A n \in Matches \ {m} : /\ transitions'[n] = transitions[n]
                                /\ backfill'[n] = backfill[n] /\ cooldowns'[n] = cooldowns[n]
    /\ applyPending \subseteq applyPending' /\ applyPending' \subseteq applyPending \cup {m}

\* One entry of m is queued: its board, a snapshot of play, or a give-up.
Queues(m, e) == /\ e \in HydratedSnapshot /\ e.match = m
                /\ queue' = Append(queue, e)

QueuesBoard(m) == \E e \in HydratedSnapshot : Queues(m, e) /\ e.giveUp = "no" /\ e.snap = slate[m]

QueuesPlay(m) == \E e \in HydratedSnapshot : Queues(m, e) /\ e.giveUp = "no" /\ InPlay(e.snap)

QueuesGiveUp(m, kind) ==
    \E e \in HydratedSnapshot : Queues(m, e) /\ e.giveUp = kind /\ GiveUpSound(e)

\* The gate of m stays as it is, whatever its cooldown captures.
SameGate(m) ==
    /\ cooldowns'[m] = Null <=> cooldowns[m] = Null
    /\ cooldowns[m] # Null => cooldowns'[m].remaining = cooldowns[m].remaining

\* The outcomes for a match that was live.
TransitionGated(m) ==
    /\ transitions'[m] = Null <=> transitions[m] = Null
    /\ SameGate(m)
    /\ UNCHANGED queue \/ QueuesPlay(m)

TransitionTracked(m) ==
    /\ transitions'[m] # Null
    /\ UNCHANGED cooldowns
    /\ UNCHANGED queue \/ QueuesPlay(m) \/ QueuesGiveUp(m, "transition")

TransitionAbandoned(m) ==
    /\ transitions'[m] = Null
    /\ cooldowns'[m] # Null /\ cooldowns'[m].remaining > 0
    /\ UNCHANGED queue

\* The outcomes for a match to be backfilled.
BackfillReady(m) ==
    /\ UNCHANGED <<backfill, cooldowns>>
    /\ m \in applyPending'
    /\ QueuesPlay(m)

BackfillTracked(m) ==
    /\ backfill'[m] # Null
    /\ UNCHANGED cooldowns
    /\ UNCHANGED queue \/ QueuesGiveUp(m, "backfill")

BackfillAbandoned(m) ==
    /\ backfill'[m] = Null
    /\ cooldowns'[m] # Null /\ cooldowns'[m].remaining > 0
    /\ UNCHANGED queue

\* A cooldown starts with at least one poll to wait.
LEMMA CooldownStarts ==
    ASSUME TypeOK, NEW m \in Matches, NEW f \in Snapshot \cup {Null}, NEW origin \in BOOLEAN
    PROVE  NextCooldown(m, f, origin) # Null /\ NextCooldown(m, f, origin).remaining > 0
<1> DEFINE epoch == IF cooldowns[m] = Null THEN 1
                    ELSE IF cooldowns[m].epoch < MaxEpoch THEN cooldowns[m].epoch + 1
                    ELSE MaxEpoch
<1>1. epoch \in 1 .. MaxEpoch
  <2>1. cooldowns[m] \in Cooldown \cup {Null}
    BY DEF TypeOK
  <2>2. MaxEpoch \in Nat \ {0}
    BY EngineAssumption
  <2>3. QED BY <2>1, <2>2 DEF Cooldown
<1> HIDE DEF epoch
<1>2. CooldownLength(epoch) > 0
  <2> DEFINE p == 2^(epoch - 1)
  <2>1. p \in Nat \ {0}
    BY <1>1, PowerAssumption
  <2>2. CooldownBase \in Nat \ {0} /\ CooldownMax \in Nat \ {0}
    BY EngineAssumption
  <2> HIDE DEF p
  <2>3. CooldownBase * p > 0
    BY <2>1, <2>2
  <2>4. QED BY <2>2, <2>3 DEF CooldownLength, p
<1>3. NextCooldown(m, f, origin).remaining = CooldownLength(epoch)
  BY DEF NextCooldown, epoch
<1>4. NextCooldown(m, f, origin) # Null
  BY NextCooldownType, NoneAssumption
<1>5. QED BY <1>2, <1>3, <1>4

\* The larger of two scores is not below either.
LEMMA MaxKnownAbove ==
    ASSUME NEW a \in Scores \cup {Null}, NEW b \in Scores \cup {Null}
    PROVE  ~Below(MaxKnown(a, b), b)
<1>1. Scores \subseteq Nat
  BY SnapshotAssumption
<1>2. QED BY <1>1 DEF Below, MaxKnown

\* The decision table of a give-up (_nonregress_over_stored).
LEMMA NonRegressSound ==
    ASSUME NEW snap \in Snapshot, NEW row \in Snapshot \cup {Null}, NEW force \in BOOLEAN
    PROVE  LET final == NonRegressOverStored(snap, row, force) IN
           /\ row # Null => ~Regressed(row, final) /\ (Terminal(row) => Terminal(final))
           /\ force => Terminal(final)
<1> DEFINE final == NonRegressOverStored(snap, row, force)
           coerced == force /\ ~Terminal(snap)
           closed == row # Null /\ Terminal(row)
<1>1. final.status = IF coerced \/ closed THEN "FINISHED" ELSE snap.status
  BY DEF NonRegressOverStored, Snapshot
<1>2. final.score = NonRegressScore(snap, row)
  BY DEF NonRegressOverStored, Snapshot
<1> HIDE DEF final
<1>3. ASSUME row # Null
      PROVE  ~Regressed(row, final)
  <2> SUFFICES ASSUME NEW s \in Sides
               PROVE  ~Below(final.score[s], row.score[s])
    BY DEF Regressed
  <2>1. snap.score[s] \in Scores \cup {Null} /\ row.score[s] \in Scores \cup {Null}
    BY <1>3 DEF Snapshot
  <2>2. final.score[s] = MaxKnown(snap.score[s], row.score[s])
    BY <1>2, <1>3 DEF NonRegressScore, MaxScores
  <2>3. QED BY <2>1, <2>2, MaxKnownAbove
<1>4. row # Null /\ Terminal(row) => Terminal(final)
  BY <1>1 DEF Terminal
<1>5. force => Terminal(final)
  BY <1>1 DEF Terminal
<1>6. QED BY <1>3, <1>4, <1>5 DEF final

\* What a give-up queues is sound.
LEMMA GiveUpEntry ==
    ASSUME TypeOK, NEW m \in Matches, NEW t \in Tracker, NEW fresh \in Snapshot \cup {Null},
           NEW kind \in {"transition", "backfill"},
           GiveUpSnapshot(m, t, fresh, kind = "transition") # Null
    PROVE  LET e == Hydrated(m, GiveUpSnapshot(m, t, fresh, kind = "transition"), kind) IN
           /\ e \in HydratedSnapshot /\ e.match = m /\ e.giveUp = kind
           /\ GiveUpSound(e)
<1> DEFINE force == kind = "transition"
           snap == GiveUpSnapshot(m, t, fresh, force)
           e == Hydrated(m, snap, kind)
           candidate == IF t.fallback # Null /\ fresh # Null
                        THEN AccrueFallback(t.fallback, fresh)
                        ELSE FirstKnown(t.fallback, fresh, Prefer(last[m], rows[m]))
           base == FirstKnown(Other(last[m], candidate), Other(t.fallback, candidate),
                              Other(rows[m], candidate))
           merged == IF base = Null THEN candidate ELSE MergeOverBase(base, candidate)
<1>1. force \in BOOLEAN /\ snap \in Snapshot \cup {Null} /\ snap # Null
  BY GiveUpType
<1>2. /\ t.fallback \in Snapshot \cup {Null}
      /\ last[m] \in Snapshot \cup {Null}
      /\ rows[m] \in Snapshot \cup {Null}
  BY DEF TypeOK, Tracker
<1>3. candidate \in Snapshot \cup {Null}
  <2>1. CASE t.fallback # Null /\ fresh # Null
    BY <1>2, <2>1, AccrueType
  <2>2. CASE ~(t.fallback # Null /\ fresh # Null)
    BY <1>2, <2>2 DEF FirstKnown, Prefer
  <2>3. QED BY <2>1, <2>2
<1>4. candidate # Null /\ snap = NonRegressOverStored(merged, rows[m], force)
  BY <1>1 DEF GiveUpSnapshot
<1> HIDE DEF candidate
<1>5. base \in Snapshot \cup {Null}
  BY <1>2 DEF FirstKnown, Prefer, Other
<1> HIDE DEF base
<1>6. merged \in Snapshot
  BY <1>3, <1>4, <1>5, MergeOverBaseType
<1> HIDE DEF merged, snap, force
<1>7. /\ rows[m] # Null => ~Regressed(rows[m], snap) /\ (Terminal(rows[m]) => Terminal(snap))
      /\ force => Terminal(snap)
  BY <1>1, <1>2, <1>4, <1>6, NonRegressSound
<1>8. e.match = m /\ e.snap = snap /\ e.giveUp = kind
  BY DEF Hydrated
<1>9. e \in HydratedSnapshot
  BY <1>1 DEF Hydrated, HydratedSnapshot
<1> HIDE DEF e
<1>10. GiveUpSound(e)
  BY <1>7, <1>8 DEF GiveUpSound, force
<1>11. QED BY <1>8, <1>9, <1>10 DEF e, snap, force

\* Giving up on a match that was live queues its best-known end, or starts a cooldown.
LEMMA EmitGiveUpOutcome ==
    ASSUME TypeOK, NEW m \in Matches, NEW t \in Tracker, NEW fresh \in Snapshot \cup {Null},
           EmitGiveUp(m, t, fresh)
    PROVE  /\ TransitionTracked(m) \/ TransitionAbandoned(m)
           /\ \A n \in Matches \ {m} : transitions'[n] = transitions[n] /\ cooldowns'[n] = cooldowns[n]
<1> DEFINE snap == GiveUpSnapshot(m, t, fresh, TRUE)
           emitted == [t EXCEPT !.pending = TRUE, !.emissions = @ + 1]
<1>1. transitions \in Trackers /\ cooldowns \in Cooldowns
  BY DEF TypeOK, Trackers, Cooldowns
<1>2. CASE snap # Null /\ t.emissions < MaxGiveUpEmissions
  <2>1. emitted # Null
    BY TrackerUpdates, NoneAssumption
  <2>2. /\ transitions' = [transitions EXCEPT ![m] = emitted]
        /\ queue' = Append(queue, Hydrated(m, snap, "transition"))
        /\ UNCHANGED cooldowns
    BY <1>2 DEF EmitGiveUp
  <2>3. QueuesGiveUp(m, "transition")
    BY <1>2, <2>2, GiveUpEntry DEF QueuesGiveUp, Queues
  <2> HIDE DEF emitted, snap
  <2>4. QED BY <1>1, <2>1, <2>2, <2>3 DEF TransitionTracked, Trackers
<1>3. CASE ~(snap # Null /\ t.emissions < MaxGiveUpEmissions)
  <2>1. /\ transitions' = [transitions EXCEPT ![m] = Null]
        /\ cooldowns' = [cooldowns EXCEPT ![m] = NextCooldown(m, t.fallback, FALSE)]
        /\ UNCHANGED queue
    BY <1>3 DEF EmitGiveUp
  <2>2. /\ NextCooldown(m, t.fallback, FALSE) # Null
        /\ NextCooldown(m, t.fallback, FALSE).remaining > 0
    BY CooldownStarts DEF Tracker
  <2> HIDE DEF snap
  <2>3. QED BY <1>1, <2>1, <2>2 DEF TransitionAbandoned, Trackers, Cooldowns
<1>4. QED BY <1>2, <1>3

\* A tracker is kept, or its match given up on.
LEMMA KeepOrGiveUpOutcome ==
    ASSUME TypeOK, NEW m \in Matches, NEW t \in Tracker, NEW fresh \in Snapshot \cup {Null},
           KeepOrGiveUp(m, t, fresh)
    PROVE  /\ TransitionTracked(m) \/ TransitionAbandoned(m)
           /\ \A n \in Matches \ {m} : transitions'[n] = transitions[n] /\ cooldowns'[n] = cooldowns[n]
<1>1. CASE AtCap(t)
  BY <1>1, EmitGiveUpOutcome DEF KeepOrGiveUp
<1>2. CASE ~AtCap(t)
  BY <1>2, NoneAssumption DEF KeepOrGiveUp, TypeOK, TransitionTracked
<1>3. QED BY <1>1, <1>2

\* Giving up on a backfill queues what is known, or starts a cooldown.
LEMMA EmitBackfillGiveUpOutcome ==
    ASSUME TypeOK, NEW m \in Matches, NEW t \in Tracker, NEW fresh \in Snapshot \cup {Null},
           NEW pending \in SUBSET Matches, EmitBackfillGiveUp(m, t, fresh, pending)
    PROVE  /\ BackfillTracked(m) \/ BackfillAbandoned(m)
           /\ \A n \in Matches \ {m} : backfill'[n] = backfill[n] /\ cooldowns'[n] = cooldowns[n]
           /\ pending \subseteq applyPending' /\ applyPending' \subseteq pending \cup {m}
<1> DEFINE snap == GiveUpSnapshot(m, t, fresh, FALSE)
           emitted == [t EXCEPT !.pending = TRUE, !.emissions = @ + 1]
<1>1. backfill \in Trackers /\ cooldowns \in Cooldowns
  BY DEF TypeOK, Trackers, Cooldowns
<1>2. CASE snap # Null /\ t.emissions < MaxGiveUpEmissions
  <2>1. emitted # Null
    BY TrackerUpdates, NoneAssumption
  <2>2. /\ backfill' = [backfill EXCEPT ![m] = emitted]
        /\ applyPending' = pending \cup {m}
        /\ queue' = Append(queue, Hydrated(m, snap, "backfill"))
        /\ UNCHANGED cooldowns
    BY <1>2 DEF EmitBackfillGiveUp
  <2>3. QueuesGiveUp(m, "backfill")
    <3>1. ("backfill" = "transition") = FALSE
      OBVIOUS
    <3>2. QED BY <1>2, <2>2, <3>1, GiveUpEntry DEF QueuesGiveUp, Queues
  <2> HIDE DEF emitted, snap
  <2>4. QED BY <1>1, <2>1, <2>2, <2>3 DEF BackfillTracked, Trackers
<1>3. CASE ~(snap # Null /\ t.emissions < MaxGiveUpEmissions)
  <2>1. /\ backfill' = [backfill EXCEPT ![m] = Null]
        /\ cooldowns' = [cooldowns EXCEPT ![m] = NextCooldown(m, t.fallback, TRUE)]
        /\ applyPending' = pending
        /\ UNCHANGED queue
    BY <1>3 DEF EmitBackfillGiveUp
  <2>2. /\ NextCooldown(m, t.fallback, TRUE) # Null
        /\ NextCooldown(m, t.fallback, TRUE).remaining > 0
    BY CooldownStarts DEF Tracker
  <2> HIDE DEF snap
  <2>3. QED BY <1>1, <2>1, <2>2 DEF BackfillAbandoned, Trackers, Cooldowns
<1>4. QED BY <1>2, <1>3

\* A backfill's tracker is kept, or its match given up on.
LEMMA KeepOrGiveUpBackfillOutcome ==
    ASSUME TypeOK, NEW m \in Matches, NEW t \in Tracker, NEW fresh \in Snapshot \cup {Null},
           NEW pending \in SUBSET Matches, KeepOrGiveUpBackfill(m, t, fresh, pending)
    PROVE  /\ BackfillTracked(m) \/ BackfillAbandoned(m)
           /\ \A n \in Matches \ {m} : backfill'[n] = backfill[n] /\ cooldowns'[n] = cooldowns[n]
           /\ pending \subseteq applyPending' /\ applyPending' \subseteq pending \cup {m}
<1>1. CASE BackfillAtCap(t)
  BY <1>1, EmitBackfillGiveUpOutcome DEF KeepOrGiveUpBackfill
<1>2. CASE ~BackfillAtCap(t)
  BY <1>2, NoneAssumption DEF KeepOrGiveUpBackfill, TypeOK, BackfillTracked
<1>3. QED BY <1>1, <1>2


\* A live board stays in play whatever its detail says.
LEMMA ResumedInPlay ==
    ASSUME NEW board \in Snapshot, NEW d \in Snapshot, Live(board)
    PROVE  InPlay(MergeDetail(board, d))
<1> DEFINE merged == MergeOverBase(board, d)
<1>1. merged.status = d.status /\ d.status \in Statuses /\ merged \in Snapshot
  BY MergeOverBaseType DEF MergeOverBase, Snapshot
<1> HIDE DEF merged
<1>2. CASE StatusRank[d.status] < StatusRank[board.status]
  <2>1. MergeDetail(board, d).status = board.status
    BY <1>1, <1>2 DEF MergeDetail, merged, Snapshot
  <2>2. QED BY <2>1 DEF InPlay, Live
<1>3. CASE ~(StatusRank[d.status] < StatusRank[board.status])
  <2>1. MergeDetail(board, d) = merged
    BY <1>3 DEF MergeDetail, merged
  <2>2. StatusRank[board.status] = 1
    BY DEF Live, LIVE_STATUSES, StatusRank
  <2>3. d.status \in {"IN_PLAY", "PAUSED", "FINISHED"}
    BY <1>1, <1>3, <2>2 DEF StatusRank, Statuses
  <2>4. QED BY <1>1, <2>1, <2>3 DEF InPlay, Live, Terminal, LIVE_STATUSES
<1>4. QED BY <1>2, <1>3

\* A snapshot of play is queued.
LEMMA PlayQueued ==
    ASSUME NEW m \in Matches, NEW snap \in Snapshot, InPlay(snap), Enqueue(m, snap)
    PROVE  QueuesPlay(m)
<1>1. Hydrated(m, snap, "no") \in HydratedSnapshot
  BY DEF Hydrated, HydratedSnapshot
<1>2. QED BY <1>1 DEF QueuesPlay, Queues, Enqueue, Hydrated

\* What a cooldown captures leaves its gate alone.
LEMMA CaptureKeepsGate ==
    ASSUME TypeOK, NEW m \in Matches, NEW snap \in Snapshot, CoolingDown(m),
           cooldowns' = [cooldowns EXCEPT ![m].fallback = AccrueFallback(@, snap)]
    PROVE  SameGate(m) /\ \A n \in Matches \ {m} : cooldowns'[n] = cooldowns[n]
<1>1. cooldowns \in Cooldowns /\ cooldowns[m] \in Cooldown /\ cooldowns' \in Cooldowns
  BY CoolingCaptureType DEF TypeOK, Cooldowns, CoolingDown
<1>2. cooldowns'[m] \in Cooldown
  <2>1. cooldowns'[m] = [cooldowns[m] EXCEPT !.fallback = AccrueFallback(@, snap)]
    BY <1>1 DEF Cooldowns
  <2>2. AccrueFallback(cooldowns[m].fallback, snap) \in Snapshot
    BY <1>1, AccrueType DEF Cooldown
  <2>3. QED BY <1>1, <2>1, <2>2 DEF Cooldown
<1>3. cooldowns'[m].remaining = cooldowns[m].remaining
  BY <1>1 DEF Cooldown, Cooldowns
<1>4. QED BY <1>1, <1>2, <1>3, NoneAssumption DEF SameGate, CoolingDown, Cooldowns

\* The outcomes of a match's visit on the slate.
SlateOutcome(m) ==
    \/ /\ Live(slate[m])
       /\ transitions'[m] = Null <=> transitions[m] = Null
       /\ UNCHANGED <<backfill, cooldowns, applyPending>>
       /\ UNCHANGED queue \/ QueuesPlay(m)
    \/ /\ CoolingDown(m)
       /\ UNCHANGED <<transitions, backfill, cooldowns, applyPending, queue>>
    \/ /\ ~Live(slate[m]) /\ ~WasLive(m) /\ ~IsBackfill(m)
       /\ UNCHANGED <<transitions, backfill, cooldowns, applyPending>>
       /\ QueuesBoard(m)
    \/ /\ InTransition(m)
       /\ UNCHANGED <<backfill, applyPending>>
       /\ \/ TransitionGated(m)
          \/ ~CoolingDown(m) /\ (TransitionTracked(m) \/ TransitionAbandoned(m))
    \/ /\ IsBackfill(m)
       /\ UNCHANGED transitions
       /\ BackfillReady(m) \/ BackfillTracked(m) \/ BackfillAbandoned(m)

LEMMA SlateStepOutcome ==
    ASSUME TypeInv, NEW m \in Matches, SlateStep(m)
    PROVE  Visit(m, "slate") /\ OthersKept(m) /\ SlateOutcome(m)
<1>1. Visit(m, "slate")
  BY DEF SlateStep, LiveBoard, DeferBoard, PersistBoard, TransitionCapped, TransitionFetchFailed,
         TransitionFinal, TransitionCooling, TransitionNotFinal, BackfillCapped, BackfillDeferred,
         BackfillFetchFailed, BackfillFetched, VisitBackfill, VisitBoard
<1>2. phase # "apply" /\ slate[m] \in Snapshot
  BY <1>1, BoardType
<1>3. \A d \in Details : d \in Snapshot /\ MergeDetail(slate[m], d) \in Snapshot
  BY <1>2, MergeDetailType, EngineAssumption
<1>4. /\ TypeOK
      /\ transitions \in Trackers /\ backfill \in Trackers /\ cooldowns \in Cooldowns
      /\ applyPending \in SUBSET Matches
  BY DEF TypeInv, TypeOK, Trackers, Cooldowns
<1> SUFFICES OthersKept(m) /\ SlateOutcome(m)
  BY <1>1
<1>5. /\ [transitions EXCEPT ![m] = ResetBudget(@)][m] = Null <=> transitions[m] = Null
      /\ [transitions EXCEPT ![m] = Fetched(@)][m] = Null <=> transitions[m] = Null
  <2>1. transitions[m] \in Tracker \cup {Null}
    BY <1>4 DEF Trackers
  <2>2. transitions[m] # Null => Fetched(transitions[m]) \in Tracker
    BY <2>1, TrackerUpdates DEF Fetched
  <2>3. transitions[m] # Null => ResetBudget(transitions[m]) \in Tracker
    BY <2>1, NewTrackerType DEF ResetBudget, Tracker
  <2>4. QED BY <1>4, <2>2, <2>3, NoneAssumption DEF ResetBudget, Fetched, Trackers
<1>6. ASSUME NEW d \in Details \cup {Null}, LiveBoard(m, d)
      PROVE  OthersKept(m) /\ SlateOutcome(m)
  <2> DEFINE snap == IF d = Null THEN slate[m] ELSE MergeDetail(slate[m], d)
  <2>1. /\ Live(slate[m])
        /\ transitions' = [transitions EXCEPT ![m] = ResetBudget(@)]
        /\ UNCHANGED <<backfill, cooldowns, applyPending>>
        /\ UNCHANGED queue \/ Enqueue(m, snap)
    BY <1>6 DEF LiveBoard
  <2>2. snap \in Snapshot /\ InPlay(snap)
    BY <1>2, <1>3, <2>1, ResumedInPlay DEF InPlay
  <2> HIDE DEF snap
  <2>3. UNCHANGED queue \/ QueuesPlay(m)
    BY <2>1, <2>2, PlayQueued
  <2>4. OthersKept(m)
    BY <1>4, <2>1 DEF OthersKept, Trackers
  <2>5. QED BY <1>5, <2>1, <2>3, <2>4 DEF SlateOutcome
<1>7. CASE DeferBoard(m)
  BY <1>7 DEF DeferBoard, BackfillCoolingDeferred, OthersKept, SlateOutcome
<1>8. CASE PersistBoard(m)
  <2>1. Hydrated(m, slate[m], "no") \in HydratedSnapshot
    BY <1>2 DEF Hydrated, HydratedSnapshot
  <2>2. QueuesBoard(m)
    BY <1>8, <2>1 DEF PersistBoard, Enqueue, QueuesBoard, Queues, Hydrated
  <2>3. QED BY <1>8, <2>2 DEF PersistBoard, OthersKept, SlateOutcome
<1>9. CASE TransitionCapped(m)
  <2>1. InTransition(m) /\ transitions[m] \in Tracker /\ UNCHANGED <<backfill, applyPending>>
    BY <1>4, <1>9 DEF TransitionCapped, Trackers
  <2>2. CASE CoolingDown(m)
    BY <1>9, <2>1, <2>2 DEF TransitionCapped, TransitionGated, SameGate, OthersKept, SlateOutcome
  <2>3. CASE ~CoolingDown(m)
    <3>1. EmitGiveUp(m, transitions[m], slate[m])
      BY <1>9, <2>3 DEF TransitionCapped
    <3>2. QED BY <1>2, <1>4, <2>1, <2>3, <3>1, EmitGiveUpOutcome DEF OthersKept, SlateOutcome
  <2>4. QED BY <2>2, <2>3
<1>10. CASE TransitionFetchFailed(m)
  <2>1. InTransition(m) /\ UNCHANGED <<backfill, applyPending>>
    BY <1>10 DEF TransitionFetchFailed, TransitionDue
  <2>2. CASE CoolingDown(m)
    <3>1. cooldowns' = [cooldowns EXCEPT ![m].fallback = AccrueFallback(@, slate[m])]
          /\ UNCHANGED <<transitions, queue>>
      BY <1>10, <2>2 DEF TransitionFetchFailed
    <3>2. SameGate(m) /\ \A n \in Matches \ {m} : cooldowns'[n] = cooldowns[n]
      BY <1>2, <1>4, <2>2, <3>1, CaptureKeepsGate
    <3>3. QED BY <2>1, <3>1, <3>2 DEF TransitionGated, OthersKept, SlateOutcome
  <2>3. CASE ~CoolingDown(m)
    <3>1. FailedFetch(Observed(TrackerOf(m), slate[m])) \in Tracker
      BY <1>2, <1>4, TrackerOfType, ObservedType, TrackerUpdates
    <3>2. KeepOrGiveUp(m, FailedFetch(Observed(TrackerOf(m), slate[m])), slate[m])
      BY <1>10, <2>3 DEF TransitionFetchFailed
    <3>3. QED BY <1>2, <1>4, <2>1, <2>3, <3>1, <3>2, KeepOrGiveUpOutcome DEF OthersKept, SlateOutcome
  <2>4. QED BY <2>2, <2>3
<1>11. ASSUME NEW d \in Details, TransitionFinal(m, d)
       PROVE  OthersKept(m) /\ SlateOutcome(m)
  <2> DEFINE merged == MergeDetail(slate[m], d)
  <2>1. /\ InTransition(m) /\ Terminal(merged)
        /\ transitions' = [transitions EXCEPT ![m] = Fetched(@)]
        /\ Enqueue(m, merged)
        /\ UNCHANGED <<backfill, cooldowns, applyPending>>
    BY <1>11 DEF TransitionFinal, TransitionDue
  <2>2. merged \in Snapshot /\ InPlay(merged)
    BY <1>3, <2>1 DEF InPlay
  <2> HIDE DEF merged
  <2>3. QueuesPlay(m)
    BY <2>1, <2>2, PlayQueued
  <2>4. TransitionGated(m)
    BY <1>5, <2>1, <2>3 DEF TransitionGated, SameGate
  <2>5. OthersKept(m)
    BY <1>4, <2>1 DEF OthersKept, Trackers
  <2>6. QED BY <2>1, <2>4, <2>5 DEF SlateOutcome
<1>12. ASSUME NEW d \in Details, TransitionCooling(m, d)
       PROVE  OthersKept(m) /\ SlateOutcome(m)
  <2> DEFINE merged == MergeDetail(slate[m], d)
  <2>1. /\ InTransition(m) /\ CoolingDown(m)
        /\ transitions' = [transitions EXCEPT ![m] = Fetched(@)]
        /\ cooldowns' = [cooldowns EXCEPT ![m].fallback = AccrueFallback(@, merged)]
        /\ IF Live(merged) THEN Enqueue(m, merged) ELSE UNCHANGED queue
        /\ UNCHANGED <<backfill, applyPending>>
    BY <1>12 DEF TransitionCooling, TransitionDue
  <2>2. merged \in Snapshot
    BY <1>3
  <2> HIDE DEF merged
  <2>3. QueuesPlay(m) \/ UNCHANGED queue
    BY <2>1, <2>2, PlayQueued DEF InPlay
  <2>4. SameGate(m) /\ \A n \in Matches \ {m} : cooldowns'[n] = cooldowns[n]
    BY <1>4, <2>1, <2>2, CaptureKeepsGate
  <2>5. TransitionGated(m)
    BY <1>5, <2>1, <2>3, <2>4 DEF TransitionGated
  <2>6. OthersKept(m)
    BY <1>4, <2>1, <2>4 DEF OthersKept, Trackers
  <2>7. QED BY <2>1, <2>5, <2>6 DEF SlateOutcome
<1>13. ASSUME NEW d \in Details, TransitionNotFinal(m, d)
       PROVE  OthersKept(m) /\ SlateOutcome(m)
  <2> DEFINE merged == MergeDetail(slate[m], d)
             t == [Observed([TrackerOf(m) EXCEPT !.failures = 0], merged) EXCEPT !.attempts = @ + 1]
  <2>1. merged \in Snapshot
    BY <1>3
  <2>2. t \in Tracker
    BY <1>4, <2>1, TrackerOfType, ObservedType, TrackerUpdates
  <2> HIDE DEF merged, t
  <2>3. /\ InTransition(m) /\ ~CoolingDown(m)
        /\ IF AtCap(t) \/ ~Live(merged) THEN KeepOrGiveUp(m, t, merged)
           ELSE /\ transitions' = [transitions EXCEPT ![m] = t]
                /\ Enqueue(m, merged)
                /\ UNCHANGED cooldowns
        /\ UNCHANGED <<backfill, applyPending>>
    BY <1>13 DEF TransitionNotFinal, TransitionDue, merged, t
  <2>4. CASE AtCap(t) \/ ~Live(merged)
    BY <1>4, <2>1, <2>2, <2>3, <2>4, KeepOrGiveUpOutcome DEF OthersKept, SlateOutcome
  <2>5. CASE ~(AtCap(t) \/ ~Live(merged))
    <3>1. QueuesPlay(m)
      BY <2>1, <2>3, <2>5, PlayQueued DEF InPlay
    <3>2. TransitionTracked(m)
      BY <1>4, <2>2, <2>3, <2>5, <3>1, NoneAssumption DEF TransitionTracked, Trackers
    <3>3. OthersKept(m)
      BY <1>4, <2>3, <2>5 DEF OthersKept, Trackers
    <3>4. QED BY <2>3, <3>2, <3>3 DEF SlateOutcome
  <2>6. QED BY <2>4, <2>5
<1>14. CASE BackfillCapped(m)
  <2>1. /\ IsBackfill(m) /\ UNCHANGED transitions /\ backfill[m] \in Tracker
        /\ EmitBackfillGiveUp(m, backfill[m], slate[m], applyPending)
    BY <1>4, <1>14 DEF BackfillCapped, VisitBackfill, Trackers
  <2>2. QED BY <1>2, <1>4, <2>1, EmitBackfillGiveUpOutcome DEF OthersKept, SlateOutcome
<1>15. CASE BackfillDeferred(m)
  <2>1. Observed(BackfillTrackerOf(m), slate[m]) \in Tracker
    BY <1>2, <1>4, TrackerOfType, ObservedType
  <2>2. /\ IsBackfill(m) /\ UNCHANGED <<transitions, cooldowns, applyPending, queue>>
        /\ backfill' = [backfill EXCEPT ![m] = IF @ # Null THEN @
                                               ELSE Observed(BackfillTrackerOf(m), slate[m])]
    BY <1>15 DEF BackfillDeferred, VisitBackfill
  <2>3. BackfillTracked(m)
    BY <1>4, <2>1, <2>2, NoneAssumption DEF BackfillTracked, Trackers
  <2>4. OthersKept(m)
    BY <1>4, <2>2 DEF OthersKept, Trackers
  <2>5. QED BY <2>2, <2>3, <2>4 DEF SlateOutcome
<1>16. CASE BackfillFetchFailed(m)
  <2>1. BackfillFailure(m, slate[m]) \in Tracker
    BY <1>2, <1>4, BackfillFailureType
  <2>2. /\ IsBackfill(m) /\ UNCHANGED transitions
        /\ KeepOrGiveUpBackfill(m, BackfillFailure(m, slate[m]), slate[m], applyPending)
    BY <1>16 DEF BackfillFetchFailed, VisitBackfill
  <2>3. QED BY <1>2, <1>4, <2>1, <2>2, KeepOrGiveUpBackfillOutcome DEF OthersKept, SlateOutcome
<1>17. ASSUME NEW d \in Details, BackfillFetched(m, d)
       PROVE  OthersKept(m) /\ SlateOutcome(m)
  <2> DEFINE merged == MergeDetail(slate[m], d)
  <2>1. merged \in Snapshot
    BY <1>3
  <2> HIDE DEF merged
  <2>2. BackfillFailure(m, merged) \in Tracker
    BY <1>4, <2>1, BackfillFailureType
  <2>3. /\ IsBackfill(m) /\ UNCHANGED transitions
        /\ IF Live(merged) \/ Terminal(merged)
           THEN /\ Enqueue(m, merged)
                /\ applyPending' = applyPending \cup {m}
                /\ UNCHANGED <<backfill, cooldowns>>
           ELSE KeepOrGiveUpBackfill(m, BackfillFailure(m, merged), merged, applyPending \cup {m})
    BY <1>17 DEF BackfillFetched, VisitBackfill, merged
  <2>4. CASE Live(merged) \/ Terminal(merged)
    <3>1. QueuesPlay(m)
      BY <2>1, <2>3, <2>4, PlayQueued DEF InPlay
    <3>2. QED BY <2>3, <2>4, <3>1 DEF BackfillReady, OthersKept, SlateOutcome
  <2>5. CASE ~(Live(merged) \/ Terminal(merged))
    <3>1. applyPending \cup {m} \in SUBSET Matches
      BY <1>4
    <3>2. KeepOrGiveUpBackfill(m, BackfillFailure(m, merged), merged, applyPending \cup {m})
      BY <2>3, <2>5
    <3>3. /\ BackfillTracked(m) \/ BackfillAbandoned(m)
          /\ \A n \in Matches \ {m} : backfill'[n] = backfill[n] /\ cooldowns'[n] = cooldowns[n]
          /\ applyPending \cup {m} \subseteq applyPending'
          /\ applyPending' \subseteq (applyPending \cup {m}) \cup {m}
      BY <1>4, <2>1, <2>2, <3>1, <3>2, KeepOrGiveUpBackfillOutcome
    <3>4. QED BY <2>3, <3>3 DEF OthersKept, SlateOutcome
  <2>6. QED BY <2>4, <2>5
<1>18. QED
  BY <1>6, <1>7, <1>8, <1>9, <1>10, <1>11, <1>12, <1>13, <1>14, <1>15, <1>16, <1>17 DEF SlateStep

\* A visit off the slate tracks its match on, or abandons it.
LEMMA VanishedOutcome ==
    ASSUME TypeInv, NEW m \in Matches,
           \/ VanishedCapped(m) \/ VanishedFetchFailed(m)
           \/ \E d \in Details : VanishedFetched(m, d)
    PROVE  /\ Visit(m, "vanished") /\ OthersKept(m)
           /\ UNCHANGED <<backfill, applyPending>>
           /\ TransitionTracked(m) \/ TransitionAbandoned(m)
<1>1. Visit(m, "vanished") /\ UNCHANGED <<backfill, applyPending>>
  BY DEF VanishedCapped, VanishedFetchFailed, VanishedFetched, VisitVanished
<1>2. phase # "apply" /\ TypeOK /\ transitions \in Trackers
  BY <1>1 DEF Visit, TypeInv, TypeOK, Trackers
<1>3. TrackerOf(m) \in Tracker
  BY <1>2, TrackerOfType
<1>4. ASSUME NEW t \in Tracker, NEW fresh \in Snapshot \cup {Null},
             EmitGiveUp(m, t, fresh) \/ KeepOrGiveUp(m, t, fresh)
      PROVE  OthersKept(m) /\ (TransitionTracked(m) \/ TransitionAbandoned(m))
  BY <1>1, <1>2, <1>4, EmitGiveUpOutcome, KeepOrGiveUpOutcome DEF OthersKept
<1> SUFFICES OthersKept(m) /\ (TransitionTracked(m) \/ TransitionAbandoned(m))
  BY <1>1
<1>5. CASE VanishedCapped(m)
  BY <1>3, <1>4, <1>5 DEF VanishedCapped
<1>6. CASE VanishedFetchFailed(m)
  <2>1. FailedFetch(TrackerOf(m)) \in Tracker
    BY <1>3, TrackerUpdates
  <2>2. QED BY <1>4, <1>6, <2>1 DEF VanishedFetchFailed
<1>7. ASSUME NEW d \in Details, VanishedFetched(m, d)
      PROVE  OthersKept(m) /\ (TransitionTracked(m) \/ TransitionAbandoned(m))
  <2> DEFINE t == [TrackerOf(m) EXCEPT !.failures = 0]
             counted == [t EXCEPT !.attempts = @ + 1]
             base == FirstKnown(last[m], t.fallback, rows[m])
             merged == OverTransitionBase(m, t, d)
  <2>1. d \in Snapshot
    BY EngineAssumption
  <2>2. t \in Tracker
    BY <1>3, TrackerUpdates
  <2>3. t.fallback \in Snapshot \cup {Null}
    BY <2>2 DEF Tracker
  <2> HIDE DEF t
  <2>4. counted \in Tracker
    BY <2>2, TrackerUpdates
  <2>5. base \in Snapshot \cup {Null}
    BY <1>2, <2>3, Before DEF FirstKnown, Prefer
  <2>6. merged = IF base = Null THEN d ELSE MergeOverBase(base, d)
    BY DEF OverTransitionBase
  <2> HIDE DEF base, merged, counted
  <2>7. merged \in Snapshot /\ merged.status = d.status
    BY <2>1, <2>5, <2>6, MergeOverBaseType DEF MergeOverBase, Snapshot
  <2>8. IF Terminal(d) \/ (Live(d) /\ ~AtCap(counted))
        THEN /\ transitions' = [transitions EXCEPT ![m] = IF Terminal(d) THEN t ELSE counted]
             /\ Enqueue(m, merged)
             /\ UNCHANGED cooldowns
        ELSE KeepOrGiveUp(m, counted, IF Live(d) THEN merged ELSE Null)
    BY <1>7 DEF VanishedFetched, t, counted, merged
  <2>9. CASE Terminal(d) \/ (Live(d) /\ ~AtCap(counted))
    <3>1. InPlay(merged)
      BY <2>7, <2>9 DEF InPlay, Terminal, Live
    <3>2. QueuesPlay(m)
      BY <2>7, <2>8, <2>9, <3>1, PlayQueued
    <3>3. TransitionTracked(m)
      BY <1>2, <2>2, <2>4, <2>8, <2>9, <3>2, NoneAssumption DEF TransitionTracked, Trackers
    <3>4. OthersKept(m)
      BY <1>1, <1>2, <2>8, <2>9 DEF OthersKept, Trackers
    <3>5. QED BY <3>3, <3>4
  <2>10. CASE ~(Terminal(d) \/ (Live(d) /\ ~AtCap(counted)))
    <3>1. (IF Live(d) THEN merged ELSE Null) \in Snapshot \cup {Null}
      BY <2>7
    <3>2. KeepOrGiveUp(m, counted, IF Live(d) THEN merged ELSE Null)
      BY <2>8, <2>10
    <3>3. QED BY <1>4, <2>4, <3>1, <3>2
  <2>11. QED BY <2>9, <2>10
<1>8. QED BY <1>5, <1>6, <1>7

\* A visit of a pending backfill off the slate queues it, tracks it on or abandons it.
LEMMA VanishedBackfillOutcome ==
    ASSUME TypeInv, NEW m \in Matches,
           \/ VanishedBackfillCapped(m) \/ VanishedBackfillDeferred(m) \/ VanishedBackfillFailed(m)
           \/ \E d \in Details : VanishedBackfillFetched(m, d)
    PROVE  /\ Visit(m, "vanishedBackfill") /\ OthersKept(m)
           /\ UNCHANGED transitions
           /\ BackfillReady(m) \/ BackfillTracked(m) \/ BackfillAbandoned(m)
<1>1. Visit(m, "vanishedBackfill") /\ UNCHANGED transitions
  BY DEF VanishedBackfillCapped, VanishedBackfillDeferred, VanishedBackfillFailed,
         VanishedBackfillFetched, VanishedBackfillDue, VisitVanishedBackfill
<1>2. /\ backfill[m] # Null /\ backfill[m] \in Tracker
      /\ TypeOK /\ backfill \in Trackers /\ applyPending \in SUBSET Matches
  BY <1>1 DEF Visit, TypeInv, TypeOK, BackfillKnown, Trackers
<1> SUFFICES OthersKept(m) /\ (BackfillReady(m) \/ BackfillTracked(m) \/ BackfillAbandoned(m))
  BY <1>1
<1>3. ASSUME NEW t \in Tracker, NEW fresh \in Snapshot \cup {Null},
             NEW pending \in {applyPending, applyPending \cup {m}},
             EmitBackfillGiveUp(m, t, fresh, pending) \/ KeepOrGiveUpBackfill(m, t, fresh, pending)
      PROVE  OthersKept(m) /\ (BackfillTracked(m) \/ BackfillAbandoned(m))
  <2>1. pending \in SUBSET Matches /\ applyPending \subseteq pending
        /\ pending \cup {m} \subseteq applyPending \cup {m}
    BY <1>2
  <2>2. /\ BackfillTracked(m) \/ BackfillAbandoned(m)
        /\ \A n \in Matches \ {m} : backfill'[n] = backfill[n] /\ cooldowns'[n] = cooldowns[n]
        /\ pending \subseteq applyPending' /\ applyPending' \subseteq pending \cup {m}
    BY <1>2, <1>3, <2>1, EmitBackfillGiveUpOutcome, KeepOrGiveUpBackfillOutcome
  <2>3. QED BY <1>1, <2>1, <2>2 DEF OthersKept
<1>4. CASE VanishedBackfillCapped(m)
  BY <1>2, <1>3, <1>4 DEF VanishedBackfillCapped
<1>5. CASE VanishedBackfillDeferred(m)
  BY <1>1, <1>2, <1>5 DEF VanishedBackfillDeferred, OthersKept, BackfillTracked
<1>6. CASE VanishedBackfillFailed(m)
  <2>1. [backfill[m] EXCEPT !.failures = @ + 1] \in Tracker
    BY <1>2, TrackerUpdates
  <2>2. QED BY <1>3, <1>6, <2>1 DEF VanishedBackfillFailed
<1>7. ASSUME NEW d \in Details, VanishedBackfillFetched(m, d)
      PROVE  OthersKept(m) /\ (BackfillReady(m) \/ BackfillTracked(m) \/ BackfillAbandoned(m))
  <2> DEFINE base == backfill[m].fallback
             merged == IF base = Null THEN d ELSE MergeOverBase(base, d)
  <2>1. base \in Snapshot \cup {Null} /\ d \in Snapshot
    BY <1>2, EngineAssumption DEF Tracker
  <2> HIDE DEF base
  <2>2. merged \in Snapshot
    BY <2>1, MergeOverBaseType
  <2> HIDE DEF merged
  <2>3. BackfillFailure(m, merged) \in Tracker
    BY <1>2, <2>2, BackfillFailureType
  <2>4. IF Live(merged) \/ Terminal(merged)
        THEN /\ Enqueue(m, merged)
             /\ applyPending' = applyPending \cup {m}
             /\ UNCHANGED <<backfill, cooldowns>>
        ELSE KeepOrGiveUpBackfill(m, BackfillFailure(m, merged), merged, applyPending \cup {m})
    BY <1>7 DEF VanishedBackfillFetched, base, merged
  <2>5. CASE Live(merged) \/ Terminal(merged)
    <3>1. QueuesPlay(m)
      BY <2>2, <2>4, <2>5, PlayQueued DEF InPlay
    <3>2. QED BY <1>1, <2>4, <2>5, <3>1 DEF BackfillReady, OthersKept
  <2>6. CASE ~(Live(merged) \/ Terminal(merged))
    BY <1>3, <2>2, <2>3, <2>4, <2>6
  <2>7. QED BY <2>5, <2>6
<1>8. QED BY <1>4, <1>5, <1>6, <1>7


-----------------------------------------------------------------------------
(* Nothing finished is lost: whatever the pack's hooks answer.             *)

\* The entries of a queue that grew, and of one whose head is gone.
LEMMA AppendedEntries ==
    ASSUME NEW S, NEW q \in Seq(S), NEW e \in S
    PROVE  Entries(Append(q, e)) = Entries(q) \cup {e}
<1>1. /\ DOMAIN q = 1 .. Len(q) /\ DOMAIN Append(q, e) = 1 .. Len(q) + 1 /\ Len(q) \in Nat
      /\ \A i \in 1 .. Len(q) : Append(q, e)[i] = q[i]
      /\ Append(q, e)[Len(q) + 1] = e
  BY AppendProperties
<1>2. ASSUME NEW x \in Entries(Append(q, e)) PROVE x \in Entries(q) \cup {e}
  BY <1>1 DEF Entries
<1>3. ASSUME NEW x \in Entries(q) \cup {e} PROVE x \in Entries(Append(q, e))
  BY <1>1 DEF Entries
<1>4. QED BY <1>2, <1>3

LEMMA TailEntries ==
    ASSUME NEW S, NEW q \in Seq(S), q # <<>>
    PROVE  Head(q) \in Entries(q) /\ Entries(q) = {Head(q)} \cup Entries(Tail(q))
<1>1. /\ DOMAIN q = 1 .. Len(q) /\ Len(q) \in Nat /\ Len(q) # 0 /\ Head(q) = q[1]
      /\ DOMAIN Tail(q) = 1 .. (Len(q) - 1)
      /\ \A i \in 1 .. (Len(q) - 1) : Tail(q)[i] = q[i + 1]
  BY HeadTailProperties, EmptySeq
<1>2. Head(q) \in Entries(q)
  BY <1>1 DEF Entries
<1>3. ASSUME NEW i \in DOMAIN q PROVE q[i] \in {Head(q)} \cup Entries(Tail(q))
  <2>1. CASE i = 1
    BY <1>1, <2>1
  <2>2. CASE i # 1
    <3>1. i - 1 \in DOMAIN Tail(q) /\ Tail(q)[i - 1] = q[i]
      BY <1>1, <2>2
    <3>2. QED BY <3>1 DEF Entries
  <2>3. QED BY <2>1, <2>2
<1>4. ASSUME NEW i \in DOMAIN Tail(q) PROVE Tail(q)[i] \in Entries(q)
  <2>1. i + 1 \in DOMAIN q /\ Tail(q)[i] = q[i + 1]
    BY <1>1
  <2>2. QED BY <2>1 DEF Entries
<1>5. QED BY <1>2, <1>3, <1>4 DEF Entries

\* Each hydrated snapshot has its diff.
LEMMA DiffsEntries ==
    /\ \A h \in Entries(queue) : \E d \in Entries(Diffs) : d.match = h.match
    /\ \A d \in Entries(Diffs) : \E h \in Entries(queue) :
          /\ d.match = h.match /\ d.snap = h.snap /\ d.giveUp = h.giveUp
          /\ d.changed = HasChanges(h.snap, last[h.match])
<1>1. DOMAIN Diffs = DOMAIN queue
  BY DEF Diffs
<1>2. ASSUME NEW i \in DOMAIN queue
      PROVE  /\ Diffs[i].match = queue[i].match /\ Diffs[i].snap = queue[i].snap
             /\ Diffs[i].giveUp = queue[i].giveUp
             /\ Diffs[i].changed = HasChanges(queue[i].snap, last[queue[i].match])
  BY DEF Diffs
<1>3. ASSUME NEW h \in Entries(queue) PROVE \E d \in Entries(Diffs) : d.match = h.match
  <2>1. PICK i \in DOMAIN queue : h = queue[i]
    BY DEF Entries
  <2>2. Diffs[i] \in Entries(Diffs)
    BY <1>1 DEF Entries
  <2>3. QED BY <1>2, <2>1, <2>2
<1>4. ASSUME NEW d \in Entries(Diffs)
      PROVE  \E h \in Entries(queue) :
                /\ d.match = h.match /\ d.snap = h.snap /\ d.giveUp = h.giveUp
                /\ d.changed = HasChanges(h.snap, last[h.match])
  <2>1. PICK i \in DOMAIN queue : d = Diffs[i]
    BY <1>1 DEF Entries
  <2>2. queue[i] \in Entries(queue)
    BY DEF Entries
  <2>3. QED BY <1>2, <2>1, <2>2
<1>5. QED BY <1>3, <1>4

\* A snapshot without changes has the state of its baseline.
LEMMA UnchangedState ==
    ASSUME NEW snap \in Snapshot, NEW base \in Snapshot \cup {Null}, ~HasChanges(snap, base)
    PROVE  /\ base # Null /\ StateOf(snap) = StateOf(base)
           /\ snap.status = base.status /\ snap.score = base.score /\ snap.info = base.info
<1>1. base # Null /\ StateOf(snap) = StateOf(base)
  BY DEF HasChanges, StateChanged
<1>2. /\ StateOf(snap).status = snap.status /\ StateOf(snap).score = snap.score
      /\ StateOf(snap).info = snap.info
  BY DEF StateOf, Snapshot
<1>3. /\ StateOf(base).status = base.status /\ StateOf(base).score = base.score
      /\ StateOf(base).info = base.info
  BY <1>1 DEF StateOf, Snapshot
<1>4. QED BY <1>1, <1>2, <1>3

\* What may still become of a match whose detail was fetched.
Held(m) == Queued(m) \/ last[m] # Null \/ backfill[m] # Null \/ CoolingDown(m)

BackfillHeld == phase # "idle" => \A m \in applyPending : Held(m)

\* What keeps a match that finished from being overlooked.
Watched(m) == rows[m] # Null \/ Tracked(m) \/ cooldowns[m] # Null \/ m \in applyPending

FinishedHeld ==
    (BackfillEnabled /\ phase # "idle") =>
        \A m \in Matches :
            (slate[m] # Null /\ Terminal(slate[m]) /\ ~(phase = "slate" /\ m \in todo)) => Watched(m)

BaselineHasRow == \A m \in Matches : last[m] # Null => rows[m] # Null

\* Until the stored rows are scanned, nothing is remembered.
FreshStart ==
    ~scanned => /\ phase = "idle"
                /\ \A m \in Matches : /\ last[m] = Null /\ transitions[m] = Null
                                      /\ backfill[m] = Null /\ cooldowns[m] = Null

\* The matches to be looked at off the slate.
VanishedDue ==
    phase = "vanished" =>
        \A m \in todo : /\ ~OnSlate(m, slate) /\ ~CoolingDown(m)
                        /\ (last[m] # Null /\ Live(last[m])) \/ transitions[m] # Null

\* A match is tracked after live play, or since a restart.
TrackedLive == \A m \in Matches : transitions[m] # Null => last[m] = Null \/ Live(last[m])

\* An entry without changes has a baseline; one that is not live has no tracker.
UnchangedKnown ==
    phase = "apply" =>
        \A e \in Entries(queue) : ~e.changed =>
            last[e.match] # Null /\ (~Live(e.snap) => transitions[e.match] = Null)

HeldInv ==
    /\ TypeInv /\ FreshStart /\ VanishedDue /\ TrackedLive
    /\ BaselineHasRow /\ UnchangedKnown /\ BackfillHeld /\ FinishedHeld

\* A visit preserves the invariant if what it does to its own match does.
LEMMA VisitHeld ==
    ASSUME HeldInv, TypeInv', NEW m \in Matches, NEW in \in {"slate", "vanished", "vanishedBackfill"},
           Visit(m, in), OthersKept(m),
           UNCHANGED queue \/ \E e \in HydratedSnapshot : Queues(m, e),
           transitions'[m] # Null => transitions[m] # Null \/ last[m] = Null \/ Live(last[m]),
           m \in applyPending' => Held(m)',
           (BackfillEnabled /\ slate[m] # Null /\ Terminal(slate[m])) => Watched(m)'
    PROVE  HeldInv'
<1>1. phase = in /\ phase # "apply" /\ phase # "idle" /\ todo' = todo \ {m}
      /\ UNCHANGED <<last, scanned, phase, slate, rows, log>>
  BY DEF Visit
<1>2. \A n \in Matches \ {m} : /\ transitions'[n] = transitions[n]
                               /\ backfill'[n] = backfill[n] /\ cooldowns'[n] = cooldowns[n]
  BY DEF OthersKept
<1>3. applyPending \subseteq applyPending' /\ applyPending' \subseteq applyPending \cup {m}
      /\ applyPending' \subseteq Matches
  BY DEF OthersKept, TypeInv, TypeOK
<1>4. Entries(queue) \subseteq Entries(queue')
  <2>1. queue \in Seq(HydratedSnapshot)
    BY <1>1 DEF HeldInv, TypeInv, TypeOK
  <2>2. CASE UNCHANGED queue
    BY <2>2
  <2>3. ASSUME NEW e \in HydratedSnapshot, Queues(m, e) PROVE Entries(queue) \subseteq Entries(queue')
    BY <2>1, <2>3, AppendedEntries DEF Queues
  <2>4. QED BY <2>2, <2>3
<1>5. FreshStart' /\ TrackedLive' /\ BaselineHasRow' /\ UnchangedKnown'
  BY <1>1, <1>2 DEF HeldInv, FreshStart, TrackedLive, BaselineHasRow, UnchangedKnown
<1>6. VanishedDue'
  <2> SUFFICES ASSUME phase = "vanished", NEW n \in todo \ {m}
               PROVE  /\ ~OnSlate(n, slate) /\ ~(cooldowns'[n] # Null /\ cooldowns'[n].remaining > 0)
                      /\ (last[n] # Null /\ Live(last[n])) \/ transitions'[n] # Null
    BY <1>1 DEF VanishedDue, CoolingDown
  <2>1. n \in Matches \ {m}
    BY DEF HeldInv, TypeInv, TypeOK
  <2>2. QED BY <1>2, <2>1 DEF HeldInv, VanishedDue, CoolingDown
<1>7. BackfillHeld'
  <2> SUFFICES ASSUME NEW n \in applyPending', n # m
               PROVE  Held(n)'
    BY DEF BackfillHeld
  <2>1. n \in applyPending /\ n \in Matches \ {m}
    BY <1>3
  <2>2. Held(n)
    BY <1>1, <2>1 DEF HeldInv, BackfillHeld
  <2>3. QED BY <1>1, <1>2, <1>4, <2>1, <2>2 DEF Held, Queued, CoolingDown
<1>8. FinishedHeld'
  <2> SUFFICES ASSUME BackfillEnabled, NEW n \in Matches, n # m, slate[n] # Null, Terminal(slate[n]),
                      ~(phase = "slate" /\ n \in todo \ {m})
               PROVE  Watched(n)'
    BY <1>1 DEF FinishedHeld
  <2>1. Watched(n)
    BY <1>1 DEF HeldInv, FinishedHeld
  <2>2. QED BY <1>1, <1>2, <1>3, <2>1 DEF Watched, Tracked
<1>9. QED BY <1>5, <1>6, <1>7, <1>8 DEF HeldInv

\* What is queued for a match is an entry of it.
LEMMA QueuedNow ==
    ASSUME TypeInv, phase # "apply", NEW m \in Matches, NEW e \in HydratedSnapshot, Queues(m, e)
    PROVE  Queued(m)' /\ Entries(queue') = Entries(queue) \cup {e}
<1>1. queue \in Seq(HydratedSnapshot)
  BY DEF TypeInv, TypeOK
<1>2. QED BY <1>1, AppendedEntries DEF Queues, Queued

\* The visits of the slate.
LEMMA SlateHeld ==
    ASSUME HeldInv, TypeInv', NEW m \in Matches, SlateStep(m)
    PROVE  HeldInv'
<1>1. Visit(m, "slate") /\ OthersKept(m) /\ SlateOutcome(m)
  BY SlateStepOutcome DEF HeldInv
<1>2. /\ phase = "slate" /\ UNCHANGED <<last, rows>>
      /\ m \in applyPending => Held(m)
      /\ last[m] # Null => rows[m] # Null
  BY <1>1 DEF Visit, HeldInv, BackfillHeld, BaselineHasRow
<1>3. CASE /\ Live(slate[m])
           /\ transitions'[m] = Null <=> transitions[m] = Null
           /\ UNCHANGED <<backfill, cooldowns, applyPending>>
           /\ UNCHANGED queue \/ QueuesPlay(m)
  <2>1. UNCHANGED queue \/ \E e \in HydratedSnapshot : Queues(m, e)
    BY <1>3 DEF QueuesPlay
  <2>2. Queued(m) => Queued(m)'
    BY <1>2, <2>1, QueuedNow DEF HeldInv, Queued
  <2>3. ~Terminal(slate[m])
    BY <1>3 DEF Live, Terminal, LIVE_STATUSES
  <2>4. m \in applyPending' => Held(m)'
    BY <1>2, <1>3, <2>2 DEF Held, CoolingDown
  <2>5. QED BY <1>1, <1>3, <2>1, <2>3, <2>4, VisitHeld
<1>4. CASE /\ CoolingDown(m)
           /\ UNCHANGED <<transitions, backfill, cooldowns, applyPending, queue>>
  <2>1. Held(m)' /\ Watched(m)'
    BY <1>4 DEF Held, Watched, CoolingDown
  <2>2. QED BY <1>1, <1>4, <2>1, VisitHeld
<1>5. CASE /\ ~Live(slate[m]) /\ ~WasLive(m) /\ ~IsBackfill(m)
           /\ UNCHANGED <<transitions, backfill, cooldowns, applyPending>>
           /\ QueuesBoard(m)
  <2>1. PICK e \in HydratedSnapshot : Queues(m, e)
    BY <1>5 DEF QueuesBoard
  <2>2. Held(m)'
    BY <1>2, <2>1, QueuedNow DEF HeldInv, Held
  <2>3. ASSUME BackfillEnabled, Terminal(slate[m])
        PROVE  last[m] # Null \/ rows[m] # Null \/ cooldowns[m] # Null
    BY <1>5, <2>3 DEF IsBackfill, FirstSightFinished, HasStoredRow, CoolingDown
  <2>4. (BackfillEnabled /\ Terminal(slate[m])) => Watched(m)'
    BY <1>2, <1>5, <2>3 DEF Watched
  <2>5. QED BY <1>1, <1>5, <2>1, <2>2, <2>4, VisitHeld
<1>6. CASE /\ InTransition(m)
           /\ UNCHANGED <<backfill, applyPending>>
           /\ \/ TransitionGated(m)
              \/ ~CoolingDown(m) /\ (TransitionTracked(m) \/ TransitionAbandoned(m))
  <2>1. UNCHANGED queue \/ \E e \in HydratedSnapshot : Queues(m, e)
    BY <1>6 DEF TransitionGated, TransitionTracked, TransitionAbandoned, QueuesPlay, QueuesGiveUp
  <2>2. Queued(m) => Queued(m)'
    BY <1>2, <2>1, QueuedNow DEF HeldInv, Queued
  <2>3. /\ transitions[m] # Null \/ last[m] = Null \/ Live(last[m])
        /\ transitions[m] # Null \/ last[m] # Null \/ rows[m] # Null
    BY <1>6 DEF InTransition, WasLive, HasStoredRow, StoredConsulted
  <2>4. Watched(m)'
    BY <1>2, <1>6, <2>3 DEF Watched, Tracked, TransitionGated, TransitionTracked, TransitionAbandoned
  <2>5. CoolingDown(m) => CoolingDown(m)'
    BY <1>6 DEF CoolingDown, TransitionGated, SameGate
  <2>6. m \in applyPending' => Held(m)'
    BY <1>2, <1>6, <2>2, <2>5 DEF Held
  <2>7. QED BY <1>1, <2>1, <2>3, <2>4, <2>6, VisitHeld
<1>7. CASE /\ IsBackfill(m)
           /\ UNCHANGED transitions
           /\ BackfillReady(m) \/ BackfillTracked(m) \/ BackfillAbandoned(m)
  <2>1. UNCHANGED queue \/ \E e \in HydratedSnapshot : Queues(m, e)
    BY <1>7 DEF BackfillReady, BackfillTracked, BackfillAbandoned, QueuesPlay, QueuesGiveUp
  <2>2. BackfillReady(m) => Queued(m)'
    BY <1>2, QueuedNow DEF HeldInv, BackfillReady, QueuesPlay
  <2>3. Held(m)' /\ Watched(m)'
    BY <1>7, <2>2 DEF Held, Watched, Tracked, CoolingDown, BackfillReady, BackfillTracked,
                      BackfillAbandoned
  <2>4. QED BY <1>1, <1>7, <2>1, <2>3, VisitHeld
<1>8. QED BY <1>1, <1>3, <1>4, <1>5, <1>6, <1>7 DEF SlateOutcome

\* The visits off the slate.
LEMMA VanishedHeld ==
    ASSUME HeldInv, TypeInv', NEW m \in Matches, VanishedStep(m)
    PROVE  HeldInv'
<1>1. CASE \/ VanishedCapped(m) \/ VanishedFetchFailed(m)
           \/ \E d \in Details : VanishedFetched(m, d)
  <2>1. /\ Visit(m, "vanished") /\ OthersKept(m)
        /\ UNCHANGED <<backfill, applyPending>>
        /\ TransitionTracked(m) \/ TransitionAbandoned(m)
    BY <1>1, VanishedOutcome DEF HeldInv
  <2>2. /\ phase = "vanished" /\ UNCHANGED <<last, rows>>
        /\ m \in applyPending => Held(m)
        /\ ~CoolingDown(m) /\ ((last[m] # Null /\ Live(last[m])) \/ transitions[m] # Null)
    BY <2>1 DEF Visit, HeldInv, BackfillHeld, VanishedDue
  <2>3. UNCHANGED queue \/ \E e \in HydratedSnapshot : Queues(m, e)
    BY <2>1 DEF TransitionTracked, TransitionAbandoned, QueuesPlay, QueuesGiveUp
  <2>4. Queued(m) => Queued(m)'
    BY <2>2, <2>3, QueuedNow DEF HeldInv, Queued
  <2>5. Watched(m)'
    BY <2>1 DEF Watched, Tracked, TransitionTracked, TransitionAbandoned
  <2>6. m \in applyPending' => Held(m)'
    BY <2>1, <2>2, <2>4 DEF Held
  <2>7. QED BY <2>1, <2>2, <2>3, <2>5, <2>6, VisitHeld
<1>2. CASE \/ VanishedBackfillCapped(m) \/ VanishedBackfillDeferred(m) \/ VanishedBackfillFailed(m)
           \/ \E d \in Details : VanishedBackfillFetched(m, d)
  <2>1. /\ Visit(m, "vanishedBackfill") /\ OthersKept(m)
        /\ UNCHANGED transitions
        /\ BackfillReady(m) \/ BackfillTracked(m) \/ BackfillAbandoned(m)
    BY <1>2, VanishedBackfillOutcome DEF HeldInv
  <2>2. phase = "vanishedBackfill"
    BY <2>1 DEF Visit
  <2>3. UNCHANGED queue \/ \E e \in HydratedSnapshot : Queues(m, e)
    BY <2>1 DEF BackfillReady, BackfillTracked, BackfillAbandoned, QueuesPlay, QueuesGiveUp
  <2>4. BackfillReady(m) => Queued(m)'
    BY <2>2, QueuedNow DEF HeldInv, BackfillReady, QueuesPlay
  <2>5. Held(m)' /\ Watched(m)'
    BY <2>1, <2>4 DEF Held, Watched, Tracked, CoolingDown, BackfillReady, BackfillTracked,
                      BackfillAbandoned
  <2>6. QED BY <2>1, <2>3, <2>5, VisitHeld
<1>3. QED BY <1>1, <1>2 DEF VanishedStep

\* The start of a poll.
LEMMA StartPollHeld ==
    ASSUME HeldInv, TypeInv', NEW board \in [Matches -> Boards \cup {Null}], StartPoll(board)
    PROVE  HeldInv'
<1>1. /\ phase' = "slate" /\ applyPending' = {} /\ scanned' /\ slate' = board
      /\ todo' = {m \in Matches : OnSlate(m, board)}
      /\ UNCHANGED <<last, queue, rows, log>>
  BY DEF StartPoll
<1>2. TrackedLive'
  <2> SUFFICES ASSUME NEW m \in Matches, transitions'[m] # Null
               PROVE  last[m] = Null \/ Live(last[m])
    BY <1>1 DEF TrackedLive
  <2>1. transitions' = Seed(transitions, IF scanned THEN {} ELSE RestartLive(board))
    BY DEF StartPoll
  <2>2. CASE scanned
    <3>1. transitions'[m] = transitions[m]
      BY <2>1, <2>2 DEF Seed
    <3>2. QED BY <3>1 DEF HeldInv, TrackedLive
  <2>3. CASE ~scanned
    BY <2>3 DEF HeldInv, FreshStart
  <2>4. QED BY <2>2, <2>3
<1>3. FreshStart' /\ VanishedDue' /\ BaselineHasRow' /\ UnchangedKnown' /\ BackfillHeld'
  BY <1>1 DEF HeldInv, FreshStart, VanishedDue, BaselineHasRow, UnchangedKnown, BackfillHeld
<1>4. FinishedHeld'
  BY <1>1 DEF FinishedHeld, OnSlate
<1>5. QED BY <1>2, <1>3, <1>4 DEF HeldInv

\* The ends of the phases.
LEMMA PhaseHeld ==
    ASSUME HeldInv, TypeInv', SlateDone \/ VanishedDone \/ VanishedBackfillDone \/ PollDone
    PROVE  HeldInv'
<1>1. UNCHANGED <<last, transitions, backfill, cooldowns, applyPending, scanned, rows, log>>
  BY DEF SlateDone, VanishedDone, VanishedBackfillDone, PollDone, memory, stored
<1>2. TrackedLive' /\ BaselineHasRow'
  BY <1>1 DEF HeldInv, TrackedLive, BaselineHasRow
<1>3. CASE PollDone
  BY <1>1, <1>2, <1>3 DEF PollDone, HeldInv, FreshStart, VanishedDue, UnchangedKnown, BackfillHeld,
                          FinishedHeld
<1>4. CASE SlateDone \/ (VanishedDone /\ BackfillEnabled)
  <2>1. /\ phase \in {"slate", "vanished"} /\ todo = {} /\ UNCHANGED <<slate, queue>>
        /\ phase' \in {"vanished", "vanishedBackfill"}
        /\ phase' = "vanished" => todo' = Vanished
    BY <1>4 DEF SlateDone, VanishedDone
  <2>2. VanishedDue'
    BY <1>1, <2>1 DEF VanishedDue, Vanished, CoolingDown, OnSlate
  <2>3. FreshStart' /\ UnchangedKnown'
    BY <1>1, <2>1 DEF HeldInv, FreshStart, UnchangedKnown
  <2>4. BackfillHeld'
    BY <1>1, <2>1 DEF HeldInv, BackfillHeld, Held, Queued, CoolingDown
  <2>5. FinishedHeld'
    BY <1>1, <2>1 DEF HeldInv, FinishedHeld, Watched, Tracked
  <2>6. QED BY <1>2, <2>2, <2>3, <2>4, <2>5 DEF HeldInv
<1>5. CASE (VanishedDone /\ ~BackfillEnabled) \/ VanishedBackfillDone
  <2>1. /\ phase \in {"vanished", "vanishedBackfill"} /\ UNCHANGED slate
        /\ phase' = "apply" /\ queue' = Diffs
    BY <1>5 DEF VanishedDone, VanishedBackfillDone, BeginApply
  <2>2. VanishedDue' /\ FreshStart'
    BY <1>1, <2>1 DEF HeldInv, VanishedDue, FreshStart
  <2>3. UnchangedKnown'
    <3> SUFFICES ASSUME NEW e \in Entries(Diffs), ~e.changed
                 PROVE  last[e.match] # Null /\ (~Live(e.snap) => transitions[e.match] = Null)
      BY <1>1, <2>1 DEF UnchangedKnown
    <3>1. PICK h \in Entries(queue) : /\ e.match = h.match /\ e.snap = h.snap
                                      /\ e.changed = HasChanges(h.snap, last[h.match])
      BY DiffsEntries
    <3>2. h.match \in Matches /\ h.snap \in Snapshot
      <4>1. queue \in Seq(HydratedSnapshot)
        BY <2>1 DEF HeldInv, TypeInv, TypeOK
      <4>2. h \in HydratedSnapshot
        BY <4>1 DEF Entries
      <4>3. QED BY <4>2 DEF HydratedSnapshot
    <3>3. last[h.match] \in Snapshot \cup {Null}
      BY <3>2 DEF HeldInv, TypeInv, TypeOK
    <3>4. last[h.match] # Null /\ h.snap.status = last[h.match].status
      BY <3>1, <3>2, <3>3, UnchangedState
    <3>5. QED BY <3>1, <3>2, <3>4 DEF HeldInv, TrackedLive, Live
  <2>4. BackfillHeld'
    <3> SUFFICES ASSUME NEW m \in applyPending
                 PROVE  Held(m)'
      BY <1>1 DEF BackfillHeld
    <3>1. Held(m)
      BY <2>1 DEF HeldInv, BackfillHeld
    <3>2. Queued(m) => Queued(m)'
      BY <2>1, DiffsEntries DEF Queued
    <3>3. QED BY <1>1, <3>1, <3>2 DEF Held, CoolingDown
  <2>5. FinishedHeld'
    BY <1>1, <2>1 DEF HeldInv, FinishedHeld, Watched, Tracked
  <2>6. QED BY <1>2, <2>2, <2>3, <2>4, <2>5 DEF HeldInv
<1>6. QED BY <1>3, <1>4, <1>5

\* What a durable snapshot lets go of.
LEMMA DurableOutcome ==
    ASSUME TypeOK, NEW m \in Matches, NEW snap, NEW advanced \in BOOLEAN,
           OnDurableSnapshot(m, snap, advanced)
    PROVE  /\ \A n \in Matches \ {m} : /\ transitions'[n] = transitions[n]
                                       /\ backfill'[n] = backfill[n] /\ cooldowns'[n] = cooldowns[n]
           /\ backfill'[m] = Null
           /\ transitions'[m] # Null => transitions'[m] = transitions[m] /\ Live(snap)
           /\ (Live(snap) /\ transitions'[m] # transitions[m])
                 => advanced /\ transitions'[m] = Reconciled(transitions[m], snap)
           /\ CoolingDown(m)' => CoolingDown(m)
<1>1. transitions \in Trackers /\ backfill \in Trackers /\ cooldowns \in Cooldowns
  BY DEF TypeOK, Trackers, Cooldowns
<1>2. /\ transitions' = [transitions EXCEPT ![m] =
            CASE ~Live(snap) -> Null
              [] Live(snap) /\ advanced /\ m \in liveResumptions -> Reconciled(@, snap)
              [] OTHER -> @]
      /\ backfill' = [backfill EXCEPT ![m] = Null]
  BY DEF OnDurableSnapshot
<1>3. Reconciled(transitions[m], snap) \in {transitions[m], Null}
  BY DEF Reconciled
<1>4. \A n \in Matches \ {m} : /\ transitions'[n] = transitions[n]
                               /\ backfill'[n] = backfill[n] /\ cooldowns'[n] = cooldowns[n]
  BY <1>1, <1>2 DEF OnDurableSnapshot, Trackers, Cooldowns
<1>5. /\ backfill'[m] = Null
      /\ transitions'[m] # Null => transitions'[m] = transitions[m] /\ Live(snap)
      /\ (Live(snap) /\ transitions'[m] # transitions[m])
            => advanced /\ transitions'[m] = Reconciled(transitions[m], snap)
  BY <1>1, <1>2, <1>3 DEF Trackers
<1>6. CoolingDown(m)' => CoolingDown(m)
  <2> SUFFICES ASSUME cooldowns'[m] # Null, cooldowns'[m].remaining > 0
               PROVE  cooldowns[m] # Null /\ cooldowns[m].remaining > 0
    BY DEF CoolingDown
  <2> DEFINE cooldown == IF backfill[m] # Null THEN Null ELSE cooldowns[m]
  <2>1. cooldown \in Cooldown \cup {Null}
    BY <1>1 DEF Cooldowns
  <2>2. cooldowns'[m] \in {Null, ClearedGate(cooldown, snap), cooldown}
    BY <1>1 DEF OnDurableSnapshot, Cooldowns
  <2>3. ClearedGate(cooldown, snap) # Null => ClearedGate(cooldown, snap).remaining = 0
    BY <2>1 DEF ClearedGate, Cooldown
  <2>4. cooldowns'[m] = cooldown
    BY <2>2, <2>3
  <2>5. QED BY <2>4
<1>7. QED BY <1>4, <1>5, <1>6

\* An entry of the queue that is dealt with is the only one that is gone.
LEMMA ApplyEntries ==
    ASSUME TypeInv, ApplyNext
    PROVE  /\ phase = "apply" /\ phase' = "apply" /\ Head(queue) \in Diff
           /\ Head(queue).match \in Matches /\ Head(queue).snap \in Snapshot
           /\ Entries(queue) = {Head(queue)} \cup Entries(queue')
           /\ UNCHANGED <<applyPending, scanned, slate, todo, liveResumptions>>
<1>1. /\ phase = "apply" /\ queue # <<>> /\ queue' = Tail(queue)
      /\ UNCHANGED <<applyPending, scanned, phase, slate, todo, fetches, liveResumptions>>
  BY DEF ApplyNext
<1>2. queue \in Seq(Diff)
  BY <1>1 DEF TypeInv, TypeOK
<1>3. Entries(queue) = {Head(queue)} \cup Entries(queue')
  BY <1>1, <1>2, TailEntries
<1>4. QED BY <1>1, <1>3, HeadType

\* Dealing with an entry preserves the invariant if what it does to its match does.
LEMMA ApplyHeld ==
    ASSUME HeldInv, TypeInv', ApplyNext, NEW m \in Matches, m = Head(queue).match,
           \A n \in Matches \ {m} :
              /\ last'[n] = last[n] /\ transitions'[n] = transitions[n]
              /\ backfill'[n] = backfill[n] /\ cooldowns'[n] = cooldowns[n] /\ rows'[n] = rows[n],
           last[m] # Null => last'[m] # Null,
           last'[m] # Null => rows'[m] # Null,
           transitions'[m] # Null => transitions[m] # Null /\ (last'[m] = Null \/ Live(last'[m])),
           m \in applyPending => last'[m] # Null \/ backfill'[m] # Null,
           Watched(m) => Watched(m)'
    PROVE  HeldInv'
<1>1. /\ phase = "apply" /\ phase' = "apply"
      /\ Entries(queue) = {Head(queue)} \cup Entries(queue')
      /\ UNCHANGED <<applyPending, scanned, slate, todo>>
  BY ApplyEntries DEF HeldInv
<1>2. FreshStart' /\ VanishedDue'
  BY <1>1 DEF HeldInv, FreshStart, VanishedDue
<1>3. TrackedLive' /\ BaselineHasRow'
  BY DEF HeldInv, TrackedLive, BaselineHasRow
<1>4. UnchangedKnown'
  <2> SUFFICES ASSUME NEW e \in Entries(queue'), ~e.changed
               PROVE  last'[e.match] # Null /\ (~Live(e.snap) => transitions'[e.match] = Null)
    BY DEF UnchangedKnown
  <2>1. /\ e \in Entries(queue) /\ last[e.match] # Null
        /\ ~Live(e.snap) => transitions[e.match] = Null
    BY <1>1 DEF HeldInv, UnchangedKnown
  <2>2. e.match \in Matches
    <3>1. queue \in Seq(Diff)
      BY <1>1 DEF HeldInv, TypeInv, TypeOK
    <3>2. e \in Diff
      BY <2>1, <3>1 DEF Entries
    <3>3. QED BY <3>2 DEF Diff
  <2>3. QED BY <2>1, <2>2
<1>5. BackfillHeld'
  <2> SUFFICES ASSUME NEW n \in applyPending
               PROVE  Held(n)'
    BY <1>1 DEF BackfillHeld
  <2>1. n \in Matches /\ Held(n)
    BY <1>1 DEF HeldInv, TypeInv, TypeOK, BackfillHeld
  <2>2. CASE n = m
    BY <2>2 DEF Held
  <2>3. CASE n # m
    <3>1. Queued(n) => Queued(n)'
      BY <1>1, <2>3 DEF Queued
    <3>2. QED BY <2>1, <2>3, <3>1 DEF Held, CoolingDown
  <2>4. QED BY <2>2, <2>3
<1>6. FinishedHeld'
  <2> SUFFICES ASSUME BackfillEnabled, NEW n \in Matches, slate[n] # Null, Terminal(slate[n])
               PROVE  Watched(n)'
    BY <1>1 DEF FinishedHeld
  <2>1. Watched(n)
    BY <1>1 DEF HeldInv, FinishedHeld
  <2>2. CASE n = m
    BY <2>1, <2>2
  <2>3. CASE n # m
    BY <1>1, <2>1, <2>3 DEF Watched, Tracked
  <2>4. QED BY <2>2, <2>3
<1>7. QED BY <1>2, <1>3, <1>4, <1>5, <1>6 DEF HeldInv


\* The row that a snapshot is written to says what the snapshot says.
LEMMA SeedRowEffect ==
    ASSUME TypeInv, phase = "apply", queue # <<>>, SeedRow(Head(queue)),
           NEW m \in Matches, m = Head(queue).match
    PROVE  /\ rows'[m] \in Snapshot /\ rows'[m].status = Head(queue).snap.status
           /\ rows'[m].score = AsStored(m, Head(queue).snap).score
           /\ \A n \in Matches \ {m} : rows'[n] = rows[n]
<1> DEFINE snap == Head(queue).snap
<1>1. snap \in Snapshot /\ rows \in [Matches -> Snapshot \cup {Null}]
  BY HeadType DEF TypeInv, TypeOK
<1> HIDE DEF snap
<1>2. /\ rows'[m] = SeededRow(m, snap, rows[m])
      /\ \A n \in Matches \ {m} : rows'[n] = rows[n]
  BY <1>1 DEF SeedRow, snap
<1>3. SeededRow(m, snap, rows[m]) \in Snapshot
  BY <1>1, SeededRowType
<1>4. /\ SeededRow(m, snap, rows[m]).status = snap.status
      /\ SeededRow(m, snap, rows[m]).score = AsStored(m, snap).score
  <2>1. AsStored(m, snap).status = snap.status
    BY <1>1 DEF AsStored, Snapshot
  <2>2. AsStored(m, snap) = [status |-> snap.status, minute |-> AsStored(m, snap).minute,
           clock |-> AsStored(m, snap).clock, score |-> AsStored(m, snap).score,
           info |-> AsStored(m, snap).info, events |-> AsStored(m, snap).events]
    BY <1>1 DEF AsStored, Snapshot
  <2> DEFINE turned == AsStored(m, snap)
             info == SeededInfo(m, snap, rows[m])
  <2> HIDE DEF turned, info
  <2>3. /\ [turned EXCEPT !.events = NoEvents, !.info = info].status = turned.status
        /\ [turned EXCEPT !.events = NoEvents, !.info = info].score = turned.score
    BY <2>2 DEF turned
  <2>4. QED BY <2>1, <2>3 DEF SeededRow, turned, info
<1>5. QED BY <1>2, <1>3, <1>4 DEF snap

\* The successful apply: the baseline is what was diffed, and its row is stored.
LEMMA AppliedEffect ==
    ASSUME TypeInv, Applied, NEW m \in Matches, m = Head(queue).match
    PROVE  \E baseline \in Snapshot :
              /\ baseline.status = Head(queue).snap.status
              /\ baseline.score = Head(queue).snap.score
              /\ baseline.info = Head(queue).snap.info
              /\ last'[m] = baseline /\ OnDurableSnapshot(m, baseline, TRUE)
              /\ rows'[m] \in Snapshot /\ rows'[m].status = Head(queue).snap.status
              /\ rows'[m].score = AsStored(m, Head(queue).snap).score
              /\ \A n \in Matches \ {m} : last'[n] = last[n] /\ rows'[n] = rows[n]
<1> DEFINE e == Head(queue)
           snap == e.snap
           baseline == AppliedBaseline(m, snap, e.new)
<1>1. /\ phase = "apply" /\ queue # <<>> /\ SeedRow(e)
      /\ last' = [last EXCEPT ![m] = baseline] /\ OnDurableSnapshot(m, baseline, TRUE)
  BY DEF Applied, ApplyNext
<1>2. /\ snap \in Snapshot /\ e.new \in EventLists
      /\ last \in [Matches -> Snapshot \cup {Null}] /\ TypeOK
  BY <1>1, HeadType DEF TypeInv, TypeOK
<1>3. baseline \in Snapshot
  BY <1>2, AppliedBaselineType
<1>4. baseline.status = snap.status /\ baseline.score = snap.score /\ baseline.info = snap.info
  BY <1>2 DEF AppliedBaseline, Snapshot
<1>5. /\ rows'[m] \in Snapshot /\ rows'[m].status = snap.status
      /\ rows'[m].score = AsStored(m, snap).score
      /\ \A n \in Matches \ {m} : rows'[n] = rows[n]
  BY <1>1, SeedRowEffect
<1>6. last'[m] = baseline /\ \A n \in Matches \ {m} : last'[n] = last[n]
  BY <1>1, <1>2
<1> HIDE DEF baseline, snap, e
<1>7. QED BY <1>1, <1>3, <1>4, <1>5, <1>6 DEF snap, e

\* A failed apply leaves the baseline; a fetched backfill it counts.
LEMMA ApplyFailedEffect ==
    ASSUME TypeInv, ApplyFailed, NEW m \in Matches, m = Head(queue).match
    PROVE  /\ ApplyNext /\ Head(queue).changed /\ UNCHANGED <<last, transitions, cooldowns>>
           /\ \A n \in Matches \ {m} : backfill'[n] = backfill[n] /\ rows'[n] = rows[n]
           /\ m \in applyPending => backfill'[m] # Null
           /\ m \notin applyPending => backfill'[m] = backfill[m]
           /\ rows[m] # Null => rows'[m] # Null
<1> DEFINE e == Head(queue)
<1>1. /\ ApplyNext /\ e.changed /\ NotApplied(e)
      /\ SeedRow(e) \/ UNCHANGED rows
  BY DEF ApplyFailed, NotSeeded, EventsRejected, SideTablesFailed, stored
<1>2. /\ e.snap \in Snapshot /\ TypeOK /\ backfill \in Trackers
      /\ rows \in [Matches -> Snapshot \cup {Null}]
  BY <1>1, HeadType DEF ApplyNext, TypeInv, TypeOK, Trackers
<1>3. BackfillFailure(m, e.snap) # Null
  BY <1>2, BackfillFailureType, NoneAssumption
<1>4. SeededRow(m, e.snap, rows[m]) # Null
  BY <1>2, SeededRowType, SnapshotAssumption
<1>5. UNCHANGED <<last, transitions, cooldowns>>
      /\ backfill' = [backfill EXCEPT ![m] =
            IF m \in applyPending THEN BackfillFailure(m, e.snap) ELSE @]
  BY <1>1 DEF NotApplied
<1>6. /\ \A n \in Matches \ {m} : backfill'[n] = backfill[n]
      /\ m \in applyPending => backfill'[m] # Null
      /\ m \notin applyPending => backfill'[m] = backfill[m]
  BY <1>2, <1>3, <1>5 DEF Trackers
<1>7. /\ \A n \in Matches \ {m} : rows'[n] = rows[n]
      /\ rows[m] # Null => rows'[m] # Null
  BY <1>1, <1>2, <1>4 DEF SeedRow
<1>8. QED BY <1>1, <1>5, <1>6, <1>7

\* Nothing to write: only what was tracked is let go of.
LEMMA UnchangedEffect ==
    ASSUME TypeInv, Unchanged, NEW m \in Matches, m = Head(queue).match
    PROVE  /\ ApplyNext /\ ~Head(queue).changed /\ UNCHANGED <<last, rows, log>>
           /\ OnDurableSnapshot(m, Head(queue).snap, FALSE)
BY DEF Unchanged, stored

\* Dealing with an entry of the queue.
LEMMA ApplyStepHeld ==
    ASSUME HeldInv, TypeInv', Unchanged \/ Applied \/ ApplyFailed
    PROVE  HeldInv'
<1>1. ApplyNext /\ TypeInv
  BY DEF Unchanged, Applied, ApplyFailed, NotSeeded, EventsRejected, SideTablesFailed, HeldInv
<1>2. /\ phase = "apply" /\ Head(queue) \in Entries(queue)
      /\ Head(queue).match \in Matches /\ Head(queue).snap \in Snapshot
      /\ UNCHANGED applyPending
  BY <1>1, ApplyEntries
<1>3. PICK m \in Matches : m = Head(queue).match
  BY <1>2
<1>4. last[m] # Null => rows[m] # Null
  BY DEF HeldInv, BaselineHasRow
<1>5. CASE Unchanged
  <2>1. /\ ~Head(queue).changed /\ UNCHANGED <<last, rows, log>>
        /\ OnDurableSnapshot(m, Head(queue).snap, FALSE)
    BY <1>1, <1>3, <1>5, UnchangedEffect
  <2>2. /\ \A n \in Matches \ {m} : /\ transitions'[n] = transitions[n]
                                    /\ backfill'[n] = backfill[n] /\ cooldowns'[n] = cooldowns[n]
        /\ transitions'[m] # Null => transitions'[m] = transitions[m]
    BY <1>1, <2>1, DurableOutcome DEF TypeInv
  <2>3. last[m] # Null
    BY <1>2, <1>3, <2>1 DEF HeldInv, UnchangedKnown
  <2>4. rows'[m] # Null
    BY <1>4, <2>1, <2>3
  <2>5. Watched(m)'
    BY <2>4 DEF Watched
  <2>6. transitions'[m] # Null => transitions[m] # Null /\ (last'[m] = Null \/ Live(last'[m]))
    BY <2>1, <2>2 DEF HeldInv, TrackedLive
  <2>7. QED BY <1>1, <1>3, <2>1, <2>2, <2>3, <2>4, <2>5, <2>6, ApplyHeld
<1>6. CASE Applied
  <2>1. PICK baseline \in Snapshot :
              /\ last'[m] = baseline /\ OnDurableSnapshot(m, baseline, TRUE)
              /\ rows'[m] \in Snapshot
              /\ \A n \in Matches \ {m} : last'[n] = last[n] /\ rows'[n] = rows[n]
    BY <1>1, <1>3, <1>6, AppliedEffect
  <2>2. /\ \A n \in Matches \ {m} : /\ transitions'[n] = transitions[n]
                                    /\ backfill'[n] = backfill[n] /\ cooldowns'[n] = cooldowns[n]
        /\ transitions'[m] # Null => transitions'[m] = transitions[m] /\ Live(baseline)
    BY <1>1, <2>1, DurableOutcome DEF TypeInv
  <2>3. last'[m] # Null /\ rows'[m] # Null
    BY <2>1, SnapshotAssumption
  <2>4. Watched(m)'
    BY <2>3 DEF Watched
  <2>5. QED BY <1>1, <1>3, <2>1, <2>2, <2>3, <2>4, ApplyHeld
<1>7. CASE ApplyFailed
  <2>1. /\ UNCHANGED <<last, transitions, cooldowns>>
        /\ \A n \in Matches \ {m} : backfill'[n] = backfill[n] /\ rows'[n] = rows[n]
        /\ m \in applyPending => backfill'[m] # Null
        /\ m \notin applyPending => backfill'[m] = backfill[m]
        /\ rows[m] # Null => rows'[m] # Null
    BY <1>1, <1>3, <1>7, ApplyFailedEffect
  <2>2. Watched(m) => Watched(m)'
    BY <1>2, <2>1 DEF Watched, Tracked
  <2>3. transitions[m] # Null => (last[m] = Null \/ Live(last[m]))
    BY DEF HeldInv, TrackedLive
  <2>4. QED BY <1>1, <1>3, <1>4, <2>1, <2>2, <2>3, ApplyHeld
<1>8. QED BY <1>5, <1>6, <1>7

\* A crash forgets every obligation with what it was about.
LEMMA CrashHeld ==
    ASSUME HeldInv, TypeInv', Crash
    PROVE  HeldInv'
BY DEF Crash, Forget, HeldInv, FreshStart, VanishedDue, TrackedLive, BaselineHasRow,
       UnchangedKnown, BackfillHeld, FinishedHeld

\* The obligations are an inductive invariant.
LEMMA HeldInductive ==
    /\ Init => HeldInv
    /\ HeldInv /\ [Next]_vars => HeldInv'
<1>1. ASSUME Init PROVE HeldInv
  BY <1>1, TypeInvInit DEF Init, HeldInv, FreshStart, VanishedDue, TrackedLive, BaselineHasRow,
        UnchangedKnown, BackfillHeld, FinishedHeld
<1>2. ASSUME HeldInv, [Next]_vars PROVE HeldInv'
  <2>1. TypeInv'
    BY <1>2, TypeInvStep DEF HeldInv
  <2>2. CASE NewPoll
    BY <1>2, <2>1, <2>2, StartPollHeld DEF NewPoll
  <2>3. CASE SlateUnavailable
    BY <1>2, <2>1, <2>3 DEF SlateUnavailable, poll, stored, HeldInv, FreshStart, VanishedDue,
       TrackedLive, BaselineHasRow, UnchangedKnown, BackfillHeld, FinishedHeld
  <2>4. ASSUME NEW m \in Matches, SlateStep(m)
        PROVE  HeldInv'
    BY <1>2, <2>1, <2>4, SlateHeld
  <2>5. ASSUME NEW m \in Matches, VanishedStep(m)
        PROVE  HeldInv'
    BY <1>2, <2>1, <2>5, VanishedHeld
  <2>6. CASE SlateDone \/ VanishedDone \/ VanishedBackfillDone \/ PollDone
    BY <1>2, <2>1, <2>6, PhaseHeld
  <2>7. CASE Unchanged \/ Applied \/ ApplyFailed
    BY <1>2, <2>1, <2>7, ApplyStepHeld
  <2>8. CASE Crash
    BY <1>2, <2>1, <2>8, CrashHeld
  <2>9. CASE UNCHANGED vars
    BY <1>2, <2>1, <2>9 DEF vars, HeldInv, FreshStart, VanishedDue, TrackedLive, BaselineHasRow,
       UnchangedKnown, BackfillHeld, FinishedHeld, Held, Queued, Watched, Tracked, CoolingDown
  <2>10. QED BY <1>2, <2>2, <2>3, <2>4, <2>5, <2>6, <2>7, <2>8, <2>9 DEF Next, SmoothStep
<1>3. QED BY <1>1, <1>2

\* A backfill whose detail was fetched is never foreclosed (poll_once,
\* _register_backfill_apply_failure): whatever the pack's hooks answer, at the end of
\* the poll it has a baseline, or is tracked, or is cooling down.
THEOREM BackfillNotForeclosedAlways == Spec => []BackfillNotForeclosed
<1>1. HeldInv => BackfillNotForeclosed
  BY DEF HeldInv, BackfillHeld, Held, Queued, Entries, BackfillNotForeclosed
<1>2. QED BY <1>1, HeldInductive, PTL DEF Spec

\* With backfill enabled, a finished match on the slate is never overlooked
\* (_fetch_poll_snapshots): it has a row, or a tracker or a cooldown brings it back.
THEOREM FinishedNotOverlookedAlways == BackfillEnabled => (Spec => []FinishedNotOverlooked)
<1> SUFFICES ASSUME BackfillEnabled
             PROVE  Spec => []FinishedNotOverlooked
  OBVIOUS
<1>1. HeldInv => FinishedNotOverlooked
  <2> SUFFICES ASSUME HeldInv, phase = "apply", queue = <<>>,
                      NEW m \in Matches, slate[m] # Null, Terminal(slate[m])
               PROVE  rows[m] # Null \/ Tracked(m) \/ cooldowns[m] # Null
    BY DEF FinishedNotOverlooked
  <2>1. Watched(m)
    BY DEF HeldInv, FinishedHeld
  <2>2. m \in applyPending => Held(m)
    BY DEF HeldInv, BackfillHeld
  <2>3. ~Queued(m)
    BY DEF Queued, Entries
  <2>4. QED BY <2>1, <2>2, <2>3 DEF Watched, Held, Tracked, CoolingDown, HeldInv, BaselineHasRow
<1>2. QED BY <1>1, HeldInductive, PTL DEF Spec

\* No row lists its sides the other way round than the provider.
NoneTurned == \A m \in Matches : Reversed[m] = {}

\* An applied state that supersedes a fallback takes back no goal of it.
LEMMA SupersedesKeeps ==
    ASSUME NEW applied \in Snapshot, NEW fallback \in Snapshot,
           LiveSupersedes(applied, fallback) \/ ~WorthRetaining(fallback)
    PROVE  ~Regressed(fallback, applied)
<1> SUFFICES ASSUME NEW s \in Sides
             PROVE  ~Below(applied.score[s], fallback.score[s])
  BY DEF Regressed
<1>1. /\ applied.score[s] \in Scores \cup {Null} /\ fallback.score[s] \in Scores \cup {Null}
      /\ Scores \subseteq Nat
  BY SnapshotAssumption DEF Snapshot
<1>2. CASE ~WorthRetaining(fallback)
  BY <1>2 DEF WorthRetaining, Below
<1>3. CASE LiveSupersedes(applied, fallback)
  <2>1. fallback.score[s] # Null => applied.score[s] # Null /\ applied.score[s] >= fallback.score[s]
    BY <1>3 DEF LiveSupersedes
  <2>2. CASE fallback.score[s] = Null
    BY <2>2 DEF Below
  <2>3. CASE fallback.score[s] # Null
    <3>1. /\ applied.score[s] # Null /\ applied.score[s] >= fallback.score[s]
          /\ applied.score[s] \in Nat /\ fallback.score[s] \in Nat
      BY <1>1, <2>1, <2>3
    <3>2. ~(applied.score[s] < fallback.score[s])
      BY <3>1
    <3>3. QED BY <3>1, <3>2 DEF Below
  <2>4. QED BY <2>2, <2>3
<1>4. QED BY <1>2, <1>3

\* What one step does to a tracker.
LEMMA StepDropJustified ==
    ASSUME NoneTurned, HeldInv, TypeInv', [Next]_vars, NEW m \in Matches,
           transitions[m] # Null, transitions'[m] = Null, scanned'
    PROVE  \/ cooldowns'[m] # Null /\ cooldowns'[m].remaining > 0
           \/ rows'[m] # Null /\ ~Live(rows'[m])
           \/ /\ rows'[m] # Null
              /\ transitions[m].fallback # Null =>
                     ~Regressed(AsStored(m, transitions[m].fallback), rows'[m])
<1> DEFINE Justified == \/ cooldowns'[m] # Null /\ cooldowns'[m].remaining > 0
                        \/ rows'[m] # Null /\ ~Live(rows'[m])
                        \/ /\ rows'[m] # Null
                           /\ transitions[m].fallback # Null =>
                                 ~Regressed(AsStored(m, transitions[m].fallback), rows'[m])
<1>0. TypeInv /\ TypeOK /\ transitions[m] \in Tracker
  BY DEF HeldInv, TypeInv, TypeOK
<1>1. CASE NewPoll
  <2>1. PICK S : transitions' = Seed(transitions, S)
    BY <1>1 DEF NewPoll, StartPoll
  <2>2. transitions'[m] \in {transitions[m], NewTracker(CarriedFallback(m))}
    BY <2>1 DEF Seed
  <2>3. NewTracker(CarriedFallback(m)) # Null
    BY <1>0, CarriedType, NewTrackerType, NoneAssumption
  <2>4. QED BY <2>2, <2>3
<1>2. ASSUME NEW n \in Matches, SlateStep(n)
      PROVE  Justified
  <2>1. OthersKept(n) /\ SlateOutcome(n)
    BY <1>0, <1>2, SlateStepOutcome
  <2>2. m = n
    BY <2>1 DEF OthersKept
  <2>3. TransitionAbandoned(n)
    BY <2>1, <2>2 DEF SlateOutcome, TransitionGated, TransitionTracked
  <2>4. QED BY <2>2, <2>3 DEF TransitionAbandoned
<1>3. ASSUME NEW n \in Matches, VanishedStep(n)
      PROVE  Justified
  <2>1. CASE \/ VanishedCapped(n) \/ VanishedFetchFailed(n)
             \/ \E d \in Details : VanishedFetched(n, d)
    <3>1. OthersKept(n) /\ (TransitionTracked(n) \/ TransitionAbandoned(n))
      BY <1>0, <2>1, VanishedOutcome
    <3>2. m = n
      BY <3>1 DEF OthersKept
    <3>3. QED BY <3>1, <3>2 DEF TransitionTracked, TransitionAbandoned
  <2>2. CASE \/ VanishedBackfillCapped(n) \/ VanishedBackfillDeferred(n) \/ VanishedBackfillFailed(n)
             \/ \E d \in Details : VanishedBackfillFetched(n, d)
    BY <1>0, <2>2, VanishedBackfillOutcome
  <2>3. QED BY <1>3, <2>1, <2>2 DEF VanishedStep
<1>4. CASE Unchanged \/ Applied
  <2>1. ApplyNext
    BY <1>4 DEF Unchanged, Applied
  <2>2. /\ phase = "apply" /\ Head(queue) \in Entries(queue)
        /\ Head(queue).match \in Matches /\ Head(queue).snap \in Snapshot
    BY <1>0, <2>1, ApplyEntries
  <2>3. PICK n \in Matches : n = Head(queue).match
    BY <2>2
  <2>4. CASE Unchanged
    <3>1. /\ ~Head(queue).changed /\ OnDurableSnapshot(n, Head(queue).snap, FALSE)
      BY <1>0, <2>3, <2>4, UnchangedEffect
    <3>2. m = n /\ (Live(Head(queue).snap) => transitions'[n] = transitions[n])
      BY <1>0, <3>1, DurableOutcome
    <3>3. ~Live(Head(queue).snap) => transitions[n] = Null
      BY <2>2, <2>3, <3>1 DEF HeldInv, UnchangedKnown
    <3>4. QED BY <3>2, <3>3
  <2>5. CASE Applied
    <3>1. PICK baseline \in Snapshot :
              /\ baseline.status = Head(queue).snap.status
              /\ baseline.score = Head(queue).snap.score
              /\ OnDurableSnapshot(n, baseline, TRUE)
              /\ rows'[n] \in Snapshot /\ rows'[n].status = Head(queue).snap.status
              /\ rows'[n].score = AsStored(n, Head(queue).snap).score
      BY <1>0, <2>3, <2>5, AppliedEffect
    <3>2. /\ m = n
          /\ (Live(baseline) /\ transitions'[n] # transitions[n])
                => transitions'[n] = Reconciled(transitions[n], baseline)
      BY <1>0, <3>1, DurableOutcome
    <3>3. rows'[m] # Null
      BY <3>1, <3>2, SnapshotAssumption
    <3>4. CASE ~Live(baseline)
      <4>1. ~Live(rows'[m])
        BY <3>1, <3>2, <3>4 DEF Live
      <4>2. QED BY <3>3, <4>1
    <3>5. CASE Live(baseline) /\ transitions[m].fallback # Null
      <4>1. transitions[m].fallback \in Snapshot
        BY <1>0, <3>5 DEF Tracker
      <4>2. LiveSupersedes(baseline, transitions[m].fallback) \/ ~WorthRetaining(transitions[m].fallback)
        BY <3>2, <3>5 DEF Reconciled
      <4>3. ~Regressed(transitions[m].fallback, baseline)
        BY <4>1, <4>2, SupersedesKeeps
      <4>4. /\ AsStored(m, transitions[m].fallback) = transitions[m].fallback
            /\ AsStored(m, Head(queue).snap) = Head(queue).snap
        BY DEF NoneTurned, AsStored
      <4>5. rows'[m].score = baseline.score
        BY <3>1, <3>2, <4>4
      <4>6. ~Regressed(AsStored(m, transitions[m].fallback), rows'[m])
        BY <4>3, <4>4, <4>5 DEF Regressed
      <4>7. QED BY <3>3, <4>6
    <3>6. QED BY <3>3, <3>4, <3>5
  <2>6. QED BY <1>4, <2>4, <2>5
<1>5. CASE ApplyFailed
  BY <1>5 DEF ApplyFailed, NotSeeded, EventsRejected, SideTablesFailed, NotApplied
<1>6. CASE Crash
  BY <1>6 DEF Crash, Forget
<1>7. CASE SlateUnavailable \/ SlateDone \/ VanishedDone \/ VanishedBackfillDone \/ PollDone
  BY <1>7 DEF SlateUnavailable, SlateDone, VanishedDone, VanishedBackfillDone, PollDone, memory
<1>8. CASE UNCHANGED vars
  BY <1>8 DEF vars
<1>9. QED BY <1>1, <1>2, <1>3, <1>4, <1>5, <1>6, <1>7, <1>8 DEF Next, SmoothStep

\* A tracker is dropped only for a reason (_on_durable_snapshot, _abandon): its match
\* is stored as over, or is cooling down, or resumed in a state that has every goal the
\* tracker had captured.
THEOREM TrackerDropJustifiedAlways == NoneTurned => (Spec => TrackerDropJustified)
<1> SUFFICES ASSUME NoneTurned
             PROVE  Spec => TrackerDropJustified
  OBVIOUS
<1> DEFINE Dropped(m) == transitions[m] # Null /\ transitions'[m] = Null /\ scanned'
           Step == \A m \in Matches : Dropped(m) =>
              \/ cooldowns'[m] # Null /\ cooldowns'[m].remaining > 0
              \/ rows'[m] # Null /\ ~Live(rows'[m])
              \/ /\ rows'[m] # Null
                 /\ transitions[m].fallback # Null =>
                       ~Regressed(AsStored(m, transitions[m].fallback), rows'[m])
<1>1. HeldInv /\ HeldInv' /\ [Next]_vars => Step
  BY StepDropJustified DEF HeldInv
<1>2. QED BY <1>1, HeldInductive, PTL DEF Spec, TrackerDropJustified

-----------------------------------------------------------------------------
(* Packs that write all of a snapshot or nothing.                          *)

\* No hook fails once the match's row is written.
PacksGentle == PackOutcomes \subseteq {"ok", "notSeeded"}

StoredLive(m) == rows[m] # Null /\ Live(rows[m])

\* What is being backfilled, by a tracker or by what was fetched for it.
Backfilling(m) == backfill[m] # Null \/ (m \in applyPending /\ Queued(m))

Fresh(m) == last[m] = Null /\ transitions[m] = Null /\ ~StoredLive(m)

\* What is backfilled was never seen in play.
BackfillFresh == \A m \in Matches : Backfilling(m) => Fresh(m)

\* A baseline is what the row says.
Stored(m, snap) ==
    rows[m] # Null /\ rows[m].status = snap.status /\ rows[m].score = AsStored(m, snap).score

BaselineStored == \A m \in Matches : last[m] # Null => Stored(m, last[m])

\* A match has one entry at most.
Distinct(q) == \A i, j \in DOMAIN q : q[i].match = q[j].match => i = j

OneEntry == Distinct(queue)

\* What a phase has still to visit was not dealt with before it.
VisitOrder ==
    /\ phase = "idle" => queue = <<>>
    /\ phase \notin {"idle", "apply"} => \A m \in todo : ~Queued(m) /\ m \notin applyPending
    /\ phase = "slate" =>
           \A m \in Matches : (m \in todo \/ Queued(m) \/ m \in applyPending) => OnSlate(m, slate)
    /\ phase = "vanished" =>
           \A m \in Matches : /\ m \in applyPending => OnSlate(m, slate)
                              /\ Queued(m) => OnSlate(m, slate) \/ backfill[m] = Null

\* An entry without changes says what its baseline says.
UnchangedNow ==
    phase = "apply" =>
        \A e \in Entries(queue) : ~e.changed =>
            last[e.match] # Null /\ StateOf(e.snap) = StateOf(last[e.match])

\* No entry resets a live row, and a give-up's is sound.
Guarded(e) == (InPlay(e.snap) \/ ~StoredLive(e.match)) /\ GiveUpSound(e)

EntriesGuarded == \A e \in Entries(queue) : Guarded(e)

GentleInv ==
    /\ HeldInv
    /\ BackfillFresh /\ BaselineStored /\ NoTrackerWhileCooling
    /\ OneEntry /\ VisitOrder /\ UnchangedNow /\ EntriesGuarded

\* Distinct entries stay distinct.
LEMMA AppendDistinct ==
    ASSUME NEW S, NEW q \in Seq(S), NEW e \in S, Distinct(q),
           \A d \in Entries(q) : d.match # e.match
    PROVE  Distinct(Append(q, e))
<1>1. /\ DOMAIN q = 1 .. Len(q) /\ DOMAIN Append(q, e) = 1 .. Len(q) + 1 /\ Len(q) \in Nat
      /\ \A i \in 1 .. Len(q) : Append(q, e)[i] = q[i]
      /\ Append(q, e)[Len(q) + 1] = e
  BY AppendProperties
<1> SUFFICES ASSUME NEW i \in 1 .. Len(q) + 1, NEW j \in 1 .. Len(q) + 1, i # j
             PROVE  Append(q, e)[i].match # Append(q, e)[j].match
  BY <1>1 DEF Distinct
<1>2. ASSUME NEW k \in 1 .. Len(q) PROVE q[k].match # e.match
  BY <1>1 DEF Entries
<1>3. CASE i # Len(q) + 1 /\ j # Len(q) + 1
  <2>1. i \in 1 .. Len(q) /\ j \in 1 .. Len(q)
    BY <1>1, <1>3
  <2>2. QED BY <1>1, <2>1 DEF Distinct
<1>4. CASE i = Len(q) + 1
  <2>1. j \in 1 .. Len(q)
    BY <1>1, <1>4
  <2>2. QED BY <1>1, <1>2, <1>4, <2>1
<1>5. CASE j = Len(q) + 1
  <2>1. i \in 1 .. Len(q)
    BY <1>1, <1>5
  <2>2. QED BY <1>1, <1>2, <1>5, <2>1
<1>6. QED BY <1>3, <1>4, <1>5

LEMMA TailDistinct ==
    ASSUME NEW S, NEW q \in Seq(S), q # <<>>, Distinct(q)
    PROVE  Distinct(Tail(q)) /\ \A d \in Entries(Tail(q)) : d.match # Head(q).match
<1>1. /\ DOMAIN q = 1 .. Len(q) /\ Len(q) \in Nat /\ Len(q) # 0 /\ Head(q) = q[1]
      /\ DOMAIN Tail(q) = 1 .. (Len(q) - 1)
      /\ \A i \in 1 .. (Len(q) - 1) : Tail(q)[i] = q[i + 1]
  BY HeadTailProperties, EmptySeq
<1>2. ASSUME NEW i \in DOMAIN Tail(q), NEW j \in DOMAIN Tail(q), Tail(q)[i].match = Tail(q)[j].match
      PROVE  i = j
  <2>1. /\ i + 1 \in DOMAIN q /\ j + 1 \in DOMAIN q
        /\ Tail(q)[i] = q[i + 1] /\ Tail(q)[j] = q[j + 1]
    BY <1>1
  <2>2. i + 1 = j + 1
    BY <1>2, <2>1 DEF Distinct
  <2>3. QED BY <1>1, <2>2
<1>3. ASSUME NEW i \in DOMAIN Tail(q) PROVE Tail(q)[i].match # Head(q).match
  <2>1. 1 \in DOMAIN q /\ i + 1 \in DOMAIN q /\ Tail(q)[i] = q[i + 1] /\ i + 1 # 1
    BY <1>1
  <2>2. q[i + 1].match # q[1].match
    BY <2>1 DEF Distinct
  <2>3. QED BY <1>1, <2>1, <2>2
<1>4. QED BY <1>2, <1>3 DEF Distinct, Entries

LEMMA DiffsDistinct ==
    Distinct(queue) => Distinct(Diffs)
<1>1. DOMAIN Diffs = DOMAIN queue /\ \A i \in DOMAIN queue : Diffs[i].match = queue[i].match
  BY DEF Diffs
<1>2. QED BY <1>1 DEF Distinct

\* What one snapshot says is stored, another with the same state says too.
LEMMA StoredAlike ==
    ASSUME NEW m \in Matches, NEW s \in Snapshot, NEW t \in Snapshot,
           s.status = t.status, s.score = t.score, s.info = t.info
    PROVE  AsStored(m, s).score = AsStored(m, t).score
<1>1. /\ [s EXCEPT !.score = [x \in Sides |-> s.score[Opposite[x]]]].score
            = [x \in Sides |-> s.score[Opposite[x]]]
      /\ [t EXCEPT !.score = [x \in Sides |-> t.score[Opposite[x]]]].score
            = [x \in Sides |-> t.score[Opposite[x]]]
  BY DEF Snapshot
<1>2. QED BY <1>1 DEF AsStored

\* A visit preserves the invariant if what it does to its own match does.
LEMMA VisitGentle ==
    ASSUME GentleInv, HeldInv', NEW m \in Matches, NEW in \in {"slate", "vanished", "vanishedBackfill"},
           Visit(m, in), OthersKept(m),
           UNCHANGED queue \/ \E e \in HydratedSnapshot : Queues(m, e) /\ Guarded(e),
           Backfilling(m)' => Fresh(m)',
           ~(transitions'[m] # Null /\ CoolingDown(m)'),
           in = "vanished" => backfill'[m] = Null /\ applyPending' = applyPending
    PROVE  GentleInv'
<1>1. phase = in /\ phase # "apply" /\ phase # "idle" /\ m \in todo /\ todo' = todo \ {m}
      /\ UNCHANGED <<last, scanned, phase, slate, rows, log>>
  BY DEF Visit
<1>2. \A n \in Matches \ {m} : /\ transitions'[n] = transitions[n]
                               /\ backfill'[n] = backfill[n] /\ cooldowns'[n] = cooldowns[n]
  BY DEF OthersKept
<1>3. applyPending \subseteq applyPending' /\ applyPending' \subseteq applyPending \cup {m}
      /\ todo \subseteq Matches /\ applyPending \subseteq Matches
  BY DEF OthersKept, GentleInv, HeldInv, TypeInv, TypeOK
<1>4. queue \in Seq(HydratedSnapshot)
  BY <1>1 DEF GentleInv, HeldInv, TypeInv, TypeOK
<1>5. /\ \A e \in Entries(queue') : e \in Entries(queue) \/ (e.match = m /\ Guarded(e))
      /\ Entries(queue) \subseteq Entries(queue')
  <2>1. CASE UNCHANGED queue
    BY <2>1
  <2>2. ASSUME NEW e \in HydratedSnapshot, Queues(m, e), Guarded(e)
        PROVE  Entries(queue') = Entries(queue) \cup {e} /\ e.match = m
    BY <1>4, <2>2, AppendedEntries DEF Queues
  <2>3. QED BY <2>1, <2>2
<1>6. \A n \in Matches \ {m} : Queued(n)' <=> Queued(n)
  BY <1>5 DEF Queued
<1>7. ~Queued(m) /\ m \notin applyPending
  BY <1>1 DEF GentleInv, VisitOrder
<1>8. BaselineStored' /\ UnchangedNow'
  BY <1>1 DEF GentleInv, BaselineStored, Stored, UnchangedNow
<1>9. BackfillFresh'
  <2> SUFFICES ASSUME NEW n \in Matches, n # m, Backfilling(n)'
               PROVE  Fresh(n)'
    BY DEF BackfillFresh
  <2>1. Backfilling(n)
    BY <1>2, <1>3, <1>6 DEF Backfilling
  <2>2. QED BY <1>1, <1>2, <2>1 DEF GentleInv, BackfillFresh, Fresh, StoredLive
<1>10. NoTrackerWhileCooling'
  BY <1>2 DEF GentleInv, NoTrackerWhileCooling, CoolingDown
<1>11. OneEntry'
  <2>1. CASE UNCHANGED queue
    BY <2>1 DEF GentleInv, OneEntry
  <2>2. ASSUME NEW e \in HydratedSnapshot, Queues(m, e)
        PROVE  Distinct(queue')
    <3>1. \A d \in Entries(queue) : d.match # e.match
      BY <1>7, <2>2 DEF Queues, Queued
    <3>2. QED BY <1>4, <2>2, <3>1, AppendDistinct DEF GentleInv, OneEntry, Queues
  <2>3. QED BY <2>1, <2>2 DEF OneEntry
<1>12. VisitOrder'
  <2>1. \A n \in todo' : ~Queued(n)' /\ n \notin applyPending'
    BY <1>1, <1>3, <1>6 DEF GentleInv, VisitOrder
  <2>2. ASSUME phase = "slate", NEW n \in Matches, n \in todo' \/ Queued(n)' \/ n \in applyPending'
        PROVE  OnSlate(n, slate)
    BY <1>1, <1>3, <1>6, <2>2 DEF GentleInv, VisitOrder
  <2>3. ASSUME phase = "vanished", NEW n \in Matches
        PROVE  /\ n \in applyPending' => OnSlate(n, slate)
               /\ Queued(n)' => OnSlate(n, slate) \/ backfill'[n] = Null
    BY <1>1, <1>2, <1>6, <2>3 DEF GentleInv, VisitOrder
  <2>4. QED BY <1>1, <2>1, <2>2, <2>3 DEF VisitOrder, OnSlate
<1>13. EntriesGuarded'
  BY <1>1, <1>5 DEF GentleInv, EntriesGuarded, Guarded, GiveUpSound, StoredLive
<1>14. QED BY <1>8, <1>9, <1>10, <1>11, <1>12, <1>13 DEF GentleInv

\* The visits of the slate.
LEMMA SlateGentle ==
    ASSUME GentleInv, HeldInv', NEW m \in Matches, SlateStep(m)
    PROVE  GentleInv'
<1>1. Visit(m, "slate") /\ OthersKept(m) /\ SlateOutcome(m)
  BY SlateStepOutcome DEF GentleInv, HeldInv
<1>2. /\ UNCHANGED <<last, rows>>
      /\ m \notin applyPending
      /\ backfill[m] # Null => Fresh(m)
      /\ ~(transitions[m] # Null /\ CoolingDown(m))
  BY <1>1 DEF Visit, GentleInv, VisitOrder, BackfillFresh, Backfilling, NoTrackerWhileCooling
<1>3. ASSUME QueuesPlay(m)
      PROVE  \E e \in HydratedSnapshot : Queues(m, e) /\ Guarded(e)
  BY <1>3 DEF QueuesPlay, Guarded, GiveUpSound
<1>4. CASE /\ Live(slate[m])
           /\ transitions'[m] = Null <=> transitions[m] = Null
           /\ UNCHANGED <<backfill, cooldowns, applyPending>>
           /\ UNCHANGED queue \/ QueuesPlay(m)
  <2>1. Backfilling(m)' => Fresh(m)'
    BY <1>2, <1>4 DEF Backfilling, Fresh, StoredLive
  <2>2. ~(transitions'[m] # Null /\ CoolingDown(m)')
    BY <1>2, <1>4 DEF CoolingDown
  <2>3. QED BY <1>1, <1>3, <1>4, <2>1, <2>2, VisitGentle
<1>5. CASE /\ CoolingDown(m)
           /\ UNCHANGED <<transitions, backfill, cooldowns, applyPending, queue>>
  <2>1. Backfilling(m)' => Fresh(m)'
    BY <1>2, <1>5 DEF Backfilling, Fresh, StoredLive
  <2>2. ~(transitions'[m] # Null /\ CoolingDown(m)')
    BY <1>2, <1>5 DEF CoolingDown
  <2>3. QED BY <1>1, <1>5, <2>1, <2>2, VisitGentle
<1>6. CASE /\ ~Live(slate[m]) /\ ~WasLive(m) /\ ~IsBackfill(m)
           /\ UNCHANGED <<transitions, backfill, cooldowns, applyPending>>
           /\ QueuesBoard(m)
  <2>1. ~StoredLive(m)
    <3>1. CASE last[m] = Null
      BY <1>6, <3>1 DEF WasLive, HasStoredRow, StoredConsulted, StoredLive
    <3>2. CASE last[m] # Null
      <4>1. rows[m].status = last[m].status
        BY <3>2 DEF GentleInv, BaselineStored, Stored
      <4>2. QED BY <1>6, <3>2, <4>1 DEF WasLive, StoredLive, Live
    <3>3. QED BY <3>1, <3>2
  <2>2. \E e \in HydratedSnapshot : Queues(m, e) /\ Guarded(e)
    BY <1>6, <2>1 DEF QueuesBoard, Queues, Guarded, GiveUpSound
  <2>3. Backfilling(m)' => Fresh(m)'
    BY <1>2, <1>6 DEF Backfilling, Fresh, StoredLive
  <2>4. ~(transitions'[m] # Null /\ CoolingDown(m)')
    BY <1>2, <1>6 DEF CoolingDown
  <2>5. QED BY <1>1, <2>2, <2>3, <2>4, VisitGentle
<1>7. CASE /\ InTransition(m)
           /\ UNCHANGED <<backfill, applyPending>>
           /\ \/ TransitionGated(m)
              \/ ~CoolingDown(m) /\ (TransitionTracked(m) \/ TransitionAbandoned(m))
  <2>1. backfill[m] = Null
    BY <1>2, <1>7 DEF InTransition, WasLive, HasStoredRow, Fresh, StoredLive
  <2>2. ~Backfilling(m)'
    BY <1>2, <1>7, <2>1 DEF Backfilling
  <2>3. ASSUME QueuesGiveUp(m, "transition")
        PROVE  \E e \in HydratedSnapshot : Queues(m, e) /\ Guarded(e)
    BY <2>3 DEF QueuesGiveUp, Guarded, GiveUpSound, InPlay
  <2>4. UNCHANGED queue \/ \E e \in HydratedSnapshot : Queues(m, e) /\ Guarded(e)
    BY <1>3, <1>7, <2>3 DEF TransitionGated, TransitionTracked, TransitionAbandoned
  <2>5. ~(transitions'[m] # Null /\ CoolingDown(m)')
    BY <1>2, <1>7 DEF CoolingDown, TransitionGated, TransitionTracked, TransitionAbandoned, SameGate
  <2>6. QED BY <1>1, <2>2, <2>4, <2>5, VisitGentle
<1>8. CASE /\ IsBackfill(m)
           /\ UNCHANGED transitions
           /\ BackfillReady(m) \/ BackfillTracked(m) \/ BackfillAbandoned(m)
  <2>1. Fresh(m)
    <3>1. ~Live(slate[m]) /\ ~WasLive(m)
      BY <1>8 DEF IsBackfill, FirstSightFinished, PendingBackfillRetry, Terminal, Live, LIVE_STATUSES
    <3>2. CASE FirstSightFinished(m)
      BY <3>1, <3>2 DEF FirstSightFinished, WasLive, HasStoredRow, StoredConsulted, Fresh, StoredLive
    <3>3. CASE PendingBackfillRetry(m)
      BY <1>2, <3>3 DEF PendingBackfillRetry
    <3>4. QED BY <1>8, <3>2, <3>3 DEF IsBackfill
  <2>2. Fresh(m)' /\ transitions'[m] = Null
    BY <1>2, <1>8, <2>1 DEF Fresh, StoredLive
  <2>3. ASSUME QueuesGiveUp(m, "backfill")
        PROVE  \E e \in HydratedSnapshot : Queues(m, e) /\ Guarded(e)
    BY <2>1, <2>3 DEF QueuesGiveUp, Queues, Guarded, Fresh
  <2>4. UNCHANGED queue \/ \E e \in HydratedSnapshot : Queues(m, e) /\ Guarded(e)
    BY <1>3, <1>8, <2>3 DEF BackfillReady, BackfillTracked, BackfillAbandoned
  <2>5. QED BY <1>1, <2>2, <2>4, VisitGentle
<1>9. QED BY <1>1, <1>4, <1>5, <1>6, <1>7, <1>8 DEF SlateOutcome

\* The visits off the slate.
LEMMA VanishedGentle ==
    ASSUME GentleInv, HeldInv', NEW m \in Matches, VanishedStep(m)
    PROVE  GentleInv'
<1>1. ASSUME QueuesPlay(m)
      PROVE  \E e \in HydratedSnapshot : Queues(m, e) /\ Guarded(e)
  BY <1>1 DEF QueuesPlay, Guarded, GiveUpSound
<1>2. CASE \/ VanishedCapped(m) \/ VanishedFetchFailed(m)
           \/ \E d \in Details : VanishedFetched(m, d)
  <2>1. /\ Visit(m, "vanished") /\ OthersKept(m)
        /\ UNCHANGED <<backfill, applyPending>>
        /\ TransitionTracked(m) \/ TransitionAbandoned(m)
    BY <1>2, VanishedOutcome DEF GentleInv, HeldInv
  <2>2. /\ m \notin applyPending
        /\ backfill[m] # Null => Fresh(m)
        /\ ~CoolingDown(m) /\ (last[m] # Null \/ transitions[m] # Null)
    BY <2>1 DEF Visit, GentleInv, VisitOrder, BackfillFresh, Backfilling, HeldInv, VanishedDue
  <2>3. backfill'[m] = Null /\ ~Backfilling(m)'
    BY <2>1, <2>2 DEF Fresh, Backfilling
  <2>4. ASSUME QueuesGiveUp(m, "transition")
        PROVE  \E e \in HydratedSnapshot : Queues(m, e) /\ Guarded(e)
    BY <2>4 DEF QueuesGiveUp, Guarded, GiveUpSound, InPlay
  <2>5. UNCHANGED queue \/ \E e \in HydratedSnapshot : Queues(m, e) /\ Guarded(e)
    BY <1>1, <2>1, <2>4 DEF TransitionTracked, TransitionAbandoned
  <2>6. ~(transitions'[m] # Null /\ CoolingDown(m)')
    BY <2>1, <2>2 DEF CoolingDown, TransitionTracked, TransitionAbandoned
  <2>7. QED BY <2>1, <2>3, <2>5, <2>6, VisitGentle
<1>3. CASE \/ VanishedBackfillCapped(m) \/ VanishedBackfillDeferred(m) \/ VanishedBackfillFailed(m)
           \/ \E d \in Details : VanishedBackfillFetched(m, d)
  <2>1. /\ Visit(m, "vanishedBackfill") /\ OthersKept(m)
        /\ UNCHANGED transitions
        /\ BackfillReady(m) \/ BackfillTracked(m) \/ BackfillAbandoned(m)
    BY <1>3, VanishedBackfillOutcome DEF GentleInv, HeldInv
  <2>2. backfill[m] # Null /\ UNCHANGED <<last, rows>>
    BY <2>1 DEF Visit, GentleInv, HeldInv, TypeInv, BackfillKnown
  <2>3. Fresh(m) /\ Fresh(m)' /\ transitions'[m] = Null
    BY <2>1, <2>2 DEF GentleInv, BackfillFresh, Backfilling, Fresh, StoredLive
  <2>4. ASSUME QueuesGiveUp(m, "backfill")
        PROVE  \E e \in HydratedSnapshot : Queues(m, e) /\ Guarded(e)
    BY <2>3, <2>4 DEF QueuesGiveUp, Queues, Guarded, Fresh
  <2>5. UNCHANGED queue \/ \E e \in HydratedSnapshot : Queues(m, e) /\ Guarded(e)
    BY <1>1, <2>1, <2>4 DEF BackfillReady, BackfillTracked, BackfillAbandoned
  <2>6. QED BY <2>1, <2>3, <2>5, VisitGentle
<1>4. QED BY <1>2, <1>3 DEF VanishedStep

\* The start of a poll: what a restart tracks was live, what it backfills was over.
LEMMA StartPollGentle ==
    ASSUME GentleInv, HeldInv', NEW board \in [Matches -> Boards \cup {Null}], StartPoll(board)
    PROVE  GentleInv'
<1>1. /\ phase = "idle" /\ phase' = "slate" /\ applyPending' = {} /\ slate' = board
      /\ todo' = {m \in Matches : OnSlate(m, board)}
      /\ UNCHANGED <<last, queue, rows, log>>
      /\ transitions' = Seed(transitions, IF scanned THEN {} ELSE RestartLive(board))
      /\ backfill' = Seed(backfill, IF scanned THEN {} ELSE RestartBackfill(board))
      /\ cooldowns' = [m \in Matches |-> Aged(board, m)]
  BY DEF StartPoll
<1>2. queue = <<>> /\ Entries(queue') = {}
  BY <1>1 DEF GentleInv, VisitOrder, Entries
<1>3. \A m \in Matches : ~Queued(m)'
  BY <1>2 DEF Queued
<1>4. ASSUME NEW m \in Matches
      PROVE  /\ backfill'[m] # Null => Fresh(m)'
             /\ ~(transitions'[m] # Null /\ CoolingDown(m)')
  <2>1. CASE scanned
    <3>1. backfill'[m] = backfill[m] /\ transitions'[m] = transitions[m]
      BY <1>1, <2>1 DEF Seed
    <3>2. CoolingDown(m)' => CoolingDown(m)
      <4>1. cooldowns[m] \in Cooldown \cup {Null} /\ cooldowns'[m] = Aged(board, m)
        BY <1>1 DEF GentleInv, HeldInv, TypeInv, TypeOK
      <4>2. (Aged(board, m) # Null /\ Aged(board, m).remaining > 0)
               => cooldowns[m] # Null /\ cooldowns[m].remaining > 0
        BY <4>1 DEF Aged, Cooldown
      <4>3. QED BY <4>1, <4>2 DEF CoolingDown
    <3>3. QED BY <1>1, <3>1, <3>2 DEF GentleInv, BackfillFresh, Backfilling, Fresh, StoredLive,
                                      NoTrackerWhileCooling
  <2>2. CASE ~scanned
    <3>1. last[m] = Null /\ transitions[m] = Null /\ backfill[m] = Null /\ cooldowns[m] = Null
      BY <2>2 DEF GentleInv, HeldInv, FreshStart
    <3>2. cooldowns'[m] = Null
      BY <1>1, <3>1 DEF Aged
    <3>3. ASSUME backfill'[m] # Null
          PROVE  transitions'[m] = Null /\ ~StoredLive(m)
      <4>1. m \in RestartBackfill(board)
        BY <1>1, <2>2, <3>1, <3>3 DEF Seed
      <4>2. ~StoredLive(m)
        BY <4>1 DEF RestartBackfill, StoredLive, Terminal, Live, LIVE_STATUSES
      <4>3. m \notin RestartLive(board)
        BY <4>2 DEF RestartLive, StoredLive
      <4>4. QED BY <1>1, <2>2, <3>1, <4>2, <4>3 DEF Seed
    <3>4. QED BY <1>1, <3>1, <3>2, <3>3 DEF Fresh, StoredLive, CoolingDown
  <2>3. QED BY <2>1, <2>2
<1>5. BackfillFresh' /\ NoTrackerWhileCooling'
  BY <1>1, <1>4 DEF BackfillFresh, Backfilling, NoTrackerWhileCooling
<1>6. BaselineStored' /\ OneEntry' /\ UnchangedNow' /\ EntriesGuarded'
  BY <1>1, <1>2 DEF GentleInv, BaselineStored, Stored, OneEntry, UnchangedNow, EntriesGuarded
<1>7. VisitOrder'
  BY <1>1, <1>3 DEF VisitOrder, OnSlate
<1>8. QED BY <1>5, <1>6, <1>7 DEF GentleInv

\* The ends of the phases.
LEMMA PhaseGentle ==
    ASSUME GentleInv, HeldInv', SlateDone \/ VanishedDone \/ VanishedBackfillDone \/ PollDone
    PROVE  GentleInv'
<1>1. UNCHANGED <<last, transitions, backfill, cooldowns, applyPending, scanned, rows, log>>
  BY DEF SlateDone, VanishedDone, VanishedBackfillDone, PollDone, memory, stored
<1>2. BaselineStored' /\ NoTrackerWhileCooling'
  BY <1>1 DEF GentleInv, BaselineStored, Stored, NoTrackerWhileCooling, CoolingDown
<1>3. CASE PollDone
  <2>1. phase' = "idle" /\ queue = <<>> /\ UNCHANGED queue
    BY <1>3 DEF PollDone
  <2>2. Entries(queue') = {} /\ \A m \in Matches : ~Queued(m)'
    BY <2>1 DEF Queued, Entries
  <2>3. BackfillFresh'
    BY <1>1, <2>2 DEF GentleInv, BackfillFresh, Backfilling, Fresh, StoredLive
  <2>4. OneEntry' /\ VisitOrder' /\ UnchangedNow' /\ EntriesGuarded'
    BY <2>1, <2>2 DEF GentleInv, OneEntry, VisitOrder, UnchangedNow, EntriesGuarded
  <2>5. QED BY <1>2, <2>3, <2>4 DEF GentleInv
<1>4. CASE SlateDone \/ (VanishedDone /\ BackfillEnabled)
  <2>1. /\ phase \in {"slate", "vanished"} /\ todo = {} /\ UNCHANGED <<slate, queue>>
        /\ phase' \in {"vanished", "vanishedBackfill"}
        /\ phase = "slate" => phase' = "vanished" /\ todo' = Vanished
        /\ phase = "vanished" => phase' = "vanishedBackfill" /\ todo' = VanishedBackfills
    BY <1>4 DEF SlateDone, VanishedDone
  <2>2. BackfillFresh' /\ OneEntry' /\ UnchangedNow' /\ EntriesGuarded'
    BY <1>1, <2>1 DEF GentleInv, BackfillFresh, Backfilling, Queued, Fresh, StoredLive, OneEntry,
                      UnchangedNow, EntriesGuarded, Guarded, GiveUpSound
  <2>3. VisitOrder'
    BY <1>1, <2>1 DEF GentleInv, VisitOrder, Vanished, VanishedBackfills, Queued, OnSlate
  <2>4. QED BY <1>2, <2>2, <2>3 DEF GentleInv
<1>5. CASE (VanishedDone /\ ~BackfillEnabled) \/ VanishedBackfillDone
  <2>1. /\ phase \in {"vanished", "vanishedBackfill"}
        /\ phase' = "apply" /\ queue' = Diffs /\ todo' = {}
    BY <1>5 DEF VanishedDone, VanishedBackfillDone, BeginApply
  <2>2. OneEntry'
    BY <2>1, DiffsDistinct DEF GentleInv, OneEntry
  <2>3. \A e \in Entries(queue) : e.match \in Matches /\ e.snap \in Snapshot
    <3>1. queue \in Seq(HydratedSnapshot)
      BY <2>1 DEF GentleInv, HeldInv, TypeInv, TypeOK
    <3>2. ASSUME NEW e \in Entries(queue) PROVE e \in HydratedSnapshot
      BY <3>1 DEF Entries
    <3>3. QED BY <3>2 DEF HydratedSnapshot
  <2>4. BackfillFresh'
    <3> SUFFICES ASSUME NEW m \in Matches, Backfilling(m)'
                 PROVE  Fresh(m)'
      BY DEF BackfillFresh
    <3>1. Queued(m)' => Queued(m)
      BY <2>1, DiffsEntries DEF Queued
    <3>2. Backfilling(m)
      BY <1>1, <3>1 DEF Backfilling
    <3>3. QED BY <1>1, <3>2 DEF GentleInv, BackfillFresh, Fresh, StoredLive
  <2>5. UnchangedNow'
    <3> SUFFICES ASSUME NEW e \in Entries(Diffs), ~e.changed
                 PROVE  last[e.match] # Null /\ StateOf(e.snap) = StateOf(last[e.match])
      BY <1>1, <2>1 DEF UnchangedNow
    <3>1. PICK h \in Entries(queue) : /\ e.match = h.match /\ e.snap = h.snap
                                      /\ e.changed = HasChanges(h.snap, last[h.match])
      BY DiffsEntries
    <3>2. last[h.match] \in Snapshot \cup {Null}
      BY <2>3, <3>1 DEF GentleInv, HeldInv, TypeInv, TypeOK
    <3>3. last[h.match] # Null /\ StateOf(h.snap) = StateOf(last[h.match])
      BY <2>3, <3>1, <3>2, UnchangedState
    <3>4. QED BY <3>1, <3>3
  <2>6. EntriesGuarded'
    <3> SUFFICES ASSUME NEW e \in Entries(Diffs)
                 PROVE  Guarded(e)'
      BY <2>1 DEF EntriesGuarded
    <3>1. PICK h \in Entries(queue) : e.match = h.match /\ e.snap = h.snap /\ e.giveUp = h.giveUp
      BY DiffsEntries
    <3>2. Guarded(h)
      BY DEF GentleInv, EntriesGuarded
    <3>3. QED BY <1>1, <3>1, <3>2 DEF Guarded, GiveUpSound, StoredLive
  <2>7. VisitOrder'
    BY <2>1 DEF VisitOrder
  <2>8. QED BY <1>2, <2>2, <2>4, <2>5, <2>6, <2>7 DEF GentleInv
<1>6. QED BY <1>3, <1>4, <1>5

\* Dealing with an entry preserves the invariant if what it does to its match does.
LEMMA ApplyEntryGentle ==
    ASSUME GentleInv, HeldInv', ApplyNext, NEW m \in Matches, m = Head(queue).match,
           \A n \in Matches \ {m} :
              /\ last'[n] = last[n] /\ transitions'[n] = transitions[n]
              /\ backfill'[n] = backfill[n] /\ cooldowns'[n] = cooldowns[n] /\ rows'[n] = rows[n],
           last'[m] # Null => Stored(m, last[m])',
           backfill'[m] # Null => Fresh(m)',
           ~(transitions'[m] # Null /\ CoolingDown(m)')
    PROVE  GentleInv'
<1>1. /\ phase = "apply" /\ phase' = "apply" /\ queue # <<>> /\ queue' = Tail(queue)
      /\ Entries(queue) = {Head(queue)} \cup Entries(queue')
      /\ UNCHANGED applyPending
  BY ApplyEntries DEF ApplyNext, GentleInv, HeldInv
<1>2. queue \in Seq(Diff)
  BY <1>1 DEF GentleInv, HeldInv, TypeInv, TypeOK
<1>3. Distinct(queue') /\ \A e \in Entries(queue') : e.match # m
  BY <1>1, <1>2, TailDistinct DEF GentleInv, OneEntry
<1>4. ASSUME NEW e \in Entries(queue')
      PROVE  e \in Entries(queue) /\ e.match \in Matches \ {m}
  <2>1. e \in Entries(queue)
    BY <1>1
  <2>2. e \in Diff
    BY <1>2, <2>1 DEF Entries
  <2>3. QED BY <1>3, <2>1, <2>2 DEF Diff
<1>5. BackfillFresh'
  <2> SUFFICES ASSUME NEW n \in Matches, Backfilling(n)'
               PROVE  Fresh(n)'
    BY DEF BackfillFresh
  <2>1. CASE n = m
    BY <1>3, <2>1 DEF Backfilling, Queued
  <2>2. CASE n # m
    <3>1. Backfilling(n)
      BY <1>1, <2>2 DEF Backfilling, Queued
    <3>2. QED BY <2>2, <3>1 DEF GentleInv, BackfillFresh, Fresh, StoredLive
  <2>3. QED BY <2>1, <2>2
<1>6. BaselineStored'
  <2> SUFFICES ASSUME NEW n \in Matches, last'[n] # Null, n # m
               PROVE  Stored(n, last[n])'
    BY DEF BaselineStored
  <2>1. QED BY DEF GentleInv, BaselineStored, Stored
<1>7. NoTrackerWhileCooling'
  BY DEF GentleInv, NoTrackerWhileCooling, CoolingDown
<1>8. OneEntry' /\ VisitOrder'
  BY <1>1, <1>3 DEF OneEntry, VisitOrder
<1>9. UnchangedNow'
  BY <1>1, <1>4 DEF GentleInv, UnchangedNow
<1>10. EntriesGuarded'
  BY <1>4 DEF GentleInv, EntriesGuarded, Guarded, GiveUpSound, StoredLive
<1>11. QED BY <1>5, <1>6, <1>7, <1>8, <1>9, <1>10 DEF GentleInv

\* Dealing with an entry of the queue.
LEMMA ApplyGentle ==
    ASSUME PacksGentle, GentleInv, HeldInv', Unchanged \/ Applied \/ ApplyFailed
    PROVE  GentleInv'
<1>1. ApplyNext /\ TypeInv
  BY DEF Unchanged, Applied, ApplyFailed, NotSeeded, EventsRejected, SideTablesFailed, GentleInv, HeldInv
<1>2. /\ phase = "apply" /\ Head(queue) \in Entries(queue)
      /\ Head(queue).match \in Matches /\ Head(queue).snap \in Snapshot
      /\ UNCHANGED applyPending
  BY <1>1, ApplyEntries
<1>3. PICK m \in Matches : m = Head(queue).match
  BY <1>2
<1>4. /\ ~(transitions[m] # Null /\ CoolingDown(m))
      /\ last[m] # Null => Stored(m, last[m])
      /\ Backfilling(m) => Fresh(m)
      /\ Queued(m)
  BY <1>2, <1>3 DEF GentleInv, NoTrackerWhileCooling, BaselineStored, BackfillFresh, Queued
<1>5. CASE Unchanged
  <2>1. UNCHANGED <<last, rows, log>> /\ OnDurableSnapshot(m, Head(queue).snap, FALSE)
    BY <1>1, <1>3, <1>5, UnchangedEffect
  <2>2. /\ \A n \in Matches \ {m} : /\ transitions'[n] = transitions[n]
                                    /\ backfill'[n] = backfill[n] /\ cooldowns'[n] = cooldowns[n]
        /\ backfill'[m] = Null
        /\ transitions'[m] # Null => transitions'[m] = transitions[m]
        /\ CoolingDown(m)' => CoolingDown(m)
    BY <1>1, <2>1, DurableOutcome DEF TypeInv
  <2>3. last'[m] # Null => Stored(m, last[m])'
    BY <1>4, <2>1 DEF Stored
  <2>4. ~(transitions'[m] # Null /\ CoolingDown(m)')
    BY <1>4, <2>2
  <2>5. QED BY <1>1, <1>3, <2>1, <2>2, <2>3, <2>4, ApplyEntryGentle
<1>6. CASE Applied
  <2>1. PICK baseline \in Snapshot :
              /\ baseline.status = Head(queue).snap.status
              /\ baseline.score = Head(queue).snap.score
              /\ baseline.info = Head(queue).snap.info
              /\ last'[m] = baseline /\ OnDurableSnapshot(m, baseline, TRUE)
              /\ rows'[m] \in Snapshot /\ rows'[m].status = Head(queue).snap.status
              /\ rows'[m].score = AsStored(m, Head(queue).snap).score
              /\ \A n \in Matches \ {m} : last'[n] = last[n] /\ rows'[n] = rows[n]
    BY <1>1, <1>3, <1>6, AppliedEffect
  <2>2. /\ \A n \in Matches \ {m} : /\ transitions'[n] = transitions[n]
                                    /\ backfill'[n] = backfill[n] /\ cooldowns'[n] = cooldowns[n]
        /\ backfill'[m] = Null
        /\ transitions'[m] # Null => transitions'[m] = transitions[m]
        /\ CoolingDown(m)' => CoolingDown(m)
    BY <1>1, <2>1, DurableOutcome DEF TypeInv
  <2>3. AsStored(m, baseline).score = AsStored(m, Head(queue).snap).score
    BY <1>2, <2>1, StoredAlike
  <2>4. rows'[m] # Null
    BY <2>1, SnapshotAssumption
  <2>5. Stored(m, last[m])'
    BY <2>1, <2>3, <2>4 DEF Stored, AsStored
  <2>6. ~(transitions'[m] # Null /\ CoolingDown(m)')
    BY <1>4, <2>2
  <2>7. QED BY <1>1, <1>3, <2>1, <2>2, <2>5, <2>6, ApplyEntryGentle
<1>7. CASE ApplyFailed
  <2>1. UNCHANGED <<rows, log>>
    BY <1>7 DEF PacksGentle, ApplyFailed, NotSeeded, EventsRejected, SideTablesFailed, stored
  <2>2. /\ UNCHANGED <<last, transitions, cooldowns>>
        /\ \A n \in Matches \ {m} : backfill'[n] = backfill[n]
        /\ m \notin applyPending => backfill'[m] = backfill[m]
    BY <1>1, <1>3, <1>7, ApplyFailedEffect
  <2>3. backfill'[m] # Null => Fresh(m)'
    BY <1>4, <2>1, <2>2 DEF Backfilling, Fresh, StoredLive
  <2>4. last'[m] # Null => Stored(m, last[m])'
    BY <1>4, <2>1, <2>2 DEF Stored
  <2>5. ~(transitions'[m] # Null /\ CoolingDown(m)')
    BY <1>4, <2>2 DEF CoolingDown
  <2>6. QED BY <1>1, <1>3, <2>1, <2>2, <2>3, <2>4, <2>5, ApplyEntryGentle
<1>8. QED BY <1>5, <1>6, <1>7

\* After a crash nothing is remembered that the rows could contradict.
LEMMA CrashGentle ==
    ASSUME GentleInv, HeldInv', Crash
    PROVE  GentleInv'
<1>1. /\ \A m \in Matches : /\ last'[m] = Null /\ transitions'[m] = Null
                            /\ backfill'[m] = Null /\ cooldowns'[m] = Null
      /\ applyPending' = {} /\ phase' = "idle" /\ queue' = <<>>
  BY DEF Crash, Forget
<1>2. Entries(queue') = {}
  BY <1>1 DEF Entries
<1>3. BackfillFresh' /\ BaselineStored' /\ NoTrackerWhileCooling' /\ EntriesGuarded'
  BY <1>1, <1>2 DEF BackfillFresh, Backfilling, BaselineStored, NoTrackerWhileCooling, EntriesGuarded
<1>4. VisitOrder' /\ UnchangedNow' /\ OneEntry'
  BY <1>1 DEF VisitOrder, UnchangedNow, OneEntry, Distinct
<1>5. QED BY <1>3, <1>4 DEF GentleInv

\* With gentle packs the invariant is inductive.
LEMMA GentleInductive ==
    ASSUME PacksGentle
    PROVE  /\ Init => GentleInv
           /\ GentleInv /\ [Next]_vars => GentleInv'
<1>1. ASSUME Init PROVE GentleInv
  <2>1. HeldInv
    BY <1>1, HeldInductive
  <2>2. /\ \A m \in Matches : /\ last[m] = Null /\ transitions[m] = Null
                              /\ backfill[m] = Null /\ cooldowns[m] = Null
        /\ applyPending = {} /\ phase = "idle" /\ queue = <<>>
    BY <1>1 DEF Init
  <2>3. Entries(queue) = {}
    BY <2>2 DEF Entries
  <2>4. BackfillFresh /\ BaselineStored /\ NoTrackerWhileCooling /\ EntriesGuarded
    BY <2>2, <2>3 DEF BackfillFresh, Backfilling, BaselineStored, NoTrackerWhileCooling, EntriesGuarded
  <2>5. VisitOrder /\ UnchangedNow /\ OneEntry
    BY <2>2 DEF VisitOrder, UnchangedNow, OneEntry, Distinct
  <2>6. QED BY <2>1, <2>4, <2>5 DEF GentleInv
<1>2. ASSUME GentleInv, [Next]_vars PROVE GentleInv'
  <2>1. HeldInv'
    BY <1>2, HeldInductive DEF GentleInv
  <2>2. CASE NewPoll
    BY <1>2, <2>1, <2>2, StartPollGentle DEF NewPoll
  <2>3. ASSUME NEW m \in Matches, SlateStep(m)
        PROVE  GentleInv'
    BY <1>2, <2>1, <2>3, SlateGentle
  <2>4. ASSUME NEW m \in Matches, VanishedStep(m)
        PROVE  GentleInv'
    BY <1>2, <2>1, <2>4, VanishedGentle
  <2>5. CASE SlateDone \/ VanishedDone \/ VanishedBackfillDone \/ PollDone
    BY <1>2, <2>1, <2>5, PhaseGentle
  <2>6. CASE Unchanged \/ Applied \/ ApplyFailed
    BY <1>2, <2>1, <2>6, ApplyGentle
  <2>7. CASE Crash
    BY <1>2, <2>1, <2>7, CrashGentle
  <2>8. CASE SlateUnavailable \/ UNCHANGED vars
    <3>1. /\ UNCHANGED <<last, transitions, backfill, cooldowns, scanned, phase, slate, todo, queue,
                         rows, log>>
          /\ applyPending' = applyPending \/ (phase = "idle" /\ applyPending' = {})
      BY <2>8 DEF SlateUnavailable, poll, stored, vars
    <3>2. applyPending' \subseteq applyPending
      BY <3>1
    <3>3. \A n \in Matches : Backfilling(n)' => Backfilling(n)
      BY <3>1, <3>2 DEF Backfilling, Queued
    <3>4. BackfillFresh' /\ BaselineStored' /\ NoTrackerWhileCooling' /\ EntriesGuarded'
      BY <1>2, <3>1, <3>3 DEF GentleInv, BackfillFresh, Fresh, StoredLive, BaselineStored, Stored,
         NoTrackerWhileCooling, CoolingDown, EntriesGuarded, Guarded, GiveUpSound
    <3>5. VisitOrder' /\ UnchangedNow' /\ OneEntry'
      BY <1>2, <3>1, <3>2 DEF GentleInv, VisitOrder, Queued, OnSlate, UnchangedNow, OneEntry
    <3>6. QED BY <2>1, <3>4, <3>5 DEF GentleInv
  <2>9. QED BY <1>2, <2>2, <2>3, <2>4, <2>5, <2>6, <2>7, <2>8 DEF Next, SmoothStep
<1>3. QED BY <1>1, <1>2

\* One match is never on both paths (poll_once, is_backfill and in_transition): with
\* packs that write a snapshot whole or not at all, it has no two trackers.
THEOREM PathsExclusiveAlways == PacksGentle => (Spec => []PathsExclusive)
<1> SUFFICES ASSUME PacksGentle
             PROVE  Spec => []PathsExclusive
  OBVIOUS
<1>1. GentleInv => PathsExclusive
  BY DEF GentleInv, BackfillFresh, Backfilling, Fresh, PathsExclusive
<1>2. QED BY <1>1, GentleInductive, PTL DEF Spec

\* No match is tracked while it cools down (__init__: "no tracker is created while
\* cooling"), with such packs.
THEOREM NoTrackerWhileCoolingAlways == PacksGentle => (Spec => []NoTrackerWhileCooling)
<1> SUFFICES ASSUME PacksGentle
             PROVE  Spec => []NoTrackerWhileCooling
  OBVIOUS
<1>1. GentleInv => NoTrackerWhileCooling
  BY DEF GentleInv
<1>2. QED BY <1>1, GentleInductive, PTL DEF Spec

\* "Stored state already durably matches this snapshot" (poll_once): with such packs a
\* snapshot without changes is what the row says.
THEOREM UnchangedMeansStoredAlways == PacksGentle => (Spec => []UnchangedMeansStored)
<1> SUFFICES ASSUME PacksGentle
             PROVE  Spec => []UnchangedMeansStored
  OBVIOUS
<1>1. GentleInv => UnchangedMeansStored
  <2> SUFFICES ASSUME GentleInv, phase = "apply", queue # <<>>, ~Head(queue).changed
               PROVE  LET e == Head(queue) IN
                      /\ rows[e.match] # Null
                      /\ rows[e.match].status = e.snap.status
                      /\ rows[e.match].score = AsStored(e.match, e.snap).score
    BY DEF UnchangedMeansStored
  <2>1. /\ Head(queue).match \in Matches /\ Head(queue).snap \in Snapshot
        /\ queue \in Seq(Diff) /\ TypeOK
    BY HeadType DEF GentleInv, HeldInv, TypeInv, TypeOK
  <2>2. PICK m \in Matches : m = Head(queue).match
    BY <2>1
  <2>3. PICK s \in Snapshot : s = Head(queue).snap
    BY <2>1
  <2>4. last[m] # Null /\ StateOf(s) = StateOf(last[m])
    <3>1. Head(queue) \in Entries(queue)
      BY <2>1, TailEntries
    <3>2. QED BY <2>2, <2>3, <3>1 DEF GentleInv, UnchangedNow
  <2>5. last[m] \in Snapshot
    BY <2>1, <2>4 DEF TypeOK
  <2>6. s.status = last[m].status /\ s.score = last[m].score /\ s.info = last[m].info
    <3>1. /\ StateOf(s).status = s.status /\ StateOf(s).score = s.score /\ StateOf(s).info = s.info
      BY DEF StateOf, Snapshot
    <3>2. /\ StateOf(last[m]).status = last[m].status /\ StateOf(last[m]).score = last[m].score
          /\ StateOf(last[m]).info = last[m].info
      BY <2>5 DEF StateOf, Snapshot
    <3>3. QED BY <2>4, <3>1, <3>2
  <2>7. AsStored(m, s).score = AsStored(m, last[m]).score
    BY <2>5, <2>6, StoredAlike
  <2>8. Stored(m, last[m])
    BY <2>4 DEF GentleInv, BaselineStored
  <2>9. rows[m] # Null /\ rows[m].status = s.status /\ rows[m].score = AsStored(m, s).score
    BY <2>6, <2>7, <2>8 DEF Stored
  <2>10. QED BY <2>2, <2>3, <2>9
<1>2. QED BY <1>1, GentleInductive, PTL DEF Spec

\* A status reset of the provider never clobbers a live row (_fetch_poll_snapshots):
\* with such packs a stored match leaves live play only by being closed, and a crash in
\* the middle of an apply does not change that.
THEOREM ResetNeverClobbersAlways == PacksGentle => (Spec => ResetNeverClobbers)
<1> SUFFICES ASSUME PacksGentle
             PROVE  Spec => ResetNeverClobbers
  OBVIOUS
<1> DEFINE Step == \A m \in Matches : (rows[m] # Null /\ Live(rows[m])) =>
                      Live(rows'[m]) \/ Terminal(rows'[m])
<1>1. ASSUME GentleInv, [Next]_vars
      PROVE  Step
  <2>1. UNCHANGED rows \/ (phase = "apply" /\ queue # <<>> /\ SeedRow(Head(queue)))
    <3>1. CASE SmoothStep
      <4>1. ASSUME NEW m \in Matches, SlateStep(m) \/ VanishedStep(m)
            PROVE  UNCHANGED rows
        <5>1. SlateStep(m) => UNCHANGED rows
          BY <1>1, SlateStepOutcome DEF GentleInv, HeldInv, Visit
        <5>2. VanishedStep(m) => UNCHANGED rows
          BY <1>1, VanishedOutcome, VanishedBackfillOutcome DEF GentleInv, HeldInv, Visit, VanishedStep
        <5>3. QED BY <4>1, <5>1, <5>2
      <4>2. CASE SlateDone \/ VanishedDone \/ VanishedBackfillDone \/ PollDone \/ Unchanged
        BY <4>2 DEF SlateDone, VanishedDone, VanishedBackfillDone, PollDone, Unchanged, stored
      <4>3. CASE Applied
        BY <4>3 DEF Applied, ApplyNext
      <4>4. QED BY <3>1, <4>1, <4>2, <4>3 DEF SmoothStep
    <3>2. CASE ApplyFailed
      BY <3>2 DEF ApplyFailed, NotSeeded, EventsRejected, SideTablesFailed, ApplyNext, stored
    <3>3. CASE Crash
      BY <3>3 DEF Crash, CutShortApply, stored
    <3>4. CASE NewPoll \/ SlateUnavailable \/ UNCHANGED vars
      BY <3>4 DEF NewPoll, StartPoll, SlateUnavailable, stored, vars
    <3>5. QED BY <1>1, <3>1, <3>2, <3>3, <3>4 DEF Next
  <2>2. CASE UNCHANGED rows
    BY <2>2
  <2>3. CASE phase = "apply" /\ queue # <<>> /\ SeedRow(Head(queue))
    <3>1. /\ Head(queue).match \in Matches /\ Head(queue).snap \in Snapshot
          /\ queue \in Seq(Diff) /\ TypeInv
      BY <1>1, <2>3, HeadType DEF GentleInv, HeldInv, TypeInv, TypeOK
    <3>2. PICK n \in Matches : n = Head(queue).match
      BY <3>1
    <3>3. /\ rows'[n].status = Head(queue).snap.status
          /\ \A m \in Matches \ {n} : rows'[m] = rows[m]
      BY <2>3, <3>1, <3>2, SeedRowEffect
    <3>4. InPlay(Head(queue).snap) \/ ~StoredLive(n)
      <4>1. Head(queue) \in Entries(queue)
        BY <2>3, <3>1, TailEntries
      <4>2. QED BY <1>1, <3>2, <4>1 DEF GentleInv, EntriesGuarded, Guarded
    <3>5. QED BY <3>3, <3>4 DEF InPlay, StoredLive, Live, Terminal
  <2>4. QED BY <2>1, <2>2, <2>3
<1>2. QED BY <1>1, GentleInductive, PTL DEF Spec, ResetNeverClobbers

\* Giving up is monotonic (_nonregress_over_stored): with such packs, and no row that
\* lists its sides the other way round, what a give-up writes takes back no stored goal,
\* reopens no stored end, and closes a match that was live.
THEOREM GiveUpMonotonicAlways == (PacksGentle /\ NoneTurned) => (Spec => GiveUpMonotonic)
<1> SUFFICES ASSUME PacksGentle, NoneTurned
             PROVE  Spec => GiveUpMonotonic
  OBVIOUS
<1> DEFINE Step == LET e == Head(queue)
                       row == rows[e.match] IN
                   (phase = "apply" /\ queue # <<>> /\ e.giveUp # "no" /\ scanned' /\ rows' # rows) =>
                       /\ row # Null => /\ ~Regressed(row, rows'[e.match])
                                        /\ Terminal(row) => Terminal(rows'[e.match])
                       /\ e.giveUp = "transition" => Terminal(rows'[e.match])
<1>1. ASSUME GentleInv, [Next]_vars
      PROVE  Step
  <2> SUFFICES ASSUME phase = "apply", queue # <<>>, Head(queue).giveUp # "no", scanned', rows' # rows
               PROVE  LET e == Head(queue)
                          row == rows[e.match] IN
                      /\ row # Null => /\ ~Regressed(row, rows'[e.match])
                                       /\ Terminal(row) => Terminal(rows'[e.match])
                      /\ e.giveUp = "transition" => Terminal(rows'[e.match])
    OBVIOUS
  <2>1. /\ Head(queue).match \in Matches /\ Head(queue).snap \in Snapshot
        /\ queue \in Seq(Diff) /\ TypeInv
    BY <1>1, HeadType DEF GentleInv, HeldInv, TypeInv, TypeOK
  <2>2. SeedRow(Head(queue))
    <3>1. ~Crash /\ ~NewPoll /\ ~SlateUnavailable
      BY DEF Crash, Forget, NewPoll, StartPoll, SlateUnavailable
    <3>2. \A m \in Matches : ~SlateStep(m) /\ ~VanishedStep(m)
      BY <2>1, SlateStepOutcome, VanishedOutcome, VanishedBackfillOutcome DEF Visit, VanishedStep
    <3>3. ~(SlateDone \/ VanishedDone \/ VanishedBackfillDone \/ PollDone \/ Unchanged)
      BY DEF SlateDone, VanishedDone, VanishedBackfillDone, PollDone, Unchanged, stored
    <3>4. ApplyFailed \/ Applied
      BY <1>1, <3>1, <3>2, <3>3 DEF Next, SmoothStep, vars
    <3>5. QED BY <3>4 DEF ApplyFailed, NotSeeded, EventsRejected, SideTablesFailed, Applied, stored
  <2>3. PICK n \in Matches : n = Head(queue).match
    BY <2>1
  <2>4. /\ rows'[n].status = Head(queue).snap.status
        /\ rows'[n].score = AsStored(n, Head(queue).snap).score
    BY <2>1, <2>2, <2>3, SeedRowEffect
  <2>5. rows'[n].score = Head(queue).snap.score
    BY <2>4 DEF NoneTurned, AsStored
  <2>6. GiveUpSound(Head(queue))
    <3>1. Head(queue) \in Entries(queue)
      BY <2>1, TailEntries
    <3>2. QED BY <1>1, <3>1 DEF GentleInv, EntriesGuarded, Guarded
  <2>7. QED BY <2>3, <2>4, <2>5, <2>6 DEF GiveUpSound, Regressed, Terminal
<1>2. QED BY <1>1, GentleInductive, PTL DEF Spec, GiveUpMonotonic

-----------------------------------------------------------------------------
(* No score is made up: merging, accruing and giving up only choose.       *)

ShownScores(s) == {o.score[s] : o \in Boards \cup Details} \cup {Null}

\* The provider has shown each score of the snapshot.
Shown(snap) == \A s \in Sides : snap.score[s] \in ShownScores(s)

Known(snap) == snap = Null \/ Shown(snap)

\* What a tracker or a cooldown has captured was shown.
Carries(t) == t = Null \/ Known(t.fallback)

QueuesShown(m) == \E e \in HydratedSnapshot : Queues(m, e) /\ Shown(e.snap)

ShownInv ==
    /\ TypeInv
    /\ \A m \in Matches : /\ Known(last[m]) /\ Known(rows[m])
                          /\ Carries(transitions[m]) /\ Carries(backfill[m]) /\ Carries(cooldowns[m])
    /\ \A e \in Entries(queue) : Shown(e.snap)

LEMMA ObservationsShown == \A o \in Boards \cup Details : o \in Snapshot /\ Shown(o)
BY EngineAssumption DEF Shown, ShownScores

LEMMA MergeOverBaseShown ==
    ASSUME NEW base \in Snapshot, NEW snap \in Snapshot, Shown(base), Shown(snap)
    PROVE  Shown(MergeOverBase(base, snap))
<1>1. MergeOverBase(base, snap).score = PreferScores(snap.score, base.score)
  BY DEF MergeOverBase, Snapshot
<1>2. QED BY <1>1 DEF Shown, PreferScores, Prefer

LEMMA MergeDetailShown ==
    ASSUME NEW board \in Snapshot, NEW d \in Snapshot, Shown(board), Shown(d)
    PROVE  Shown(MergeDetail(board, d))
<1> DEFINE merged == MergeOverBase(board, d)
<1>1. merged \in Snapshot /\ Shown(merged)
  BY MergeOverBaseType, MergeOverBaseShown
<1> HIDE DEF merged
<1>2. CASE StatusRank[d.status] < StatusRank[board.status]
  <2>1. MergeDetail(board, d).score = PreferScores(board.score, merged.score)
    BY <1>1, <1>2 DEF MergeDetail, merged, Snapshot
  <2>2. QED BY <1>1, <2>1 DEF Shown, PreferScores, Prefer
<1>3. CASE ~(StatusRank[d.status] < StatusRank[board.status])
  BY <1>1, <1>3 DEF MergeDetail, merged
<1>4. QED BY <1>2, <1>3

LEMMA MaxScoresShown ==
    ASSUME NEW s \in Snapshot, NEW t \in Snapshot, Shown(s), Shown(t)
    PROVE  \A x \in Sides : MaxScores(s.score, t.score)[x] \in ShownScores(x)
<1> SUFFICES ASSUME NEW x \in Sides
             PROVE  MaxKnown(s.score[x], t.score[x]) \in ShownScores(x)
  BY DEF MaxScores
<1>1. MaxKnown(s.score[x], t.score[x]) \in {s.score[x], t.score[x]}
  BY DEF MaxKnown
<1>2. QED BY <1>1 DEF Shown

LEMMA AccrueShown ==
    ASSUME NEW old \in Snapshot \cup {Null}, NEW new \in Snapshot, Known(old), Shown(new)
    PROVE  AccrueFallback(old, new) \in Snapshot /\ Shown(AccrueFallback(old, new))
<1>1. AccrueFallback(old, new) \in Snapshot
  BY AccrueType
<1>2. CASE old = Null
  BY <1>2 DEF AccrueFallback
<1>3. CASE old # Null
  <2>1. AccrueFallback(old, new).score = MaxScores(old.score, new.score)
    BY <1>3 DEF AccrueFallback
  <2>2. QED BY <1>1, <1>3, <2>1, MaxScoresShown DEF Shown, Known
<1>4. QED BY <1>1, <1>2, <1>3

LEMMA NonRegressShown ==
    ASSUME NEW snap \in Snapshot, NEW row \in Snapshot \cup {Null}, NEW force \in BOOLEAN,
           Shown(snap), Known(row)
    PROVE  Shown(NonRegressOverStored(snap, row, force))
<1>1. NonRegressOverStored(snap, row, force).score = NonRegressScore(snap, row)
  BY DEF NonRegressOverStored, Snapshot
<1>2. \A s \in Sides : NonRegressScore(snap, row)[s] \in ShownScores(s)
  <2>1. CASE row = Null
    BY <2>1 DEF NonRegressScore, Shown
  <2>2. CASE row # Null
    BY <2>2, MaxScoresShown DEF NonRegressScore, Known
  <2>3. QED BY <2>1, <2>2
<1>3. QED BY <1>1, <1>2 DEF Shown

\* What a tracker inherits, observes and counts.
LEMMA TrackersShown ==
    ASSUME ShownInv, NEW m \in Matches
    PROVE  /\ Known(CarriedFallback(m))
           /\ Known(TrackerOf(m).fallback) /\ Known(BackfillTrackerOf(m).fallback)
<1>1. Known(CarriedFallback(m))
  BY DEF ShownInv, Carries, CarriedFallback, Known
<1>2. NewTracker(CarriedFallback(m)).fallback = CarriedFallback(m)
  BY DEF NewTracker
<1>3. QED BY <1>1, <1>2 DEF ShownInv, Carries, TrackerOf, BackfillTrackerOf

LEMMA ObservedShown ==
    ASSUME NEW t \in Tracker, NEW snap \in Snapshot, Known(t.fallback), Shown(snap)
    PROVE  Observed(t, snap) \in Tracker /\ Known(Observed(t, snap).fallback)
<1>1. t.fallback \in Snapshot \cup {Null}
  BY DEF Tracker
<1>2. Observed(t, snap).fallback = AccrueFallback(t.fallback, snap)
  BY DEF Observed, Tracker
<1>3. QED BY <1>1, <1>2, ObservedType, AccrueShown DEF Known

LEMMA CountsShown ==
    ASSUME NEW t \in Tracker
    PROVE  /\ FailedFetch(t).fallback = t.fallback
           /\ [t EXCEPT !.failures = 0].fallback = t.fallback
           /\ [t EXCEPT !.attempts = @ + 1].fallback = t.fallback
           /\ [t EXCEPT !.failures = @ + 1].fallback = t.fallback
           /\ [t EXCEPT !.pending = TRUE, !.emissions = @ + 1].fallback = t.fallback
BY DEF FailedFetch, Tracker

LEMMA BackfillFailureShown ==
    ASSUME ShownInv, NEW m \in Matches, NEW snap \in Snapshot, Shown(snap)
    PROVE  BackfillFailure(m, snap) \in Tracker /\ Known(BackfillFailure(m, snap).fallback)
<1>1. BackfillTrackerOf(m) \in Tracker /\ Known(BackfillTrackerOf(m).fallback)
  BY TrackerOfType, TrackersShown DEF ShownInv, TypeInv
<1>2. Observed(BackfillTrackerOf(m), snap) \in Tracker
      /\ Known(Observed(BackfillTrackerOf(m), snap).fallback)
  BY <1>1, ObservedShown
<1>3. BackfillFailure(m, snap).fallback = Observed(BackfillTrackerOf(m), snap).fallback
  BY <1>2, CountsShown DEF BackfillFailure
<1>4. QED BY <1>2, <1>3, BackfillFailureType DEF ShownInv, TypeInv

LEMMA NextCooldownShown ==
    ASSUME ShownInv, NEW m \in Matches, NEW f \in Snapshot \cup {Null}, Known(f),
           NEW origin \in BOOLEAN
    PROVE  Known(NextCooldown(m, f, origin).fallback)
<1> DEFINE carried == CarriedFallback(m)
           captured == CASE carried = Null -> f
                         [] carried # Null /\ f = Null -> carried
                         [] OTHER -> AccrueFallback(carried, f)
<1>1. carried \in Snapshot \cup {Null} /\ Known(carried)
  BY CarriedType, TrackersShown DEF ShownInv, TypeInv
<1>2. NextCooldown(m, f, origin).fallback = captured
  BY DEF NextCooldown
<1> HIDE DEF carried
<1>3. CASE carried # Null /\ f # Null
  BY <1>1, <1>2, <1>3, AccrueShown DEF Known
<1>4. CASE ~(carried # Null /\ f # Null)
  BY <1>1, <1>2, <1>4
<1>5. QED BY <1>3, <1>4

\* What a give-up persists.
LEMMA GiveUpShown ==
    ASSUME ShownInv, NEW m \in Matches, NEW t \in Tracker, Known(t.fallback),
           NEW fresh \in Snapshot \cup {Null}, Known(fresh), NEW force \in BOOLEAN
    PROVE  Known(GiveUpSnapshot(m, t, fresh, force))
<1> DEFINE candidate == IF t.fallback # Null /\ fresh # Null
                        THEN AccrueFallback(t.fallback, fresh)
                        ELSE FirstKnown(t.fallback, fresh, Prefer(last[m], rows[m]))
           base == FirstKnown(Other(last[m], candidate), Other(t.fallback, candidate),
                              Other(rows[m], candidate))
           merged == IF base = Null THEN candidate ELSE MergeOverBase(base, candidate)
<1>1. /\ t.fallback \in Snapshot \cup {Null}
      /\ last[m] \in Snapshot \cup {Null} /\ Known(last[m])
      /\ rows[m] \in Snapshot \cup {Null} /\ Known(rows[m])
  BY DEF ShownInv, TypeInv, TypeOK, Tracker
<1>2. candidate \in Snapshot \cup {Null} /\ Known(candidate)
  <2>1. CASE t.fallback # Null /\ fresh # Null
    BY <1>1, <2>1, AccrueShown DEF Known
  <2>2. CASE ~(t.fallback # Null /\ fresh # Null)
    BY <1>1, <2>2 DEF FirstKnown, Prefer
  <2>3. QED BY <2>1, <2>2
<1> HIDE DEF candidate
<1>3. base \in Snapshot \cup {Null} /\ Known(base)
  BY <1>1 DEF FirstKnown, Prefer, Other, Known
<1> HIDE DEF base
<1>4. candidate # Null => merged \in Snapshot /\ Shown(merged)
  BY <1>2, <1>3, MergeOverBaseType, MergeOverBaseShown DEF Known
<1> HIDE DEF merged
<1>5. candidate # Null => Shown(NonRegressOverStored(merged, rows[m], force))
  BY <1>1, <1>4, NonRegressShown
<1>6. QED BY <1>5 DEF GiveUpSnapshot, Known, candidate, base, merged

\* A snapshot that was shown is queued.
LEMMA ShownQueued ==
    ASSUME NEW m \in Matches, NEW snap \in Snapshot, Shown(snap),
           NEW kind \in {"no", "transition", "backfill"},
           queue' = Append(queue, Hydrated(m, snap, kind))
    PROVE  QueuesShown(m)
<1>1. Hydrated(m, snap, kind) \in HydratedSnapshot
  BY DEF Hydrated, HydratedSnapshot
<1>2. QED BY <1>1 DEF QueuesShown, Queues, Hydrated

LEMMA KeepOrGiveUpShown ==
    ASSUME ShownInv, NEW m \in Matches, NEW t \in Tracker, Known(t.fallback),
           NEW fresh \in Snapshot \cup {Null}, Known(fresh),
           EmitGiveUp(m, t, fresh) \/ KeepOrGiveUp(m, t, fresh)
    PROVE  /\ Carries(transitions'[m]) /\ Carries(cooldowns'[m])
           /\ UNCHANGED queue \/ QueuesShown(m)
<1> DEFINE snap == GiveUpSnapshot(m, t, fresh, TRUE)
           emitted == [t EXCEPT !.pending = TRUE, !.emissions = @ + 1]
<1>1. transitions \in Trackers /\ cooldowns \in Cooldowns /\ Carries(cooldowns[m]) /\ TypeOK
  BY DEF ShownInv, TypeInv, TypeOK, Trackers, Cooldowns
<1>2. snap \in Snapshot \cup {Null} /\ Known(snap)
  BY <1>1, GiveUpType, GiveUpShown
<1>3. Carries(emitted)
  BY CountsShown DEF Carries
<1> HIDE DEF snap, emitted
<1>4. CASE EmitGiveUp(m, t, fresh) /\ snap # Null /\ t.emissions < MaxGiveUpEmissions
  <2>1. /\ transitions' = [transitions EXCEPT ![m] = emitted]
        /\ queue' = Append(queue, Hydrated(m, snap, "transition"))
        /\ UNCHANGED cooldowns
    BY <1>4 DEF EmitGiveUp, snap, emitted
  <2>2. QueuesShown(m)
    BY <1>2, <1>4, <2>1, ShownQueued DEF Known
  <2>3. QED BY <1>1, <1>3, <2>1, <2>2 DEF Trackers
<1>5. CASE EmitGiveUp(m, t, fresh) /\ ~(snap # Null /\ t.emissions < MaxGiveUpEmissions)
  <2>1. /\ transitions' = [transitions EXCEPT ![m] = Null]
        /\ cooldowns' = [cooldowns EXCEPT ![m] = NextCooldown(m, t.fallback, FALSE)]
        /\ UNCHANGED queue
    BY <1>5 DEF EmitGiveUp, snap
  <2>2. Known(NextCooldown(m, t.fallback, FALSE).fallback)
    BY NextCooldownShown DEF Tracker
  <2>3. QED BY <1>1, <2>1, <2>2 DEF Trackers, Cooldowns, Carries
<1>6. CASE KeepOrGiveUp(m, t, fresh) /\ ~AtCap(t)
  BY <1>1, <1>6 DEF KeepOrGiveUp, Trackers, Carries
<1>7. QED BY <1>4, <1>5, <1>6 DEF KeepOrGiveUp

LEMMA KeepOrGiveUpBackfillShown ==
    ASSUME ShownInv, NEW m \in Matches, NEW t \in Tracker, Known(t.fallback),
           NEW fresh \in Snapshot \cup {Null}, Known(fresh), NEW pending \in SUBSET Matches,
           EmitBackfillGiveUp(m, t, fresh, pending) \/ KeepOrGiveUpBackfill(m, t, fresh, pending)
    PROVE  /\ Carries(backfill'[m]) /\ Carries(cooldowns'[m])
           /\ UNCHANGED queue \/ QueuesShown(m)
<1> DEFINE snap == GiveUpSnapshot(m, t, fresh, FALSE)
           emitted == [t EXCEPT !.pending = TRUE, !.emissions = @ + 1]
<1>1. backfill \in Trackers /\ cooldowns \in Cooldowns /\ Carries(cooldowns[m]) /\ TypeOK
  BY DEF ShownInv, TypeInv, TypeOK, Trackers, Cooldowns
<1>2. snap \in Snapshot \cup {Null} /\ Known(snap)
  BY <1>1, GiveUpType, GiveUpShown
<1>3. Carries(emitted)
  BY CountsShown DEF Carries
<1> HIDE DEF snap, emitted
<1>4. CASE /\ EmitBackfillGiveUp(m, t, fresh, pending)
           /\ snap # Null /\ t.emissions < MaxGiveUpEmissions
  <2>1. /\ backfill' = [backfill EXCEPT ![m] = emitted]
        /\ queue' = Append(queue, Hydrated(m, snap, "backfill"))
        /\ UNCHANGED cooldowns
    BY <1>4 DEF EmitBackfillGiveUp, snap, emitted
  <2>2. QueuesShown(m)
    BY <1>2, <1>4, <2>1, ShownQueued DEF Known
  <2>3. QED BY <1>1, <1>3, <2>1, <2>2 DEF Trackers
<1>5. CASE /\ EmitBackfillGiveUp(m, t, fresh, pending)
           /\ ~(snap # Null /\ t.emissions < MaxGiveUpEmissions)
  <2>1. /\ backfill' = [backfill EXCEPT ![m] = Null]
        /\ cooldowns' = [cooldowns EXCEPT ![m] = NextCooldown(m, t.fallback, TRUE)]
        /\ UNCHANGED queue
    BY <1>5 DEF EmitBackfillGiveUp, snap
  <2>2. Known(NextCooldown(m, t.fallback, TRUE).fallback)
    BY NextCooldownShown DEF Tracker
  <2>3. QED BY <1>1, <2>1, <2>2 DEF Trackers, Cooldowns, Carries
<1>6. CASE KeepOrGiveUpBackfill(m, t, fresh, pending) /\ ~BackfillAtCap(t)
  BY <1>1, <1>6 DEF KeepOrGiveUpBackfill, Trackers, Carries
<1>7. QED BY <1>4, <1>5, <1>6 DEF KeepOrGiveUpBackfill

\* What a visit of m leaves behind was shown.
LeavesShown(m) ==
    /\ Carries(transitions'[m]) /\ Carries(backfill'[m]) /\ Carries(cooldowns'[m])
    /\ UNCHANGED queue \/ QueuesShown(m)

LEMMA VisitShown ==
    ASSUME ShownInv, TypeInv', NEW m \in Matches, NEW in \in {"slate", "vanished", "vanishedBackfill"},
           Visit(m, in), OthersKept(m), LeavesShown(m)
    PROVE  ShownInv'
<1>1. phase # "apply" /\ UNCHANGED <<last, rows>>
  BY DEF Visit
<1>2. queue \in Seq(HydratedSnapshot)
  BY <1>1 DEF ShownInv, TypeInv, TypeOK
<1>3. \A e \in Entries(queue') : Shown(e.snap)
  <2>1. CASE UNCHANGED queue
    BY <2>1 DEF ShownInv
  <2>2. ASSUME NEW e \in HydratedSnapshot, Queues(m, e), Shown(e.snap)
        PROVE  \A d \in Entries(queue') : Shown(d.snap)
    <3>1. Entries(queue') = Entries(queue) \cup {e}
      BY <1>2, <2>2, AppendedEntries DEF Queues
    <3>2. QED BY <2>2, <3>1 DEF ShownInv
  <2>3. QED BY <2>1, <2>2 DEF LeavesShown, QueuesShown
<1>4. ASSUME NEW n \in Matches
      PROVE  /\ Known(last'[n]) /\ Known(rows'[n])
             /\ Carries(transitions'[n]) /\ Carries(backfill'[n]) /\ Carries(cooldowns'[n])
  BY <1>1 DEF ShownInv, OthersKept, LeavesShown
<1>5. QED BY <1>3, <1>4 DEF ShownInv

\* What a cooldown captures was shown.
LEMMA CaptureShown ==
    ASSUME ShownInv, NEW m \in Matches, CoolingDown(m), NEW snap \in Snapshot, Shown(snap),
           cooldowns' = [cooldowns EXCEPT ![m].fallback = AccrueFallback(@, snap)]
    PROVE  Carries(cooldowns'[m])
<1>1. /\ cooldowns \in Cooldowns /\ cooldowns[m] \in Cooldown
      /\ cooldowns[m].fallback \in Snapshot \cup {Null} /\ Known(cooldowns[m].fallback)
  BY DEF ShownInv, TypeInv, TypeOK, Cooldowns, CoolingDown, Cooldown, Carries
<1>2. cooldowns'[m] = [cooldowns[m] EXCEPT !.fallback = AccrueFallback(@, snap)]
  BY <1>1 DEF Cooldowns
<1>3. cooldowns'[m].fallback = AccrueFallback(cooldowns[m].fallback, snap)
  BY <1>1, <1>2 DEF Cooldown
<1>4. QED BY <1>1, <1>3, AccrueShown DEF Carries, Known

\* The visits of the slate.
LEMMA SlateShown ==
    ASSUME ShownInv, TypeInv', NEW m \in Matches, SlateStep(m)
    PROVE  ShownInv'
<1>1. Visit(m, "slate") /\ OthersKept(m)
  BY SlateStepOutcome DEF ShownInv
<1> SUFFICES LeavesShown(m)
  BY <1>1, VisitShown
<1>2. slate[m] \in Snapshot /\ Shown(slate[m])
  <2>1. slate[m] \in Boards
    BY <1>1 DEF Visit, ShownInv, TypeInv, TypeOK, BoardKnown
  <2>2. QED BY <2>1, ObservationsShown
<1>3. \A d \in Details : /\ d \in Snapshot /\ MergeDetail(slate[m], d) \in Snapshot
                         /\ Shown(MergeDetail(slate[m], d))
  BY <1>2, ObservationsShown, MergeDetailType, MergeDetailShown
<1>4. /\ TypeOK
      /\ transitions \in Trackers /\ backfill \in Trackers /\ cooldowns \in Cooldowns
      /\ applyPending \in SUBSET Matches
      /\ Carries(transitions[m]) /\ Carries(backfill[m]) /\ Carries(cooldowns[m])
  BY DEF ShownInv, TypeInv, TypeOK, Trackers, Cooldowns
<1>5. /\ TrackerOf(m) \in Tracker /\ BackfillTrackerOf(m) \in Tracker
      /\ Known(TrackerOf(m).fallback) /\ Known(BackfillTrackerOf(m).fallback)
  BY <1>4, TrackerOfType, TrackersShown
<1>6. /\ Carries(ResetBudget(transitions[m])) /\ Carries(Fetched(transitions[m]))
  <2>1. CASE transitions[m] = Null
    BY <2>1 DEF ResetBudget, Fetched, Carries
  <2>2. CASE transitions[m] # Null
    <3>1. transitions[m] \in Tracker
      BY <1>4, <2>2 DEF Trackers
    <3>2. Fetched(transitions[m]).fallback = transitions[m].fallback
      BY <2>2, <3>1, CountsShown DEF Fetched
    <3>3. ResetBudget(transitions[m]).fallback = transitions[m].fallback
      BY <2>2 DEF ResetBudget, NewTracker
    <3>4. QED BY <1>4, <2>2, <3>2, <3>3 DEF Carries
  <2>3. QED BY <2>1, <2>2
<1>7. ASSUME NEW d \in Details \cup {Null}, LiveBoard(m, d)
      PROVE  LeavesShown(m)
  <2> DEFINE snap == IF d = Null THEN slate[m] ELSE MergeDetail(slate[m], d)
  <2>1. /\ transitions' = [transitions EXCEPT ![m] = ResetBudget(@)]
        /\ UNCHANGED <<backfill, cooldowns>>
        /\ UNCHANGED queue \/ queue' = Append(queue, Hydrated(m, snap, "no"))
    BY <1>7 DEF LiveBoard, Enqueue
  <2>2. snap \in Snapshot /\ Shown(snap)
    BY <1>2, <1>3
  <2> HIDE DEF snap
  <2>3. UNCHANGED queue \/ QueuesShown(m)
    BY <2>1, <2>2, ShownQueued
  <2>4. QED BY <1>4, <1>6, <2>1, <2>3 DEF LeavesShown, Trackers
<1>8. CASE DeferBoard(m)
  BY <1>4, <1>8 DEF DeferBoard, LeavesShown
<1>9. CASE PersistBoard(m)
  <2>1. QueuesShown(m)
    BY <1>2, <1>9, ShownQueued DEF PersistBoard, Enqueue
  <2>2. QED BY <1>4, <1>9, <2>1 DEF PersistBoard, LeavesShown
<1>10. CASE TransitionCapped(m)
  <2>1. transitions[m] \in Tracker /\ Known(transitions[m].fallback) /\ UNCHANGED backfill
    BY <1>4, <1>10 DEF TransitionCapped, Trackers, Carries
  <2>2. CASE CoolingDown(m)
    BY <1>4, <1>10, <2>1, <2>2 DEF TransitionCapped, LeavesShown
  <2>3. CASE ~CoolingDown(m)
    <3>1. EmitGiveUp(m, transitions[m], slate[m])
      BY <1>10, <2>3 DEF TransitionCapped
    <3>2. QED BY <1>2, <1>4, <2>1, <3>1, KeepOrGiveUpShown DEF LeavesShown, Known
  <2>4. QED BY <2>2, <2>3
<1>11. CASE TransitionFetchFailed(m)
  <2>1. UNCHANGED backfill
    BY <1>11 DEF TransitionFetchFailed
  <2>2. CASE CoolingDown(m)
    <3>1. /\ cooldowns' = [cooldowns EXCEPT ![m].fallback = AccrueFallback(@, slate[m])]
          /\ UNCHANGED <<transitions, queue>>
      BY <1>11, <2>2 DEF TransitionFetchFailed
    <3>2. QED BY <1>2, <1>4, <2>1, <2>2, <3>1, CaptureShown DEF LeavesShown
  <2>3. CASE ~CoolingDown(m)
    <3>1. /\ Observed(TrackerOf(m), slate[m]) \in Tracker
          /\ Known(Observed(TrackerOf(m), slate[m]).fallback)
      BY <1>2, <1>5, ObservedShown
    <3>2. PICK t \in Tracker : t = FailedFetch(Observed(TrackerOf(m), slate[m]))
      BY <3>1, TrackerUpdates
    <3>3. Known(t.fallback)
      BY <3>1, <3>2, CountsShown
    <3>4. KeepOrGiveUp(m, t, slate[m])
      BY <1>11, <2>3, <3>2 DEF TransitionFetchFailed
    <3>5. QED BY <1>2, <1>4, <2>1, <3>3, <3>4, KeepOrGiveUpShown DEF LeavesShown, Known
  <2>4. QED BY <2>2, <2>3
<1>12. ASSUME NEW d \in Details, TransitionFinal(m, d)
       PROVE  LeavesShown(m)
  <2>1. /\ transitions' = [transitions EXCEPT ![m] = Fetched(@)]
        /\ queue' = Append(queue, Hydrated(m, MergeDetail(slate[m], d), "no"))
        /\ UNCHANGED <<backfill, cooldowns>>
    BY <1>12 DEF TransitionFinal, Enqueue
  <2>2. QueuesShown(m)
    BY <1>3, <2>1, ShownQueued
  <2>3. QED BY <1>4, <1>6, <2>1, <2>2 DEF LeavesShown, Trackers
<1>13. ASSUME NEW d \in Details, TransitionCooling(m, d)
       PROVE  LeavesShown(m)
  <2> DEFINE merged == MergeDetail(slate[m], d)
  <2>1. /\ CoolingDown(m)
        /\ transitions' = [transitions EXCEPT ![m] = Fetched(@)]
        /\ cooldowns' = [cooldowns EXCEPT ![m].fallback = AccrueFallback(@, merged)]
        /\ UNCHANGED queue \/ queue' = Append(queue, Hydrated(m, merged, "no"))
        /\ UNCHANGED backfill
    BY <1>13 DEF TransitionCooling, Enqueue
  <2>2. merged \in Snapshot /\ Shown(merged)
    BY <1>3
  <2> HIDE DEF merged
  <2>3. UNCHANGED queue \/ QueuesShown(m)
    BY <2>1, <2>2, ShownQueued
  <2>4. Carries(cooldowns'[m])
    BY <2>1, <2>2, CaptureShown
  <2>5. QED BY <1>4, <1>6, <2>1, <2>3, <2>4 DEF LeavesShown, Trackers
<1>14. ASSUME NEW d \in Details, TransitionNotFinal(m, d)
       PROVE  LeavesShown(m)
  <2> DEFINE merged == MergeDetail(slate[m], d)
             fetched == [TrackerOf(m) EXCEPT !.failures = 0]
             seen == Observed(fetched, merged)
             t == [seen EXCEPT !.attempts = @ + 1]
  <2>1. merged \in Snapshot /\ Shown(merged)
    BY <1>3
  <2>2. fetched \in Tracker /\ Known(fetched.fallback)
    BY <1>5, TrackerUpdates, CountsShown
  <2> HIDE DEF merged, fetched
  <2>3. seen \in Tracker /\ Known(seen.fallback)
    BY <2>1, <2>2, ObservedShown
  <2> HIDE DEF seen
  <2>4. t \in Tracker /\ Known(t.fallback)
    BY <2>3, TrackerUpdates, CountsShown
  <2> HIDE DEF t
  <2>5. /\ IF AtCap(t) \/ ~Live(merged) THEN KeepOrGiveUp(m, t, merged)
           ELSE /\ transitions' = [transitions EXCEPT ![m] = t]
                /\ Enqueue(m, merged)
                /\ UNCHANGED cooldowns
        /\ UNCHANGED backfill
    BY <1>14 DEF TransitionNotFinal, merged, fetched, seen, t
  <2>6. CASE AtCap(t) \/ ~Live(merged)
    BY <1>4, <2>1, <2>4, <2>5, <2>6, KeepOrGiveUpShown DEF LeavesShown, Known
  <2>7. CASE ~(AtCap(t) \/ ~Live(merged))
    <3>1. QueuesShown(m)
      BY <2>1, <2>5, <2>7, ShownQueued DEF Enqueue
    <3>2. QED BY <1>4, <2>4, <2>5, <2>7, <3>1 DEF LeavesShown, Carries, Trackers
  <2>8. QED BY <2>6, <2>7
<1>15. CASE BackfillCapped(m)
  <2>1. /\ UNCHANGED transitions /\ backfill[m] \in Tracker /\ Known(backfill[m].fallback)
        /\ EmitBackfillGiveUp(m, backfill[m], slate[m], applyPending)
    BY <1>4, <1>15 DEF BackfillCapped, VisitBackfill, Trackers, Carries
  <2>2. QED BY <1>2, <1>4, <2>1, KeepOrGiveUpBackfillShown DEF LeavesShown, Known
<1>16. CASE BackfillDeferred(m)
  <2>1. Known(Observed(BackfillTrackerOf(m), slate[m]).fallback)
    BY <1>2, <1>5, ObservedShown
  <2>2. /\ UNCHANGED <<transitions, cooldowns, queue>>
        /\ backfill' = [backfill EXCEPT ![m] = IF @ # Null THEN @
                                               ELSE Observed(BackfillTrackerOf(m), slate[m])]
    BY <1>16 DEF BackfillDeferred, VisitBackfill
  <2>3. Carries(backfill'[m])
    BY <1>4, <2>1, <2>2 DEF Carries, Trackers
  <2>4. QED BY <1>4, <2>2, <2>3 DEF LeavesShown
<1>17. CASE BackfillFetchFailed(m)
  <2>1. PICK t \in Tracker : t = BackfillFailure(m, slate[m]) /\ Known(t.fallback)
    BY <1>2, BackfillFailureShown
  <2>2. /\ UNCHANGED transitions
        /\ KeepOrGiveUpBackfill(m, t, slate[m], applyPending)
    BY <1>17, <2>1 DEF BackfillFetchFailed, VisitBackfill
  <2>3. QED BY <1>2, <1>4, <2>1, <2>2, KeepOrGiveUpBackfillShown DEF LeavesShown, Known
<1>18. ASSUME NEW d \in Details, BackfillFetched(m, d)
       PROVE  LeavesShown(m)
  <2> DEFINE merged == MergeDetail(slate[m], d)
  <2>1. merged \in Snapshot /\ Shown(merged)
    BY <1>3
  <2> HIDE DEF merged
  <2>2. PICK t \in Tracker : t = BackfillFailure(m, merged) /\ Known(t.fallback)
    BY <2>1, BackfillFailureShown
  <2>3. /\ UNCHANGED transitions
        /\ IF Live(merged) \/ Terminal(merged)
           THEN /\ Enqueue(m, merged)
                /\ applyPending' = applyPending \cup {m}
                /\ UNCHANGED <<backfill, cooldowns>>
           ELSE KeepOrGiveUpBackfill(m, t, merged, applyPending \cup {m})
    BY <1>18, <2>2 DEF BackfillFetched, VisitBackfill, merged
  <2>4. CASE Live(merged) \/ Terminal(merged)
    <3>1. QueuesShown(m)
      BY <2>1, <2>3, <2>4, ShownQueued DEF Enqueue
    <3>2. QED BY <1>4, <2>3, <2>4, <3>1 DEF LeavesShown
  <2>5. CASE ~(Live(merged) \/ Terminal(merged))
    <3>1. applyPending \cup {m} \in SUBSET Matches
      BY <1>4
    <3>2. QED BY <1>4, <2>1, <2>2, <2>3, <2>5, <3>1, KeepOrGiveUpBackfillShown DEF LeavesShown, Known
  <2>6. QED BY <2>4, <2>5
<1>19. QED
  BY <1>7, <1>8, <1>9, <1>10, <1>11, <1>12, <1>13, <1>14, <1>15, <1>16, <1>17, <1>18 DEF SlateStep

\* The visits off the slate.
LEMMA VanishedShown ==
    ASSUME ShownInv, TypeInv', NEW m \in Matches, VanishedStep(m)
    PROVE  ShownInv'
<1>1. /\ TypeOK
      /\ transitions \in Trackers /\ backfill \in Trackers /\ cooldowns \in Cooldowns
      /\ applyPending \in SUBSET Matches
      /\ Carries(transitions[m]) /\ Carries(backfill[m]) /\ Carries(cooldowns[m])
  BY DEF ShownInv, TypeInv, TypeOK, Trackers, Cooldowns
<1>2. \A d \in Details : d \in Snapshot /\ Shown(d)
  BY ObservationsShown
<1>3. CASE \/ VanishedCapped(m) \/ VanishedFetchFailed(m)
           \/ \E d \in Details : VanishedFetched(m, d)
  <2>1. Visit(m, "vanished") /\ OthersKept(m) /\ UNCHANGED backfill
    BY <1>3, VanishedOutcome DEF ShownInv
  <2> SUFFICES LeavesShown(m)
    BY <2>1, VisitShown
  <2>2. TrackerOf(m) \in Tracker /\ Known(TrackerOf(m).fallback)
    BY <1>1, TrackerOfType, TrackersShown
  <2>3. ASSUME NEW t \in Tracker, Known(t.fallback), NEW fresh \in Snapshot \cup {Null}, Known(fresh),
               EmitGiveUp(m, t, fresh) \/ KeepOrGiveUp(m, t, fresh)
        PROVE  LeavesShown(m)
    BY <1>1, <2>1, <2>3, KeepOrGiveUpShown DEF LeavesShown
  <2>4. CASE VanishedCapped(m)
    BY <2>2, <2>3, <2>4 DEF VanishedCapped, Known
  <2>5. CASE VanishedFetchFailed(m)
    <3>1. FailedFetch(TrackerOf(m)) \in Tracker /\ Known(FailedFetch(TrackerOf(m)).fallback)
      BY <2>2, TrackerUpdates, CountsShown
    <3>2. QED BY <2>3, <2>5, <3>1 DEF VanishedFetchFailed, Known
  <2>6. ASSUME NEW d \in Details, VanishedFetched(m, d)
        PROVE  LeavesShown(m)
    <3> DEFINE t == [TrackerOf(m) EXCEPT !.failures = 0]
               counted == [t EXCEPT !.attempts = @ + 1]
               base == FirstKnown(last[m], t.fallback, rows[m])
               merged == OverTransitionBase(m, t, d)
    <3>1. d \in Snapshot /\ Shown(d)
      BY <1>2
    <3>2. t \in Tracker /\ Known(t.fallback)
      BY <2>2, TrackerUpdates, CountsShown
    <3>3. t.fallback \in Snapshot \cup {Null}
      BY <3>2 DEF Tracker
    <3> HIDE DEF t
    <3>4. counted \in Tracker /\ Known(counted.fallback)
      BY <3>2, TrackerUpdates, CountsShown
    <3>5. base \in Snapshot \cup {Null} /\ Known(base)
      BY <1>1, <3>2, <3>3 DEF FirstKnown, Prefer, ShownInv, TypeOK
    <3>6. merged = IF base = Null THEN d ELSE MergeOverBase(base, d)
      BY DEF OverTransitionBase
    <3> HIDE DEF base, merged, counted
    <3>7. merged \in Snapshot /\ Shown(merged)
      BY <3>1, <3>5, <3>6, MergeOverBaseType, MergeOverBaseShown DEF Known
    <3>8. IF Terminal(d) \/ (Live(d) /\ ~AtCap(counted))
          THEN /\ transitions' = [transitions EXCEPT ![m] = IF Terminal(d) THEN t ELSE counted]
               /\ Enqueue(m, merged)
               /\ UNCHANGED cooldowns
          ELSE KeepOrGiveUp(m, counted, IF Live(d) THEN merged ELSE Null)
      BY <2>6 DEF VanishedFetched, t, counted, merged
    <3>9. CASE Terminal(d) \/ (Live(d) /\ ~AtCap(counted))
      <4>1. QueuesShown(m)
        BY <3>7, <3>8, <3>9, ShownQueued DEF Enqueue
      <4>2. Carries(transitions'[m])
        BY <1>1, <3>2, <3>4, <3>8, <3>9 DEF Carries, Trackers
      <4>3. QED BY <1>1, <2>1, <3>8, <3>9, <4>1, <4>2 DEF LeavesShown
    <3>10. CASE ~(Terminal(d) \/ (Live(d) /\ ~AtCap(counted)))
      <4>1. PICK fresh \in Snapshot \cup {Null} : fresh = IF Live(d) THEN merged ELSE Null
        BY <3>7
      <4>2. Known(fresh) /\ KeepOrGiveUp(m, counted, fresh)
        BY <3>7, <3>8, <3>10, <4>1 DEF Known
      <4>3. QED BY <2>3, <3>4, <4>2
    <3>11. QED BY <3>9, <3>10
  <2>7. QED BY <1>3, <2>4, <2>5, <2>6
<1>4. CASE \/ VanishedBackfillCapped(m) \/ VanishedBackfillDeferred(m) \/ VanishedBackfillFailed(m)
           \/ \E d \in Details : VanishedBackfillFetched(m, d)
  <2>1. Visit(m, "vanishedBackfill") /\ OthersKept(m) /\ UNCHANGED transitions
    BY <1>4, VanishedBackfillOutcome DEF ShownInv
  <2> SUFFICES LeavesShown(m)
    BY <2>1, VisitShown
  <2>2. backfill[m] \in Tracker /\ Known(backfill[m].fallback)
    BY <1>1, <2>1 DEF Visit, ShownInv, TypeInv, BackfillKnown, Trackers, Carries
  <2>3. ASSUME NEW t \in Tracker, Known(t.fallback), NEW fresh \in Snapshot \cup {Null}, Known(fresh),
               NEW pending \in {applyPending, applyPending \cup {m}},
               EmitBackfillGiveUp(m, t, fresh, pending) \/ KeepOrGiveUpBackfill(m, t, fresh, pending)
        PROVE  LeavesShown(m)
    <3>1. pending \in SUBSET Matches
      BY <1>1
    <3>2. QED BY <1>1, <2>1, <2>3, <3>1, KeepOrGiveUpBackfillShown DEF LeavesShown
  <2>4. CASE VanishedBackfillCapped(m)
    BY <2>2, <2>3, <2>4 DEF VanishedBackfillCapped, Known
  <2>5. CASE VanishedBackfillDeferred(m)
    BY <1>1, <2>1, <2>5 DEF VanishedBackfillDeferred, LeavesShown
  <2>6. CASE VanishedBackfillFailed(m)
    <3>1. PICK t \in Tracker : t = [backfill[m] EXCEPT !.failures = @ + 1] /\ Known(t.fallback)
      BY <2>2, TrackerUpdates, CountsShown
    <3>2. KeepOrGiveUpBackfill(m, t, Null, applyPending)
      BY <2>6, <3>1 DEF VanishedBackfillFailed
    <3>3. QED BY <2>3, <3>1, <3>2 DEF Known
  <2>7. ASSUME NEW d \in Details, VanishedBackfillFetched(m, d)
        PROVE  LeavesShown(m)
    <3> DEFINE base == backfill[m].fallback
               merged == IF base = Null THEN d ELSE MergeOverBase(base, d)
    <3>1. base \in Snapshot \cup {Null} /\ Known(base) /\ d \in Snapshot /\ Shown(d)
      BY <1>2, <2>2 DEF Tracker
    <3> HIDE DEF base
    <3>2. merged \in Snapshot /\ Shown(merged)
      BY <3>1, MergeOverBaseType, MergeOverBaseShown DEF Known
    <3> HIDE DEF merged
    <3>3. PICK t \in Tracker : t = BackfillFailure(m, merged) /\ Known(t.fallback)
      BY <3>2, BackfillFailureShown
    <3>4. IF Live(merged) \/ Terminal(merged)
          THEN /\ Enqueue(m, merged)
               /\ applyPending' = applyPending \cup {m}
               /\ UNCHANGED <<backfill, cooldowns>>
          ELSE KeepOrGiveUpBackfill(m, t, merged, applyPending \cup {m})
      BY <2>7, <3>3 DEF VanishedBackfillFetched, base, merged
    <3>5. CASE Live(merged) \/ Terminal(merged)
      <4>1. QueuesShown(m)
        BY <3>2, <3>4, <3>5, ShownQueued DEF Enqueue
      <4>2. QED BY <1>1, <2>1, <3>4, <3>5, <4>1 DEF LeavesShown
    <3>6. CASE ~(Live(merged) \/ Terminal(merged))
      BY <2>3, <3>2, <3>3, <3>4, <3>6 DEF Known
    <3>7. QED BY <3>5, <3>6
  <2>8. QED BY <1>4, <2>4, <2>5, <2>6, <2>7
<1>5. QED BY <1>3, <1>4 DEF VanishedStep

\* The start of a poll: a new tracker inherits what its cooldown captured.
LEMMA StartPollShown ==
    ASSUME ShownInv, TypeInv', NEW board \in [Matches -> Boards \cup {Null}], StartPoll(board)
    PROVE  ShownInv'
<1>1. /\ UNCHANGED <<last, queue, rows>>
      /\ transitions' = Seed(transitions, IF scanned THEN {} ELSE RestartLive(board))
      /\ backfill' = Seed(backfill, IF scanned THEN {} ELSE RestartBackfill(board))
      /\ cooldowns' = [m \in Matches |-> Aged(board, m)]
  BY DEF StartPoll
<1>2. ASSUME NEW m \in Matches
      PROVE  Carries(transitions'[m]) /\ Carries(backfill'[m]) /\ Carries(cooldowns'[m])
  <2>1. Carries(NewTracker(CarriedFallback(m)))
    BY TrackersShown DEF Carries, NewTracker
  <2>2. /\ transitions'[m] \in {transitions[m], NewTracker(CarriedFallback(m))}
        /\ backfill'[m] \in {backfill[m], NewTracker(CarriedFallback(m))}
    BY <1>1 DEF Seed
  <2>3. Carries(Aged(board, m))
    <3>1. cooldowns[m] \in Cooldown \cup {Null}
      BY DEF ShownInv, TypeInv, TypeOK
    <3>2. Aged(board, m) = Null \/ (cooldowns[m] # Null /\ Aged(board, m).fallback = cooldowns[m].fallback)
      BY <3>1 DEF Aged, Cooldown
    <3>3. QED BY <3>2 DEF ShownInv, Carries
  <2>4. QED BY <1>1, <2>1, <2>2, <2>3 DEF ShownInv
<1>3. QED BY <1>1, <1>2 DEF ShownInv

\* Without a row that lists its sides the other way round, a row has the scores of the
\* snapshot written to it.
LEMMA SeededShown ==
    ASSUME NoneTurned, ShownInv, phase = "apply", queue # <<>>, SeedRow(Head(queue)),
           NEW n \in Matches
    PROVE  Known(rows'[n])
<1>1. /\ Head(queue).match \in Matches /\ queue \in Seq(Diff) /\ TypeInv
  BY HeadType DEF ShownInv, TypeInv, TypeOK
<1>2. PICK m \in Matches : m = Head(queue).match
  BY <1>1
<1>3. /\ rows'[m].score = AsStored(m, Head(queue).snap).score
      /\ \A x \in Matches \ {m} : rows'[x] = rows[x]
  BY <1>1, <1>2, SeedRowEffect
<1>4. rows'[m].score = Head(queue).snap.score
  BY <1>3 DEF NoneTurned, AsStored
<1>5. Shown(Head(queue).snap)
  <2>1. Head(queue) \in Entries(queue)
    BY <1>1, TailEntries
  <2>2. QED BY <2>1 DEF ShownInv
<1>6. QED BY <1>3, <1>4, <1>5 DEF ShownInv, Known, Shown

\* Dealing with an entry of the queue.
LEMMA ApplyShown ==
    ASSUME NoneTurned, ShownInv, TypeInv', Unchanged \/ Applied \/ ApplyFailed
    PROVE  ShownInv'
<1>1. ApplyNext
  BY DEF Unchanged, Applied, ApplyFailed, NotSeeded, EventsRejected, SideTablesFailed
<1>2. /\ phase = "apply" /\ queue # <<>> /\ Head(queue) \in Entries(queue)
      /\ Head(queue).match \in Matches /\ Head(queue).snap \in Snapshot
      /\ Entries(queue) = {Head(queue)} \cup Entries(queue')
  BY <1>1, ApplyEntries DEF ShownInv, ApplyNext
<1>3. PICK m \in Matches : m = Head(queue).match
  BY <1>2
<1>4. /\ Shown(Head(queue).snap) /\ \A e \in Entries(queue') : Shown(e.snap)
  BY <1>2 DEF ShownInv
<1>5. ASSUME NEW n \in Matches
      PROVE  Known(rows'[n])
  <2>1. UNCHANGED rows \/ SeedRow(Head(queue))
    BY DEF Unchanged, Applied, ApplyFailed, NotSeeded, EventsRejected, SideTablesFailed, stored
  <2>2. QED BY <1>2, <2>1, SeededShown DEF ShownInv
<1>6. ASSUME NEW snap, NEW advanced \in BOOLEAN, OnDurableSnapshot(m, snap, advanced), NEW n \in Matches
      PROVE  Carries(transitions'[n]) /\ Carries(backfill'[n]) /\ Carries(cooldowns'[n])
  <2>1. TypeOK /\ cooldowns \in Cooldowns
    BY DEF ShownInv, TypeInv, TypeOK, Cooldowns
  <2>2. /\ n # m => /\ transitions'[n] = transitions[n]
                    /\ backfill'[n] = backfill[n] /\ cooldowns'[n] = cooldowns[n]
        /\ backfill'[m] = Null
        /\ transitions'[m] \in {transitions[m], Null}
    BY <1>6, <2>1, DurableOutcome
  <2>3. Carries(cooldowns'[m])
    <3> DEFINE cooldown == IF backfill[m] # Null THEN Null ELSE cooldowns[m]
    <3>1. cooldown \in Cooldown \cup {Null} /\ Carries(cooldown)
      BY <2>1 DEF Cooldowns, ShownInv, Carries
    <3>2. cooldowns'[m] \in {Null, ClearedGate(cooldown, snap), cooldown}
      BY <1>6, <2>1 DEF OnDurableSnapshot, Cooldowns
    <3> HIDE DEF cooldown
    <3>3. ASSUME cooldown # Null
          PROVE  ClearedGate(cooldown, snap).fallback \in {cooldown.fallback, Null}
      BY <3>1, <3>3 DEF ClearedGate, Cooldown
    <3>4. Carries(ClearedGate(cooldown, snap))
      <4>1. CASE cooldown = Null
        BY <4>1 DEF ClearedGate, Carries
      <4>2. CASE cooldown # Null
        BY <3>1, <3>3, <4>2 DEF Carries, Known
      <4>3. QED BY <4>1, <4>2
    <3>5. QED BY <3>1, <3>2, <3>4 DEF Carries
  <2>4. QED BY <2>2, <2>3 DEF ShownInv, Carries
<1>7. CASE Unchanged
  <2>1. UNCHANGED last /\ OnDurableSnapshot(m, Head(queue).snap, FALSE)
    BY <1>3, <1>7 DEF Unchanged
  <2>2. QED BY <1>4, <1>5, <1>6, <2>1 DEF ShownInv
<1>8. CASE Applied
  <2>1. PICK baseline \in Snapshot :
              /\ baseline.score = Head(queue).snap.score
              /\ last'[m] = baseline /\ OnDurableSnapshot(m, baseline, TRUE)
              /\ \A n \in Matches \ {m} : last'[n] = last[n]
    BY <1>3, <1>8, AppliedEffect DEF ShownInv
  <2>2. \A n \in Matches : Known(last'[n])
    BY <1>4, <2>1 DEF ShownInv, Known, Shown
  <2>3. QED BY <1>4, <1>5, <1>6, <2>1, <2>2 DEF ShownInv
<1>9. CASE ApplyFailed
  <2>1. /\ UNCHANGED <<last, transitions, cooldowns>>
        /\ \A n \in Matches \ {m} : backfill'[n] = backfill[n]
        /\ m \notin applyPending => backfill'[m] = backfill[m]
    BY <1>3, <1>9, ApplyFailedEffect DEF ShownInv
  <2>2. m \in applyPending => backfill'[m] = BackfillFailure(m, Head(queue).snap)
    <3>1. NotApplied(Head(queue)) /\ backfill \in Trackers
      BY <1>9 DEF ApplyFailed, NotSeeded, EventsRejected, SideTablesFailed, ShownInv, TypeInv, TypeOK,
                  Trackers
    <3>2. QED BY <1>3, <3>1 DEF NotApplied, Trackers
  <2>3. Carries(backfill'[m])
    <3>1. PICK snap \in Snapshot : snap = Head(queue).snap
      BY <1>2
    <3>2. Carries(BackfillFailure(m, snap))
      BY <1>4, <3>1, BackfillFailureShown DEF Carries
    <3>3. Carries(backfill[m])
      BY DEF ShownInv
    <3>4. CASE m \in applyPending
      BY <2>2, <3>1, <3>2, <3>4
    <3>5. CASE m \notin applyPending
      <4>1. backfill'[m] = backfill[m]
        BY <2>1, <3>5
      <4>2. QED BY <3>3, <4>1 DEF Carries
    <3>6. QED BY <3>4, <3>5
  <2>4. ASSUME NEW n \in Matches
        PROVE  /\ Known(last'[n]) /\ Carries(transitions'[n]) /\ Carries(backfill'[n])
               /\ Carries(cooldowns'[n])
    <3>1. /\ Known(last[n]) /\ Carries(transitions[n]) /\ Carries(backfill[n]) /\ Carries(cooldowns[n])
      BY DEF ShownInv
    <3>2. CASE n = m
      BY <2>1, <2>3, <3>1, <3>2
    <3>3. CASE n # m
      <4>1. /\ last'[n] = last[n] /\ transitions'[n] = transitions[n]
            /\ backfill'[n] = backfill[n] /\ cooldowns'[n] = cooldowns[n]
        BY <2>1, <3>3
      <4>2. QED BY <3>1, <4>1 DEF Carries, Known
    <3>4. QED BY <3>2, <3>3
  <2>5. QED BY <1>4, <1>5, <2>4 DEF ShownInv
<1>10. QED BY <1>7, <1>8, <1>9

\* Every score that is remembered, queued or stored was shown: an inductive invariant.
LEMMA ShownInductive ==
    ASSUME NoneTurned
    PROVE  /\ Init => ShownInv
           /\ ShownInv /\ [Next]_vars => ShownInv'
<1>1. ASSUME Init PROVE ShownInv
  <2>1. TypeInv
    BY <1>1, TypeInvInit
  <2>2. Entries(queue) = {}
    BY <1>1 DEF Init, Entries
  <2>3. QED BY <1>1, <2>1, <2>2 DEF Init, ShownInv, Known, Carries
<1>2. ASSUME ShownInv, [Next]_vars PROVE ShownInv'
  <2>1. TypeInv'
    BY <1>2, TypeInvStep DEF ShownInv
  <2>2. CASE NewPoll
    BY <1>2, <2>1, <2>2, StartPollShown DEF NewPoll
  <2>3. ASSUME NEW m \in Matches, SlateStep(m)
        PROVE  ShownInv'
    BY <1>2, <2>1, <2>3, SlateShown
  <2>4. ASSUME NEW m \in Matches, VanishedStep(m)
        PROVE  ShownInv'
    BY <1>2, <2>1, <2>4, VanishedShown
  <2>5. CASE SlateDone \/ VanishedDone \/ VanishedBackfillDone \/ PollDone
    <3>1. /\ UNCHANGED <<last, transitions, backfill, cooldowns, rows>>
          /\ queue' = queue \/ queue' = Diffs
      BY <2>5 DEF SlateDone, VanishedDone, VanishedBackfillDone, PollDone, BeginApply, memory, stored
    <3>2. \A e \in Entries(queue') : Shown(e.snap)
      BY <1>2, <3>1, DiffsEntries DEF ShownInv
    <3>3. ASSUME NEW m \in Matches
          PROVE  /\ Known(last'[m]) /\ Known(rows'[m]) /\ Carries(transitions'[m])
                 /\ Carries(backfill'[m]) /\ Carries(cooldowns'[m])
      <4>1. /\ Known(last[m]) /\ Known(rows[m]) /\ Carries(transitions[m])
            /\ Carries(backfill[m]) /\ Carries(cooldowns[m])
        BY <1>2 DEF ShownInv
      <4>2. QED BY <3>1, <4>1 DEF Carries, Known
    <3>4. QED BY <2>1, <3>2, <3>3 DEF ShownInv
  <2>6. CASE Unchanged \/ Applied \/ ApplyFailed
    BY <1>2, <2>1, <2>6, ApplyShown
  <2>7. CASE Crash
    <3>1. /\ \A m \in Matches : /\ last'[m] = Null /\ transitions'[m] = Null
                                /\ backfill'[m] = Null /\ cooldowns'[m] = Null
          /\ queue' = <<>>
          /\ UNCHANGED rows \/ (phase = "apply" /\ queue # <<>> /\ SeedRow(Head(queue)))
      BY <2>7 DEF Crash, Forget, CutShortApply, stored
    <3>2. Entries(queue') = {}
      BY <3>1 DEF Entries
    <3>3. \A m \in Matches : Known(rows'[m])
      BY <1>2, <3>1, SeededShown DEF ShownInv
    <3>4. QED BY <2>1, <3>1, <3>2, <3>3 DEF ShownInv, Known, Carries
  <2>8. CASE SlateUnavailable \/ UNCHANGED vars
    BY <1>2, <2>1, <2>8 DEF SlateUnavailable, poll, stored, vars, ShownInv
  <2>9. QED BY <1>2, <2>2, <2>3, <2>4, <2>5, <2>6, <2>7, <2>8 DEF Next, SmoothStep
<1>3. QED BY <1>1, <1>2

\* No score is made up (_build_give_up_snapshot, accrue_fallback, _merge_match_detail):
\* whatever is merged with whatever and however often the daemon crashes, each score of
\* a stored row was shown by the provider for that side, unless a row lists its sides
\* the other way round.
THEOREM ScoreShownAlways == NoneTurned => (Spec => []ScoreShown)
<1> SUFFICES ASSUME NoneTurned
             PROVE  Spec => []ScoreShown
  OBVIOUS
<1>1. ShownInv => ScoreShown
  <2> SUFFICES ASSUME ShownInv, NEW m \in Matches, NEW s \in Sides, rows[m] # Null
               PROVE  rows[m].score[s] \in {AsStored(m, o).score[s] : o \in Boards \cup Details}
                                           \cup {Null}
    BY DEF ScoreShown
  <2>1. \A o \in Boards \cup Details : AsStored(m, o) = o
    BY DEF NoneTurned, AsStored
  <2>2. rows[m].score[s] \in ShownScores(s)
    BY DEF ShownInv, Known, Shown
  <2>3. QED BY <2>1, <2>2 DEF ShownScores
<1>2. QED BY <1>1, ShownInductive, PTL DEF Spec

-----------------------------------------------------------------------------
(* EngineLive is Engine with calmer surroundings.                          *)

\* However the surroundings settle, a daemon of EngineLive (whose run() goes on
\* polling) does nothing Engine does not describe: what holds of Engine holds of it.
THEOREM LiveRefinesEngine == LiveSpec => Spec
<1>1. LiveInit => Init
  BY DEF LiveInit
<1>2. [LiveNext]_allVars => [Next]_vars
  <2>1. ASSUME Settle \/ UNCHANGED allVars
        PROVE  UNCHANGED vars
    BY <2>1 DEF Settle, allVars
  <2>2. ASSUME SettledPoll
        PROVE  NewPoll
    <3>1. PICK board \in [Matches -> {b \in Boards : ~Live(b)} \cup {Null}] : StartPoll(board)
      BY <2>2 DEF SettledPoll
    <3>2. board \in [Matches -> Boards \cup {Null}]
      OBVIOUS
    <3>3. QED BY <3>1, <3>2 DEF NewPoll
  <2>3. QED BY <2>1, <2>2 DEF LiveNext, Unsettled, SettledStep, Next
<1>3. QED BY <1>1, <1>2, PTL DEF LiveSpec, Spec
================================================================================
