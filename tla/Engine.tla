-------------------------------- MODULE Engine --------------------------------
(***************************************************************************)
(* The poll loop of one daemon: CollectorEngine in                         *)
(* src/gamecollect/engine.py, with the rows it stores.                     *)
(*                                                                         *)
(* A poll (poll_once) runs through the phases                              *)
(*    slate             the scoreboard's matches, hydrated one by one      *)
(*    vanished          tracked matches that left the scoreboard           *)
(*    vanishedBackfill  pending backfills that left the scoreboard         *)
(*    apply             the hydrated snapshots, diffed and written         *)
(* and is idle in between.  Each match handled in a phase is one action;   *)
(* the engine is single-threaded, and only a crash can come between.  A    *)
(* detail fetch that fails returns Null.                                   *)
(*                                                                         *)
(* Abstracted: the pack.  Its seed_match writes the snapshot's state under *)
(* one row per match: default_seed_match, or football's reconciliation,    *)
(* where the schedule's row may list the two sides the other way round     *)
(* than the provider.  Whether the hooks succeed is one of PackOutcomes.   *)
(* State kept for log lines only (_logged_drift, drift_logged,             *)
(* last_reported_status) is left out.                                      *)
(***************************************************************************)
EXTENDS Snapshots, Sequences

CONSTANTS
    Matches,                 \* provider match ids
    Boards,                  \* the scoreboard snapshots the provider sends
    Details,                 \* the detail snapshots the provider sends
    PackOutcomes,            \* how the pack's hooks may end
    Schedule,                \* Schedule[m]: the names in the schedule's row of m, or Null
    Reversed,                \* Reversed[m]: the names that list them the other way round
    Opposite,                \* Opposite[s]: the other side
    BackfillEnabled,         \* _backfill_finished_matches
    MaxDetailFailures,       \* _MAX_TRANSITION_DETAIL_FAILURES
    MaxTotalAttempts,        \* _MAX_TRANSITION_TOTAL_ATTEMPTS
    MaxGiveUpEmissions,      \* _MAX_GIVE_UP_EMISSIONS
    BackfillMaxAttempts,     \* _BACKFILL_MAX_ATTEMPTS
    BackfillMaxFetches,      \* _BACKFILL_MAX_FETCHES_PER_POLL
    CooldownBase,            \* _COOLDOWN_BASE_POLLS
    CooldownMax,             \* _COOLDOWN_MAX_POLLS
    MaxEpoch                 \* bound: the epoch from which cooldowns grow no longer

\* notSeeded: seed_match returns None or is refused, nothing is written.
\* rejected: the row is seeded, the writer refuses the events (TaxonomyError).
\* sideFailed: row and events are written, persist_side_tables raises.
AllPackOutcomes == {"ok", "notSeeded", "rejected", "sideFailed"}

ASSUME EngineAssumption ==
    /\ Boards \subseteq Snapshot
    /\ Details \subseteq Snapshot
    /\ PackOutcomes \subseteq AllPackOutcomes
    /\ Schedule \in [Matches -> Infos \cup {Null}]
    /\ Reversed \in [Matches -> SUBSET Infos]
    /\ Opposite \in [Sides -> Sides]
    /\ BackfillEnabled \in BOOLEAN
    /\ \A n \in {MaxDetailFailures, MaxTotalAttempts, MaxGiveUpEmissions, BackfillMaxAttempts,
                 BackfillMaxFetches, CooldownBase, CooldownMax, MaxEpoch} : n \in Nat \ {0}
    /\ CooldownBase * 2^(MaxEpoch - 1) >= CooldownMax

\* A fact of arithmetic that the proofs use: the provers know no exponentiation.
ASSUME PowerAssumption == \A epoch \in 1 .. MaxEpoch : 2^(epoch - 1) \in Nat \ {0}

VARIABLES
    last,             \* _last: the diff baselines
    transitions,      \* _transitions: trackers of matches that stopped being live
    backfill,         \* _backfill: trackers of matches first seen finished
    cooldowns,        \* _cooldowns: abandoned matches
    applyPending,     \* _backfill_apply_pending
    scanned,          \* _restart_scan_done
    phase,            \* where the poll is
    slate,            \* the scoreboard: slate[m] is a board, or Null when absent
    todo,             \* the matches the phase has still to handle
    fetches,          \* backfill_fetches_this_poll, plus fetches_this_pass
    liveResumptions,  \* live_resumptions
    queue,            \* the hydrated snapshots; in the apply phase, the diffs
    rows,             \* rows[m]: the stored matches row, or Null
    log               \* log[m]: the stored events of the match

memory == <<last, transitions, backfill, cooldowns, applyPending, scanned>>
poll == <<phase, slate, todo, fetches, liveResumptions, queue>>
stored == <<rows, log>>
vars == <<last, transitions, backfill, cooldowns, applyPending, scanned,
          phase, slate, todo, fetches, liveResumptions, queue, rows, log>>

-----------------------------------------------------------------------------
(* Trackers and cooldowns.                                                 *)

Tracker == [fallback : Snapshot \cup {Null}, failures : Nat, attempts : Nat,
            pending : BOOLEAN, emissions : Nat]

Cooldown == [remaining : Nat, epoch : 1 .. MaxEpoch, unseen : Nat, fallback : Snapshot \cup {Null},
             backfillOrigin : BOOLEAN]

\* None is neither.
ASSUME NoneAssumption == Null \notin Tracker \cup Cooldown

NewTracker(fallback) ==
    [fallback |-> fallback, failures |-> 0, attempts |-> 0, pending |-> FALSE, emissions |-> 0]

\* What a new tracker inherits from the match's cooldown.
CarriedFallback(m) == IF cooldowns[m] = Null THEN Null ELSE cooldowns[m].fallback

\* _tracker and _backfill_tracker: get or create.
TrackerOf(m) == IF transitions[m] = Null THEN NewTracker(CarriedFallback(m)) ELSE transitions[m]

BackfillTrackerOf(m) == IF backfill[m] = Null THEN NewTracker(CarriedFallback(m)) ELSE backfill[m]

AtCap(t) ==
    t.pending \/ t.failures >= MaxDetailFailures \/ t.attempts >= MaxTotalAttempts

BackfillAtCap(t) == t.pending \/ t.failures >= BackfillMaxAttempts

Observed(t, snap) == [t EXCEPT !.fallback = AccrueFallback(@, snap)]

FailedFetch(t) == [t EXCEPT !.failures = @ + 1, !.attempts = @ + 1]

\* _register_backfill_apply_failure.
BackfillFailure(m, snap) == [Observed(BackfillTrackerOf(m), snap) EXCEPT !.failures = @ + 1]

CoolingDown(m) == cooldowns[m] # Null /\ cooldowns[m].remaining > 0

CooldownLength(epoch) ==
    IF CooldownBase * 2^(epoch - 1) <= CooldownMax
    THEN CooldownBase * 2^(epoch - 1) ELSE CooldownMax

\* _enter_cooldown: a new epoch that carries on what was captured.  Epochs past
\* MaxEpoch have the same length, so the counter stops there.
NextCooldown(m, fallback, backfillOrigin) ==
    LET previous == cooldowns[m]
        epoch == IF previous = Null THEN 1
                 ELSE IF previous.epoch < MaxEpoch THEN previous.epoch + 1 ELSE MaxEpoch
    IN  [remaining |-> CooldownLength(epoch), epoch |-> epoch, unseen |-> 0,
         fallback |-> CASE CarriedFallback(m) = Null -> fallback
                        [] CarriedFallback(m) # Null /\ fallback = Null -> CarriedFallback(m)
                        [] OTHER -> AccrueFallback(CarriedFallback(m), fallback),
         backfillOrigin |-> backfillOrigin]

-----------------------------------------------------------------------------
(* Giving up.                                                              *)

FirstKnown(x, y, z) == Prefer(x, Prefer(y, z))

Other(x, candidate) == IF x = candidate THEN Null ELSE x

\* _build_give_up_snapshot: the captured fallback with the fresh snapshot, or the
\* best snapshot there is, over the next best one, never below the stored row.
\* (The code tells candidates apart by identity; equal ones merge to themselves.)
GiveUpSnapshot(m, t, fresh, forceTerminal) ==
    LET candidate == IF t.fallback # Null /\ fresh # Null
                     THEN AccrueFallback(t.fallback, fresh)
                     ELSE FirstKnown(t.fallback, fresh, Prefer(last[m], rows[m]))
        base == FirstKnown(Other(last[m], candidate), Other(t.fallback, candidate),
                           Other(rows[m], candidate))
        merged == IF base = Null THEN candidate ELSE MergeOverBase(base, candidate)
    IN  IF candidate = Null THEN Null ELSE NonRegressOverStored(merged, rows[m], forceTerminal)

\* A hydrated snapshot; giveUp marks the ones that _emit_give_up (transition) and
\* _emit_backfill_give_up (backfill) made, for the properties.
Hydrated(m, snap, giveUp) == [match |-> m, snap |-> snap, giveUp |-> giveUp]

Enqueue(m, snap) == queue' = Append(queue, Hydrated(m, snap, "no"))

\* _emit_give_up and _abandon, for tracker t of match m.
EmitGiveUp(m, t, fresh) ==
    LET snap == GiveUpSnapshot(m, t, fresh, TRUE) IN
    IF snap # Null /\ t.emissions < MaxGiveUpEmissions
    THEN /\ transitions' = [transitions EXCEPT ![m] =
                [t EXCEPT !.pending = TRUE, !.emissions = @ + 1]]
         /\ queue' = Append(queue, Hydrated(m, snap, "transition"))
         /\ UNCHANGED cooldowns
    ELSE /\ transitions' = [transitions EXCEPT ![m] = Null]
         /\ cooldowns' = [cooldowns EXCEPT ![m] = NextCooldown(m, t.fallback, FALSE)]
         /\ UNCHANGED queue

\* _emit_backfill_give_up; pending is _backfill_apply_pending before it.
EmitBackfillGiveUp(m, t, fresh, pending) ==
    LET snap == GiveUpSnapshot(m, t, fresh, FALSE) IN
    IF snap # Null /\ t.emissions < MaxGiveUpEmissions
    THEN /\ backfill' = [backfill EXCEPT ![m] =
                [t EXCEPT !.pending = TRUE, !.emissions = @ + 1]]
         /\ applyPending' = pending \cup {m}
         /\ queue' = Append(queue, Hydrated(m, snap, "backfill"))
         /\ UNCHANGED cooldowns
    ELSE /\ backfill' = [backfill EXCEPT ![m] = Null]
         /\ cooldowns' = [cooldowns EXCEPT ![m] = NextCooldown(m, t.fallback, TRUE)]
         /\ applyPending' = pending
         /\ UNCHANGED queue

\* Tracker t is kept, unless it has reached a cap.
KeepOrGiveUp(m, t, fresh) ==
    IF AtCap(t) THEN EmitGiveUp(m, t, fresh)
    ELSE /\ transitions' = [transitions EXCEPT ![m] = t]
         /\ UNCHANGED <<cooldowns, queue>>

KeepOrGiveUpBackfill(m, t, fresh, pending) ==
    IF BackfillAtCap(t) THEN EmitBackfillGiveUp(m, t, fresh, pending)
    ELSE /\ backfill' = [backfill EXCEPT ![m] = t]
         /\ applyPending' = pending
         /\ UNCHANGED <<cooldowns, queue>>

-----------------------------------------------------------------------------
(* The start of a poll.                                                    *)

OnSlate(m, board) == board[m] # Null

Tracked(m) == transitions[m] # Null \/ backfill[m] # Null

\* Mutant: an expired entry is never purged.
AgedUnpurged(board, m) ==
    LET c == cooldowns[m] IN
    IF c # Null /\ c.remaining > 0 THEN [c EXCEPT !.remaining = @ - 1, !.unseen = 0] ELSE c

\* _age_cooldowns: gates count down; an expired entry that nothing has referred to
\* for CooldownMax polls is purged.
Aged(board, m) ==
    LET c == cooldowns[m] IN
    CASE c = Null -> Null
      [] c # Null /\ c.remaining > 0 -> [c EXCEPT !.remaining = @ - 1, !.unseen = 0]
      [] c # Null /\ c.remaining = 0 /\ (OnSlate(m, board) \/ Tracked(m)) -> [c EXCEPT !.unseen = 0]
      [] OTHER -> IF c.unseen + 1 >= CooldownMax THEN Null ELSE [c EXCEPT !.unseen = @ + 1]

\* Mutant: a restart looks at no stored row.
RestartLiveNone(board) == {}

\* _seed_restart_trackers: stored rows that are live and not on the slate.
RestartLive(board) ==
    {m \in Matches : rows[m] # Null /\ Live(rows[m]) /\ ~OnSlate(m, board) /\ ~Tracked(m)}

\* _seed_restart_backfill_trackers: terminal rows without an event, unless the
\* slate says that the match is live again.
RestartBackfill(board) ==
    {m \in Matches : /\ BackfillEnabled
                     /\ rows[m] # Null /\ Terminal(rows[m]) /\ log[m] = NoEvents
                     /\ ~(OnSlate(m, board) /\ Live(board[m]))
                     /\ ~Tracked(m)}

Seed(trackers, seeded) ==
    [m \in Matches |-> IF m \in seeded THEN NewTracker(CarriedFallback(m)) ELSE trackers[m]]

\* The slate is fetched: cooldowns age, and the first poll scans the stored rows.
StartPoll(board) ==
    /\ phase = "idle"
    /\ applyPending' = {}
    /\ slate' = board
    /\ cooldowns' = [m \in Matches |-> Aged(board, m)]
    /\ transitions' = Seed(transitions, IF scanned THEN {} ELSE RestartLive(board))
    /\ backfill' = Seed(backfill, IF scanned THEN {} ELSE RestartBackfill(board))
    /\ scanned' = TRUE
    /\ phase' = "slate"
    /\ todo' = {m \in Matches : OnSlate(m, board)}
    /\ UNCHANGED <<last, fetches, liveResumptions, queue, rows, log>>

\* fetch_live_matches raises: the loop backs off and polls again.
SlateUnavailable ==
    /\ phase = "idle"
    /\ applyPending' = {}
    /\ UNCHANGED <<last, transitions, backfill, cooldowns, scanned, poll, stored>>

-----------------------------------------------------------------------------
(* The slate: what the engine knows of a match decides how it is hydrated. *)

\* _stored_liveness_rows is asked only of a non-live match without a baseline or
\* a tracker.
StoredConsulted(m) == last[m] = Null /\ transitions[m] = Null /\ ~Live(slate[m])

HasStoredRow(m) == StoredConsulted(m) /\ rows[m] # Null

\* Mutant: only what the process remembers counts, not the stored row.
WasLiveRemembered(m) == (last[m] # Null /\ Live(last[m])) \/ transitions[m] # Null

WasLive(m) ==
    \/ last[m] # Null /\ Live(last[m])
    \/ transitions[m] # Null
    \/ HasStoredRow(m) /\ Live(rows[m])

InTransition(m) == WasLive(m) /\ ~Live(slate[m])

\* Mutant: a match may be first seen finished while its transition is tracked.
FirstSightFinishedAny(m) == last[m] = Null /\ Terminal(slate[m])

FirstSightFinished(m) ==
    last[m] = Null /\ Terminal(slate[m]) /\ ~WasLive(m) /\ ~HasStoredRow(m)

PendingBackfillRetry(m) == backfill[m] # Null /\ ~Live(slate[m]) /\ ~WasLive(m)

BackfillCoolingDeferred(m) ==
    /\ BackfillEnabled
    /\ last[m] = Null /\ ~WasLive(m) /\ ~HasStoredRow(m)
    /\ CoolingDown(m) /\ cooldowns[m].backfillOrigin

IsBackfill(m) ==
    BackfillEnabled /\ ((FirstSightFinished(m) /\ ~CoolingDown(m)) \/ PendingBackfillRetry(m))

Visit(m, in) ==
    /\ phase = in
    /\ m \in todo
    /\ todo' = todo \ {m}
    /\ UNCHANGED <<last, scanned, phase, slate, rows, log>>

VisitBoard(m) == Visit(m, "slate") /\ UNCHANGED liveResumptions

\* _reset_resumption_budget: the tracker keeps only what it captured.
ResetBudget(t) == IF t = Null THEN Null ELSE NewTracker(t.fallback)

\* A live board resumes its match.  It is hydrated with its detail, or goes on as
\* it is when the fetch fails.
LiveBoard(m, detail) ==
    /\ Visit(m, "slate")
    /\ Live(slate[m])
    /\ liveResumptions' = liveResumptions \cup {m}
    /\ transitions' = [transitions EXCEPT ![m] = ResetBudget(@)]
    /\ IF BackfillCoolingDeferred(m) THEN UNCHANGED queue
       ELSE Enqueue(m, IF detail = Null THEN slate[m] ELSE MergeDetail(slate[m], detail))
    /\ UNCHANGED <<backfill, cooldowns, applyPending, fetches>>

\* The match is in the cooldown of an abandoned backfill: not even its board goes on.
DeferBoard(m) ==
    /\ VisitBoard(m)
    /\ ~Live(slate[m]) /\ BackfillCoolingDeferred(m)
    /\ UNCHANGED <<transitions, backfill, cooldowns, applyPending, fetches, queue>>

\* A board that is neither live, nor was, nor is to be backfilled goes on as it is.
PersistBoard(m) ==
    /\ VisitBoard(m)
    /\ ~Live(slate[m]) /\ ~BackfillCoolingDeferred(m) /\ ~WasLive(m) /\ ~IsBackfill(m)
    /\ Enqueue(m, slate[m])
    /\ UNCHANGED <<transitions, backfill, cooldowns, applyPending, fetches>>

\* The match was live and its board is not: its tracker is at a cap.
TransitionCapped(m) ==
    /\ VisitBoard(m)
    /\ InTransition(m) /\ transitions[m] # Null /\ AtCap(transitions[m])
    /\ IF CoolingDown(m) THEN UNCHANGED <<transitions, cooldowns, queue>>
       ELSE EmitGiveUp(m, transitions[m], slate[m])
    /\ UNCHANGED <<backfill, applyPending, fetches>>

TransitionDue(m) == InTransition(m) /\ ~(transitions[m] # Null /\ AtCap(transitions[m]))

\* Its detail cannot be fetched: the board is captured for a later poll.
TransitionFetchFailed(m) ==
    /\ VisitBoard(m)
    /\ TransitionDue(m)
    /\ IF CoolingDown(m)
       THEN /\ cooldowns' = [cooldowns EXCEPT ![m].fallback = AccrueFallback(@, slate[m])]
            /\ UNCHANGED <<transitions, queue>>
       ELSE KeepOrGiveUp(m, FailedFetch(Observed(TrackerOf(m), slate[m])), slate[m])
    /\ UNCHANGED <<backfill, applyPending, fetches>>

\* The fetch succeeded: consecutive failures are forgotten.
Fetched(t) == IF t = Null THEN Null ELSE [t EXCEPT !.failures = 0]

\* Its detail is final: the match is closed when the snapshot is applied.
TransitionFinal(m, detail) ==
    LET merged == MergeDetail(slate[m], detail) IN
    /\ VisitBoard(m)
    /\ TransitionDue(m) /\ Terminal(merged)
    /\ transitions' = [transitions EXCEPT ![m] = Fetched(@)]
    /\ Enqueue(m, merged)
    /\ UNCHANGED <<backfill, cooldowns, applyPending, fetches>>

\* Its detail is not final, and the match is cooling down.
TransitionCooling(m, detail) ==
    LET merged == MergeDetail(slate[m], detail) IN
    /\ VisitBoard(m)
    /\ TransitionDue(m) /\ ~Terminal(merged) /\ CoolingDown(m)
    /\ transitions' = [transitions EXCEPT ![m] = Fetched(@)]
    /\ cooldowns' = [cooldowns EXCEPT ![m].fallback = AccrueFallback(@, merged)]
    /\ IF Live(merged) THEN Enqueue(m, merged) ELSE UNCHANGED queue
    /\ UNCHANGED <<backfill, applyPending, fetches>>

\* Its detail is not final: one more attempt counts.  Live progress is stored, a
\* reset is not.
TransitionNotFinal(m, detail) ==
    LET merged == MergeDetail(slate[m], detail)
        t == [Observed([TrackerOf(m) EXCEPT !.failures = 0], merged) EXCEPT !.attempts = @ + 1]
    IN
    /\ VisitBoard(m)
    /\ TransitionDue(m) /\ ~Terminal(merged) /\ ~CoolingDown(m)
    /\ IF AtCap(t) \/ ~Live(merged) THEN KeepOrGiveUp(m, t, merged)
       ELSE /\ transitions' = [transitions EXCEPT ![m] = t]
            /\ Enqueue(m, merged)
            /\ UNCHANGED cooldowns
    /\ UNCHANGED <<backfill, applyPending, fetches>>

-----------------------------------------------------------------------------
(* The slate: matches first seen finished are backfilled, a few per poll.  *)

VisitBackfill(m) ==
    /\ VisitBoard(m)
    /\ IsBackfill(m) /\ ~BackfillCoolingDeferred(m)
    /\ UNCHANGED transitions

BackfillCapped(m) ==
    /\ VisitBackfill(m)
    /\ backfill[m] # Null /\ BackfillAtCap(backfill[m])
    /\ EmitBackfillGiveUp(m, backfill[m], slate[m], applyPending)
    /\ UNCHANGED fetches

BackfillDue(m) == ~(backfill[m] # Null /\ BackfillAtCap(backfill[m]))

\* Mutant: a match that finds no fetch left is simply skipped.
BackfillSkipped(m) ==
    /\ VisitBackfill(m)
    /\ BackfillDue(m) /\ fetches >= BackfillMaxFetches
    /\ UNCHANGED <<backfill, cooldowns, applyPending, fetches, queue>>

\* No fetch is left in this poll: a new match is remembered with its board.
BackfillDeferred(m) ==
    /\ VisitBackfill(m)
    /\ BackfillDue(m) /\ fetches >= BackfillMaxFetches
    /\ backfill' = [backfill EXCEPT ![m] = IF @ # Null THEN @
                                           ELSE Observed(BackfillTrackerOf(m), slate[m])]
    /\ UNCHANGED <<cooldowns, applyPending, fetches, queue>>

BackfillFetchFailed(m) ==
    /\ VisitBackfill(m)
    /\ BackfillDue(m) /\ fetches < BackfillMaxFetches
    /\ fetches' = fetches + 1
    /\ KeepOrGiveUpBackfill(m, BackfillFailure(m, slate[m]), slate[m], applyPending)

\* A detail that leaves the match neither live nor final counts as a failure.
BackfillFetched(m, detail) ==
    LET merged == MergeDetail(slate[m], detail) IN
    /\ VisitBackfill(m)
    /\ BackfillDue(m) /\ fetches < BackfillMaxFetches
    /\ fetches' = fetches + 1
    /\ IF Live(merged) \/ Terminal(merged)
       THEN /\ Enqueue(m, merged)
            /\ applyPending' = applyPending \cup {m}
            /\ UNCHANGED <<backfill, cooldowns>>
       ELSE KeepOrGiveUpBackfill(m, BackfillFailure(m, merged), merged, applyPending \cup {m})

-----------------------------------------------------------------------------
(* Tracked matches that left the slate.                                    *)

\* Mutant: a cooling match is tracked again as soon as it leaves the slate.
VanishedUngated ==
    {m \in Matches : ~OnSlate(m, slate) /\ ((last[m] # Null /\ Live(last[m])) \/ transitions[m] # Null)}

\* _hydrate_vanished_matches: live baselines and trackers off the slate.
Vanished ==
    {m \in Matches : /\ ~OnSlate(m, slate)
                     /\ (last[m] # Null /\ Live(last[m])) \/ transitions[m] # Null
                     /\ ~CoolingDown(m)}

SlateDone ==
    /\ phase = "slate" /\ todo = {}
    /\ phase' = "vanished"
    /\ todo' = Vanished
    /\ UNCHANGED <<memory, slate, fetches, liveResumptions, queue, stored>>

VisitVanished(m) ==
    /\ Visit(m, "vanished")
    /\ UNCHANGED <<backfill, applyPending, fetches, liveResumptions>>

\* A give-up is due already: no fetch.
VanishedCapped(m) ==
    /\ VisitVanished(m)
    /\ AtCap(TrackerOf(m))
    /\ EmitGiveUp(m, TrackerOf(m), Null)

VanishedFetchFailed(m) ==
    /\ VisitVanished(m)
    /\ ~AtCap(TrackerOf(m))
    /\ KeepOrGiveUp(m, FailedFetch(TrackerOf(m)), Null)

\* The detail over the baseline, else the fallback, else the stored row.
OverTransitionBase(m, t, detail) ==
    LET base == FirstKnown(last[m], t.fallback, rows[m]) IN
    IF base = Null THEN detail ELSE MergeOverBase(base, detail)

VanishedFetched(m, detail) ==
    LET t == [TrackerOf(m) EXCEPT !.failures = 0]
        counted == [t EXCEPT !.attempts = @ + 1]
        merged == OverTransitionBase(m, t, detail)
    IN
    /\ VisitVanished(m)
    /\ ~AtCap(TrackerOf(m))
    /\ IF Terminal(detail) \/ (Live(detail) /\ ~AtCap(counted))
       THEN /\ transitions' = [transitions EXCEPT ![m] = IF Terminal(detail) THEN t ELSE counted]
            /\ Enqueue(m, merged)
            /\ UNCHANGED cooldowns
       ELSE KeepOrGiveUp(m, counted, IF Live(detail) THEN merged ELSE Null)

\* Before anything is applied, every snapshot is diffed against the baselines.
Diffs ==
    [i \in DOMAIN queue |->
        LET h == queue[i] IN
        [match |-> h.match, snap |-> h.snap, giveUp |-> h.giveUp,
         changed |-> HasChanges(h.snap, last[h.match]),
         new |-> NewEvents(h.snap, last[h.match])]]

BeginApply ==
    /\ phase' = "apply"
    /\ todo' = {}
    /\ queue' = Diffs

\* _hydrate_vanished_backfill_matches.
VanishedBackfills ==
    {m \in Matches : ~OnSlate(m, slate) /\ backfill[m] # Null /\ ~CoolingDown(m)}

VanishedDone ==
    /\ phase = "vanished" /\ todo = {}
    /\ IF BackfillEnabled
       THEN /\ phase' = "vanishedBackfill"
            /\ todo' = VanishedBackfills
            /\ UNCHANGED queue
       ELSE BeginApply
    /\ UNCHANGED <<memory, slate, fetches, liveResumptions, stored>>

VisitVanishedBackfill(m) ==
    /\ Visit(m, "vanishedBackfill")
    /\ UNCHANGED <<transitions, liveResumptions>>

VanishedBackfillCapped(m) ==
    /\ VisitVanishedBackfill(m)
    /\ BackfillAtCap(backfill[m])
    /\ EmitBackfillGiveUp(m, backfill[m], Null, applyPending)
    /\ UNCHANGED fetches

\* The poll's fetches are spent: the match waits.
VanishedBackfillDeferred(m) ==
    /\ VisitVanishedBackfill(m)
    /\ ~BackfillAtCap(backfill[m]) /\ fetches >= BackfillMaxFetches
    /\ UNCHANGED <<backfill, cooldowns, applyPending, fetches, queue>>

VanishedBackfillDue(m) ==
    /\ VisitVanishedBackfill(m)
    /\ ~BackfillAtCap(backfill[m]) /\ fetches < BackfillMaxFetches
    /\ fetches' = fetches + 1

VanishedBackfillFailed(m) ==
    /\ VanishedBackfillDue(m)
    /\ KeepOrGiveUpBackfill(m, [backfill[m] EXCEPT !.failures = @ + 1], Null, applyPending)

VanishedBackfillFetched(m, detail) ==
    LET base == backfill[m].fallback
        merged == IF base = Null THEN detail ELSE MergeOverBase(base, detail)
    IN
    /\ VanishedBackfillDue(m)
    /\ IF Live(merged) \/ Terminal(merged)
       THEN /\ Enqueue(m, merged)
            /\ applyPending' = applyPending \cup {m}
            /\ UNCHANGED <<backfill, cooldowns>>
       ELSE KeepOrGiveUpBackfill(m, BackfillFailure(m, merged), merged, applyPending \cup {m})

VanishedBackfillDone ==
    /\ phase = "vanishedBackfill" /\ todo = {}
    /\ BeginApply
    /\ UNCHANGED <<memory, slate, fetches, liveResumptions, stored>>

-----------------------------------------------------------------------------
(* Applying the diffs.                                                     *)

\* _home_away_view: a snapshot in the row's orientation; its names tell which it has.
AsStored(m, snap) ==
    IF snap.info \in Reversed[m]
    THEN [snap EXCEPT !.score = [s \in Sides |-> snap.score[Opposite[s]]]]
    ELSE snap

\* The schedule's names win, else the snapshot's, else those that are there.
SeededInfo(m, snap, row) ==
    Prefer(Schedule[m], IF row = Null THEN snap.info ELSE Prefer(snap.info, row.info))

\* seed_match: the whole state, over the payload that is there.
SeededRow(m, snap, row) ==
    [AsStored(m, snap) EXCEPT !.events = NoEvents, !.info = SeededInfo(m, snap, row)]

AboveHead(q, events) == \A p \in DOMAIN events : p < q

\* append_events refuses the batch: a re-sent seq differs from its stored row, or a
\* new one is not above the head.
SequenceConflict(events, new) ==
    \E q \in DOMAIN new : IF q \in DOMAIN events THEN events[q] # new[q] ELSE ~AboveHead(q, events)

\* The log with those of the new events that are above its head.
Extended(events, new) ==
    [q \in DOMAIN events \cup {p \in DOMAIN new : AboveHead(p, events)} |->
        IF q \in DOMAIN events THEN events[q] ELSE new[q]]

\* Mutant: the baseline takes in the events that the writer refused.
AppliedBaselineWhole(m, snap, new) == snap

\* The baseline after an apply: the snapshot, or, when the batch was refused and
\* replayed row by row, the snapshot with the events that are stored.
AppliedBaseline(m, snap, new) ==
    IF SequenceConflict(log[m], new) THEN [snap EXCEPT !.events = Extended(log[m], new)] ELSE snap

\* _clear_cooling_gate: re-tracking is allowed again, the epoch is kept.
ClearedGate(cooldown, applied) ==
    IF cooldown = Null THEN Null
    ELSE [cooldown EXCEPT !.remaining = 0,
             !.fallback = IF @ # Null /\ LiveSupersedes(applied, @) THEN Null ELSE @]

\* Mutant: a resumed match's tracker always goes.
ReconciledAlways(t, applied) == Null

\* _reconcile_live_apply: the tracker of a resumed match goes unless it has
\* captured something the applied state does not supersede.
Reconciled(t, applied) ==
    IF t # Null /\ t.fallback # Null /\ WorthRetaining(t.fallback)
                /\ ~LiveSupersedes(applied, t.fallback)
    THEN t ELSE Null

\* _on_durable_snapshot: what is stored equals snap; advanced if it was written now.
OnDurableSnapshot(m, snap, advanced) ==
    LET cooldown == IF backfill[m] # Null THEN Null ELSE cooldowns[m] IN
    /\ backfill' = [backfill EXCEPT ![m] = Null]
    /\ cooldowns' = [cooldowns EXCEPT ![m] =
            CASE ~Live(snap) -> Null
              [] Live(snap) /\ advanced -> ClearedGate(cooldown, snap)
              [] OTHER -> cooldown]
    /\ transitions' = [transitions EXCEPT ![m] =
            CASE ~Live(snap) -> Null
              [] Live(snap) /\ advanced /\ m \in liveResumptions -> Reconciled(@, snap)
              [] OTHER -> @]

ApplyNext ==
    /\ phase = "apply"
    /\ queue # <<>>
    /\ queue' = Tail(queue)
    /\ UNCHANGED <<applyPending, scanned, phase, slate, todo, fetches, liveResumptions>>

SeedRow(e) == rows' = [rows EXCEPT ![e.match] = SeededRow(e.match, e.snap, @)]

AppendNewEvents(e) == log' = [log EXCEPT ![e.match] = Extended(@, e.new)]

\* Mutant: the baseline advances although the apply failed.
NotAppliedAdvanced(e) ==
    /\ last' = [last EXCEPT ![e.match] = e.snap]
    /\ UNCHANGED <<transitions, backfill, cooldowns>>

\* Mutant: a failed apply does not count against the backfill.
NotAppliedUncounted(e) == UNCHANGED <<last, transitions, backfill, cooldowns>>

\* The snapshot was not persisted whole: the baseline stays, and a backfill counts it.
NotApplied(e) ==
    /\ backfill' = [backfill EXCEPT ![e.match] =
            IF e.match \in applyPending THEN BackfillFailure(e.match, e.snap) ELSE @]
    /\ UNCHANGED <<last, transitions, cooldowns>>

\* No difference to the baseline: nothing is written.
Unchanged ==
    LET e == Head(queue) IN
    /\ ApplyNext
    /\ ~e.changed
    /\ OnDurableSnapshot(e.match, e.snap, FALSE)
    /\ UNCHANGED <<last, stored>>

Applied ==
    LET e == Head(queue)
        baseline == AppliedBaseline(e.match, e.snap, e.new)
    IN
    /\ ApplyNext
    /\ e.changed /\ "ok" \in PackOutcomes
    /\ SeedRow(e) /\ AppendNewEvents(e)
    /\ last' = [last EXCEPT ![e.match] = baseline]
    /\ OnDurableSnapshot(e.match, baseline, TRUE)

NotSeeded ==
    LET e == Head(queue) IN
    /\ ApplyNext
    /\ e.changed /\ "notSeeded" \in PackOutcomes
    /\ NotApplied(e)
    /\ UNCHANGED stored

EventsRejected ==
    LET e == Head(queue) IN
    /\ ApplyNext
    /\ e.changed /\ e.new # NoEvents /\ "rejected" \in PackOutcomes
    /\ SeedRow(e)
    /\ NotApplied(e)
    /\ UNCHANGED log

SideTablesFailed ==
    LET e == Head(queue) IN
    /\ ApplyNext
    /\ e.changed /\ "sideFailed" \in PackOutcomes
    /\ SeedRow(e) /\ AppendNewEvents(e)
    /\ NotApplied(e)

\* The poll is over; what was local to it is gone.
PollDone ==
    /\ phase = "apply" /\ queue = <<>>
    /\ phase' = "idle"
    /\ slate' = [m \in Matches |-> Null]
    /\ fetches' = 0
    /\ liveResumptions' = {}
    /\ UNCHANGED <<memory, todo, queue, stored>>

-----------------------------------------------------------------------------
(* Crash and restart: only what was committed survives.                    *)

\* What the log may hold when an apply is cut short: the batch is one transaction;
\* the replay of a refused batch commits row by row, in order of seq.
CutShort(events, new) ==
    LET above == DOMAIN Extended(events, new) \ DOMAIN events
        written == IF SequenceConflict(events, new)
                   THEN {S \in SUBSET above : \A q \in S, p \in above : p < q => p \in S}
                   ELSE {{}, above}
    IN  {[q \in DOMAIN events \cup S |-> IF q \in DOMAIN events THEN events[q] ELSE new[q]] :
            S \in written}

CutShortApply(e) ==
    \/ UNCHANGED stored
    \/ /\ e.changed
       /\ SeedRow(e)
       /\ \E events \in CutShort(log[e.match], e.new) : log' = [log EXCEPT ![e.match] = events]

Forget ==
    /\ last' = [m \in Matches |-> Null]
    /\ transitions' = [m \in Matches |-> Null]
    /\ backfill' = [m \in Matches |-> Null]
    /\ cooldowns' = [m \in Matches |-> Null]
    /\ applyPending' = {}
    /\ scanned' = FALSE
    /\ phase' = "idle"
    /\ slate' = [m \in Matches |-> Null]
    /\ todo' = {}
    /\ fetches' = 0
    /\ liveResumptions' = {}
    /\ queue' = <<>>

Crash ==
    /\ Forget
    /\ IF phase = "apply" /\ queue # <<>> THEN CutShortApply(Head(queue)) ELSE UNCHANGED stored

-----------------------------------------------------------------------------
Init ==
    /\ last = [m \in Matches |-> Null]
    /\ transitions = [m \in Matches |-> Null]
    /\ backfill = [m \in Matches |-> Null]
    /\ cooldowns = [m \in Matches |-> Null]
    /\ applyPending = {}
    /\ scanned = FALSE
    /\ phase = "idle"
    /\ slate = [m \in Matches |-> Null]
    /\ todo = {}
    /\ fetches = 0
    /\ liveResumptions = {}
    /\ queue = <<>>
    /\ rows = [m \in Matches |-> Null]
    /\ log = [m \in Matches |-> NoEvents]

SlateStep(m) ==
    \/ \E d \in Details \cup {Null} : LiveBoard(m, d)
    \/ DeferBoard(m) \/ PersistBoard(m)
    \/ TransitionCapped(m) \/ TransitionFetchFailed(m)
    \/ \E d \in Details : TransitionFinal(m, d) \/ TransitionCooling(m, d) \/ TransitionNotFinal(m, d)
    \/ BackfillCapped(m) \/ BackfillDeferred(m) \/ BackfillFetchFailed(m)
    \/ \E d \in Details : BackfillFetched(m, d)

VanishedStep(m) ==
    \/ VanishedCapped(m) \/ VanishedFetchFailed(m)
    \/ \E d \in Details : VanishedFetched(m, d)
    \/ VanishedBackfillCapped(m) \/ VanishedBackfillDeferred(m) \/ VanishedBackfillFailed(m)
    \/ \E d \in Details : VanishedBackfillFetched(m, d)

ApplyFailed == NotSeeded \/ EventsRejected \/ SideTablesFailed

\* The steps of a poll that has begun and whose applies succeed.
SmoothStep ==
    \/ \E m \in Matches : SlateStep(m) \/ VanishedStep(m)
    \/ SlateDone \/ VanishedDone \/ VanishedBackfillDone
    \/ Unchanged \/ Applied \/ PollDone

NewPoll == \E board \in [Matches -> Boards \cup {Null}] : StartPoll(board)

Next == NewPoll \/ SlateUnavailable \/ SmoothStep \/ ApplyFailed \/ Crash

Spec == Init /\ [][Next]_vars

-----------------------------------------------------------------------------
(* Properties.                                                             *)

HydratedSnapshot == [match : Matches, snap : Snapshot, giveUp : {"no", "transition", "backfill"}]

Diff == [match : Matches, snap : Snapshot, giveUp : {"no", "transition", "backfill"},
         changed : BOOLEAN, new : EventLists]

TypeOK ==
    /\ last \in [Matches -> Snapshot \cup {Null}]
    /\ transitions \in [Matches -> Tracker \cup {Null}]
    /\ backfill \in [Matches -> Tracker \cup {Null}]
    /\ cooldowns \in [Matches -> Cooldown \cup {Null}]
    /\ applyPending \subseteq Matches
    /\ scanned \in BOOLEAN
    /\ phase \in {"idle", "slate", "vanished", "vanishedBackfill", "apply"}
    /\ slate \in [Matches -> Boards \cup {Null}]
    /\ todo \subseteq Matches
    /\ fetches \in 0 .. BackfillMaxFetches
    /\ liveResumptions \subseteq Matches
    /\ queue \in Seq(IF phase = "apply" THEN Diff ELSE HydratedSnapshot)
    /\ rows \in [Matches -> Snapshot \cup {Null}]
    /\ log \in [Matches -> EventLists]

\* What an apply persists of a baseline is stored: an event the engine will not
\* diff again is in the log with that content, or it would be lost for good
\* (poll_once: an event never gets "baked into the baseline" unwritten).
BaselineEventsStored ==
    \A m \in Matches : last[m] # Null =>
        \A q \in DOMAIN last[m].events :
            q \in DOMAIN log[m] /\ log[m][q] = last[m].events[q]

\* "Stored state already durably matches this snapshot" (poll_once): a snapshot
\* that does not differ from the baseline does not differ from the stored row.
UnchangedMeansStored ==
    (phase = "apply" /\ queue # <<>> /\ ~Head(queue).changed) =>
        LET e == Head(queue) IN
        /\ rows[e.match] # Null
        /\ rows[e.match].status = e.snap.status
        /\ rows[e.match].score = AsStored(e.match, e.snap).score

\* Giving up is monotonic (_nonregress_over_stored): whatever was captured and
\* however stale, persisting it lowers no stored score and reopens no closed match;
\* for a match that was live it closes the row.
GiveUpMonotonic ==
    [][LET e == Head(queue)
           row == rows[e.match] IN
       (phase = "apply" /\ queue # <<>> /\ e.giveUp # "no" /\ scanned' /\ rows' # rows) =>
           /\ row # Null => /\ ~Regressed(row, rows'[e.match])
                            /\ Terminal(row) => Terminal(rows'[e.match])
           /\ e.giveUp = "transition" => Terminal(rows'[e.match])]_vars

\* A status reset of the provider never clobbers a live row: a stored match leaves
\* live play only by being closed (_fetch_poll_snapshots).
ResetNeverClobbers ==
    [][\A m \in Matches : (rows[m] # Null /\ Live(rows[m])) =>
           Live(rows'[m]) \/ Terminal(rows'[m])]_vars

\* No transition tracker lives beside a running cooldown (__init__: "no tracker is
\* created while cooling"), so an unappliable match cannot hot-loop.
NoTrackerWhileCooling == \A m \in Matches : ~(transitions[m] # Null /\ CoolingDown(m))

\* is_backfill and in_transition are exclusive: one match is never on both paths.
PathsExclusive == \A m \in Matches : transitions[m] = Null \/ backfill[m] = Null

\* A tracker is dropped only when its match is durably closed, or is abandoned to a
\* cooldown, or resumed in a state that has every goal the tracker had captured.
TrackerDropJustified ==
    [][\A m \in Matches : (transitions[m] # Null /\ transitions'[m] = Null /\ scanned') =>
          \/ cooldowns'[m] # Null /\ cooldowns'[m].remaining > 0
          \/ rows'[m] # Null /\ ~Live(rows'[m])
          \/ /\ rows'[m] # Null
             /\ transitions[m].fallback # Null =>
                    ~Regressed(AsStored(m, transitions[m].fallback), rows'[m])]_vars

\* A backfill whose detail was fetched is never foreclosed by a failed apply: at the
\* end of the poll it is applied, or still tracked, or cooling (poll_once).
BackfillNotForeclosed ==
    (phase = "apply" /\ queue = <<>>) =>
        \A m \in applyPending : last[m] # Null \/ backfill[m] # Null \/ CoolingDown(m)

\* "Best-known terminal snapshot at give-up" (_build_give_up_snapshot): whatever is
\* merged with whatever, each score of a stored row was shown for that team.
ScoreShown ==
    \A m \in Matches, s \in Sides : rows[m] # Null =>
        rows[m].score[s] \in {AsStored(m, o).score[s] : o \in Boards \cup Details} \cup {Null}

\* A finished match on the slate is never overlooked, whatever fails and however few
\* fetches a poll has: it is stored, or something will bring it back.
FinishedNotOverlooked ==
    (phase = "apply" /\ queue = <<>>) =>
        \A m \in Matches : (slate[m] # Null /\ Terminal(slate[m])) =>
            rows[m] # Null \/ Tracked(m) \/ cooldowns[m] # Null
=============================================================================
