------------------------------- MODULE Collector -------------------------------
(***************************************************************************)
(* The daemon's life around its polls (gamecollect/engine.py: run, close;  *)
(* cli.py: _run_collect): it opens the file, polls a live or a replayed    *)
(* provider, backs off, holds the admission lock while it writes, records  *)
(* what it saw, and shuts down; next to it other processes open the file   *)
(* and a maintainer asks for the lock alone.                               *)
(*                                                                         *)
(* A snapshot is, for each match of the slate, the events it shows.  What  *)
(* a poll does with one match is Engine's and Feed's: here it is stored    *)
(* whole or rejected.                                                      *)
(***************************************************************************)
EXTENDS Schema, Espn, FiniteSets

CONSTANTS
    Daemon,         \* the opener that is the collector
    Matches,
    Replayed,       \* the match of the fixture
    EventCount,     \* how many events the fixture has
    Minute,         \* Minute[q]: when its event q was recorded
    Kinds,          \* the providers a daemon is run with
    Responses,      \* what a live provider's request may come to
    LiveSnapshots,  \* what a live provider shows
    MaxBackoff,     \* _MAX_BACKOFF_MULTIPLIER
    Torn            \* a fixture file whose writing failed

ASSUME CollectorAssumption ==
    /\ Daemon \in Openers
    /\ EventCount \in Nat

VARIABLES
    pc,             \* where run() is
    stop,           \* _stop_event
    harness,        \* did the replay's sleep hook set it?
    multiplier,     \* _backoff_multiplier
    kind,           \* "live", or a ReplayProvider's mode: "step" or "paced"
    revealed,       \* ReplayProvider._revealed
    clock,          \* minutes of the match since the first fetch, or Null
    snapshot,       \* what the poll in progress fetched
    stored,         \* the rows <<match, event>> in the file
    rejected,       \* did the latest write session leave a match out?
    record,         \* RecordWriter._record
    observed,       \* what the session's polls showed of each match
    fixtures,       \* the files the session wrote
    written,        \* the fixtures this flush has written
    flushFailed,    \* RecordWriter._record_flush_failed
    maintainer      \* who asks for the lock EXCLUSIVE: "away", "waiting" or "holding"

loopVars == <<pc, stop, harness, multiplier>>
providerVars == <<kind, revealed, clock>>
pollVars == <<snapshot, stored, rejected>>
recordVars == <<record, observed, fixtures, written, flushFailed>>
vars == <<schemaVars, loopVars, providerVars, pollVars, recordVars, maintainer>>

Events == 1 .. EventCount
Nothing == [m \in {} |-> {}]
InRun == {"loop", "admit", "write", "sleep"}
Smaller(i, j) == IF i < j THEN i ELSE j

Init ==
    /\ SchemaInit
    /\ pc = "off" /\ stop = FALSE /\ harness = FALSE
    /\ multiplier = 1
    /\ kind = "live" /\ revealed = 0 /\ clock = Null
    /\ snapshot = Nothing /\ stored = {} /\ rejected = FALSE
    /\ record = Nothing /\ observed = Nothing /\ fixtures = Nothing
    /\ written = {} /\ flushFailed = FALSE
    /\ maintainer = "away"

-----------------------------------------------------------------------------
(* The file.                                                               *)

\* The daemon opens the file once, in the engine's constructor.
OpenStep ==
    /\ \E o \in Openers : (o = Daemon => pc = "off") /\ Opening(o)
    /\ UNCHANGED <<loopVars, providerVars, pollVars, recordVars, maintainer>>

OtherCloses ==
    /\ \E o \in Openers \ {Daemon} : CloseFile(o)
    /\ UNCHANGED <<loopVars, providerVars, pollVars, recordVars, maintainer>>

\* The constructor is through: a new engine, provider and recorder.
Enter ==
    /\ pc = "off" /\ conn[Daemon].pc = "open"
    /\ pc' = "loop" /\ stop' = FALSE /\ harness' = FALSE
    /\ multiplier' = 1
    /\ kind' \in Kinds /\ revealed' = 0 /\ clock' = Null
    /\ snapshot' = Nothing /\ rejected' = FALSE
    /\ record' = Nothing /\ observed' = Nothing /\ fixtures' = Nothing
    /\ written' = {} /\ flushFailed' = FALSE
    /\ UNCHANGED <<schemaVars, stored, maintainer>>

-----------------------------------------------------------------------------
(* The provider.                                                           *)

\* _paced_count: the events before the first that is not due.
PacedCount(now) ==
    Cardinality({n \in Events : \A q \in 1 .. n : Minute[q] <= now})

\* Mutant: exhausted as soon as everything is due.
ExhaustedByClock ==
    IF kind = "paced" /\ clock # Null THEN PacedCount(clock) >= EventCount
    ELSE revealed >= EventCount

\* ReplayProvider.exhausted: every event was returned by a fetch.
Exhausted == revealed >= EventCount

Tick ==
    /\ kind = "paced" /\ clock # Null /\ \E q \in Events : clock < Minute[q]
    /\ clock' = clock + 1
    /\ UNCHANGED <<schemaVars, loopVars, kind, revealed, pollVars, recordVars, maintainer>>

EventsOf(shown, m) == IF m \in DOMAIN shown THEN shown[m] ELSE {}

\* RecordWriter.accumulate: the union of a match's events.
Accumulated(seen, shown) ==
    [m \in DOMAIN seen \cup DOMAIN shown |-> EventsOf(seen, m) \cup EventsOf(shown, m)]

\* Mutant: the loop looks at the stop event only after a good poll.
StoppingWhenHealthy == stop /\ multiplier = 1

\* self._stop_event.is_set(), asked before a poll and before its sleep.
Stopping == stop

\* The fetch succeeds; the snapshots are recorded before anything is written.
Fetched(shown) ==
    /\ pc' = "admit"
    /\ snapshot' = shown
    /\ record' = Accumulated(record, shown)
    /\ observed' = Accumulated(observed, shown)
    /\ UNCHANGED <<schemaVars, stop, harness, multiplier, stored, rejected,
                   fixtures, written, flushFailed, maintainer>>

FetchLive ==
    /\ pc = "loop" /\ ~Stopping /\ kind = "live"
    /\ \E response \in Responses : FetchOutcome(response) = "ok"
    /\ \E shown \in LiveSnapshots : Fetched(shown)
    /\ UNCHANGED providerVars

\* fetch_live_matches reveals one event, or those that are due.
FetchReplay ==
    /\ pc = "loop" /\ ~Stopping /\ kind # "live"
    /\ clock' = IF kind = "paced" /\ clock = Null THEN 0 ELSE clock
    /\ revealed' = IF kind = "step" THEN Smaller(revealed + 1, EventCount) ELSE PacedCount(clock')
    /\ Fetched([m \in {Replayed} |-> 1 .. revealed'])
    /\ UNCHANGED kind

-----------------------------------------------------------------------------
(* The loop.                                                               *)

\* _next_backoff_delay: the next delay will be longer, up to the cap.
FetchFails ==
    /\ pc = "loop" /\ ~Stopping /\ kind = "live"
    /\ \E response \in Responses : FetchOutcome(response) \in {"unavailable", "shapeDrift"}
    /\ pc' = "sleep"
    /\ multiplier' = Smaller(2 * multiplier, MaxBackoff)
    /\ UNCHANGED <<schemaVars, stop, harness, providerVars, pollVars, recordVars, maintainer>>

\* Mutant: the lock is held as long as the daemon lives.
HoldsSharedForLife == pc \in InRun

\* The admission lock is held SHARED for a write session, no longer.
HoldsShared == pc = "write"

Admit ==
    /\ pc = "admit" /\ maintainer # "holding"
    /\ pc' = "write"
    /\ UNCHANGED <<schemaVars, stop, harness, multiplier, providerVars, pollVars,
                   recordVars, maintainer>>

RowsOf(matches) == UNION {{m} \X snapshot[m] : m \in matches}

\* The poll stores its matches and is good, also when the writer rejected some of them.
Write ==
    /\ pc = "write"
    /\ \E applied \in SUBSET DOMAIN snapshot :
          /\ stored' = stored \cup RowsOf(applied)
          /\ rejected' = (applied # DOMAIN snapshot)
    /\ pc' = "sleep"
    /\ multiplier' = 1
    /\ snapshot' = Nothing
    /\ UNCHANGED <<schemaVars, stop, harness, providerVars, recordVars, maintainer>>

\* Another exception, a KeyboardInterrupt: run()'s finally.  Some matches may be stored.
Raises ==
    /\ pc \in InRun
    /\ \/ UNCHANGED stored
       \/ pc = "write" /\ \E applied \in SUBSET DOMAIN snapshot : stored' = stored \cup RowsOf(applied)
    /\ pc' = "flush"
    /\ snapshot' = Nothing
    /\ UNCHANGED <<schemaVars, stop, harness, multiplier, providerVars, rejected,
                   recordVars, maintainer>>

\* The sleep is over: its time is up, or the stop event is set.
Wake ==
    /\ pc = "sleep" /\ (kind = "live" \/ stop)
    /\ pc' = IF Stopping THEN "flush" ELSE "loop"
    /\ UNCHANGED <<schemaVars, stop, harness, multiplier, providerVars, pollVars,
                   recordVars, maintainer>>

\* A replay's sleep hook: provider.exhausted and engine.stop().
SleepHook ==
    /\ pc = "sleep" /\ kind # "live" /\ ~stop
    /\ stop' = Exhausted /\ harness' = Exhausted
    /\ pc' = IF Exhausted THEN "flush" ELSE "loop"
    /\ UNCHANGED <<schemaVars, multiplier, providerVars, pollVars, recordVars,
                   maintainer>>

\* SIGTERM, or stop() from another thread.
Stop ==
    /\ pc \in InRun /\ ~stop
    /\ stop' = TRUE
    /\ UNCHANGED <<schemaVars, pc, harness, multiplier, providerVars, pollVars,
                   recordVars, maintainer>>

\* while not self._stop_event.is_set()
LoopEnds ==
    /\ pc = "loop" /\ Stopping
    /\ pc' = "flush"
    /\ UNCHANGED <<schemaVars, stop, harness, multiplier, providerVars, pollVars,
                   recordVars, maintainer>>

-----------------------------------------------------------------------------
(* Shutdown: close() in run()'s finally, and again in the command's.       *)

\* flush has something to write.
Flushing == DOMAIN record # {} /\ ~flushFailed

\* write_fixture of one match.
WriteFixture ==
    /\ pc \in {"flush", "again"} /\ Flushing
    /\ \E m \in DOMAIN record \ written :
          /\ fixtures' = [n \in DOMAIN fixtures \cup {m} |-> IF n = m THEN record[m] ELSE fixtures[n]]
          /\ written' = written \cup {m}
    /\ UNCHANGED <<schemaVars, loopVars, providerVars, pollVars, record, observed, flushFailed,
                   maintainer>>

\* close() goes on: the connection is closed in a finally, whatever the flush came to.
Closes ==
    /\ pc' = IF pc = "flush" THEN "again" ELSE "ended"
    /\ conn' = [conn EXCEPT ![Daemon] = Closed]
    /\ written' = {}
    /\ UNCHANGED <<parts, stamp, stop, harness, multiplier, providerVars,
                   pollVars, observed, maintainer>>

\* Mutant: the failure does not latch.
LatchedNever == FALSE

Latched == TRUE

\* The write raises; the file may be left torn.
FixtureFails ==
    /\ pc \in {"flush", "again"} /\ Flushing
    /\ \E m \in DOMAIN record \ written :
          \/ UNCHANGED fixtures
          \/ fixtures' = [n \in DOMAIN fixtures \cup {m} |-> IF n = m THEN Torn ELSE fixtures[n]]
    /\ flushFailed' = Latched
    /\ UNCHANGED record
    /\ Closes

\* Mutant: the session is given up whether or not it could be written.
KeptAfterFlushNothing == Nothing

\* Nothing is left to write: a session that was written is cleared.
KeptAfterFlush == IF Flushing THEN Nothing ELSE record

FlushEnds ==
    /\ pc \in {"flush", "again"} /\ (Flushing => written = DOMAIN record)
    /\ record' = KeptAfterFlush
    /\ UNCHANGED <<fixtures, flushFailed>>
    /\ Closes

-----------------------------------------------------------------------------
(* The surroundings.                                                       *)

\* The process ends, after its shutdown or by a kill.
ProcessEnds ==
    /\ pc # "off"
    /\ pc' = "off" /\ stop' = FALSE
    /\ conn' = [conn EXCEPT ![Daemon] = Closed]
    /\ snapshot' = Nothing
    /\ record' = Nothing /\ observed' = Nothing /\ written' = {}
    /\ UNCHANGED <<parts, stamp, harness, multiplier, providerVars, stored,
                   rejected, fixtures, flushFailed, maintainer>>

Asks ==
    /\ maintainer = "away"
    /\ maintainer' = "waiting"
    /\ UNCHANGED <<schemaVars, loopVars, providerVars, pollVars, recordVars>>

\* flock(LOCK_EX): no holder remains.
Grant ==
    /\ maintainer = "waiting" /\ ~HoldsShared
    /\ maintainer' = "holding"
    /\ UNCHANGED <<schemaVars, loopVars, providerVars, pollVars, recordVars>>

Release ==
    /\ maintainer = "holding"
    /\ maintainer' = "away"
    /\ UNCHANGED <<schemaVars, loopVars, providerVars, pollVars, recordVars>>

Advance ==
    \/ FetchLive \/ FetchReplay \/ FetchFails \/ Write \/ Wake \/ SleepHook \/ LoopEnds
    \/ WriteFixture \/ FixtureFails \/ FlushEnds

Next ==
    \/ OpenStep \/ OtherCloses \/ Enter
    \/ Tick \/ Advance \/ Admit \/ Raises \/ Stop \/ ProcessEnds
    \/ Asks \/ Grant \/ Release

\* A request times out, a wait for SQLite's lock too, and the sleep ends.  Whoever waits
\* for the admission lock gets it if it is free again and again: the daemon sleeps between
\* two sessions, the maintainer leaves.
Spec ==
    /\ Init /\ [][Next]_vars
    /\ WF_vars(Advance) /\ WF_vars(Release) /\ SF_vars(Admit) /\ SF_vars(Grant)

-----------------------------------------------------------------------------
(* Properties.                                                             *)

\* "a daemon-lifetime hold would instead starve it forever" (_admission_lock): a
\* maintainer is admitted, however long the daemon polls.
MaintainerAdmitted == maintainer = "waiting" ~> maintainer = "holding"

\* Once stopped, in whatever step of a poll or of its sleep, with whatever failing, the
\* daemon closes its connection.
StopsEventually == stop ~> conn[Daemon].pc = "closed"

\* As long as the engine lives, what its polls showed of a match is in its memory or in
\* the match's fixture, also when a flush failed half-way.
SessionKept ==
    \A m \in DOMAIN observed :
        \/ m \in DOMAIN record /\ record[m] = observed[m]
        \/ m \in DOMAIN fixtures /\ fixtures[m] = observed[m]

\* After a failed fixture write nothing more is written: the command's second close()
\* does not write over what the first left.
FlushNotRetried ==
    [][pc = "again" => UNCHANGED fixtures]_vars

\* A replay that its harness ends was streamed whole: every event is stored unless the
\* last session rejected the match, and the recording has every event unless it could
\* not be written.
ReplayComplete ==
    harness /\ pc = "ended" =>
        /\ ~rejected => {Replayed} \X Events \subseteq stored
        /\ ~flushFailed => fixtures[Replayed] = Events
=============================================================================
