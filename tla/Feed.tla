--------------------------------- MODULE Feed ---------------------------------
(***************************************************************************)
(* One match from ESPN's key events to the event log: the adapter numbers  *)
(* the events by position, the engine diffs them against its baseline, the *)
(* writer refuses a batch that contradicts the log, the engine replays it  *)
(* row by row and reports each mismatch once as an error.                  *)
(*                                                                         *)
(* ESPN adds, amends, inserts and removes key events while the match is    *)
(* polled; a detail request, the side tables and the daemon may fail.  The *)
(* trackers of a final detail that cannot be fetched are Engine's.         *)
(***************************************************************************)
EXTENDS Espn, FiniteSets

CONSTANTS
    Whats,      \* minute, team and participants of a key event
    Slugs,      \* the slugs that ESPN uses
    Texts,      \* the wordings of a key event
    Comps,      \* what ESPN shows of a match that has begun: [description, state]
    MaxFeed,    \* bound: key events of the match
    MaxEdits,   \* bound: changes of the list
    Null

ASSUME FeedAssumption == \A c \in Comps : StatusFromComp(c) \in {"IN_PLAY", "PAUSED", "FINISHED"}

VARIABLES
    keyEvents,  \* ESPN's list
    comp,       \* ESPN's status of the match
    row,        \* status of the stored row, or Null
    log,        \* the stored events, by seq
    last,       \* the diff baseline [over, events], or Null
    logged,     \* _logged_drift of the match: seq -> what was reported
    reported,   \* what the latest poll reported, at any level
    errors,     \* the seqs it reported as an error
    polled,     \* the events of the latest poll, if it stored them; else Null
    shifted,    \* has ESPN ever done more than add to the end?
    edits       \* how often it has changed the list

espn == <<keyEvents, comp, shifted, edits>>
drift == <<logged, reported, errors>>
vars == <<keyEvents, comp, row, log, last, logged, reported, errors, polled, shifted,
          edits>>

\* The match is final.
over == StatusFromComp(comp) = "FINISHED"

KeyEvents == [what : Whats, slug : Slugs, text : Texts]
NoEvents == [q \in {} |-> Null]

\* f is the beginning of g.
Begins(f, g) == DOMAIN f \subseteq DOMAIN g /\ \A q \in DOMAIN f : f[q] = g[q]

AboveHead(q, events) == \A p \in DOMAIN events : p < q

Init ==
    /\ keyEvents = <<>> /\ comp \in Comps
    /\ row = Null /\ log = NoEvents
    /\ last = Null
    /\ logged = NoEvents /\ reported = NoEvents /\ errors = {}
    /\ polled = Null
    /\ shifted = FALSE /\ edits = 0

-----------------------------------------------------------------------------
(* ESPN.                                                                   *)

Edit(list) ==
    /\ edits < MaxEdits /\ Len(list) <= MaxFeed
    /\ edits' = edits + 1
    /\ list # keyEvents
    /\ keyEvents' = list
    /\ shifted' = (shifted \/ ~Begins(Numbered(keyEvents), Numbered(list)))
    /\ UNCHANGED <<comp, row, log, last, drift, polled>>

AddEvent == \E raw \in KeyEvents : Edit(Append(keyEvents, raw))

AmendEvent == \E i \in DOMAIN keyEvents, slug \in Slugs, text \in Texts :
            Edit([keyEvents EXCEPT ![i].slug = slug, ![i].text = text])

InsertEvent == \E i \in DOMAIN keyEvents, raw \in KeyEvents : Edit(InsertAt(keyEvents, i, raw))

RemoveEvent == \E i \in DOMAIN keyEvents : Edit(RemoveAt(keyEvents, i))

\* Half time, the final whistle, or a status that flaps.
Whistle ==
    /\ comp' \in Comps \ {comp}
    /\ UNCHANGED <<keyEvents, row, log, last, drift, polled, shifted, edits>>

-----------------------------------------------------------------------------
(* The poll.                                                               *)

\* diff_match: the events that the baseline does not carry with this content.
NewEvents(events) ==
    LET fresh == {q \in DOMAIN events :
                     ~(last # Null /\ q \in DOMAIN last.events /\ last.events[q] = events[q])}
    IN  [q \in fresh |-> events[q]]

\* append_events refuses the batch.
Conflict(new) ==
    \E q \in DOMAIN new : IF q \in DOMAIN log THEN log[q] # new[q] ELSE ~AboveHead(q, log)

\* Mutant: a refused batch is left alone.
ExtendedUnlessRefused(new) ==
    IF Conflict(new) THEN log
    ELSE [q \in DOMAIN log \cup DOMAIN new |-> IF q \in DOMAIN log THEN log[q] ELSE new[q]]

\* The log with those of the new events that are above its head.
Extended(new) ==
    [q \in DOMAIN log \cup {p \in DOMAIN new : AboveHead(p, log)} |->
        IF q \in DOMAIN log THEN log[q] ELSE new[q]]

\* The seqs that _reconcile_sequence_conflict finds in contradiction to the log.
Mismatches(new) ==
    {q \in DOMAIN new : IF q \in DOMAIN log THEN log[q] # new[q] ELSE ~AboveHead(q, log)}

Signature(q, new) ==
    [kind |-> IF q \in DOMAIN log THEN "conflict" ELSE "retroactive", event |-> new[q]]

Reports(new) == [q \in Mismatches(new) |-> Signature(q, new)]

\* Those of the reports that differ from what was reported of the seq before.
FreshReports(new) ==
    {q \in Mismatches(new) : ~(q \in DOMAIN logged /\ logged[q] = Signature(q, new))}

\* A mismatch is remembered; a seq that is sent again as it is stored is forgotten.
LoggedAfter(new) ==
    LET settled == {q \in DOMAIN new : q \in DOMAIN log /\ log[q] = new[q]} IN
    [q \in (DOMAIN logged \ settled) \cup Mismatches(new) |->
        IF q \in Mismatches(new) THEN Signature(q, new) ELSE logged[q]]

\* Mutant: the baseline takes in what was refused.
BaselineWhole(events, new) == events

\* The baseline after an apply: a refused batch leaves what is stored.
Baseline(events, new) == IF Conflict(new) THEN Extended(new) ELSE events

\* Mutant: a final match's memory goes although it drifted in this poll.
KeptAfterNever(memory, drifted) == IF over THEN NoEvents ELSE memory

\* _evict_match_tracking, called for a durable snapshot that is not live.
KeptAfter(memory, drifted) == IF over /\ ~drifted THEN NoEvents ELSE memory

\* A live match, one that was live, and one that is first seen final are asked for
\* their detail.
WantsDetail ==
    \/ ~over
    \/ last # Null /\ ~last.over
    \/ last = Null /\ row # "final"

\* Nothing of the snapshot differs from the baseline.
PollUnchanged(events) ==
    /\ last # Null /\ last.over = over
    /\ NewEvents(events) = NoEvents
    /\ logged' = KeptAfter(logged, FALSE)
    /\ reported' = NoEvents /\ errors' = {}
    /\ UNCHANGED <<row, log, last>>

\* _apply: the row, the events, the side tables; only then the baseline.  The row may
\* differ where the events do not.
PollApplied(events, sideTablesOk) ==
    LET new == NewEvents(events)
        refused == Conflict(new)
        memory == IF refused THEN LoggedAfter(new) ELSE logged
    IN
    /\ row' = IF over THEN "final" ELSE "live"
    /\ log' = Extended(new)
    /\ reported' = IF refused THEN Reports(new) ELSE NoEvents
    /\ errors' = IF refused THEN FreshReports(new) ELSE {}
    /\ IF sideTablesOk
       THEN /\ last' = [over |-> over, events |-> Baseline(events, new)]
            /\ logged' = KeptAfter(memory, refused)
       ELSE /\ logged' = memory
            /\ UNCHANGED last

\* The board carries no events: they are the detail's.
PollWithDetail ==
    LET events == Numbered(keyEvents) IN
    /\ WantsDetail
    /\ \/ /\ PollUnchanged(events)
          /\ polled' = events
       \/ \E sideTablesOk \in BOOLEAN :
             /\ PollApplied(events, sideTablesOk)
             /\ polled' = IF sideTablesOk THEN events ELSE Null
    /\ UNCHANGED espn

\* A final match that is stored is not asked again; a live one whose detail fails
\* goes on as its board.
PollBoardOnly ==
    /\ ~over \/ ~WantsDetail
    /\ \/ PollUnchanged(NoEvents)
       \/ \E sideTablesOk \in BOOLEAN : PollApplied(NoEvents, sideTablesOk)
    /\ polled' = Null
    /\ UNCHANGED espn

\* The daemon is stopped and started again.
Restart ==
    /\ last' = Null
    /\ logged' = NoEvents /\ reported' = NoEvents /\ errors' = {}
    /\ polled' = Null
    /\ UNCHANGED <<espn, row, log>>

Next ==
    \/ AddEvent \/ AmendEvent \/ InsertEvent \/ RemoveEvent \/ Whistle
    \/ PollWithDetail \/ PollBoardOnly \/ Restart

Spec == Init /\ [][Next]_vars

-----------------------------------------------------------------------------
(* Properties.                                                             *)

\* While ESPN only adds to the end, the log is the match's timeline, both cards of a
\* second booking included, and nothing of a stored poll is missing from it.
LogMirrorsFeed ==
    ~shifted => LET timeline == Timeline(keyEvents) IN
                /\ DOMAIN log \subseteq 0 .. Len(timeline) - 1
                /\ \A q \in DOMAIN log : log[q] = timeline[q + 1]
                /\ last # Null /\ polled # Null => Begins(polled, log)

\* "no wedge" (engine.py): whatever ESPN did to the list, every position that a
\* stored poll had is in the log.
NoWedge == polled # Null => DOMAIN polled \subseteq DOMAIN log

\* Drift stays loud: every position at which a stored poll contradicts the log is
\* reported in that poll, however often it was before.
DriftStaysLoud ==
    polled # Null => \A q \in DOMAIN polled \cap DOMAIN log :
                        polled[q] # log[q] => q \in DOMAIN reported

\* A mismatch that persists from one poll to the next is an error only the first time
\* (_log_drift_once), also when the match ends and its memory may be evicted.
ErrorOnce ==
    [][UNCHANGED espn =>
          \A q \in errors' \cap DOMAIN reported : reported'[q] # reported[q]]_vars

=============================================================================
