------------------------------ MODULE EngineLive ------------------------------
(***************************************************************************)
(* The progress of Engine once its surroundings settle: from some moment on *)
(* no scoreboard shows a match live any more, and neither the process nor  *)
(* the pack's hooks fail.  Details may go on failing, or saying whatever    *)
(* they like.                                                              *)
(***************************************************************************)
EXTENDS Engine

CONSTANT MayStrand    \* whether an apply may leave a live row that nothing follows

ASSUME MayStrandAssumption == MayStrand \in BOOLEAN

VARIABLE settled

allVars == <<vars, settled>>

LiveInit == Init /\ settled = FALSE

\* Between two polls the surroundings settle, for good.
Settle ==
    /\ phase = "idle" /\ ~settled
    /\ settled' = TRUE
    /\ UNCHANGED vars

\* An apply that fails for a live row of which the process has no baseline.  At most a
\* tracker follows the match then, and when that is abandoned nothing does: run
\* engine_stranded shows what comes of it.
Strands ==
    LET m == Head(queue).match IN
    last[m] = Null /\ rows'[m] # Null /\ Live(rows'[m])

Unsettled ==
    /\ ~settled
    /\ \/ NewPoll \/ SlateUnavailable \/ SmoothStep \/ Crash
       \/ ApplyFailed /\ (Strands => MayStrand)
    /\ UNCHANGED settled

SettledPoll ==
    /\ settled
    /\ \E board \in [Matches -> {b \in Boards : ~Live(b)} \cup {Null}] : StartPoll(board)
    /\ UNCHANGED settled

SettledStep == settled /\ SmoothStep /\ UNCHANGED settled

LiveNext == Unsettled \/ Settle \/ SettledPoll \/ SettledStep

\* run() polls until it is stopped, and a poll that began comes to its end: it handles
\* finitely many matches, the provider's requests time out, SQLite's lock has a
\* busy_timeout.  (This is weak fairness of SettledStep, put without ENABLED.)
LiveSpec ==
    /\ LiveInit /\ [][LiveNext]_allVars
    /\ WF_allVars(SettledPoll)
    /\ []<>(settled => phase = "idle")

NoLiveRow == \A m \in Matches : rows[m] = Null \/ ~Live(rows[m])

\* "the stored row must not stay in-play forever" (_fetch_poll_snapshots): when the
\* surroundings have settled, every live row is eventually closed, however often the
\* daemon crashed before.
LiveRowsClose == <>settled => <>[]NoLiveRow

\* Whatever was tracked, backfilled or abandoned before, the engine does not keep it for
\* ever: once settled, a time comes from which no match has a transition tracker, a
\* backfill tracker or a cooldown.  (A durable apply drops all three; a cooldown that
\* nobody asks for any more is purged.)
TrackingDrains ==
    <>settled => <>[](\A m \in Matches :
                        transitions[m] = Null /\ backfill[m] = Null /\ cooldowns[m] = Null)
=============================================================================
