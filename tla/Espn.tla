--------------------------------- MODULE Espn ---------------------------------
(***************************************************************************)
(* The ESPN adapter (gamecollect_football/espn.py): what becomes of a      *)
(* response, of a competition's status and of a summary's key events.      *)
(*                                                                         *)
(* A key event is [what, slug, text]: what stands for its minute, team and *)
(* participants.  An event is [what, type, text]; its seq is its position  *)
(* in the list.  Descriptions and slugs that the code treats alike have    *)
(* one or two representatives here.                                        *)
(***************************************************************************)
EXTENDS Integers, SequencesExt

Unknown == "UNKNOWN"

\* normalize_status: the tables of description strings; anything else is unknown.
NormalizeStatus(description) ==
    CASE description \in {"Full Time", "FT", "FINISHED"}                     -> "FINISHED"
      [] description \in {"Half Time", "Halftime", "PAUSED"}                 -> "PAUSED"
      [] description \in {"In Progress", "First Half", "Second Half"}        -> "IN_PLAY"
      [] description \in {"Scheduled", "TIMED"}                              -> "SCHEDULED"
      [] OTHER                                                               -> Unknown

StateStatus(state) ==
    CASE state = "pre"  -> "SCHEDULED"
      [] state = "in"   -> "IN_PLAY"
      [] state = "post" -> "FINISHED"
      [] OTHER          -> Unknown

\* The description decides; the coarse state catches what no table lists.
StatusFromComp(comp) ==
    LET granular == NormalizeStatus(comp.description) IN
    IF granular = Unknown THEN StateStatus(comp.state) ELSE granular

-----------------------------------------------------------------------------
(* A key event becomes zero, one or two events.                            *)

OwnGoalSlugs == {"own-goal", "own-goal---header", "own---header"}
GoalSlugs == {"goal", "goal---volley", "goal---penalty", "penalty-goal"}
SecondYellowSlug == "yellow-red-card"
SecondYellowDetail == "Second yellow card"

\* _classify_goal_slug before the exact table; <<>> for a slug that neither knows.
EventType(slug) ==
    CASE slug \in OwnGoalSlugs                -> <<"own_goal">>
      [] slug \in GoalSlugs                   -> <<"goal">>
      [] slug = "yellow-card"                 -> <<"yellow">>
      [] slug = "red-card"                    -> <<"red">>
      [] slug = "substitution"                -> <<"sub">>
      [] slug = "penalty"                     -> <<"penalty">>
      [] slug = "kickoff"                     -> <<"kickoff">>
      [] slug \in {"halftime", "half-time"}   -> <<"half_time">>
      [] slug = "full-time"                   -> <<"full_time">>
      [] OTHER                                -> <<>>

Event(raw, type, text) == [what |-> raw.what, type |-> type, text |-> text]

NormalizeKeyEvent(raw) ==
    IF raw.slug = SecondYellowSlug
    THEN <<Event(raw, "yellow", SecondYellowDetail), Event(raw, "red", raw.text)>>
    ELSE [i \in DOMAIN EventType(raw.slug) |-> Event(raw, EventType(raw.slug)[i], raw.text)]

\* Every event of the key events, in their order.
Timeline(keyEvents) ==
    FoldLeft(LAMBDA events, raw : events \o NormalizeKeyEvent(raw), <<>>, keyEvents)

\* Mutant: the source index is the seq, and the second of two rows is ignored.
NumberedBySource(keyEvents) ==
    [q \in {i - 1 : i \in {i \in DOMAIN keyEvents : NormalizeKeyEvent(keyEvents[i]) # <<>>}} |->
        NormalizeKeyEvent(keyEvents[q + 1])[1]]

\* norm_ev.seq = len(events): seqs are given after the expansion, from 0.
Numbered(keyEvents) ==
    [q \in 0 .. Len(Timeline(keyEvents)) - 1 |-> Timeline(keyEvents)[q + 1]]

-----------------------------------------------------------------------------
(* What a request comes to: the parsed object, or the error that leaves    *)
(* the adapter.                                                            *)

TransportErrors == {"timeout", "refused", "httpError", "incompleteRead"}
NotJson == {"tooLarge", "html", "notJson"}
MalformedObjects == {"notAnObject", "missingKey", "blankId", "noPossession"}

\* _default_http_get and the wrappers of _fetch_scoreboard and fetch_match_detail.
\* Bytes that are not UTF-8 raise UnicodeDecodeError, which neither of them maps.
FetchOutcome(response) ==
    CASE response \in TransportErrors \cup NotJson -> "unavailable"
      [] response \in MalformedObjects             -> "shapeDrift"
      [] response = "notUtf8"                      -> "fatal"
      [] OTHER                                     -> "ok"
=============================================================================
