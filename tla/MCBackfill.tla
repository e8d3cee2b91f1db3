------------------------------- MODULE MCBackfill -------------------------------
(* One requested day, three chunks with the padding.  m1 is on the slate of the *)
(* eve of its kickoff; m2 has no events and is listed twice, on the day and on  *)
(* the next.                                                                    *)
EXTENDS BackfillRun, TLC

CONSTANTS m1, m2

TheTotal == m1 :> 2 @@ m2 :> 0

TheKickoff == m1 :> 1 @@ m2 :> 1

TheSlate == 0 :> {m1} @@ 1 :> {m2} @@ 2 :> {m2}

=============================================================================
