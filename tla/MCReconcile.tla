----------------------------- MODULE MCReconcile -----------------------------
(* One match, that the schedule may list under a slug while it is collected *)
(* on its stub by one collector.                                           *)
EXTENDS ReconcileLive, SequencesExt

MCStub == [p \in Pids |-> <<"stub", p>>]

\* Every slug is a row of the match, in any order of kick-off distance.
MCFits == [p \in Pids |-> SetToSeq(Slugs)]

=============================================================================
