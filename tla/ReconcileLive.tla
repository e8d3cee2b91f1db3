----------------------------- MODULE ReconcileLive -----------------------------
(***************************************************************************)
(* When the engine calls the seed hook of Reconcile.  A poll diffs what     *)
(* the provider shows against the engine's baseline and passes a match     *)
(* without a change by: neither the hook nor a write follows (poll_once).  *)
(* A finished match is so called for once more at the most, however long   *)
(* it stays on the scoreboard; only a restart, which forgets the           *)
(* baselines, brings it back.                                              *)
(***************************************************************************)
EXTENDS Reconcile

VARIABLE changed    \* changed[w][p]: p shows what w's baseline and its call lack

liveVars == <<vars, changed>>

\* Nothing is remembered at the start: every match is a change.
LiveInit == Init /\ changed = [w \in Writers |-> [p \in Pids |-> TRUE]]

\* The provider shows something new of p; it need never do so.
ShowsMore(p) ==
    /\ changed' = [w \in Writers |-> [changed[w] EXCEPT ![p] = TRUE]]
    /\ UNCHANGED vars

\* The poll comes to a match whose snapshot differs from the baseline.
Take(w, p) ==
    /\ changed[w][p]
    /\ Start(w, p)
    /\ changed' = [changed EXCEPT ![w][p] = FALSE]

\* The snapshot of the call becomes the baseline: every event it sent is stored.
Settles(w) == call[w].phase = "persist" /\ Baseline(w) = 1 .. call[w].match.last

\* A call that ends without a baseline, or with one rebuilt from storage, leaves the
\* match changed.
Work(w) ==
    /\ Step(w)
    /\ changed' = [changed EXCEPT ![w][call[w].match.id] =
                      @ \/ (call'[w].phase = "idle" /\ ~ Settles(w))]

\* The baseline of a match whose call raised is the old one; a restart has none.
Break(w) ==
    /\ Fail(w)
    /\ \/ /\ acked' = acked
          /\ changed' = [changed EXCEPT ![w][call[w].match.id] = TRUE]
       \/ /\ acked'[w] = [p \in Pids |-> {}]
          /\ changed' = [changed EXCEPT ![w] = [p \in Pids |-> TRUE]]

Outside ==
    /\ \E i \in Slugs \cup Pids :
          LoadSchedule(i) \/ ImportEvents(i) \/ ClearImported(i)
    /\ UNCHANGED changed

LiveNext ==
    \/ \E w \in Writers : Work(w) \/ Break(w) \/ \E p \in Pids : Take(w, p)
    \/ \E p \in Pids : ShowsMore(p)
    \/ Outside

\* A call runs to its end, and a poll comes to every match that has changed: such a match
\* stays on the scoreboard, or returns to it, until it has been taken up.
LiveSpec ==
    /\ LiveInit /\ [][LiveNext]_liveVars
    /\ \A w \in Writers : WF_liveVars(Work(w))
    /\ \A w \in Writers, p \in Pids : SF_liveVars(Take(w, p))

-----------------------------------------------------------------------------
(* Properties.                                                             *)

Listed(p) == \E i \in Canonical(p) : Exists(i) /\ rows[i].names # Null

\* No canonical row of p has imported events, and the provider names p's teams.
Healthy(p) ==
    /\ \A i \in Canonical(p) : \A e \in log[i] : e[1] # Null
    /\ \A w \in Writers : call[w].match # Null /\ call[w].match.id = p => call[w].match.named

\* Once the canonical row is there, for good without imported events, the next change of
\* the match, or the next restart, ends with the stub adopted: an adoption that was refused,
\* failed or cut short is made good.  (Without a change nothing need happen: see Take.)
AdoptionHeals ==
    \A p \in Pids :
        (Listed(p) /\ (\E w \in Writers : changed[w][p]) /\ []Healthy(p)) ~> ~ Exists(Stub[p])
=============================================================================
