-------------------------------- MODULE MCFeed --------------------------------
(* Feed on short lists.                                                      *)
EXTENDS Feed

Alike == Permutations(Whats)

\* No table knows the first description: its state decides.
Shown == {[description |-> "Penalty Shootout", state |-> "in"], [description |-> "Full Time", state |-> "post"]}
=============================================================================
