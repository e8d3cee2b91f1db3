------------------------------ MODULE EventLog ------------------------------
(***************************************************************************)
(* What the shared file promises to the programs that read events from it  *)
(* (docs of src/gamecollect/db/reader.py and client.py): one append-only   *)
(* log per match, whichever process writes it; a reader that asks again    *)
(* and again for what is new has, after each call, exactly what is stored. *)
(* The writers' statements and the reader's cursor are not visible here.   *)
(***************************************************************************)
EXTENDS Integers

CONSTANTS
    Matches,   \* match ids
    Seqs,      \* sequence numbers of events
    Contents   \* contents of events

VARIABLES
    log,       \* log[m]: the events of the match
    seen       \* seen[m]: the events the reader has been given

Rows == [seq : Seqs, content : Contents]

\* A log grows by any number of rows at once, all above what it held; a seq is
\* used once.
Extends(old, new) ==
    /\ old \subseteq new /\ new \subseteq Rows
    /\ \A o \in old, r \in new \ old : o.seq < r.seq
    /\ \A r, s \in new : r.seq = s.seq => r = s

Append(m) ==
    /\ UNCHANGED seen
    /\ Extends(log[m], log'[m])
    /\ \A n \in Matches \ {m} : log'[n] = log[n]

\* A read brings the reader all that it has not seen.
Follow(m) ==
    /\ seen' = [seen EXCEPT ![m] = log[m]]
    /\ UNCHANGED log

Init ==
    /\ log = [m \in Matches |-> {}]
    /\ seen = [m \in Matches |-> {}]

Next == \E m \in Matches : Append(m) \/ Follow(m)

Spec == Init /\ [][Next]_<<log, seen>>
=============================================================================
