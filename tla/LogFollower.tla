----------------------------- MODULE LogFollower -----------------------------
(***************************************************************************)
(* The writers of PartitionWriter and a consumer beside them that follows  *)
(* matches with get_events_since (src/gamecollect/db/reader.py, client.py) *)
(* from the seq of the last event it got: together they implement          *)
(* EventLog.                                                               *)
(***************************************************************************)
EXTENDS PartitionWriter

\* The consumer's first call takes since_seq = -1, the default: everything.
ASSUME SeqAssumption == Seqs \subseteq Nat

VARIABLES
    cursor,    \* cursor[m]: the since_seq of the consumer's next call
    seen       \* seen[m]: the events it has been given

follower == <<cursor, seen>>

\* The rows of a match, of whatever source: readers pass no source.
RowsOf(m) ==
    {[seq |-> k[3], content |-> events[k]] :
        k \in {k \in Sources \X {m} \X Seqs : events[k] # Absent}}

\* get_events_since: the rows with seq strictly greater than the cursor.
EventsSince(m, seq) == {r \in RowsOf(m) : r.seq > seq}

\* A call, and the cursor moved to the last row it returned.
Follow(m) ==
    LET got == EventsSince(m, cursor[m]) IN
    /\ seen' = [seen EXCEPT ![m] = @ \cup got]
    /\ \/ got = {} /\ UNCHANGED cursor
       \/ \E last \in got : /\ \A r \in got : r.seq <= last.seq
                            /\ cursor' = [cursor EXCEPT ![m] = last.seq]
    /\ UNCHANGED vars

LogInit ==
    /\ Init
    /\ cursor = [m \in Matches |-> -1]
    /\ seen = [m \in Matches |-> {}]

LogNext ==
    \/ Next /\ UNCHANGED follower
    \/ \E m \in Matches : Follow(m)

LogSpec == LogInit /\ [][LogNext]_<<vars, follower>>

-----------------------------------------------------------------------------
(* Properties.                                                             *)

Log == INSTANCE EventLog WITH log <- [m \in Matches |-> RowsOf(m)]

\* With one writer per source, append_events and get_events_since implement an
\* append-only log per match whose reader misses nothing, although ownership, head
\* and stored rows are read in statements of their own.
ImplementsEventLog == Log!Spec

\* The consumer has exactly the rows up to its cursor.
SeenUpToCursor == \A m \in Matches : seen[m] = {r \in RowsOf(m) : r.seq <= cursor[m]}
=============================================================================
