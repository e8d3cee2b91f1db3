--------------------------- MODULE PartitionWriter ---------------------------
(***************************************************************************)
(* The write path of the shared SQLite file: PartitionWriter in            *)
(* src/gamecollect/db/writer.py, over the tables of schema.sql.            *)
(*                                                                         *)
(* A writer is one PartitionWriter object: a process that writes the       *)
(* partition of one source.  Several writers share the file.  A call of a  *)
(* writer is a few autocommit SELECTs followed by one transaction, and     *)
(* other writers' transactions may commit between any two of those.  Each  *)
(* SELECT and each transaction is an action here; a transaction holds      *)
(* SQLite's write lock from its first INSERT to its commit, so it is one   *)
(* atomic step.                                                            *)
(*                                                                         *)
(* Abstracted data: an event row is its seq and its content (every other   *)
(* column, the writer's fingerprint); a column of a matches row is the     *)
(* source whose call last wrote it.                                        *)
(***************************************************************************)
EXTENDS Integers, Sequences

CONSTANTS
    Writers,      \* the PartitionWriter objects
    Sources,      \* the partitions
    SourceOf,     \* SourceOf[w] is the source the writer is scoped to
    Matches,      \* match ids: globally unambiguous, so shared by all sources
    Columns,      \* the updatable columns of a matches row
    ProviderIds,  \* provider-native match ids
    Seqs,         \* event sequence numbers, provider-derived
    Contents,     \* event fingerprints
    Taxonomy,     \* the contents whose type the active pack declares
    MaxBatch,     \* bound: the longest batch a caller sends
    Absent        \* no such row, or a NULL column

ASSUME WriterAssumption ==
    /\ SourceOf \in [Writers -> Sources]
    /\ Seqs \subseteq Int
    /\ MaxBatch \in Nat
    /\ Taxonomy \subseteq Contents
    /\ Absent \notin Sources \cup Contents \cup Matches

VARIABLES
    matches,      \* matches[m]: the source that owns the row, or Absent
    columns,      \* columns[m][c]: the source that wrote the column, or Absent
    events,       \* events[s, m, q]: the content of the row with that key
    matchMap,     \* matchMap[s, p]: provider_match_map, one provider
    call,         \* call[w]: the writer's call in progress
    outcome       \* outcome[w]: how the writer's last call ended

vars == <<matches, columns, events, matchMap, call, outcome>>

-----------------------------------------------------------------------------
(* Types.                                                                  *)

EventRow == [seq : Seqs, content : Contents]

Batches == UNION {[1 .. n -> EventRow] : n \in 0 .. MaxBatch}

Outcomes == {"none", "ok", "CrossPartitionError", "UnseededMatchError",
             "SequenceError", "TaxonomyError", "crashed"}

Phases == {"idle", "upsert", "map", "head", "stored", "insert"}

\* The local variables of a call that live across two database statements.
Calls == [pc : Phases, match : Matches \cup {Absent}, cols : SUBSET Columns,
          pid : ProviderIds \cup {Absent}, batch : Batches,
          seen : SUBSET Seqs, stored : [Seqs -> Contents \cup {Absent}]]

NothingStored == [q \in Seqs |-> Absent]

Idle == [pc |-> "idle", match |-> Absent, cols |-> {}, pid |-> Absent,
         batch |-> <<>>, seen |-> {}, stored |-> NothingStored]

EventKeys == Sources \X Matches \X Seqs

-----------------------------------------------------------------------------
(* What a call reads.                                                      *)

\* The seqs that have a row in the partition of one match.
Present(s, m) == {q \in Seqs : events[<<s, m, q>>] # Absent}

\* The seqs of a batch, and the content it carries for a seq.
BatchSeqs(b) == {b[i].seq : i \in DOMAIN b}

Incoming(b, q) == CHOOSE c \in Contents : \E i \in DOMAIN b : b[i] = [seq |-> q, content |-> c]

\* sorted(set(seqs)) = seqs: the batch is strictly increasing by seq.
StrictlyIncreasing(b) == \A i, j \in DOMAIN b : i < j => b[i].seq < b[j].seq

\* seq <= MAX(seq), for the rows that were there when MAX was read.
AtOrBelowHead(q, seen) == \E p \in seen : q <= p

\* Mutant: child writes are let through when the match row does not exist yet.
MatchOwnedUnseeded(w, m, requireSeeded) ==
    IF matches[m] \in {Absent, SourceOf[w]} THEN "ok" ELSE "CrossPartitionError"

\* _assert_match_owned: what the SELECT on matches makes of a call of writer w.
MatchOwned(w, m, requireSeeded) ==
    CASE matches[m] = Absent /\ requireSeeded -> "UnseededMatchError"
      [] matches[m] = Absent /\ ~requireSeeded -> "ok"
      [] matches[m] # Absent /\ matches[m] # SourceOf[w] -> "CrossPartitionError"
      [] OTHER -> "ok"

\* The checks append_events makes of a batch before it touches the database.
BatchVerdict(b) ==
    CASE \E i \in DOMAIN b : b[i].content \notin Taxonomy -> "TaxonomyError"
      [] ~StrictlyIncreasing(b) -> "SequenceError"
      [] OTHER -> "ok"

-----------------------------------------------------------------------------
(* Steps of a call.                                                        *)

\* The call raises (or returns) without having written anything.
Return(w, result) ==
    /\ call' = [call EXCEPT ![w] = Idle]
    /\ outcome' = [outcome EXCEPT ![w] = result]

Continue(w, local) ==
    /\ call' = [call EXCEPT ![w] = local]
    /\ UNCHANGED outcome

\* A call is entered: its locals are set and the last result is forgotten.
Enter(w, local) ==
    /\ call' = [call EXCEPT ![w] = local]
    /\ outcome' = [outcome EXCEPT ![w] = "none"]

tables == <<matches, columns, events, matchMap>>

\* upsert_match, up to and including the ownership SELECT.
UpsertMatch(w, m, cols) ==
    /\ call[w].pc = "idle"
    /\ IF MatchOwned(w, m, FALSE) = "ok"
       THEN Enter(w, [Idle EXCEPT !.pc = "upsert", !.match = m, !.cols = cols])
       ELSE Return(w, MatchOwned(w, m, FALSE))
    /\ UNCHANGED tables

\* Mutant: ON CONFLICT DO UPDATE without its WHERE guard.
UpsertUnguarded(w, m) == TRUE

\* The row the ON CONFLICT clause of upsert_match may write: its own or none.
UpsertAllowed(w, m) == matches[m] \in {Absent, SourceOf[w]}

\* upsert_match's transaction: INSERT, or UPDATE of the provided columns only
\* where the stored row has this source; rowcount 0 raises and rolls back.
CommitUpsert(w) ==
    LET m == call[w].match IN
    /\ call[w].pc = "upsert"
    /\ IF UpsertAllowed(w, m)
       THEN /\ matches' = [matches EXCEPT ![m] = IF @ = Absent THEN SourceOf[w] ELSE @]
            /\ columns' = [columns EXCEPT ![m] = [c \in Columns |->
                              IF c \in call[w].cols THEN SourceOf[w] ELSE columns[m][c]]]
            /\ Return(w, "ok")
       ELSE /\ UNCHANGED <<matches, columns>>
            /\ Return(w, "CrossPartitionError")
    /\ UNCHANGED <<events, matchMap>>

\* map_provider_match, up to and including the ownership SELECT.
MapProviderMatch(w, p, m) ==
    /\ call[w].pc = "idle"
    /\ IF MatchOwned(w, m, TRUE) = "ok"
       THEN Enter(w, [Idle EXCEPT !.pc = "map", !.match = m, !.pid = p])
       ELSE Return(w, MatchOwned(w, m, TRUE))
    /\ UNCHANGED tables

\* map_provider_match's transaction: INSERT or UPDATE of the mapping.
CommitMap(w) ==
    /\ call[w].pc = "map"
    /\ matchMap' = [matchMap EXCEPT ![<<SourceOf[w], call[w].pid>>] = call[w].match]
    /\ Return(w, "ok")
    /\ UNCHANGED <<matches, columns, events>>

\* append_events: the empty batch, the checks of the batch, the ownership SELECT.
AppendEvents(w, m, b) ==
    /\ call[w].pc = "idle"
    /\ IF b = <<>> THEN Return(w, "ok")
       ELSE IF BatchVerdict(b) # "ok" THEN Return(w, BatchVerdict(b))
       ELSE IF MatchOwned(w, m, TRUE) # "ok" THEN Return(w, MatchOwned(w, m, TRUE))
       ELSE Enter(w, [Idle EXCEPT !.pc = "head", !.match = m, !.batch = b])
    /\ UNCHANGED tables

\* SELECT MAX(seq).  The set of seqs read stands for their maximum.
ReadHead(w) ==
    /\ call[w].pc = "head"
    /\ Continue(w, [call[w] EXCEPT !.pc = "stored",
                                   !.seen = Present(SourceOf[w], call[w].match)])
    /\ UNCHANGED tables

\* SELECT of the stored fingerprints of the batch's seqs.
ReadStored(w) ==
    /\ call[w].pc = "stored"
    /\ Continue(w, [call[w] EXCEPT !.pc = "insert",
           !.stored = [q \in Seqs |-> IF q \in BatchSeqs(call[w].batch)
                                      THEN events[<<SourceOf[w], call[w].match, q>>]
                                      ELSE Absent]])
    /\ UNCHANGED tables

\* Mutant: the fingerprint is too weak to tell two contents apart.
DriftedNever(c) == FALSE

\* Mutant: only the first row of the batch is held against the head.
RetroactiveFirstRow(c) ==
    c.stored[c.batch[1].seq] = Absent /\ AtOrBelowHead(c.batch[1].seq, c.seen)

\* The two SequenceErrors of the transaction, against what the SELECTs returned:
\* a re-sent seq with another fingerprint, a new seq at or below the head.
Drifted(c) == \E i \in DOMAIN c.batch :
    c.stored[c.batch[i].seq] \notin {Absent, c.batch[i].content}

Retroactive(c) == \E q \in BatchSeqs(c.batch) :
    c.stored[q] = Absent /\ AtOrBelowHead(q, c.seen)

\* The table after INSERT OR IGNORE of the rows the SELECT did not find.
InsertOrIgnore(w) ==
    LET c == call[w]
        fresh == {<<SourceOf[w], c.match, q>> : q \in {p \in BatchSeqs(c.batch) : c.stored[p] = Absent}}
    IN  [k \in EventKeys |-> IF k \in fresh /\ events[k] = Absent
                             THEN Incoming(c.batch, k[3]) ELSE events[k]]

\* append_events' transaction: all rows of the batch, or none.
CommitAppend(w) ==
    /\ call[w].pc = "insert"
    /\ IF Drifted(call[w]) \/ Retroactive(call[w])
       THEN /\ UNCHANGED events
            /\ Return(w, "SequenceError")
       ELSE /\ events' = InsertOrIgnore(w)
            /\ Return(w, "ok")
    /\ UNCHANGED <<matches, columns, matchMap>>

\* The process dies between two statements; SQLite keeps what was committed.
Crash(w) ==
    /\ call[w].pc # "idle"
    /\ Return(w, "crashed")
    /\ UNCHANGED tables

-----------------------------------------------------------------------------
Init ==
    /\ matches = [m \in Matches |-> Absent]
    /\ columns = [m \in Matches |-> [c \in Columns |-> Absent]]
    /\ events = [k \in EventKeys |-> Absent]
    /\ matchMap = [k \in Sources \X ProviderIds |-> Absent]
    /\ call = [w \in Writers |-> Idle]
    /\ outcome = [w \in Writers |-> "none"]

Step(w) ==
    \/ \E m \in Matches, cols \in SUBSET Columns : UpsertMatch(w, m, cols)
    \/ CommitUpsert(w)
    \/ \E m \in Matches, p \in ProviderIds : MapProviderMatch(w, p, m)
    \/ CommitMap(w)
    \/ \E m \in Matches, b \in Batches : AppendEvents(w, m, b)
    \/ ReadHead(w)
    \/ ReadStored(w)
    \/ CommitAppend(w)
    \/ Crash(w)

Next == \E w \in Writers : Step(w)

Spec == Init /\ [][Next]_vars

-----------------------------------------------------------------------------
(* Properties.                                                             *)

TypeOK ==
    /\ matches \in [Matches -> Sources \cup {Absent}]
    /\ columns \in [Matches -> [Columns -> Sources \cup {Absent}]]
    /\ events \in [EventKeys -> Contents \cup {Absent}]
    /\ matchMap \in [Sources \X ProviderIds -> Matches \cup {Absent}]
    /\ call \in [Writers -> Calls]
    /\ \A w \in Writers : call[w].pc # "idle" => call[w].match \in Matches
    /\ outcome \in [Writers -> Outcomes]

\* No shadow partition: an event row or a provider mapping exists only under a
\* match whose matches row belongs to the same source, although ownership was
\* checked in an earlier statement than the one that wrote it
\* (_assert_match_owned, writer.py).
ChildRowsOwned ==
    /\ \A k \in EventKeys : events[k] # Absent => matches[k[2]] = k[1]
    /\ \A k \in Sources \X ProviderIds :
           matchMap[k] # Absent => matches[matchMap[k]] = k[1]

\* A matches row holds only what writers of its own source wrote, even when two
\* sources raced to create it (the WHERE guard of upsert_match).
ColumnsOwned ==
    \A m \in Matches, c \in Columns : columns[m][c] \in {Absent, matches[m]}

\* The owner of a match never changes.
OwnerStable == [][\A m \in Matches : matches[m] # Absent => matches'[m] = matches[m]]_vars

\* The event log is append-only: no step of any writer changes or removes a
\* stored event row (INSERT OR IGNORE; no UPDATE, no DELETE).
EventsImmutable ==
    [][\A k \in EventKeys : events[k] # Absent => events'[k] = events[k]]_vars

\* seq is monotonic per (source, match): a new row lands above every row that is
\* there when it is committed, so a reader that asks for the events since the
\* last seq it saw misses none (append_events, reader.get_events_since).
SeqMonotone ==
    [][\A s \in Sources, m \in Matches, q, p \in Seqs :
          (events[<<s, m, p>>] # Absent /\ events[<<s, m, q>>] = Absent
             /\ events'[<<s, m, q>>] # Absent) => p < q]_vars

\* An append_events call that returns has stored its batch: every row of it is in
\* the table with exactly the content sent.  A mismatch raises SequenceError, it
\* is never dropped silently.
AckedMeansStored ==
    [][\A w \in Writers :
          (call[w].pc = "insert" /\ call'[w].pc = "idle" /\ outcome'[w] = "ok") =>
             \A i \in DOMAIN call[w].batch :
                 events'[<<SourceOf[w], call[w].match, call[w].batch[i].seq>>]
                     = call[w].batch[i].content]_vars

\* The writer discipline of DESIGN.md section 3, under which the last two hold.
OneWriterPerSource == \A v, w \in Writers : SourceOf[v] = SourceOf[w] => v = w

-----------------------------------------------------------------------------
(* Inductive strengthenings, used by the proofs.                           *)

\* A call past its ownership check still owns its match: the answer of the
\* SELECT cannot go stale, because owners are stable.
InFlightOwned ==
    \A w \in Writers : call[w].pc \in {"map", "head", "stored", "insert"} =>
                            matches[call[w].match] = SourceOf[w]

OwnershipInv == TypeOK /\ ChildRowsOwned /\ ColumnsOwned /\ InFlightOwned

\* With one writer per source, what append_events read is still what is stored
\* when its transaction begins.
ReadsCurrent ==
    \A w \in Writers :
        /\ call[w].pc \in {"head", "stored", "insert"} => StrictlyIncreasing(call[w].batch)
        /\ call[w].pc \in {"stored", "insert"} =>
               call[w].seen = Present(SourceOf[w], call[w].match)
        /\ call[w].pc = "insert" =>
               \A q \in BatchSeqs(call[w].batch) :
                   call[w].stored[q] = events[<<SourceOf[w], call[w].match, q>>]
=============================================================================
