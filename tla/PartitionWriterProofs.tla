------------------------ MODULE PartitionWriterProofs ------------------------
(***************************************************************************)
(* Proofs about PartitionWriter, for any number of writers, sources and    *)
(* rows; and the refinement: with one writer per source, the writers'      *)
(* statements and the reader's cursor (LogFollower) implement the abstract *)
(* log (EventLog).                                                         *)
(*                                                                         *)
(* The log of a match is the set of its rows.  A transaction of            *)
(* append_events is an Append, because the rows of a match belong to one   *)
(* source (ChildRowsOwned) and new ones lie above all of them              *)
(* (MonotoneStep).  A read by cursor is a Follow, because the consumer has *)
(* exactly the rows up to its cursor (SeenUpToCursor).                     *)
(***************************************************************************)
EXTENDS LogFollower, TLAPS

\* A content that a batch carries for a seq is a content of the batch.
LEMMA IncomingType ==
    ASSUME NEW b \in Batches, NEW q \in BatchSeqs(b)
    PROVE  /\ Incoming(b, q) \in Contents
           /\ \E i \in DOMAIN b : b[i] = [seq |-> q, content |-> Incoming(b, q)]
<1>1. PICK i \in DOMAIN b : b[i].seq = q
  BY DEF BatchSeqs
<1>2. b[i] \in EventRow
  BY DEF Batches
<1>3. b[i] = [seq |-> q, content |-> b[i].content] /\ b[i].content \in Contents
  BY <1>1, <1>2 DEF EventRow
<1> QED
  BY <1>3 DEF Incoming

\* The value Idle of the locals is well typed.
LEMMA IdleType == Idle \in Calls
<1>1. <<>> \in Batches
  <2>1. <<>> \in [1 .. 0 -> EventRow] /\ 0 \in 0 .. MaxBatch
    BY WriterAssumption
  <2> QED BY <2>1 DEF Batches
<1> QED
  BY <1>1 DEF Idle, Calls, Phases, NothingStored

\* What a call can return before it writes.
LEMMA VerdictType ==
    ASSUME NEW w \in Writers, NEW m \in Matches, NEW seeded \in BOOLEAN
    PROVE  MatchOwned(w, m, seeded) \in Outcomes
BY DEF MatchOwned, Outcomes

\* What the checks of a batch can answer.
LEMMA BatchVerdictType == ASSUME NEW b PROVE BatchVerdict(b) \in Outcomes
BY DEF BatchVerdict, Outcomes

\* The three ways a step leaves the locals well typed.
LEMMA LocalsTyped ==
    ASSUME NEW w \in Writers, TypeOK,
           \/ \E r \in Outcomes : Return(w, r)
           \/ \E c \in Calls : c.match \in Matches /\ (Enter(w, c) \/ Continue(w, c))
    PROVE  /\ call' \in [Writers -> Calls]
           /\ \A v \in Writers : call'[v].pc # "idle" => call'[v].match \in Matches
           /\ outcome' \in [Writers -> Outcomes]
<1>1. Idle.pc = "idle"
  BY DEF Idle
<1>2. CASE \E r \in Outcomes : Return(w, r)
  BY <1>1, <1>2, IdleType DEF TypeOK, Return, Outcomes
<1>3. ASSUME NEW c \in Calls, c.match \in Matches, Enter(w, c) \/ Continue(w, c)
      PROVE  /\ call' \in [Writers -> Calls]
             /\ \A v \in Writers : call'[v].pc # "idle" => call'[v].match \in Matches
             /\ outcome' \in [Writers -> Outcomes]
  BY <1>3 DEF TypeOK, Enter, Continue, Outcomes
<1> QED
  BY <1>2, <1>3

\* Every step keeps the tables and the locals well typed.
LEMMA TypeStep == TypeOK /\ [Next]_vars => TypeOK'
<1> USE WriterAssumption
<1> SUFFICES ASSUME TypeOK, [Next]_vars PROVE TypeOK'
  OBVIOUS
<1>1. CASE UNCHANGED vars
  BY <1>1 DEF vars, TypeOK
<1>2. ASSUME NEW w \in Writers, Step(w) PROVE TypeOK'
  <2>0. SourceOf[w] \in Sources /\ call[w] \in Calls /\ "ok" \in Outcomes
    BY DEF TypeOK, Outcomes
  <2>1. ASSUME NEW m \in Matches, NEW cols \in SUBSET Columns, UpsertMatch(w, m, cols)
        PROVE  TypeOK'
    <3> DEFINE local == [Idle EXCEPT !.pc = "upsert", !.match = m, !.cols = cols]
    <3>1. local \in Calls /\ local.match \in Matches
      BY IdleType DEF Calls, Phases, Idle
    <3> QED
      BY <2>1, <3>1, LocalsTyped, VerdictType DEF UpsertMatch, TypeOK, tables
  <2>2. CASE CommitUpsert(w)
    <3>1. matches' \in [Matches -> Sources \cup {Absent}]
      BY <2>2, <2>0 DEF CommitUpsert, TypeOK
    <3>3. columns' \in [Matches -> [Columns -> Sources \cup {Absent}]]
      <4> DEFINE m == call[w].match
                 row == [c \in Columns |-> IF c \in call[w].cols THEN SourceOf[w]
                                           ELSE columns[m][c]]
      <4>1. columns' = columns \/ columns' = [columns EXCEPT ![m] = row]
        BY <2>2 DEF CommitUpsert
      <4>2. m \in Matches
        BY <2>2 DEF CommitUpsert, TypeOK
      <4>3. row \in [Columns -> Sources \cup {Absent}]
        BY <2>0, <4>2 DEF TypeOK
      <4> HIDE DEF row
      <4> QED
        BY <4>1, <4>2, <4>3 DEF TypeOK
    <3>2. \E r \in Outcomes : Return(w, r)
      BY <2>2 DEF CommitUpsert, Outcomes
    <3> QED
      BY <2>2, <3>1, <3>2, <3>3, LocalsTyped DEF CommitUpsert, TypeOK
  <2>3. ASSUME NEW m \in Matches, NEW p \in ProviderIds, MapProviderMatch(w, p, m)
        PROVE  TypeOK'
    <3> DEFINE local == [Idle EXCEPT !.pc = "map", !.match = m, !.pid = p]
    <3>1. local \in Calls /\ local.match \in Matches
      BY IdleType DEF Calls, Phases, Idle
    <3> QED
      BY <2>3, <3>1, LocalsTyped, VerdictType DEF MapProviderMatch, TypeOK, tables
  <2>4. CASE CommitMap(w)
    <3>1. matchMap' \in [Sources \X ProviderIds -> Matches \cup {Absent}]
      BY <2>4, <2>0 DEF CommitMap, TypeOK, Calls
    <3> QED
      BY <2>4, <2>0, <3>1, LocalsTyped DEF CommitMap, TypeOK
  <2>5. ASSUME NEW m \in Matches, NEW b \in Batches, AppendEvents(w, m, b)
        PROVE  TypeOK'
    <3> DEFINE local == [Idle EXCEPT !.pc = "head", !.match = m, !.batch = b]
    <3>1. local \in Calls /\ local.match \in Matches
      BY IdleType DEF Calls, Phases, Idle
    <3>2. \/ \E r \in Outcomes : Return(w, r)
          \/ Enter(w, local)
      BY <2>5, <2>0, VerdictType, BatchVerdictType DEF AppendEvents
    <3> QED
      BY <2>5, <3>1, <3>2, LocalsTyped DEF AppendEvents, TypeOK, tables
  <2>6. CASE ReadHead(w)
    <3>1. Present(SourceOf[w], call[w].match) \in SUBSET Seqs
      BY DEF Present
    <3> DEFINE local == [call[w] EXCEPT !.pc = "stored", !.seen = Present(SourceOf[w], call[w].match)]
    <3>2. local \in Calls /\ local.match \in Matches
      BY <2>0, <2>6, <3>1 DEF Calls, Phases, ReadHead, TypeOK
    <3> QED
      BY <2>6, <3>2, LocalsTyped DEF ReadHead, TypeOK, tables
  <2>7. CASE ReadStored(w)
    <3> DEFINE found == [q \in Seqs |-> IF q \in BatchSeqs(call[w].batch)
                                        THEN events[<<SourceOf[w], call[w].match, q>>]
                                        ELSE Absent]
    <3>1. found \in [Seqs -> Contents \cup {Absent}]
      <4>1. call[w].match \in Matches
        BY <2>7 DEF ReadStored, TypeOK
      <4> QED
        BY <2>0, <4>1 DEF TypeOK, EventKeys
    <3> DEFINE local == [call[w] EXCEPT !.pc = "insert", !.stored = found]
    <3>2. local \in Calls /\ local.match \in Matches
      BY <2>0, <2>7, <3>1 DEF Calls, Phases, ReadStored, TypeOK
    <3> QED
      BY <2>7, <3>2, LocalsTyped DEF ReadStored, TypeOK, tables
  <2>8. CASE CommitAppend(w)
    <3>1. InsertOrIgnore(w) \in [EventKeys -> Contents \cup {Absent}]
      <4>1. ASSUME NEW k \in EventKeys, NEW q \in BatchSeqs(call[w].batch),
                   k = <<SourceOf[w], call[w].match, q>>
            PROVE  Incoming(call[w].batch, k[3]) \in Contents
        BY <4>1, <2>0, IncomingType DEF Calls
      <4> QED
        BY <4>1 DEF InsertOrIgnore, TypeOK
    <3>2. events' \in [EventKeys -> Contents \cup {Absent}]
      BY <2>8, <3>1 DEF CommitAppend, TypeOK
    <3>3. \E r \in Outcomes : Return(w, r)
      BY <2>8 DEF CommitAppend, Outcomes
    <3> QED
      BY <2>8, <3>2, <3>3, LocalsTyped DEF CommitAppend, TypeOK
  <2>9. CASE Crash(w)
    BY <2>9, LocalsTyped DEF Crash, Outcomes, TypeOK, tables
  <2> QED
    BY <1>2, <2>1, <2>2, <2>3, <2>4, <2>5, <2>6, <2>7, <2>8, <2>9 DEF Step
<1> QED
  BY <1>1, <1>2 DEF Next

\* The initial tables and locals are well typed.
LEMMA TypeInit == Init => TypeOK
<1>1. Idle.pc = "idle"
  BY DEF Idle
<1> QED
  BY <1>1, IdleType DEF Init, TypeOK, Outcomes

\* Type correctness of the shared tables and of every writer's locals.
THEOREM TypeCorrect == Spec => []TypeOK
BY TypeInit, TypeStep, PTL DEF Spec

-----------------------------------------------------------------------------
\* What a step of one writer does to owners and child rows, as a lemma that the
\* invariants and the action properties below share.
LEMMA StepEffect ==
    ASSUME OwnershipInv, NEW w \in Writers, Step(w)
    PROVE  /\ \A m \in Matches : matches[m] # Absent => matches'[m] = matches[m]
           /\ \A k \in EventKeys : events'[k] # events[k] =>
                  /\ events[k] = Absent
                  /\ call[w].pc = "insert"
                  /\ k[1] = SourceOf[w] /\ k[2] = call[w].match
<1> USE DEF OwnershipInv
<1>1. CASE CommitUpsert(w)
  BY <1>1 DEF CommitUpsert, TypeOK
<1>2. CASE CommitAppend(w)
  <2>1. UNCHANGED matches
    BY <1>2 DEF CommitAppend
  <2>2. ASSUME NEW k \in EventKeys, events'[k] # events[k]
        PROVE  /\ events[k] = Absent
               /\ k[1] = SourceOf[w] /\ k[2] = call[w].match
    BY <1>2, <2>2 DEF CommitAppend, InsertOrIgnore
  <2> QED
    BY <1>2, <2>1, <2>2 DEF CommitAppend
<1>3. CASE UNCHANGED <<matches, events>>
  BY <1>3
<1> QED
  BY <1>1, <1>2, <1>3 DEF Step, UpsertMatch, MapProviderMatch, CommitMap, AppendEvents,
     ReadHead, ReadStored, Crash, tables

\* What the two SELECTs of append_events leave in the locals.
LEMMA ReadEffect ==
    ASSUME TypeOK, NEW w \in Writers
    PROVE  /\ ReadHead(w) => /\ call'[w].pc = "stored"
                             /\ call'[w].match = call[w].match
                             /\ call'[w].batch = call[w].batch
                             /\ call'[w].seen = Present(SourceOf[w], call[w].match)
           /\ ReadStored(w) => /\ call'[w].pc = "insert"
                               /\ call'[w].match = call[w].match
                               /\ call'[w].batch = call[w].batch
                               /\ call'[w].seen = call[w].seen
                               /\ \A q \in BatchSeqs(call[w].batch) : q \in Seqs =>
                                      call'[w].stored[q] = events[<<SourceOf[w], call[w].match, q>>]
<1>0. call[w] \in Calls /\ w \in DOMAIN call
  BY DEF TypeOK
<1>1. ASSUME ReadHead(w)
      PROVE  /\ call'[w].pc = "stored" /\ call'[w].match = call[w].match
             /\ call'[w].batch = call[w].batch
             /\ call'[w].seen = Present(SourceOf[w], call[w].match)
  <2> DEFINE seqs == Present(SourceOf[w], call[w].match)
  <2>1. call'[w] = [call[w] EXCEPT !.pc = "stored", !.seen = seqs]
    BY <1>0, <1>1 DEF ReadHead, Continue
  <2> HIDE DEF seqs
  <2>2. /\ call'[w].pc = "stored" /\ call'[w].match = call[w].match
        /\ call'[w].batch = call[w].batch /\ call'[w].seen = seqs
    BY <1>0, <2>1 DEF Calls
  <2> QED
    BY <2>2 DEF seqs
<1>2. ASSUME ReadStored(w)
      PROVE  /\ call'[w].pc = "insert" /\ call'[w].match = call[w].match
             /\ call'[w].batch = call[w].batch /\ call'[w].seen = call[w].seen
             /\ \A q \in BatchSeqs(call[w].batch) : q \in Seqs =>
                    call'[w].stored[q] = events[<<SourceOf[w], call[w].match, q>>]
  <2> DEFINE found == [q \in Seqs |-> IF q \in BatchSeqs(call[w].batch)
                                      THEN events[<<SourceOf[w], call[w].match, q>>]
                                      ELSE Absent]
  <2>1. call'[w] = [call[w] EXCEPT !.pc = "insert", !.stored = found]
    BY <1>0, <1>2 DEF ReadStored, Continue
  <2>2. \A q \in BatchSeqs(call[w].batch) : q \in Seqs =>
            found[q] = events[<<SourceOf[w], call[w].match, q>>]
    OBVIOUS
  <2> HIDE DEF found
  <2>3. /\ call'[w].pc = "insert" /\ call'[w].match = call[w].match
        /\ call'[w].batch = call[w].batch /\ call'[w].seen = call[w].seen
        /\ call'[w].stored = found
    BY <1>0, <2>1 DEF Calls
  <2> QED
    BY <2>2, <2>3
<1> QED
  BY <1>1, <1>2

\* A writer that has just passed an ownership check owns the match.
LEMMA CheckedOwner ==
    ASSUME OwnershipInv, NEW w \in Writers, Step(w),
           call'[w].pc \in {"map", "head", "stored", "insert"}
    PROVE  call'[w].match \in Matches /\ matches[call'[w].match] = SourceOf[w]
<1> USE WriterAssumption DEF OwnershipInv
<1>0. Idle.pc = "idle" /\ Idle \in Calls
  BY IdleType DEF Idle
<1>1. ASSUME NEW m \in Matches, NEW cols \in SUBSET Columns, UpsertMatch(w, m, cols)
      PROVE  FALSE
  <2> DEFINE local == [Idle EXCEPT !.pc = "upsert", !.match = m, !.cols = cols]
  <2>1. local.pc = "upsert"
    BY DEF Idle
  <2>2. call'[w] \in {Idle, local}
    BY <1>1 DEF UpsertMatch, Enter, Return, TypeOK
  <2> QED
    BY <1>0, <2>1, <2>2
<1>2. CASE \E r \in Outcomes : Return(w, r)
  BY <1>0, <1>2 DEF Return, TypeOK
<1>3. ASSUME NEW m \in Matches, NEW p \in ProviderIds, MapProviderMatch(w, p, m)
      PROVE  call'[w].match \in Matches /\ matches[call'[w].match] = SourceOf[w]
  <2>1. CASE MatchOwned(w, m, TRUE) = "ok"
    <3>1. matches[m] = SourceOf[w]
      BY <2>1 DEF MatchOwned
    <3> DEFINE local == [Idle EXCEPT !.pc = "map", !.match = m, !.pid = p]
    <3>2. call'[w] = local /\ local.match = m
      BY <1>3, <2>1 DEF MapProviderMatch, Enter, TypeOK, Idle
    <3> QED BY <3>1, <3>2
  <2>2. CASE MatchOwned(w, m, TRUE) # "ok"
    BY <1>2, <1>3, <2>2, VerdictType DEF MapProviderMatch
  <2> QED BY <2>1, <2>2
<1>4. ASSUME NEW m \in Matches, NEW b \in Batches, AppendEvents(w, m, b)
      PROVE  call'[w].match \in Matches /\ matches[call'[w].match] = SourceOf[w]
  <2>1. CASE \E r \in Outcomes : Return(w, r)
    BY <1>2, <2>1
  <2>2. CASE ~ \E r \in Outcomes : Return(w, r)
    <3>1. /\ MatchOwned(w, m, TRUE) = "ok"
          /\ Enter(w, [Idle EXCEPT !.pc = "head", !.match = m, !.batch = b])
      <4>1. "ok" \in Outcomes
        BY DEF Outcomes
      <4> QED
        BY <1>4, <2>2, <4>1, VerdictType, BatchVerdictType DEF AppendEvents
    <3>2. matches[m] = SourceOf[w]
      BY <3>1 DEF MatchOwned
    <3> DEFINE local == [Idle EXCEPT !.pc = "head", !.match = m, !.batch = b]
    <3>3. call'[w] = local /\ local.match = m
      BY <3>1 DEF Enter, TypeOK, Idle
    <3> QED BY <3>2, <3>3
  <2> QED BY <2>1, <2>2
<1>5. CASE ReadHead(w) \/ ReadStored(w)
  <2>1. call'[w].match = call[w].match
    BY <1>5, ReadEffect
  <2> QED
    BY <1>5, <2>1 DEF ReadHead, ReadStored, InFlightOwned, TypeOK
<1>6. CASE CommitUpsert(w) \/ CommitMap(w) \/ CommitAppend(w) \/ Crash(w)
  BY <1>2, <1>6 DEF CommitUpsert, CommitMap, CommitAppend, Crash, Outcomes
<1> QED
  BY <1>1, <1>3, <1>4, <1>5, <1>6 DEF Step

\* A step leaves the locals of every other writer alone.
LEMMA OthersUntouched ==
    ASSUME NEW w \in Writers, Step(w), NEW v \in Writers, v # w, TypeOK
    PROVE  call'[v] = call[v]
BY DEF Step, UpsertMatch, CommitUpsert, MapProviderMatch, CommitMap, AppendEvents, ReadHead,
   ReadStored, CommitAppend, Crash, Return, Enter, Continue, TypeOK

\* Ownership is kept by every step: the checks that earlier statements made still
\* hold when the transaction runs.
LEMMA OwnershipStep == OwnershipInv /\ [Next]_vars => OwnershipInv'
<1> SUFFICES ASSUME OwnershipInv, [Next]_vars PROVE OwnershipInv'
  OBVIOUS
<1> USE WriterAssumption
<1>1. CASE UNCHANGED vars
  BY <1>1, TypeStep DEF vars, OwnershipInv, ChildRowsOwned, ColumnsOwned, InFlightOwned, TypeOK
<1>2. ASSUME NEW w \in Writers, Step(w) PROVE OwnershipInv'
  <2>0. TypeOK /\ TypeOK'
    BY TypeStep DEF OwnershipInv
  <2>1. InFlightOwned'
    <3> SUFFICES ASSUME NEW v \in Writers,
                        call'[v].pc \in {"map", "head", "stored", "insert"}
                 PROVE  matches'[call'[v].match] = SourceOf[v]
      BY DEF InFlightOwned
    <3>1. call'[v].match \in Matches /\ matches[call'[v].match] = SourceOf[v]
      <4>1. CASE v = w
        BY <1>2, <4>1, CheckedOwner
      <4>2. CASE v # w
        <5>1. call'[v] = call[v]
          BY <1>2, <2>0, <4>2, OthersUntouched
        <5> QED
          BY <2>0, <5>1 DEF OwnershipInv, InFlightOwned, TypeOK
      <4> QED
        BY <4>1, <4>2
    <3>2. SourceOf[v] # Absent
      OBVIOUS
    <3> QED
      BY <1>2, <3>1, <3>2, StepEffect
  <2>2. ChildRowsOwned'
    <3>1. ASSUME NEW k \in EventKeys, events'[k] # Absent PROVE matches'[k[2]] = k[1]
      <4>1. matches[k[2]] = k[1] /\ k[1] # Absent /\ k[2] \in Matches
        <5>1. k[2] \in Matches /\ k[1] \in Sources
          BY DEF EventKeys
        <5>2. CASE events'[k] = events[k]
          BY <3>1, <5>1, <5>2 DEF OwnershipInv, ChildRowsOwned
        <5>3. CASE events'[k] # events[k]
          BY <1>2, <5>1, <5>3, StepEffect DEF OwnershipInv, InFlightOwned
        <5> QED BY <5>2, <5>3
      <4> QED
        BY <1>2, <4>1, StepEffect
    <3>2. ASSUME NEW k \in Sources \X ProviderIds, matchMap'[k] # Absent
          PROVE  matches'[matchMap'[k]] = k[1]
      <4>1. matchMap'[k] \in Matches /\ k[1] # Absent
        BY <2>0, <3>2 DEF TypeOK
      <4>2. CASE matchMap'[k] = matchMap[k]
        BY <1>2, <3>2, <4>1, <4>2, StepEffect DEF OwnershipInv, ChildRowsOwned
      <4>3. CASE matchMap'[k] # matchMap[k]
        <5>1. CommitMap(w)
          BY <1>2, <4>3 DEF Step, UpsertMatch, CommitUpsert, MapProviderMatch, AppendEvents,
             ReadHead, ReadStored, CommitAppend, Crash, tables
        <5>2. k[1] = SourceOf[w] /\ matchMap'[k] = call[w].match
          BY <2>0, <4>3, <5>1 DEF CommitMap, TypeOK
        <5>3. matches[matchMap'[k]] = k[1]
          BY <5>1, <5>2 DEF CommitMap, OwnershipInv, InFlightOwned
        <5> QED
          BY <1>2, <4>1, <5>3, StepEffect
      <4> QED BY <4>2, <4>3
    <3> QED
      BY <3>1, <3>2 DEF ChildRowsOwned
  <2>3. ColumnsOwned'
    <3> SUFFICES ASSUME NEW m \in Matches, NEW c \in Columns
                 PROVE  columns'[m][c] \in {Absent, matches'[m]}
      BY DEF ColumnsOwned
    <3>1. CASE CommitUpsert(w)
      BY <2>0, <3>1 DEF CommitUpsert, UpsertAllowed, OwnershipInv, ColumnsOwned, TypeOK
    <3>2. CASE UNCHANGED <<matches, columns>>
      BY <3>2 DEF OwnershipInv, ColumnsOwned
    <3> QED
      BY <1>2, <3>1, <3>2 DEF Step, UpsertMatch, MapProviderMatch, CommitMap, AppendEvents,
         ReadHead, ReadStored, CommitAppend, Crash, tables
  <2> QED
    BY <2>0, <2>1, <2>2, <2>3 DEF OwnershipInv
<1> QED
  BY <1>1, <1>2 DEF Next

\* The tables are empty at first, so every row in them is owned.
LEMMA OwnershipInit == Init => OwnershipInv
<1> SUFFICES ASSUME Init PROVE OwnershipInv
  OBVIOUS
<1>1. TypeOK
  BY TypeInit
<1>2. Idle.pc = "idle"
  BY DEF Idle
<1> QED
  BY <1>1, <1>2 DEF Init, OwnershipInv, ChildRowsOwned, ColumnsOwned, InFlightOwned

\* Ownership and typing hold in every reachable state.
LEMMA OwnershipAlways == Spec => []OwnershipInv
BY OwnershipInit, OwnershipStep, PTL DEF Spec

\* No writer can build a shadow partition under another source's match: every
\* event row and provider mapping lies under a match of its own source.
THEOREM ChildRowsOwnedAlways == Spec => []ChildRowsOwned
<1>1. OwnershipInv => ChildRowsOwned
  BY DEF OwnershipInv
<1> QED
  BY <1>1, OwnershipAlways, PTL

\* A matches row never mixes the data of two sources.
THEOREM ColumnsOwnedAlways == Spec => []ColumnsOwned
<1>1. OwnershipInv => ColumnsOwned
  BY DEF OwnershipInv
<1> QED
  BY <1>1, OwnershipAlways, PTL

\* The owner of a match never changes.
THEOREM OwnerStableAlways == Spec => OwnerStable
<1>1. OwnershipInv /\ [Next]_vars =>
          [\A m \in Matches : matches[m] # Absent => matches'[m] = matches[m]]_vars
  BY StepEffect DEF Next
<1> QED
  BY <1>1, OwnershipAlways, PTL DEF Spec, OwnerStable

\* The event log is append-only, whatever the number of writers of a source.
THEOREM EventsImmutableAlways == Spec => EventsImmutable
<1>1. OwnershipInv /\ [Next]_vars =>
          [\A k \in EventKeys : events[k] # Absent => events'[k] = events[k]]_vars
  BY StepEffect DEF Next
<1> QED
  BY <1>1, OwnershipAlways, PTL DEF Spec, EventsImmutable

-----------------------------------------------------------------------------
(* One writer per source: the reads of append_events are current.          *)

\* The seqs of a well-typed batch are seqs.
LEMMA BatchSeqsType == ASSUME NEW b \in Batches PROVE BatchSeqs(b) \subseteq Seqs
BY DEF Batches, BatchSeqs, EventRow

\* The clauses of ReadsCurrent for one writer, given its locals and the table.
LEMMA CurrentSelf ==
    ASSUME OwnershipInv, ReadsCurrent, NEW w \in Writers, Step(w)
    PROVE  /\ call'[w].pc \in {"head", "stored", "insert"} => StrictlyIncreasing(call'[w].batch)
           /\ call'[w].pc \in {"stored", "insert"} =>
                  call'[w].seen = Present(SourceOf[w], call[w].match)'
           /\ call'[w].pc = "insert" =>
                  \A q \in BatchSeqs(call'[w].batch) :
                      call'[w].stored[q] = events'[<<SourceOf[w], call'[w].match, q>>]
<1> DEFINE Goal ==
           /\ call'[w].pc \in {"head", "stored", "insert"} => StrictlyIncreasing(call'[w].batch)
           /\ call'[w].pc \in {"stored", "insert"} =>
                  call'[w].seen = Present(SourceOf[w], call[w].match)'
           /\ call'[w].pc = "insert" =>
                  \A q \in BatchSeqs(call'[w].batch) :
                      call'[w].stored[q] = events'[<<SourceOf[w], call'[w].match, q>>]
<1>0. TypeOK /\ Idle.pc = "idle" /\ call[w] \in Calls
  BY DEF OwnershipInv, Idle, TypeOK
<1>1. CASE \E r \in Outcomes : Return(w, r)
  <2>1. call'[w].pc = "idle"
    BY <1>0, <1>1 DEF Return, TypeOK
  <2> QED BY <2>1
<1>2. ASSUME NEW m \in Matches, NEW cols \in SUBSET Columns, UpsertMatch(w, m, cols)
      PROVE  Goal
  <2> DEFINE local == [Idle EXCEPT !.pc = "upsert", !.match = m, !.cols = cols]
  <2>1. local.pc = "upsert"
    BY DEF Idle
  <2>2. call'[w] \in {Idle, local}
    BY <1>0, <1>2 DEF UpsertMatch, Enter, Return, TypeOK
  <2> QED BY <1>0, <2>1, <2>2
<1>3. ASSUME NEW m \in Matches, NEW p \in ProviderIds, MapProviderMatch(w, p, m)
      PROVE  Goal
  <2> DEFINE local == [Idle EXCEPT !.pc = "map", !.match = m, !.pid = p]
  <2>1. local.pc = "map"
    BY DEF Idle
  <2>2. call'[w] \in {Idle, local}
    BY <1>0, <1>3 DEF MapProviderMatch, Enter, Return, TypeOK
  <2> QED BY <1>0, <2>1, <2>2
<1>4. ASSUME NEW m \in Matches, NEW b \in Batches, AppendEvents(w, m, b)
      PROVE  Goal
  <2> DEFINE local == [Idle EXCEPT !.pc = "head", !.match = m, !.batch = b]
  <2>1. local.pc = "head" /\ local.batch = b
    BY DEF Idle
  <2>2. call'[w] = Idle \/ (call'[w] = local /\ BatchVerdict(b) = "ok")
    BY <1>0, <1>4 DEF AppendEvents, Enter, Return, TypeOK
  <2>3. BatchVerdict(b) = "ok" => StrictlyIncreasing(b)
    BY DEF BatchVerdict
  <2> QED BY <1>0, <2>1, <2>2, <2>3
<1>5. CASE ReadHead(w)
  <2>1. UNCHANGED events
    BY <1>5 DEF ReadHead, tables
  <2>2. Present(SourceOf[w], call[w].match)' = Present(SourceOf[w], call[w].match)
    BY <1>0, <1>5, <2>1, ReadEffect DEF Present
  <2>3. call'[w].pc = "stored" /\ call'[w].batch = call[w].batch
        /\ call'[w].seen = Present(SourceOf[w], call[w].match)
    BY <1>0, <1>5, ReadEffect
  <2>4. StrictlyIncreasing(call[w].batch)
    BY <1>5 DEF ReadsCurrent, ReadHead
  <2> QED
    BY <2>2, <2>3, <2>4
<1>6. CASE ReadStored(w)
  <2>1. UNCHANGED events
    BY <1>6 DEF ReadStored, tables
  <2>2. BatchSeqs(call[w].batch) \subseteq Seqs
    BY <1>0, BatchSeqsType DEF Calls
  <2>3. Present(SourceOf[w], call[w].match)' = Present(SourceOf[w], call[w].match)
    BY <1>0, <1>6, <2>1, ReadEffect DEF Present
  <2>4. StrictlyIncreasing(call[w].batch) /\ call[w].seen = Present(SourceOf[w], call[w].match)
    BY <1>6 DEF ReadsCurrent, ReadStored
  <2>5. /\ call'[w].pc = "insert" /\ call'[w].match = call[w].match
        /\ call'[w].batch = call[w].batch /\ call'[w].seen = call[w].seen
        /\ \A q \in BatchSeqs(call[w].batch) :
               call'[w].stored[q] = events[<<SourceOf[w], call[w].match, q>>]
    BY <1>0, <1>6, <2>2, ReadEffect
  <2> QED
    BY <2>1, <2>3, <2>4, <2>5
<1>7. CASE CommitUpsert(w) \/ CommitMap(w) \/ CommitAppend(w) \/ Crash(w)
  BY <1>1, <1>7 DEF CommitUpsert, CommitMap, CommitAppend, Crash, Outcomes
<1> QED
  BY <1>2, <1>3, <1>4, <1>5, <1>6, <1>7 DEF Step

\* No other writer can make the reads of a call stale.
LEMMA CurrentStep ==
    ASSUME OneWriterPerSource, OwnershipInv, ReadsCurrent, [Next]_vars
    PROVE  ReadsCurrent'
<1>1. CASE UNCHANGED vars
  BY <1>1 DEF vars, ReadsCurrent, Present
<1>2. ASSUME NEW w \in Writers, Step(w) PROVE ReadsCurrent'
  <2> SUFFICES ASSUME NEW v \in Writers
      PROVE  /\ call'[v].pc \in {"head", "stored", "insert"} => StrictlyIncreasing(call'[v].batch)
             /\ call'[v].pc \in {"stored", "insert"} =>
                    call'[v].seen = Present(SourceOf[v], call[v].match)'
             /\ call'[v].pc = "insert" =>
                    \A q \in BatchSeqs(call'[v].batch) :
                        call'[v].stored[q] = events'[<<SourceOf[v], call'[v].match, q>>]
    BY DEF ReadsCurrent
  <2>1. CASE v = w
    BY <1>2, <2>1, CurrentSelf
  <2>2. CASE v # w
    <3>1. call'[v] = call[v] /\ call[v] \in Calls
      BY <1>2, <2>2, OthersUntouched DEF OwnershipInv, TypeOK
    <3>2. SourceOf[v] # SourceOf[w] /\ SourceOf[v] \in Sources
      BY <2>2, WriterAssumption DEF OneWriterPerSource
    <3>3. \A m \in Matches, q \in Seqs : events'[<<SourceOf[v], m, q>>] = events[<<SourceOf[v], m, q>>]
      <4> SUFFICES ASSUME NEW m \in Matches, NEW q \in Seqs
                   PROVE  events'[<<SourceOf[v], m, q>>] = events[<<SourceOf[v], m, q>>]
        OBVIOUS
      <4> DEFINE k == <<SourceOf[v], m, q>>
      <4>1. k \in EventKeys /\ k[1] # SourceOf[w]
        BY <3>2 DEF EventKeys
      <4> QED
        BY <1>2, <4>1, StepEffect
    <3>4. BatchSeqs(call[v].batch) \subseteq Seqs
      BY <3>1, BatchSeqsType DEF Calls
    <3>5. call[v].pc # "idle" => call[v].match \in Matches
      BY DEF OwnershipInv, TypeOK
    <3>6. call[v].pc # "idle" =>
              Present(SourceOf[v], call[v].match)' = Present(SourceOf[v], call[v].match)
      BY <3>1, <3>3, <3>5 DEF Present
    <3> QED
      BY <3>1, <3>3, <3>4, <3>5, <3>6 DEF ReadsCurrent
  <2> QED BY <2>1, <2>2
<1> QED
  BY <1>1, <1>2 DEF Next

\* With one writer per source, the reads of append_events never go stale.
LEMMA CurrentAlways ==
    ASSUME OneWriterPerSource
    PROVE  Spec => [](OwnershipInv /\ ReadsCurrent)
<1>1. Init => ReadsCurrent
  <2>1. Idle.pc = "idle"
    BY DEF Idle
  <2> QED BY <2>1 DEF Init, ReadsCurrent
<1>2. OwnershipInv /\ ReadsCurrent /\ [Next]_vars => ReadsCurrent'
  BY CurrentStep
<1> QED
  BY <1>1, <1>2, OwnershipInit, OwnershipStep, PTL DEF Spec

\* What the transaction of append_events does when its reads are current: it
\* raises, or every row of the batch is stored as sent and every row that is new
\* lies above every row that was there.
LEMMA CommitEffect ==
    ASSUME OwnershipInv, ReadsCurrent, NEW w \in Writers, CommitAppend(w), outcome'[w] = "ok"
    PROVE  /\ \A i \in DOMAIN call[w].batch :
                  events'[<<SourceOf[w], call[w].match, call[w].batch[i].seq>>]
                      = call[w].batch[i].content
           /\ \A p, q \in Seqs :
                  (events[<<SourceOf[w], call[w].match, p>>] # Absent
                     /\ events[<<SourceOf[w], call[w].match, q>>] = Absent
                     /\ events'[<<SourceOf[w], call[w].match, q>>] # Absent) => p < q
<1> USE WriterAssumption
<1> DEFINE b == call[w].batch
           key(q) == <<SourceOf[w], call[w].match, q>>
<1>0. /\ TypeOK /\ call[w] \in Calls /\ b \in Batches /\ call[w].match \in Matches
      /\ BatchSeqs(b) \subseteq Seqs /\ SourceOf[w] \in Sources
  BY BatchSeqsType DEF OwnershipInv, TypeOK, Calls, CommitAppend
<1>1. /\ StrictlyIncreasing(b)
      /\ call[w].seen = Present(SourceOf[w], call[w].match)
      /\ \A q \in BatchSeqs(b) : call[w].stored[q] = events[key(q)]
  BY DEF CommitAppend, ReadsCurrent
<1>2. /\ events' = InsertOrIgnore(w)
      /\ ~Drifted(call[w]) /\ ~Retroactive(call[w])
  BY <1>0 DEF CommitAppend, Return, TypeOK
<1>3. \A q \in Seqs : /\ key(q) \in EventKeys
                      /\ key(q)[3] = q
  BY <1>0 DEF EventKeys
<1>4. ASSUME NEW q \in Seqs
      PROVE  events'[key(q)] = IF q \in BatchSeqs(b) /\ events[key(q)] = Absent
                               THEN Incoming(b, q) ELSE events[key(q)]
  <2> DEFINE fresh == {key(x) : x \in {p \in BatchSeqs(b) : call[w].stored[p] = Absent}}
  <2>1. events'[key(q)] = IF key(q) \in fresh /\ events[key(q)] = Absent
                          THEN Incoming(b, q) ELSE events[key(q)]
    BY <1>2, <1>3 DEF InsertOrIgnore
  <2>2. key(q) \in fresh <=> (q \in BatchSeqs(b) /\ call[w].stored[q] = Absent)
    OBVIOUS
  <2> QED
    BY <1>1, <2>1, <2>2
<1>5. ASSUME NEW i \in DOMAIN b PROVE events'[key(b[i].seq)] = b[i].content
  <2>1. b[i].seq \in BatchSeqs(b) /\ b[i] \in EventRow
    BY <1>0 DEF BatchSeqs, Batches
  <2>2. CASE events[key(b[i].seq)] = Absent
    <3>1. PICK j \in DOMAIN b : b[j] = [seq |-> b[i].seq, content |-> Incoming(b, b[i].seq)]
      BY <1>0, <2>1, IncomingType
    <3>2. b[j].seq = b[i].seq /\ b[j].content = Incoming(b, b[i].seq) /\ b[j].seq \in Int
      <4>1. b[i].seq \in Int
        BY <1>0, <2>1
      <4> QED BY <3>1, <4>1
    <3>3. DOMAIN b \subseteq Int
      <4>1. PICK n \in 0 .. MaxBatch : b \in [1 .. n -> EventRow]
        BY <1>0 DEF Batches
      <4> QED BY <4>1
    <3>4. j = i
      BY <1>1, <3>2, <3>3 DEF StrictlyIncreasing
    <3> QED
      BY <1>0, <1>4, <2>1, <2>2, <3>2, <3>4
  <2>3. CASE events[key(b[i].seq)] # Absent
    <3>1. events[key(b[i].seq)] = b[i].content
      BY <1>1, <1>2, <2>1, <2>3 DEF Drifted
    <3> QED
      BY <1>0, <1>4, <2>1, <2>3, <3>1
  <2> QED BY <2>2, <2>3
<1>6. ASSUME NEW p \in Seqs, NEW q \in Seqs,
             events[key(p)] # Absent, events[key(q)] = Absent, events'[key(q)] # Absent
      PROVE  p < q
  <2>1. q \in BatchSeqs(b) /\ call[w].stored[q] = Absent
    BY <1>1, <1>4, <1>6
  <2>2. p \in call[w].seen
    BY <1>1, <1>6 DEF Present
  <2>3. ~(q <= p)
    BY <1>2, <2>1, <2>2 DEF Retroactive, AtOrBelowHead
  <2> QED BY <2>3
<1> QED
  BY <1>5, <1>6

\* A row that a step adds lies above every row of its partition.
LEMMA MonotoneStep ==
    ASSUME OwnershipInv, ReadsCurrent, NEW w \in Writers, Step(w),
           NEW s \in Sources, NEW m \in Matches, NEW q \in Seqs, NEW p \in Seqs,
           events[<<s, m, p>>] # Absent, events[<<s, m, q>>] = Absent,
           events'[<<s, m, q>>] # Absent
    PROVE  p < q
<1>1. <<s, m, q>> \in EventKeys
  BY DEF EventKeys
<1>2. call[w].pc = "insert" /\ s = SourceOf[w] /\ m = call[w].match
  BY <1>1, StepEffect
<1>3. CommitAppend(w) /\ outcome'[w] = "ok"
  <2>1. CommitAppend(w)
    BY <1>2 DEF Step, UpsertMatch, CommitUpsert, MapProviderMatch, CommitMap, AppendEvents,
       ReadHead, ReadStored, Crash, tables
  <2> QED
    BY <2>1 DEF CommitAppend, Return, OwnershipInv, TypeOK
<1> QED
  BY <1>2, <1>3, CommitEffect

\* With one writer per source, seq is monotonic per (source, match): the cursor of
\* get_events_since never skips a row.
THEOREM SeqMonotoneAlways == ASSUME OneWriterPerSource PROVE Spec => SeqMonotone
<1>1. ASSUME OwnershipInv, ReadsCurrent, [Next]_vars
      PROVE  [\A s \in Sources, m \in Matches, q, p \in Seqs :
                 (events[<<s, m, p>>] # Absent /\ events[<<s, m, q>>] = Absent
                    /\ events'[<<s, m, q>>] # Absent) => p < q]_vars
  BY <1>1, MonotoneStep DEF Next
<1> QED
  BY <1>1, CurrentAlways, PTL DEF Spec, SeqMonotone

\* With one writer per source, an append_events call that returns has stored its
\* batch exactly as sent; drift is raised, never swallowed.
THEOREM AckedMeansStoredAlways == ASSUME OneWriterPerSource PROVE Spec => AckedMeansStored
<1>1. ASSUME OwnershipInv, ReadsCurrent, [Next]_vars
      PROVE  [\A w \in Writers : (call[w].pc = "insert" /\ call'[w].pc = "idle" /\ outcome'[w] = "ok") =>
                 \A i \in DOMAIN call[w].batch :
                     events'[<<SourceOf[w], call[w].match, call[w].batch[i].seq>>]
                         = call[w].batch[i].content]_vars
  <2> SUFFICES ASSUME NEW v \in Writers, Step(v), NEW w \in Writers,
                      call[w].pc = "insert", call'[w].pc = "idle", outcome'[w] = "ok"
               PROVE  \A i \in DOMAIN call[w].batch :
                          events'[<<SourceOf[w], call[w].match, call[w].batch[i].seq>>]
                              = call[w].batch[i].content
    BY <1>1 DEF Next
  <2>1. CASE v = w
    <3>1. CommitAppend(w)
      BY <1>1, <2>1 DEF Step, UpsertMatch, CommitUpsert, MapProviderMatch, CommitMap,
         AppendEvents, ReadHead, ReadStored, Crash, Return, OwnershipInv, TypeOK
    <3> QED
      BY <1>1, <3>1, CommitEffect
  <2>2. CASE v # w
    BY <1>1, <2>2, OthersUntouched DEF OwnershipInv
  <2> QED BY <2>1, <2>2
<1> QED
  BY <1>1, CurrentAlways, PTL DEF Spec, AckedMeansStored

-----------------------------------------------------------------------------
(* The log and its reader: LogFollower. *)

\* The cursor is where the consumer started or on a row, so a new row, above all
\* rows, is above the cursor.
CursorOnRow == \A m \in Matches : cursor[m] = -1 \/ \E r \in RowsOf(m) : r.seq = cursor[m]

\* The inductive invariant.
LogInv ==
    /\ OwnershipInv /\ ReadsCurrent
    /\ cursor \in [Matches -> Int]
    /\ seen \in [Matches -> SUBSET EventRow]
    /\ SeenUpToCursor
    /\ CursorOnRow

-----------------------------------------------------------------------------
\* The rows of a match, as a subset of all rows.
RowsAlt(m) == {r \in EventRow : \E s \in Sources : events[<<s, m, r.seq>>] = r.content}

LEMMA RowsOfFacts ==
  ASSUME NEW m \in Matches, TypeOK
  PROVE  RowsOf(m) = RowsAlt(m)
<1>1. ASSUME NEW r \in RowsOf(m) PROVE r \in RowsAlt(m)
  <2>1. PICK k \in Sources \X {m} \X Seqs :
            events[k] # Absent /\ r = [seq |-> k[3], content |-> events[k]]
    BY DEF RowsOf
  <2>2. k[1] \in Sources /\ k[3] \in Seqs /\ k = <<k[1], m, k[3]>>
    OBVIOUS
  <2>3. k \in EventKeys
    BY <2>2 DEF EventKeys
  <2>4. events[k] \in Contents
    BY <2>1, <2>3 DEF TypeOK
  <2>5. r \in EventRow /\ r.seq = k[3] /\ r.content = events[k]
    BY <2>1, <2>2, <2>4 DEF EventRow
  <2>6. QED
    BY <2>2, <2>5 DEF RowsAlt
<1>2. ASSUME NEW r \in RowsAlt(m) PROVE r \in RowsOf(m)
  <2>1. r \in EventRow /\ r = [seq |-> r.seq, content |-> r.content]
        /\ r.seq \in Seqs /\ r.content # Absent
    BY WriterAssumption DEF RowsAlt, EventRow
  <2>2. PICK s \in Sources : events[<<s, m, r.seq>>] = r.content
    BY DEF RowsAlt
  <2>3. PICK k \in Sources \X {m} \X Seqs : k = <<s, m, r.seq>>
    BY <2>1
  <2>4. k[3] = r.seq /\ events[k] # Absent /\ r = [seq |-> k[3], content |-> events[k]]
    BY <2>1, <2>2, <2>3
  <2>5. QED
    BY <2>4 DEF RowsOf
<1>3. QED
  BY <1>1, <1>2

\* The same of the next state.
LEMMA RowsOfFactsNext ==
  ASSUME NEW m \in Matches, TypeOK'
  PROVE  RowsOf(m)' = RowsAlt(m)'
<1>1. ASSUME NEW r \in RowsOf(m)' PROVE r \in RowsAlt(m)'
  <2>1. PICK k \in Sources \X {m} \X Seqs :
            events'[k] # Absent /\ r = [seq |-> k[3], content |-> events'[k]]
    BY DEF RowsOf
  <2>2. k[1] \in Sources /\ k[3] \in Seqs /\ k = <<k[1], m, k[3]>>
    OBVIOUS
  <2>3. k \in EventKeys
    BY <2>2 DEF EventKeys
  <2>4. events'[k] \in Contents
    BY <2>1, <2>3 DEF TypeOK
  <2>5. r \in EventRow /\ r.seq = k[3] /\ r.content = events'[k]
    BY <2>1, <2>2, <2>4 DEF EventRow
  <2>6. QED
    BY <2>2, <2>5 DEF RowsAlt
<1>2. ASSUME NEW r \in RowsAlt(m)' PROVE r \in RowsOf(m)'
  <2>1. r \in EventRow /\ r = [seq |-> r.seq, content |-> r.content]
        /\ r.seq \in Seqs /\ r.content # Absent
    BY WriterAssumption DEF RowsAlt, EventRow
  <2>2. PICK s \in Sources : events'[<<s, m, r.seq>>] = r.content
    BY DEF RowsAlt
  <2>3. PICK k \in Sources \X {m} \X Seqs : k = <<s, m, r.seq>>
    BY <2>1
  <2>4. k[3] = r.seq /\ events'[k] # Absent /\ r = [seq |-> k[3], content |-> events'[k]]
    BY <2>1, <2>2, <2>3
  <2>5. QED
    BY <2>4 DEF RowsOf
<1>3. QED
  BY <1>1, <1>2

\* What a step of a writer does to the log of any match.
LEMMA LogGrows ==
  ASSUME OwnershipInv, OwnershipInv', ReadsCurrent, NEW w \in Writers, Step(w), NEW m \in Matches
  PROVE  /\ RowsOf(m) \subseteq RowsOf(m)'
         /\ RowsOf(m)' \subseteq EventRow
         /\ \A o \in RowsOf(m), r \in RowsOf(m)' \ RowsOf(m) : o.seq < r.seq
         /\ \A r, s \in RowsOf(m)' : r.seq = s.seq => r = s
         /\ m # call[w].match => RowsOf(m)' = RowsOf(m)
<1>1. \A s \in Sources, q \in Seqs :
          /\ <<s, m, q>> \in EventKeys
          /\ events[<<s, m, q>>] # Absent => events'[<<s, m, q>>] = events[<<s, m, q>>]
          /\ events[<<s, m, q>>] # Absent => matches[m] = s
          /\ events'[<<s, m, q>>] # Absent => matches'[m] = s
          /\ m # call[w].match => events'[<<s, m, q>>] = events[<<s, m, q>>]
  <2> SUFFICES ASSUME NEW s \in Sources, NEW q \in Seqs
               PROVE  /\ <<s, m, q>> \in EventKeys
                      /\ events[<<s, m, q>>] # Absent =>
                             events'[<<s, m, q>>] = events[<<s, m, q>>]
                      /\ events[<<s, m, q>>] # Absent => matches[m] = s
                      /\ events'[<<s, m, q>>] # Absent => matches'[m] = s
                      /\ m # call[w].match => events'[<<s, m, q>>] = events[<<s, m, q>>]
    OBVIOUS
  <2> DEFINE k == <<s, m, q>>
  <2>1. k \in EventKeys /\ k[1] = s /\ k[2] = m
    BY DEF EventKeys
  <2>2. (events[k] # Absent => matches[m] = s) /\ (events'[k] # Absent => matches'[m] = s)
    BY <2>1 DEF OwnershipInv, ChildRowsOwned
  <2> HIDE DEF k
  <2>3. (events[k] # Absent => events'[k] = events[k])
        /\ (m # call[w].match => events'[k] = events[k])
    BY <2>1, StepEffect
  <2>4. QED
    BY <2>1, <2>2, <2>3 DEF k
<1>0. RowsOf(m) = RowsAlt(m) /\ RowsOf(m)' = RowsAlt(m)'
  BY RowsOfFacts, RowsOfFactsNext DEF OwnershipInv
<1>2. \A r \in EventRow : r.seq \in Seqs /\ r.content \in Contents /\ r.content # Absent
  BY WriterAssumption DEF EventRow
<1>3. RowsOf(m) \subseteq RowsOf(m)'
  BY <1>0, <1>1, <1>2 DEF RowsAlt
<1>4. RowsOf(m)' \subseteq EventRow
  BY <1>0 DEF RowsAlt
<1>5. ASSUME NEW o \in RowsOf(m), NEW r \in RowsOf(m)', r \notin RowsOf(m)
      PROVE  o.seq < r.seq
  <2>1. PICK s \in Sources : events[<<s, m, o.seq>>] = o.content
    BY <1>0 DEF RowsAlt
  <2>2. PICK t \in Sources : events'[<<t, m, r.seq>>] = r.content
    BY <1>0 DEF RowsAlt
  <2>3. o \in EventRow /\ r \in EventRow
    BY <1>0 DEF RowsAlt
  <2>4. o.seq \in Seqs /\ r.seq \in Seqs /\ o.content # Absent /\ r.content # Absent
    BY <1>2, <2>3
  <2>5. s = t
    BY <1>1, <2>1, <2>2, <2>4
  <2>6. events[<<t, m, r.seq>>] = Absent
    <3>1. events[<<t, m, r.seq>>] # r.content
      BY <1>0, <1>5, <2>3 DEF RowsAlt
    <3>2. QED
      BY <1>1, <2>2, <2>4, <3>1
  <2>7. QED
    BY <2>1, <2>2, <2>4, <2>5, <2>6, MonotoneStep
<1>6. ASSUME NEW r \in RowsOf(m)', NEW o \in RowsOf(m)', r.seq = o.seq PROVE r = o
  <2>1. PICK a \in Sources : events'[<<a, m, r.seq>>] = r.content
    BY <1>0 DEF RowsAlt
  <2>2. PICK b \in Sources : events'[<<b, m, o.seq>>] = o.content
    BY <1>0 DEF RowsAlt
  <2>3. r \in EventRow /\ o \in EventRow
    BY <1>0 DEF RowsAlt
  <2>4. a = b
    BY <1>1, <1>2, <2>1, <2>2, <2>3
  <2>5. r.content = o.content
    BY <1>6, <2>1, <2>2, <2>4
  <2>6. QED
    BY <1>6, <2>3, <2>5 DEF EventRow
<1>7. ASSUME m # call[w].match PROVE RowsOf(m)' = RowsOf(m)
  BY <1>0, <1>1, <1>2, <1>7 DEF RowsAlt
<1>8. QED
  BY <1>3, <1>4, <1>5, <1>6, <1>7

\* A call by cursor brings the consumer level with the log.
LEMMA FollowFacts ==
  ASSUME LogInv, NEW m \in Matches, Follow(m)
  PROVE  /\ seen' = [seen EXCEPT ![m] = RowsOf(m)]
         /\ \A n \in Matches : RowsOf(n)' = RowsOf(n)
         /\ cursor' \in [Matches -> Int]
         /\ \A r \in RowsOf(m) : r.seq <= cursor'[m]
         /\ \A n \in Matches \ {m} : cursor'[n] = cursor[n]
         /\ cursor'[m] = -1 \/ \E r \in RowsOf(m) : r.seq = cursor'[m]
<1>1. RowsOf(m) \subseteq EventRow /\ \A r \in RowsOf(m) : r.seq \in Int
  <2>1. RowsOf(m) = RowsAlt(m)
    BY RowsOfFacts DEF LogInv, OwnershipInv
  <2>2. \A r \in EventRow : r.seq \in Int
    BY WriterAssumption DEF EventRow
  <2>3. QED
    BY <2>1, <2>2 DEF RowsAlt
<1>2. cursor[m] \in Int /\ seen[m] = {r \in RowsOf(m) : r.seq <= cursor[m]}
  BY DEF LogInv, SeenUpToCursor
<1>3. seen[m] \cup EventsSince(m, cursor[m]) = RowsOf(m)
  BY <1>1, <1>2 DEF EventsSince
<1>4. seen' = [seen EXCEPT ![m] = RowsOf(m)]
  BY <1>3 DEF Follow, LogInv
<1>5. \A n \in Matches : RowsOf(n)' = RowsOf(n)
  BY DEF Follow, vars, RowsOf
<1>6. CASE EventsSince(m, cursor[m]) = {} /\ UNCHANGED cursor
  <2>1. \A r \in RowsOf(m) : r.seq <= cursor[m]
    BY <1>1, <1>2, <1>6 DEF EventsSince
  <2>2. QED
    BY <1>4, <1>5, <1>6, <2>1 DEF LogInv, CursorOnRow
<1>7. ASSUME NEW last \in EventsSince(m, cursor[m]),
             \A r \in EventsSince(m, cursor[m]) : r.seq <= last.seq,
             cursor' = [cursor EXCEPT ![m] = last.seq]
      PROVE  /\ cursor' \in [Matches -> Int]
             /\ \A r \in RowsOf(m) : r.seq <= cursor'[m]
             /\ \A n \in Matches \ {m} : cursor'[n] = cursor[n]
             /\ \E r \in RowsOf(m) : r.seq = cursor'[m]
  <2>1. last.seq \in Int /\ last.seq > cursor[m] /\ last \in RowsOf(m)
    BY <1>1 DEF EventsSince
  <2>2. cursor' \in [Matches -> Int] /\ cursor'[m] = last.seq
        /\ \A n \in Matches \ {m} : cursor'[n] = cursor[n]
    BY <1>7, <2>1 DEF LogInv
  <2>3. ASSUME NEW r \in RowsOf(m) PROVE r.seq <= last.seq
    <3>1. CASE r.seq > cursor[m]
      BY <1>7, <3>1 DEF EventsSince
    <3>2. CASE ~(r.seq > cursor[m])
      BY <1>1, <1>2, <2>1, <3>2
    <3>3. QED
      BY <3>1, <3>2
  <2>4. QED
    BY <2>1, <2>2, <2>3
<1>8. QED
  BY <1>4, <1>5, <1>6, <1>7 DEF Follow

-----------------------------------------------------------------------------
LEMMA LogInvInit == LogInit => LogInv
<1> SUFFICES ASSUME LogInit PROVE LogInv
  OBVIOUS
<1>1. OwnershipInv
  BY OwnershipInit DEF LogInit
<1>2. ReadsCurrent
  <2>1. Idle.pc = "idle"
    BY DEF Idle
  <2>2. QED
    BY <2>1 DEF LogInit, Init, ReadsCurrent
<1>3. \A m \in Matches : RowsOf(m) = {}
  BY WriterAssumption DEF LogInit, Init, RowsOf, EventRow, EventKeys
<1>4. QED
  BY <1>1, <1>2, <1>3 DEF LogInit, LogInv, SeenUpToCursor, CursorOnRow

LEMMA LogInvStep ==
  ASSUME OneWriterPerSource, LogInv, [LogNext]_<<vars, follower>>
  PROVE  LogInv'
<1>1. [Next]_vars
  BY DEF LogNext, Follow, vars
<1>2. OwnershipInv' /\ ReadsCurrent'
  BY <1>1, OwnershipStep, CurrentStep DEF LogInv
<1>3. CASE UNCHANGED <<vars, follower>>
  <2>1. \A m \in Matches : RowsOf(m)' = RowsOf(m)
    BY <1>3 DEF RowsOf, vars
  <2>2. QED
    BY <1>2, <1>3, <2>1 DEF LogInv, SeenUpToCursor, CursorOnRow, follower
<1>4. ASSUME NEW w \in Writers, Step(w), UNCHANGED follower PROVE LogInv'
  <2>1. ASSUME NEW m \in Matches
        PROVE  /\ seen[m] = {r \in RowsOf(m)' : r.seq <= cursor[m]}
               /\ cursor[m] = -1 \/ \E r \in RowsOf(m)' : r.seq = cursor[m]
    <3>1. RowsOf(m) \subseteq RowsOf(m)' /\ RowsOf(m)' \subseteq EventRow
          /\ \A o \in RowsOf(m), r \in RowsOf(m)' \ RowsOf(m) : o.seq < r.seq
      BY <1>2, <1>4, LogGrows DEF LogInv
    <3>2. seen[m] = {r \in RowsOf(m) : r.seq <= cursor[m]}
      BY DEF LogInv, SeenUpToCursor
    <3>3. cursor[m] = -1 \/ \E o \in RowsOf(m) : o.seq = cursor[m]
      BY DEF LogInv, CursorOnRow
    <3>4. \A r \in RowsOf(m)' : r.seq \in Nat
      BY <3>1, SeqAssumption DEF EventRow
    <3>5. \A r \in RowsOf(m)' \ RowsOf(m) : ~(r.seq <= cursor[m])
      BY <3>1, <3>3, <3>4
    <3>6. QED
      BY <3>1, <3>2, <3>3, <3>5
  <2>2. QED
    BY <1>2, <1>4, <2>1 DEF LogInv, SeenUpToCursor, CursorOnRow, follower
<1>5. ASSUME NEW m \in Matches, Follow(m) PROVE LogInv'
  <2>1. /\ seen' = [seen EXCEPT ![m] = RowsOf(m)]
        /\ \A n \in Matches : RowsOf(n)' = RowsOf(n)
        /\ cursor' \in [Matches -> Int]
        /\ \A r \in RowsOf(m) : r.seq <= cursor'[m]
        /\ \A n \in Matches \ {m} : cursor'[n] = cursor[n]
        /\ cursor'[m] = -1 \/ \E r \in RowsOf(m) : r.seq = cursor'[m]
    BY <1>5, FollowFacts
  <2>2. RowsOf(m) \subseteq EventRow
    BY RowsOfFacts DEF RowsAlt, LogInv, OwnershipInv
  <2>3. seen' \in [Matches -> SUBSET EventRow]
    BY <2>1, <2>2 DEF LogInv
  <2>4. SeenUpToCursor'
    <3>1. ASSUME NEW n \in Matches PROVE seen'[n] = {r \in RowsOf(n) : r.seq <= cursor'[n]}
      <4>1. CASE n = m
        BY <2>1, <4>1 DEF LogInv
      <4>2. CASE n # m
        BY <2>1, <4>2 DEF LogInv, SeenUpToCursor
      <4>3. QED
        BY <4>1, <4>2
    <3>2. QED
      BY <2>1, <3>1 DEF SeenUpToCursor
  <2>5. CursorOnRow'
    <3>1. ASSUME NEW n \in Matches
          PROVE  cursor'[n] = -1 \/ \E r \in RowsOf(n) : r.seq = cursor'[n]
      BY <2>1 DEF LogInv, CursorOnRow
    <3>2. QED
      BY <2>1, <3>1 DEF CursorOnRow
  <2>6. QED
    BY <1>2, <2>1, <2>3, <2>4, <2>5 DEF LogInv
<1>6. QED
  BY <1>3, <1>4, <1>5 DEF LogNext, Next

LEMMA LogInvariance == ASSUME OneWriterPerSource PROVE LogSpec => []LogInv
<1>1. LogInv /\ [LogNext]_<<vars, follower>> => LogInv'
  BY LogInvStep
<1>2. QED
  BY LogInvInit, <1>1, PTL DEF LogSpec

-----------------------------------------------------------------------------
(* The theorems.                                                           *)

\* The consumer of get_events_since has exactly the rows up to its cursor: no row
\* is ever stored behind it.
THEOREM SeenUpToCursorAlways == ASSUME OneWriterPerSource PROVE LogSpec => []SeenUpToCursor
<1>1. LogInv => SeenUpToCursor
  BY DEF LogInv
<1>2. QED
  BY LogInvariance, <1>1, PTL

\* PartitionWriter's append_events and the reader's get_events_since implement the
\* append-only log of EventLog: every step is an Append, a Follow or a stutter.
THEOREM LogImplemented == ASSUME OneWriterPerSource PROVE LogSpec => ImplementsEventLog
<1> DEFINE log == [m \in Matches |-> RowsOf(m)]
<1>1. LogInit => Log!Init
  <2>1. ASSUME LogInit, NEW m \in Matches PROVE RowsOf(m) = {}
    BY <2>1, WriterAssumption DEF LogInit, Init, RowsOf, EventRow, EventKeys
  <2>2. QED
    BY <2>1 DEF LogInit, Log!Init
<1>2. ASSUME LogInv, LogInv', [LogNext]_<<vars, follower>>
      PROVE  [Log!Next]_<<log, seen>>
  <2>1. CASE UNCHANGED <<vars, follower>>
    <3>1. \A m \in Matches : RowsOf(m)' = RowsOf(m)
      BY <2>1 DEF RowsOf, vars
    <3>2. QED
      BY <2>1, <3>1 DEF follower
  <2>2. ASSUME NEW w \in Writers, Step(w), UNCHANGED follower
        PROVE  [Log!Next]_<<log, seen>>
    <3>0. OwnershipInv /\ OwnershipInv' /\ ReadsCurrent
      BY <1>2 DEF LogInv
    <3>1. CASE call[w].match \in Matches
      <4>0. PICK m \in Matches : m = call[w].match
        BY <3>1
      <4>1. /\ RowsOf(m) \subseteq RowsOf(m)'
            /\ RowsOf(m)' \subseteq EventRow
            /\ \A o \in RowsOf(m), r \in RowsOf(m)' \ RowsOf(m) : o.seq < r.seq
            /\ \A r, s \in RowsOf(m)' : r.seq = s.seq => r = s
        BY <2>2, <3>0, LogGrows
      <4>2. Log!Extends(log[m], log'[m])
        BY <4>1 DEF Log!Extends, Log!Rows, EventRow
      <4>3. \A n \in Matches \ {m} : log'[n] = log[n]
        BY <2>2, <3>0, <4>0, LogGrows
      <4>4. Log!Append(m)
        BY <2>2, <4>2, <4>3 DEF Log!Append, follower
      <4>5. QED
        BY <4>4 DEF Log!Next
    <3>2. CASE call[w].match \notin Matches
      <4>1. \A m \in Matches : RowsOf(m)' = RowsOf(m)
        BY <2>2, <3>0, <3>2, LogGrows
      <4>2. QED
        BY <2>2, <4>1 DEF follower
    <3>3. QED
      BY <3>1, <3>2
  <2>3. ASSUME NEW m \in Matches, Follow(m)
        PROVE  [Log!Next]_<<log, seen>>
    <3>1. seen' = [seen EXCEPT ![m] = RowsOf(m)] /\ \A n \in Matches : RowsOf(n)' = RowsOf(n)
      BY <1>2, <2>3, FollowFacts
    <3>2. Log!Follow(m)
      BY <3>1 DEF Log!Follow
    <3>3. QED
      BY <3>2 DEF Log!Next
  <2>4. QED
    BY <1>2, <2>1, <2>2, <2>3 DEF LogNext, Next
<1>3. QED
  BY <1>1, <1>2, LogInvariance, PTL DEF LogSpec, ImplementsEventLog, Log!Spec
=============================================================================
