---------------------------- MODULE ReconcileProofs ----------------------------
(***************************************************************************)
(* What the seed hook guarantees of the rows, for any number of matches,   *)
(* slugs and events.                                                       *)
(*                                                                         *)
(* The types, and that a binding names a row, hold with any number of      *)
(* writers.  The rest is about one process of the source, OneWriter: the   *)
(* code reads outside its transactions, and with a second process what it  *)
(* read may have changed.  The argument: while a call is on its way only the *)
(* schedule loader changes rows, and it never gives a match a second       *)
(* canonical row; so what a call has read is still so when it writes, and  *)
(* once its adoption is settled all events of the match are where the call *)
(* is bound.                                                               *)
(***************************************************************************)
EXTENDS ReconcileLive, FiniteSetTheorems, TLAPS

CanonicalIds == Slugs \cup Pids

\* The phases in which a call has a row to write.
Bindings == {"inspect", "adopt", "unmap", "map", "read", "upsert", "append", "persist"}

\* A canonical row a call is bound to is there.
CallSeeded(c) ==
    c.phase # "idle" =>
        /\ c.match \in Snapshots
        /\ c.phase \in Bindings =>
              /\ c.bound \in CanonicalIds \cup {Stub[c.match.id]}
              /\ c.bound \in CanonicalIds => Exists(c.bound)
        /\ c.phase = "adopt" => c.bound \in CanonicalIds
        /\ c.phase \in {"adopt", "upsert"} => c.payload \in Payload

MapSeeded ==
    \A p \in Pids :
        /\ matchMap[p] \in CanonicalIds \cup {Null, Stub[p]}
        /\ matchMap[p] \in CanonicalIds => Exists(matchMap[p])

TypeInv == TypeOK /\ MapSeeded /\ \A w \in Writers : CallSeeded(call[w])

-----------------------------------------------------------------------------
(* Ids, orientations, calls.                                               *)

LEMMA IdFacts ==
  /\ CanonicalIds \subseteq Ids /\ Null \notin Ids
  /\ \A p \in Pids : Stub[p] \in Ids /\ Stub[p] \notin CanonicalIds
  /\ \A p, q \in Pids : Stub[p] = Stub[q] => p = q
  /\ \A i \in Ids : i \in CanonicalIds \/ \E p \in Pids : i = Stub[p]
BY ReconcileAssumption DEF Ids, CanonicalIds

LEMMA CanonicalFacts ==
  ASSUME NEW p \in Pids
  PROVE  /\ Canonical(p) \subseteq CanonicalIds /\ p \in Canonical(p)
         /\ \A k \in DOMAIN Fits[p] : Fits[p][k] \in Canonical(p) \cap Slugs
         /\ \A i \in Canonical(p) : i = p \/ i \in Slugs
<1>1. Fits[p] \in Seq(Slugs)
  BY ReconcileAssumption
<1>2. \A k \in DOMAIN Fits[p] : Fits[p][k] \in Slugs
  BY <1>1
<1> QED BY <1>2 DEF Canonical, CanonicalIds

LEMMA OrientedFacts ==
  /\ Sides = {"plain", "turned"} /\ Null \notin Sides
  /\ Flip("plain") = "turned" /\ Flip("turned") = "plain" /\ Flip(Null) = Null
BY ReconcileAssumption DEF Sides, Flip

LEMMA ViewType ==
  ASSUME NEW v \in Oriented, NEW reversed
  PROVE  HomeAwayView(v, reversed) \in Oriented
BY OrientedFacts DEF HomeAwayView, Oriented

LEMMA RicherType ==
  ASSUME NEW v \in Oriented, NEW u \in Oriented
  PROVE  PreservingRicher(v, u) \in Oriented
BY DEF PreservingRicher

LEMMA StoredPayloadType ==
  ASSUME TypeOK, NEW i \in Ids
  PROVE  StoredPayload(i) \in Payload
BY DEF TypeOK, StoredPayload, Payload, Exists, Row, Oriented

LEMMA SnapshotType ==
  ASSUME TypeOK, NEW m \in Snapshots
  PROVE  /\ m.id \in Pids /\ m.score \in {Null, turn[m.id]} /\ m.extra \in {Null, turn[m.id]}
         /\ turn[m.id] \in Sides /\ m.named \in BOOLEAN /\ m.last \in 0 .. MaxEvents
         /\ m.named \/ turn[m.id] = "plain" \/ m.id \in Anonymous
         /\ m.score \in Oriented /\ m.extra \in Oriented
BY DEF Snapshots, TypeOK, Oriented

\* What holds of a call that is under way.
LEMMA CallFacts ==
  ASSUME TypeInv, NEW w \in Writers, call[w].phase # "idle"
  PROVE  /\ call[w] \in Calls /\ call[w].match \in Snapshots /\ call[w].match.id \in Pids
         /\ call[w].phase \in Bindings => call[w].bound \in Ids
         /\ call[w].phase = "adopt" =>
               call[w].bound \in CanonicalIds /\ Exists(call[w].bound)
         /\ call[w].phase \in {"adopt", "upsert"} => call[w].payload \in Payload
         /\ call[w].names \in Oriented
<1>1. call[w] \in Calls /\ CallSeeded(call[w])
  BY DEF TypeInv, TypeOK
<1>2. call[w].match \in Snapshots
  BY <1>1 DEF CallSeeded, Calls
<1>3. call[w].match.id \in Pids
  BY <1>2 DEF Snapshots
<1>4. call[w].payload \in Payload \cup {Null} /\ call[w].names \in Oriented
  BY <1>1 DEF Calls
<1> QED BY <1>1, <1>2, <1>3, <1>4, IdFacts DEF CallSeeded, Bindings

LEMMA IdleCall == Idle \in Calls /\ CallSeeded(Idle) /\ Idle.phase = "idle"
BY DEF Idle, Calls, Phases, CallSeeded, Oriented, Sides

LEMMA ContinueCall ==
  ASSUME call \in [Writers -> Calls], NEW w \in Writers, NEW fields \in Calls,
         NEW phase \in Phases, Continue(w, phase, fields)
  PROVE  /\ call' \in [Writers -> Calls]
         /\ \A v \in Writers : v # w => call'[v] = call[v]
         /\ call'[w].phase = phase /\ call'[w].match = fields.match
         /\ call'[w].bound = fields.bound /\ call'[w].pending = fields.pending
         /\ call'[w].names = fields.names /\ call'[w].payload = fields.payload
BY DEF Continue, Calls

LEMMA CallsConstant == turn' = turn => Calls' = Calls /\ Snapshots' = Snapshots
BY DEF Calls, Snapshots

RowsKept == \A i \in CanonicalIds : Exists(i) => Exists(i)'

\* A step that takes no canonical row away leaves what is known of the other calls.
LEMMA OthersSeeded ==
  ASSUME TypeInv, RowsKept, turn' = turn, NEW v \in Writers, call'[v] = call[v]
  PROVE  CallSeeded(call[v])'
<1>1. CallSeeded(call[v])
  BY DEF TypeInv
<1> QED BY <1>1, CallsConstant DEF CallSeeded, RowsKept

\* A step of one call that changes no row and no entry.
LEMMA CallOnly ==
  ASSUME TypeInv, NEW w \in Writers, UNCHANGED <<turn, rows, matchMap, log, lineups, acked, fails>>,
         call' \in [Writers -> Calls], \A v \in Writers : v # w => call'[v] = call[v],
         CallSeeded(call[w])'
  PROVE  TypeInv'
<1>1. RowsKept
  BY DEF RowsKept, Exists
<1>2. \A v \in Writers : CallSeeded(call[v])'
  BY <1>1, OthersSeeded
<1>3. TypeOK'
  BY CallsConstant DEF TypeInv, TypeOK
<1>4. MapSeeded'
  BY DEF TypeInv, MapSeeded, Exists
<1> QED BY <1>2, <1>3, <1>4 DEF TypeInv

-----------------------------------------------------------------------------
(* Types and bindings, one lemma per action.                               *)

LEMMA InitType == Init => TypeInv
<1> SUFFICES ASSUME Init PROVE TypeInv
  OBVIOUS
<1>1. PICK old \in SUBSET Pids :
        /\ turn \in [Pids -> Sides]
        /\ rows = [i \in Ids |-> IF \E p \in old : i = Stub[p]
                      THEN [names |-> turn[CHOOSE p \in old : i = Stub[p]],
                            score |-> Null, extra |-> Null]
                      ELSE Null]
        /\ matchMap = [p \in Pids |-> IF p \in old THEN Stub[p] ELSE Null]
        /\ log = [i \in Ids |-> {}]
        /\ lineups = [i \in Ids |-> Null]
        /\ call = [w \in Writers |-> Idle]
        /\ acked = [w \in Writers |-> [p \in Pids |-> {}]]
        /\ fails = 0
  BY DEF Init
<1>2. rows \in [Ids -> Row \cup {Null}]
  <2> SUFFICES ASSUME NEW i \in Ids, NEW p \in old, i = Stub[p]
               PROVE  turn[CHOOSE q \in old : i = Stub[q]] \in Oriented
    BY <1>1 DEF Row, Oriented
  <2>1. (CHOOSE q \in old : i = Stub[q]) \in Pids
    OBVIOUS
  <2> QED BY <1>1, <2>1 DEF Oriented
<1>3. TypeOK
  BY <1>1, <1>2, IdFacts, IdleCall, ReconcileAssumption DEF TypeOK, Oriented
<1>4. MapSeeded
  BY <1>1, IdFacts, ReconcileAssumption DEF MapSeeded, CanonicalIds
<1>5. \A w \in Writers : CallSeeded(call[w])
  BY <1>1, IdleCall
<1> QED BY <1>3, <1>4, <1>5 DEF TypeInv

LEMMA BindType ==
  ASSUME TypeInv, NEW w \in Writers, call[w].phase # "idle", NEW i \in Ids, NEW pending \in BOOLEAN,
         i \in CanonicalIds \cup {Stub[call[w].match.id]}, i \in CanonicalIds => Exists(i),
         Bind(w, i, pending), UNCHANGED <<turn, rows>>
  PROVE  /\ call' \in [Writers -> Calls]
         /\ \A v \in Writers : v # w => call'[v] = call[v]
         /\ CallSeeded(call[w])'
         /\ call'[w].phase = "inspect" /\ call'[w].match = call[w].match /\ call'[w].bound = i
<1> DEFINE fields == [call[w] EXCEPT !.bound = i, !.pending = pending]
<1>1. call[w] \in Calls /\ call[w].match \in Snapshots
  BY CallFacts
<1>2. fields \in Calls /\ fields.match = call[w].match /\ fields.bound = i
  BY <1>1 DEF Calls
<1> HIDE DEF fields
<1>3. Continue(w, "inspect", fields)
  BY DEF Bind, fields
<1>4. /\ call' \in [Writers -> Calls] /\ \A v \in Writers : v # w => call'[v] = call[v]
      /\ call'[w].phase = "inspect" /\ call'[w].match = call[w].match /\ call'[w].bound = i
  BY <1>2, <1>3, ContinueCall DEF TypeInv, TypeOK, Phases
<1>5. CallSeeded(call[w])'
  BY <1>1, <1>4, CallsConstant DEF CallSeeded, Bindings, Exists
<1> QED BY <1>4, <1>5

LEMMA StartType ==
  ASSUME TypeInv, NEW w \in Writers, NEW p \in Pids, Start(w, p)
  PROVE  TypeInv'
<1>1. PICK m \in Snapshots : m.id = p /\ Continue(w, "lookup", [Idle EXCEPT !.match = m])
  BY DEF Start
<1>2. [Idle EXCEPT !.match = m] \in Calls /\ [Idle EXCEPT !.match = m].match = m
  BY IdleCall DEF Calls, Idle
<1>3. call' \in [Writers -> Calls] /\ (\A v \in Writers : v # w => call'[v] = call[v])
      /\ call'[w].phase = "lookup" /\ call'[w].match = m
  BY <1>1, <1>2, ContinueCall DEF TypeInv, TypeOK, Phases
<1>4. CallSeeded(call[w])'
  BY <1>3, CallsConstant DEF CallSeeded, Bindings, Start
<1> QED BY <1>3, <1>4, CallOnly DEF Start

LEMMA LookupType ==
  ASSUME TypeInv, NEW w \in Writers, Lookup(w)
  PROVE  TypeInv'
<1> DEFINE c == call[w]
           p == c.match.id
<1>1. c.phase = "lookup" /\ c \in Calls /\ c.match \in Snapshots /\ p \in Pids
  BY CallFacts DEF Lookup
<1>2. CASE Continue(w, "search", c) \/ Continue(w, "purge", c)
  <2>1. /\ call' \in [Writers -> Calls] /\ \A v \in Writers : v # w => call'[v] = call[v]
        /\ call'[w].phase \in {"search", "purge"} /\ call'[w].match = c.match
    BY <1>1, <1>2, ContinueCall DEF TypeInv, TypeOK, Phases
  <2>2. CallSeeded(call[w])'
    BY <1>1, <2>1, CallsConstant DEF CallSeeded, Bindings, Lookup
  <2> QED BY <2>1, <2>2, CallOnly DEF Lookup
<1>3. CASE matchMap[p] \notin {Null, Stub[p]} /\ Bind(w, matchMap[p], FALSE)
  <2>1. matchMap[p] \in CanonicalIds /\ Exists(matchMap[p])
    BY <1>1, <1>3 DEF TypeInv, MapSeeded
  <2>2. matchMap[p] \in Ids
    BY <2>1, IdFacts
  <2>3. CallSeeded(call[w])' /\ call' \in [Writers -> Calls] /\ \A v \in Writers : v # w => call'[v] = call[v]
    BY <1>1, <1>3, <2>1, <2>2, BindType DEF Lookup
  <2> QED BY <2>3, CallOnly DEF Lookup
<1> QED BY <1>2, <1>3 DEF Lookup

\* A call goes on with the row that it is bound to.
LEMMA GoOnType ==
  ASSUME TypeInv, RowsKept, turn' = turn, NEW w \in Writers, call[w].phase \in Bindings,
         NEW fields \in Calls, fields.match = call[w].match, fields.bound = call[w].bound,
         NEW phase \in Bindings, Continue(w, phase, fields),
         phase = "adopt" => fields.bound \in CanonicalIds,
         phase \in {"adopt", "upsert"} => fields.payload \in Payload
  PROVE  /\ call' \in [Writers -> Calls]
         /\ \A v \in Writers : v # w => call'[v] = call[v]
         /\ CallSeeded(call[w])'
<1>1. call[w].phase # "idle" /\ call[w].match \in Snapshots /\ phase \in Phases
  BY CallFacts DEF Bindings, Phases
<1>2. /\ call' \in [Writers -> Calls]
      /\ \A v \in Writers : v # w => call'[v] = call[v]
      /\ call'[w].phase = phase /\ call'[w].match = call[w].match
      /\ call'[w].bound = call[w].bound /\ call'[w].payload = fields.payload
  BY <1>1, ContinueCall DEF TypeInv, TypeOK
<1>3. CallSeeded(call[w])
  BY DEF TypeInv
<1>4. call[w].bound \in CanonicalIds \cup {Stub[call[w].match.id]}
      /\ (call[w].bound \in CanonicalIds => rows'[call[w].bound] # Null)
  BY <1>1, <1>3 DEF CallSeeded, RowsKept, Exists
<1>5. CallSeeded(call[w])'
  BY <1>1, <1>2, <1>4, CallsConstant DEF CallSeeded, Exists
<1> QED BY <1>2, <1>5

LEMMA EndType ==
  ASSUME TypeInv, NEW w \in Writers, call' = [call EXCEPT ![w] = Idle], turn' = turn
  PROVE  /\ call' \in [Writers -> Calls]
         /\ \A v \in Writers : v # w => call'[v] = call[v]
         /\ CallSeeded(call[w])'
<1>1. call \in [Writers -> Calls]
  BY DEF TypeInv, TypeOK
<1>2. call'[w] = Idle
  BY <1>1
<1> QED BY <1>1, <1>2, IdleCall DEF CallSeeded

LEMMA RegisterType ==
  ASSUME TypeInv, NEW w \in Writers, call[w].phase # "idle", Register(w), turn' = turn
  PROVE  /\ call' \in [Writers -> Calls]
         /\ \A v \in Writers : v # w => call'[v] = call[v]
         /\ CallSeeded(call[w])'
         /\ \/ /\ call[w].match.named /\ call'[w].phase = "read"
               /\ call'[w].match = call[w].match /\ call'[w].bound = Stub[call[w].match.id]
               /\ call'[w].names = turn[call[w].match.id]
            \/ call'[w] = Idle
<1> DEFINE m == call[w].match
           fields == [call[w] EXCEPT !.bound = Stub[m.id], !.names = turn[m.id]]
<1>1. call[w] \in Calls /\ m \in Snapshots /\ m.id \in Pids /\ turn[m.id] \in Oriented
  BY CallFacts DEF TypeInv, TypeOK, Oriented
<1>2. CASE m.named
  <2>1. fields \in Calls /\ fields.match = m /\ fields.bound = Stub[m.id] /\ fields.names = turn[m.id]
    BY <1>1, IdFacts DEF Calls
  <2>2. Continue(w, "read", fields)
    BY <1>2 DEF Register
  <2> HIDE DEF fields
  <2>3. /\ call' \in [Writers -> Calls] /\ \A v \in Writers : v # w => call'[v] = call[v]
        /\ call'[w].phase = "read" /\ call'[w].match = m /\ call'[w].bound = Stub[m.id]
        /\ call'[w].names = turn[m.id]
    BY <2>1, <2>2, ContinueCall DEF TypeInv, TypeOK, Phases
  <2>4. CallSeeded(call[w])'
    BY <1>1, <2>3, IdFacts, CallsConstant DEF CallSeeded
  <2> QED BY <1>2, <2>3, <2>4
<1>3. CASE ~m.named
  <2>1. call' = [call EXCEPT ![w] = Idle] /\ call \in [Writers -> Calls]
    BY <1>3 DEF Register, TypeInv, TypeOK
  <2> QED BY <2>1, EndType
<1> QED BY <1>2, <1>3

LEMMA PurgeType ==
  ASSUME TypeInv, NEW w \in Writers, Purge(w)
  PROVE  TypeInv'
<1>1. call[w] \in Calls /\ call[w].match \in Snapshots /\ call[w].match.id \in Pids
  BY CallFacts DEF Purge
<1>2. /\ call' \in [Writers -> Calls] /\ \A v \in Writers : v # w => call'[v] = call[v]
      /\ call'[w].phase = "search" /\ call'[w].match = call[w].match
  BY <1>1, ContinueCall DEF Purge, TypeInv, TypeOK, Phases
<1>3. RowsKept /\ turn' = turn
  BY DEF Purge, RowsKept, Exists
<1>4. CallSeeded(call[w])'
  BY <1>1, <1>2, <1>3, CallsConstant DEF CallSeeded, Bindings
<1>5. \A v \in Writers : CallSeeded(call[v])'
  BY <1>2, <1>3, <1>4, OthersSeeded
<1>6. TypeOK'
  BY <1>1, <1>2, CallsConstant DEF Purge, TypeInv, TypeOK
<1>7. MapSeeded'
  <2>1. ASSUME NEW p \in Pids PROVE matchMap'[p] \in {matchMap[p], Null}
    BY <1>1 DEF Purge, TypeInv, TypeOK
  <2> QED BY <1>3, <2>1, IdFacts DEF TypeInv, MapSeeded, RowsKept, Exists
<1> QED BY <1>5, <1>6, <1>7 DEF TypeInv

LEMMA SearchType ==
  ASSUME TypeInv, NEW w \in Writers, Search(w)
  PROVE  TypeInv'
<1> DEFINE m == call[w].match
<1>1. call[w].phase = "search" /\ m \in Snapshots /\ m.id \in Pids
  BY CallFacts DEF Search
<1>2. UNCHANGED <<turn, rows, matchMap, log, lineups, acked, fails>>
  BY DEF Search
<1>3. /\ m.id \in CanonicalIds \cap Ids
      /\ Stub[m.id] \in Ids /\ Stub[m.id] \notin CanonicalIds
      /\ \A k \in DOMAIN Fits[m.id] : Fits[m.id][k] \in CanonicalIds \cap Ids
  BY <1>1, IdFacts, CanonicalFacts DEF CanonicalIds
<1>4. \/ \E i \in Ids, pending \in BOOLEAN :
            /\ i \in CanonicalIds \cup {Stub[m.id]} /\ (i \in CanonicalIds => Exists(i))
            /\ Bind(w, i, pending)
      \/ Register(w)
  <2>1. CASE Exists(m.id) /\ Bind(w, m.id, TRUE)
    BY <1>3, <2>1
  <2>2. CASE \E k \in Candidates(m) : Bind(w, Fits[m.id][k], TRUE)
    BY <1>3, <2>2 DEF Candidates
  <2>3. CASE Bind(w, Stub[m.id], FALSE)
    BY <1>3, <2>3
  <2> QED BY <2>1, <2>2, <2>3 DEF Search
<1>5. /\ call' \in [Writers -> Calls] /\ \A v \in Writers : v # w => call'[v] = call[v]
      /\ CallSeeded(call[w])'
  BY <1>1, <1>2, <1>4, BindType, RegisterType
<1> QED BY <1>2, <1>5, CallOnly

LEMMA MergedPayloadType ==
  ASSUME TypeOK, NEW m \in Snapshots, NEW i \in Ids, NEW reversed
  PROVE  MergedPayload(m, i, reversed) \in Payload
<1>1. StoredPayload(Stub[m.id]) \in Payload /\ StoredPayload(i) \in Payload
  BY SnapshotType, IdFacts, StoredPayloadType
<1> QED BY <1>1, RicherType, ViewType DEF MergedPayload, Payload

LEMMA AfterAdoptionType == ASSUME NEW w PROVE AfterAdoption(w) \in {"map", "read"}
BY DEF AfterAdoption

LEMMA InspectType ==
  ASSUME TypeInv, NEW w \in Writers, Inspect(w)
  PROVE  TypeInv'
<1> DEFINE c == call[w]
           m == c.match
           i == c.bound
           names == StoredPayload(i).names
           seen == [c EXCEPT !.names = names]
           merged == MergedPayload(m, i, IsReverseOriented(m, names))
           joined == [seen EXCEPT !.payload = merged]
<1>0. c.phase = "inspect" /\ UNCHANGED <<turn, rows, matchMap, log, lineups, acked, fails>>
  BY DEF Inspect
<1>1. c \in Calls /\ m \in Snapshots /\ m.id \in Pids /\ i \in Ids
  BY <1>0, CallFacts DEF Bindings
<1>2. i \in CanonicalIds \cup {Stub[m.id]}
  BY <1>0 DEF TypeInv, CallSeeded, Bindings
<1>3. StoredPayload(i) \in Payload /\ merged \in Payload
  BY <1>1, StoredPayloadType, MergedPayloadType DEF TypeInv
<1>4. seen \in Calls /\ seen.match = m /\ seen.bound = i
  BY <1>1, <1>3 DEF Calls, Payload
<1>5. joined \in Calls /\ joined.match = m /\ joined.bound = i /\ joined.payload = merged
  BY <1>3, <1>4 DEF Calls
<1>6. \/ Continue(w, AfterAdoption(w), seen) \/ Continue(w, "unmap", seen)
      \/ i # Stub[m.id] /\ Continue(w, "adopt", joined)
  BY DEF Inspect
<1>7. RowsKept
  BY <1>0 DEF RowsKept, Exists
<1> HIDE DEF seen, joined, merged
<1>8. /\ call' \in [Writers -> Calls] /\ \A v \in Writers : v # w => call'[v] = call[v]
      /\ CallSeeded(call[w])'
  <2>1. CASE \E phase \in {"map", "read", "unmap"} : Continue(w, phase, seen)
    BY <1>0, <1>4, <1>7, <2>1, GoOnType DEF Bindings
  <2>2. CASE i # Stub[m.id] /\ Continue(w, "adopt", joined)
    BY <1>0, <1>2, <1>3, <1>5, <1>7, <2>2, GoOnType DEF Bindings
  <2> QED BY <1>6, <2>1, <2>2, AfterAdoptionType
<1> QED BY <1>0, <1>8, CallOnly

\* The row an adoption leaves: the payload's sections, the score it had.
LEMMA AdoptRows ==
  ASSUME TypeInv, NEW w \in Writers, Adopt(w)
  PROVE  LET c == call[w]
             s == Stub[c.match.id]
             i == c.bound IN
         /\ i # s /\ Exists(i)
         /\ rows'[i] = [names |-> c.payload.names, score |-> rows[i].score, extra |-> c.payload.extra]
         /\ rows'[s] = Null
         /\ \A j \in Ids : j \notin {i, s} => rows'[j] = rows[j]
         /\ rows' \in [Ids -> Row \cup {Null}] /\ rows'[i] # Null
<1> DEFINE c == call[w]
           s == Stub[c.match.id]
           i == c.bound
<1>1. /\ c.phase = "adopt" /\ i \in CanonicalIds /\ Exists(i) /\ c.payload \in Payload
      /\ i \in Ids /\ c.match.id \in Pids
  BY CallFacts, IdFacts DEF Adopt
<1>2. s \in Ids /\ s # i
  BY <1>1, IdFacts
<1>3. rows \in [Ids -> Row \cup {Null}] /\ rows[i] \in Row
  BY <1>1 DEF TypeInv, TypeOK, Exists
<1>4. rows' = [rows EXCEPT ![i].names = c.payload.names, ![i].extra = c.payload.extra, ![s] = Null]
  BY DEF Adopt
<1> HIDE DEF c, s, i
<1>5. rows'[i] = [names |-> c.payload.names, score |-> rows[i].score, extra |-> c.payload.extra]
  BY <1>1, <1>2, <1>3, <1>4 DEF Row
<1>6. rows'[s] = Null /\ \A j \in Ids : j \notin {i, s} => rows'[j] = rows[j]
  BY <1>1, <1>2, <1>3, <1>4
<1>7. rows'[i] \in Row
  BY <1>1, <1>3, <1>5 DEF Row, Payload
<1>8. rows' \in [Ids -> Row \cup {Null}]
  BY <1>3, <1>4, <1>6, <1>7
<1>9. rows'[i] # Null
  BY <1>7, ReconcileAssumption
<1> QED BY <1>1, <1>2, <1>5, <1>6, <1>8, <1>9 DEF c, s, i

LEMMA AdoptType ==
  ASSUME TypeInv, NEW w \in Writers, Adopt(w)
  PROVE  TypeInv'
<1> DEFINE c == call[w]
           m == c.match
           s == Stub[m.id]
           i == c.bound
           reversed == IsReverseOriented(m, c.names)
<1>1. c.phase = "adopt" /\ c \in Calls /\ m \in Snapshots /\ m.id \in Pids /\ i \in Ids
      /\ i \in CanonicalIds
  BY CallFacts DEF Adopt, Bindings
<1>2. s \in Ids /\ s \notin CanonicalIds
  BY <1>1, IdFacts
<1>3. RowsKept
  <2> SUFFICES ASSUME NEW j \in CanonicalIds, Exists(j) PROVE rows'[j] # Null
    BY DEF RowsKept, Exists
  <2>1. j \in Ids /\ j # s
    BY <1>2, IdFacts
  <2>2. CASE j = i
    BY <2>2, AdoptRows
  <2>3. CASE j # i
    BY <2>1, <2>3, AdoptRows DEF Exists
  <2> QED BY <2>2, <2>3
<1>4. lineups' \in [Ids -> Oriented]
  <2>1. lineups[i] \in Oriented /\ HomeAwayView(lineups[s], reversed) \in Oriented
    BY <1>1, <1>2, ViewType DEF TypeInv, TypeOK
  <2>2. PreservingRicher(lineups[i], HomeAwayView(lineups[s], reversed)) \in Oriented
    BY <2>1, RicherType
  <2>3. lineups' = [lineups EXCEPT ![i] = PreservingRicher(@, HomeAwayView(lineups[s], reversed)),
                                   ![s] = Null]
    BY DEF Adopt
  <2> HIDE DEF i, s, reversed
  <2> QED BY <2>2, <2>3 DEF TypeInv, TypeOK, Oriented
<1>5. log' \in [Ids -> SUBSET EventRow]
  BY <1>1, <1>2 DEF Adopt, TypeInv, TypeOK
<1>6. matchMap' = [p \in Pids |-> IF matchMap[p] = s THEN i ELSE matchMap[p]]
      /\ UNCHANGED <<turn, acked, fails>>
  BY DEF Adopt
<1>7. matchMap' \in [Pids -> Ids \cup {Null}]
  BY <1>1, <1>6 DEF TypeInv, TypeOK
<1>8. MapSeeded'
  <2> SUFFICES ASSUME NEW p \in Pids
               PROVE  /\ matchMap'[p] \in CanonicalIds \cup {Null, Stub[p]}
                      /\ matchMap'[p] \in CanonicalIds => rows'[matchMap'[p]] # Null
    BY DEF MapSeeded, Exists
  <2>1. CASE matchMap'[p] = i
    BY <1>1, <2>1, AdoptRows
  <2>2. CASE matchMap'[p] = matchMap[p]
    BY <1>3, <2>2 DEF RowsKept, TypeInv, MapSeeded, Exists
  <2> QED BY <1>6, <2>1, <2>2
<1>9. /\ call' \in [Writers -> Calls] /\ \A v \in Writers : v # w => call'[v] = call[v]
      /\ CallSeeded(call[w])'
  <2>1. Continue(w, AfterAdoption(w), c)
    BY DEF Adopt
  <2> QED BY <1>1, <1>3, <1>6, <2>1, AfterAdoptionType, GoOnType DEF Bindings
<1>10. \A v \in Writers : CallSeeded(call[v])'
  BY <1>3, <1>6, <1>9, OthersSeeded
<1>11. TypeOK'
  BY <1>4, <1>5, <1>6, <1>7, <1>9, AdoptRows, CallsConstant DEF TypeInv, TypeOK
<1> QED BY <1>8, <1>10, <1>11 DEF TypeInv

LEMMA MapKept ==
  ASSUME TypeInv, RowsKept, \A p \in Pids : matchMap'[p] \in {matchMap[p], Null}
  PROVE  MapSeeded'
BY IdFacts DEF TypeInv, MapSeeded, RowsKept, Exists

LEMMA UnmapType ==
  ASSUME TypeInv, NEW w \in Writers, Unmap(w)
  PROVE  TypeInv'
<1>1. call[w].phase # "idle" /\ call[w].match.id \in Pids
  BY CallFacts DEF Unmap
<1>2. RowsKept /\ turn' = turn
  BY DEF Unmap, RowsKept, Exists
<1>3. /\ call' \in [Writers -> Calls] /\ \A v \in Writers : v # w => call'[v] = call[v]
      /\ CallSeeded(call[w])'
  BY <1>1, RegisterType DEF Unmap
<1>4. \A v \in Writers : CallSeeded(call[v])'
  BY <1>2, <1>3, OthersSeeded
<1>5. TypeOK'
  BY <1>1, <1>3, CallsConstant DEF Unmap, TypeInv, TypeOK
<1>6. \A p \in Pids : matchMap'[p] \in {matchMap[p], Null}
  BY <1>1 DEF Unmap, TypeInv, TypeOK
<1> QED BY <1>2, <1>4, <1>5, <1>6, MapKept DEF TypeInv

LEMMA MapTargetType ==
  ASSUME TypeInv, NEW w \in Writers, MapTarget(w)
  PROVE  TypeInv'
<1> DEFINE c == call[w]
           p == c.match.id
<1>1. c.phase = "map" /\ c \in Calls /\ p \in Pids /\ c.bound \in Ids /\ Exists(c.bound)
      /\ c.bound \in CanonicalIds \cup {Stub[p]}
  BY CallFacts DEF MapTarget, Bindings, TypeInv, CallSeeded
<1>2. RowsKept /\ turn' = turn /\ matchMap' = [matchMap EXCEPT ![p] = c.bound]
  BY DEF MapTarget, RowsKept, Exists
<1>3. /\ call' \in [Writers -> Calls] /\ \A v \in Writers : v # w => call'[v] = call[v]
      /\ CallSeeded(call[w])'
  BY <1>1, <1>2, GoOnType DEF MapTarget, Bindings
<1>4. \A v \in Writers : CallSeeded(call[v])'
  BY <1>2, <1>3, OthersSeeded
<1>5. TypeOK'
  BY <1>1, <1>2, <1>3, CallsConstant DEF MapTarget, TypeInv, TypeOK
<1>6. MapSeeded'
  <2> SUFFICES ASSUME NEW q \in Pids
               PROVE  /\ matchMap'[q] \in CanonicalIds \cup {Null, Stub[q]}
                      /\ matchMap'[q] \in CanonicalIds => rows'[matchMap'[q]] # Null
    BY DEF MapSeeded, Exists
  <2>1. CASE q = p
    BY <1>1, <1>2, <2>1 DEF MapTarget, TypeInv, TypeOK, Exists
  <2>2. CASE q # p
    BY <1>1, <1>2, <2>2 DEF TypeInv, TypeOK, MapSeeded, RowsKept, Exists
  <2> QED BY <2>1, <2>2
<1> QED BY <1>4, <1>5, <1>6 DEF TypeInv

LEMMA ReadPayloadType ==
  ASSUME TypeInv, NEW w \in Writers, ReadPayload(w)
  PROVE  TypeInv'
<1> DEFINE c == call[w]
           fields == [c EXCEPT !.payload = StoredPayload(c.bound)]
<1>1. c.phase = "read" /\ c \in Calls /\ c.bound \in Ids
      /\ UNCHANGED <<turn, rows, matchMap, log, lineups, acked, fails>>
  BY CallFacts DEF ReadPayload, Bindings
<1>2. StoredPayload(c.bound) \in Payload
  BY <1>1, StoredPayloadType DEF TypeInv
<1>3. fields \in Calls /\ fields.match = c.match /\ fields.bound = c.bound /\ fields.payload \in Payload
  BY <1>1, <1>2 DEF Calls
<1>4. RowsKept
  BY <1>1 DEF RowsKept, Exists
<1>5. Continue(w, "upsert", fields)
  BY DEF ReadPayload
<1> HIDE DEF fields
<1>6. /\ call' \in [Writers -> Calls] /\ \A v \in Writers : v # w => call'[v] = call[v]
      /\ CallSeeded(call[w])'
  BY <1>1, <1>3, <1>4, <1>5, GoOnType DEF Bindings
<1> QED BY <1>1, <1>6, CallOnly

\* The row an upsert leaves.
LEMMA UpsertRows ==
  ASSUME TypeInv, NEW w \in Writers, UpsertRow(w)
  PROVE  LET c == call[w]
             i == c.bound
             reversed == IsReverseOriented(c.match, c.names) IN
         /\ rows'[i] = [names |-> WrittenNames(c),
                        score |-> HomeAwayView(c.match.score, reversed),
                        extra |-> PreservingRicher(c.payload.extra,
                                                   HomeAwayView(c.match.extra, reversed))]
         /\ rows'[i].names = WrittenNames(c)
         /\ rows'[i].extra = PreservingRicher(c.payload.extra, HomeAwayView(c.match.extra, reversed))
         /\ \A j \in Ids : j # i => rows'[j] = rows[j]
         /\ rows' \in [Ids -> Row \cup {Null}] /\ rows'[i] # Null
<1> DEFINE c == call[w]
           i == c.bound
           m == c.match
           reversed == IsReverseOriented(m, c.names)
           new == [names |-> WrittenNames(c),
                   score |-> HomeAwayView(m.score, reversed),
                   extra |-> PreservingRicher(c.payload.extra, HomeAwayView(m.extra, reversed))]
<1>1. /\ c.phase = "upsert" /\ i \in Ids /\ m \in Snapshots /\ c.payload \in Payload
      /\ c.names \in Oriented
  BY CallFacts DEF UpsertRow, Bindings
<1>2. m.score \in Oriented /\ m.extra \in Oriented /\ m.id \in Pids /\ turn[m.id] \in Oriented
  BY <1>1, SnapshotType DEF TypeInv, Oriented
<1>3. c.payload.extra \in Oriented /\ c.payload.names \in Oriented
  BY <1>1 DEF Payload
<1>4. WrittenNames(c) \in Oriented
  BY <1>1, <1>2, <1>3 DEF WrittenNames
<1>5. HomeAwayView(m.score, reversed) \in Oriented /\ HomeAwayView(m.extra, reversed) \in Oriented
  BY <1>2, ViewType
<1>6. new \in Row
  BY <1>3, <1>4, <1>5, RicherType DEF Row
<1>7. rows' = [rows EXCEPT ![i] = new]
  BY DEF UpsertRow
<1> HIDE DEF new
<1>8. rows \in [Ids -> Row \cup {Null}]
  BY DEF TypeInv, TypeOK
<1>9. rows'[i] = new /\ (\A j \in Ids : j # i => rows'[j] = rows[j]) /\ rows' \in [Ids -> Row \cup {Null}]
      /\ new # Null
  BY <1>1, <1>6, <1>7, <1>8, ReconcileAssumption
<1> QED BY <1>9 DEF new

LEMMA UpsertType ==
  ASSUME TypeInv, NEW w \in Writers, UpsertRow(w)
  PROVE  TypeInv'
<1> DEFINE c == call[w]
<1>1. c.phase = "upsert" /\ c \in Calls /\ c.bound \in Ids
  BY CallFacts DEF UpsertRow, Bindings
<1>2. RowsKept
  <2> SUFFICES ASSUME NEW j \in CanonicalIds, Exists(j) PROVE rows'[j] # Null
    BY DEF RowsKept, Exists
  <2> QED BY UpsertRows, IdFacts DEF Exists
<1>3. turn' = turn /\ matchMap' = matchMap /\ Continue(w, "append", c)
      /\ UNCHANGED <<log, lineups, acked, fails>>
  BY DEF UpsertRow
<1>4. /\ call' \in [Writers -> Calls] /\ \A v \in Writers : v # w => call'[v] = call[v]
      /\ CallSeeded(call[w])'
  BY <1>1, <1>2, <1>3, GoOnType DEF Bindings
<1>5. \A v \in Writers : CallSeeded(call[v])'
  BY <1>2, <1>3, <1>4, OthersSeeded
<1>6. TypeOK'
  BY <1>3, <1>4, UpsertRows, CallsConstant DEF TypeInv, TypeOK
<1> QED BY <1>2, <1>3, <1>5, <1>6, MapKept DEF TypeInv

LEMMA AppendType ==
  ASSUME TypeInv, NEW w \in Writers, AppendEvents(w)
  PROVE  TypeInv'
<1> DEFINE c == call[w]
           m == c.match
           new == {<<m.id, q>> : q \in {q \in 1 .. m.last \ acked[w][m.id] : q > HeadSeq(c.bound)}}
<1>1. c.phase = "append" /\ c \in Calls /\ c.bound \in Ids /\ m \in Snapshots
  BY CallFacts DEF AppendEvents, Bindings
<1>2. m.id \in Pids /\ m.last \in 0 .. MaxEvents
  BY <1>1, SnapshotType DEF TypeInv
<1>3. new \subseteq EventRow
  BY <1>2, ReconcileAssumption DEF EventRow, Seqs
<1>4. log' = [log EXCEPT ![c.bound] = @ \cup new] /\ Continue(w, "persist", c)
      /\ UNCHANGED <<turn, rows, matchMap, lineups, acked, fails>>
  BY DEF AppendEvents
<1> HIDE DEF new
<1>5. RowsKept
  BY <1>4 DEF RowsKept, Exists
<1>6. /\ call' \in [Writers -> Calls] /\ \A v \in Writers : v # w => call'[v] = call[v]
      /\ CallSeeded(call[w])'
  BY <1>1, <1>4, <1>5, GoOnType DEF Bindings
<1>7. \A v \in Writers : CallSeeded(call[v])'
  BY <1>4, <1>5, <1>6, OthersSeeded
<1>8. log' \in [Ids -> SUBSET EventRow]
  BY <1>1, <1>3, <1>4 DEF TypeInv, TypeOK
<1>9. TypeOK'
  BY <1>4, <1>6, <1>8, CallsConstant DEF TypeInv, TypeOK
<1> QED BY <1>4, <1>5, <1>7, <1>9, MapKept DEF TypeInv

LEMMA BaselineType ==
  ASSUME TypeInv, NEW w \in Writers, call[w].phase = "persist"
  PROVE  Baseline(w) \subseteq Seqs
<1>1. call[w].match.last \in 0 .. MaxEvents
  BY CallFacts, SnapshotType DEF TypeInv
<1> QED BY <1>1, ReconcileAssumption DEF Baseline, Seqs

LEMMA PersistType ==
  ASSUME TypeInv, NEW w \in Writers, PersistSideTables(w)
  PROVE  TypeInv'
<1> DEFINE c == call[w]
           section == PreservingRicher(c.match.extra, StoredPayload(c.bound).extra)
<1>1. c.phase = "persist" /\ c.bound \in Ids /\ c.match \in Snapshots /\ c.match.id \in Pids
  BY CallFacts DEF PersistSideTables, Bindings
<1>2. UNCHANGED <<turn, rows, matchMap, log, fails>>
  BY DEF PersistSideTables
<1>3. RowsKept
  BY <1>2 DEF RowsKept, Exists
<1>4. /\ call' \in [Writers -> Calls] /\ \A v \in Writers : v # w => call'[v] = call[v]
      /\ CallSeeded(call[w])'
  BY <1>2, EndType DEF PersistSideTables
<1>5. \A v \in Writers : CallSeeded(call[v])'
  BY <1>2, <1>3, <1>4, OthersSeeded
<1>6. lineups' \in [Ids -> Oriented]
  <2>1. StoredPayload(c.bound) \in Payload /\ c.match.extra \in Oriented
    BY <1>1, StoredPayloadType, SnapshotType DEF TypeInv
  <2>2. section \in Oriented
    BY <2>1, RicherType DEF Payload
  <2>3. lineups' = [lineups EXCEPT ![c.bound] = PreservingRicher(@, section)]
    BY DEF PersistSideTables
  <2> HIDE DEF section
  <2> QED BY <1>1, <2>2, <2>3, RicherType DEF TypeInv, TypeOK
<1>7. acked' \in [Writers -> [Pids -> SUBSET Seqs]]
  <2>1. Baseline(w) \in SUBSET Seqs
    BY <1>1, BaselineType
  <2> QED BY <1>1, <2>1 DEF PersistSideTables, TypeInv, TypeOK
<1>8. TypeOK'
  BY <1>2, <1>4, <1>6, <1>7, CallsConstant DEF TypeInv, TypeOK
<1> QED BY <1>2, <1>3, <1>5, <1>8, MapKept DEF TypeInv

LEMMA FailType ==
  ASSUME TypeInv, NEW w \in Writers, Fail(w)
  PROVE  TypeInv'
<1>1. UNCHANGED <<turn, rows, matchMap, log, lineups>>
  BY DEF Fail
<1>2. RowsKept
  BY <1>1 DEF RowsKept, Exists
<1>3. /\ call' \in [Writers -> Calls] /\ \A v \in Writers : v # w => call'[v] = call[v]
      /\ CallSeeded(call[w])'
  BY <1>1, EndType DEF Fail
<1>4. \A v \in Writers : CallSeeded(call[v])'
  BY <1>1, <1>2, <1>3, OthersSeeded
<1>5. fails' \in 0 .. MaxFails
  BY ReconcileAssumption DEF Fail, TypeInv, TypeOK
<1>6. acked' \in [Writers -> [Pids -> SUBSET Seqs]]
  <2>1. acked \in [Writers -> [Pids -> SUBSET Seqs]] /\ [p \in Pids |-> {}] \in [Pids -> SUBSET Seqs]
    BY DEF TypeInv, TypeOK
  <2>2. acked' = acked \/ acked' = [acked EXCEPT ![w] = [p \in Pids |-> {}]]
    BY DEF Fail
  <2> QED BY <2>1, <2>2
<1>7. TypeOK'
  BY <1>1, <1>3, <1>5, <1>6, CallsConstant DEF TypeInv, TypeOK
<1> QED BY <1>1, <1>2, <1>4, <1>7, MapKept DEF TypeInv

\* The row the loader writes.
LEMMA LoadedRow ==
  ASSUME TypeInv, NEW i \in CanonicalIds, LoadSchedule(i)
  PROVE  /\ rows'[i] = [names |-> rows'[i].names, score |-> Null, extra |-> Null]
         /\ rows'[i].names = "plain" \/ (rows'[i].names = Null /\ i \in Pids)
         /\ rows'[i].score = Null /\ rows'[i].extra = Null
         /\ rows'[i] # Null /\ rows' \in [Ids -> Row \cup {Null}]
         /\ \A j \in Ids : j # i => rows'[j] = rows[j]
<1>1. PICK names \in {"plain"} \cup (IF i \in Pids THEN {Null} ELSE {}) :
        rows' = [rows EXCEPT ![i] = [names |-> names, score |-> Null, extra |-> Null]]
  BY DEF LoadSchedule
<1>2. i \in Ids /\ rows \in [Ids -> Row \cup {Null}]
  BY IdFacts DEF TypeInv, TypeOK
<1>3. [names |-> names, score |-> Null, extra |-> Null] \in Row
  BY DEF Row, Oriented, Sides
<1>4. rows'[i] = [names |-> names, score |-> Null, extra |-> Null]
  BY <1>1, <1>2
<1> QED BY <1>1, <1>2, <1>3, <1>4, ReconcileAssumption

LEMMA LoadType ==
  ASSUME TypeInv, NEW i \in CanonicalIds, LoadSchedule(i)
  PROVE  TypeInv'
<1>1. UNCHANGED <<turn, matchMap, log, lineups, call, acked, fails>>
  BY DEF LoadSchedule
<1>2. RowsKept
  BY LoadedRow, IdFacts DEF RowsKept, Exists
<1>3. \A v \in Writers : CallSeeded(call[v])'
  BY <1>1, <1>2, OthersSeeded
<1>4. TypeOK'
  BY <1>1, LoadedRow, CallsConstant DEF TypeInv, TypeOK
<1> QED BY <1>1, <1>2, <1>3, <1>4, MapKept DEF TypeInv

LEMMA ImportType ==
  ASSUME TypeInv, NEW i \in CanonicalIds, ImportEvents(i) \/ ClearImported(i)
  PROVE  TypeInv'
<1>1. UNCHANGED <<turn, rows, matchMap, lineups, call, acked, fails>>
  BY DEF ImportEvents, ClearImported
<1>2. RowsKept
  BY <1>1 DEF RowsKept, Exists
<1>3. \A v \in Writers : CallSeeded(call[v])'
  BY <1>1, <1>2, OthersSeeded
<1>4. <<Null, 1>> \in EventRow
  BY ReconcileAssumption DEF EventRow, Seqs
<1>5. log' \in [Ids -> SUBSET EventRow]
  <2>1. log \in [Ids -> SUBSET EventRow] /\ i \in Ids
    BY IdFacts DEF TypeInv, TypeOK
  <2>2. log[i] \in SUBSET EventRow
    BY <2>1
  <2>3. PICK content \in SUBSET EventRow : log' = [log EXCEPT ![i] = content]
    <3>1. CASE ImportEvents(i)
      <4>1. {<<Null, 1>>} \in SUBSET EventRow
        BY <1>4
      <4>2. log' = [log EXCEPT ![i] = {<<Null, 1>>}]
        BY <3>1 DEF ImportEvents
      <4> QED BY <4>1, <4>2
    <3>2. CASE ClearImported(i)
      <4>1. {e \in log[i] : e[1] # Null} \in SUBSET EventRow
        BY <2>2
      <4>2. log' = [log EXCEPT ![i] = {e \in log[i] : e[1] # Null}]
        BY <3>2 DEF ClearImported
      <4> QED BY <4>1, <4>2
    <3> QED BY <3>1, <3>2
  <2> QED BY <2>1, <2>3
<1>6. TypeOK'
  BY <1>1, <1>5, CallsConstant DEF TypeInv, TypeOK
<1> QED BY <1>1, <1>2, <1>3, <1>6, MapKept DEF TypeInv

LEMMA NextType == TypeInv /\ [Next]_vars => TypeInv'
<1> SUFFICES ASSUME TypeInv, [Next]_vars PROVE TypeInv'
  OBVIOUS
<1>1. ASSUME NEW w \in Writers, Step(w) PROVE TypeInv'
  BY <1>1, LookupType, PurgeType, SearchType, InspectType, AdoptType, UnmapType, MapTargetType,
     ReadPayloadType, UpsertType, AppendType, PersistType DEF Step
<1>2. ASSUME NEW w \in Writers, Fail(w) PROVE TypeInv'
  BY <1>2, FailType
<1>3. ASSUME NEW w \in Writers, NEW p \in Pids, Start(w, p) PROVE TypeInv'
  BY <1>3, StartType
<1>4. ASSUME NEW i \in Slugs \cup Pids, LoadSchedule(i) PROVE TypeInv'
  BY <1>4, LoadType DEF CanonicalIds
<1>5. ASSUME NEW i \in Slugs \cup Pids, ImportEvents(i) \/ ClearImported(i) PROVE TypeInv'
  BY <1>5, ImportType DEF CanonicalIds
<1>6. CASE UNCHANGED vars
  <2>1. UNCHANGED <<turn, rows, matchMap, log, lineups, call, acked, fails>>
    BY <1>6 DEF vars
  <2>2. RowsKept
    BY <2>1 DEF RowsKept, Exists
  <2>3. \A v \in Writers : CallSeeded(call[v])'
    BY <2>1, <2>2, OthersSeeded
  <2>4. TypeOK'
    BY <2>1, CallsConstant DEF TypeInv, TypeOK
  <2> QED BY <2>1, <2>2, <2>3, <2>4, MapKept DEF TypeInv
<1> QED BY <1>1, <1>2, <1>3, <1>4, <1>5, <1>6 DEF Next

LEMMA TypeInductive == Spec => []TypeInv
<1> QED BY InitType, NextType, PTL DEF Spec

\* The rows, the map and the calls are what the module says they are, for any number of
\* processes of the source.
THEOREM TypeCorrect == Spec => []TypeOK
<1>1. TypeInv => TypeOK
  BY DEF TypeInv
<1> QED BY <1>1, TypeInductive, PTL

-----------------------------------------------------------------------------
(* One process of the source.  Where the events of a match are.            *)

OneWriter == \A v, w \in Writers : v = w

Homes(p) == Canonical(p) \cup {Stub[p]}

AllAt(p, i) == \A j \in Ids : \A e \in log[j] : e[1] = p => j = i

\* The schedule lists a match once, and a slug with its names.
Scheduled ==
    /\ \A p \in Pids : \A i, j \in Canonical(p) : Exists(i) /\ Exists(j) => i = j
    /\ \A i \in Slugs : Exists(i) => rows[i].names # Null

\* Events and entries are at ids of the match, and as long as its stub is
\* there no event of the match is elsewhere.
Placed ==
    /\ \A i \in Ids : \A e \in log[i] : e[1] # Null => i \in Homes(e[1])
    /\ \A p \in Pids : matchMap[p] # Null => matchMap[p] \in Homes(p)
    /\ \A p \in Pids : Exists(Stub[p]) =>
          \A i \in Canonical(p) : \A e \in log[i] : e[1] # p

AckedStored ==
    \A w \in Writers, p \in Pids : \A q \in acked[w][p] : \E i \in Ids : <<p, q>> \in log[i]

\* The adoption is decided: what the call writes goes to where it is bound.
Settled == {"map", "read", "upsert", "append", "persist"}

CallPlaced(c) ==
    LET p == c.match.id
        i == c.bound
    IN c.phase \in Bindings =>
        /\ i \in Homes(p)
        /\ c.phase \notin {"read", "upsert"} => Exists(i)
        /\ c.phase \in {"adopt", "unmap"} => i \in Canonical(p) /\ Exists(Stub[p])
        /\ c.phase \in Settled =>
              AllAt(p, i) /\ (i \in Canonical(p) => Exists(i) /\ ~ Exists(Stub[p]))
        /\ c.phase \in {"adopt", "map", "read", "upsert"} /\ i \in Slugs => c.names # Null
        /\ c.phase = "adopt" /\ i \in Slugs => c.payload.names # Null

PlaceData == Scheduled /\ Placed /\ ChildrenSeeded /\ AckedStored

PlaceInv == TypeInv /\ PlaceData /\ \A w \in Writers : CallPlaced(call[w])

LEMMA HomesFacts ==
  ASSUME NEW p \in Pids
  PROVE  /\ Homes(p) \subseteq Ids /\ Canonical(p) \subseteq Ids /\ Stub[p] \in Ids
         /\ Stub[p] \notin Canonical(p) /\ Stub[p] \notin Slugs
         /\ \A q \in Pids : Stub[p] \in Homes(q) => q = p
         /\ \A q \in Pids : \A i \in CanonicalIds : i \in Homes(q) => i \in Canonical(q)
<1>1. \A q \in Pids : Canonical(q) \subseteq CanonicalIds
  BY CanonicalFacts
<1> QED BY <1>1, IdFacts DEF Homes, CanonicalIds

LEMMA EventHome ==
  ASSUME TypeOK, Placed, NEW i \in Ids, NEW e \in log[i], NEW p \in Pids, e[1] = p
  PROVE  i \in Homes(p)
BY ReconcileAssumption DEF Placed

LEMMA AllAtStub ==
  ASSUME TypeOK, Placed, NEW p \in Pids, Exists(Stub[p])
  PROVE  AllAt(p, Stub[p])
BY EventHome DEF AllAt, Placed, Homes

LEMMA AllAtRow ==
  ASSUME TypeOK, PlaceData, NEW p \in Pids, ~ Exists(Stub[p]), NEW i \in Canonical(p), Exists(i)
  PROVE  AllAt(p, i)
<1> SUFFICES ASSUME NEW j \in Ids, NEW e \in log[j], e[1] = p PROVE j = i
  BY DEF AllAt
<1>1. j \in Homes(p) /\ Exists(j)
  BY EventHome DEF PlaceData, ChildrenSeeded
<1>2. j \in Canonical(p)
  BY <1>1 DEF Homes
<1> QED BY <1>1, <1>2 DEF PlaceData, Scheduled

LEMMA AllAtNone ==
  ASSUME TypeOK, PlaceData, NEW p \in Pids, \A j \in Homes(p) : ~ Exists(j), NEW i
  PROVE  AllAt(p, i)
BY EventHome DEF AllAt, PlaceData, ChildrenSeeded

\* All events of a match are at one id.
LEMMA OnePlace ==
  ASSUME TypeOK, PlaceData, NEW p \in Pids
  PROVE  \E i \in Ids : AllAt(p, i)
<1>1. CASE Exists(Stub[p])
  BY <1>1, AllAtStub, HomesFacts DEF PlaceData
<1>2. CASE \A j \in Homes(p) : ~ Exists(j)
  BY <1>2, AllAtNone, HomesFacts
<1>3. CASE ~ Exists(Stub[p]) /\ \E i \in Canonical(p) : Exists(i)
  BY <1>3, AllAtRow, HomesFacts
<1> QED BY <1>1, <1>2, <1>3 DEF Homes

\* A step of the one call that changes nothing but the call.
LEMMA CallStep ==
  ASSUME PlaceInv, OneWriter, NEW w \in Writers, TypeInv',
         UNCHANGED <<rows, matchMap, log, lineups, acked>>, CallPlaced(call[w])'
  PROVE  PlaceInv'
<1>1. PlaceData'
  BY DEF PlaceInv, PlaceData, Scheduled, Placed, ChildrenSeeded, AckedStored, Exists
<1>2. \A v \in Writers : CallPlaced(call[v])'
  BY DEF OneWriter
<1> QED BY <1>1, <1>2 DEF PlaceInv

LEMMA IdlePlaced == CallPlaced(Idle)
BY IdleCall DEF CallPlaced, Bindings

-----------------------------------------------------------------------------
(* The placement, one lemma per action.                                    *)

LEMMA InitPlaced == Init => PlaceInv
<1> SUFFICES ASSUME Init PROVE PlaceInv
  OBVIOUS
<1>1. PICK old \in SUBSET Pids :
        /\ rows = [i \in Ids |-> IF \E p \in old : i = Stub[p]
                      THEN [names |-> turn[CHOOSE p \in old : i = Stub[p]],
                            score |-> Null, extra |-> Null]
                      ELSE Null]
        /\ matchMap = [p \in Pids |-> IF p \in old THEN Stub[p] ELSE Null]
        /\ log = [i \in Ids |-> {}]
        /\ lineups = [i \in Ids |-> Null]
        /\ call = [w \in Writers |-> Idle]
        /\ acked = [w \in Writers |-> [p \in Pids |-> {}]]
  BY DEF Init
<1>2. TypeInv
  BY InitType
<1>3. \A i \in CanonicalIds : ~ Exists(i)
  BY <1>1, IdFacts DEF Exists
<1>4. \A p \in old : rows[Stub[p]] \in Row
  <2> SUFFICES ASSUME NEW p \in old PROVE rows[Stub[p]] # Null
    BY <1>2, IdFacts DEF TypeInv, TypeOK
  <2>1. rows[Stub[p]] = [names |-> turn[CHOOSE q \in old : Stub[p] = Stub[q]],
                         score |-> Null, extra |-> Null]
    BY <1>1, IdFacts
  <2>2. (CHOOSE q \in old : Stub[p] = Stub[q]) \in Pids
    OBVIOUS
  <2>3. rows[Stub[p]] \in Row
    BY <1>2, <2>1, <2>2 DEF TypeInv, TypeOK, Row, Oriented
  <2> QED BY <2>3, ReconcileAssumption
<1>5. Scheduled
  BY <1>3, CanonicalFacts DEF Scheduled, CanonicalIds
<1>6. Placed
  BY <1>1, HomesFacts DEF Placed, Homes
<1>7. ChildrenSeeded
  <2>1. \A i \in Ids : log[i] = {} /\ lineups[i] = Null
    BY <1>1
  <2>2. \A p \in old : Exists(Stub[p])
    BY <1>4, ReconcileAssumption DEF Exists
  <2>3. \A p \in Pids : matchMap[p] # Null => p \in old /\ matchMap[p] = Stub[p]
    BY <1>1
  <2> QED BY <2>1, <2>2, <2>3 DEF ChildrenSeeded
<1>8. AckedStored
  BY <1>1 DEF AckedStored
<1>9. \A w \in Writers : CallPlaced(call[w])
  BY <1>1, IdlePlaced
<1> QED BY <1>2, <1>5, <1>6, <1>7, <1>8, <1>9 DEF PlaceInv, PlaceData

LEMMA StartPlaced ==
  ASSUME PlaceInv, OneWriter, NEW w \in Writers, NEW p \in Pids, Start(w, p)
  PROVE  PlaceInv'
<1>1. PICK m \in Snapshots : Continue(w, "lookup", [Idle EXCEPT !.match = m])
  BY DEF Start
<1>2. [Idle EXCEPT !.match = m] \in Calls
  BY IdleCall DEF Calls, Idle
<1>3. call'[w].phase = "lookup"
  BY <1>1, <1>2, ContinueCall DEF PlaceInv, TypeInv, TypeOK, Phases
<1>4. CallPlaced(call[w])'
  BY <1>3 DEF CallPlaced, Bindings
<1> QED BY <1>4, StartType, CallStep DEF Start, PlaceInv

LEMMA LookupPlaced ==
  ASSUME PlaceInv, OneWriter, NEW w \in Writers, Lookup(w)
  PROVE  PlaceInv'
<1> DEFINE c == call[w]
           p == c.match.id
<1>0. TypeInv /\ UNCHANGED <<turn, rows, matchMap, log, lineups, acked, fails>>
  BY DEF PlaceInv, Lookup
<1>1. c.phase = "lookup" /\ c \in Calls /\ p \in Pids
  BY <1>0, CallFacts DEF Lookup
<1>2. CASE Continue(w, "search", c) \/ Continue(w, "purge", c)
  <2>1. call'[w].phase \in {"search", "purge"}
    BY <1>0, <1>1, <1>2, ContinueCall DEF TypeInv, TypeOK, Phases
  <2>2. CallPlaced(call[w])'
    BY <2>1 DEF CallPlaced, Bindings
  <2> QED BY <1>0, <2>2, LookupType, CallStep
<1>3. CASE matchMap[p] \notin {Null, Stub[p]} /\ Bind(w, matchMap[p], FALSE)
  <2>1. matchMap[p] \in CanonicalIds /\ Exists(matchMap[p]) /\ matchMap[p] \in Ids
    BY <1>0, <1>1, <1>3, IdFacts DEF TypeInv, MapSeeded
  <2>2. call'[w].phase = "inspect" /\ call'[w].match = c.match /\ call'[w].bound = matchMap[p]
    BY <1>0, <1>1, <1>3, <2>1, BindType
  <2>3. matchMap[p] \in Homes(p)
    BY <1>1, <1>3 DEF PlaceInv, PlaceData, Placed
  <2>4. CallPlaced(call[w])'
    BY <1>0, <2>1, <2>2, <2>3 DEF CallPlaced, Settled, Exists
  <2> QED BY <1>0, <2>4, LookupType, CallStep
<1> QED BY <1>2, <1>3 DEF Lookup

LEMMA PurgePlaced ==
  ASSUME PlaceInv, OneWriter, NEW w \in Writers, Purge(w)
  PROVE  PlaceInv'
<1>0. TypeInv /\ UNCHANGED <<turn, rows, log, lineups, acked, fails>>
  BY DEF PlaceInv, Purge
<1>1. call[w] \in Calls /\ call[w].match.id \in Pids
  BY <1>0, CallFacts DEF Purge
<1>2. call'[w].phase = "search"
  BY <1>0, <1>1, ContinueCall DEF Purge, TypeInv, TypeOK, Phases
<1>3. \A v \in Writers : CallPlaced(call[v])'
  BY <1>2 DEF CallPlaced, Bindings, OneWriter
<1>4. \A p \in Pids : matchMap'[p] \in {matchMap[p], Null}
  BY <1>0, <1>1 DEF Purge, TypeInv, TypeOK
<1>5. PlaceData'
  BY <1>0, <1>4 DEF PlaceInv, PlaceData, Scheduled, Placed, ChildrenSeeded, AckedStored, Exists
<1> QED BY <1>0, <1>3, <1>5, PurgeType DEF PlaceInv

\* A match that goes on on its stub: the stub is there, or nothing of it is yet.
LEMMA RegisterPlaced ==
  ASSUME PlaceInv, NEW w \in Writers, call[w].phase # "idle", Register(w), UNCHANGED <<turn, rows, log>>,
         call[w].match.named =>
            \/ Exists(Stub[call[w].match.id])
            \/ \A j \in Homes(call[w].match.id) : ~ Exists(j)
  PROVE  CallPlaced(call[w])'
<1> DEFINE p == call[w].match.id
           s == Stub[p]
<1>1. TypeInv /\ p \in Pids
  BY CallFacts DEF PlaceInv
<1>2. CASE call'[w] = Idle
  BY <1>2, IdleCall DEF CallPlaced, Bindings
<1>3. CASE /\ call[w].match.named /\ call'[w].phase = "read"
           /\ call'[w].match = call[w].match /\ call'[w].bound = s
  <2>1. AllAt(p, s)
    BY <1>1, <1>3, AllAtStub, AllAtNone DEF PlaceInv, PlaceData, TypeInv
  <2>2. s \in Homes(p) /\ s \notin Canonical(p) /\ s \notin Slugs
    BY <1>1, HomesFacts DEF Homes
  <2> QED BY <1>3, <2>1, <2>2 DEF CallPlaced, AllAt
<1> QED BY <1>1, <1>2, <1>3, RegisterType

LEMMA SearchPlaced ==
  ASSUME PlaceInv, OneWriter, NEW w \in Writers, Search(w)
  PROVE  PlaceInv'
<1> DEFINE m == call[w].match
           p == m.id
           near == Candidates(m)
<1>0. TypeInv /\ UNCHANGED <<turn, rows, matchMap, log, lineups, acked, fails>>
  BY DEF PlaceInv, Search
<1>1. call[w].phase = "search" /\ m \in Snapshots /\ p \in Pids
  BY <1>0, CallFacts DEF Search
<1>2. ASSUME NEW i \in Homes(p), NEW pending \in BOOLEAN, Exists(i), Bind(w, i, pending)
      PROVE  CallPlaced(call[w])'
  <2>1. i \in Ids /\ i \in CanonicalIds \cup {Stub[p]}
    BY <1>1, HomesFacts, CanonicalFacts DEF Homes
  <2>2. call'[w].phase = "inspect" /\ call'[w].match = m /\ call'[w].bound = i
    BY <1>0, <1>1, <1>2, <2>1, BindType
  <2> QED BY <1>0, <1>2, <2>2 DEF CallPlaced, Settled, Exists
<1>3. \/ \E i \in Homes(p), pending \in BOOLEAN : Exists(i) /\ Bind(w, i, pending)
      \/ ~ Exists(p) /\ near = {} /\ ~ Exists(Stub[p]) /\ Register(w)
  <2>1. p \in Homes(p) /\ Stub[p] \in Homes(p) /\ \A k \in DOMAIN Fits[p] : Fits[p][k] \in Homes(p)
    BY <1>1, CanonicalFacts DEF Homes
  <2>2. CASE Exists(p) /\ Bind(w, p, TRUE)
    BY <2>1, <2>2
  <2>3. CASE \E k \in near : Bind(w, Fits[p][k], TRUE)
    BY <2>1, <2>3 DEF Candidates
  <2>4. CASE Exists(Stub[p]) /\ Bind(w, Stub[p], FALSE)
    BY <2>1, <2>4
  <2> QED BY <2>2, <2>3, <2>4 DEF Search
<1>4. ASSUME ~ Exists(p), near = {}, ~ Exists(Stub[p]), Register(w)
      PROVE  CallPlaced(call[w])'
  <2>1. ASSUME m.named, NEW j \in Homes(p), Exists(j) PROVE FALSE
    <3>1. PICK k \in DOMAIN Fits[p] : j = Fits[p][k]
      BY <1>4, <2>1 DEF Homes, Canonical
    <3>2. rows[j].names # Null
      BY <1>1, <2>1, <3>1, CanonicalFacts DEF PlaceInv, PlaceData, Scheduled
    <3> QED BY <1>4, <2>1, <3>1, <3>2 DEF Candidates
  <2> QED BY <1>0, <1>1, <1>4, <2>1, RegisterPlaced
<1>5. CallPlaced(call[w])'
  BY <1>2, <1>3, <1>4
<1> QED BY <1>0, <1>5, SearchType, CallStep

LEMMA InspectPlaced ==
  ASSUME PlaceInv, OneWriter, NEW w \in Writers, Inspect(w)
  PROVE  PlaceInv'
<1> DEFINE c == call[w]
           m == c.match
           p == m.id
           i == c.bound
           names == StoredPayload(i).names
           seen == [c EXCEPT !.names = names]
           merged == MergedPayload(m, i, IsReverseOriented(m, names))
           joined == [seen EXCEPT !.payload = merged]
<1>0. TypeInv /\ c.phase = "inspect" /\ UNCHANGED <<turn, rows, matchMap, log, lineups, acked, fails>>
  BY DEF PlaceInv, Inspect
<1>1. c \in Calls /\ m \in Snapshots /\ p \in Pids /\ i \in Ids
  BY <1>0, CallFacts DEF Bindings
<1>2. i \in Homes(p) /\ Exists(i)
  BY <1>0 DEF PlaceInv, CallPlaced, Bindings
<1>3. StoredPayload(i) \in Payload /\ merged \in Payload
  BY <1>0, <1>1, StoredPayloadType, MergedPayloadType DEF TypeInv
<1>4. seen \in Calls /\ seen.match = m /\ seen.bound = i /\ seen.names = names
  BY <1>1, <1>3 DEF Calls, Payload
<1>5. joined \in Calls /\ joined.match = m /\ joined.bound = i /\ joined.names = names
      /\ joined.payload = merged
  BY <1>3, <1>4 DEF Calls
<1>6. i \in Slugs => names # Null /\ merged.names # Null
  <2> SUFFICES ASSUME i \in Slugs PROVE names # Null /\ merged.names # Null
    OBVIOUS
  <2>1. names = rows[i].names /\ rows[i].names # Null
    BY <1>2 DEF StoredPayload, PlaceInv, PlaceData, Scheduled
  <2> QED BY <2>1 DEF MergedPayload, PreservingRicher
<1>7. \/ (i = Stub[p] \/ ~ Exists(Stub[p])) /\ Continue(w, AfterAdoption(w), seen)
      \/ i # Stub[p] /\ Exists(Stub[p]) /\ Continue(w, "unmap", seen)
      \/ i # Stub[p] /\ Exists(Stub[p]) /\ Continue(w, "adopt", joined)
  BY DEF Inspect
<1> HIDE DEF seen, joined, merged, names
<1>8. CASE (i = Stub[p] \/ ~ Exists(Stub[p])) /\ Continue(w, AfterAdoption(w), seen)
  <2>1. call'[w].phase \in {"map", "read"} /\ call'[w].match = m /\ call'[w].bound = i
        /\ call'[w].names = names
    BY <1>0, <1>4, <1>8, AfterAdoptionType, ContinueCall DEF TypeInv, TypeOK, Phases
  <2>2. AllAt(p, i)
    BY <1>0, <1>1, <1>2, <1>8, AllAtStub, AllAtRow DEF Homes, PlaceInv, PlaceData, TypeInv
  <2>3. i \in Canonical(p) => ~ Exists(Stub[p])
    BY <1>1, <1>8, HomesFacts
  <2>4. CallPlaced(call[w])'
    BY <1>0, <1>2, <1>6, <2>1, <2>2, <2>3 DEF CallPlaced, AllAt, Exists
  <2> QED BY <1>0, <2>4, InspectType, CallStep
<1>9. CASE i # Stub[p] /\ Exists(Stub[p]) /\ Continue(w, "unmap", seen)
  <2>1. call'[w].phase = "unmap" /\ call'[w].match = m /\ call'[w].bound = i
    BY <1>0, <1>4, <1>9, ContinueCall DEF TypeInv, TypeOK, Phases
  <2>2. CallPlaced(call[w])'
    BY <1>0, <1>2, <1>9, <2>1 DEF CallPlaced, Exists, Homes, Settled
  <2> QED BY <1>0, <2>2, InspectType, CallStep
<1>10. CASE i # Stub[p] /\ Exists(Stub[p]) /\ Continue(w, "adopt", joined)
  <2>1. call'[w].phase = "adopt" /\ call'[w].match = m /\ call'[w].bound = i
        /\ call'[w].names = names /\ call'[w].payload = merged
    BY <1>0, <1>5, <1>10, ContinueCall DEF TypeInv, TypeOK, Phases
  <2>2. CallPlaced(call[w])'
    BY <1>0, <1>2, <1>6, <1>10, <2>1 DEF CallPlaced, Exists, Homes, Settled
  <2> QED BY <1>0, <2>2, InspectType, CallStep
<1> QED BY <1>7, <1>8, <1>9, <1>10

\* The events of the other matches, and the rows of their stubs, are apart from
\* the stub of this one.
LEMMA StubEvents ==
  ASSUME TypeOK, Placed, NEW p \in Pids, NEW e \in log[Stub[p]]
  PROVE  e[1] \in {p, Null} /\ e \in EventRow
<1>1. Stub[p] \in Ids /\ e \in EventRow
  BY HomesFacts DEF TypeOK
<1>2. e[1] # Null => e[1] \in Pids /\ Stub[p] \in Homes(e[1])
  BY <1>1 DEF Placed, EventRow
<1> QED BY <1>1, <1>2, HomesFacts

LEMMA AdoptPlaced ==
  ASSUME PlaceInv, OneWriter, NEW w \in Writers, Adopt(w)
  PROVE  PlaceInv'
<1> DEFINE c == call[w]
           p == c.match.id
           s == Stub[p]
           i == c.bound
<1>0. TypeInv /\ c.phase = "adopt" /\ UNCHANGED <<turn, acked, fails>>
  BY DEF PlaceInv, Adopt
<1>1. c \in Calls /\ p \in Pids /\ i \in Ids /\ i \in CanonicalIds
  BY <1>0, CallFacts DEF Bindings
<1>2. i \in Canonical(p) /\ Exists(i) /\ Exists(s) /\ s \in Ids /\ s \notin CanonicalIds /\ i # s
      /\ (i \in Slugs => c.names # Null /\ c.payload.names # Null)
  BY <1>0, <1>1, IdFacts DEF PlaceInv, CallPlaced, Bindings
<1>3. /\ rows'[i] = [names |-> c.payload.names, score |-> rows[i].score, extra |-> c.payload.extra]
      /\ rows'[s] = Null /\ rows'[i] # Null
      /\ \A j \in Ids : j \notin {i, s} => rows'[j] = rows[j]
  BY <1>0, AdoptRows
<1>4. /\ log'[i] = log[i] \cup log[s] /\ log'[s] = {}
      /\ \A j \in Ids : j \notin {i, s} => log'[j] = log[j]
  BY <1>0, <1>1, <1>2 DEF Adopt, TypeInv, TypeOK
<1>5. matchMap' = [q \in Pids |-> IF matchMap[q] = s THEN i ELSE matchMap[q]]
  BY DEF Adopt
<1>6. lineups'[s] = Null /\ \A j \in Ids : j \notin {i, s} => lineups'[j] = lineups[j]
  BY <1>0, <1>1, <1>2 DEF Adopt, TypeInv, TypeOK
<1>7. /\ call'[w].phase \in {"map", "read"} /\ call'[w].match = c.match
      /\ call'[w].bound = i /\ call'[w].names = c.names
  BY <1>0, <1>1, AfterAdoptionType, ContinueCall DEF Adopt, TypeInv, TypeOK, Phases
<1> HIDE DEF c, s, i
<1>8. \A q \in Pids : matchMap[q] = s => q = p
  BY <1>1, <1>2, IdFacts, HomesFacts DEF PlaceInv, PlaceData, Placed, s
<1>9. Scheduled'
  <2>1. \A j \in CanonicalIds : rows'[j] # Null <=> Exists(j)
    BY <1>1, <1>2, <1>3, IdFacts DEF Exists
  <2>2. \A j \in Slugs : rows'[j] # Null => rows'[j].names # Null
    <3> SUFFICES ASSUME NEW j \in Slugs, rows'[j] # Null PROVE rows'[j].names # Null
      OBVIOUS
    <3>1. CASE j = i
      BY <1>2, <1>3, <3>1
    <3>2. CASE j # i
      BY <1>2, <1>3, <3>2, IdFacts DEF PlaceInv, PlaceData, Scheduled, Exists, CanonicalIds
    <3> QED BY <3>1, <3>2
  <2> QED BY <2>1, <2>2, CanonicalFacts DEF PlaceInv, PlaceData, Scheduled, Exists
<1>10. \A j \in Ids : \A e \in log'[j] : e \in log[j] \/ (j = i /\ e[1] \in {p, Null})
  <2>1. \A e \in log[s] : e[1] \in {p, Null}
    BY <1>0, <1>1, StubEvents DEF PlaceInv, PlaceData, TypeInv, s
  <2> QED BY <1>4, <2>1
<1>11. Placed'
  <2>1. i \in Homes(p)
    BY <1>2 DEF Homes
  <2>2. \A j \in Ids : \A e \in log'[j] : e[1] # Null => j \in Homes(e[1])
    BY <1>10, <2>1 DEF PlaceInv, PlaceData, Placed
  <2>3. \A q \in Pids : matchMap'[q] # Null => matchMap'[q] \in Homes(q)
    BY <1>5, <1>8, <2>1 DEF PlaceInv, PlaceData, Placed
  <2>4. ASSUME NEW q \in Pids, rows'[Stub[q]] # Null, NEW j \in Canonical(q), NEW e \in log'[j], e[1] = q
        PROVE  FALSE
    <3>1. q # p /\ Stub[q] # i /\ Stub[q] # s /\ Stub[q] \in Ids
      BY <1>1, <1>3, <2>4, IdFacts DEF s
    <3>2. Exists(Stub[q])
      BY <1>3, <2>4, <3>1 DEF Exists
    <3>3. e \in log[j]
      BY <1>10, <2>4, <3>1, HomesFacts, ReconcileAssumption
    <3> QED BY <2>4, <3>2, <3>3 DEF PlaceInv, PlaceData, Placed
  <2> QED BY <2>2, <2>3, <2>4 DEF Placed, Exists
<1>12. ChildrenSeeded'
  <2>1. \A j \in Ids : log'[j] # {} \/ lineups'[j] # Null => rows'[j] # Null
    <3> SUFFICES ASSUME NEW j \in Ids, log'[j] # {} \/ lineups'[j] # Null PROVE rows'[j] # Null
      OBVIOUS
    <3>1. CASE j = i
      BY <1>3, <3>1
    <3>2. CASE j \notin {i, s}
      BY <1>3, <1>4, <1>6, <3>2 DEF PlaceInv, PlaceData, ChildrenSeeded, Exists
    <3> QED BY <1>4, <1>6, <3>1, <3>2
  <2>2. \A q \in Pids : matchMap'[q] # Null => rows'[matchMap'[q]] # Null
    <3> SUFFICES ASSUME NEW q \in Pids, matchMap'[q] # Null PROVE rows'[matchMap'[q]] # Null
      OBVIOUS
    <3>1. CASE matchMap'[q] = i
      BY <1>3, <3>1
    <3>2. CASE matchMap'[q] # i
      <4>1. matchMap'[q] = matchMap[q] /\ matchMap[q] # s /\ matchMap[q] \in Ids
        BY <1>0, <1>5, <3>2 DEF TypeInv, TypeOK
      <4> QED BY <1>3, <3>2, <4>1 DEF PlaceInv, PlaceData, ChildrenSeeded, Exists
    <3> QED BY <3>1, <3>2
  <2> QED BY <2>1, <2>2 DEF ChildrenSeeded, Exists
<1>13. \A j \in Ids : \A e \in log[j] : \E k \in Ids : e \in log'[k]
  BY <1>1, <1>4
<1>14. AckedStored'
  BY <1>0, <1>13 DEF PlaceInv, PlaceData, AckedStored
<1>15. CallPlaced(call[w])'
  <2>1. \A j \in Ids : \A e \in log'[j] : e[1] = p => j = i
    <3> SUFFICES ASSUME NEW j \in Ids, NEW e \in log'[j], e[1] = p PROVE j = i
      OBVIOUS
    <3>1. j # s
      BY <1>4
    <3>2. CASE j # i
      <4>1. e \in log[j]
        BY <1>4, <3>1, <3>2
      <4>2. j \in Homes(p) /\ Exists(j)
        BY <1>0, <1>1, <4>1, EventHome DEF PlaceInv, PlaceData, ChildrenSeeded, TypeInv
      <4> QED BY <1>1, <1>2, <3>1, <4>2 DEF Homes, s, PlaceInv, PlaceData, Scheduled
    <3> QED BY <3>2
  <2>2. i \in Homes(p)
    BY <1>2 DEF Homes
  <2> QED BY <1>2, <1>3, <1>7, <2>1, <2>2 DEF CallPlaced, AllAt, Exists, c, s, i
<1>16. \A v \in Writers : CallPlaced(call[v])'
  BY <1>15 DEF OneWriter
<1> QED BY <1>0, <1>9, <1>11, <1>12, <1>14, <1>16, AdoptType DEF PlaceInv, PlaceData

LEMMA UnmapPlaced ==
  ASSUME PlaceInv, OneWriter, NEW w \in Writers, Unmap(w)
  PROVE  PlaceInv'
<1>0. TypeInv /\ call[w].phase = "unmap" /\ UNCHANGED <<turn, rows, log, lineups, acked, fails>>
  BY DEF PlaceInv, Unmap
<1>1. call[w].match.id \in Pids /\ Exists(Stub[call[w].match.id])
  BY <1>0, CallFacts DEF PlaceInv, CallPlaced, Bindings
<1>2. CallPlaced(call[w])'
  BY <1>0, <1>1, RegisterPlaced DEF Unmap
<1>3. \A p \in Pids : matchMap'[p] \in {matchMap[p], Null}
  BY <1>0, <1>1 DEF Unmap, TypeInv, TypeOK
<1>4. PlaceData'
  BY <1>0, <1>3 DEF PlaceInv, PlaceData, Scheduled, Placed, ChildrenSeeded, AckedStored, Exists
<1>5. \A v \in Writers : CallPlaced(call[v])'
  BY <1>2 DEF OneWriter
<1> QED BY <1>0, <1>4, <1>5, UnmapType DEF PlaceInv

LEMMA MapTargetPlaced ==
  ASSUME PlaceInv, OneWriter, NEW w \in Writers, MapTarget(w)
  PROVE  PlaceInv'
<1> DEFINE c == call[w]
           p == c.match.id
<1>0. TypeInv /\ c.phase = "map" /\ UNCHANGED <<turn, rows, log, lineups, acked, fails>> /\ Exists(c.bound)
  BY DEF PlaceInv, MapTarget
<1>1. c \in Calls /\ p \in Pids
  BY <1>0, CallFacts
<1>2. call'[w].phase = "read" /\ call'[w].match = c.match /\ call'[w].bound = c.bound
      /\ call'[w].names = c.names
  BY <1>0, <1>1, ContinueCall DEF MapTarget, TypeInv, TypeOK, Phases
<1>3. matchMap' = [matchMap EXCEPT ![p] = c.bound] /\ matchMap \in [Pids -> Ids \cup {Null}]
  BY <1>0 DEF MapTarget, TypeInv, TypeOK
<1> HIDE DEF c
<1>4. c.bound \in Homes(p) /\ CallPlaced(c)
  BY <1>0 DEF PlaceInv, CallPlaced, Bindings, c
<1>5. CallPlaced(call[w])'
  BY <1>0, <1>2, <1>4 DEF CallPlaced, AllAt, Exists, Bindings, Settled
<1>6. \A q \in Pids : matchMap'[q] = IF q = p THEN c.bound ELSE matchMap[q]
  BY <1>3
<1>7. PlaceData'
  BY <1>0, <1>4, <1>6 DEF PlaceInv, PlaceData, Scheduled, Placed, ChildrenSeeded, AckedStored, Exists
<1>8. \A v \in Writers : CallPlaced(call[v])'
  BY <1>5 DEF OneWriter
<1> QED BY <1>0, <1>7, <1>8, MapTargetType DEF PlaceInv

LEMMA ReadPayloadPlaced ==
  ASSUME PlaceInv, OneWriter, NEW w \in Writers, ReadPayload(w)
  PROVE  PlaceInv'
<1> DEFINE c == call[w]
           fields == [c EXCEPT !.payload = StoredPayload(c.bound)]
<1>0. TypeInv /\ c.phase = "read" /\ UNCHANGED <<turn, rows, matchMap, log, lineups, acked, fails>>
  BY DEF PlaceInv, ReadPayload
<1>1. c \in Calls /\ c.bound \in Ids
  BY <1>0, CallFacts DEF Bindings
<1>2. StoredPayload(c.bound) \in Payload
  BY <1>0, <1>1, StoredPayloadType DEF TypeInv
<1>3. fields \in Calls /\ fields.match = c.match /\ fields.bound = c.bound /\ fields.names = c.names
  BY <1>1, <1>2 DEF Calls
<1>4. Continue(w, "upsert", fields)
  BY DEF ReadPayload
<1> HIDE DEF fields
<1>5. call'[w].phase = "upsert" /\ call'[w].match = c.match /\ call'[w].bound = c.bound
      /\ call'[w].names = c.names
  BY <1>0, <1>3, <1>4, ContinueCall DEF TypeInv, TypeOK, Phases
<1>6. CallPlaced(call[w])'
  BY <1>0, <1>5 DEF PlaceInv, CallPlaced, AllAt, Exists, Bindings, Settled
<1> QED BY <1>0, <1>6, ReadPayloadType, CallStep

LEMMA UpsertPlaced ==
  ASSUME PlaceInv, OneWriter, NEW w \in Writers, UpsertRow(w)
  PROVE  PlaceInv'
<1> DEFINE c == call[w]
           p == c.match.id
           i == c.bound
<1>0. TypeInv /\ c.phase = "upsert" /\ UNCHANGED <<turn, matchMap, log, lineups, acked, fails>>
  BY DEF PlaceInv, UpsertRow
<1>1. c \in Calls /\ p \in Pids /\ i \in Ids
  BY <1>0, CallFacts DEF Bindings
<1>2. /\ rows'[i] # Null /\ (i \in Slugs => rows'[i].names = c.names /\ c.names # Null)
      /\ \A j \in Ids : j # i => rows'[j] = rows[j]
  <2>1. i \in Slugs => c.names # Null
    BY <1>0 DEF PlaceInv, CallPlaced, Bindings
  <2>2. c.names # Null => WrittenNames(c) = c.names
    BY DEF WrittenNames
  <2>3. /\ rows'[i] # Null /\ rows'[i].names = WrittenNames(c)
        /\ \A j \in Ids : j # i => rows'[j] = rows[j]
    BY <1>0, UpsertRows
  <2> QED BY <2>1, <2>2, <2>3
<1>3. /\ call'[w].phase = "append" /\ call'[w].match = c.match /\ call'[w].bound = i
      /\ call'[w].names = c.names
  BY <1>0, <1>1, ContinueCall DEF UpsertRow, TypeInv, TypeOK, Phases
<1>4. /\ i \in Homes(p) /\ (\A j \in Ids : \A e \in log[j] : e[1] = p => j = i)
      /\ i \in Canonical(p) => Exists(i) /\ ~ Exists(Stub[p])
  BY <1>0 DEF PlaceInv, CallPlaced, Bindings, Settled, AllAt
<1> HIDE DEF c, p, i
<1>5. \A j \in CanonicalIds : rows'[j] # Null <=> Exists(j)
  <2>1. CASE i \in CanonicalIds
    BY <1>1, <1>2, <1>4, <2>1, HomesFacts, IdFacts DEF Exists
  <2>2. CASE i \notin CanonicalIds
    BY <1>2, <2>2, IdFacts DEF Exists
  <2> QED BY <2>1, <2>2
<1>6. Scheduled'
  <2>1. \A j \in Slugs : rows'[j] # Null => rows'[j].names # Null
    BY <1>2, IdFacts DEF PlaceInv, PlaceData, Scheduled, Exists, CanonicalIds
  <2> QED BY <1>5, <2>1, CanonicalFacts DEF PlaceInv, PlaceData, Scheduled, Exists
<1>7. Placed'
  <2>1. ASSUME NEW q \in Pids, rows'[Stub[q]] # Null, NEW j \in Canonical(q), NEW e \in log[j], e[1] = q
        PROVE  FALSE
    <3>1. CASE Stub[q] = i
      <4>1. q = p
        BY <1>1, <1>4, <3>1, HomesFacts
      <4> QED BY <1>1, <1>4, <2>1, <3>1, <4>1, HomesFacts
    <3>2. CASE Stub[q] # i
      BY <1>2, <2>1, <3>2, IdFacts DEF PlaceInv, PlaceData, Placed, Exists
    <3> QED BY <3>1, <3>2
  <2> QED BY <1>0, <2>1 DEF PlaceInv, PlaceData, Placed, Exists
<1>8. ChildrenSeeded'
  <2>1. \A j \in Ids : Exists(j) => rows'[j] # Null
    BY <1>2 DEF Exists
  <2>2. \A q \in Pids : matchMap[q] # Null => matchMap[q] \in Ids
    BY <1>0 DEF TypeInv, TypeOK
  <2> QED BY <1>0, <2>1, <2>2 DEF PlaceInv, PlaceData, ChildrenSeeded, Exists
<1>9. AckedStored'
  BY <1>0 DEF PlaceInv, PlaceData, AckedStored
<1>10. CallPlaced(call[w])'
  <2>1. i \in Canonical(p) => rows'[Stub[p]] = Null
    BY <1>1, <1>2, <1>4, HomesFacts DEF Exists
  <2> QED BY <1>0, <1>2, <1>3, <1>4, <2>1 DEF CallPlaced, AllAt, Exists, Bindings, Settled, c, p, i
<1>11. \A v \in Writers : CallPlaced(call[v])'
  BY <1>10 DEF OneWriter
<1> QED BY <1>0, <1>6, <1>7, <1>8, <1>9, <1>11, UpsertType DEF PlaceInv, PlaceData

LEMMA AppendPlaced ==
  ASSUME PlaceInv, OneWriter, NEW w \in Writers, AppendEvents(w)
  PROVE  PlaceInv'
<1> DEFINE c == call[w]
           p == c.match.id
           i == c.bound
           new == {<<p, q>> : q \in {q \in 1 .. c.match.last \ acked[w][p] : q > HeadSeq(i)}}
<1>0. TypeInv /\ c.phase = "append" /\ UNCHANGED <<turn, rows, matchMap, lineups, acked, fails>>
      /\ Exists(i)
  BY DEF PlaceInv, AppendEvents
<1>1. c \in Calls /\ p \in Pids /\ i \in Ids
  BY <1>0, CallFacts DEF Bindings
<1>2. log' = [log EXCEPT ![i] = @ \cup new] /\ \A e \in new : e[1] = p
  BY DEF AppendEvents
<1> HIDE DEF new
<1>3. log'[i] = log[i] \cup new /\ \A j \in Ids : j # i => log'[j] = log[j]
  BY <1>0, <1>1, <1>2 DEF TypeInv, TypeOK
<1>4. call'[w].phase = "persist" /\ call'[w].match = c.match /\ call'[w].bound = i
  BY <1>0, <1>1, ContinueCall DEF AppendEvents, TypeInv, TypeOK, Phases
<1>5. /\ i \in Homes(p) /\ (\A j \in Ids : \A e \in log[j] : e[1] = p => j = i)
      /\ i \in Canonical(p) => ~ Exists(Stub[p])
  BY <1>0 DEF PlaceInv, CallPlaced, Bindings, Settled, AllAt
<1> HIDE DEF c, p, i
<1>6. \A j \in Ids : \A e \in log'[j] : e \in log[j] \/ (j = i /\ e[1] = p)
  BY <1>2, <1>3
<1>7. Placed'
  <2>1. ASSUME NEW q \in Pids, Exists(Stub[q]), NEW j \in Canonical(q), NEW e \in log'[j], e[1] = q
        PROVE  FALSE
    <3>1. j \in Ids
      BY HomesFacts
    <3>2. CASE j = i /\ e[1] = p
      BY <1>5, <2>1, <3>2
    <3>3. CASE e \in log[j]
      BY <2>1, <3>3 DEF PlaceInv, PlaceData, Placed
    <3> QED BY <1>6, <3>1, <3>2, <3>3
  <2>2. \A j \in Ids : \A e \in log'[j] : e[1] # Null => j \in Homes(e[1])
    BY <1>5, <1>6 DEF PlaceInv, PlaceData, Placed
  <2> QED BY <1>0, <2>1, <2>2 DEF PlaceInv, PlaceData, Placed, Exists
<1>8. ChildrenSeeded'
  BY <1>0, <1>3 DEF PlaceInv, PlaceData, ChildrenSeeded, Exists
<1>9. AckedStored'
  BY <1>0, <1>1, <1>3 DEF PlaceInv, PlaceData, AckedStored
<1>10. Scheduled'
  BY <1>0 DEF PlaceInv, PlaceData, Scheduled, Exists
<1>11. CallPlaced(call[w])'
  <2>1. \A j \in Ids : \A e \in log'[j] : e[1] = p => j = i
    BY <1>5, <1>6
  <2> QED BY <1>0, <1>4, <1>5, <2>1 DEF CallPlaced, AllAt, Exists, Bindings, Settled, c, p, i
<1>12. \A v \in Writers : CallPlaced(call[v])'
  BY <1>11 DEF OneWriter
<1> QED BY <1>0, <1>7, <1>8, <1>9, <1>10, <1>12, AppendType DEF PlaceInv, PlaceData

LEMMA PersistPlaced ==
  ASSUME PlaceInv, OneWriter, NEW w \in Writers, PersistSideTables(w)
  PROVE  PlaceInv'
<1> DEFINE c == call[w]
           p == c.match.id
           i == c.bound
<1>0. TypeInv /\ c.phase = "persist" /\ UNCHANGED <<turn, rows, matchMap, log, fails>>
  BY DEF PlaceInv, PersistSideTables
<1>1. c \in Calls /\ p \in Pids /\ i \in Ids
  BY <1>0, CallFacts DEF Bindings
<1>2. Exists(i)
  BY <1>0 DEF PlaceInv, CallPlaced, Bindings
<1>3. \A j \in Ids : j # i => lineups'[j] = lineups[j]
  BY <1>0 DEF PersistSideTables, TypeInv, TypeOK
<1>4. ChildrenSeeded'
  BY <1>0, <1>2, <1>3 DEF PlaceInv, PlaceData, ChildrenSeeded, Exists
<1>5. \A q \in Baseline(w) : q \in acked[w][p] \/ <<p, q>> \in log[i]
  BY DEF Baseline
<1>6. AckedStored'
  <2> SUFFICES ASSUME NEW v \in Writers, NEW r \in Pids, NEW q \in acked'[v][r]
               PROVE  \E j \in Ids : <<r, q>> \in log[j]
    BY <1>0 DEF AckedStored
  <2>1. acked' = [acked EXCEPT ![w][p] = Baseline(w)]
    BY DEF PersistSideTables
  <2>2. acked \in [Writers -> [Pids -> SUBSET Seqs]]
    BY <1>0 DEF TypeInv, TypeOK
  <2> HIDE DEF p, i
  <2>3. acked'[v][r] = IF v = w /\ r = p THEN Baseline(w) ELSE acked[v][r]
    BY <1>1, <2>1, <2>2
  <2> QED BY <1>1, <1>5, <2>3 DEF PlaceInv, PlaceData, AckedStored
<1>7. Scheduled' /\ Placed'
  BY <1>0 DEF PlaceInv, PlaceData, Scheduled, Placed, Exists
<1>8. \A v \in Writers : CallPlaced(call[v])'
  <2>1. call'[w] = Idle
    BY <1>0 DEF PersistSideTables, TypeInv, TypeOK
  <2> QED BY <2>1, IdleCall DEF OneWriter, CallPlaced, Bindings
<1> QED BY <1>0, <1>4, <1>6, <1>7, <1>8, PersistType DEF PlaceInv, PlaceData

LEMMA FailPlaced ==
  ASSUME PlaceInv, OneWriter, NEW w \in Writers, Fail(w)
  PROVE  PlaceInv'
<1>0. TypeInv /\ UNCHANGED <<turn, rows, matchMap, log, lineups>>
  BY DEF PlaceInv, Fail
<1>1. \A v \in Writers, p \in Pids : acked'[v][p] \subseteq acked[v][p]
  <2>1. acked \in [Writers -> [Pids -> SUBSET Seqs]]
    BY <1>0 DEF TypeInv, TypeOK
  <2>2. acked' = acked \/ acked' = [acked EXCEPT ![w] = [p \in Pids |-> {}]]
    BY DEF Fail
  <2> QED BY <2>1, <2>2
<1>2. PlaceData'
  BY <1>0, <1>1 DEF PlaceInv, PlaceData, Scheduled, Placed, ChildrenSeeded, AckedStored, Exists
<1>3. call'[w] = Idle
  BY <1>0 DEF Fail, TypeInv, TypeOK
<1>4. \A v \in Writers : CallPlaced(call[v])'
  BY <1>3, IdleCall DEF OneWriter, CallPlaced, Bindings
<1> QED BY <1>0, <1>2, <1>4, FailType DEF PlaceInv

LEMMA LoadPlaced ==
  ASSUME PlaceInv, NEW i \in CanonicalIds, LoadSchedule(i)
  PROVE  PlaceInv'
<1>0. TypeInv /\ UNCHANGED <<turn, matchMap, log, lineups, call, acked, fails>>
  BY DEF PlaceInv, LoadSchedule
<1>1. i \in Ids /\ \A p \in Pids : i \in Canonical(p) => \A j \in Canonical(p) : ~ Exists(j)
  BY IdFacts DEF LoadSchedule
<1>2. /\ rows'[i] # Null /\ (i \in Slugs => rows'[i].names = "plain")
      /\ \A j \in Ids : j # i => rows'[j] = rows[j]
  BY <1>0, LoadedRow, ReconcileAssumption
<1>3. Scheduled'
  <2>1. \A j \in Slugs : rows'[j] # Null => rows'[j].names # Null
    BY <1>2, IdFacts, OrientedFacts DEF PlaceInv, PlaceData, Scheduled, Exists, CanonicalIds
  <2>2. ASSUME NEW p \in Pids, NEW j \in Canonical(p), NEW k \in Canonical(p),
               rows'[j] # Null, rows'[k] # Null
        PROVE  j = k
    BY <1>1, <1>2, <2>2, HomesFacts DEF PlaceInv, PlaceData, Scheduled, Exists
  <2> QED BY <2>1, <2>2 DEF Scheduled, Exists
<1>4. \A p \in Pids : rows'[Stub[p]] = rows[Stub[p]]
  BY <1>2, IdFacts
<1>5. \A j \in Ids : Exists(j) => rows'[j] # Null
  BY <1>2 DEF Exists
<1>6. Placed' /\ AckedStored'
  BY <1>0, <1>4 DEF PlaceInv, PlaceData, Placed, AckedStored, Exists
<1>7. ChildrenSeeded'
  <2>1. \A q \in Pids : matchMap[q] # Null => matchMap[q] \in Ids
    BY <1>0 DEF TypeInv, TypeOK
  <2> QED BY <1>0, <1>5, <2>1 DEF PlaceInv, PlaceData, ChildrenSeeded, Exists
<1>8. ASSUME NEW w \in Writers PROVE CallPlaced(call[w])'
  <2> DEFINE c == call[w]
  <2>1. CallPlaced(c) /\ (c.phase \in Bindings => c.phase # "idle")
    BY DEF PlaceInv, Bindings
  <2>2. c.phase \in Bindings => c.match.id \in Pids /\ c.bound \in Ids
    BY <1>0, <2>1, CallFacts
  <2> HIDE DEF c
  <2>3. CallPlaced(c)'
    BY <1>0, <1>4, <1>5, <2>1, <2>2 DEF CallPlaced, AllAt, Exists, c
  <2> QED BY <2>3 DEF c
<1> QED BY <1>0, <1>3, <1>6, <1>7, <1>8, LoadType DEF PlaceInv, PlaceData

LEMMA ImportPlaced ==
  ASSUME PlaceInv, NEW i \in CanonicalIds, ImportEvents(i) \/ ClearImported(i)
  PROVE  PlaceInv'
<1>0. TypeInv /\ UNCHANGED <<turn, rows, matchMap, lineups, call, acked, fails>> /\ NoCall
  BY DEF PlaceInv, ImportEvents, ClearImported
<1>1. i \in Ids
  BY IdFacts
<1>2. /\ \A j \in Ids : \A e \in log'[j] : e \in log[j] \/ (j = i /\ e[1] = Null)
      /\ \A j \in Ids : \A e \in log[j] : e[1] # Null => e \in log'[j]
      /\ log'[i] # {} => Exists(i)
  <2>1. CASE ImportEvents(i)
    <3>1. log' = [log EXCEPT ![i] = {<<Null, 1>>}] /\ log[i] = {} /\ Exists(i)
      BY <2>1 DEF ImportEvents
    <3> QED BY <1>0, <1>1, <3>1 DEF TypeInv, TypeOK
  <2>2. CASE ClearImported(i)
    <3>1. log' = [log EXCEPT ![i] = {e \in @ : e[1] # Null}] /\ log[i] # {}
      BY <2>2 DEF ClearImported
    <3>2. Exists(i)
      BY <1>1, <3>1 DEF PlaceInv, PlaceData, ChildrenSeeded
    <3> QED BY <1>0, <1>1, <3>1, <3>2 DEF TypeInv, TypeOK
  <2> QED BY <2>1, <2>2
<1>3. \A p \in Pids : p # Null
  BY ReconcileAssumption
<1>4. Placed'
  <2>1. ASSUME NEW q \in Pids, Exists(Stub[q]), NEW j \in Canonical(q), NEW e \in log'[j], e[1] = q
        PROVE  FALSE
    BY <1>2, <1>3, <2>1, HomesFacts DEF PlaceInv, PlaceData, Placed
  <2> QED BY <1>0, <1>2, <2>1 DEF PlaceInv, PlaceData, Placed, Exists
<1>5. ChildrenSeeded'
  BY <1>0, <1>2 DEF PlaceInv, PlaceData, ChildrenSeeded, Exists
<1>6. AckedStored'
  <2>1. ASSUME NEW w \in Writers, NEW p \in Pids, NEW q \in acked[w][p]
        PROVE  \E j \in Ids : <<p, q>> \in log'[j]
    <3>1. PICK j \in Ids : <<p, q>> \in log[j]
      BY DEF PlaceInv, PlaceData, AckedStored
    <3>2. <<p, q>>[1] # Null
      BY <1>3
    <3> QED BY <1>2, <3>1, <3>2
  <2> QED BY <1>0, <2>1 DEF AckedStored
<1>7. Scheduled'
  BY <1>0 DEF PlaceInv, PlaceData, Scheduled, Exists
<1>8. \A w \in Writers : CallPlaced(call[w])'
  BY <1>0 DEF NoCall, CallPlaced, Bindings
<1> QED BY <1>0, <1>4, <1>5, <1>6, <1>7, <1>8, ImportType DEF PlaceInv, PlaceData

LEMMA NextPlaced == OneWriter => (PlaceInv /\ [Next]_vars => PlaceInv')
<1> SUFFICES ASSUME OneWriter, PlaceInv, [Next]_vars PROVE PlaceInv'
  OBVIOUS
<1>1. ASSUME NEW w \in Writers, Step(w) PROVE PlaceInv'
  BY <1>1, LookupPlaced, PurgePlaced, SearchPlaced, InspectPlaced, AdoptPlaced, UnmapPlaced,
     MapTargetPlaced, ReadPayloadPlaced, UpsertPlaced, AppendPlaced, PersistPlaced DEF Step
<1>2. ASSUME NEW w \in Writers, Fail(w) PROVE PlaceInv'
  BY <1>2, FailPlaced
<1>3. ASSUME NEW w \in Writers, NEW p \in Pids, Start(w, p) PROVE PlaceInv'
  BY <1>3, StartPlaced
<1>4. ASSUME NEW i \in Slugs \cup Pids, LoadSchedule(i) PROVE PlaceInv'
  BY <1>4, LoadPlaced DEF CanonicalIds
<1>5. ASSUME NEW i \in Slugs \cup Pids, ImportEvents(i) \/ ClearImported(i) PROVE PlaceInv'
  BY <1>5, ImportPlaced DEF CanonicalIds
<1>6. CASE UNCHANGED vars
  <2>1. UNCHANGED <<turn, rows, matchMap, log, lineups, call, acked, fails>>
    BY <1>6 DEF vars
  <2>2. TypeInv'
    BY NextType DEF PlaceInv
  <2>3. PlaceData'
    BY <2>1 DEF PlaceInv, PlaceData, Scheduled, Placed, ChildrenSeeded, AckedStored, Exists
  <2>4. \A w \in Writers : CallPlaced(call[w])'
    BY <2>1 DEF PlaceInv, CallPlaced, AllAt, Exists
  <2> QED BY <2>2, <2>3, <2>4 DEF PlaceInv
<1> QED BY <1>1, <1>2, <1>3, <1>4, <1>5, <1>6 DEF Next

LEMMA PlaceInductive == OneWriter => (Spec => []PlaceInv)
<1> SUFFICES ASSUME OneWriter PROVE Spec => []PlaceInv
  OBVIOUS
<1>1. PlaceInv /\ [Next]_vars => PlaceInv'
  BY NextPlaced
<1> QED BY <1>1, InitPlaced, PTL DEF Spec

-----------------------------------------------------------------------------
(* What follows for one process of the source.                             *)

\* With one process of the source no event, side-table row or map entry ever
\* hangs on a row that is not there: the adoption takes all of them along.
THEOREM ChildrenSeededAlways == OneWriter => (Spec => []ChildrenSeeded)
<1> SUFFICES ASSUME OneWriter PROVE Spec => []ChildrenSeeded
  OBVIOUS
<1>1. PlaceInv => ChildrenSeeded
  BY DEF PlaceInv, PlaceData
<1> QED BY <1>1, PlaceInductive, PTL

\* With one process of the source all events of a match are under one id, at
\* whatever point of a call the schedule's row appears, and whatever fails.
THEOREM OneTimelineAlways == OneWriter => (Spec => []OneTimeline)
<1> SUFFICES ASSUME OneWriter PROVE Spec => []OneTimeline
  OBVIOUS
<1>1. PlaceInv => OneTimeline
  <2> SUFFICES ASSUME PlaceInv, NEW p \in Pids PROVE Cardinality(Collected(p)) <= 1
    BY DEF OneTimeline
  <2>1. PICK i \in Ids : AllAt(p, i)
    BY OnePlace DEF PlaceInv, TypeInv
  <2>2. Collected(p) \subseteq {i}
    BY <2>1 DEF Collected, AllAt
  <2>3. Collected(p) = {} \/ Collected(p) = {i}
    BY <2>2
  <2>4. Cardinality({}) = 0 /\ Cardinality({i}) = 1
    BY FS_EmptySet, FS_Singleton
  <2> QED BY <2>3, <2>4
<1> QED BY <1>1, PlaceInductive, PTL

\* With one process of the source the events the engine will not send again
\* are all in the one timeline of their match.
THEOREM AckedKeptAlways == OneWriter => (Spec => []AckedKept)
<1> SUFFICES ASSUME OneWriter PROVE Spec => []AckedKept
  OBVIOUS
<1>1. PlaceInv => AckedKept
  <2> SUFFICES ASSUME PlaceInv, NEW w \in Writers, NEW p \in Pids
               PROVE  \E i \in Ids : \A q \in acked[w][p] : <<p, q>> \in log[i]
    BY DEF AckedKept
  <2>1. PICK i \in Ids : AllAt(p, i)
    BY OnePlace DEF PlaceInv, TypeInv
  <2>2. ASSUME NEW q \in acked[w][p] PROVE <<p, q>> \in log[i]
    <3>1. PICK j \in Ids : <<p, q>> \in log[j]
      BY DEF PlaceInv, PlaceData, AckedStored
    <3>2. <<p, q>>[1] = p
      OBVIOUS
    <3>3. j = i
      BY <2>1, <3>1, <3>2 DEF AllAt
    <3> QED BY <3>1, <3>3
  <2> QED BY <2>2
<1> QED BY <1>1, PlaceInductive, PTL

-----------------------------------------------------------------------------
(* Details once known are never lost.                                      *)

Detail(i) == StoredPayload(i).extra

\* A payload about to be written has the detail of the rows it was made from.
CallRich(c) ==
    LET i == c.bound
        s == Stub[c.match.id]
    IN  /\ c.phase \in {"adopt", "upsert"} /\ Detail(i) # Null => c.payload.extra # Null
        /\ c.phase = "adopt" /\ Detail(s) # Null => c.payload.extra # Null

RichInv == PlaceInv /\ \A w \in Writers : CallRich(call[w])

LEMMA ViewNull == \A v \in Oriented, r \in BOOLEAN : v # Null => HomeAwayView(v, r) # Null
BY OrientedFacts DEF HomeAwayView, Oriented

LEMMA DetailFacts ==
  ASSUME TypeOK
  PROVE  /\ \A i \in Ids : Detail(i) \in Oriented
         /\ \A i \in Ids : Exists(i) => Detail(i) = rows[i].extra
         /\ \A i \in Ids : ~ Exists(i) => Detail(i) = Null
         /\ \A p \in Pids : Known(p) <=> \E i \in Homes(p) : Detail(i) # Null
<1>1. \A i \in Ids : Detail(i) \in Oriented
  BY StoredPayloadType DEF Detail, Payload
<1>2. \A i : Detail(i) = IF Exists(i) THEN rows[i].extra ELSE Null
  BY DEF Detail, StoredPayload
<1> QED BY <1>1, <1>2 DEF Known, Homes

\* A step of the call that takes it to another phase, and writes nothing.
LEMMA RichStep ==
  ASSUME RichInv, OneWriter, NEW w \in Writers, PlaceInv', call'[w].phase \notin {"adopt", "upsert"}
  PROVE  RichInv'
BY DEF RichInv, OneWriter, CallRich

LEMMA InspectRich ==
  ASSUME RichInv, OneWriter, NEW w \in Writers, Inspect(w)
  PROVE  RichInv'
<1> DEFINE c == call[w]
           m == c.match
           i == c.bound
           s == Stub[m.id]
           names == StoredPayload(i).names
           seen == [c EXCEPT !.names = names]
           merged == MergedPayload(m, i, IsReverseOriented(m, names))
           joined == [seen EXCEPT !.payload = merged]
<1>0. PlaceInv /\ TypeInv /\ c.phase = "inspect" /\ UNCHANGED <<turn, rows>>
  BY DEF RichInv, PlaceInv, Inspect
<1>1. c \in Calls /\ m \in Snapshots /\ m.id \in Pids /\ i \in Ids /\ s \in Ids
  BY <1>0, CallFacts, IdFacts DEF Bindings
<1>2. StoredPayload(i) \in Payload /\ merged \in Payload
  BY <1>0, <1>1, StoredPayloadType, MergedPayloadType DEF TypeInv
<1>3. seen \in Calls /\ joined \in Calls
      /\ joined.match = m /\ joined.bound = i /\ joined.payload = merged
  BY <1>1, <1>2 DEF Calls, Payload
<1>4. (Detail(i) # Null \/ Detail(s) # Null) => merged.extra # Null
  <2>1. IsReverseOriented(m, names) \in BOOLEAN
    BY <1>0, <1>1, SnapshotType DEF IsReverseOriented, TypeInv
  <2>2. Detail(s) \in Oriented
    BY <1>0, <1>1, DetailFacts DEF TypeInv
  <2>3. merged.extra = PreservingRicher(HomeAwayView(Detail(s), IsReverseOriented(m, names)), Detail(i))
    BY DEF MergedPayload, Detail
  <2> QED BY <2>1, <2>2, <2>3, ViewNull DEF PreservingRicher
<1>5. \/ \E phase \in {"map", "read", "unmap"} : Continue(w, phase, seen)
      \/ Continue(w, "adopt", joined)
  BY AfterAdoptionType DEF Inspect
<1> HIDE DEF seen, joined, merged, names
<1>6. PlaceInv'
  BY <1>0, InspectPlaced
<1>7. CASE \E phase \in {"map", "read", "unmap"} : Continue(w, phase, seen)
  <2>1. call'[w].phase \notin {"adopt", "upsert"}
    BY <1>0, <1>3, <1>7, ContinueCall DEF TypeInv, TypeOK, Phases
  <2> QED BY <1>6, <2>1, RichStep
<1>8. CASE Continue(w, "adopt", joined)
  <2>1. call'[w].phase = "adopt" /\ call'[w].match = m /\ call'[w].bound = i /\ call'[w].payload = merged
    BY <1>0, <1>3, <1>8, ContinueCall DEF TypeInv, TypeOK, Phases
  <2>2. CallRich(call[w])'
    BY <1>0, <1>4, <2>1 DEF CallRich, Detail, StoredPayload, Exists
  <2> QED BY <1>6, <2>2 DEF RichInv, OneWriter
<1> QED BY <1>5, <1>7, <1>8

LEMMA ReadRich ==
  ASSUME RichInv, OneWriter, NEW w \in Writers, ReadPayload(w)
  PROVE  RichInv'
<1> DEFINE c == call[w]
           fields == [c EXCEPT !.payload = StoredPayload(c.bound)]
<1>0. PlaceInv /\ TypeInv /\ c.phase = "read" /\ UNCHANGED <<turn, rows>>
  BY DEF RichInv, PlaceInv, ReadPayload
<1>1. c \in Calls /\ c.bound \in Ids
  BY <1>0, CallFacts DEF Bindings
<1>2. StoredPayload(c.bound) \in Payload
  BY <1>0, <1>1, StoredPayloadType DEF TypeInv
<1>3. fields \in Calls /\ fields.bound = c.bound /\ fields.payload = StoredPayload(c.bound)
  BY <1>1, <1>2 DEF Calls
<1>4. Continue(w, "upsert", fields)
  BY DEF ReadPayload
<1> HIDE DEF fields
<1>5. call'[w].phase = "upsert" /\ call'[w].bound = c.bound
      /\ call'[w].payload = StoredPayload(c.bound)
  BY <1>0, <1>3, <1>4, ContinueCall DEF TypeInv, TypeOK, Phases
<1>6. CallRich(call[w])'
  BY <1>0, <1>5 DEF CallRich, Detail, StoredPayload, Exists
<1> QED BY <1>0, <1>6, ReadPayloadPlaced DEF RichInv, OneWriter

\* The loader leaves the detail of every row of a match alone.
LEMMA LoadDetail ==
  ASSUME TypeInv, NEW i \in CanonicalIds, LoadSchedule(i), NEW p \in Pids, NEW j \in Homes(p)
  PROVE  Detail(j)' = Detail(j)
<1>1. i \in Canonical(p) => Detail(i) = Null
  BY DEF LoadSchedule, Detail, StoredPayload
<1>2. rows'[i] # Null /\ rows'[i].extra = Null /\ \A k \in Ids : k # i => rows'[k] = rows[k]
  BY LoadedRow
<1>3. j \in Ids /\ (j = i => i \in Canonical(p))
  BY HomesFacts, IdFacts DEF Homes
<1>4. CASE j = i
  BY <1>1, <1>2, <1>3, <1>4 DEF Detail, StoredPayload, Exists
<1>5. CASE j # i
  BY <1>2, <1>3, <1>5 DEF Detail, StoredPayload, Exists
<1> QED BY <1>4, <1>5

LEMMA LoadRich ==
  ASSUME RichInv, NEW i \in CanonicalIds, LoadSchedule(i)
  PROVE  RichInv'
<1>0. PlaceInv /\ TypeInv /\ UNCHANGED <<turn, call>>
  BY DEF RichInv, PlaceInv, LoadSchedule
<1>1. ASSUME NEW w \in Writers, call[w].phase \in {"adopt", "upsert"}
      PROVE  CallRich(call[w])'
  <2> DEFINE c == call[w]
  <2>1. c.match.id \in Pids
    BY <1>0, <1>1, CallFacts
  <2>2. c.bound \in Homes(c.match.id) /\ Stub[c.match.id] \in Homes(c.match.id)
    BY <1>0, <1>1 DEF PlaceInv, CallPlaced, Bindings, Homes
  <2>3. Detail(c.bound)' = Detail(c.bound) /\ Detail(Stub[c.match.id])' = Detail(Stub[c.match.id])
    <3> HIDE DEF c
    <3>1. c' = c
      BY <1>0 DEF c
    <3>2. \A j \in Homes(c.match.id) : Detail(j)' = Detail(j)
      BY <1>0, <2>1, LoadDetail
    <3> QED BY <2>2, <3>1, <3>2 DEF Detail
  <2> QED BY <1>0, <2>3 DEF RichInv, CallRich
<1>2. ASSUME NEW w \in Writers, call[w].phase \notin {"adopt", "upsert"}
      PROVE  CallRich(call[w])'
  BY <1>0, <1>2 DEF CallRich
<1> QED BY <1>0, <1>1, <1>2, LoadPlaced DEF RichInv

\* A step of another phase leaves the call in one that has nothing to merge.
LEMMA QuietStep ==
  ASSUME RichInv, OneWriter, NEW w \in Writers,
         \/ Lookup(w) \/ Purge(w) \/ Search(w) \/ Adopt(w) \/ Unmap(w) \/ MapTarget(w)
         \/ UpsertRow(w) \/ AppendEvents(w) \/ PersistSideTables(w) \/ Fail(w)
         \/ \E p \in Pids : Start(w, p)
  PROVE  call'[w].phase \notin {"adopt", "upsert"}
<1>0. TypeInv /\ call \in [Writers -> Calls]
  BY DEF RichInv, PlaceInv, TypeInv, TypeOK
<1>1. ASSUME NEW fields \in Calls, NEW phase \in Phases \ {"adopt", "upsert"}, Continue(w, phase, fields)
      PROVE  call'[w].phase \notin {"adopt", "upsert"}
  BY <1>0, <1>1, ContinueCall
<1>2. ASSUME call' = [call EXCEPT ![w] = Idle]
      PROVE  call'[w].phase \notin {"adopt", "upsert"}
  BY <1>0, <1>2, IdleCall
<1>3. ASSUME NEW i \in Ids, NEW pending \in BOOLEAN, Bind(w, i, pending)
      PROVE  call'[w].phase \notin {"adopt", "upsert"}
  <2>1. [call[w] EXCEPT !.bound = i, !.pending = pending] \in Calls
    BY <1>0 DEF Calls
  <2> QED BY <1>1, <1>3, <2>1 DEF Bind, Phases
<1>4. ASSUME call[w].phase # "idle", Register(w)
      PROVE  call'[w].phase \notin {"adopt", "upsert"}
  <2>1. call[w] \in Calls /\ call[w].match.id \in Pids /\ turn[call[w].match.id] \in Oriented
    BY <1>0, <1>4, CallFacts DEF TypeInv, TypeOK, Oriented
  <2>2. [call[w] EXCEPT !.bound = Stub[call[w].match.id], !.names = turn[call[w].match.id]] \in Calls
    BY <1>0, <2>1, IdFacts DEF Calls
  <2> QED BY <1>1, <1>2, <1>4, <2>2 DEF Register, Phases
<1>5. call[w] \in Calls
  BY <1>0
<1>6. CASE Lookup(w)
  <2>1. matchMap[call[w].match.id] \in Ids \cup {Null}
    BY <1>0, <1>6, CallFacts DEF Lookup, TypeInv, TypeOK
  <2> QED BY <1>1, <1>3, <1>5, <1>6, <2>1 DEF Lookup, Phases
<1>7. CASE Search(w)
  <2>1. call[w].match.id \in Pids
    BY <1>0, <1>7, CallFacts DEF Search
  <2>2. call[w].match.id \in Ids /\ Stub[call[w].match.id] \in Ids
        /\ \A k \in DOMAIN Fits[call[w].match.id] : Fits[call[w].match.id][k] \in Ids
    BY <2>1, CanonicalFacts, HomesFacts
  <2> QED BY <1>3, <1>4, <1>7, <2>2 DEF Search, Candidates
<1>8. CASE Purge(w) \/ Adopt(w) \/ MapTarget(w) \/ UpsertRow(w) \/ AppendEvents(w)
  BY <1>1, <1>5, <1>8, AfterAdoptionType DEF Purge, Adopt, MapTarget, UpsertRow, AppendEvents, Phases
<1>9. CASE Unmap(w)
  BY <1>4, <1>9 DEF Unmap
<1>10. CASE PersistSideTables(w) \/ Fail(w)
  BY <1>2, <1>10 DEF PersistSideTables, Fail
<1>11. ASSUME NEW p \in Pids, Start(w, p)
       PROVE  call'[w].phase \notin {"adopt", "upsert"}
  <2>1. PICK m \in Snapshots : Continue(w, "lookup", [Idle EXCEPT !.match = m])
    BY <1>11 DEF Start
  <2>2. [Idle EXCEPT !.match = m] \in Calls
    BY IdleCall DEF Calls, Idle
  <2> QED BY <1>1, <2>1, <2>2 DEF Phases
<1> QED BY <1>6, <1>7, <1>8, <1>9, <1>10, <1>11

LEMMA InitRich == Init => RichInv
<1> SUFFICES ASSUME Init PROVE RichInv
  OBVIOUS
<1>1. \A w \in Writers : call[w] = Idle
  BY DEF Init
<1> QED BY <1>1, InitPlaced, IdleCall DEF RichInv, CallRich

LEMMA NextRich == OneWriter => (RichInv /\ [Next]_vars => RichInv')
<1> SUFFICES ASSUME OneWriter, RichInv, [Next]_vars PROVE RichInv'
  OBVIOUS
<1>0. PlaceInv'
  BY NextPlaced DEF RichInv
<1>1. ASSUME NEW w \in Writers,
             \/ Lookup(w) \/ Purge(w) \/ Search(w) \/ Adopt(w) \/ Unmap(w) \/ MapTarget(w)
             \/ UpsertRow(w) \/ AppendEvents(w) \/ PersistSideTables(w) \/ Fail(w)
             \/ \E p \in Pids : Start(w, p)
      PROVE  RichInv'
  BY <1>0, <1>1, QuietStep, RichStep
<1>2. ASSUME NEW i \in Slugs \cup Pids, LoadSchedule(i) PROVE RichInv'
  BY <1>2, LoadRich DEF CanonicalIds
<1>3. ASSUME NEW i \in Slugs \cup Pids, ImportEvents(i) \/ ClearImported(i) PROVE RichInv'
  BY <1>0, <1>3 DEF ImportEvents, ClearImported, RichInv, CallRich, Detail, StoredPayload, Exists
<1>4. CASE UNCHANGED vars
  BY <1>0, <1>4 DEF vars, RichInv, CallRich, Detail, StoredPayload, Exists
<1> QED BY <1>1, <1>2, <1>3, <1>4, InspectRich, ReadRich DEF Next, Step

LEMMA RichInductive == OneWriter => (Spec => []RichInv)
<1> SUFFICES ASSUME OneWriter PROVE Spec => []RichInv
  OBVIOUS
<1>1. RichInv /\ [Next]_vars => RichInv'
  BY NextRich
<1> QED BY <1>1, InitRich, PTL DEF Spec

LEMMA AdoptDetail ==
  ASSUME RichInv, NEW w \in Writers, Adopt(w), NEW p \in Pids, Known(p), RichInv'
  PROVE  Known(p)'
<1> DEFINE c == call[w]
           i == c.bound
           s == Stub[c.match.id]
<1>1. TypeInv /\ c.phase = "adopt"
  BY DEF RichInv, PlaceInv, Adopt
<1>2. c.match.id \in Pids /\ i \in Ids /\ s \in Ids /\ i \in Homes(c.match.id)
  BY <1>1, CallFacts, IdFacts DEF Bindings, RichInv, PlaceInv, CallPlaced
<1>3. /\ rows'[i] # Null
      /\ rows'[i] = [names |-> c.payload.names, score |-> rows[i].score, extra |-> c.payload.extra]
      /\ \A j \in Ids : j \notin {i, s} => rows'[j] = rows[j]
  BY <1>1, AdoptRows
<1>4. (Detail(i) # Null \/ Detail(s) # Null) => c.payload.extra # Null
  BY <1>1 DEF RichInv, CallRich
<1> HIDE DEF c, i, s
<1>5. rows'[i].extra = c.payload.extra
  BY <1>3
<1>6. PICK j \in Homes(p) : Detail(j) # Null
  BY <1>1, DetailFacts DEF TypeInv
<1>7. j \in Ids
  BY HomesFacts
<1>8. CASE j = i
  BY <1>3, <1>4, <1>5, <1>6, <1>8 DEF Known, Homes, Exists
<1>9. CASE j = s
  <2>1. c.match.id = p
    BY <1>2, <1>9, HomesFacts DEF s
  <2> QED BY <1>2, <1>3, <1>4, <1>5, <1>6, <1>9, <2>1 DEF Known, Homes, Exists
<1>10. CASE j \notin {i, s}
  <2>1. rows'[j] # Null /\ rows'[j].extra # Null
    BY <1>3, <1>6, <1>7, <1>10 DEF Detail, StoredPayload, Exists
  <2> QED BY <2>1 DEF Known, Homes, Exists
<1> QED BY <1>8, <1>9, <1>10

LEMMA UpsertDetail ==
  ASSUME RichInv, NEW w \in Writers, UpsertRow(w), NEW p \in Pids, Known(p)
  PROVE  Known(p)'
<1> DEFINE c == call[w]
           i == c.bound
           view == HomeAwayView(c.match.extra, IsReverseOriented(c.match, c.names))
<1>1. TypeInv /\ c.phase = "upsert"
  BY DEF RichInv, PlaceInv, UpsertRow
<1>2. /\ rows'[i] # Null
      /\ rows'[i].extra = PreservingRicher(c.payload.extra, view)
      /\ \A j \in Ids : j # i => rows'[j] = rows[j]
  BY <1>1, UpsertRows
<1>3. Detail(i) # Null => c.payload.extra # Null
  BY <1>1 DEF RichInv, CallRich
<1> HIDE DEF c, i, view
<1>4. PICK j \in Homes(p) : Detail(j) # Null
  BY <1>1, DetailFacts DEF TypeInv
<1>5. rows'[j] # Null /\ rows'[j].extra # Null
  <2>1. CASE j = i
    BY <1>2, <1>3, <1>4, <2>1 DEF PreservingRicher
  <2>2. CASE j # i
    BY <1>2, <1>4, <2>2, HomesFacts DEF Detail, StoredPayload, Exists
  <2> QED BY <2>1, <2>2
<1> QED BY <1>5 DEF Known, Homes, Exists

\* With one process of the source a detail of a match, once in the payload of
\* its row, is there after every later poll and adoption.
THEOREM RicherKeptAlways == OneWriter => (Spec => RicherKept)
<1> SUFFICES ASSUME OneWriter PROVE Spec => RicherKept
  OBVIOUS
<1>1. RichInv /\ RichInv' /\ [Next]_vars => [\A p \in Pids : Known(p) => Known(p)']_vars
  <2> SUFFICES ASSUME RichInv, RichInv', Next, NEW p \in Pids, Known(p) PROVE Known(p)'
    OBVIOUS
  <2>1. ASSUME rows' = rows PROVE Known(p)'
    BY <2>1 DEF Known, Exists
  <2>2. ASSUME NEW w \in Writers, Adopt(w) PROVE Known(p)'
    BY <2>2, AdoptDetail
  <2>3. ASSUME NEW w \in Writers, UpsertRow(w) PROVE Known(p)'
    BY <2>3, UpsertDetail
  <2>4. ASSUME NEW i \in Slugs \cup Pids, LoadSchedule(i) PROVE Known(p)'
    <3>1. TypeInv /\ TypeInv'
      BY DEF RichInv, PlaceInv
    <3>2. PICK j \in Homes(p) : Detail(j) # Null
      BY <3>1, DetailFacts DEF TypeInv
    <3>3. Detail(j)' # Null
      BY <2>4, <3>1, <3>2, LoadDetail DEF CanonicalIds
    <3>4. rows'[j] # Null /\ rows'[j].extra # Null
      BY <3>3 DEF Detail, StoredPayload, Exists
    <3> QED BY <3>4 DEF Known, Homes, Exists
  <2>5. ASSUME NEW w \in Writers, Step(w), ~ Adopt(w), ~ UpsertRow(w) PROVE rows' = rows
    BY <2>5 DEF Step, Lookup, Purge, Search, Inspect, Unmap, MapTarget, ReadPayload, AppendEvents,
                PersistSideTables
  <2>6. ASSUME NEW w \in Writers, Fail(w) \/ \E q \in Pids : Start(w, q) PROVE rows' = rows
    BY <2>6 DEF Fail, Start
  <2>7. ASSUME NEW i \in Slugs \cup Pids, ImportEvents(i) \/ ClearImported(i) PROVE rows' = rows
    BY <2>7 DEF ImportEvents, ClearImported
  <2> QED BY <2>1, <2>2, <2>3, <2>4, <2>5, <2>6, <2>7 DEF Next
<1> QED BY <1>1, RichInductive, PTL DEF RicherKept, Spec

-----------------------------------------------------------------------------
(* Home and away agree within a row.                                       *)

\* A section with the names it fits, or, as long as the row of the provider's
\* own id has no names, the provider's own orientation.
Fit(i, names, v) == v \in {Null, names} \/ (names = Null /\ i \in Pids /\ v = turn[i])

LegalNames(i, names) ==
    /\ i \in Slugs => names = "plain"
    /\ i \in Pids => names \in {Null, "plain", turn[i]}
    /\ \A p \in Pids : i = Stub[p] => names = turn[p]

Upright ==
    \A i \in Ids : Exists(i) =>
        /\ LegalNames(i, rows[i].names)
        /\ Fit(i, rows[i].names, rows[i].score)
        /\ Fit(i, rows[i].names, rows[i].extra)
        /\ Fit(i, rows[i].names, lineups[i])

\* What a call has read of the row is still so, but for names it wrote itself.
CallUpright(c) ==
    LET p == c.match.id
        i == c.bound
    IN  /\ c.phase = "adopt" =>
              /\ c.names = rows[i].names
              /\ c.payload = MergedPayload(c.match, i, IsReverseOriented(c.match, c.names))
        /\ c.phase \in {"map", "read", "upsert"} =>
              /\ i = Stub[p] => c.names = turn[p]
              /\ i # Stub[p] => \/ c.names = rows[i].names
                                \/ i = p /\ c.names = Null /\ rows[i].names = turn[p]
        /\ c.phase = "upsert" => c.payload = StoredPayload(i)
        /\ c.phase \in {"append", "persist"} /\ rows[i].extra = Null => c.match.extra = Null

UprightInv == PlaceInv /\ Upright /\ \A w \in Writers : CallUpright(call[w])

\* The names a row of a match may have.
LEMMA HomeNames ==
  ASSUME TypeOK, NEW p \in Pids, NEW i \in Homes(p), NEW names, LegalNames(i, names)
  PROVE  names \in {Null, "plain", turn[p]} /\ (names = Null => i = p) /\ turn[p] \in Sides
<1>1. turn[p] \in Sides
  BY DEF TypeOK
<1>2. i = Stub[p] \/ i = p \/ i \in Slugs
  BY CanonicalFacts DEF Homes
<1> QED BY <1>1, <1>2, OrientedFacts DEF LegalNames

\* What the provider reports, seen with the names of the row, fits the row.
LEMMA ViewFits ==
  ASSUME Anonymous = {}, TypeOK, NEW m \in Snapshots, NEW names \in {Null, "plain", turn[m.id]},
         NEW i, names = Null => i = m.id, NEW v \in {Null, turn[m.id]}
  PROVE  LET view == HomeAwayView(v, IsReverseOriented(m, names)) IN
         /\ Fit(i, names, view)
         /\ names = Null => view = v
         /\ view = Null => v = Null
<1>1. m.id \in Pids /\ turn[m.id] \in Sides /\ (m.named \/ turn[m.id] = "plain")
  BY SnapshotType
<1>2. CASE names = Null
  BY <1>1, <1>2 DEF IsReverseOriented, HomeAwayView, Fit
<1>3. CASE names # Null /\ names = turn[m.id]
  BY <1>1, <1>3 DEF IsReverseOriented, HomeAwayView, Fit
<1>4. CASE names = "plain" /\ turn[m.id] # "plain"
  <2>1. turn[m.id] = "turned" /\ m.named
    BY <1>1, <1>4, OrientedFacts
  <2>2. IsReverseOriented(m, names)
    BY <1>4, <2>1, OrientedFacts DEF IsReverseOriented
  <2>3. HomeAwayView(v, IsReverseOriented(m, names)) = Flip(v)
    BY <2>2 DEF HomeAwayView
  <2> QED BY <1>4, <2>1, <2>3, OrientedFacts DEF Fit
<1> QED BY <1>2, <1>3, <1>4

LEMMA UprightKept ==
  ASSUME Upright, UNCHANGED <<turn, rows, lineups>>
  PROVE  Upright'
BY DEF Upright, LegalNames, Fit, Exists

LEMMA UprightStep ==
  ASSUME UprightInv, OneWriter, NEW w \in Writers, PlaceInv', UNCHANGED <<turn, rows, lineups>>,
         CallUpright(call[w])'
  PROVE  UprightInv'
BY UprightKept DEF UprightInv, OneWriter

LEMMA InitUpright == Init => UprightInv
<1> SUFFICES ASSUME Init PROVE UprightInv
  OBVIOUS
<1>1. PICK old \in SUBSET Pids :
        /\ rows = [i \in Ids |-> IF \E p \in old : i = Stub[p]
                      THEN [names |-> turn[CHOOSE p \in old : i = Stub[p]],
                            score |-> Null, extra |-> Null]
                      ELSE Null]
        /\ lineups = [i \in Ids |-> Null]
  BY DEF Init
<1>2. PlaceInv
  BY InitPlaced
<1>3. ASSUME NEW i \in Ids, Exists(i)
      PROVE  /\ LegalNames(i, rows[i].names)
             /\ rows[i].score = Null /\ rows[i].extra = Null /\ lineups[i] = Null
  <2>1. PICK p \in old : i = Stub[p]
    BY <1>1, <1>3 DEF Exists
  <2> DEFINE r == CHOOSE q \in old : i = Stub[q]
  <2>2. rows[i] = [names |-> turn[r], score |-> Null, extra |-> Null]
    BY <1>1, <2>1
  <2>3. r = p
    <3>1. \A q \in old : i = Stub[q] => q = p
      BY <2>1, IdFacts
    <3> QED BY <2>1, <3>1
  <2> HIDE DEF r
  <2>4. rows[i].names = turn[p] /\ rows[i].score = Null /\ rows[i].extra = Null
    BY <2>2, <2>3
  <2> QED BY <1>1, <2>1, <2>4, IdFacts DEF LegalNames, CanonicalIds
<1>4. Upright
  BY <1>3 DEF Upright, Fit
<1>5. \A w \in Writers : CallUpright(call[w])
  <2>1. \A w \in Writers : call[w] = Idle
    BY DEF Init
  <2> QED BY <2>1, IdleCall DEF CallUpright
<1> QED BY <1>2, <1>4, <1>5 DEF UprightInv

\* The steps that take a call to a phase in which nothing read counts.
LEMMA EasyUpright ==
  ASSUME UprightInv, OneWriter, NEW w \in Writers,
         Lookup(w) \/ Purge(w) \/ Fail(w) \/ \E p \in Pids : Start(w, p)
  PROVE  UprightInv'
<1>0. PlaceInv /\ TypeInv /\ call \in [Writers -> Calls]
  BY DEF UprightInv, PlaceInv, TypeInv, TypeOK
<1>1. PlaceInv' /\ UNCHANGED <<turn, rows, lineups>>
  BY <1>0, LookupPlaced, PurgePlaced, FailPlaced, StartPlaced DEF Lookup, Purge, Fail, Start
<1>2. call'[w].phase \in {"search", "purge", "inspect", "idle", "lookup"}
  <2>1. CASE Lookup(w)
    <3>1. call[w].match.id \in Pids /\ matchMap[call[w].match.id] \in Ids \cup {Null}
      BY <1>0, <2>1, CallFacts DEF Lookup, TypeInv, TypeOK
    <3>2. CASE Continue(w, "search", call[w]) \/ Continue(w, "purge", call[w])
      BY <1>0, <3>2, ContinueCall DEF Phases
    <3>3. CASE matchMap[call[w].match.id] \notin {Null, Stub[call[w].match.id]}
               /\ Bind(w, matchMap[call[w].match.id], FALSE)
      <4>1. [call[w] EXCEPT !.bound = matchMap[call[w].match.id], !.pending = FALSE] \in Calls
        BY <1>0, <3>1 DEF Calls
      <4> QED BY <1>0, <3>3, <4>1, ContinueCall DEF Bind, Phases
    <3> QED BY <2>1, <3>2, <3>3 DEF Lookup
  <2>2. CASE Purge(w)
    BY <1>0, <2>2, ContinueCall DEF Purge, Phases
  <2>3. CASE Fail(w)
    BY <1>0, <2>3, IdleCall DEF Fail
  <2>4. ASSUME NEW p \in Pids, Start(w, p) PROVE call'[w].phase = "lookup"
    <3>1. PICK m \in Snapshots : Continue(w, "lookup", [Idle EXCEPT !.match = m])
      BY <2>4 DEF Start
    <3>2. [Idle EXCEPT !.match = m] \in Calls
      BY IdleCall DEF Calls, Idle
    <3> QED BY <1>0, <3>1, <3>2, ContinueCall DEF Phases
  <2> QED BY <2>1, <2>2, <2>3, <2>4
<1>3. CallUpright(call[w])'
  BY <1>2 DEF CallUpright
<1> QED BY <1>1, <1>3, UprightStep

LEMMA RegisterUpright ==
  ASSUME TypeInv, NEW w \in Writers, call[w].phase # "idle", Register(w), turn' = turn
  PROVE  CallUpright(call[w])'
<1>1. CASE call'[w] = Idle
  BY <1>1, IdleCall DEF CallUpright
<1>2. CASE /\ call'[w].phase = "read" /\ call'[w].match = call[w].match
           /\ call'[w].bound = Stub[call[w].match.id] /\ call'[w].names = turn[call[w].match.id]
  BY <1>2 DEF CallUpright
<1> QED BY <1>1, <1>2, RegisterType

LEMMA SearchUpright ==
  ASSUME UprightInv, OneWriter, NEW w \in Writers, Search(w) \/ Unmap(w)
  PROVE  UprightInv'
<1>0. PlaceInv /\ TypeInv /\ UNCHANGED <<turn, rows, lineups>> /\ call[w].phase # "idle"
  BY DEF UprightInv, PlaceInv, Search, Unmap
<1>1. call[w].match.id \in Pids
  BY <1>0, CallFacts
<1>2. call[w].match.id \in Ids /\ Stub[call[w].match.id] \in Ids
      /\ \A k \in DOMAIN Fits[call[w].match.id] : Fits[call[w].match.id][k] \in Ids
  BY <1>1, CanonicalFacts, HomesFacts
<1>3. Register(w) \/ \E i \in Ids, pending \in BOOLEAN : Bind(w, i, pending)
  BY <1>2 DEF Search, Unmap, Candidates
<1>4. CASE Register(w)
  BY <1>0, <1>4, RegisterUpright, UprightStep, SearchPlaced, UnmapPlaced
<1>5. ASSUME NEW i \in Ids, NEW pending \in BOOLEAN, Bind(w, i, pending)
      PROVE  UprightInv'
  <2>1. [call[w] EXCEPT !.bound = i, !.pending = pending] \in Calls /\ call \in [Writers -> Calls]
    BY <1>0 DEF TypeInv, TypeOK, Calls
  <2>2. call'[w].phase = "inspect"
    BY <1>5, <2>1, ContinueCall DEF Bind, Phases
  <2>3. CallUpright(call[w])'
    BY <2>2 DEF CallUpright
  <2> QED BY <1>0, <2>3, UprightStep, SearchPlaced, UnmapPlaced
<1> QED BY <1>3, <1>4, <1>5

LEMMA InspectUpright ==
  ASSUME UprightInv, OneWriter, NEW w \in Writers, Inspect(w)
  PROVE  UprightInv'
<1> DEFINE c == call[w]
           m == c.match
           p == m.id
           i == c.bound
           names == StoredPayload(i).names
           seen == [c EXCEPT !.names = names]
           merged == MergedPayload(m, i, IsReverseOriented(m, names))
           joined == [seen EXCEPT !.payload = merged]
<1>0. PlaceInv /\ TypeInv /\ c.phase = "inspect" /\ UNCHANGED <<turn, rows, lineups>>
  BY DEF UprightInv, PlaceInv, Inspect
<1>1. c \in Calls /\ m \in Snapshots /\ p \in Pids /\ i \in Ids
  BY <1>0, CallFacts DEF Bindings
<1>2. Exists(i) /\ names = rows[i].names /\ (i = Stub[p] => names = turn[p])
  <2>1. Exists(i)
    BY <1>0 DEF PlaceInv, CallPlaced, Bindings
  <2>2. LegalNames(i, rows[i].names)
    BY <1>1, <2>1 DEF UprightInv, Upright
  <2> QED BY <1>1, <2>1, <2>2 DEF StoredPayload, LegalNames
<1>3. StoredPayload(i) \in Payload /\ merged \in Payload
  BY <1>0, <1>1, StoredPayloadType, MergedPayloadType DEF TypeInv
<1>4. seen \in Calls /\ seen.match = m /\ seen.bound = i /\ seen.names = names
  BY <1>1, <1>3 DEF Calls, Payload
<1>5. joined \in Calls /\ joined.match = m /\ joined.bound = i /\ joined.names = names
      /\ joined.payload = merged
  BY <1>3, <1>4 DEF Calls
<1>6. \/ \E phase \in {"map", "read", "unmap"} : Continue(w, phase, seen)
      \/ Continue(w, "adopt", joined)
  BY AfterAdoptionType DEF Inspect
<1>7. PlaceInv'
  BY <1>0, InspectPlaced
<1> HIDE DEF seen, joined
<1>8. CASE \E phase \in {"map", "read", "unmap"} : Continue(w, phase, seen)
  <2>1. call'[w].phase \in {"map", "read", "unmap"} /\ call'[w].match = m /\ call'[w].bound = i
        /\ call'[w].names = rows[i].names
    BY <1>0, <1>2, <1>4, <1>8, ContinueCall DEF TypeInv, TypeOK, Phases
  <2>2. CallUpright(call[w])'
    BY <1>0, <1>2, <2>1 DEF CallUpright
  <2> QED BY <1>0, <1>7, <2>2, UprightStep
<1>9. CASE Continue(w, "adopt", joined)
  <2>1. call'[w].phase = "adopt" /\ call'[w].match = m /\ call'[w].bound = i
        /\ call'[w].names = names /\ call'[w].payload = merged
    BY <1>0, <1>5, <1>9, ContinueCall DEF TypeInv, TypeOK, Phases
  <2> HIDE DEF m, i, names
  <2>2. CallUpright(call[w])'
    BY <1>0, <1>2, <2>1 DEF CallUpright, MergedPayload, StoredPayload, IsReverseOriented, Exists
  <2> QED BY <1>0, <1>7, <2>2, UprightStep
<1> QED BY <1>6, <1>8, <1>9

LEMMA MapReadUpright ==
  ASSUME UprightInv, OneWriter, NEW w \in Writers, MapTarget(w) \/ ReadPayload(w)
  PROVE  UprightInv'
<1> DEFINE c == call[w]
           fields == [c EXCEPT !.payload = StoredPayload(c.bound)]
<1>0. PlaceInv /\ TypeInv /\ UNCHANGED <<turn, rows, lineups>> /\ c.phase \in {"map", "read"}
  BY DEF UprightInv, PlaceInv, MapTarget, ReadPayload
<1>1. c \in Calls /\ c.bound \in Ids /\ call \in [Writers -> Calls]
  BY <1>0, CallFacts DEF Bindings, TypeInv, TypeOK
<1>2. PlaceInv'
  BY <1>0, MapTargetPlaced, ReadPayloadPlaced
<1>3. CASE MapTarget(w)
  <2>1. call'[w].phase = "read" /\ call'[w].match = c.match /\ call'[w].bound = c.bound
        /\ call'[w].names = c.names
    BY <1>1, <1>3, ContinueCall DEF MapTarget, Phases
  <2>2. CallUpright(call[w])'
    BY <1>0, <2>1 DEF CallUpright, UprightInv
  <2> QED BY <1>0, <1>2, <2>2, UprightStep
<1>4. CASE ReadPayload(w)
  <2>1. StoredPayload(c.bound) \in Payload
    BY <1>0, <1>1, StoredPayloadType DEF TypeInv
  <2>2. fields \in Calls /\ fields.match = c.match /\ fields.bound = c.bound
        /\ fields.names = c.names /\ fields.payload = StoredPayload(c.bound)
    BY <1>1, <2>1 DEF Calls
  <2>3. Continue(w, "upsert", fields)
    BY <1>4 DEF ReadPayload
  <2> HIDE DEF fields
  <2>4. call'[w].phase = "upsert" /\ call'[w].match = c.match /\ call'[w].bound = c.bound
        /\ call'[w].names = c.names /\ call'[w].payload = StoredPayload(c.bound)
    BY <1>1, <2>2, <2>3, ContinueCall DEF Phases
  <2>5. CallUpright(call[w])'
    BY <1>0, <2>4 DEF CallUpright, UprightInv, StoredPayload, Exists
  <2> QED BY <1>0, <1>2, <2>5, UprightStep
<1> QED BY <1>3, <1>4

\* The row after an adoption, when the stub's data were turned to its names.
LEMMA AdoptUpright ==
  ASSUME UprightInv, OneWriter, Anonymous = {}, NEW w \in Writers, Adopt(w)
  PROVE  UprightInv'
<1> DEFINE c == call[w]
           m == c.match
           p == m.id
           s == Stub[p]
           i == c.bound
           reversed == IsReverseOriented(m, c.names)
           moved == HomeAwayView(lineups[s], reversed)
           turned == HomeAwayView(rows[s].extra, reversed)
           names == c.payload.names
           extra == c.payload.extra
<1>0. PlaceInv /\ TypeInv /\ TypeOK /\ c.phase = "adopt" /\ turn' = turn
  BY DEF UprightInv, PlaceInv, TypeInv, Adopt
<1>1. c \in Calls /\ m \in Snapshots /\ p \in Pids /\ i \in Ids /\ i \in CanonicalIds
  BY <1>0, CallFacts DEF Bindings
<1>2. i \in Canonical(p) /\ i \in Homes(p) /\ Exists(i) /\ Exists(s) /\ s \in Ids /\ i # s
  BY <1>0, <1>1, IdFacts DEF PlaceInv, CallPlaced, Bindings, Homes
<1>3. c.names = rows[i].names /\ c.payload = MergedPayload(m, i, reversed)
  BY <1>0 DEF UprightInv, CallUpright
<1>4. /\ names = PreservingRicher(rows[s].names, rows[i].names)
      /\ extra = PreservingRicher(turned, rows[i].extra)
  BY <1>2, <1>3 DEF MergedPayload, StoredPayload
<1>5. /\ LegalNames(i, rows[i].names) /\ Fit(i, rows[i].names, rows[i].score)
      /\ Fit(i, rows[i].names, rows[i].extra) /\ Fit(i, rows[i].names, lineups[i])
      /\ rows[s].names = turn[p]
      /\ rows[s].extra \in {Null, turn[p]} /\ lineups[s] \in {Null, turn[p]}
  <2>1. /\ LegalNames(s, rows[s].names) /\ Fit(s, rows[s].names, rows[s].extra)
        /\ Fit(s, rows[s].names, lineups[s])
    BY <1>2 DEF UprightInv, Upright
  <2>2. s \notin Pids
    BY <1>1, HomesFacts, IdFacts DEF CanonicalIds
  <2> QED BY <1>1, <1>2, <2>1, <2>2 DEF UprightInv, Upright, LegalNames, Fit
<1>6. rows[i].names \in {Null, "plain", turn[p]} /\ (rows[i].names = Null => i = p)
      /\ turn[p] \in Sides
  BY <1>0, <1>1, <1>2, <1>5, HomeNames
<1>7. /\ Fit(i, rows[i].names, turned) /\ (rows[i].names = Null => turned = rows[s].extra)
      /\ Fit(i, rows[i].names, moved) /\ (rows[i].names = Null => moved = lineups[s])
  BY <1>0, <1>1, <1>3, <1>5, <1>6, ViewFits
<1>8. /\ rows'[i] = [names |-> names, score |-> rows[i].score, extra |-> extra]
      /\ rows'[s] = Null /\ \A j \in Ids : j \notin {i, s} => rows'[j] = rows[j]
  BY <1>0, AdoptRows
<1>9. lineups'[i] = PreservingRicher(lineups[i], moved)
      /\ \A j \in Ids : j \notin {i, s} => lineups'[j] = lineups[j]
  <2>1. lineups' = [lineups EXCEPT ![i] = PreservingRicher(@, moved), ![s] = Null]
    BY DEF Adopt
  <2> HIDE DEF moved
  <2> QED BY <1>0, <1>1, <1>2, <2>1 DEF TypeOK
<1>10. /\ call'[w].phase \in {"map", "read"} /\ call'[w].match = m
       /\ call'[w].bound = i /\ call'[w].names = c.names
  BY <1>0, <1>1, AfterAdoptionType, ContinueCall DEF Adopt, TypeOK, Phases
<1>11. names = IF rows[i].names = Null THEN turn[p] ELSE rows[i].names
  BY <1>4, <1>5 DEF PreservingRicher
<1> HIDE DEF c, i, s, p, m, reversed, moved, turned, names, extra
<1>12. rows'[i].names = names /\ rows'[i].score = rows[i].score /\ rows'[i].extra = extra
  BY <1>8
<1>13. \A v : Fit(i, rows[i].names, v) => Fit(i, names, v)
  BY <1>6, <1>11 DEF Fit
<1>14. LegalNames(i, names)
  BY <1>1, <1>2, <1>5, <1>6, <1>11, ReconcileAssumption, OrientedFacts DEF LegalNames
<1>15. Fit(i, names, extra) /\ Fit(i, names, rows[i].score) /\ Fit(i, names, lineups'[i])
  BY <1>4, <1>5, <1>7, <1>9, <1>13 DEF PreservingRicher
<1>16. Upright'
  <2> SUFFICES ASSUME NEW j \in Ids, rows'[j] # Null
               PROVE  /\ LegalNames(j, rows'[j].names)
                      /\ Fit(j, rows'[j].names, rows'[j].score)
                      /\ Fit(j, rows'[j].names, rows'[j].extra)
                      /\ Fit(j, rows'[j].names, lineups'[j])
    BY <1>0 DEF Upright, LegalNames, Fit, Exists
  <2>1. CASE j = i
    BY <1>12, <1>14, <1>15, <2>1
  <2>2. CASE j # i
    BY <1>8, <1>9, <2>2 DEF UprightInv, Upright, Exists
  <2> QED BY <2>1, <2>2
<1>17. CallUpright(call[w])'
  <2>1. c.names = names \/ (i = p /\ c.names = Null /\ names = turn[p])
    BY <1>3, <1>6, <1>11
  <2>2. i # Stub[p]
    BY <1>2 DEF s
  <2> QED BY <1>0, <1>10, <1>12, <2>1, <2>2 DEF CallUpright, p
<1>18. PlaceInv'
  BY <1>0, AdoptPlaced
<1> QED BY <1>16, <1>17, <1>18 DEF UprightInv, OneWriter

LEMMA UpsertUpright ==
  ASSUME UprightInv, OneWriter, Anonymous = {}, NEW w \in Writers, UpsertRow(w)
  PROVE  UprightInv'
<1> DEFINE c == call[w]
           m == c.match
           p == m.id
           i == c.bound
           reversed == IsReverseOriented(m, c.names)
           score == HomeAwayView(m.score, reversed)
           view == HomeAwayView(m.extra, reversed)
           names == WrittenNames(c)
           extra == PreservingRicher(c.payload.extra, view)
<1>0. PlaceInv /\ TypeInv /\ TypeOK /\ c.phase = "upsert" /\ UNCHANGED <<turn, lineups>>
  BY DEF UprightInv, PlaceInv, TypeInv, UpsertRow
<1>1. c \in Calls /\ m \in Snapshots /\ p \in Pids /\ i \in Ids /\ i \in Homes(p)
  BY <1>0, CallFacts DEF Bindings, PlaceInv, CallPlaced
<1>2. /\ i = Stub[p] => c.names = turn[p]
      /\ i # Stub[p] => \/ c.names = rows[i].names
                        \/ i = p /\ c.names = Null /\ rows[i].names = turn[p]
      /\ c.payload = StoredPayload(i)
  BY <1>0 DEF UprightInv, CallUpright
<1>3. i # Stub[p] => i \in Canonical(p) /\ Exists(i)
  BY <1>0, <1>1 DEF PlaceInv, CallPlaced, Bindings, Settled, Homes
<1>4. Exists(i) => /\ LegalNames(i, rows[i].names) /\ Fit(i, rows[i].names, rows[i].score)
                   /\ Fit(i, rows[i].names, rows[i].extra) /\ Fit(i, rows[i].names, lineups[i])
  BY <1>1 DEF UprightInv, Upright
<1>5. c.names \in {Null, "plain", turn[p]} /\ (c.names = Null => i = p) /\ turn[p] \in Sides
  <2>1. turn[p] \in Sides
    BY <1>0, <1>1 DEF TypeOK
  <2>2. CASE i = Stub[p]
    BY <1>2, <2>1, <2>2, OrientedFacts
  <2>3. CASE i # Stub[p]
    <3>1. rows[i].names \in {Null, "plain", turn[p]} /\ (rows[i].names = Null => i = p)
      BY <1>0, <1>1, <1>3, <1>4, <2>3, HomeNames
    <3> QED BY <1>2, <2>1, <2>3, <3>1
  <2> QED BY <2>1, <2>2, <2>3
<1>6. /\ Fit(i, c.names, score) /\ (c.names = Null => score = m.score)
      /\ Fit(i, c.names, view) /\ (c.names = Null => view = m.extra)
      /\ (view = Null => m.extra = Null)
  <2>1. m.score \in {Null, turn[p]} /\ m.extra \in {Null, turn[p]}
    BY <1>0, <1>1, SnapshotType
  <2> QED BY <1>0, <1>1, <1>5, <2>1, ViewFits
<1>7. /\ rows'[i] = [names |-> names, score |-> score, extra |-> extra]
      /\ \A j \in Ids : j # i => rows'[j] = rows[j]
  BY <1>0, UpsertRows
<1>8. \/ c.names # Null /\ names = c.names /\ (Exists(i) => rows[i].names = names)
      \/ /\ c.names = Null /\ i = p /\ Exists(i)
         /\ rows[i].names \in {Null, turn[p]}
         /\ names = turn[p] \/ names = rows[i].names
  <2>1. CASE c.names # Null
    <3>1. names = c.names
      BY <2>1 DEF WrittenNames
    <3>2. ASSUME Exists(i) PROVE rows[i].names = c.names
      BY <1>1, <1>2, <1>4, <2>1, <3>2 DEF LegalNames
    <3> QED BY <2>1, <3>1, <3>2
  <2>2. CASE c.names = Null
    <3>1. i = p /\ i # Stub[p] /\ Exists(i)
      BY <1>1, <1>3, <1>5, <2>2, HomesFacts, CanonicalFacts
    <3>2. rows[i].names \in {Null, turn[p]}
      BY <1>2, <2>2, <3>1
    <3>3. names = turn[p] \/ names = rows[i].names
      BY <1>2, <2>2, <3>1 DEF WrittenNames, StoredPayload
    <3> QED BY <2>2, <3>1, <3>2, <3>3
  <2> QED BY <2>1, <2>2
<1>9. call'[w].phase = "append" /\ call'[w].match = m /\ call'[w].bound = i
  BY <1>0, <1>1, ContinueCall DEF UpsertRow, TypeOK, Phases
<1>10. c.payload.extra = IF Exists(i) THEN rows[i].extra ELSE Null
  BY <1>2 DEF StoredPayload
<1>11. ~ Exists(i) => lineups[i] = Null
  BY <1>1 DEF UprightInv, PlaceInv, PlaceData, ChildrenSeeded
<1> HIDE DEF c, i, p, m, reversed, score, view, names, extra
<1>12. rows'[i].names = names /\ rows'[i].score = score /\ rows'[i].extra = extra
  BY <1>7
<1>13. \A v : Fit(i, c.names, v) => Fit(i, names, v)
  BY <1>1, <1>5, <1>8 DEF Fit
<1>14. ASSUME Exists(i), NEW v, Fit(i, rows[i].names, v) PROVE Fit(i, names, v)
  BY <1>1, <1>8, <1>14 DEF Fit
<1>15. LegalNames(i, names)
  <2>1. i = Stub[p] => names = turn[p]
    BY <1>1, <1>2, <1>5, <1>8, HomesFacts, OrientedFacts, CanonicalFacts
  <2>2. \A q \in Pids : i = Stub[q] => q = p
    BY <1>1, HomesFacts
  <2>3. CASE c.names = Null
    BY <1>1, <1>5, <1>8, <2>1, <2>2, <2>3, ReconcileAssumption DEF LegalNames
  <2>4. CASE c.names # Null
    <3>1. i # Stub[p] => LegalNames(i, names)
      BY <1>3, <1>4, <1>8, <2>4
    <3> QED BY <1>1, <2>1, <2>2, <3>1, HomesFacts, IdFacts DEF LegalNames, CanonicalIds
  <2> QED BY <2>3, <2>4
<1>16. Fit(i, names, score) /\ Fit(i, names, extra) /\ Fit(i, names, lineups[i])
  <2>1. Fit(i, names, view) /\ Fit(i, names, score)
    BY <1>6, <1>13
  <2>2. Fit(i, names, c.payload.extra) /\ Fit(i, names, lineups[i])
    BY <1>4, <1>10, <1>11, <1>14 DEF Fit
  <2> QED BY <2>1, <2>2 DEF extra, PreservingRicher
<1>17. Upright'
  <2> SUFFICES ASSUME NEW j \in Ids, rows'[j] # Null
               PROVE  /\ LegalNames(j, rows'[j].names)
                      /\ Fit(j, rows'[j].names, rows'[j].score)
                      /\ Fit(j, rows'[j].names, rows'[j].extra)
                      /\ Fit(j, rows'[j].names, lineups[j])
    BY <1>0 DEF Upright, LegalNames, Fit, Exists
  <2>1. CASE j = i
    BY <1>12, <1>15, <1>16, <2>1
  <2>2. CASE j # i
    BY <1>7, <2>2 DEF UprightInv, Upright, Exists
  <2> QED BY <2>1, <2>2
<1>18. CallUpright(call[w])'
  <2>1. extra = Null => m.extra = Null
    BY <1>6 DEF extra, PreservingRicher
  <2> QED BY <1>9, <1>12, <2>1 DEF CallUpright
<1>19. PlaceInv'
  BY <1>0, UpsertPlaced
<1> QED BY <1>17, <1>18, <1>19 DEF UprightInv, OneWriter

LEMMA AppendUpright ==
  ASSUME UprightInv, OneWriter, NEW w \in Writers, AppendEvents(w)
  PROVE  UprightInv'
<1>0. PlaceInv /\ TypeInv /\ UNCHANGED <<turn, rows, lineups>> /\ call[w].phase = "append"
  BY DEF UprightInv, PlaceInv, AppendEvents
<1>1. call[w] \in Calls /\ call \in [Writers -> Calls]
  BY <1>0 DEF TypeInv, TypeOK
<1>2. call'[w].phase = "persist" /\ call'[w].match = call[w].match /\ call'[w].bound = call[w].bound
  BY <1>1, ContinueCall DEF AppendEvents, Phases
<1>3. CallUpright(call[w])'
  BY <1>0, <1>2 DEF CallUpright, UprightInv
<1> QED BY <1>0, <1>3, AppendPlaced, UprightStep

LEMMA PersistUpright ==
  ASSUME UprightInv, OneWriter, NEW w \in Writers, PersistSideTables(w)
  PROVE  UprightInv'
<1> DEFINE c == call[w]
           i == c.bound
           section == PreservingRicher(c.match.extra, StoredPayload(i).extra)
<1>0. PlaceInv /\ TypeInv /\ TypeOK /\ UNCHANGED <<turn, rows>> /\ c.phase = "persist"
  BY DEF UprightInv, PlaceInv, TypeInv, PersistSideTables
<1>1. i \in Ids /\ Exists(i)
  BY <1>0, CallFacts DEF Bindings, PlaceInv, CallPlaced
<1>2. section = rows[i].extra
  <2>1. StoredPayload(i).extra = rows[i].extra
    BY <1>1 DEF StoredPayload
  <2>2. rows[i].extra = Null => c.match.extra = Null
    BY <1>0 DEF UprightInv, CallUpright
  <2> QED BY <2>1, <2>2 DEF PreservingRicher
<1>3. lineups' = [lineups EXCEPT ![i] = PreservingRicher(@, section)]
  BY DEF PersistSideTables
<1>4. call'[w] = Idle
  BY <1>0 DEF PersistSideTables, TypeOK
<1> HIDE DEF section, c, i
<1>5. lineups'[i] \in {lineups[i], rows[i].extra} /\ \A j \in Ids : j # i => lineups'[j] = lineups[j]
  BY <1>0, <1>1, <1>2, <1>3 DEF TypeOK, PreservingRicher
<1>6. ASSUME NEW j \in Ids, Exists(j)
      PROVE  /\ LegalNames(j, rows[j].names) /\ Fit(j, rows[j].names, rows[j].score)
             /\ Fit(j, rows[j].names, rows[j].extra) /\ Fit(j, rows[j].names, lineups'[j])
  BY <1>5, <1>6 DEF UprightInv, Upright
<1>7. Upright'
  BY <1>0, <1>6 DEF Upright, LegalNames, Fit, Exists
<1>8. CallUpright(call[w])'
  BY <1>4, IdleCall DEF CallUpright
<1> QED BY <1>0, <1>7, <1>8, PersistPlaced DEF UprightInv, OneWriter

LEMMA LoadUpright ==
  ASSUME UprightInv, NEW i \in CanonicalIds, LoadSchedule(i)
  PROVE  UprightInv'
<1>0. PlaceInv /\ TypeInv /\ UNCHANGED <<turn, lineups, call>>
  BY DEF UprightInv, PlaceInv, LoadSchedule
<1>1. /\ rows'[i].names = "plain" \/ (rows'[i].names = Null /\ i \in Pids)
      /\ rows'[i].score = Null /\ rows'[i].extra = Null
      /\ \A j \in Ids : j # i => rows'[j] = rows[j]
  BY <1>0, LoadedRow
<1>2. i \in Ids /\ (Exists(i) => i \in Slugs)
      /\ \A p \in Pids : i \in Canonical(p) => ~ Exists(i)
  BY IdFacts, CanonicalFacts DEF LoadSchedule, CanonicalIds
<1>3. lineups[i] \in {Null, "plain"}
  <2>1. CASE Exists(i)
    BY <1>2, <2>1, OrientedFacts DEF UprightInv, Upright, LegalNames, Fit
  <2>2. CASE ~ Exists(i)
    BY <1>2, <2>2 DEF UprightInv, PlaceInv, PlaceData, ChildrenSeeded
  <2> QED BY <2>1, <2>2
<1>4. rows'[i].names = Null => lineups[i] = Null
  <2> SUFFICES ASSUME i \in Pids PROVE lineups[i] = Null
    BY <1>1, OrientedFacts, ReconcileAssumption
  <2>1. ~ Exists(i)
    BY <1>2, CanonicalFacts
  <2> QED BY <1>2, <2>1 DEF UprightInv, PlaceInv, PlaceData, ChildrenSeeded
<1>5. LegalNames(i, rows'[i].names)
  <2>1. \A p \in Pids : i # Stub[p]
    BY IdFacts
  <2> QED BY <1>1, <2>1, ReconcileAssumption DEF LegalNames
<1>6. Upright'
  <2> SUFFICES ASSUME NEW j \in Ids, rows'[j] # Null
               PROVE  /\ LegalNames(j, rows'[j].names)
                      /\ Fit(j, rows'[j].names, rows'[j].score)
                      /\ Fit(j, rows'[j].names, rows'[j].extra)
                      /\ Fit(j, rows'[j].names, lineups[j])
    BY <1>0 DEF Upright, LegalNames, Fit, Exists
  <2>1. CASE j = i
    BY <1>1, <1>3, <1>4, <1>5, <2>1 DEF Fit
  <2>2. CASE j # i
    BY <1>1, <2>2 DEF UprightInv, Upright, Exists
  <2> QED BY <2>1, <2>2
<1>7. ASSUME NEW w \in Writers PROVE CallUpright(call[w])'
  <2> DEFINE c == call[w]
             k == c.bound
             s == Stub[c.match.id]
  <2>1. CASE c.phase \in {"adopt", "map", "read", "upsert", "append", "persist"}
    <3>1. c.match.id \in Pids /\ k \in Homes(c.match.id) /\ k \in Ids
      BY <1>0, <2>1, CallFacts DEF PlaceInv, CallPlaced, Bindings
    <3>2. k = s \/ (k \in Canonical(c.match.id) /\ Exists(k))
      BY <1>0, <2>1, <3>1 DEF PlaceInv, CallPlaced, Bindings, Settled, Homes
    <3>3. s # i /\ k # i
      BY <1>2, <3>1, <3>2, IdFacts
    <3>4. rows'[k] = rows[k] /\ rows'[s] = rows[s]
      BY <1>1, <3>1, <3>3, IdFacts
    <3>5. CallUpright(c) /\ c' = c /\ k' = k /\ s' = s
      BY <1>0 DEF UprightInv
    <3> HIDE DEF c, k, s
    <3> QED BY <1>0, <3>4, <3>5
            DEF CallUpright, MergedPayload, StoredPayload, IsReverseOriented, Exists, c, k, s
  <2>2. CASE c.phase \notin {"adopt", "map", "read", "upsert", "append", "persist"}
    BY <1>0, <2>2 DEF CallUpright
  <2> QED BY <2>1, <2>2
<1> QED BY <1>0, <1>6, <1>7, LoadPlaced DEF UprightInv

LEMMA NextUpright == OneWriter /\ Anonymous = {} => (UprightInv /\ [Next]_vars => UprightInv')
<1> SUFFICES ASSUME OneWriter, Anonymous = {}, UprightInv, [Next]_vars PROVE UprightInv'
  OBVIOUS
<1>0. PlaceInv'
  BY NextPlaced DEF UprightInv
<1>1. ASSUME NEW w \in Writers, Step(w) PROVE UprightInv'
  BY <1>1, EasyUpright, SearchUpright, InspectUpright, AdoptUpright, MapReadUpright, UpsertUpright,
     AppendUpright, PersistUpright DEF Step
<1>2. ASSUME NEW w \in Writers, Fail(w) \/ \E p \in Pids : Start(w, p) PROVE UprightInv'
  BY <1>2, EasyUpright
<1>3. ASSUME NEW i \in Slugs \cup Pids, LoadSchedule(i) PROVE UprightInv'
  BY <1>3, LoadUpright DEF CanonicalIds
<1>4. ASSUME UNCHANGED <<turn, rows, lineups, call>> PROVE UprightInv'
  BY <1>0, <1>4, UprightKept
     DEF UprightInv, CallUpright, MergedPayload, StoredPayload, IsReverseOriented, Exists
<1>5. ASSUME NEW i \in Slugs \cup Pids, ImportEvents(i) \/ ClearImported(i) PROVE UprightInv'
  BY <1>4, <1>5 DEF ImportEvents, ClearImported
<1>6. CASE UNCHANGED vars
  BY <1>4, <1>6 DEF vars
<1> QED BY <1>1, <1>2, <1>3, <1>5, <1>6 DEF Next

\* With one process of the source, and team names in every snapshot of a match
\* the provider has the other way round, the score, the payload and the lineups
\* of a row all have their home side where the row's team names have it.
THEOREM OrientationKeptAlways ==
    OneWriter /\ Anonymous = {} => (Spec => []OrientationKept)
<1> SUFFICES ASSUME OneWriter, Anonymous = {} PROVE Spec => []OrientationKept
  OBVIOUS
<1>1. UprightInv /\ [Next]_vars => UprightInv'
  BY NextUpright
<1>2. UprightInv => OrientationKept
  BY DEF UprightInv, Upright, Fit, OrientationKept
<1> QED BY <1>1, <1>2, InitUpright, PTL DEF Spec

-----------------------------------------------------------------------------
(* ReconcileLive is Reconcile with the hook called for changed matches.    *)

\* The hook is called less often than Reconcile allows, and does nothing else: what
\* holds of Reconcile holds of an engine that passes unchanged matches by.
THEOREM LiveRefinesReconcile == LiveSpec => Spec
<1>1. LiveInit => Init
  BY DEF LiveInit
<1>2. [LiveNext]_liveVars => [Next]_vars
  <2>1. ASSUME NEW w \in Writers, Work(w) \/ Break(w) \/ \E p \in Pids : Take(w, p)
        PROVE  Next
    BY <2>1 DEF Work, Break, Take, Next
  <2>2. ASSUME Outside
        PROVE  Next
    BY <2>2 DEF Outside, Next
  <2>3. ASSUME (\E p \in Pids : ShowsMore(p)) \/ UNCHANGED liveVars
        PROVE  UNCHANGED vars
    BY <2>3 DEF ShowsMore, liveVars
  <2> QED BY <2>1, <2>2, <2>3 DEF LiveNext
<1> QED BY <1>1, <1>2, PTL DEF LiveSpec, Spec

=============================================================================
