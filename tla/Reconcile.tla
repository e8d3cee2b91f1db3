------------------------------ MODULE Reconcile ------------------------------
(***************************************************************************)
(* Which row a provider's match is written under: the football pack's      *)
(* seed hook, src/gamecollect_football/reconcile.py, and the child writes  *)
(* the engine makes under the id the hook returns.                         *)
(*                                                                         *)
(* A schedule loader seeds canonical rows.  A match that is polled before  *)
(* its row is there is collected on a stub, a row under                    *)
(* "<source>:<provider id>", and the stub is adopted by the canonical row  *)
(* once that appears.  A call is a chain of SELECTs and transactions;      *)
(* between any two of them the loader or another process may commit, and   *)
(* the call may fail or its process crash.                                 *)
(*                                                                         *)
(* Abstracted data: everything with a home and an away side (team names,   *)
(* score, the payload sections) is represented by its orientation, that    *)
(* is whether its home side is the schedule's home side or not.  A         *)
(* payload is its team names and one section, such as the lineups; a       *)
(* section that is absent or empty is Null.  All rows belong to one        *)
(* source; PartitionWriter has the ownership checks.                       *)
(***************************************************************************)
EXTENDS Integers, Sequences, FiniteSetsExt

CONSTANTS
    Writers,      \* processes writing this source: the daemon, a backfill
    Pids,         \* provider-native match ids
    Slugs,        \* canonical ids of the schedule
    Stub,         \* Stub[p]: the source-qualified id of p
    Fits,         \* Fits[p]: the slugs of p's teams, nearest kick-off first
    Anonymous,    \* turned matches whose snapshots may lack the team names
    MaxEvents,    \* bound: length of a provider's event list
    MaxFails,     \* bound: failed calls and crashes
    Null          \* no row, no value

Sides == {"plain", "turned"}

Oriented == Sides \cup {Null}

Row == [names : Oriented, score : Oriented, extra : Oriented]

ASSUME ReconcileAssumption ==
    /\ Fits \in [Pids -> Seq(Slugs)]
    /\ Anonymous \subseteq Pids
    /\ Slugs \cap Pids = {}
    /\ MaxEvents \in Nat \ {0} /\ MaxFails \in Nat
    /\ \A p, q \in Pids : Stub[p] = Stub[q] => p = q
    /\ \A p \in Pids : Stub[p] \notin Slugs \cup Pids \cup {Null}
    /\ Null \notin Slugs \cup Pids \cup Sides \cup Row

VARIABLES
    turn,         \* turn[p]: the provider's orientation of p, always the same
    rows,         \* rows[i]: the matches row
    matchMap,     \* matchMap[p]: the provider_match_map entry
    log,          \* log[i]: the events rows, as pairs of origin and seq
    lineups,      \* lineups[i]: the football side-table rows
    call,         \* call[w]: the call in progress
    acked,        \* acked[w][p]: the events in the engine's baseline
    fails         \* failed calls and crashes so far

vars == <<turn, rows, matchMap, log, lineups, call, acked, fails>>

-----------------------------------------------------------------------------
(* Types.                                                                  *)

Ids == Slugs \cup Pids \cup {Stub[p] : p \in Pids}

Payload == [names : Oriented, extra : Oriented]

Seqs == 1 .. MaxEvents

EventRow == (Pids \cup {Null}) \X Seqs

\* A snapshot of the engine: a match with what it knows of it.
Snapshots == {m \in [id : Pids, named : BOOLEAN, score : Oriented,
                     extra : Oriented, last : 0 .. MaxEvents] :
                 /\ m.named \/ turn[m.id] = "plain" \/ m.id \in Anonymous
                 /\ {m.score, m.extra} \subseteq {Null, turn[m.id]}}

Phases == {"idle", "lookup", "purge", "search", "inspect", "adopt", "unmap",
           "map", "read", "upsert", "append", "persist"}

Calls == [phase : Phases, match : Snapshots \cup {Null},
          bound : Ids \cup {Null}, pending : BOOLEAN,
          names : Oriented, payload : Payload \cup {Null}]

Idle == [phase |-> "idle", match |-> Null, bound |-> Null, pending |-> FALSE,
         names |-> Null, payload |-> Null]

TypeOK ==
    /\ turn \in [Pids -> Sides]
    /\ rows \in [Ids -> Row \cup {Null}]
    /\ matchMap \in [Pids -> Ids \cup {Null}]
    /\ log \in [Ids -> SUBSET EventRow]
    /\ lineups \in [Ids -> Oriented]
    /\ call \in [Writers -> Calls]
    /\ acked \in [Writers -> [Pids -> SUBSET Seqs]]
    /\ fails \in 0 .. MaxFails

-----------------------------------------------------------------------------
(* Operators of reconcile.py.                                              *)

Exists(i) == rows[i] # Null

\* The ids the schedule may list p under.
Canonical(p) == {p} \cup {Fits[p][k] : k \in DOMAIN Fits[p]}

Flip(v) == CASE v = "plain" -> "turned" [] v = "turned" -> "plain" [] OTHER -> v

HomeAwayView(v, reversed) == IF reversed THEN Flip(v) ELSE v

\* is_reverse_oriented: unknown names on either side mean "not reversed".
IsReverseOriented(m, names) ==
    m.named /\ names # Null /\ names # turn[m.id]

\* Mutant: the merge is a plain update.
PreservingNothing(stored, incoming) == incoming

\* An incoming value wins unless it is empty.
PreservingRicher(stored, incoming) ==
    IF incoming = Null THEN stored ELSE incoming

\* Step (c): the places, nearest first, of the loaded rows of p's teams.
Candidates(m) ==
    {k \in DOMAIN Fits[m.id] :
        m.named /\ Exists(Fits[m.id][k]) /\ rows[Fits[m.id][k]].names # Null}

StoredPayload(i) ==
    IF Exists(i) THEN [names |-> rows[i].names, extra |-> rows[i].extra]
                 ELSE [names |-> Null, extra |-> Null]

HeadSeq(i) == Max({e[2] : e \in log[i]} \cup {0})

-----------------------------------------------------------------------------
(* The seed hook, step by step.                                            *)

Continue(w, phase, fields) == call' = [call EXCEPT ![w] = [fields EXCEPT !.phase = phase]]

Bind(w, i, pending) ==
    Continue(w, "inspect", [call[w] EXCEPT !.bound = i, !.pending = pending])

\* register_unreconciled_match: a stub needs the team names.
Register(w) ==
    LET m == call[w].match IN
    IF m.named
    THEN Continue(w, "read", [call[w] EXCEPT !.bound = Stub[m.id],
                                             !.names = turn[m.id]])
    ELSE call' = [call EXCEPT ![w] = Idle]

Start(w, p) ==
    /\ call[w].phase = "idle"
    /\ \E m \in Snapshots :
          /\ m.id = p
          /\ Continue(w, "lookup", [Idle EXCEPT !.match = m])
    /\ UNCHANGED <<turn, rows, matchMap, log, lineups, acked, fails>>

\* Mutant: an entry that names the stub is a hit like any other.
LookupStub(w) ==
    LET p == call[w].match.id IN
    /\ call[w].phase = "lookup"
    /\ \/ matchMap[p] = Null /\ Continue(w, "search", call[w])
       \/ matchMap[p] # Null /\ Bind(w, matchMap[p], FALSE)
    /\ UNCHANGED <<turn, rows, matchMap, log, lineups, acked, fails>>

\* Step (a); an entry that names the stub is a left-over to be purged.
Lookup(w) ==
    LET p == call[w].match.id IN
    /\ call[w].phase = "lookup"
    /\ \/ matchMap[p] = Null /\ Continue(w, "search", call[w])
       \/ matchMap[p] = Stub[p] /\ Continue(w, "purge", call[w])
       \/ matchMap[p] \notin {Null, Stub[p]} /\ Bind(w, matchMap[p], FALSE)
    /\ UNCHANGED <<turn, rows, matchMap, log, lineups, acked, fails>>

Purge(w) ==
    /\ call[w].phase = "purge"
    /\ matchMap' = [matchMap EXCEPT ![call[w].match.id] = Null]
    /\ Continue(w, "search", call[w])
    /\ UNCHANGED <<turn, rows, log, lineups, acked, fails>>

\* Steps (b), (c) and (d); nothing found means a new stub.
Search(w) ==
    LET m == call[w].match
        own == Exists(m.id)
        near == Candidates(m)
        stub == Exists(Stub[m.id])
    IN
    /\ call[w].phase = "search"
    /\ \/ own /\ Bind(w, m.id, TRUE)
       \/ ~ own /\ \E k \in near : (\A j \in near : k <= j) /\ Bind(w, Fits[m.id][k], TRUE)
       \/ ~ own /\ near = {} /\ stub /\ Bind(w, Stub[m.id], FALSE)
       \/ ~ own /\ near = {} /\ ~ stub /\ Register(w)
    /\ UNCHANGED <<turn, rows, matchMap, log, lineups, acked, fails>>

\* Mutant: a turned stub's payload is merged as it is.
MergedPayloadAsIs(m, i, reversed) ==
    LET stub == StoredPayload(Stub[m.id])
        own  == StoredPayload(i)
    IN [names |-> PreservingRicher(stub.names, own.names),
        extra |-> PreservingRicher(stub.extra, own.extra)]

\* What an adoption would write: the stub's payload under the canonical one.
MergedPayload(m, i, reversed) ==
    LET stub == StoredPayload(Stub[m.id])
        own  == StoredPayload(i)
    IN [names |-> PreservingRicher(stub.names, own.names),
        extra |-> PreservingRicher(HomeAwayView(stub.extra, reversed), own.extra)]

AfterAdoption(w) == IF call[w].pending THEN "map" ELSE "read"

\* Mutant: no stub is looked for once a canonical row is bound.
InspectNoStub(w) ==
    /\ call[w].phase = "inspect"
    /\ Continue(w, AfterAdoption(w), [call[w] EXCEPT
                    !.names = StoredPayload(call[w].bound).names])
    /\ UNCHANGED <<turn, rows, matchMap, log, lineups, acked, fails>>

\* The reads that decide on the adoption of the stub.
Inspect(w) ==
    LET m == call[w].match
        i == call[w].bound
        names == StoredPayload(i).names
        seen == [call[w] EXCEPT !.names = names]
        stubLeft == i # Stub[m.id] /\ Exists(Stub[m.id])
        conflict == log[Stub[m.id]] # {} /\ log[i] # {}
    IN
    /\ call[w].phase = "inspect"
    /\ \/ ~ stubLeft /\ Continue(w, AfterAdoption(w), seen)
       \/ stubLeft /\ conflict /\ Continue(w, "unmap", seen)
       \/ stubLeft /\ ~ conflict
            /\ Continue(w, "adopt", [seen EXCEPT !.payload =
                  MergedPayload(m, i, IsReverseOriented(m, names))])
    /\ UNCHANGED <<turn, rows, matchMap, log, lineups, acked, fails>>

\* Mutant: one side table is missing in the list of tables to migrate.
AdoptForgetting(w) ==
    LET s == Stub[call[w].match.id]
        i == call[w].bound
    IN
    /\ call[w].phase = "adopt"
    /\ log' = [log EXCEPT ![i] = @ \cup log[s], ![s] = {}]
    /\ matchMap' = [p \in Pids |-> IF matchMap[p] = s THEN i ELSE matchMap[p]]
    /\ rows' = [rows EXCEPT ![i].names = call[w].payload.names,
                            ![i].extra = call[w].payload.extra,
                            ![s] = Null]
    /\ Continue(w, AfterAdoption(w), call[w])
    /\ UNCHANGED <<turn, lineups, acked, fails>>

\* _adopt_stub_rows: one transaction.  Two timelines with a common seq violate
\* the key of events; the transaction then rolls back and the call fails.
Adopt(w) ==
    LET m == call[w].match
        s == Stub[m.id]
        i == call[w].bound
        reversed == IsReverseOriented(m, call[w].names)
        moved == HomeAwayView(lineups[s], reversed)
    IN
    /\ call[w].phase = "adopt"
    /\ \A e \in log[s], f \in log[i] : e[2] # f[2]
    /\ log' = [log EXCEPT ![i] = @ \cup log[s], ![s] = {}]
    /\ matchMap' = [p \in Pids |-> IF matchMap[p] = s THEN i ELSE matchMap[p]]
    /\ lineups' = [lineups EXCEPT ![i] = PreservingRicher(@, moved), ![s] = Null]
    /\ rows' = [rows EXCEPT ![i].names = call[w].payload.names,
                            ![i].extra = call[w].payload.extra,
                            ![s] = Null]
    /\ Continue(w, AfterAdoption(w), call[w])
    /\ UNCHANGED <<turn, acked, fails>>

\* Both rows carry events: no entry may stay in the map, the stub goes on.
Unmap(w) ==
    /\ call[w].phase = "unmap"
    /\ matchMap' = [matchMap EXCEPT ![call[w].match.id] = Null]
    /\ Register(w)
    /\ UNCHANGED <<turn, rows, log, lineups, acked, fails>>

\* The mapping a hit of (b) or (c) deferred.
MapTarget(w) ==
    /\ call[w].phase = "map"
    /\ Exists(call[w].bound)
    /\ matchMap' = [matchMap EXCEPT ![call[w].match.id] = call[w].bound]
    /\ Continue(w, "read", call[w])
    /\ UNCHANGED <<turn, rows, log, lineups, acked, fails>>

ReadPayload(w) ==
    /\ call[w].phase = "read"
    /\ Continue(w, "upsert", [call[w] EXCEPT !.payload = StoredPayload(call[w].bound)])
    /\ UNCHANGED <<turn, rows, matchMap, log, lineups, acked, fails>>

\* The names of the schedule stay; a row without names gets the provider's.
WrittenNames(c) ==
    IF c.names # Null THEN c.names
    ELSE IF c.match.named THEN turn[c.match.id] ELSE c.payload.names

UpsertRow(w) ==
    LET c == call[w]
        reversed == IsReverseOriented(c.match, c.names)
    IN
    /\ c.phase = "upsert"
    /\ rows' = [rows EXCEPT ![c.bound] =
          [names |-> WrittenNames(c),
           score |-> HomeAwayView(c.match.score, reversed),
           extra |-> PreservingRicher(c.payload.extra,
                                      HomeAwayView(c.match.extra, reversed))]]
    /\ Continue(w, "append", c)
    /\ UNCHANGED <<turn, matchMap, log, lineups, acked, fails>>

-----------------------------------------------------------------------------
(* The child writes under the id the hook returned, and the world outside. *)

\* The events that are not in the baseline and lie beyond the stored head;
\* the others are stored already, or drift that the engine leaves alone.
AppendEvents(w) ==
    LET m == call[w].match
        i == call[w].bound
    IN
    /\ call[w].phase = "append"
    /\ Exists(i)
    /\ log' = [log EXCEPT ![i] = @ \cup
          {<<m.id, q>> : q \in {q \in 1 .. m.last \ acked[w][m.id] : q > HeadSeq(i)}}]
    /\ Continue(w, "persist", call[w])
    /\ UNCHANGED <<turn, rows, matchMap, lineups, acked, fails>>

\* Mutant: the baseline is the snapshot, whatever was refused.
BaselineWhole(w) == 1 .. call[w].match.last

\* The baseline the engine keeps: the snapshot, or, when some of its new events
\* were refused, what is stored of it.
Baseline(w) ==
    LET m == call[w].match
        sent == 1 .. m.last
        stored == {q \in sent : <<m.id, q>> \in log[call[w].bound]}
    IN IF sent \subseteq stored \cup acked[w][m.id] THEN sent ELSE stored

\* persist_football_side_tables: the stored section goes before the snapshot's.
PersistSideTables(w) ==
    LET c == call[w]
        section == PreservingRicher(c.match.extra, StoredPayload(c.bound).extra)
    IN
    /\ c.phase = "persist"
    /\ lineups' = [lineups EXCEPT ![c.bound] = PreservingRicher(@, section)]
    /\ acked' = [acked EXCEPT ![w][c.match.id] = Baseline(w)]
    /\ call' = [call EXCEPT ![w] = Idle]
    /\ UNCHANGED <<turn, rows, matchMap, log, fails>>

\* The call raises and the engine goes on, or the process is restarted.
Fail(w) ==
    /\ call[w].phase # "idle"
    /\ fails < MaxFails
    /\ fails' = fails + 1
    /\ call' = [call EXCEPT ![w] = Idle]
    /\ acked' \in {acked, [acked EXCEPT ![w] = [p \in Pids |-> {}]]}
    /\ UNCHANGED <<turn, rows, matchMap, log, lineups>>

\* The schedule lists a match once; a bare id may come without team names.
LoadSchedule(i) ==
    /\ \A p \in Pids : i \in Canonical(p) => \A j \in Canonical(p) : ~ Exists(j)
    /\ \E names \in {"plain"} \cup (IF i \in Pids THEN {Null} ELSE {}) :
          rows' = [rows EXCEPT ![i] = [names |-> names, score |-> Null, extra |-> Null]]
    /\ UNCHANGED <<turn, matchMap, log, lineups, call, acked, fails>>

NoCall == \A w \in Writers : call[w].phase = "idle"

\* An import gives the canonical row events of its own, an operator takes
\* them away; neither is done while the collector is at work on the row.
ImportEvents(i) ==
    /\ NoCall /\ Exists(i) /\ log[i] = {}
    /\ log' = [log EXCEPT ![i] = {<<Null, 1>>}]
    /\ UNCHANGED <<turn, rows, matchMap, lineups, call, acked, fails>>

ClearImported(i) ==
    /\ NoCall /\ \E e \in log[i] : e[1] = Null
    /\ log' = [log EXCEPT ![i] = {e \in @ : e[1] # Null}]
    /\ UNCHANGED <<turn, rows, matchMap, lineups, call, acked, fails>>

\* A database of an earlier revision may map a match to its stub.
Init ==
    \E old \in SUBSET Pids :
        /\ turn \in [Pids -> Sides]
        /\ rows = [i \in Ids |-> IF \E p \in old : i = Stub[p]
                      THEN [names |-> turn[CHOOSE p \in old : i = Stub[p]],
                            score |-> Null, extra |-> Null]
                      ELSE Null]
        /\ matchMap = [p \in Pids |-> IF p \in old THEN Stub[p] ELSE Null]
        /\ log = [i \in Ids |-> {}]
        /\ lineups = [i \in Ids |-> Null]
        /\ call = [w \in Writers |-> Idle]
        /\ acked = [w \in Writers |-> [p \in Pids |-> {}]]
        /\ fails = 0

\* The steps of a call after its start.
Step(w) ==
    \/ Lookup(w) \/ Purge(w) \/ Search(w) \/ Inspect(w) \/ Adopt(w)
    \/ Unmap(w) \/ MapTarget(w) \/ ReadPayload(w) \/ UpsertRow(w)
    \/ AppendEvents(w) \/ PersistSideTables(w)

Next ==
    \/ \E w \in Writers : Step(w) \/ Fail(w) \/ \E p \in Pids : Start(w, p)
    \/ \E i \in Slugs \cup Pids :
          LoadSchedule(i) \/ ImportEvents(i) \/ ClearImported(i)

Spec == Init /\ [][Next]_vars

-----------------------------------------------------------------------------
(* Properties.                                                             *)

Collected(p) == {i \in Ids : \E e \in log[i] : e[1] = p}

\* A match has one timeline: its events are under one id, whenever the
\* schedule row appears and whatever fails on the way to the adoption.
OneTimeline == \A p \in Pids : Cardinality(Collected(p)) <= 1

\* The events the engine will not send again are all in that timeline: no
\* adoption, refusal or re-registration leaves them behind.
AckedKept ==
    \A w \in Writers, p \in Pids :
        acked[w][p] # {} =>
            \E i \in Ids : \A q \in acked[w][p] : <<p, q>> \in log[i]

\* Events, side-table rows and map entries hang on a row that exists: the
\* adoption that deletes the stub takes all its children along.
ChildrenSeeded ==
    /\ \A i \in Ids : log[i] # {} \/ lineups[i] # Null => Exists(i)
    /\ \A p \in Pids : matchMap[p] # Null => Exists(matchMap[p])

\* Everything two-sided in a row, and its lineups, has its home side where
\* the row's team names have it, also when the provider has the teams the
\* other way round and an adoption brings a stub's data along.
OrientationKept ==
    \A i \in Ids :
        Exists(i) /\ rows[i].names # Null =>
            {rows[i].score, rows[i].extra, lineups[i]} \subseteq {Null, rows[i].names}

Known(p) == \E i \in Canonical(p) \cup {Stub[p]} : Exists(i) /\ rows[i].extra # Null

\* What a detail once added to a match's payload no later poll and no adoption
\* loses, however sparse the snapshot it comes with.
RicherKept == [][\A p \in Pids : Known(p) => Known(p)']_vars
=============================================================================
