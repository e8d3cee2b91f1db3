--------------------------- MODULE CollectorProofs ---------------------------
(***************************************************************************)
(* The file and the daemon around its polls, for any number of processes,  *)
(* any libraries of the major version, any parts, matches, providers and   *)
(* recordings.                                                             *)
(*                                                                         *)
(* Opening the file, as long as no version adds a column to a table: the   *)
(* stamp is honest, a table has all its columns, and every process in the  *)
(* middle of opening has in the file, or still before it, the tables and   *)
(* indexes it will rely on.  Parts are only ever added, so what one        *)
(* process relies on, no other takes away, whatever stamp it overwrites.   *)
(*                                                                         *)
(* The daemon: each of its steps opens or closes the file as Schema allows *)
(* or leaves it alone, so it implements Schema.  While it polls, the       *)
(* recording is what was observed; a flush moves all of it to the fixtures *)
(* or none of it out of the memory.  A replay's snapshot is the prefix     *)
(* that was revealed.                                                      *)
(***************************************************************************)
EXTENDS Collector, FiniteSetTheorems, TLAPS

ConnType == [pc : {"closed", "refused", "script", "migrate", "pack", "open"}, todo : SUBSET Parts]

-----------------------------------------------------------------------------
(* Types.                                                                  *)

LEMMA PartFacts ==
  /\ Columns \subseteq CoreParts
  /\ \A c \in Columns : /\ TableOf[c] \in CoreParts \ Columns
                        /\ Since[TableOf[c]] \in Nat /\ Since[c] \in Nat
                        /\ Since[TableOf[c]] <= Since[c]
  /\ \A p \in Parts, n \in Nat : Brings(p, n) \subseteq Parts
  /\ \A n \in Nat : Script(n) \subseteq Parts
  /\ \A o \in Openers : Missing(o) \subseteq Parts
<1> USE SchemaAssumption DEF Columns, Parts
<1>1. Columns \subseteq CoreParts
  OBVIOUS
<1>2. \A c \in Columns : /\ TableOf[c] \in CoreParts \ Columns
                         /\ Since[TableOf[c]] \in Nat /\ Since[c] \in Nat
                         /\ Since[TableOf[c]] <= Since[c]
  OBVIOUS
<1>3. \A p \in Parts, n \in Nat : Brings(p, n) \subseteq Parts
  BY <1>1 DEF Brings
<1>4. /\ \A n \in Nat : Script(n) \subseteq Parts
      /\ \A o \in Openers : Missing(o) \subseteq Parts
  BY DEF Script, Missing
<1> QED BY <1>1, <1>2, <1>3, <1>4

LEMMA SchemaInitType == SchemaInit => SchemaTypeOK
<1> SUFFICES ASSUME SchemaInit PROVE SchemaTypeOK
  OBVIOUS
<1> USE SchemaAssumption DEF SchemaMajor
<1>1. conn \in [Openers -> ConnType]
  BY DEF SchemaInit, Closed, Conn, ConnType
<1>2. parts \subseteq Parts
  BY DEF SchemaInit, Script, Parts
<1>3. stamp = Null \/ stamp \in Nat \X Nat
  BY DEF SchemaInit
<1> QED BY <1>1, <1>2, <1>3 DEF SchemaTypeOK, ConnType

\* A statement adds parts and takes itself off the list of its process.
LEMMA MakeType ==
  ASSUME NEW o \in Openers, NEW p \in conn[o].todo, NEW n \in Nat, SchemaTypeOK, Make(o, p, n)
  PROVE  /\ SchemaTypeOK' /\ p \in Parts
         /\ parts \subseteq parts' /\ p \in parts' /\ stamp' = stamp
         /\ conn'[o].pc = conn[o].pc /\ conn'[o].todo = conn[o].todo \ {p}
         /\ \A q \in Openers \ {o} : conn'[q] = conn[q]
<1>0. conn \in [Openers -> ConnType]
  BY DEF SchemaTypeOK, ConnType
<1>1. conn[o] \in ConnType /\ p \in Parts
  BY <1>0 DEF ConnType
<1>2. conn' = [conn EXCEPT ![o] = [conn[o] EXCEPT !.todo = conn[o].todo \ {p}]] /\ stamp' = stamp
  BY <1>0 DEF Make
<1>3. [conn[o] EXCEPT !.todo = conn[o].todo \ {p}] \in ConnType
  BY <1>1 DEF ConnType
<1>4. parts' \subseteq Parts /\ parts \subseteq parts' /\ p \in parts'
  <2>1. Brings(p, n) \subseteq Parts /\ p \in Brings(p, n)
    BY <1>1, PartFacts DEF Brings
  <2> QED BY <1>1, <2>1 DEF Make, SchemaTypeOK
<1>5. SchemaTypeOK'
  BY <1>0, <1>2, <1>3, <1>4 DEF SchemaTypeOK, ConnType
<1>6. conn'[o] = [conn[o] EXCEPT !.todo = conn[o].todo \ {p}]
  BY <1>0, <1>2
<1>7. conn'[o].pc = conn[o].pc /\ conn'[o].todo = conn[o].todo \ {p}
  BY <1>1, <1>6 DEF ConnType
<1>8. \A q \in Openers \ {o} : conn'[q] = conn[q]
  BY <1>0, <1>2
<1> QED BY <1>1, <1>2, <1>4, <1>5, <1>7, <1>8

\* The minor version for which a process makes a part.
LEMMA Statement ==
  ASSUME NEW o \in Openers, SchemaTypeOK, RunScript(o) \/ RunMigration(o) \/ RunPackDdl(o)
  PROVE  \E p \in conn[o].todo, n \in Nat :
            /\ Make(o, p, n)
            /\ \/ conn[o].pc = "script" /\ n = Library[o]
               \/ conn[o].pc = "migrate" /\ (p \in CoreParts => n = Since[p])
               \/ conn[o].pc = "pack"
<1> USE SchemaAssumption
<1>1. CASE RunScript(o)
  BY <1>1 DEF RunScript
<1>2. CASE RunMigration(o)
  <2>1. PICK p \in conn[o].todo : Make(o, p, Since[p])
    BY <1>2 DEF RunMigration
  <2>2. conn[o].pc = "migrate"
    BY <1>2 DEF RunMigration
  <2>3. CASE p \in CoreParts
    BY <2>1, <2>2, <2>3
  <2>4. CASE p \notin CoreParts
    <3>1. \A n \in Nat : Brings(p, n) = Brings(p, Since[p])
      BY <2>4, PartFacts DEF Brings
    <3>2. Make(o, p, 0)
      BY <2>1, <3>1 DEF Make
    <3> QED BY <2>2, <2>4, <3>2
  <2> QED BY <2>3, <2>4
<1>3. CASE RunPackDdl(o)
  BY <1>3 DEF RunPackDdl
<1> QED BY <1>1, <1>2, <1>3

\* A step that changes no part: what becomes of the others.
LEMMA QuietType ==
  ASSUME NEW o \in Openers, SchemaTypeOK,
         \/ ReadVersion(o) \/ StampVersion(o) \/ Opened(o) \/ OpenFails(o) \/ CloseFile(o)
  PROVE  SchemaTypeOK' /\ parts' = parts /\ \A q \in Openers \ {o} : conn'[q] = conn[q]
<1> USE SchemaAssumption DEF SchemaMajor
<1>0. conn \in [Openers -> ConnType]
  BY DEF SchemaTypeOK, ConnType
<1>1. /\ \A n \in Nat : Script(n) \ Columns \subseteq Parts
      /\ Missing(o) \subseteq Parts /\ PackParts \subseteq Parts
  BY PartFacts DEF Parts
<1>2. Library[o] \in Nat
  OBVIOUS
<1>3. ASSUME NEW c \in ConnType, conn' = [conn EXCEPT ![o] = c], parts' = parts,
             stamp' = stamp \/ stamp' \in Nat \X Nat
      PROVE  SchemaTypeOK' /\ \A q \in Openers \ {o} : conn'[q] = conn[q]
  BY <1>0, <1>3 DEF SchemaTypeOK, ConnType
<1>4. CASE ReadVersion(o)
  <2>1. /\ Conn("script", Script(Library[o]) \ Columns) \in ConnType
        /\ Conn("refused", {}) \in ConnType
        /\ Conn("pack", PackParts) \in ConnType
        /\ Conn("migrate", Missing(o)) \in ConnType
    BY <1>1, <1>2 DEF Conn, ConnType
  <2>2. UNCHANGED <<parts, stamp>>
    BY <1>4 DEF ReadVersion
  <2>3. stamp = Null \/ (stamp # Null /\ stamp[1] # SchemaMajor)
        \/ (stamp # Null /\ stamp[1] = SchemaMajor /\ stamp[2] >= Library[o])
        \/ (stamp # Null /\ stamp[1] = SchemaMajor /\ stamp[2] < Library[o])
    BY <1>2 DEF SchemaTypeOK
  <2>4. PICK c \in ConnType : conn' = [conn EXCEPT ![o] = c]
    BY <1>4, <2>1, <2>3 DEF ReadVersion
  <2> QED BY <1>3, <2>2, <2>4
<1>5. CASE StampVersion(o)
  <2>1. Conn("pack", PackParts) \in ConnType
    BY <1>1 DEF Conn, ConnType
  <2>2. conn' = [conn EXCEPT ![o] = Conn("pack", PackParts)] /\ parts' = parts /\ stamp' \in Nat \X Nat
    BY <1>2, <1>5 DEF StampVersion
  <2> QED BY <1>3, <2>1, <2>2
<1>6. CASE Opened(o)
  <2>1. [conn[o] EXCEPT !.pc = "open"] \in ConnType
    BY <1>0 DEF ConnType
  <2>2. conn' = [conn EXCEPT ![o] = [conn[o] EXCEPT !.pc = "open"]] /\ UNCHANGED <<parts, stamp>>
    BY <1>0, <1>6 DEF Opened
  <2> QED BY <1>3, <2>1, <2>2
<1>7. CASE OpenFails(o) \/ CloseFile(o)
  <2>1. Closed \in ConnType
    BY DEF Closed, Conn, ConnType
  <2>2. conn' = [conn EXCEPT ![o] = Closed] /\ UNCHANGED <<parts, stamp>>
    BY <1>7 DEF OpenFails, CloseFile
  <2> QED BY <1>3, <2>1, <2>2
<1> QED BY <1>4, <1>5, <1>6, <1>7

LEMMA SchemaNextType == SchemaTypeOK /\ [SchemaNext]_schemaVars => SchemaTypeOK'
<1> SUFFICES ASSUME SchemaTypeOK, [SchemaNext]_schemaVars PROVE SchemaTypeOK'
  OBVIOUS
<1>1. CASE SchemaNext
  <2>1. PICK o \in Openers : Opening(o) \/ CloseFile(o)
    BY <1>1 DEF SchemaNext
  <2>2. CASE RunScript(o) \/ RunMigration(o) \/ RunPackDdl(o)
    <3>1. PICK p \in conn[o].todo, n \in Nat : Make(o, p, n)
      BY <2>2, Statement
    <3> QED BY <3>1, MakeType
  <2> QED BY <2>1, <2>2, QuietType DEF Opening
<1>2. CASE UNCHANGED schemaVars
  BY <1>2 DEF schemaVars, SchemaTypeOK
<1> QED BY <1>1, <1>2

-----------------------------------------------------------------------------
(* Opening the file, when no version adds a column to a table.             *)

\* What process o still has to make, and what it has, or will make before it goes on.
Promised(o) ==
    /\ conn[o].pc = "script" => conn[o].todo \subseteq Script(Library[o])
    /\ conn[o].pc = "pack" => conn[o].todo \subseteq PackParts
    /\ conn[o].pc \in {"script", "migrate"} =>
          Script(Library[o]) \ Columns \subseteq parts \cup conn[o].todo
    /\ conn[o].pc \in {"pack", "open"} => Script(Library[o]) \subseteq parts
    /\ conn[o].pc = "pack" => PackParts \subseteq parts \cup conn[o].todo
    /\ conn[o].pc = "open" => PackParts \subseteq parts

\* A table that is there has all its columns.
TablesWhole == \A c \in Columns : TableOf[c] \in parts => c \in parts

SchemaInv == SchemaTypeOK /\ TablesWhole /\ StampHonest /\ \A o \in Openers : Promised(o)

\* Every file that connect() may find is an honest one.
LEMMA SchemaInitInv == NoColumnAdded /\ SchemaInit => SchemaInv
<1> SUFFICES ASSUME NoColumnAdded, SchemaInit PROVE SchemaInv
  OBVIOUS
<1> USE SchemaAssumption, PartFacts DEF SchemaMajor
<1>1. \A o \in Openers : Promised(o)
  BY DEF SchemaInit, Promised, Closed, Conn
<1>2. TablesWhole /\ StampHonest
  <2>1. CASE stamp = Null /\ Sound(parts)
    BY <2>1 DEF StampHonest, ReaderAdmits, TablesWhole, Sound, NoColumnAdded
  <2>2. CASE \E minor \in {Since[p] : p \in CoreParts} \cup {Library[o] : o \in Openers} :
                stamp = <<SchemaMajor, minor>> /\ parts = Script(minor)
    <3>1. PICK minor \in {Since[p] : p \in CoreParts} \cup {Library[o] : o \in Openers} :
                 stamp = <<1, minor>> /\ parts = Script(minor)
      BY <2>2
    <3>2. StampHonest
      BY <3>1 DEF StampHonest
    <3>3. TablesWhole
      BY <3>1 DEF TablesWhole, Script, NoColumnAdded, Original
    <3> QED BY <3>2, <3>3
  <2>3. CASE \E major \in {SchemaMajor - 1, SchemaMajor + 1} : stamp = <<major, 0>> /\ parts = {}
    <3>1. PICK major \in {0, 2} : stamp = <<major, 0>> /\ parts = {}
      BY <2>3
    <3>2. stamp[1] # 1
      BY <3>1
    <3> QED BY <3>1, <3>2 DEF StampHonest, ReaderAdmits, TablesWhole
  <2> QED BY <2>1, <2>2, <2>3 DEF SchemaInit
<1> QED BY <1>1, <1>2, SchemaInitType DEF SchemaInv

\* A process that changes nothing of the file keeps the invariant if its own
\* promise holds.
LEMMA OwnStep ==
  ASSUME NEW o \in Openers, SchemaInv, UNCHANGED <<parts, stamp>>,
         ReadVersion(o) \/ Opened(o) \/ OpenFails(o) \/ CloseFile(o), Promised(o)'
  PROVE  SchemaInv'
<1>1. SchemaTypeOK' /\ \A q \in Openers \ {o} : conn'[q] = conn[q]
  BY QuietType DEF SchemaInv
<1>2. ASSUME NEW p \in Openers PROVE Promised(p)'
  <2>1. CASE p = o
    BY <2>1
  <2>2. CASE p # o
    BY <1>1, <2>2 DEF Promised, SchemaInv
  <2> QED BY <2>1, <2>2
<1>3. TablesWhole' /\ StampHonest'
  BY DEF SchemaInv, TablesWhole, StampHonest, ReaderAdmits
<1> QED BY <1>1, <1>2, <1>3 DEF SchemaInv

\* What the stamp and the library of the process make of the file.
LEMMA ReadVersionInv ==
  ASSUME NEW o \in Openers, SchemaInv, ReadVersion(o)
  PROVE  SchemaInv'
<1> USE SchemaAssumption DEF SchemaMajor
<1>0. conn \in [Openers -> ConnType] /\ Library[o] \in Nat /\ StampHonest
      /\ (stamp = Null \/ stamp \in Nat \X Nat)
  BY DEF SchemaInv, SchemaTypeOK, ConnType
<1>1. UNCHANGED <<parts, stamp>>
  BY DEF ReadVersion
<1>2. Promised(o)'
  <2>1. CASE stamp = Null
    <3>1. conn' = [conn EXCEPT ![o] = Conn("script", Script(Library[o]) \ Columns)]
      BY <2>1 DEF ReadVersion
    <3>2. conn'[o].pc = "script" /\ conn'[o].todo = Script(Library[o]) \ Columns
      BY <1>0, <3>1 DEF Conn
    <3> QED BY <3>2 DEF Promised
  <2>2. CASE stamp # Null /\ stamp[1] # 1
    <3>1. conn' = [conn EXCEPT ![o] = Conn("refused", {})]
      BY <2>2 DEF ReadVersion
    <3> QED BY <1>0, <3>1 DEF Promised, Conn
  <2>3. CASE stamp # Null /\ stamp[1] = 1 /\ stamp[2] >= Library[o]
    <3>1. ~(stamp[2] < Library[o])
      BY <1>0, <2>3
    <3>2. conn' = [conn EXCEPT ![o] = Conn("pack", PackParts)]
      BY <2>3, <3>1 DEF ReadVersion
    <3>3. conn'[o].pc = "pack" /\ conn'[o].todo = PackParts
      BY <1>0, <3>2 DEF Conn
    <3>4. Script(Library[o]) \subseteq Script(stamp[2])
      BY <1>0, <2>3 DEF Script
    <3>5. Script(Library[o]) \subseteq parts
      BY <1>0, <2>3, <3>4 DEF StampHonest, ReaderAdmits
    <3> QED BY <1>1, <3>3, <3>5 DEF Promised
  <2>4. CASE stamp # Null /\ stamp[1] = 1 /\ stamp[2] < Library[o]
    <3>1. ~(stamp[2] >= Library[o])
      BY <1>0, <2>4
    <3>2. conn' = [conn EXCEPT ![o] = Conn("migrate", Missing(o))]
      BY <2>4, <3>1 DEF ReadVersion
    <3>3. conn'[o].pc = "migrate" /\ conn'[o].todo = Missing(o)
      BY <1>0, <3>2 DEF Conn
    <3>4. Script(Library[o]) \ Columns \subseteq parts \cup Missing(o)
      BY <1>0, <2>4 DEF Missing, StampHonest, ReaderAdmits
    <3> QED BY <1>1, <3>3, <3>4 DEF Promised
  <2>5. stamp = Null \/ (stamp # Null /\ stamp[1] # 1)
        \/ (stamp # Null /\ stamp[1] = 1 /\ stamp[2] >= Library[o])
        \/ (stamp # Null /\ stamp[1] = 1 /\ stamp[2] < Library[o])
    BY <1>0
  <2> QED BY <2>1, <2>2, <2>3, <2>4, <2>5
<1> QED BY <1>1, <1>2, OwnStep

\* A statement adds a part, with a table its columns.
LEMMA MakeInv ==
  ASSUME NEW o \in Openers, SchemaInv, NoColumnAdded, RunScript(o) \/ RunMigration(o) \/ RunPackDdl(o)
  PROVE  SchemaInv'
<1>1. PICK p \in conn[o].todo, n \in Nat :
         /\ Make(o, p, n)
         /\ \/ conn[o].pc = "script" /\ n = Library[o]
            \/ conn[o].pc = "migrate" /\ (p \in CoreParts => n = Since[p])
            \/ conn[o].pc = "pack"
  BY Statement DEF SchemaInv
<1>2. /\ SchemaTypeOK' /\ parts \subseteq parts' /\ p \in parts' /\ stamp' = stamp
      /\ conn'[o].pc = conn[o].pc /\ conn'[o].todo = conn[o].todo \ {p}
      /\ \A q \in Openers \ {o} : conn'[q] = conn[q]
  BY <1>1, MakeType DEF SchemaInv
<1>3. TablesWhole'
  <2> SUFFICES ASSUME NEW c \in Columns, TableOf[c] \in parts' PROVE c \in parts'
    BY DEF TablesWhole
  <2>1. CASE TableOf[c] \in parts
    BY <1>2, <2>1 DEF SchemaInv, TablesWhole
  <2>2. CASE TableOf[c] \notin parts
    <3>1. parts' = parts \cup Brings(p, n) /\ TableOf[c] \in Brings(p, n)
      BY <1>1, <2>2 DEF Make
    <3>2. TableOf[c] = p /\ p \in CoreParts /\ Since[c] = Since[p] /\ Since[p] \in Nat
      BY <3>1, PartFacts DEF Brings, NoColumnAdded, Original
    <3>3. Since[p] <= n
      <4>1. Promised(o)
        BY DEF SchemaInv
      <4>2. CASE conn[o].pc = "script" /\ n = Library[o]
        BY <4>1, <4>2 DEF Promised, Script
      <4>3. CASE conn[o].pc = "migrate" /\ (p \in CoreParts => n = Since[p])
        BY <3>2, <4>3
      <4>4. conn[o].pc # "pack"
        BY <3>2, <4>1, SchemaAssumption DEF Promised
      <4> QED BY <1>1, <4>2, <4>3, <4>4
    <3> QED BY <3>1, <3>2, <3>3 DEF Brings
  <2> QED BY <2>1, <2>2
<1>4. StampHonest'
  BY <1>2 DEF SchemaInv, StampHonest, ReaderAdmits
<1>5. ASSUME NEW q \in Openers PROVE Promised(q)'
  <2>1. Promised(q)
    BY DEF SchemaInv
  <2>2. CASE q = o
    BY <1>2, <2>1, <2>2 DEF Promised
  <2>3. CASE q # o
    BY <1>2, <2>1, <2>3 DEF Promised
  <2> QED BY <2>2, <2>3
<1> QED BY <1>2, <1>3, <1>4, <1>5 DEF SchemaInv

\* The stamp covers what the process has made by then.
LEMMA StampVersionInv ==
  ASSUME NEW o \in Openers, SchemaInv, StampVersion(o)
  PROVE  SchemaInv'
<1> USE SchemaAssumption DEF SchemaMajor
<1>0. conn \in [Openers -> ConnType] /\ Library[o] \in Nat /\ Promised(o) /\ TablesWhole
  BY DEF SchemaInv, SchemaTypeOK, ConnType
<1>1. stamp' = <<1, Library[o]>> /\ conn' = [conn EXCEPT ![o] = Conn("pack", PackParts)]
  BY DEF StampVersion
<1>2. SchemaTypeOK' /\ parts' = parts /\ \A q \in Openers \ {o} : conn'[q] = conn[q]
  BY QuietType DEF SchemaInv
<1>3. Script(Library[o]) \subseteq parts
  <2>1. Script(Library[o]) \ Columns \subseteq parts
    BY <1>0 DEF StampVersion, Promised
  <2>2. ASSUME NEW c \in Script(Library[o]), c \in Columns PROVE c \in parts
    <3>1. TableOf[c] \in Script(Library[o]) \ Columns
      BY <1>0, <2>2, PartFacts DEF Script
    <3> QED BY <1>0, <2>1, <2>2, <3>1 DEF TablesWhole
  <2> QED BY <2>1, <2>2
<1>4. StampHonest'
  <2>1. stamp'[2] = Library[o]
    BY <1>1
  <2> QED BY <1>2, <1>3, <2>1 DEF StampHonest
<1>5. ASSUME NEW q \in Openers PROVE Promised(q)'
  <2>1. CASE q = o
    <3>1. conn'[q].pc = "pack" /\ conn'[q].todo = PackParts
      BY <1>0, <1>1, <2>1 DEF Conn
    <3> QED BY <1>2, <1>3, <2>1, <3>1 DEF Promised
  <2>2. CASE q # o
    BY <1>2, <2>2 DEF SchemaInv, Promised
  <2> QED BY <2>1, <2>2
<1> QED BY <1>0, <1>2, <1>4, <1>5 DEF SchemaInv, TablesWhole

\* The connection is handed out when the pack's DDL is through; one that goes takes its
\* promise with it.
LEMMA HandedOutInv ==
  ASSUME NEW o \in Openers, SchemaInv, Opened(o) \/ OpenFails(o) \/ CloseFile(o)
  PROVE  SchemaInv'
<1>0. conn \in [Openers -> ConnType] /\ Promised(o)
  BY DEF SchemaInv, SchemaTypeOK, ConnType
<1>1. UNCHANGED <<parts, stamp>>
  BY DEF Opened, OpenFails, CloseFile
<1>2. CASE Opened(o)
  <2>1. conn[o].pc = "pack" /\ conn[o].todo = {} /\ conn'[o].pc = "open"
    BY <1>0, <1>2 DEF Opened, ConnType
  <2>2. Promised(o)'
    BY <1>0, <1>1, <2>1 DEF Promised
  <2> QED BY <1>1, <1>2, <2>2, OwnStep
<1>3. CASE OpenFails(o) \/ CloseFile(o)
  <2>1. conn'[o].pc = "closed"
    BY <1>0, <1>3 DEF OpenFails, CloseFile, Closed, Conn
  <2>2. Promised(o)'
    BY <2>1 DEF Promised
  <2> QED BY <1>1, <1>3, <2>2, OwnStep
<1> QED BY <1>2, <1>3

LEMMA SchemaNextInv == NoColumnAdded => (SchemaInv /\ [SchemaNext]_schemaVars => SchemaInv')
<1> SUFFICES ASSUME NoColumnAdded, SchemaInv, [SchemaNext]_schemaVars PROVE SchemaInv'
  OBVIOUS
<1>1. CASE SchemaNext
  BY <1>1, ReadVersionInv, MakeInv, StampVersionInv, HandedOutInv DEF SchemaNext, Opening
<1>2. CASE UNCHANGED schemaVars
  BY <1>2 DEF schemaVars, SchemaInv, SchemaTypeOK, TablesWhole, StampHonest, ReaderAdmits, Promised
<1> QED BY <1>1, <1>2

LEMMA SchemaInductive == NoColumnAdded => (SchemaSpec => []SchemaInv)
<1> SUFFICES ASSUME NoColumnAdded PROVE SchemaSpec => []SchemaInv
  OBVIOUS
<1>1. SchemaInit => SchemaInv
  BY SchemaInitInv
<1>2. SchemaInv /\ [SchemaNext]_schemaVars => SchemaInv'
  BY SchemaNextInv
<1> QED BY <1>1, <1>2, PTL DEF SchemaSpec

\* As long as no version adds a column to a table, ensure_schema never stamps a version
\* whose parts are not all there, for any number of processes with any libraries of the
\* major, dying anywhere.
THEOREM StampHonestAlways == NoColumnAdded => (SchemaSpec => []StampHonest)
<1> SUFFICES ASSUME NoColumnAdded PROVE SchemaSpec => []StampHonest
  OBVIOUS
<1>1. SchemaSpec => []SchemaInv
  BY SchemaInductive
<1>2. SchemaInv => StampHonest
  BY DEF SchemaInv
<1> QED BY <1>1, <1>2, PTL

\* As long as no version adds a column to a table, a connection that connect() returned
\* has every table, index and column that its library and its pack use, also when another
\* library stamps a lower version next to it.
THEOREM OpenedCompleteAlways == NoColumnAdded => (SchemaSpec => []OpenedComplete)
<1> SUFFICES ASSUME NoColumnAdded PROVE SchemaSpec => []OpenedComplete
  OBVIOUS
<1>1. SchemaSpec => []SchemaInv
  BY SchemaInductive
<1>2. SchemaInv => OpenedComplete
  BY DEF SchemaInv, Promised, OpenedComplete
<1> QED BY <1>1, <1>2, PTL

-----------------------------------------------------------------------------
(* The daemon.                                                             *)

PcOK == pc \in InRun \cup {"off", "flush", "again", "ended"}

\* Once its constructor is through, the daemon holds an open connection or none.
DaemonConn == pc # "off" => conn[Daemon] = Closed \/ conn[Daemon].pc = "open"

\* Everything observed is in its fixture.
AllWritten == \A m \in DOMAIN observed : m \in DOMAIN fixtures /\ fixtures[m] = observed[m]

\* Where the recording is.
Recording ==
    /\ pc = "off" => observed = Nothing
    /\ pc \in InRun => record = observed /\ written = {} /\ ~flushFailed
    /\ pc = "flush" => /\ record = observed /\ ~flushFailed
                       /\ \A m \in written : m \in DOMAIN fixtures /\ fixtures[m] = record[m]
    /\ pc \in {"again", "ended"} => \/ flushFailed /\ record = observed
                                    \/ ~flushFailed /\ DOMAIN record = {} /\ AllWritten

\* How far a replay is.
Revealing ==
    /\ revealed \in 0 .. EventCount
    /\ harness => pc \notin InRun
    /\ kind # "live" /\ pc \in {"admit", "write"} => snapshot = [m \in {Replayed} |-> 1 .. revealed]
    /\ kind # "live" => \A m \in DOMAIN observed : m = Replayed /\ observed[m] \subseteq Events
    /\ kind # "live" /\ pc \in {"admit", "write", "sleep"} =>
          Replayed \in DOMAIN observed /\ 1 .. revealed \subseteq observed[Replayed]
    /\ kind # "live" /\ pc = "sleep" /\ ~rejected => {Replayed} \X (1 .. revealed) \subseteq stored
    /\ harness /\ pc # "off" =>
          /\ Replayed \in DOMAIN observed /\ observed[Replayed] = Events
          /\ ~rejected => {Replayed} \X Events \subseteq stored

DaemonInv == SchemaTypeOK /\ PcOK /\ DaemonConn /\ Recording /\ Revealing

LEMMA DaemonInit == Init => DaemonInv
<1> SUFFICES ASSUME Init PROVE DaemonInv
  OBVIOUS
<1>1. SchemaTypeOK
  BY SchemaInitType DEF Init
<1>2. PcOK /\ DaemonConn /\ Recording
  BY DEF Init, PcOK, InRun, DaemonConn, Recording
<1>3. Revealing
  BY CollectorAssumption DEF Init, Revealing, InRun, Nothing
<1> QED BY <1>1, <1>2, <1>3 DEF DaemonInv

\* Closing the daemon's connection is a step of Schema, or none.
LEMMA DaemonCloses ==
  ASSUME SchemaTypeOK, conn[Daemon] = Closed \/ conn[Daemon].pc = "open", UNCHANGED <<parts, stamp>>,
         conn' = [conn EXCEPT ![Daemon] = Closed]
  PROVE  [SchemaNext]_schemaVars
<1>1. CASE conn[Daemon] = Closed
  <2>1. conn' = conn
    BY <1>1 DEF SchemaTypeOK
  <2> QED BY <2>1 DEF schemaVars
<1>2. CASE conn[Daemon].pc = "open"
  BY <1>2, CollectorAssumption DEF SchemaNext, CloseFile
<1> QED BY <1>1, <1>2

\* Every step of the daemon's life opens or closes the file as Schema has it, or does not
\* touch it.
LEMMA StepImplements == DaemonInv /\ [Next]_vars => [SchemaNext]_schemaVars
<1> SUFFICES ASSUME DaemonInv, [Next]_vars PROVE [SchemaNext]_schemaVars
  OBVIOUS
<1> USE DEF DaemonInv
<1>1. CASE OpenStep \/ OtherCloses
  BY <1>1 DEF OpenStep, OtherCloses, SchemaNext
<1>2. CASE FixtureFails
  BY <1>2, DaemonCloses DEF FixtureFails, Closes, DaemonConn
<1>3. CASE FlushEnds
  BY <1>3, DaemonCloses DEF FlushEnds, Closes, DaemonConn
<1>4. CASE ProcessEnds
  BY <1>4, DaemonCloses DEF ProcessEnds, DaemonConn
<1>5. CASE Enter \/ Tick \/ FetchLive \/ FetchReplay \/ FetchFails \/ Admit
  BY <1>5 DEF Enter, Tick, FetchLive, FetchReplay, FetchFails, Fetched, Admit, schemaVars
<1>6. CASE Write \/ Raises \/ Wake \/ SleepHook \/ Stop \/ LoopEnds \/ WriteFixture
  BY <1>6 DEF Write, Raises, Wake, SleepHook, Stop, LoopEnds, WriteFixture, schemaVars
<1>7. CASE Asks \/ Grant \/ Release
  BY <1>7 DEF Asks, Grant, Release, schemaVars
<1>8. CASE UNCHANGED vars
  BY <1>8 DEF vars, schemaVars
<1> QED BY <1>1, <1>2, <1>3, <1>4, <1>5, <1>6, <1>7, <1>8 DEF Next, Advance

LEMMA ConnStep == DaemonInv /\ [Next]_vars => PcOK' /\ DaemonConn'
<1> SUFFICES ASSUME DaemonInv, [Next]_vars PROVE PcOK' /\ DaemonConn'
  OBVIOUS
<1> USE CollectorAssumption DEF DaemonInv, PcOK, DaemonConn, InRun
<1>0. conn \in [Openers -> ConnType]
  BY DEF SchemaTypeOK, ConnType
<1>1. CASE OpenStep
  <2>1. pc' = pc
    BY <1>1 DEF OpenStep, loopVars
  <2>2. PICK o \in Openers : (o = Daemon => pc = "off") /\ Opening(o)
    BY <1>1 DEF OpenStep
  <2>3. o # Daemon => conn'[Daemon] = conn[Daemon]
    BY <1>0, <2>2 DEF Opening, ReadVersion, RunScript, RunMigration, StampVersion, RunPackDdl, Make,
       Opened, OpenFails
  <2> QED BY <2>1, <2>2, <2>3
<1>2. CASE OtherCloses
  <2>1. pc' = pc
    BY <1>2 DEF OtherCloses, loopVars
  <2>2. conn'[Daemon] = conn[Daemon]
    BY <1>0, <1>2 DEF OtherCloses, CloseFile
  <2> QED BY <2>1, <2>2
<1>3. CASE FixtureFails \/ FlushEnds
  <2>1. Closes
    BY <1>3 DEF FixtureFails, FlushEnds
  <2>2. conn'[Daemon] = Closed
    BY <1>0, <2>1 DEF Closes
  <2> QED BY <2>1, <2>2 DEF Closes
<1>4. CASE ProcessEnds
  BY <1>4 DEF ProcessEnds
<1>5. CASE Enter
  BY <1>5 DEF Enter, schemaVars
<1>6. CASE Tick \/ FetchLive \/ FetchReplay \/ FetchFails \/ Admit
  BY <1>6 DEF Tick, FetchLive, FetchReplay, FetchFails, Fetched, Admit, schemaVars, loopVars
<1>7. CASE Write \/ Raises \/ Wake \/ SleepHook \/ Stop \/ LoopEnds \/ WriteFixture
  BY <1>7 DEF Write, Raises, Wake, SleepHook, Stop, LoopEnds, WriteFixture, schemaVars, loopVars
<1>8. CASE Asks \/ Grant \/ Release
  BY <1>8 DEF Asks, Grant, Release, schemaVars, loopVars
<1>9. CASE UNCHANGED vars
  BY <1>9 DEF vars, schemaVars, loopVars
<1> QED BY <1>1, <1>2, <1>3, <1>4, <1>5, <1>6, <1>7, <1>8, <1>9 DEF Next, Advance

-----------------------------------------------------------------------------
(* The recording.                                                          *)

LEMMA RecordingStep == DaemonInv /\ [Next]_vars => Recording'
<1> SUFFICES ASSUME DaemonInv, [Next]_vars PROVE Recording'
  OBVIOUS
<1>0. PcOK /\ Recording
  BY DEF DaemonInv
<1> USE DEF Recording, InRun, AllWritten
<1>1. CASE UNCHANGED <<pc, recordVars>>
  BY <1>0, <1>1 DEF recordVars
<1>2. CASE OpenStep \/ OtherCloses \/ Tick \/ Asks \/ Grant \/ Release \/ UNCHANGED vars
  BY <1>1, <1>2 DEF OpenStep, OtherCloses, Tick, Asks, Grant, Release, vars, loopVars
<1>3. CASE Stop
  BY <1>1, <1>3 DEF Stop
<1>4. CASE Enter
  BY <1>4 DEF Enter
<1>5. CASE FetchFails \/ Admit \/ Write \/ Wake \/ SleepHook \/ LoopEnds
  BY <1>0, <1>5 DEF FetchFails, Admit, Write, Wake, SleepHook, LoopEnds, recordVars
<1>6. CASE Raises
  BY <1>0, <1>6 DEF Raises, recordVars
<1>7. CASE FetchLive \/ FetchReplay
  <2>1. PICK shown : pc = "loop" /\ Fetched(shown)
    BY <1>7 DEF FetchLive, FetchReplay
  <2>2. record' = observed' /\ pc' = "admit" /\ UNCHANGED <<written, flushFailed>>
    BY <1>0, <2>1 DEF Fetched
  <2> QED BY <1>0, <2>1, <2>2
<1>8. CASE WriteFixture
  <2>1. pc = "flush"
    BY <1>0, <1>8 DEF WriteFixture, Flushing
  <2>2. PICK m \in DOMAIN record \ written :
           /\ fixtures' = [n \in DOMAIN fixtures \cup {m} |-> IF n = m THEN record[m] ELSE fixtures[n]]
           /\ written' = written \cup {m}
    BY <1>8 DEF WriteFixture
  <2>3. UNCHANGED <<pc, record, observed, flushFailed>>
    BY <1>8 DEF WriteFixture, loopVars
  <2>4. \A n \in written' : n \in DOMAIN fixtures' /\ fixtures'[n] = record'[n]
    BY <1>0, <2>1, <2>2, <2>3
  <2> QED BY <1>0, <2>1, <2>3, <2>4
<1>9. CASE FixtureFails
  <2>1. pc = "flush"
    BY <1>0, <1>9 DEF FixtureFails, Flushing
  <2> QED BY <1>0, <1>9, <2>1 DEF FixtureFails, Closes, Latched
<1>10. CASE FlushEnds
  <2>1. UNCHANGED <<observed, fixtures, flushFailed>> /\ record' = KeptAfterFlush
    BY <1>10 DEF FlushEnds, Closes
  <2>2. CASE pc = "flush"
    <3>1. pc' = "again" /\ ~flushFailed /\ record = observed
      BY <1>0, <1>10, <2>2 DEF FlushEnds, Closes
    <3>2. CASE Flushing
      <4>1. DOMAIN record' = {}
        BY <2>1, <3>2 DEF KeptAfterFlush, Nothing
      <4>2. written = DOMAIN record
        BY <1>10, <3>2 DEF FlushEnds
      <4> QED BY <1>0, <2>1, <2>2, <3>1, <4>1, <4>2
    <3>3. CASE ~Flushing
      BY <2>1, <3>1, <3>3 DEF KeptAfterFlush, Flushing
    <3> QED BY <3>2, <3>3
  <2>3. CASE pc = "again"
    <3>1. record' = record /\ pc' = "ended"
      BY <1>0, <1>10, <2>1, <2>3 DEF KeptAfterFlush, Flushing, FlushEnds, Closes
    <3> QED BY <1>0, <2>1, <2>3, <3>1
  <2> QED BY <1>10, <2>2, <2>3 DEF FlushEnds
<1>11. CASE ProcessEnds
  BY <1>11 DEF ProcessEnds
<1> QED BY <1>2, <1>3, <1>4, <1>5, <1>6, <1>7, <1>8, <1>9, <1>10, <1>11 DEF Next, Advance
-----------------------------------------------------------------------------
(* A replay.                                                               *)

\* _paced_count never counts past the fixture's last event.
LEMMA PacedCountBound == ASSUME NEW now PROVE PacedCount(now) \in 0 .. EventCount
<1> DEFINE due == {n \in Events : \A q \in 1 .. n : Minute[q] <= now}
<1>1. IsFiniteSet(Events) /\ Cardinality(Events) = EventCount
  BY CollectorAssumption, FS_Interval DEF Events
<1>2. due \in SUBSET Events
  OBVIOUS
<1>3. IsFiniteSet(due) /\ Cardinality(due) <= EventCount
  BY <1>1, <1>2, FS_Subset
<1>4. Cardinality(due) \in Nat
  BY <1>3, FS_CardinalityType
<1> QED BY <1>3, <1>4, CollectorAssumption DEF PacedCount

\* A fetch reveals a prefix, and it is observed.
LEMMA FetchReveals ==
  ASSUME DaemonInv, FetchReplay
  PROVE  Revealing'
<1>0. Revealing /\ pc = "loop" /\ kind # "live"
  BY DEF DaemonInv, FetchReplay
<1>1. revealed' \in 0 .. EventCount
  <2>1. CASE kind = "step"
    BY <1>0, <2>1, CollectorAssumption DEF FetchReplay, Smaller, Revealing
  <2>2. CASE kind # "step"
    BY <2>2, PacedCountBound DEF FetchReplay
  <2> QED BY <2>1, <2>2
<1>2. 1 .. revealed' \subseteq Events
  BY <1>1, CollectorAssumption DEF Events
<1> DEFINE shown == [m \in {Replayed} |-> 1 .. revealed']
<1>3. pc' = "admit" /\ snapshot' = shown /\ observed' = Accumulated(observed, shown)
      /\ UNCHANGED <<harness, kind, stored, rejected>>
  BY DEF FetchReplay, Fetched
<1>4. ~harness
  BY <1>0 DEF Revealing, InRun
<1>5. ASSUME NEW m \in DOMAIN observed' PROVE m = Replayed /\ observed'[m] \subseteq Events
  <2>1. m \in DOMAIN observed \/ m = Replayed
    BY <1>3 DEF Accumulated
  <2>2. m = Replayed
    BY <1>0, <2>1 DEF Revealing
  <2>3. observed'[m] = EventsOf(observed, m) \cup EventsOf(shown, m)
    BY <1>3 DEF Accumulated
  <2>4. EventsOf(observed, m) \subseteq Events
    BY <1>0 DEF EventsOf, Revealing
  <2>5. EventsOf(shown, m) \subseteq Events
    BY <1>2 DEF EventsOf
  <2> QED BY <2>2, <2>3, <2>4, <2>5
<1>6. Replayed \in DOMAIN observed' /\ 1 .. revealed' \subseteq observed'[Replayed]
  BY <1>3 DEF Accumulated, EventsOf
<1> QED BY <1>1, <1>3, <1>4, <1>5, <1>6 DEF Revealing

LEMMA RevealingStep == DaemonInv /\ [Next]_vars => Revealing'
<1> SUFFICES ASSUME DaemonInv, [Next]_vars PROVE Revealing'
  OBVIOUS
<1>0. PcOK /\ Revealing /\ Recording
  BY DEF DaemonInv
<1> USE DEF InRun
<1>1. CASE UNCHANGED <<pc, harness, kind, revealed, pollVars, observed>>
  BY <1>0, <1>1 DEF Revealing, pollVars
<1>2. CASE OpenStep \/ OtherCloses \/ Tick \/ Asks \/ Grant \/ Release \/ UNCHANGED vars
  BY <1>1, <1>2 DEF OpenStep, OtherCloses, Tick, Asks, Grant, Release, vars, loopVars, providerVars,
     recordVars
<1>3. CASE Stop \/ WriteFixture
  BY <1>1, <1>3 DEF Stop, WriteFixture, loopVars, providerVars, recordVars
<1>4. CASE Enter
  BY <1>4, CollectorAssumption DEF Enter, Revealing, Nothing
<1>5. CASE FetchReplay
  BY <1>5, FetchReveals
<1>6. CASE FetchLive \/ FetchFails
  <2>1. kind' = "live" /\ UNCHANGED <<harness, revealed>> /\ ~harness
    BY <1>0, <1>6 DEF FetchLive, FetchFails, Fetched, providerVars, Revealing
  <2> QED BY <1>0, <2>1 DEF Revealing
<1>7. CASE Admit
  BY <1>0, <1>7 DEF Admit, Revealing, providerVars, pollVars, recordVars
<1>8. CASE Write
  <2>1. PICK applied \in SUBSET DOMAIN snapshot :
           stored' = stored \cup RowsOf(applied) /\ rejected' = (applied # DOMAIN snapshot)
    BY <1>8 DEF Write
  <2>2. pc = "write" /\ pc' = "sleep" /\ UNCHANGED <<harness, kind, revealed, observed>>
    BY <1>8 DEF Write, providerVars, recordVars
  <2>3. kind # "live" /\ ~rejected' => {Replayed} \X (1 .. revealed) \subseteq stored'
    <3> SUFFICES ASSUME kind # "live", ~rejected'
                 PROVE  {Replayed} \X (1 .. revealed) \subseteq stored'
      OBVIOUS
    <3>1. snapshot = [m \in {Replayed} |-> 1 .. revealed]
      BY <1>0, <2>2 DEF Revealing
    <3>2. applied = {Replayed}
      BY <2>1, <3>1
    <3>3. RowsOf(applied) = {Replayed} \X (1 .. revealed)
      BY <3>1, <3>2 DEF RowsOf
    <3> QED BY <2>1, <3>3
  <2>4. ~harness
    BY <1>0, <2>2 DEF Revealing
  <2> QED BY <1>0, <2>2, <2>3, <2>4 DEF Revealing
<1>9. CASE Raises
  <2>1. pc \in InRun /\ pc' = "flush" /\ UNCHANGED <<harness, kind, revealed, observed>>
    BY <1>9 DEF Raises, providerVars, recordVars
  <2>2. ~harness
    BY <1>0, <2>1 DEF Revealing
  <2> QED BY <1>0, <2>1, <2>2 DEF Revealing
<1>10. CASE Wake \/ LoopEnds
  <2>1. pc \in InRun /\ pc' \in {"loop", "flush"} /\ UNCHANGED <<harness, kind, revealed, observed>>
    BY <1>10 DEF Wake, LoopEnds, providerVars, recordVars
  <2>2. ~harness
    BY <1>0, <2>1 DEF Revealing
  <2> QED BY <1>0, <2>1, <2>2 DEF Revealing
<1>11. CASE SleepHook
  <2>1. pc = "sleep" /\ kind # "live" /\ harness' = Exhausted
        /\ pc' = (IF Exhausted THEN "flush" ELSE "loop")
        /\ UNCHANGED <<kind, revealed, stored, rejected, observed>>
    BY <1>11 DEF SleepHook, providerVars, pollVars, recordVars
  <2>2. CASE Exhausted
    <3>1. 1 .. revealed = Events
      BY <1>0, <2>2, CollectorAssumption DEF Exhausted, Events, Revealing
    <3>2. Replayed \in DOMAIN observed /\ observed[Replayed] = Events
      BY <1>0, <2>1, <3>1 DEF Revealing
    <3>3. ~rejected => {Replayed} \X Events \subseteq stored
      BY <1>0, <2>1, <3>1 DEF Revealing
    <3> QED BY <1>0, <2>1, <2>2, <3>2, <3>3 DEF Revealing
  <2>3. CASE ~Exhausted
    BY <1>0, <2>1, <2>3 DEF Revealing
  <2> QED BY <2>2, <2>3
<1>12. CASE FixtureFails \/ FlushEnds
  <2>1. pc \in {"flush", "again"} /\ pc' \in {"again", "ended"}
        /\ UNCHANGED <<harness, kind, revealed, stored, rejected, observed>>
    BY <1>12 DEF FixtureFails, FlushEnds, Closes, providerVars, pollVars
  <2> QED BY <1>0, <2>1 DEF Revealing
<1>13. CASE ProcessEnds
  BY <1>0, <1>13 DEF ProcessEnds, Revealing, providerVars, Nothing
<1> QED BY <1>2, <1>3, <1>4, <1>5, <1>6, <1>7, <1>8, <1>9, <1>10, <1>11, <1>12, <1>13 DEF Next, Advance

LEMMA DaemonNext == DaemonInv /\ [Next]_vars => DaemonInv'
<1> SUFFICES ASSUME DaemonInv, [Next]_vars PROVE DaemonInv'
  OBVIOUS
<1>1. SchemaTypeOK'
  BY StepImplements, SchemaNextType DEF DaemonInv
<1> QED BY <1>1, ConnStep, RecordingStep, RevealingStep DEF DaemonInv

LEMMA DaemonInductive == Spec => []DaemonInv
<1> QED BY DaemonInit, DaemonNext, PTL DEF Spec

\* The collector opens and closes the file as Schema says, whatever it does between.
THEOREM SchemaImplemented == Spec => SchemaSpec
<1>1. Init => SchemaInit
  BY DEF Init
<1> QED BY <1>1, DaemonInductive, StepImplements, PTL DEF Spec, SchemaSpec

\* So the collector's own connection, and every other one, is complete, as long as no
\* version adds a column to a table.
THEOREM CollectorOpenedComplete == NoColumnAdded => (Spec => []OpenedComplete)
<1> SUFFICES ASSUME NoColumnAdded PROVE Spec => []OpenedComplete
  OBVIOUS
<1>1. SchemaSpec => []OpenedComplete
  BY OpenedCompleteAlways
<1> QED BY <1>1, SchemaImplemented, PTL

\* What the polls showed stays in the memory or is in the fixtures, for any snapshots and
\* any failure of the flush.
THEOREM SessionKeptAlways == Spec => []SessionKept
<1>1. DaemonInv => SessionKept
  BY DEF DaemonInv, PcOK, Recording, InRun, AllWritten, SessionKept, Nothing
<1> QED BY <1>1, DaemonInductive, PTL

FlushStep == pc = "again" => UNCHANGED fixtures

\* The second close() finds nothing to write, whether the first wrote all or failed.
THEOREM FlushNotRetriedAlways == Spec => FlushNotRetried
<1>1. DaemonInv /\ [Next]_vars => [FlushStep]_vars
  <2> SUFFICES ASSUME DaemonInv, Next, pc = "again" PROVE UNCHANGED fixtures
    BY DEF FlushStep
  <2>1. ~Flushing
    BY DEF DaemonInv, Recording, Flushing
  <2>2. CASE WriteFixture \/ FixtureFails
    BY <2>1, <2>2 DEF WriteFixture, FixtureFails
  <2>3. CASE FlushEnds \/ ProcessEnds
    BY <2>3 DEF FlushEnds, ProcessEnds
  <2>4. CASE Enter \/ FetchLive \/ FetchReplay \/ FetchFails \/ Admit \/ Write \/ Wake \/ SleepHook \/ LoopEnds \/ Raises \/ Stop
    BY <2>4 DEF Enter, FetchLive, FetchReplay, FetchFails, Admit, Write, Wake, SleepHook, LoopEnds,
       Raises, Stop, InRun
  <2>5. CASE OpenStep \/ OtherCloses \/ Tick \/ Asks \/ Grant \/ Release
    BY <2>5 DEF OpenStep, OtherCloses, Tick, Asks, Grant, Release, recordVars
  <2> QED BY <2>2, <2>3, <2>4, <2>5 DEF Next, Advance
<1>2. FlushNotRetried <=> [][FlushStep]_vars
  BY DEF FlushNotRetried, FlushStep
<1> QED BY <1>1, <1>2, DaemonInductive, PTL DEF Spec

\* A replay that ran to its end was streamed, stored and recorded whole, for any fixture
\* and any pacing.
THEOREM ReplayCompleteAlways == Spec => []ReplayComplete
<1>1. DaemonInv => ReplayComplete
  BY DEF DaemonInv, Recording, Revealing, AllWritten, ReplayComplete
<1> QED BY <1>1, DaemonInductive, PTL
=============================================================================
