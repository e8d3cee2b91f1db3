-------------------------------- MODULE Schema --------------------------------
(***************************************************************************)
(* Opening the shared file for writing: connect() of                       *)
(* gamecollect/db/connection.py with ensure_schema() of db/migrations.py.  *)
(* Several processes, with libraries of one major version and different    *)
(* minor versions, open the file at the same time; each statement of a     *)
(* script and each stamp is a transaction, and a process may die between   *)
(* any two of them.                                                        *)
(*                                                                         *)
(* A part is a table, an index or a column.  Since[p] is the minor version *)
(* that brought part p.  The schema.sql of a library declares the parts up *)
(* to its minor, a column inside its table: a table that is there already  *)
(* gets no column from it.  The migration to minor n makes the parts of n; *)
(* only there is a column added to a table (add_column_if_missing).        *)
(***************************************************************************)
EXTENDS Integers

CONSTANTS
    Openers,    \* processes that open the file
    Library,    \* Library[o]: SCHEMA_MINOR of the library that o runs
    CoreParts,  \* what schema.sql declares
    TableOf,    \* TableOf[c]: the table of column c; the other parts are no columns
    PackParts,  \* what the pack's side_table_ddl declares
    Since,      \* the minor version that brought a core part
    Null

ASSUME SchemaAssumption ==
    /\ Library \in [Openers -> Nat]
    /\ Since \in [CoreParts -> Nat]
    /\ DOMAIN TableOf \subseteq CoreParts
    /\ PackParts \cap CoreParts = {}
    /\ \A c \in DOMAIN TableOf :
          TableOf[c] \in CoreParts \ DOMAIN TableOf /\ Since[TableOf[c]] <= Since[c]

VARIABLES
    parts,      \* the parts of the file
    stamp,      \* schema_meta: <<major, minor>>, or Null
    conn        \* conn[o]: how far process o is with opening, and what it still makes

schemaVars == <<parts, stamp, conn>>

SchemaMajor == 1
Parts == CoreParts \cup PackParts

\* What a file of minor version n holds.
Script(n) == {p \in CoreParts : Since[p] <= n}

Columns == DOMAIN TableOf

\* A column that its table has had from the beginning.
Original(c) == Since[c] = Since[TableOf[c]]

\* The code of this version adds a column to no table: its one migration makes an index.
NoColumnAdded == \A c \in Columns : Original(c)

\* What the statement for p makes in a script or migration of minor n.
Brings(p, n) == {p} \cup {c \in Columns : TableOf[c] = p /\ Since[c] <= n}

\* What scripts and migrations can leave: tables with their original columns at least.
Sound(present) ==
    \A c \in Columns :
        /\ c \in present => TableOf[c] \in present
        /\ Original(c) /\ TableOf[c] \in present => c \in present

Conn(pc, todo) == [pc |-> pc, todo |-> todo]
Closed == Conn("closed", {})

\* A fresh or unstamped file, one of this major, or one of another major.
SchemaInit ==
    /\ \/ stamp = Null /\ parts \in {present \in SUBSET Parts : Sound(present)}
       \/ \E minor \in {Since[p] : p \in CoreParts} \cup {Library[o] : o \in Openers} :
             stamp = <<SchemaMajor, minor>> /\ parts = Script(minor)
       \/ \E major \in {SchemaMajor - 1, SchemaMajor + 1} : stamp = <<major, 0>> /\ parts = {}
    /\ conn = [o \in Openers |-> Closed]

\* Mutant: only the library's own migration is run.
MissingLatestOnly(o) == {p \in CoreParts \ Columns : Since[p] = Library[o]}

\* The statements of the migrations newer than the stamped minor, up to the library's.
Missing(o) ==
    (Script(Library[o]) \ Script(stamp[2])) \ {c \in Columns : Original(c)}

\* get_schema_version, and what ensure_schema makes of it.
ReadVersion(o) ==
    /\ conn[o].pc = "closed"
    /\ conn' = [conn EXCEPT ![o] =
          CASE stamp = Null                                        -> Conn("script", Script(Library[o]) \ Columns)
            [] stamp # Null /\ stamp[1] # SchemaMajor              -> Conn("refused", {})
            [] stamp # Null /\ stamp[1] = SchemaMajor /\ stamp[2] >= Library[o] -> Conn("pack", PackParts)
            [] stamp # Null /\ stamp[1] = SchemaMajor /\ stamp[2] < Library[o]  -> Conn("migrate", Missing(o))]
    /\ UNCHANGED <<parts, stamp>>

\* CREATE ... IF NOT EXISTS, or add_column_if_missing: what is there stays as it is.
\* Every statement commits on its own.
Make(o, p, n) ==
    /\ parts' = IF p \in parts THEN parts ELSE parts \cup Brings(p, n)
    /\ conn' = [conn EXCEPT ![o].todo = @ \ {p}]
    /\ UNCHANGED stamp

\* A statement of schema.sql.
RunScript(o) == conn[o].pc = "script" /\ \E p \in conn[o].todo : Make(o, p, Library[o])

\* A statement of the lowest migration that is left: sorted(migrations).
RunMigration(o) ==
    /\ conn[o].pc = "migrate"
    /\ \E p \in conn[o].todo :
          /\ \A r \in conn[o].todo : Since[p] <= Since[r]
          /\ p \in Columns => TableOf[p] \in parts
          /\ Make(o, p, Since[p])

\* _stamp_version and its commit.  What others stamped meanwhile is replaced.
StampVersion(o) ==
    /\ conn[o].pc \in {"script", "migrate"} /\ conn[o].todo = {}
    /\ stamp' = <<SchemaMajor, Library[o]>>
    /\ conn' = [conn EXCEPT ![o] = Conn("pack", PackParts)]
    /\ UNCHANGED parts

\* A statement of the pack's DDL, after the core schema.
RunPackDdl(o) == conn[o].pc = "pack" /\ \E p \in conn[o].todo : Make(o, p, 0)

Opened(o) ==
    /\ conn[o].pc = "pack" /\ conn[o].todo = {}
    /\ conn' = [conn EXCEPT ![o].pc = "open"]
    /\ UNCHANGED <<parts, stamp>>

\* connect() raises, or the process dies in it.
OpenFails(o) ==
    /\ conn[o].pc \in {"refused", "script", "migrate", "pack"}
    /\ conn' = [conn EXCEPT ![o] = Closed]
    /\ UNCHANGED <<parts, stamp>>

CloseFile(o) ==
    /\ conn[o].pc = "open"
    /\ conn' = [conn EXCEPT ![o] = Closed]
    /\ UNCHANGED <<parts, stamp>>

Opening(o) ==
    \/ ReadVersion(o) \/ RunScript(o) \/ RunMigration(o) \/ StampVersion(o)
    \/ RunPackDdl(o) \/ Opened(o) \/ OpenFails(o)

SchemaNext == \E o \in Openers : Opening(o) \/ CloseFile(o)

SchemaSpec == SchemaInit /\ [][SchemaNext]_schemaVars

-----------------------------------------------------------------------------
(* Properties.                                                             *)

SchemaTypeOK ==
    /\ parts \subseteq Parts
    /\ stamp = Null \/ stamp \in Nat \X Nat
    /\ conn \in [Openers -> [pc : {"closed", "refused", "script", "migrate", "pack", "open"},
                             todo : SUBSET Parts]]

\* A reader of this major takes the file (open_reader).
ReaderAdmits == stamp # Null /\ stamp[1] = SchemaMajor

\* The stamp promises no part that the file lacks, whoever died in the middle of what:
\* a reader only looks at the stamp, and the next opener makes nothing the stamp covers.
\* (With NoColumnAdded: see OpenedComplete.)
StampHonest == ReaderAdmits => Script(stamp[2]) \subseteq parts

\* A connection that connect() returned has every table, index and column that its library
\* and its pack use.  It holds as long as no version adds a column to a table
\* (NoColumnAdded): in an unstamped file with an older library's table, schema.sql would
\* leave the new column out and the stamp would promise it.
OpenedComplete ==
    \A o \in Openers : conn[o].pc = "open" => Script(Library[o]) \cup PackParts \subseteq parts
=============================================================================
