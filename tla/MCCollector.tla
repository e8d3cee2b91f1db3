------------------------------ MODULE MCCollector ------------------------------
(* Collector with two matches, a fixture of two events and two libraries.    *)
EXTENDS Collector, TLC

CONSTANTS m1, m2, daemon, other, table, column, index, later, side

LibraryOf == (daemon :> 1) @@ (other :> 2)
SinceOf == (table :> 0) @@ (column :> 0) @@ (index :> 1) @@ (later :> 2)
Table == column :> table

\* The second event was recorded with an earlier minute.
MinuteOf == <<1, 0>>
Shows == {m1 :> {1}, (m1 :> {2}) @@ (m2 :> {})}
=============================================================================
