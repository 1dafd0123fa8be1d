--------------------------------- MODULE Pitr ---------------------------------
(***************************************************************************)
(* Section E of scripts/05-backups.sh: the reset of shopdb, a snapshot,    *)
(* more work, the accidental DELETE, the restore into shopdb_pitr, the     *)
(* replay of the binlog and the RENAME that swaps the tables; and clients  *)
(* (scripts/07-parallel-writes.sh) that insert orders meanwhile.           *)
(*                                                                         *)
(* Each SQL statement is one step, and the script (set -e) ends where one  *)
(* fails.  A row of an orders table is [id, tx, status]: tx is the number  *)
(* of the transaction that inserted it, so two rows with one id are two    *)
(* orders.  customers and products matter for what refers to them only.    *)
(***************************************************************************)
EXTENDS Naturals, FiniteSets, Sequences
LOCAL Ext == INSTANCE SequencesExt

CONSTANTS Seeds,      \* orders of the reset; the last one is cancelled
          MaxOrders,  \* bound: orders of the clients, in all
          Runs        \* bound: times the script is run

ASSUME PitrAssumption == Seeds \in Nat \ {0} /\ MaxOrders \in Nat /\ Runs \in Nat \ {0}

VARIABLES
    at,      \* the next statement of the script
    run,     \* which run of the script this is
    tables,  \* orders tables that exist: "orders", "broken" (orders_broken)
             \* of shopdb and "pitr" of shopdb_pitr
    parent,  \* the table that the foreign key of order_items refers to
    dump,    \* /tmp/pitr_snapshot: the orders table
    first,   \* /tmp/shopdb_TS: the orders table of section B
    log,     \* the binlog since FLUSH BINARY LOGS, and before: transactions
    excluded,\* GTID_AFTER_DELETE: the transactions 1..excluded
    orders,  \* number of client orders so far
    acked,   \* ghost: orders inserted since the reset
    marks    \* ghost: number of transactions at the dump, DELETE and swap

pitrVars == <<at, run, tables, parent, dump, first, log, excluded, orders, acked, marks>>

NoMarks == [dump |-> 0, delete |-> 0, swap |-> 0]
NoTable == [rows |-> {}, next |-> 1, customers |-> "shopdb"]

(* External: InnoDB gives AUTO_INCREMENT ids in order. *)
Rows(table, count, tx) ==
    {[id |-> table.next + i, tx |-> tx, status |-> "paid"] : i \in 0..(count - 1)}
Inserted(table, new) ==
    [table EXCEPT !.rows = @ \cup new, !.next = @ + Cardinality(new)]

Ids(table) == {row.id : row \in table.rows}
With(name, table) == [n \in DOMAIN tables \cup {name} |-> IF n = name THEN table ELSE tables[n]]
Log(entry) == log' = Append(log, entry)
NextTx == Len(log) + 1

(* sql/init.sql has created the tables and inserted the same orders. *)
Seeded(table, tx) ==
    Inserted(table, {IF row.id = table.next + Seeds - 1
                       THEN [row EXCEPT !.status = "cancelled"] ELSE row :
                     row \in Rows(table, Seeds, tx)})
PitrInit ==
    /\ at = "backup" /\ run = 1
    /\ tables = [n \in {"orders"} |-> Seeded(NoTable, 1)]
    /\ parent = "orders"
    /\ dump = NoTable /\ first = NoTable
    /\ log = <<[do |-> "reset"]>> /\ excluded = 0
    /\ orders = 0 /\ acked = {} /\ marks = NoMarks

Step(from, to) == at = from /\ at' = to
Fail(from) == /\ at = from /\ at' = "failed"
              /\ UNCHANGED <<run, tables, parent, dump, first, log, excluded,
                             orders, acked, marks>>

(* Section B, the single database backup. *)
Backup == /\ Step("backup", "truncate")
          /\ first' = tables["orders"]
          /\ UNCHANGED <<run, tables, parent, dump, log, excluded, orders, acked, marks>>

(* TRUNCATE with foreign_key_checks=0 resets AUTO_INCREMENT. *)
Truncate ==
    /\ Step("truncate", "seed")
    /\ tables' = [tables EXCEPT !["orders"].rows = {}, !["orders"].next = 1]
    /\ acked' = {} /\ marks' = NoMarks
    /\ Log([do |-> "reset"])
    /\ UNCHANGED <<run, parent, dump, first, excluded, orders>>

Seed ==
    /\ Step("seed", "items")
    /\ LET table == Seeded(tables["orders"], NextTx) IN
         /\ tables' = With("orders", table)
         /\ acked' = acked \cup (table.rows \ tables["orders"].rows)
    /\ Log([do |-> "reset"])
    /\ UNCHANGED <<run, parent, dump, first, excluded, orders, marks>>

(* The new items name the orders 1..Seeds, literally; the foreign key asks *)
(* its parent for them.                                                    *)
Items ==
    IF ~(1..Seeds \subseteq Ids(tables[parent])) THEN Fail("items") ELSE
    /\ Step("items", "snapshot")
    /\ Log([do |-> "reset"])
    /\ UNCHANGED <<run, tables, parent, dump, first, excluded, orders, acked, marks>>

(* FLUSH BINARY LOGS; mysqldump --single-transaction. *)
Snapshot ==
    /\ Step("snapshot", "work")
    /\ dump' = tables["orders"]
    /\ marks' = [marks EXCEPT !.dump = Len(log)]
    /\ UNCHANGED <<run, tables, parent, first, log, excluded, orders, acked>>

(* An INSERT of count orders into the active table. *)
Insert(count) ==
    LET new == Rows(tables["orders"], count, NextTx) IN
      /\ tables' = With("orders", Inserted(tables["orders"], new))
      /\ acked' = acked \cup new
      /\ Log([do |-> "insert", rows |-> new])

SimulateWork ==
    /\ Step("work", "delete") /\ Insert(2)
    /\ UNCHANGED <<run, parent, dump, first, excluded, orders, marks>>

(* A client; between two statements of the reset too. *)
Order ==
    /\ orders < MaxOrders /\ at # "failed"
    /\ orders' = orders + 1 /\ Insert(1)
    /\ UNCHANGED <<at, run, parent, dump, first, excluded, marks>>

(* With foreign_key_checks=0, as items may name the orders deleted. *)
Delete ==
    /\ Step("delete", "note")
    /\ tables' = [tables EXCEPT !["orders"].rows = {row \in @ : row.status # "cancelled"}]
    /\ marks' = [marks EXCEPT !.delete = NextTx]
    /\ Log([do |-> "delete"])
    /\ UNCHANGED <<run, parent, dump, first, excluded, orders, acked>>

(* SELECT @@GLOBAL.gtid_executed, all of it. *)
NoteAfterDelete ==
    /\ Step("note", "drop")
    /\ excluded' = Len(log)
    /\ UNCHANGED <<run, tables, parent, dump, first, log, orders, acked, marks>>

(* External: MySQL drops no table, with its database or alone, that a      *)
(* foreign key of another database or table refers to.                     *)
DropShadow ==
    IF tables["orders"].customers = "pitr" THEN Fail("drop") ELSE
    /\ Step("drop", "restore")
    /\ tables' = [n \in DOMAIN tables \ {"pitr"} |-> tables[n]]
    /\ Log([do |-> "drop"])
    /\ UNCHANGED <<run, parent, dump, first, excluded, orders, acked, marks>>

(* mysql shopdb_pitr < dump: its orders refer to the customers next to it. *)
RestoredFirst == [first EXCEPT !.customers = "pitr"]   \* mutant: the file of section B
Restored == [dump EXCEPT !.customers = "pitr"]
Restore ==
    /\ Step("restore", "replay")
    /\ tables' = With("pitr", Restored)
    /\ Log([do |-> "restore"])
    /\ UNCHANGED <<run, parent, dump, first, excluded, orders, acked, marks>>

(* mysqlbinlog --exclude-gtids: what it prints of the current binlog, and  *)
(* (external) of that what a server executes that has executed 1..Len(log) *)
(* and skips every GTID it has.                                            *)
Printed == {tx \in marks.dump + 1 .. Len(log) : tx > excluded}
Replayed == Printed \ (1..Len(log))

(* The events name shopdb.orders, whatever database mysql was given, and   *)
(* an id that is there already ends the client; '|| true' hides it.        *)
Redo(state, tx) ==
    IF ~state.ok THEN state ELSE
    CASE log[tx].do = "insert" ->
            IF {row.id : row \in log[tx].rows} \cap Ids(state.tables["orders"]) # {}
            THEN [state EXCEPT !.ok = FALSE]
            ELSE [state EXCEPT !.tables["orders"] = Inserted(@, log[tx].rows)]
      [] log[tx].do = "drop" ->
            [state EXCEPT !.tables = [n \in DOMAIN @ \ {"pitr"} |-> @[n]]]
      [] log[tx].do = "restore" ->
            [state EXCEPT !.tables = [n \in DOMAIN @ \cup {"pitr"} |->
                                        IF n = "pitr" THEN Restored ELSE @[n]]]
      [] OTHER -> state
Replay ==
    /\ Step("replay", "dropBroken")
    /\ tables' = IF Replayed = {} THEN tables
                 ELSE Ext!FoldLeft(Redo, [ok |-> TRUE, tables |-> tables],
                               Ext!SetToSortSeq(Replayed, <)).tables
    /\ UNCHANGED <<run, parent, dump, first, log, excluded, orders, acked, marks>>

(* DROP TABLE IF EXISTS shopdb.orders_broken. *)
DropBroken ==
    IF "broken" \in DOMAIN tables /\ parent = "broken" THEN Fail("dropBroken") ELSE
    /\ Step("dropBroken", "swap")
    /\ tables' = [n \in DOMAIN tables \ {"broken"} |-> tables[n]]
    /\ Log([do |-> "other"])
    /\ UNCHANGED <<run, parent, dump, first, excluded, orders, acked, marks>>

(* RENAME TABLE, both at once; external: foreign keys follow the table.    *)
RenamedOver == [n \in {"orders"} |-> tables["pitr"]]   \* mutant: DROP, then RENAME
Renamed == [n \in {"orders", "broken"} |->
              IF n = "orders" THEN tables["pitr"] ELSE tables["orders"]]
Swap ==
    IF "pitr" \notin DOMAIN tables THEN Fail("swap") ELSE
    /\ Step("swap", "done")
    /\ tables' = Renamed
    /\ parent' = IF parent = "orders" THEN "broken" ELSE parent
    /\ marks' = [marks EXCEPT !.swap = NextTx]
    /\ Log([do |-> "other"])
    /\ UNCHANGED <<run, dump, first, excluded, orders, acked>>

(* The script is started again. *)
RunAgain == /\ run < Runs /\ Step("done", "backup")
            /\ run' = run + 1
            /\ UNCHANGED <<tables, parent, dump, first, log, excluded, orders, acked, marks>>

PitrNext == \/ Backup \/ Truncate \/ Seed \/ Items \/ Snapshot \/ SimulateWork \/ Delete
        \/ NoteAfterDelete \/ DropShadow \/ Restore \/ Replay \/ DropBroken \/ Swap
        \/ RunAgain \/ Order
PitrSpec == PitrInit /\ [][PitrNext]_pitrVars

-----------------------------------------------------------------------------
Broken == IF "broken" \in DOMAIN tables THEN tables["broken"].rows ELSE {}

(* No order that was acknowledged since the reset is destroyed: it is in   *)
(* the active table or in orders_broken, unless the DELETE meant it,       *)
(* whatever clients write between any two statements (05-backups.sh:267).  *)
NothingVanishes ==
    \A row \in acked : \/ row \in tables["orders"].rows \cup Broken
                       \/ row.status = "cancelled" /\ row.tx < marks.delete

(* Of what was there before the swap the promoted table holds exactly what *)
(* was committed when the snapshot was taken, the deleted orders included: *)
(* the replay adds nothing and destroys nothing (05-backups.sh:228-274).   *)
PromotedIsSnapshot ==
    marks.swap # 0 => {row \in tables["orders"].rows : row.tx < marks.swap}
                        = {row \in acked : row.tx <= marks.dump}

(* The id of an order is given to another one only after the swap, and     *)
(* only the id of one that came after the snapshot and was left behind in  *)
(* orders_broken: the restored table goes on with the snapshot's counter.  *)
ReusedIdsAreStranded ==
    \A old, new \in acked : old.id = new.id /\ old.tx < new.tx =>
        /\ marks.swap # 0 /\ new.tx > marks.swap
        /\ old.tx > marks.dump /\ old \in Broken

(* 05-backups.sh:303, "mysqlbinlog --exclude-gtids=<bad_gtid> - replay     *)
(* safe transactions": what was committed between snapshot and DELETE is   *)
(* in the promoted table.                                                  *)
SafeTransactionsReplayed ==
    marks.swap # 0 => \A row \in acked : row.tx < marks.delete => row \in tables["orders"].rows
=============================================================================
