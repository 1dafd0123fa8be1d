---------------------------- MODULE Pitr_proofs ----------------------------
(***************************************************************************)
(* Theorems about point-in-time recovery, for any number of seeded orders, *)
(* client orders and runs of the script:                                   *)
(*                                                                         *)
(*   PitrTypeCorrect       the state keeps its types                       *)
(*   OrdersAreKept         NothingVanishes                                 *)
(*   RecoveryIsExact       PromotedIsSnapshot                              *)
(*   ReuseIsConfined       ReusedIdsAreStranded                            *)
(*                                                                         *)
(* All three follow from PitrInv.  Up to the swap it compares the orders   *)
(* acknowledged with the active table (OrdersInv) and with the dump        *)
(* (DumpInv), after it with the two tables that the swap leaves (SwapInv). *)
(* ClockInv dates everything by the binlog, so that a row, the dump, the   *)
(* DELETE and the swap can be put in order.                                *)
(***************************************************************************)
EXTENDS Pitr, FiniteSetTheorems, TLAPS

----------------------------------------------------------------------------
(* The inductive invariant *)

Row == [id : Nat, tx : Nat, status : {"paid", "cancelled"}]
Table == [rows : SUBSET Row, next : Nat, customers : {"shopdb", "pitr"}]
LogEntry == [do : {"reset", "delete", "drop", "restore", "other"}]
            \cup [do : {"insert"}, rows : SUBSET Row]
Marks == [dump : Nat, delete : Nat, swap : Nat]

\* The places of the script, from the TRUNCATE to the swap.
Resetting == {"seed", "items", "snapshot"}
Reloading == {"replay", "dropBroken", "swap"}
Recovering == {"work", "delete", "note", "drop", "restore"} \cup Reloading

PitrTypeOK ==
    /\ at \in Resetting \cup Recovering \cup {"backup", "truncate", "done", "failed"}
    /\ run \in Nat /\ excluded \in Nat /\ orders \in Nat
    /\ tables \in [DOMAIN tables -> Table]
    /\ "orders" \in DOMAIN tables /\ DOMAIN tables \subseteq {"orders", "broken", "pitr"}
    /\ parent \in {"orders", "broken"}
    /\ dump \in Table /\ first \in Table
    /\ log \in Seq(LogEntry)
    /\ acked \subseteq Row
    /\ marks \in Marks

\* The transactions in log are those of the rows and marks, and those before.
ClockInv ==
    /\ \A row \in acked : row.tx <= Len(log)
    /\ marks.dump <= Len(log) /\ marks.delete <= Len(log) /\ marks.swap <= Len(log)

\* Until the swap no row of the active table is lost, and no id given twice.
OrdersInv ==
    /\ at \in Resetting \cup Recovering => marks.swap = 0
    /\ marks.swap = 0 =>
         /\ \A row \in acked : \/ row \in tables["orders"].rows
                               \/ row.status = "cancelled" /\ row.tx < marks.delete
         /\ \A row \in acked : row.id < tables["orders"].next
         /\ \A old, new \in acked : old.id = new.id => old.tx = new.tx
    /\ at \in Resetting => marks = NoMarks /\ tables["orders"].rows = acked

\* The dump is what was committed when it was taken, and pitr is the dump.
DumpInv ==
    /\ at \in Recovering \/ marks.swap # 0 =>
         /\ dump.rows = {row \in acked : row.tx <= marks.dump}
         /\ \A row \in acked : /\ row.tx <= marks.dump => row.id < dump.next
                               /\ row.status = "cancelled" => row.tx <= marks.dump
    /\ at \in Reloading =>
         /\ "pitr" \in DOMAIN tables
         /\ tables["pitr"].rows = dump.rows /\ tables["pitr"].next = dump.next

\* After the swap: orders goes on where the dump ended, and orders_broken is
\* the active table of before.
SwapInv ==
    marks.swap # 0 =>
      /\ marks.dump < marks.swap
      /\ \A row \in tables["orders"].rows : /\ row.id < tables["orders"].next
                                            /\ (row \in dump.rows \/ row.tx > marks.swap)
      /\ dump.rows \subseteq tables["orders"].rows
      /\ \A row \in acked :
           \/ /\ row.tx < marks.swap
              /\ \/ row \in Broken
                 \/ row.status = "cancelled" /\ row.tx < marks.delete
           \/ /\ row.tx > marks.swap
              /\ row \in tables["orders"].rows /\ row.id >= dump.next
      /\ dump.next <= tables["orders"].next
      /\ \A old, new \in acked :
           old.id = new.id /\ (old.tx < marks.swap <=> new.tx < marks.swap) => old.tx = new.tx

PitrInv == PitrTypeOK /\ ClockInv /\ OrdersInv /\ DumpInv /\ SwapInv

----------------------------------------------------------------------------
(* Rows that get the next n ids *)

Numbered(new, next, n) ==
    /\ \A row \in new : row.id \in next .. (next + n - 1)
    /\ \A i \in next .. (next + n - 1) : \E row \in new : row.id = i
    /\ \A row, other \in new : row.id = other.id => row = other

LEMMA NumberedCount ==
    ASSUME NEW new, NEW next \in Nat, NEW n \in Nat, Numbered(new, next, n)
    PROVE  Cardinality(new) = n
<1> DEFINE ids == next .. (next + n - 1)
           f == [i \in ids |-> CHOOSE row \in new : row.id = i]
<1>1. \A i \in ids : f[i] \in new /\ f[i].id = i
  BY DEF Numbered
<1>2. \A row \in new : row.id \in ids /\ f[row.id] = row
  BY <1>1 DEF Numbered
<1>3. f \in [ids -> new]
  BY <1>1
<1>4. \A i, j \in ids : f[i] = f[j] => i = j
  BY <1>1
<1>5. f \in Bijection(ids, new)
  <2> HIDE DEF f, ids
  <2>1. f \in Injection(ids, new)
    BY <1>3, <1>4 DEF Injection, IsInjective
  <2>2. f \in Surjection(ids, new)
    BY <1>2, <1>3 DEF Surjection
  <2>3. QED
    BY <2>1, <2>2 DEF Bijection
<1>6. IsFiniteSet(ids) /\ Cardinality(ids) = n
  <2> DEFINE last == next + n - 1
  <2>1. next \in Int /\ last \in Int
    OBVIOUS
  <2>2. (next > last => n = 0) /\ last - next + 1 = n
    OBVIOUS
  <2> HIDE DEF last
  <2>3. /\ IsFiniteSet(next .. last)
        /\ Cardinality(next .. last) = IF next > last THEN 0 ELSE last - next + 1
    BY <2>1, FS_Interval
  <2>4. QED
    BY <2>2, <2>3 DEF last
<1>7. ExistsBijection(ids, new)
  BY <1>5 DEF ExistsBijection
<1>8. QED
  <2> HIDE DEF f, ids
  <2>1. QED
    BY <1>6, <1>7, FS_Bijection

\* Inserted gives the rows the ids behind the counter, and moves it on.
LEMMA InsertedTable ==
    ASSUME NEW table \in Table, NEW new \in SUBSET Row, NEW n \in Nat,
           Numbered(new, table.next, n)
    PROVE  /\ Inserted(table, new) \in Table
           /\ Inserted(table, new).rows = table.rows \cup new
           /\ Inserted(table, new).next = table.next + n
<1>1. table.next \in Nat /\ table.rows \subseteq Row
  BY DEF Table
<1>2. Cardinality(new) = n
  BY <1>1, NumberedCount
<1>3. Inserted(table, new) = [table EXCEPT !.rows = table.rows \cup new,
                                           !.next = table.next + n]
  BY <1>2 DEF Inserted
<1>4. table.rows \cup new \in SUBSET Row /\ table.next + n \in Nat
  BY <1>1
<1>5. QED
  BY <1>3, <1>4 DEF Table

LEMMA RowsAreNumbered ==
    ASSUME NEW table \in Table, NEW n \in Nat, NEW tx \in Nat
    PROVE  /\ Rows(table, n, tx) \subseteq Row
           /\ Numbered(Rows(table, n, tx), table.next, n)
           /\ \A row \in Rows(table, n, tx) : row.tx = tx /\ row.status = "paid"
<1> DEFINE row(i) == [id |-> table.next + i, tx |-> tx, status |-> "paid"]
<1>1. table.next \in Nat
  BY DEF Table
<1>2. Rows(table, n, tx) = {row(i) : i \in 0 .. (n - 1)}
  BY DEF Rows
<1>3. \A i \in 0 .. (n - 1) : row(i) \in Row
  BY <1>1 DEF Row
<1>4. \A i \in table.next .. (table.next + n - 1) : i - table.next \in 0 .. (n - 1)
                                                    /\ row(i - table.next).id = i
  BY <1>1
<1>5. \A i \in 0 .. (n - 1) : row(i).id \in table.next .. (table.next + n - 1)
  BY <1>1
<1>6. \A i, j \in 0 .. (n - 1) : row(i).id = row(j).id => i = j
  BY <1>1
<1>7. Numbered(Rows(table, n, tx), table.next, n)
  <2>1. \A x \in Rows(table, n, tx) : x.id \in table.next .. (table.next + n - 1)
    BY <1>2, <1>5
  <2>2. \A i \in table.next .. (table.next + n - 1) :
           \E x \in Rows(table, n, tx) : x.id = i
    BY <1>2, <1>4
  <2>3. \A x, y \in Rows(table, n, tx) : x.id = y.id => x = y
    BY <1>2, <1>6
  <2>4. QED
    BY <2>1, <2>2, <2>3 DEF Numbered
<1>8. QED
  BY <1>2, <1>3, <1>7

\* The seeded orders: one of them is cancelled.
LEMMA SeededTable ==
    ASSUME NEW table \in Table, NEW tx \in Nat
    PROVE  \E new \in SUBSET Row :
             /\ Seeded(table, tx) = Inserted(table, new)
             /\ Numbered(new, table.next, Seeds)
             /\ \A row \in new : row.tx = tx
<1> DEFINE old == Rows(table, Seeds, tx)
           Marked(row) == IF row.id = table.next + Seeds - 1
                          THEN [row EXCEPT !.status = "cancelled"] ELSE row
           new == {Marked(row) : row \in old}
<1>1. Seeds \in Nat
  BY PitrAssumption
<1>2. /\ old \subseteq Row /\ Numbered(old, table.next, Seeds)
      /\ \A row \in old : row.tx = tx
  BY <1>1, RowsAreNumbered
<1>3. Seeded(table, tx) = Inserted(table, new)
  BY DEF Seeded
<1> HIDE DEF old
<1>4. \A row \in old : /\ Marked(row) \in Row /\ Marked(row).id = row.id
                       /\ Marked(row).tx = row.tx
  BY <1>2 DEF Row
<1> HIDE DEF Marked
<1>5. new \subseteq Row /\ \A row \in new : row.tx = tx
  BY <1>2, <1>4
<1>6. Numbered(new, table.next, Seeds)
  <2>1. \A x \in new : x.id \in table.next .. (table.next + Seeds - 1)
    BY <1>2, <1>4 DEF Numbered
  <2>2. \A i \in table.next .. (table.next + Seeds - 1) : \E x \in new : x.id = i
    BY <1>2, <1>4 DEF Numbered
  <2>3. \A x, y \in new : x.id = y.id => x = y
    BY <1>2, <1>4 DEF Numbered
  <2>4. QED
    BY <2>1, <2>2, <2>3 DEF Numbered
<1>7. QED
  BY <1>3, <1>5, <1>6

----------------------------------------------------------------------------
(* What a step does to the tables and the binlog *)

LEMMA Logged ==
    ASSUME PitrTypeOK, NEW entry \in LogEntry, Log(entry)
    PROVE  log' \in Seq(LogEntry) /\ Len(log') = Len(log) + 1 /\ Len(log) \in Nat
<1>1. log \in Seq(LogEntry) /\ log' = Append(log, entry)
  BY DEF PitrTypeOK, Log
<1>2. QED
  BY <1>1

LEMMA PlainEntries ==
    \A d \in {"reset", "delete", "drop", "restore", "other"} : [do |-> d] \in LogEntry
  BY DEF LogEntry

LEMMA PutTable ==
    ASSUME PitrTypeOK, NEW name \in {"orders", "broken", "pitr"}, NEW table \in Table,
           tables' = With(name, table)
    PROVE  /\ tables' \in [DOMAIN tables' -> Table]
           /\ DOMAIN tables' = DOMAIN tables \cup {name}
           /\ tables'[name] = table
           /\ \A n \in DOMAIN tables \ {name} : tables'[n] = tables[n]
  BY DEF PitrTypeOK, With

LEMMA DropTable ==
    ASSUME PitrTypeOK, NEW name \in {"broken", "pitr"},
           tables' = [n \in DOMAIN tables \ {name} |-> tables[n]]
    PROVE  /\ tables' \in [DOMAIN tables' -> Table]
           /\ DOMAIN tables' = DOMAIN tables \ {name}
           /\ \A n \in DOMAIN tables \ {name} : tables'[n] = tables[n]
  BY DEF PitrTypeOK

LEMMA OrdersTable ==
    ASSUME PitrTypeOK
    PROVE  /\ tables["orders"] \in Table
           /\ tables["orders"].rows \subseteq Row /\ tables["orders"].next \in Nat
           /\ Len(log) \in Nat /\ NextTx \in Nat
  BY DEF PitrTypeOK, Table, NextTx

\* The rows new are inserted into the active table, by the next transaction.
Adds(new) ==
    /\ new \subseteq Row
    /\ tables' \in [DOMAIN tables' -> Table] /\ DOMAIN tables' = DOMAIN tables
    /\ \A n \in DOMAIN tables \ {"orders"} : tables'[n] = tables[n]
    /\ tables'["orders"].rows = tables["orders"].rows \cup new
    /\ tables["orders"].next <= tables'["orders"].next
    /\ \A row \in new : /\ row.tx = Len(log) + 1
                        /\ tables["orders"].next <= row.id
                        /\ row.id < tables'["orders"].next
    /\ acked' = acked \cup new
    /\ log' \in Seq(LogEntry) /\ Len(log') = Len(log) + 1

LEMMA AddsNumbered ==
    ASSUME PitrTypeOK, NEW new \in SUBSET Row, NEW n \in Nat,
           Numbered(new, tables["orders"].next, n),
           \A row \in new : row.tx = Len(log) + 1,
           tables' = With("orders", Inserted(tables["orders"], new)),
           acked' = acked \cup new,
           log' \in Seq(LogEntry), Len(log') = Len(log) + 1
    PROVE  Adds(new)
<1> DEFINE old == tables["orders"]
<1>1. old \in Table /\ old.next \in Nat /\ "orders" \in DOMAIN tables
  BY OrdersTable DEF PitrTypeOK
<1>2. /\ Inserted(old, new) \in Table
      /\ Inserted(old, new).rows = old.rows \cup new
      /\ Inserted(old, new).next = old.next + n
  BY <1>1, InsertedTable
<1>3. /\ tables' \in [DOMAIN tables' -> Table]
      /\ DOMAIN tables' = DOMAIN tables \cup {"orders"}
      /\ tables'["orders"] = Inserted(old, new)
      /\ \A m \in DOMAIN tables \ {"orders"} : tables'[m] = tables[m]
  BY <1>2, PutTable
<1>4. \A row \in new : old.next <= row.id /\ row.id < old.next + n
  BY <1>1 DEF Numbered
<1>5. DOMAIN tables' = DOMAIN tables
  BY <1>1, <1>3
<1>6. /\ tables'["orders"].rows = old.rows \cup new
      /\ tables'["orders"].next = old.next + n
  BY <1>2, <1>3
<1>7. QED
  BY <1>1, <1>3, <1>4, <1>5, <1>6 DEF Adds

LEMMA InsertAdds ==
    ASSUME PitrTypeOK, NEW n \in Nat, Insert(n)
    PROVE  \E new : Adds(new) /\ \A row \in new : row.status = "paid"
<1> DEFINE new == Rows(tables["orders"], n, NextTx)
<1>1. /\ new \in SUBSET Row
      /\ Numbered(new, tables["orders"].next, n)
      /\ \A row \in new : row.tx = NextTx /\ row.status = "paid"
  BY OrdersTable, RowsAreNumbered
<1>2. /\ tables' = With("orders", Inserted(tables["orders"], new))
      /\ acked' = acked \cup new /\ Log([do |-> "insert", rows |-> new])
  BY DEF Insert
<1> HIDE DEF new
<1>3. [do |-> "insert", rows |-> new] \in LogEntry
  BY <1>1 DEF LogEntry
<1>4. log' \in Seq(LogEntry) /\ Len(log') = Len(log) + 1
  BY <1>2, <1>3, Logged
<1>5. Adds(new)
  BY <1>1, <1>2, <1>4, AddsNumbered DEF NextTx
<1>6. QED
  BY <1>1, <1>5

LEMMA SeedAdds ==
    ASSUME PitrTypeOK, Seed, tables["orders"].rows = acked
    PROVE  \E new : Adds(new)
<1>1. PICK new \in SUBSET Row :
        /\ Seeded(tables["orders"], NextTx) = Inserted(tables["orders"], new)
        /\ Numbered(new, tables["orders"].next, Seeds)
        /\ \A row \in new : row.tx = NextTx
  BY OrdersTable, SeededTable
<1>2. Seeds \in Nat
  BY PitrAssumption
<1>3. Inserted(tables["orders"], new).rows = tables["orders"].rows \cup new
  BY <1>1, <1>2, OrdersTable, InsertedTable
<1>4. /\ tables' = With("orders", Inserted(tables["orders"], new))
      /\ acked' = acked \cup (Inserted(tables["orders"], new).rows \ tables["orders"].rows)
      /\ Log([do |-> "reset"])
  BY <1>1 DEF Seed
<1>5. acked' = acked \cup new
  BY <1>3, <1>4
<1>6. log' \in Seq(LogEntry) /\ Len(log') = Len(log) + 1
  BY <1>4, PlainEntries, Logged
<1>7. Adds(new)
  BY <1>1, <1>2, <1>4, <1>5, <1>6, AddsNumbered DEF NextTx
<1>8. QED
  BY <1>7

----------------------------------------------------------------------------
(* Steps that insert, and steps that leave the active table alone *)

\* The script gets into a part of its run only step by step.
Onward == /\ at' \in Resetting \cup Recovering \cup {"backup", "truncate", "done", "failed"}
          /\ at' \in Resetting => at \in Resetting
          /\ at' \in Recovering => at \in Recovering
          /\ at' \in Reloading => at \in Reloading
          /\ run' \in Nat /\ excluded' \in Nat /\ orders' \in Nat

LEMMA AddsKeep ==
    ASSUME PitrInv, NEW new, Adds(new), Onward, UNCHANGED <<parent, dump, first, marks>>,
           \/ at = "seed" /\ at' = "items"
           \/ \A row \in new : row.status = "paid"
    PROVE  PitrInv'
<1> DEFINE now == tables["orders"]
           then == tables'["orders"]
<1>1. PitrTypeOK /\ ClockInv /\ OrdersInv /\ DumpInv /\ SwapInv
  BY DEF PitrInv
<1>2. /\ now.rows \subseteq Row /\ now.next \in Nat /\ Len(log) \in Nat
      /\ "orders" \in DOMAIN tables /\ acked \subseteq Row
      /\ marks.dump \in Nat /\ marks.delete \in Nat /\ marks.swap \in Nat
  BY <1>1, OrdersTable DEF PitrTypeOK, Marks
<1>3. /\ then.rows = now.rows \cup new /\ now.next <= then.next /\ acked' = acked \cup new
      /\ \A row \in new : /\ row \in Row /\ row.tx = Len(log) + 1
                          /\ now.next <= row.id /\ row.id < then.next
      /\ Len(log') = Len(log) + 1
  BY DEF Adds
<1>4. DOMAIN tables' = DOMAIN tables
      /\ \A n \in DOMAIN tables \ {"orders"} : tables'[n] = tables[n]
  BY DEF Adds
<1>5. PitrTypeOK'
  <2>1. acked' \subseteq Row
    BY <1>2, <1>3
  <2>2. tables' \in [DOMAIN tables' -> Table] /\ log' \in Seq(LogEntry)
    BY DEF Adds
  <2>3. QED
    BY <1>1, <1>4, <2>1, <2>2 DEF PitrTypeOK, Onward
<1>6. then.next \in Nat
  BY <1>5 DEF PitrTypeOK, Table
<1>7. \A row \in Row : row.id \in Nat /\ row.tx \in Nat
  BY DEF Row
<1>8. /\ \A row \in acked : row.tx <= Len(log)
      /\ marks.dump <= Len(log) /\ marks.delete <= Len(log) /\ marks.swap <= Len(log)
  BY <1>1 DEF ClockInv
<1>9. ClockInv'
  BY <1>2, <1>3, <1>7, <1>8 DEF ClockInv
<1>10. Broken' = Broken
  BY <1>4 DEF Broken
<1>11. OrdersInv'
  <2>1. at' \in Resetting \cup Recovering => marks.swap = 0
    BY <1>1 DEF OrdersInv, Onward
  <2>2. ASSUME marks.swap = 0
        PROVE  /\ \A row \in acked' : \/ row \in then.rows
                                      \/ row.status = "cancelled" /\ row.tx < marks.delete
               /\ \A row \in acked' : row.id < then.next
               /\ \A a, b \in acked' : a.id = b.id => a.tx = b.tx
    <3>1. /\ \A row \in acked : \/ row \in now.rows
                                \/ row.status = "cancelled" /\ row.tx < marks.delete
          /\ \A row \in acked : row.id < now.next
          /\ \A a, b \in acked : a.id = b.id => a.tx = b.tx
      BY <1>1, <2>2 DEF OrdersInv
    <3>2. \A row \in acked' : row.id < then.next
      BY <1>2, <1>3, <1>6, <1>7, <3>1
    <3>3. \A a, b \in acked' : a.id = b.id => a.tx = b.tx
      <4>1. \A a \in acked, b \in new : a.id # b.id
        BY <1>2, <1>3, <1>7, <3>1
      <4>2. QED
        BY <1>3, <3>1, <4>1
    <3>4. QED
      BY <1>3, <3>1, <3>2, <3>3
  <2>3. at' \in Resetting => marks = NoMarks /\ then.rows = acked'
    BY <1>1, <1>3 DEF OrdersInv, Onward
  <2>4. QED
    BY <2>1, <2>2, <2>3 DEF OrdersInv
<1>12. DumpInv'
  <2>1. ASSUME at' \in Recovering \/ marks.swap # 0
        PROVE  /\ dump.rows = {row \in acked' : row.tx <= marks.dump}
               /\ \A row \in acked' : /\ row.tx <= marks.dump => row.id < dump.next
                                      /\ row.status = "cancelled" => row.tx <= marks.dump
    <3>1. at \in Recovering \/ marks.swap # 0
      BY <2>1 DEF Onward
    <3>2. /\ dump.rows = {row \in acked : row.tx <= marks.dump}
          /\ \A row \in acked : /\ row.tx <= marks.dump => row.id < dump.next
                                /\ row.status = "cancelled" => row.tx <= marks.dump
      BY <1>1, <3>1 DEF DumpInv
    <3>3. \A row \in new : row.status = "paid"
      <4>1. at # "seed"
        BY <1>1, <3>1 DEF OrdersInv, Resetting, Recovering, Reloading
      <4>2. QED
        BY <4>1
    <3>4. \A row \in new : ~(row.tx <= marks.dump)
      BY <1>2, <1>3, <1>8
    <3>5. QED
      BY <1>3, <3>2, <3>3, <3>4
  <2>2. ASSUME at' \in Reloading
        PROVE  /\ "pitr" \in DOMAIN tables'
               /\ tables'["pitr"].rows = dump.rows /\ tables'["pitr"].next = dump.next
    BY <1>1, <1>4, <2>2 DEF DumpInv, Onward
  <2>3. QED
    BY <2>1, <2>2 DEF DumpInv
<1>13. SwapInv'
  <2> SUFFICES ASSUME marks.swap # 0
               PROVE  SwapInv'
    BY DEF SwapInv
  <2>1. /\ marks.dump < marks.swap
        /\ \A row \in now.rows : row.id < now.next /\ (row \in dump.rows \/ row.tx > marks.swap)
        /\ dump.rows \subseteq now.rows
        /\ \A row \in acked :
             \/ /\ row.tx < marks.swap
                /\ row \in Broken \/ (row.status = "cancelled" /\ row.tx < marks.delete)
             \/ row.tx > marks.swap /\ row \in now.rows /\ row.id >= dump.next
        /\ dump.next <= now.next
        /\ \A a, b \in acked :
             a.id = b.id /\ (a.tx < marks.swap <=> b.tx < marks.swap) => a.tx = b.tx
    BY <1>1 DEF SwapInv
  <2>2. dump.next \in Nat
    BY <1>1 DEF PitrTypeOK, Table
  <2>3. \A row \in new : row.tx > marks.swap /\ row.id >= dump.next
    BY <1>2, <1>3, <1>7, <1>8, <2>1, <2>2
  <2>4. \A row \in then.rows : row.id < then.next /\ (row \in dump.rows \/ row.tx > marks.swap)
    BY <1>2, <1>3, <1>6, <1>7, <2>1, <2>3
  <2>5. \A row \in acked' :
          \/ /\ row.tx < marks.swap
             /\ row \in Broken \/ (row.status = "cancelled" /\ row.tx < marks.delete)
          \/ row.tx > marks.swap /\ row \in then.rows /\ row.id >= dump.next
    BY <1>3, <2>1, <2>3
  <2>6. \A a, b \in acked' :
          a.id = b.id /\ (a.tx < marks.swap <=> b.tx < marks.swap) => a.tx = b.tx
    <3>1. ASSUME NEW a \in acked, NEW b \in new, ~(a.tx < marks.swap) PROVE a.id # b.id
      <4>1. a \in now.rows /\ a.id < now.next
        BY <2>1, <3>1
      <4>2. QED
        BY <1>2, <1>3, <1>7, <4>1
    <3>2. \A b \in new : ~(b.tx < marks.swap)
      BY <1>2, <1>3, <1>8
    <3>3. QED
      BY <1>3, <2>1, <3>1, <3>2
  <2>7. dump.next <= then.next
    BY <1>2, <1>3, <1>6, <2>1, <2>2
  <2>8. dump.rows \subseteq then.rows
    BY <1>3, <2>1
  <2>9. QED
    BY <1>10, <2>1, <2>4, <2>5, <2>6, <2>7, <2>8 DEF SwapInv
<1>14. QED
  BY <1>5, <1>9, <1>11, <1>12, <1>13 DEF PitrInv

LEMMA QuietKeeps ==
    ASSUME PitrInv, PitrTypeOK', at' \in Resetting => at \in Resetting,
           at' \in Recovering => at \in Recovering,
           UNCHANGED <<acked, marks, dump>>, tables'["orders"] = tables["orders"],
           Len(log') >= Len(log), marks.swap # 0 => Broken' = Broken,
           at' \in Reloading => /\ "pitr" \in DOMAIN tables'
                                /\ tables'["pitr"].rows = dump.rows
                                /\ tables'["pitr"].next = dump.next
    PROVE  PitrInv'
<1>1. PitrTypeOK /\ ClockInv /\ OrdersInv /\ DumpInv /\ SwapInv
  BY DEF PitrInv
<1>2. ClockInv'
  <2>1. /\ Len(log) \in Nat /\ Len(log') \in Nat /\ marks \in Marks
        /\ \A row \in acked : row.tx \in Nat
    BY <1>1 DEF PitrTypeOK, Row
  <2>2. QED
    BY <1>1, <2>1 DEF ClockInv, Marks
<1>3. OrdersInv'
  BY <1>1 DEF OrdersInv
<1>4. DumpInv'
  BY <1>1 DEF DumpInv
<1>5. SwapInv'
  BY <1>1 DEF SwapInv
<1>6. QED
  BY <1>2, <1>3, <1>4, <1>5 DEF PitrInv

----------------------------------------------------------------------------
(* The statements of the script *)

LEMMA Parts == ASSUME PitrInv
               PROVE  PitrTypeOK /\ ClockInv /\ OrdersInv /\ DumpInv /\ SwapInv
  BY DEF PitrInv

LEMMA PitrInvAtFirst == PitrInit => PitrInv
<1> SUFFICES ASSUME PitrInit PROVE PitrInv
  OBVIOUS
<1>1. NoTable \in Table
  BY DEF NoTable, Table
<1>2. Seeded(NoTable, 1) \in Table
  <2>1. PICK new \in SUBSET Row : /\ Seeded(NoTable, 1) = Inserted(NoTable, new)
                                  /\ Numbered(new, NoTable.next, Seeds)
    BY <1>1, SeededTable
  <2>2. Seeds \in Nat
    BY PitrAssumption
  <2>3. QED
    BY <1>1, <2>1, <2>2, InsertedTable
<1>3. tables = [n \in {"orders"} |-> Seeded(NoTable, 1)]
  BY DEF PitrInit
<1>4. /\ tables \in [DOMAIN tables -> Table] /\ DOMAIN tables = {"orders"}
      /\ tables["orders"] \in Table
  BY <1>2, <1>3
<1>5. log \in Seq(LogEntry) /\ Len(log) = 1
  BY PlainEntries DEF PitrInit
<1>6. marks \in Marks /\ marks.dump = 0 /\ marks.delete = 0 /\ marks.swap = 0
  BY DEF PitrInit, NoMarks, Marks
<1>7. PitrTypeOK
  BY <1>1, <1>4, <1>5, <1>6 DEF PitrInit, PitrTypeOK
<1>8. /\ acked = {} /\ at = "backup"
  BY DEF PitrInit
<1>9. ClockInv /\ OrdersInv /\ DumpInv /\ SwapInv
  BY <1>5, <1>6, <1>8 DEF ClockInv, OrdersInv, DumpInv, SwapInv, Resetting, Recovering, Reloading
<1>10. QED
  BY <1>7, <1>9 DEF PitrInv

\* A statement that is refused ends the script.
LEMMA FailKeeps == ASSUME PitrInv, NEW from, Fail(from) PROVE PitrInv'
<1>1. /\ at' = "failed" /\ UNCHANGED <<run, tables, parent, dump, first, log, excluded,
                                      orders, acked, marks>>
  BY DEF Fail
<1>2. PitrTypeOK'
  BY <1>1, Parts DEF PitrTypeOK
<1>3. Broken' = Broken /\ Len(log') >= Len(log)
  BY <1>1, Parts DEF Broken, PitrTypeOK
<1>4. QED
  BY <1>1, <1>2, <1>3, QuietKeeps DEF Resetting, Recovering, Reloading

LEMMA BackupKeeps == ASSUME PitrInv, Backup PROVE PitrInv'
<1>1. /\ at' = "truncate" /\ first' = tables["orders"]
      /\ UNCHANGED <<run, tables, parent, dump, log, excluded, orders, acked, marks>>
  BY DEF Backup, Step
<1>2. PitrTypeOK'
  BY <1>1, Parts, OrdersTable DEF PitrTypeOK
<1>3. Broken' = Broken /\ Len(log') >= Len(log)
  BY <1>1, Parts DEF Broken, PitrTypeOK
<1>4. QED
  BY <1>1, <1>2, <1>3, QuietKeeps DEF Resetting, Recovering, Reloading

LEMMA TruncateKeeps == ASSUME PitrInv, Truncate PROVE PitrInv'
<1>1. /\ at' = "seed" /\ acked' = {} /\ marks' = NoMarks
      /\ tables' = [tables EXCEPT !["orders"].rows = {}, !["orders"].next = 1]
      /\ UNCHANGED <<run, parent, dump, first, excluded, orders>>
      /\ Log([do |-> "reset"])
  BY DEF Truncate, Step
<1>2. PitrTypeOK
  BY Parts
<1>3. log' \in Seq(LogEntry) /\ Len(log') \in Nat
  BY <1>1, <1>2, PlainEntries, Logged
<1>4. /\ tables' \in [DOMAIN tables' -> Table] /\ DOMAIN tables' = DOMAIN tables
      /\ tables'["orders"].rows = {}
  <2> DEFINE table == [tables["orders"] EXCEPT !.rows = {}, !.next = 1]
  <2>1. table \in Table /\ table.rows = {}
    BY <1>2, OrdersTable DEF Table
  <2>2. tables' = [tables EXCEPT !["orders"] = table]
    BY <1>1
  <2> HIDE DEF table
  <2>3. QED
    BY <1>2, <2>1, <2>2 DEF PitrTypeOK
<1>5. marks' \in Marks /\ marks'.dump = 0 /\ marks'.delete = 0 /\ marks'.swap = 0
  BY <1>1 DEF NoMarks, Marks
<1>6. PitrTypeOK'
  BY <1>1, <1>2, <1>3, <1>4, <1>5 DEF PitrTypeOK, Resetting
<1>7. ClockInv' /\ OrdersInv' /\ DumpInv' /\ SwapInv'
  BY <1>1, <1>3, <1>4, <1>5
     DEF ClockInv, OrdersInv, DumpInv, SwapInv, Resetting, Recovering, Reloading
<1>8. QED
  BY <1>6, <1>7 DEF PitrInv

LEMMA SeedKeeps == ASSUME PitrInv, Seed PROVE PitrInv'
<1>1. /\ at = "seed" /\ at' = "items"
      /\ UNCHANGED <<run, parent, dump, first, excluded, orders, marks>>
  BY DEF Seed, Step
<1>2. PitrTypeOK /\ tables["orders"].rows = acked
  BY <1>1, Parts DEF OrdersInv, Resetting
<1>3. PICK new : Adds(new)
  BY <1>2, SeedAdds
<1>4. Onward
  BY <1>1, <1>2 DEF Onward, PitrTypeOK, Resetting, Recovering, Reloading
<1>5. QED
  BY <1>1, <1>3, <1>4, AddsKeep

LEMMA ItemsKeeps == ASSUME PitrInv, Items PROVE PitrInv'
<1>1. CASE Fail("items")
  BY <1>1, FailKeeps
<1>2. CASE /\ Step("items", "snapshot") /\ Log([do |-> "reset"])
           /\ UNCHANGED <<run, tables, parent, dump, first, excluded, orders, acked, marks>>
  <2>1. at = "items" /\ at' = "snapshot" /\ PitrTypeOK
    BY <1>2, Parts DEF Step
  <2>2. log' \in Seq(LogEntry) /\ Len(log') = Len(log) + 1 /\ Len(log) \in Nat
    BY <1>2, <2>1, PlainEntries, Logged
  <2>3. PitrTypeOK'
    BY <1>2, <2>1, <2>2 DEF PitrTypeOK, Resetting
  <2>4. Broken' = Broken
    BY <1>2 DEF Broken
  <2>5. QED
    BY <1>2, <2>1, <2>2, <2>3, <2>4, QuietKeeps DEF Resetting, Recovering, Reloading
<1>3. QED
  BY <1>1, <1>2 DEF Items

LEMMA SnapshotKeeps == ASSUME PitrInv, Snapshot PROVE PitrInv'
<1>1. /\ at = "snapshot" /\ at' = "work" /\ dump' = tables["orders"]
      /\ marks' = [marks EXCEPT !.dump = Len(log)]
      /\ UNCHANGED <<run, tables, parent, first, log, excluded, orders, acked>>
  BY DEF Snapshot, Step
<1>2. /\ PitrTypeOK /\ ClockInv
      /\ tables["orders"].rows = acked /\ marks.swap = 0 /\ marks.delete = 0
      /\ \A row \in acked : row.id < tables["orders"].next
      /\ \A old, new \in acked : old.id = new.id => old.tx = new.tx
  BY <1>1, Parts DEF OrdersInv, Resetting, NoMarks
<1>3. /\ marks' \in Marks /\ marks'.dump = Len(log) /\ marks'.delete = 0 /\ marks'.swap = 0
      /\ Len(log) \in Nat
  BY <1>1, <1>2 DEF PitrTypeOK, Marks
<1>4. PitrTypeOK'
  BY <1>1, <1>2, <1>3, OrdersTable DEF PitrTypeOK, Recovering
<1>5. \A row \in acked : row.tx <= Len(log)
  BY <1>2 DEF ClockInv
<1>6. ClockInv'
  BY <1>1, <1>3, <1>5 DEF ClockInv
<1>7. OrdersInv'
  BY <1>1, <1>2, <1>3 DEF OrdersInv, Resetting
<1>8. DumpInv'
  BY <1>1, <1>2, <1>3, <1>5 DEF DumpInv, Reloading
<1>9. SwapInv'
  BY <1>3 DEF SwapInv
<1>10. QED
  BY <1>4, <1>6, <1>7, <1>8, <1>9 DEF PitrInv

LEMMA SimulateWorkKeeps == ASSUME PitrInv, SimulateWork PROVE PitrInv'
<1>1. /\ at = "work" /\ at' = "delete" /\ Insert(2)
      /\ UNCHANGED <<run, parent, dump, first, excluded, orders, marks>>
  BY DEF SimulateWork, Step
<1>2. PitrTypeOK
  BY Parts
<1>3. PICK new : Adds(new) /\ \A row \in new : row.status = "paid"
  BY <1>1, <1>2, InsertAdds
<1>4. Onward
  BY <1>1, <1>2 DEF Onward, PitrTypeOK, Resetting, Recovering, Reloading
<1>5. QED
  BY <1>1, <1>3, <1>4, AddsKeep

LEMMA OrderKeeps == ASSUME PitrInv, Order PROVE PitrInv'
<1>1. /\ Insert(1) /\ orders' = orders + 1
      /\ UNCHANGED <<at, run, parent, dump, first, excluded, marks>>
  BY DEF Order
<1>2. PitrTypeOK
  BY Parts
<1>3. PICK new : Adds(new) /\ \A row \in new : row.status = "paid"
  BY <1>1, <1>2, InsertAdds
<1>4. Onward
  BY <1>1, <1>2 DEF Onward, PitrTypeOK
<1>5. QED
  BY <1>1, <1>3, <1>4, AddsKeep

LEMMA DeleteKeeps == ASSUME PitrInv, Delete PROVE PitrInv'
<1> DEFINE kept == {row \in tables["orders"].rows : row.status # "cancelled"}
<1>1. /\ at = "delete" /\ at' = "note"
      /\ tables' = [tables EXCEPT !["orders"].rows = kept]
      /\ marks' = [marks EXCEPT !.delete = NextTx]
      /\ UNCHANGED <<run, parent, dump, first, excluded, orders, acked>>
      /\ Log([do |-> "delete"])
  BY DEF Delete, Step
<1>2. PitrTypeOK /\ ClockInv /\ OrdersInv /\ DumpInv /\ marks.swap = 0
  BY <1>1, Parts DEF OrdersInv, Recovering
<1>3. log' \in Seq(LogEntry) /\ Len(log') = Len(log) + 1 /\ Len(log) \in Nat
  BY <1>1, <1>2, PlainEntries, Logged
<1>4. /\ tables' \in [DOMAIN tables' -> Table] /\ DOMAIN tables' = DOMAIN tables
      /\ tables'["orders"].rows = kept /\ tables'["orders"].next = tables["orders"].next
  <2> DEFINE table == [tables["orders"] EXCEPT !.rows = kept]
  <2>1. /\ table \in Table /\ table.rows = kept /\ table.next = tables["orders"].next
    BY <1>2, OrdersTable DEF Table
  <2>2. tables' = [tables EXCEPT !["orders"] = table]
    BY <1>1
  <2> HIDE DEF table
  <2>3. QED
    BY <1>2, <2>1, <2>2 DEF PitrTypeOK
<1>5. /\ marks' \in Marks /\ marks'.dump = marks.dump /\ marks'.delete = Len(log) + 1
      /\ marks'.swap = 0
  BY <1>1, <1>2, <1>3 DEF PitrTypeOK, Marks, NextTx
<1>6. PitrTypeOK'
  BY <1>1, <1>2, <1>3, <1>4, <1>5 DEF PitrTypeOK, Recovering
<1>7. \A row \in acked : row.tx \in Nat /\ row.tx <= Len(log)
  BY <1>2 DEF ClockInv, PitrTypeOK, Row
<1>8. ClockInv'
  <2>1. marks.dump \in Nat /\ marks.dump <= Len(log)
    BY <1>2 DEF ClockInv, PitrTypeOK, Marks
  <2>2. QED
    BY <1>1, <1>3, <1>5, <1>7, <2>1 DEF ClockInv
<1>9. OrdersInv'
  <2>1. \A row \in acked : row \in kept \/ (row.status = "cancelled" /\ row.tx < Len(log) + 1)
    <3>1. \A row \in acked : row \in tables["orders"].rows \/ row.status = "cancelled"
      BY <1>2 DEF OrdersInv
    <3>2. QED
      BY <1>3, <1>7, <3>1
  <2>2. /\ \A row \in acked : row.id < tables["orders"].next
        /\ \A old, new \in acked : old.id = new.id => old.tx = new.tx
    BY <1>2 DEF OrdersInv
  <2> HIDE DEF kept
  <2>3. QED
    BY <1>1, <1>4, <1>5, <2>1, <2>2 DEF OrdersInv, Resetting
<1>10. DumpInv'
  BY <1>1, <1>2, <1>5 DEF DumpInv, Recovering, Reloading
<1>11. SwapInv'
  BY <1>5 DEF SwapInv
<1>12. QED
  BY <1>6, <1>8, <1>9, <1>10, <1>11 DEF PitrInv

LEMMA NoteKeeps == ASSUME PitrInv, NoteAfterDelete PROVE PitrInv'
<1>1. /\ at = "note" /\ at' = "drop" /\ excluded' = Len(log)
      /\ UNCHANGED <<run, tables, parent, dump, first, log, orders, acked, marks>>
  BY DEF NoteAfterDelete, Step
<1>2. PitrTypeOK /\ Len(log) \in Nat
  BY Parts, OrdersTable
<1>3. PitrTypeOK'
  BY <1>1, <1>2 DEF PitrTypeOK, Recovering
<1>4. Broken' = Broken /\ Len(log') >= Len(log)
  BY <1>1, <1>2 DEF Broken
<1>5. QED
  BY <1>1, <1>3, <1>4, QuietKeeps DEF Resetting, Recovering, Reloading

LEMMA DropShadowKeeps == ASSUME PitrInv, DropShadow PROVE PitrInv'
<1>1. CASE Fail("drop")
  BY <1>1, FailKeeps
<1>2. CASE /\ Step("drop", "restore") /\ Log([do |-> "drop"])
           /\ tables' = [n \in DOMAIN tables \ {"pitr"} |-> tables[n]]
           /\ UNCHANGED <<run, parent, dump, first, excluded, orders, acked, marks>>
  <2>1. at = "drop" /\ at' = "restore" /\ PitrTypeOK
    BY <1>2, Parts DEF Step
  <2>2. log' \in Seq(LogEntry) /\ Len(log') = Len(log) + 1 /\ Len(log) \in Nat
    BY <1>2, <2>1, PlainEntries, Logged
  <2>3. /\ tables' \in [DOMAIN tables' -> Table] /\ DOMAIN tables' = DOMAIN tables \ {"pitr"}
        /\ \A n \in DOMAIN tables \ {"pitr"} : tables'[n] = tables[n]
    BY <1>2, <2>1, DropTable
  <2>4. PitrTypeOK'
    BY <1>2, <2>1, <2>2, <2>3 DEF PitrTypeOK, Recovering
  <2>5. tables'["orders"] = tables["orders"] /\ Broken' = Broken
    BY <2>1, <2>3 DEF PitrTypeOK, Broken
  <2>6. QED
    BY <1>2, <2>1, <2>2, <2>4, <2>5, QuietKeeps DEF Resetting, Recovering, Reloading
<1>3. QED
  BY <1>1, <1>2 DEF DropShadow

LEMMA RestoreKeeps == ASSUME PitrInv, Restore PROVE PitrInv'
<1>1. /\ at = "restore" /\ at' = "replay" /\ tables' = With("pitr", Restored)
      /\ UNCHANGED <<run, parent, dump, first, excluded, orders, acked, marks>>
      /\ Log([do |-> "restore"])
  BY DEF Restore, Step
<1>2. PitrTypeOK /\ marks.swap = 0
  BY <1>1, Parts DEF OrdersInv, Recovering
<1>3. /\ Restored \in Table /\ Restored.rows = dump.rows /\ Restored.next = dump.next
  BY <1>2 DEF Restored, PitrTypeOK, Table
<1>4. /\ tables' \in [DOMAIN tables' -> Table] /\ DOMAIN tables' = DOMAIN tables \cup {"pitr"}
      /\ tables'["pitr"] = Restored
      /\ \A n \in DOMAIN tables \ {"pitr"} : tables'[n] = tables[n]
  BY <1>1, <1>2, <1>3, PutTable
<1>5. log' \in Seq(LogEntry) /\ Len(log') = Len(log) + 1 /\ Len(log) \in Nat
  BY <1>1, <1>2, PlainEntries, Logged
<1>6. PitrTypeOK'
  BY <1>1, <1>2, <1>4, <1>5 DEF PitrTypeOK, Recovering, Reloading
<1>7. tables'["orders"] = tables["orders"]
  BY <1>2, <1>4 DEF PitrTypeOK
<1>8. QED
  BY <1>1, <1>2, <1>3, <1>4, <1>5, <1>6, <1>7, QuietKeeps DEF Resetting, Recovering, Reloading

\* The server has executed whatever mysqlbinlog prints of its own binlog.
LEMMA NothingIsReplayed == ASSUME PitrTypeOK PROVE Replayed = {}
<1>1. marks.dump \in Nat /\ Len(log) \in Nat
  BY OrdersTable DEF PitrTypeOK, Marks
<1>2. \A tx \in marks.dump + 1 .. Len(log) : tx \in 1 .. Len(log)
  BY <1>1
<1>3. Printed \subseteq 1 .. Len(log)
  BY <1>2 DEF Printed
<1>4. QED
  BY <1>3 DEF Replayed

LEMMA ReplayKeeps == ASSUME PitrInv, Replay PROVE PitrInv'
<1>1. PitrTypeOK /\ DumpInv /\ Replayed = {}
  BY Parts, NothingIsReplayed
<1>2. /\ at = "replay" /\ at' = "dropBroken" /\ tables' = tables
      /\ UNCHANGED <<run, parent, dump, first, log, excluded, orders, acked, marks>>
  BY <1>1 DEF Replay, Step
<1>3. PitrTypeOK'
  BY <1>1, <1>2 DEF PitrTypeOK, Recovering, Reloading
<1>4. Broken' = Broken /\ Len(log') >= Len(log)
  BY <1>1, <1>2, OrdersTable DEF Broken
<1>5. /\ "pitr" \in DOMAIN tables'
      /\ tables'["pitr"].rows = dump.rows /\ tables'["pitr"].next = dump.next
  BY <1>1, <1>2 DEF DumpInv, Reloading
<1>6. QED
  BY <1>2, <1>3, <1>4, <1>5, QuietKeeps DEF Resetting, Recovering, Reloading

LEMMA DropBrokenKeeps == ASSUME PitrInv, DropBroken PROVE PitrInv'
<1>1. CASE Fail("dropBroken")
  BY <1>1, FailKeeps
<1>2. CASE /\ Step("dropBroken", "swap") /\ Log([do |-> "other"])
           /\ tables' = [n \in DOMAIN tables \ {"broken"} |-> tables[n]]
           /\ UNCHANGED <<run, parent, dump, first, excluded, orders, acked, marks>>
  <2>1. at = "dropBroken" /\ at' = "swap" /\ PitrTypeOK
    BY <1>2, Parts DEF Step
  <2>2. log' \in Seq(LogEntry) /\ Len(log') = Len(log) + 1 /\ Len(log) \in Nat
    BY <1>2, <2>1, PlainEntries, Logged
  <2>3. /\ tables' \in [DOMAIN tables' -> Table] /\ DOMAIN tables' = DOMAIN tables \ {"broken"}
        /\ \A n \in DOMAIN tables \ {"broken"} : tables'[n] = tables[n]
    BY <1>2, <2>1, DropTable
  <2>4. PitrTypeOK'
    BY <1>2, <2>1, <2>2, <2>3 DEF PitrTypeOK, Recovering, Reloading
  <2>5. tables'["orders"] = tables["orders"]
    BY <2>1, <2>3 DEF PitrTypeOK
  <2>6. marks.swap = 0 /\ DumpInv
    BY <2>1, Parts DEF OrdersInv, Recovering, Reloading
  <2>7. /\ "pitr" \in DOMAIN tables'
        /\ tables'["pitr"].rows = dump.rows /\ tables'["pitr"].next = dump.next
    BY <2>1, <2>3, <2>6 DEF DumpInv, Reloading
  <2>8. QED
    BY <1>2, <2>1, <2>2, <2>4, <2>5, <2>6, <2>7, QuietKeeps
       DEF Resetting, Recovering, Reloading
<1>3. QED
  BY <1>1, <1>2 DEF DropBroken

LEMMA SwapKeeps == ASSUME PitrInv, Swap PROVE PitrInv'
<1>1. CASE Fail("swap")
  BY <1>1, FailKeeps
<1>2. CASE /\ Step("swap", "done") /\ tables' = Renamed
           /\ parent' = IF parent = "orders" THEN "broken" ELSE parent
           /\ marks' = [marks EXCEPT !.swap = NextTx]
           /\ Log([do |-> "other"])
           /\ UNCHANGED <<run, dump, first, excluded, orders, acked>>
  <2>1. at = "swap" /\ at' = "done" /\ PitrTypeOK /\ ClockInv /\ OrdersInv /\ DumpInv
    BY <1>2, Parts DEF Step
  <2>2. log' \in Seq(LogEntry) /\ Len(log') = Len(log) + 1 /\ Len(log) \in Nat
    BY <1>2, <2>1, PlainEntries, Logged
  <2>3. /\ marks.swap = 0 /\ "pitr" \in DOMAIN tables
        /\ tables["pitr"].rows = dump.rows /\ tables["pitr"].next = dump.next
        /\ dump.rows = {row \in acked : row.tx <= marks.dump}
        /\ \A row \in acked : /\ row.tx <= marks.dump => row.id < dump.next
                              /\ row.status = "cancelled" => row.tx <= marks.dump
    BY <2>1 DEF OrdersInv, DumpInv, Recovering, Reloading
  <2>4. /\ \A row \in acked : \/ row \in tables["orders"].rows
                              \/ row.status = "cancelled" /\ row.tx < marks.delete
        /\ \A a, b \in acked : a.id = b.id => a.tx = b.tx
    BY <2>1, <2>3 DEF OrdersInv
  <2>5. /\ marks' \in Marks /\ marks'.dump = marks.dump /\ marks'.delete = marks.delete
        /\ marks'.swap = Len(log) + 1
        /\ marks.dump \in Nat /\ marks.delete \in Nat
    BY <1>2, <2>1, <2>2 DEF PitrTypeOK, Marks, NextTx
  <2>6. /\ tables' \in [DOMAIN tables' -> Table] /\ DOMAIN tables' = {"orders", "broken"}
        /\ tables'["orders"] = tables["pitr"] /\ tables'["broken"] = tables["orders"]
    BY <1>2, <2>1, <2>3 DEF Renamed, PitrTypeOK
  <2>7. PitrTypeOK'
    BY <1>2, <2>1, <2>2, <2>5, <2>6 DEF PitrTypeOK
  <2>8. /\ \A row \in acked : row.tx \in Nat /\ row.tx <= Len(log)
        /\ marks.dump <= Len(log) /\ marks.delete <= Len(log)
    BY <2>1 DEF ClockInv, PitrTypeOK, Row
  <2>9. ClockInv'
    BY <1>2, <2>2, <2>5, <2>8 DEF ClockInv
  <2>10. OrdersInv'
    BY <2>1, <2>2, <2>5 DEF OrdersInv, Resetting, Recovering, Reloading
  <2>11. DumpInv'
    BY <1>2, <2>1, <2>3, <2>5 DEF DumpInv, Recovering, Reloading
  <2>12. SwapInv'
    <3>1. Broken' = tables["orders"].rows
      BY <2>6 DEF Broken
    <3>2. marks'.dump < marks'.swap /\ \A row \in acked : row.tx < marks'.swap
      BY <2>2, <2>5, <2>8
    <3>3. dump.next \in Nat
      BY <2>1 DEF PitrTypeOK, Table
    <3>4. /\ tables'["orders"].rows = dump.rows /\ tables'["orders"].next = dump.next
          /\ \A row \in dump.rows : row.id < dump.next
      BY <2>3, <2>6
    <3>5. QED
      BY <1>2, <2>4, <2>5, <3>1, <3>2, <3>3, <3>4 DEF SwapInv
  <2>13. QED
    BY <2>7, <2>9, <2>10, <2>11, <2>12 DEF PitrInv
<1>3. QED
  BY <1>1, <1>2 DEF Swap

LEMMA RunAgainKeeps == ASSUME PitrInv, RunAgain PROVE PitrInv'
<1>1. /\ at' = "backup" /\ run' = run + 1
      /\ UNCHANGED <<tables, parent, dump, first, log, excluded, orders, acked, marks>>
  BY DEF RunAgain, Step
<1>2. PitrTypeOK'
  BY <1>1, Parts DEF PitrTypeOK
<1>3. Broken' = Broken /\ Len(log') >= Len(log)
  BY <1>1, Parts DEF Broken, PitrTypeOK
<1>4. QED
  BY <1>1, <1>2, <1>3, QuietKeeps DEF Resetting, Recovering, Reloading

LEMMA SameStateKeeps == ASSUME PitrInv, UNCHANGED pitrVars PROVE PitrInv'
<1>1. /\ PitrTypeOK
      /\ UNCHANGED <<at, run, tables, parent, dump, first, log, excluded, orders, acked, marks>>
  BY Parts DEF pitrVars
<1>2. PitrTypeOK'
  BY <1>1 DEF PitrTypeOK
<1>3. Broken' = Broken /\ Len(log') >= Len(log)
  BY <1>1 DEF Broken, PitrTypeOK
<1>4. at' \in Reloading => /\ "pitr" \in DOMAIN tables'
                           /\ tables'["pitr"].rows = dump.rows
                           /\ tables'["pitr"].next = dump.next
  BY <1>1, Parts DEF DumpInv
<1>5. QED
  BY <1>1, <1>2, <1>3, <1>4, QuietKeeps

----------------------------------------------------------------------------
(* The theorems *)

LEMMA PitrInvariant == PitrSpec => []PitrInv
<1>1. PitrInv /\ [PitrNext]_pitrVars => PitrInv'
  BY BackupKeeps, TruncateKeeps, SeedKeeps, ItemsKeeps, SnapshotKeeps, SimulateWorkKeeps,
     DeleteKeeps, NoteKeeps, DropShadowKeeps, RestoreKeeps, ReplayKeeps, DropBrokenKeeps,
     SwapKeeps, RunAgainKeeps, OrderKeeps, SameStateKeeps DEF PitrNext
<1>2. QED
  BY <1>1, PitrInvAtFirst, PTL DEF PitrSpec

\* The tables, the dump, the binlog and the marks keep their types through
\* any number of runs of section E and with any orders of clients.
THEOREM PitrTypeCorrect == PitrSpec => []PitrTypeOK
<1>1. PitrInv => PitrTypeOK
  BY DEF PitrInv
<1>2. QED
  BY <1>1, PitrInvariant, PTL

\* No acknowledged order is destroyed, whatever clients insert between any two
\* statements: the DELETE's own rows apart, it is in orders or orders_broken.
THEOREM OrdersAreKept == PitrSpec => []NothingVanishes
<1>1. PitrInv => NothingVanishes
  <2> SUFFICES ASSUME PitrInv, NEW row \in acked
               PROVE  \/ row \in tables["orders"].rows \cup Broken
                      \/ row.status = "cancelled" /\ row.tx < marks.delete
    BY DEF NothingVanishes
  <2>1. CASE marks.swap = 0
    BY <2>1, Parts DEF OrdersInv
  <2>2. CASE marks.swap # 0
    BY <2>2, Parts DEF SwapInv
  <2>3. QED
    BY <2>1, <2>2
<1>2. QED
  BY <1>1, PitrInvariant, PTL

\* Of what was there before the swap the promoted table holds what was committed
\* when the dump was taken, and nothing else: the replay has no effect.
THEOREM RecoveryIsExact == PitrSpec => []PromotedIsSnapshot
<1>1. PitrInv => PromotedIsSnapshot
  <2> SUFFICES ASSUME PitrInv, marks.swap # 0
               PROVE  {row \in tables["orders"].rows : row.tx < marks.swap}
                        = {row \in acked : row.tx <= marks.dump}
    BY DEF PromotedIsSnapshot
  <2>1. /\ dump.rows = {row \in acked : row.tx <= marks.dump}
        /\ marks.dump \in Nat /\ marks.swap \in Nat /\ marks.dump < marks.swap
        /\ acked \subseteq Row /\ tables["orders"].rows \subseteq Row
    BY Parts, OrdersTable DEF DumpInv, SwapInv, PitrTypeOK, Marks
  <2>2. \A row \in Row : row.tx \in Nat
    BY DEF Row
  <2>3. \A row \in dump.rows : row.tx < marks.swap
    BY <2>1, <2>2
  <2>4. /\ \A row \in tables["orders"].rows : row \in dump.rows \/ row.tx > marks.swap
        /\ dump.rows \subseteq tables["orders"].rows
    BY Parts DEF SwapInv
  <2>5. {row \in tables["orders"].rows : row.tx < marks.swap} = dump.rows
    BY <2>1, <2>2, <2>3, <2>4
  <2>6. QED
    BY <2>1, <2>5
<1>2. QED
  BY <1>1, PitrInvariant, PTL

\* An id is given out twice only after the swap, and only when it was the id of
\* an order behind the dump, which is now in orders_broken.
THEOREM ReuseIsConfined == PitrSpec => []ReusedIdsAreStranded
<1>1. PitrInv => ReusedIdsAreStranded
  <2> SUFFICES ASSUME PitrInv, NEW old \in acked, NEW new \in acked,
                      old.id = new.id, old.tx < new.tx
               PROVE  /\ marks.swap # 0 /\ new.tx > marks.swap
                      /\ old.tx > marks.dump /\ old \in Broken
    BY DEF ReusedIdsAreStranded
  <2>1. /\ old.tx \in Nat /\ new.tx \in Nat /\ old.id \in Nat /\ dump.next \in Nat
        /\ marks.dump \in Nat /\ marks.swap \in Nat
    BY Parts DEF PitrTypeOK, Marks, Row, Table
  <2>2. marks.swap # 0
    BY <2>1, Parts DEF OrdersInv
  <2>3. new.tx > marks.swap /\ new.id >= dump.next /\ old.tx < marks.swap
    BY <2>1, <2>2, Parts DEF SwapInv
  <2>4. old.tx > marks.dump /\ old.status # "cancelled"
    BY <2>1, <2>2, <2>3, Parts DEF DumpInv
  <2>5. old \in Broken
    BY <2>1, <2>2, <2>3, <2>4, Parts DEF SwapInv
  <2>6. QED
    BY <2>2, <2>3, <2>4, <2>5
<1>2. QED
  BY <1>1, PitrInvariant, PTL
=============================================================================
