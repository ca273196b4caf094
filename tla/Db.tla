--------------------------------- MODULE Db ---------------------------------
(***************************************************************************)
(* The store of the old server (app/server/vrac/db.js): a directory per    *)
(* table, a file per item.  The process keeps in memory the tables and the *)
(* items it knows; a crash or a restart loses them, the files stay.  All   *)
(* calls to the file system answer later.                                  *)
(***************************************************************************)
EXTENDS Integers, FiniteSets

CONSTANTS Table, MaxItems \* bound: items in memory

VARIABLES
  disk,     \* [Table -> the items with a file, or NoDirectory]
  tables,   \* [Table -> the items in memory, or NoTable]
  whole,    \* the tables of which every file is known
  loading,  \* of DB.load: "idle", "asked", or "tables" while those are read
  reading,  \* tables whose directory load reads
  mkdirs, writes, unlinks, \* calls of insertTable, insert and Item.remove the
                           \* disk has not answered
  calls, errors, \* DB.load: calls of its callback, those with an error
  lost      \* the tables of which an item was written over another

vars == <<disk, tables, whole, loading, reading, mkdirs, writes, unlinks, calls, errors, lost>>

NoDirectory == {-1}
NoTable == {-1}

Boot ==
  /\ tables' = [t \in Table |-> NoTable] /\ whole' = {} /\ loading' = "idle" /\ reading' = {}
  /\ mkdirs' = {} /\ writes' = {} /\ unlinks' = {} /\ calls' = 0 /\ errors' = 0

Init ==
  /\ disk = [t \in Table |-> NoDirectory] /\ lost = {}
  /\ tables = [t \in Table |-> NoTable] /\ whole = {} /\ loading = "idle" /\ reading = {}
  /\ mkdirs = {} /\ writes = {} /\ unlinks = {} /\ calls = 0 /\ errors = 0

Restart == Boot /\ UNCHANGED <<disk, lost>>

load ==
  /\ loading = "idle" /\ loading' = "asked"
  /\ UNCHANGED <<disk, tables, whole, reading, mkdirs, writes, unlinks, calls, errors, lost>>

\* The directory of the tables: a failure is thrown, each table is created
\* and its own directory asked for.
readTables ==
  /\ loading = "asked"
  /\ LET found == {t \in Table : disk[t] # NoDirectory}
     IN /\ loading' = "tables" /\ reading' = found
        /\ tables' = [t \in Table |-> IF t \in found THEN {} ELSE tables[t]]
        /\ whole' = whole \ found
        /\ calls' = IF found = {} THEN 1 ELSE 0
  /\ UNCHANGED <<disk, mkdirs, writes, unlinks, errors, lost>>

\* The callback of a table calls this.createItem, and this is not the table:
\* with an item there the process ends.
readItems(t) ==
  /\ t \in reading
  /\ IF disk[t] # {} THEN Boot
     ELSE /\ reading' = reading \ {t}
          /\ whole' = IF \A w \in writes : w[1] # t THEN whole \union {t} ELSE whole
          /\ calls' = IF reading' = {} /\ errors = 0 THEN calls + 1 ELSE calls
          /\ UNCHANGED <<tables, loading, mkdirs, writes, unlinks, errors>>
  /\ UNCHANGED <<disk, lost>>

readFails(t) ==
  /\ t \in reading /\ reading' = reading \ {t}
  /\ calls' = calls + 1 /\ errors' = errors + 1
  /\ UNCHANGED <<disk, tables, whole, loading, mkdirs, writes, unlinks, lost>>

\* insertTable: the table is there before its directory is, and without one.
insertTable(t) ==
  /\ tables[t] = NoTable
  /\ tables' = [tables EXCEPT ![t] = {}] /\ mkdirs' = mkdirs \union {t}
  /\ UNCHANGED <<disk, whole, loading, reading, writes, unlinks, calls, errors, lost>>

mkdir(t) ==
  /\ t \in mkdirs /\ mkdirs' = mkdirs \ {t}
  /\ \/ /\ disk[t] = NoDirectory
        /\ disk' = [disk EXCEPT ![t] = {}] /\ whole' = whole \union {t}
     \/ UNCHANGED <<disk, whole>>
  /\ UNCHANGED <<tables, loading, reading, writes, unlinks, calls, errors, lost>>

\* Mutant: the index is the number of items that were written.
calcIndex_written(t) == Cardinality({w \in writes : w[1] = t})

\* The last hole; there are none but past the end.
calcIndex(t) == Cardinality(tables[t])

insert(t) ==
  /\ tables[t] # NoTable
  /\ Cardinality(UNION {{u} \X (tables[u] \ NoTable) : u \in Table}) < MaxItems
  /\ tables' = [tables EXCEPT ![t] = @ \union {calcIndex(t)}]
  /\ writes' = writes \union {<<t, calcIndex(t)>>}
  /\ UNCHANGED <<disk, whole, loading, reading, mkdirs, unlinks, calls, errors, lost>>

writeFile(w) ==
  /\ w \in writes /\ writes' = writes \ {w}
  /\ LET t == w[1]
     IN \/ /\ disk[t] # NoDirectory
           /\ disk' = [disk EXCEPT ![t] = @ \union {w[2]}]
           /\ lost' = IF w[2] \in disk[t] THEN lost \union {t} ELSE lost
        \/ UNCHANGED <<disk, lost>>
  /\ UNCHANGED <<tables, whole, loading, reading, mkdirs, unlinks, calls, errors>>

\* Item.remove: the table keeps the item, and its index.
remove(t, i) ==
  /\ i \in tables[t] \ NoTable /\ unlinks' = unlinks \union {<<t, i>>}
  /\ UNCHANGED <<disk, tables, whole, loading, reading, mkdirs, writes, calls, errors, lost>>

unlink(u) ==
  /\ u \in unlinks /\ unlinks' = unlinks \ {u}
  /\ \/ disk' = [disk EXCEPT ![u[1]] = @ \ {u[2]}]
     \/ UNCHANGED disk
  /\ UNCHANGED <<tables, whole, loading, reading, mkdirs, writes, calls, errors, lost>>

Next ==
  \/ load \/ readTables \/ Restart
  \/ \E t \in Table : readItems(t) \/ readFails(t) \/ insertTable(t) \/ mkdir(t) \/ insert(t)
  \/ \E w \in writes : writeFile(w)
  \/ \E t \in Table : \E i \in tables[t] : remove(t, i)
  \/ \E u \in unlinks : unlink(u)

Spec == Init /\ [][Next]_vars

-----------------------------------------------------------------------------
(* An item is written over another one only in a table that the process    *)
(* took without having read its directory: one whose load had not answered,*)
(* one with writes still under way, or one that insertTable took up        *)
(* although the directory was there: the process knows of every file of    *)
(* the other tables, through crashes, errors and restarts.  And the        *)
(* callback of load is called once, but once for each table that fails.    *)
ItemsKept ==
  /\ \A t \in whole : lost' \ lost # {t} /\ disk[t] # NoDirectory /\ disk[t] \subseteq tables[t]
  /\ calls' <= (IF errors' = 0 THEN 1 ELSE errors')
NoItemLost == [][ItemsKept]_vars
=============================================================================
