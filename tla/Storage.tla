-------------------------------- MODULE Storage -------------------------------
(***************************************************************************)
(* The default storage of storage.c over the file functions of util.c: an  *)
(* entry is a file of its name in a directory that is made when the entry  *)
(* is first asked for, a write truncates the file before it fills it, a    *)
(* read takes what the file holds if that is JSON.  The process may die    *)
(* between any two system calls, the disk may be full, and something may   *)
(* be in the way of the directory.  The callers use an entry one at a time *)
(* (the configuration's under fetch_lock, the overrides' from the          *)
(* application's thread) but two entries at the same time.                 *)
(***************************************************************************)
EXTENDS Naturals

CONSTANTS
  Names,     \* the names of the entries
  Maps,      \* the maps of strings that are written
  Oversized, \* those whose text exceeds ROX_JSON_PRINT_BUFFER_SIZE
  Depth,     \* how many directories the location names
  Nothing

ASSUME StorageAssumption ==
  /\ Oversized \subseteq Maps
  /\ Depth \in Nat \ {0}
  /\ Nothing \notin Maps /\ {"missing", "torn"} \cap Maps = {}

VARIABLES
  running,   \* is there a process with a storage?
  made,      \* how many of the location's directories exist
  obstacle,  \* a file in the place of one of them, or no right to make it
  file,      \* what each entry's file holds
  entry,     \* the entries of the process
  op,        \* what it is doing with each of them
  read       \* what storage_read_string_key_value_map returned last

storageVars == <<running, made, obstacle, file, entry, op, read>>

NoObstacle == [kind |-> "none", at |-> 0]
Obstacles  == {NoObstacle} \cup [kind : {"file", "denied"}, at : 1 .. Depth]

Idle           == [doing |-> "nothing"]
Opening(i)     == [doing |-> "mkdirs", next |-> i]
Writing(m)     == [doing |-> "write", map |-> m]
IsIdle(n)      == op[n] = Idle
NoEntries      == [n \in Names |-> "none"]

StorageInit ==
  /\ running = FALSE
  /\ obstacle \in Obstacles
  /\ made \in 0 .. Depth
  /\ obstacle # NoObstacle => made = obstacle.at - 1
  /\ file = [n \in Names |-> "missing"]
  /\ entry = NoEntries
  /\ op = [n \in Names |-> Idle]
  /\ read = [n \in Names |-> Nothing]

-----------------------------------------------------------------------------
\* storage_create.
Create ==
  /\ ~running
  /\ running' = TRUE
  /\ UNCHANGED <<made, obstacle, file, entry, op, read>>

\* storage_free, or the end of the process, at any moment.
Stop ==
  /\ running
  /\ running' = FALSE
  /\ entry' = NoEntries
  /\ op' = [n \in Names |-> Idle]
  /\ UNCHANGED <<made, obstacle, file, read>>

\* Someone clears the way.
Unblock ==
  /\ obstacle # NoObstacle
  /\ obstacle' = NoObstacle
  /\ UNCHANGED <<running, made, file, entry, op, read>>

\* storage_get_entry of an entry there is not yet; it is added to the map before
\* default_storage_entry_init_func is called and stays there if that fails.
GetEntry(n) ==
  /\ running /\ entry[n] = "none" /\ IsIdle(n)
  /\ entry' = [entry EXCEPT ![n] = "no path"]
  /\ op' = [op EXCEPT ![n] = Opening(1)]
  /\ UNCHANGED <<running, made, obstacle, file, read>>

\* ensure_directory_exists: what stands there already is taken for a directory,
\* and nothing can be made below what is not one.
CanMake(i) ==
  \/ i <= made
  \/ i = made + 1 /\ obstacle \in {NoObstacle, [kind |-> "file", at |-> i]}

\* The next directory of mkdirs, and after the last one the path.
MakeDirectory(n) ==
  /\ op[n].doing = "mkdirs"
  /\ LET i == op[n].next
     IN IF CanMake(i)
        THEN /\ made' = IF i = made + 1 /\ obstacle = NoObstacle THEN i ELSE made
             /\ op' = [op EXCEPT ![n] = IF i = Depth THEN Idle ELSE Opening(i + 1)]
             /\ entry' = IF i = Depth THEN [entry EXCEPT ![n] = "path"] ELSE entry
        ELSE /\ op' = [op EXCEPT ![n] = Idle]
             /\ UNCHANGED <<made, entry>>
  /\ UNCHANGED <<running, obstacle, file, read>>

\* Can the file of an entry with a path be opened?
Reachable(n) == entry[n] = "path" /\ made = Depth

\* A write that opens the file for update.
BeginWriteInPlace(n, m) ==
  /\ running /\ IsIdle(n) /\ Reachable(n)
  /\ op' = [op EXCEPT ![n] = Writing(m)]
  /\ UNCHANGED <<running, made, obstacle, file, entry, read>>

\* storage_write_string_key_value_map: without a path, or a file that opens,
\* nothing happens; otherwise str_to_file truncates the file.
BeginWrite(n, m) ==
  /\ running /\ IsIdle(n) /\ Reachable(n)
  /\ op' = [op EXCEPT ![n] = Writing(m)]
  /\ file' = [file EXCEPT ![n] = "torn"]
  /\ UNCHANGED <<running, made, obstacle, entry, read>>

\* rox_json_print does not notice that a map does not fit.
TextWritten(m) == IF m \in Oversized THEN "torn" ELSE m

\* str_to_file has written everything, or the disk is full.
EndWrite(n) ==
  /\ op[n].doing = "write"
  /\ file' \in {[file EXCEPT ![n] = TextWritten(op[n].map)], file}
  /\ op' = [op EXCEPT ![n] = Idle]
  /\ UNCHANGED <<running, made, obstacle, entry, read>>

\* cJSON_Parse of what the file holds.
Parsed(content) == IF content \in Maps THEN content ELSE Nothing

\* storage_read_string_key_value_map.
Read(n) ==
  /\ running /\ IsIdle(n) /\ entry[n] # "none"
  /\ read' = [read EXCEPT ![n] = IF Reachable(n) THEN Parsed(file[n]) ELSE Nothing]
  /\ UNCHANGED <<running, made, obstacle, file, entry, op>>

\* storage_delete_entry, whose entry_delete the default storage does not have,
\* and the storage_get_entry that follows in rox_clear_overrides.
DeleteEntry(n) ==
  /\ running /\ IsIdle(n) /\ entry[n] # "none"
  /\ entry' = [entry EXCEPT ![n] = "no path"]
  /\ op' = [op EXCEPT ![n] = Opening(1)]
  /\ UNCHANGED <<running, made, obstacle, file, read>>

StorageNext ==
  \/ Create \/ Stop \/ Unblock
  \/ \E n \in Names :
       \/ GetEntry(n) \/ MakeDirectory(n)
       \/ \E m \in Maps : BeginWrite(n, m)
       \/ EndWrite(n) \/ Read(n) \/ DeleteEntry(n)

StorageSpec == StorageInit /\ [][StorageNext]_storageVars

-----------------------------------------------------------------------------
(***************************************************************************)
(* Properties.                                                             *)
(***************************************************************************)
\* The storage implements DurableMap: what a read returns is the map written
\* last or nothing, never a part of one, a mixture of two or the map of another
\* entry, whatever fails and wherever the process dies.
Putting(n) == IF op[n].doing = "write" THEN op[n].map ELSE Nothing

Durable == INSTANCE DurableMap WITH
  stored  <- [n \in Names |-> Parsed(file[n])],
  putting <- [n \in Names |-> Putting(n)],
  got     <- read

ImplementsDurableMap == Durable!Spec
=============================================================================
