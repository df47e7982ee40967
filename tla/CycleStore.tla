------------------------------ MODULE CycleStore ------------------------------
(***************************************************************************)
(* CycleStore: the on-disk archive of cycles, one directory per cycle id   *)
(* and a rolling index.  save and prune_older_than are synchronous, so     *)
(* nothing else runs between their steps but a crash; each step is one     *)
(* effect on disk that survives it.                                        *)
(*                                                                         *)
(* The n-th call of save writes version n: its result, its events and an   *)
(* index row whose ended_at is n, the calls being ordered in time: the     *)
(* index is the set of its rows, which stand in it in the order of n.  A   *)
(* temporary file is not modelled: nothing reads it, the next write        *)
(* overwrites it, and pruning unlinks it with the rest.                    *)
(***************************************************************************)
EXTENDS Integers

CONSTANTS
  Cycles,     \* cycle ids
  MaxSaves,   \* bound on the calls of save
  MaxCrashes  \* bound on crashes

ASSUME CycleStoreAssumption == MaxSaves \in Nat /\ MaxCrashes \in Nat

Versions == 1..MaxSaves
Row == [cycle : Cycles, ended : Versions]

VARIABLES
  dirs,         \* the existing cycle directories
  result_json,  \* the version of each result.json, 0 when there is none
  events_jsonl, \* the same of each events.jsonl
  index,        \* the rows of index.jsonl
  pc,           \* the next step of the call in progress
  cycle,        \* the cycle being saved
  cutoff,       \* the argument of the last prune_older_than
  pruned,       \* the cycles it still has to remove
  survivors,    \* the rows it will keep
  saves, crashes, \* history: calls of save, crashes
  completed,    \* history: versions whose save returned
  condemned     \* history: cycles a prune began to remove, not saved since

storeVars == <<dirs, result_json, events_jsonl, index, pc, cycle, cutoff, pruned,
               survivors, saves, crashes, completed, condemned>>

StoreTypeOK ==
  /\ dirs \in SUBSET Cycles
  /\ result_json \in [Cycles -> 0..MaxSaves]
  /\ events_jsonl \in [Cycles -> 0..MaxSaves]
  /\ index \in SUBSET Row
  /\ pc \in {"idle", "result", "events", "index", "unlink", "rewrite"}
  /\ cycle \in Cycles
  /\ cutoff \in 0..(MaxSaves + 1)
  /\ pruned \in SUBSET Cycles /\ (pc = "unlink" <=> pruned # {})
  /\ survivors \in SUBSET Row
  /\ saves \in 0..MaxSaves /\ crashes \in 0..MaxCrashes
  /\ completed \in SUBSET Versions
  /\ condemned \in SUBSET Cycles

StoreInit ==
  /\ dirs = {}
  /\ result_json = [c \in Cycles |-> 0] /\ events_jsonl = [c \in Cycles |-> 0]
  /\ index = {}
  /\ pc = "idle" /\ cycle \in Cycles /\ cutoff = 0 /\ pruned = {}
  /\ survivors = {}
  /\ saves = 0 /\ crashes = 0 /\ completed = {} /\ condemned = {}

-----------------------------------------------------------------------------
(* save: mkdir, result.json, events.jsonl, one row appended to the index.  *)

SaveMkdir(c) ==
  /\ pc = "idle" /\ saves < MaxSaves
  /\ saves' = saves + 1
  /\ cycle' = c
  /\ dirs' = dirs \union {c}
  /\ pc' = "result"
  /\ UNCHANGED <<result_json, events_jsonl, index, cutoff, pruned, survivors,
                 crashes, completed, condemned>>

AfterResultBug == "index"     \* mutant: the row is appended, events forgotten
AfterResult == "events"

SaveResult ==
  /\ pc = "result"
  /\ result_json' = [result_json EXCEPT ![cycle] = saves]
  /\ pc' = AfterResult
  /\ UNCHANGED <<dirs, events_jsonl, index, cycle, cutoff, pruned, survivors,
                 saves, crashes, completed, condemned>>

SaveEvents ==
  /\ pc = "events"
  /\ events_jsonl' = [events_jsonl EXCEPT ![cycle] = saves]
  /\ pc' = "index"
  /\ UNCHANGED <<dirs, result_json, index, cycle, cutoff, pruned, survivors,
                 saves, crashes, completed, condemned>>

(* _build_index_entry: the summary is of the result and events just saved, *)
(* and ended_at the time of their terminal event.                          *)
EntryFor(c, version) == [cycle |-> c, ended |-> version]

SaveIndex ==
  /\ pc = "index"
  /\ index' = index \union {EntryFor(cycle, saves)}
  /\ pc' = "idle"
  /\ completed' = completed \union {saves}
  /\ condemned' = condemned \ {cycle}
  /\ UNCHANGED <<dirs, result_json, events_jsonl, cycle, cutoff, pruned,
                 survivors, saves, crashes>>

-----------------------------------------------------------------------------
(* prune_older_than: decide from the index, remove the directories, then   *)
(* rewrite the index without the pruned cycles' rows.                      *)

ExpiredBug(c, limit) ==       \* mutant: one old row is enough
  \E row \in index : row.cycle = c /\ row.ended < limit
Expired(c, limit) ==
  /\ \E row \in index : row.cycle = c
  /\ \A row \in index : row.cycle = c => row.ended < limit

FirstStepBug == "rewrite"     \* mutant: rows first, directories forgotten
FirstStep == "unlink"

RowsKept(old) == {row \in index : row.cycle \notin old}

(* With nothing to prune the call returns at once. *)
PruneBegin ==
  /\ pc = "idle"
  /\ \E limit \in 1..(MaxSaves + 1) :
       LET old == {c \in Cycles : Expired(c, limit)} IN
       /\ old # {}
       /\ cutoff' = limit
       /\ pruned' = old
       /\ condemned' = condemned \union old
       /\ survivors' = RowsKept(old)
  /\ pc' = FirstStep
  /\ UNCHANGED <<dirs, result_json, events_jsonl, index, cycle, saves, crashes,
                 completed>>

(* iterdir gives the files of a directory in any order. *)
PruneUnlink ==
  /\ pc = "unlink"
  /\ \E c \in pruned :
       \/ /\ result_json[c] # 0
          /\ result_json' = [result_json EXCEPT ![c] = 0]
          /\ UNCHANGED events_jsonl
       \/ /\ events_jsonl[c] # 0
          /\ events_jsonl' = [events_jsonl EXCEPT ![c] = 0]
          /\ UNCHANGED result_json
  /\ UNCHANGED <<dirs, index, pc, cycle, cutoff, pruned, survivors, saves,
                 crashes, completed, condemned>>

AfterRmdir(left) == IF left = {} THEN "rewrite" ELSE "unlink"

(* An emptied directory goes; one that a crashed prune removed already is  *)
(* skipped.                                                                *)
PruneRmdir ==
  /\ pc = "unlink"
  /\ \E c \in pruned :
       /\ result_json[c] = 0 /\ events_jsonl[c] = 0
       /\ dirs' = dirs \ {c}
       /\ pruned' = pruned \ {c}
  /\ pc' = AfterRmdir(pruned')
  /\ UNCHANGED <<result_json, events_jsonl, index, cycle, cutoff, survivors,
                 saves, crashes, completed, condemned>>

(* os.replace, or unlink when no row is left: atomic either way. *)
PruneRewrite ==
  /\ pc = "rewrite"
  /\ index' = survivors
  /\ survivors' = {} /\ pruned' = {}
  /\ pc' = "idle"
  /\ UNCHANGED <<dirs, result_json, events_jsonl, cycle, cutoff, saves,
                 crashes, completed, condemned>>

(* The process dies inside a call; the next one finds what is on disk.     *)
Crash ==
  /\ pc # "idle" /\ crashes < MaxCrashes
  /\ crashes' = crashes + 1
  /\ pc' = "idle" /\ pruned' = {} /\ survivors' = {}
  /\ UNCHANGED <<dirs, result_json, events_jsonl, index, cycle, cutoff, saves,
                 completed, condemned>>

(* load: the versions of result and events.  It raises for a cycle without *)
(* a result, and takes a missing events file for a run without events.     *)
Load(c) == [result |-> result_json[c], events |-> events_jsonl[c]]

Save == SaveResult \/ SaveEvents \/ SaveIndex
Prune == PruneUnlink \/ PruneRmdir \/ PruneRewrite

StoreNext ==
  \/ \E c \in Cycles : SaveMkdir(c)
  \/ Save \/ PruneBegin \/ Prune \/ Crash

StoreSpec == StoreInit /\ [][StoreNext]_storeVars

-----------------------------------------------------------------------------
(* Properties. *)

Indexed(c) == \E row \in index : row.cycle = c

(* Whatever the crashes, a cycle the index lists can be loaded, and at a   *)
(* version no older than its latest row, unless a prune that decided to    *)
(* drop it was cut short.                                                  *)
IndexedIsLoadable ==
  \A row \in index :
    row.cycle \notin condemned =>
      /\ Load(row.cycle).result >= row.ended
      /\ Load(row.cycle).events >= row.ended

(* No file of a cycle is removed while the index has a row of that cycle   *)
(* at or after the cutoff: a cycle saved again since is kept whole.        *)
PruneKeepsRecent ==
  [][\A c \in Cycles :
       result_json'[c] < result_json[c] \/ events_jsonl'[c] < events_jsonl[c]
         => \A row \in index : row.cycle = c => row.ended < cutoff]_storeVars

(* A prune that was cut short can be resumed: no file of a save that       *)
(* returned is left in a directory the index does not name, where no later *)
(* prune would find it.                                                    *)
PruneCanResume ==
  \A c \in dirs :
    Indexed(c) \/ {result_json[c], events_jsonl[c]} \intersect completed = {}
=============================================================================
