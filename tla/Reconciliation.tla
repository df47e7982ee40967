---------------------------- MODULE Reconciliation ----------------------------
(***************************************************************************)
(* The seed loaders, as callers of an EntityStore that operators edit too. *)
(* A loader walks the pages of its source.  It awaits each page, and then  *)
(* handles that page's rows without giving up the event loop: turn is the  *)
(* loader that has it.  A row is refused, left alone, planned (dry run) or *)
(* written.  A fetch that fails ends the run; the loader may be run again. *)
(*                                                                         *)
(* A row is its display name and its identifiers in the loader's order.    *)
(* A row without any only adds to skipped and is left out, like the        *)
(* provenance, one entry per upserted row.                                 *)
(***************************************************************************)
EXTENDS EntityStore, Sequences

CONSTANTS
  Loaders,   \* reconcile_from_jquants_master, reconcile_from_edinetdb_companies
  Feed,      \* the pages of each loader's source, each a sequence of rows
  Nobody,    \* the turn no loader has
  MaxRuns,   \* bound on the runs of each loader
  MaxEdits   \* bound on the edits of operators

Row == [name : Names, ids : Seq(Keys) \ {<<>>}]

ASSUME ReconciliationAssumption ==
  /\ Nobody \notin Loaders
  /\ Feed \in [Loaders -> Seq(Seq(Row))]
  /\ \A l \in Loaders : \A p \in DOMAIN Feed[l] : Feed[l][p] # <<>>
  /\ MaxRuns \in Nat /\ MaxEdits \in Nat

VARIABLES
  pc,       \* each loader: "idle", "fetch", "rows", "done" or "failed"
  turn,     \* the loader whose loop over rows holds the event loop, or Nobody
  page, pos, \* the page being fetched or handled, and the row in it
  dry_run,  \* its dry_run argument
  result,   \* its ReconcilerResult so far
  runs,     \* history: runs each loader began
  edits,    \* history: edits of operators
  since     \* history: see RerunIsNoop

loaderVars == <<pc, turn, page, pos, dry_run, result, runs, since>>
vars == <<storeVars, loaderVars, edits>>

Empty == [upserted |-> 0, skipped |-> 0, conflicts |-> 0]

LoaderTypeOK ==
  /\ pc \in [Loaders -> {"idle", "fetch", "rows", "done", "failed"}]
  /\ turn \in Loaders \union {Nobody}
  /\ \A l \in Loaders : pc[l] = "rows" <=> turn = l
  /\ page \in [Loaders -> Nat] /\ pos \in [Loaders -> Nat]
  /\ \A l \in Loaders : pc[l] \in {"fetch", "rows"} => page[l] \in 1..Len(Feed[l])
  /\ \A l \in Loaders : pc[l] = "rows" => pos[l] \in 1..Len(Feed[l][page[l]])
  /\ dry_run \in [Loaders -> BOOLEAN]
  /\ result \in [Loaders -> [upserted : Nat, skipped : Nat, conflicts : Nat]]
  /\ runs \in [Loaders -> 0..MaxRuns] /\ edits \in 0..MaxEdits
  /\ since \in [Loaders -> {"disturbed", "first", "settled", "again"}]

TypeOK == StoreTypeOK /\ LoaderTypeOK

Init ==
  /\ StoreInit
  /\ pc = [l \in Loaders |-> "idle"] /\ turn = Nobody
  /\ page = [l \in Loaders |-> 0] /\ pos = [l \in Loaders |-> 0]
  /\ dry_run = [l \in Loaders |-> FALSE]
  /\ result = [l \in Loaders |-> Empty]
  /\ runs = [l \in Loaders |-> 0] /\ edits = 0
  /\ since = [l \in Loaders |-> "disturbed"]

-----------------------------------------------------------------------------
(* A run: it begins, fetches a page, and a fetch may fail.                 *)

Begin(l, dry) ==
  /\ pc[l] \notin {"fetch", "rows"} /\ turn = Nobody /\ runs[l] < MaxRuns
  /\ Feed[l] # <<>>
  /\ pc' = [pc EXCEPT ![l] = "fetch"]
  /\ page' = [page EXCEPT ![l] = 1]
  /\ pos' = [pos EXCEPT ![l] = 0]
  /\ dry_run' = [dry_run EXCEPT ![l] = dry]
  /\ result' = [result EXCEPT ![l] = Empty]
  /\ runs' = [runs EXCEPT ![l] = @ + 1]
  /\ since' = [since EXCEPT ![l] = IF @ \in {"settled", "again"} /\ ~dry THEN "again"
                                   ELSE IF dry THEN "disturbed" ELSE "first"]
  /\ UNCHANGED <<storeVars, turn, edits>>

Fetch(l) ==
  /\ pc[l] = "fetch" /\ turn = Nobody
  /\ pc' = [pc EXCEPT ![l] = "rows"] /\ turn' = l
  /\ pos' = [pos EXCEPT ![l] = 1]
  /\ UNCHANGED <<storeVars, page, dry_run, result, runs, edits, since>>

FetchFails(l) ==
  /\ pc[l] = "fetch" /\ turn = Nobody
  /\ pc' = [pc EXCEPT ![l] = "failed"]
  /\ since' = [since EXCEPT ![l] = "disturbed"]
  /\ UNCHANGED <<storeVars, turn, page, pos, dry_run, result, runs, edits>>

-----------------------------------------------------------------------------
(* The row at hand, and the issuer that already holds the first of its     *)
(* identifiers to be held at all.                                          *)

CurrentRow(l) == Feed[l][page[l]][pos[l]]
IdSet(row) == {row.ids[n] : n \in DOMAIN row.ids}

OwnersOf(row) ==
  {i \in IssuerIds : \E n \in DOMAIN row.ids :
     /\ index[row.ids[n]] = i
     /\ \A m \in 1..(n - 1) : index[row.ids[m]] = NoIssuer}

(* The ids the row may be stored under: its owner's, else a fresh one.  A  *)
(* fresh id is one with no issuer: nothing in the store tells an id never  *)
(* used from the id of an issuer merged away.                              *)
TargetIdsBug(row) == {i \in IssuerIds : ~Live(i)}  \* mutant: always a fresh id
TargetIds(row) ==
  IF OwnersOf(row) # {} THEN OwnersOf(row) ELSE {i \in IssuerIds : ~Live(i)}

SameAsStored(i, row) ==
  Live(i) /\ issuers[i].name = row.name /\ issuers[i].identifiers = IdSet(row)

OtherEntity(i, row) == Live(i) /\ issuers[i].name # row.name

(* What the row adds to the result, and where the loop goes next.          *)
Tally(l, upserted, skipped, conflicts) ==
  [result EXCEPT ![l] = [upserted  |-> @.upserted + upserted,
                         skipped   |-> @.skipped + skipped,
                         conflicts |-> @.conflicts + conflicts]]

LastRow(l) == pos[l] = Len(Feed[l][page[l]])
LastPage(l) == page[l] = Len(Feed[l])

Advance(l) ==
  /\ pos' = [pos EXCEPT ![l] = IF LastRow(l) THEN 0 ELSE @ + 1]
  /\ page' = [page EXCEPT ![l] = IF LastRow(l) /\ ~LastPage(l) THEN @ + 1 ELSE @]
  /\ turn' = IF LastRow(l) THEN Nobody ELSE l
  /\ pc' = [pc EXCEPT ![l] = IF ~LastRow(l) THEN "rows"
                             ELSE IF LastPage(l) THEN "done" ELSE "fetch"]
  /\ UNCHANGED <<dry_run, runs, edits>>

Finishes(l) == LastRow(l) /\ LastPage(l)

(* since after a row that changed the store, or did not.                   *)
SinceAfter(l, conflicts, wrote) ==
  [m \in Loaders |->
    IF m # l THEN IF wrote THEN "disturbed" ELSE since[m]
    ELSE IF Finishes(l) /\ since[l] = "first"
         THEN IF conflicts = 0 THEN "settled" ELSE "disturbed"
         ELSE since[l]]

RowRefused(l) ==
  /\ turn = l
  /\ \E i \in TargetIds(CurrentRow(l)) :
       \/ OtherEntity(i, CurrentRow(l))
       \/ /\ ~SameAsStored(i, CurrentRow(l)) /\ ~dry_run[l]
          /\ Clashes(i, IdSet(CurrentRow(l)))
  /\ result' = Tally(l, 0, 1, 1)
  /\ since' = SinceAfter(l, 1, FALSE)
  /\ Advance(l) /\ UNCHANGED storeVars

RowUnchanged(l) ==
  /\ turn = l
  /\ \E i \in TargetIds(CurrentRow(l)) : SameAsStored(i, CurrentRow(l))
  /\ result' = Tally(l, 0, 1, 0)
  /\ since' = SinceAfter(l, result[l].conflicts, FALSE)
  /\ Advance(l) /\ UNCHANGED storeVars

RowPlanned(l) ==
  /\ turn = l /\ dry_run[l]
  /\ \E i \in TargetIds(CurrentRow(l)) :
       ~OtherEntity(i, CurrentRow(l)) /\ ~SameAsStored(i, CurrentRow(l))
  /\ result' = Tally(l, 1, 0, 0)
  /\ since' = SinceAfter(l, result[l].conflicts, FALSE)
  /\ Advance(l) /\ UNCHANGED storeVars

RowWritten(l) ==
  /\ turn = l /\ ~dry_run[l]
  /\ \E i \in TargetIds(CurrentRow(l)) :
       /\ ~OtherEntity(i, CurrentRow(l)) /\ ~SameAsStored(i, CurrentRow(l))
       /\ Upsert(i, CurrentRow(l).name, IdSet(CurrentRow(l)))
  /\ result' = Tally(l, 1, 0, 0)
  /\ since' = SinceAfter(l, result[l].conflicts, TRUE)
  /\ Advance(l)

-----------------------------------------------------------------------------
(* Operators edit the store whenever no loop over rows is running.         *)

Edit ==
  /\ turn = Nobody /\ edits < MaxEdits
  /\ \/ \E i \in IssuerIds, n \in Names, keys \in SUBSET Keys : Upsert(i, n, keys)
     \/ \E keep, drop \in IssuerIds : Merge(keep, drop)
  /\ edits' = edits + 1
  /\ since' = [l \in Loaders |-> "disturbed"]
  /\ UNCHANGED <<pc, turn, page, pos, dry_run, result, runs>>

Record ==
  /\ turn = Nobody
  /\ AppendRecord
  /\ UNCHANGED <<loaderVars, edits>>

Step(l) ==
  \/ \E dry \in BOOLEAN : Begin(l, dry)
  \/ Fetch(l) \/ FetchFails(l)
  \/ RowRefused(l) \/ RowUnchanged(l) \/ RowPlanned(l) \/ RowWritten(l)

Next == (\E l \in Loaders : Step(l)) \/ Edit \/ Record

Spec == Init /\ [][Next]_vars

-----------------------------------------------------------------------------
(* Running a loader again on the same input is a no-op (ENT-RECON-A2).     *)
(* since[l] is "again" when loader l runs again after a complete run       *)
(* without conflicts, nobody else having changed an issuer since that run  *)
(* began.  It holds when the rows of one source share no identifier.       *)
RerunIsNoop ==
  \A l \in Loaders : since[l] = "again" =>
    result[l].upserted = 0 /\ result[l].conflicts = 0
=============================================================================
