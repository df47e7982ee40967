-------------------------- MODULE ReconciliationProofs --------------------------
(***************************************************************************)
(* The store's invariants, for every set of issuers, identifiers and       *)
(* sources and for any number of calls, and that loaders and operators     *)
(* together do to the store only what its methods do.                      *)
(***************************************************************************)
EXTENDS Reconciliation, TLAPS

(* The inductive invariant: the methods keep the types, the agreement of   *)
(* index and issuers, and the existence of whatever is named, but no one   *)
(* of them alone: a merge leaves nothing dangling only because the index   *)
(* leads to the dropped issuer through the identifiers it lists.           *)
StoreInv == StoreTypeOK /\ IndexAgrees /\ NoDangling

USE EntityStoreAssumption

(* The empty store satisfies the invariant.                                *)
LEMMA StoreInitInv == StoreInit => StoreInv
  BY DEF StoreInit, StoreInv, StoreTypeOK, IndexAgrees, NoDangling, Issuer, Absent

(* upsert_issuer keeps it: an identifier taken over was nobody's or the    *)
(* issuer's own, one given up leaves both the index and the issuer.        *)
LEMMA UpsertInv ==
  ASSUME StoreInv, NEW i \in IssuerIds, NEW n \in Names, NEW keys \in SUBSET Keys,
         Upsert(i, n, keys)
  PROVE  StoreInv'
<1> USE DEF StoreInv, Upsert
<1>1. StoreTypeOK'
  BY DEF StoreTypeOK, IndexAfter, Issuer, recordVars
<1>2. \A j \in IssuerIds : Live(j)' <=> Live(j) \/ j = i
  BY DEF Live, StoreTypeOK
<1>3. IndexAgrees'
  <2> SUFFICES ASSUME NEW k \in Keys, NEW j \in IssuerIds
               PROVE  (index[k] = j <=> k \in issuers[j].identifiers)'
    BY DEF IndexAgrees
  <2>1. index[k] = j <=> k \in issuers[j].identifiers
    BY DEF IndexAgrees
  <2>2. k \in keys => index[k] \in {i, NoIssuer}
    BY DEF Clashes
  <2>3. index'[k] = IF k \in keys THEN i ELSE IF index[k] = i THEN NoIssuer ELSE index[k]
    BY DEF IndexAfter
  <2>4. issuers'[j].identifiers = IF j = i THEN keys ELSE issuers[j].identifiers
    BY DEF StoreTypeOK
  <2> QED BY <2>1, <2>2, <2>3, <2>4
<1>4. NoDangling'
  <2>1. \A k \in Keys : index'[k] # NoIssuer => issuers'[index'[k]].name # NoName
    <3> SUFFICES ASSUME NEW k \in Keys, index'[k] # NoIssuer
                 PROVE  issuers'[index'[k]].name # NoName
      OBVIOUS
    <3>1. index'[k] = i \/ (index'[k] = index[k] /\ index[k] \in IssuerIds /\ Live(index[k]))
      BY DEF IndexAfter, NoDangling, StoreTypeOK
    <3> QED BY <1>2, <3>1 DEF Live
  <2>2. /\ \A f \in filings : f[2] \in IssuerIds
        /\ \A r \in relations : r[1] \in IssuerIds /\ r[2] \in IssuerIds
        /\ \A p \in market_points : p[1] \in IssuerIds
    BY DEF StoreTypeOK
  <2>3. /\ \A f \in filings : Live(f[2])'
        /\ \A r \in relations : Live(r[1])' /\ Live(r[2])'
        /\ \A p \in market_points : Live(p[1])'
    BY <1>2, <2>2 DEF NoDangling
  <2>4. filings' = filings /\ relations' = relations /\ market_points' = market_points
    BY DEF recordVars
  <2> QED BY <2>1, <2>3, <2>4 DEF NoDangling, Live
<1> QED BY <1>1, <1>3, <1>4

(* merge_issuers keeps it: whatever led to drop or named it now has keep.  *)
LEMMA MergeInv ==
  ASSUME StoreInv, NEW keep \in IssuerIds, NEW drop \in IssuerIds, Merge(keep, drop)
  PROVE  StoreInv'
<1> USE DEF StoreInv, Merge
<1> DEFINE merged == issuers[keep].identifiers \union issuers[drop].identifiers
<1>1. StoreTypeOK'
  <2>1. issuers' \in [IssuerIds -> Issuer]
    BY DEF StoreTypeOK, Issuer, Absent
  <2>2. index' \in [Keys -> IssuerIds \union {NoIssuer}]
    BY DEF StoreTypeOK
  <2>3. filings' \in SUBSET (Docs \X IssuerIds)
    BY DEF StoreTypeOK, Heir
  <2>4. relations' \in SUBSET (IssuerIds \X IssuerIds)
    BY DEF StoreTypeOK, Heir, HeirsOfRelation
  <2>5. market_points' \in SUBSET (IssuerIds \X Sources)
    BY DEF StoreTypeOK, Heir
  <2> QED BY <2>1, <2>2, <2>3, <2>4, <2>5 DEF StoreTypeOK
<1>2. /\ issuers'[drop] = Absent
      /\ issuers'[keep].identifiers = merged
      /\ issuers'[keep].name = issuers[keep].name
      /\ \A j \in IssuerIds \ {keep, drop} : issuers'[j] = issuers[j]
  BY DEF StoreTypeOK, Issuer
<1>3. \A j \in IssuerIds : Live(j)' <=> Live(j) /\ j # drop
  <2>1. ~Live(drop)' /\ (Live(keep)' <=> Live(keep)) /\ keep # drop
    BY <1>2 DEF Live, Absent
  <2>2. \A j \in IssuerIds \ {keep, drop} : Live(j)' <=> Live(j)
    BY <1>2 DEF Live
  <2> QED BY <2>1, <2>2
<1>4. IndexAgrees'
  <2> SUFFICES ASSUME NEW k \in Keys, NEW j \in IssuerIds
               PROVE  (index[k] = j <=> k \in issuers[j].identifiers)'
    BY DEF IndexAgrees
  <2>1. \A h \in IssuerIds : index[k] = h <=> k \in issuers[h].identifiers
    BY DEF IndexAgrees
  <2>2. index'[k] = IF k \in merged THEN keep ELSE index[k]
    OBVIOUS
  <2>3. CASE j = drop
    BY <1>2, <2>1, <2>2, <2>3 DEF Absent
  <2>4. CASE j = keep
    BY <1>2, <2>1, <2>2, <2>4
  <2>5. CASE j \notin {keep, drop}
    BY <1>2, <2>1, <2>2, <2>5
  <2> QED BY <2>3, <2>4, <2>5
<1>5. NoDangling'
  <2>1. \A k \in Keys : index'[k] # NoIssuer => issuers'[index'[k]].name # NoName
    <3> SUFFICES ASSUME NEW k \in Keys, index'[k] # NoIssuer
                 PROVE  issuers'[index'[k]].name # NoName
      OBVIOUS
    <3>1. CASE k \in merged
      BY <1>3, <3>1 DEF Live
    <3>2. CASE k \notin merged
      <4>1. index'[k] = index[k] /\ index[k] \in IssuerIds
        BY <3>2 DEF StoreTypeOK
      <4>2. index[k] # drop
        BY <3>2 DEF IndexAgrees
      <4>3. Live(index[k])
        BY <4>1 DEF NoDangling
      <4> QED BY <1>3, <4>1, <4>2, <4>3 DEF Live
    <3> QED BY <3>1, <3>2
  <2>2. \A j \in IssuerIds : Live(j) => Live(Heir(j, keep, drop))'
    BY <1>3 DEF Heir
  <2>3. \A f \in filings' : Live(f[2])'
    BY <2>2 DEF NoDangling, StoreTypeOK
  <2>4. \A r \in relations' : Live(r[1])' /\ Live(r[2])'
    BY <2>2 DEF NoDangling, StoreTypeOK, HeirsOfRelation
  <2>5. \A p \in market_points' : Live(p[1])'
    BY <2>2 DEF NoDangling, StoreTypeOK
  <2> QED BY <2>1, <2>3, <2>4, <2>5 DEF NoDangling, Live
<1> QED BY <1>1, <1>4, <1>5

(* The appends keep it, each having looked its issuers up.                 *)
LEMMA AppendInv == StoreInv /\ AppendRecord => StoreInv'
<1> SUFFICES ASSUME StoreInv, AppendRecord PROVE StoreInv'
  OBVIOUS
<1> USE DEF StoreInv, StoreTypeOK, IndexAgrees, NoDangling, Live
<1>1. ASSUME NEW d \in Docs, NEW i \in IssuerIds, AppendFiling(d, i)
      PROVE  StoreInv'
  BY <1>1 DEF AppendFiling
<1>2. ASSUME NEW from \in IssuerIds, NEW to \in IssuerIds, AppendRelation(from, to)
      PROVE  StoreInv'
  BY <1>2 DEF AppendRelation
<1>3. ASSUME NEW i \in IssuerIds, NEW s \in Sources, AppendMarketPoints(i, s)
      PROVE  StoreInv'
  BY <1>3 DEF AppendMarketPoints
<1> QED BY <1>1, <1>2, <1>3 DEF AppendRecord

(* A step of the store, or none, keeps the invariant.                      *)
LEMMA StoreNextInv == StoreInv /\ [StoreNext]_storeVars => StoreInv'
<1>1. StoreInv /\ UNCHANGED storeVars => StoreInv'
  BY DEF storeVars, StoreInv, StoreTypeOK, IndexAgrees, NoDangling, Live
<1> QED BY <1>1, UpsertInv, MergeInv, AppendInv DEF StoreNext

-----------------------------------------------------------------------------
(* An identifier that stays bound keeps its filings and points, whatever   *)
(* step the store takes.                                                   *)
LEMMA StoreNextHistory ==
  ASSUME StoreInv, StoreNext
  PROVE  HistoryFollowsIdentifier
<1> SUFFICES ASSUME NEW k \in Keys, index[k] # NoIssuer, index'[k] # NoIssuer
             PROVE  /\ \A f \in filings : f[2] = index[k] => <<f[1], index'[k]>> \in filings'
                    /\ \A p \in market_points :
                         p[1] = index[k] => <<index'[k], p[2]>> \in market_points'
  BY DEF HistoryFollowsIdentifier
<1> USE DEF StoreInv, StoreTypeOK
<1>0. /\ \A f \in filings : f = <<f[1], f[2]>>
      /\ \A p \in market_points : p = <<p[1], p[2]>>
  OBVIOUS
<1>1. ASSUME index'[k] = index[k], filings \subseteq filings',
             market_points \subseteq market_points'
      PROVE  /\ \A f \in filings : f[2] = index[k] => <<f[1], index'[k]>> \in filings'
             /\ \A p \in market_points :
                  p[1] = index[k] => <<index'[k], p[2]>> \in market_points'
  BY <1>0, <1>1
<1>2. ASSUME NEW i \in IssuerIds, NEW n \in Names, NEW keys \in SUBSET Keys,
             Upsert(i, n, keys)
      PROVE  /\ \A f \in filings : f[2] = index[k] => <<f[1], index'[k]>> \in filings'
             /\ \A p \in market_points :
                  p[1] = index[k] => <<index'[k], p[2]>> \in market_points'
  BY <1>1, <1>2 DEF Upsert, IndexAfter, Clashes, recordVars
<1>3. ASSUME NEW keep \in IssuerIds, NEW drop \in IssuerIds, Merge(keep, drop)
      PROVE  /\ \A f \in filings : f[2] = index[k] => <<f[1], index'[k]>> \in filings'
             /\ \A p \in market_points :
                  p[1] = index[k] => <<index'[k], p[2]>> \in market_points'
  <2>1. index[k] \in IssuerIds /\ k \in issuers[index[k]].identifiers
    BY DEF IndexAgrees
  <2>2. index'[k] = Heir(index[k], keep, drop)
    BY <1>3, <2>1 DEF Merge, Heir, IndexAgrees
  <2>3. /\ filings' = {<<f[1], Heir(f[2], keep, drop)>> : f \in filings}
        /\ market_points' = {<<Heir(p[1], keep, drop), p[2]>> : p \in market_points}
    BY <1>3 DEF Merge
  <2> QED BY <2>2, <2>3
<1>4. ASSUME AppendRecord
      PROVE  index' = index /\ filings \subseteq filings' /\ market_points \subseteq market_points'
  BY <1>4 DEF AppendRecord, AppendFiling, AppendRelation, AppendMarketPoints
<1> QED BY <1>1, <1>2, <1>3, <1>4 DEF StoreNext

(* The invariant of the store, for whoever calls its methods.              *)
THEOREM StoreInvariant == StoreSpec => []StoreInv
  BY StoreInitInv, StoreNextInv, PTL DEF StoreSpec

(* The index and the issuers agree after any sequence of calls.            *)
THEOREM IndexAlwaysAgrees == StoreSpec => []IndexAgrees
<1>1. StoreInv => IndexAgrees
  BY DEF StoreInv
<1> QED BY <1>1, StoreInvariant, PTL

(* Nothing the store names is ever missing: no lookup raises KeyError.     *)
THEOREM NeverDangling == StoreSpec => []NoDangling
<1>1. StoreInv => NoDangling
  BY DEF StoreInv
<1> QED BY <1>1, StoreInvariant, PTL

(* No call cuts an identifier that stays bound off from its history.       *)
THEOREM HistoryAlwaysFollows == StoreSpec => HistoryFollows
<1>1. StoreInv /\ [StoreNext]_storeVars => [HistoryFollowsIdentifier]_storeVars
  BY StoreNextHistory
<1> QED BY <1>1, StoreInvariant, PTL DEF StoreSpec, HistoryFollows

-----------------------------------------------------------------------------
(* The loaders write through upsert_issuer alone, and a row's target is an *)
(* issuer id.                                                              *)
LEMMA StepIsStoreStep ==
  ASSUME ReconciliationAssumption, TypeOK, [Next]_vars
  PROVE  [StoreNext]_storeVars
<1>1. ASSUME NEW l \in Loaders, Step(l)
      PROVE  [StoreNext]_storeVars
  <2>1. CASE RowWritten(l)
    <3>1. CurrentRow(l) \in Row
      <4>1. page[l] \in 1..Len(Feed[l]) /\ pos[l] \in 1..Len(Feed[l][page[l]])
        BY <2>1 DEF RowWritten, TypeOK, LoaderTypeOK
      <4>2. Feed[l] \in Seq(Seq(Row))
        BY DEF ReconciliationAssumption
      <4>3. Feed[l][page[l]] \in Seq(Row)
        BY <4>1, <4>2
      <4> QED BY <4>1, <4>3 DEF CurrentRow
    <3>2. CurrentRow(l).name \in Names /\ IdSet(CurrentRow(l)) \in SUBSET Keys
      BY <3>1 DEF Row, IdSet
    <3>3. PICK i \in TargetIds(CurrentRow(l)) :
            Upsert(i, CurrentRow(l).name, IdSet(CurrentRow(l)))
      BY <2>1 DEF RowWritten
    <3>4. i \in IssuerIds
      BY DEF TargetIds, OwnersOf
    <3> QED BY <3>2, <3>3, <3>4 DEF StoreNext
  <2>2. CASE \E dry \in BOOLEAN : Begin(l, dry)
    BY <2>2 DEF Begin
  <2>3. CASE Fetch(l) \/ FetchFails(l)
    BY <2>3 DEF Fetch, FetchFails
  <2>4. CASE RowRefused(l) \/ RowUnchanged(l) \/ RowPlanned(l)
    BY <2>4 DEF RowRefused, RowUnchanged, RowPlanned
  <2> QED BY <1>1, <2>1, <2>2, <2>3, <2>4 DEF Step
<1>2. CASE Edit
  BY <1>2 DEF Edit, StoreNext
<1>3. CASE Record
  BY <1>3 DEF Record, StoreNext
<1>4. CASE UNCHANGED vars
  BY <1>4 DEF vars
<1> QED BY <1>1, <1>2, <1>3, <1>4 DEF Next

(* The loaders' own state keeps its types; in particular a loop over rows  *)
(* stays inside its page and the pages inside the source.                  *)
LEMMA LoaderTyping ==
  ASSUME ReconciliationAssumption, TypeOK, [Next]_vars
  PROVE  LoaderTypeOK'
<1> USE DEF TypeOK, LoaderTypeOK, ReconciliationAssumption
<1>1. ASSUME NEW l \in Loaders, NEW dry \in BOOLEAN, Begin(l, dry)
      PROVE  LoaderTypeOK'
  <2>1. 1 \in 1..Len(Feed[l])
    <3>1. Feed[l] \in Seq(Seq(Row)) /\ Feed[l] # <<>>
      BY <1>1 DEF Begin
    <3> QED BY <3>1
  <2>2. result' \in [Loaders -> [upserted : Nat, skipped : Nat, conflicts : Nat]]
    BY <1>1 DEF Begin, Empty
  <2>3. runs' \in [Loaders -> 0..MaxRuns]
    BY <1>1 DEF Begin
  <2>4. \A m \in Loaders : pc'[m] \in {"fetch", "rows"} => page'[m] \in 1..Len(Feed[m])
    BY <1>1, <2>1 DEF Begin
  <2>5. \A m \in Loaders : pc'[m] = "rows" <=> turn' = m
    BY <1>1 DEF Begin
  <2>6. \A m \in Loaders : pc'[m] = "rows" => pos'[m] \in 1..Len(Feed[m][page'[m]])
    BY <1>1, <2>5 DEF Begin
  <2> QED BY <1>1, <2>2, <2>3, <2>4, <2>5, <2>6 DEF Begin
<1>2. ASSUME NEW l \in Loaders, Fetch(l)
      PROVE  LoaderTypeOK'
  <2>1. Feed[l][page[l]] \in Seq(Row) /\ Feed[l][page[l]] # <<>>
    BY <1>2 DEF Fetch
  <2>2. 1 \in 1..Len(Feed[l][page[l]])
    BY <2>1
  <2>3. \A m \in Loaders : pc'[m] = "rows" <=> turn' = m
    BY <1>2 DEF Fetch
  <2>4. \A m \in Loaders : pc'[m] = "rows" => pos'[m] \in 1..Len(Feed[m][page'[m]])
    BY <1>2, <2>2, <2>3 DEF Fetch
  <2>5. \A m \in Loaders : pc'[m] \in {"fetch", "rows"} => page'[m] \in 1..Len(Feed[m])
    BY <1>2 DEF Fetch
  <2> QED BY <1>2, <2>3, <2>4, <2>5 DEF Fetch
<1>3. ASSUME NEW l \in Loaders, FetchFails(l)
      PROVE  LoaderTypeOK'
  BY <1>3 DEF FetchFails
<1>4. ASSUME NEW l \in Loaders, turn = l, Advance(l),
             NEW conflicts \in Nat, NEW wrote \in BOOLEAN,
             since' = SinceAfter(l, conflicts, wrote),
             NEW u \in Nat, NEW s \in Nat, NEW c \in Nat,
             result' = Tally(l, u, s, c)
      PROVE  LoaderTypeOK'
  <2> USE <1>4
  <2>1. /\ page[l] \in 1..Len(Feed[l])
        /\ Feed[l][page[l]] \in Seq(Row)
        /\ pos[l] \in 1..Len(Feed[l][page[l]])
        /\ Feed[l] \in Seq(Seq(Row))
    OBVIOUS
  <2>2. /\ page' \in [Loaders -> Nat] /\ pos' \in [Loaders -> Nat]
        /\ pc' \in [Loaders -> {"idle", "fetch", "rows", "done", "failed"}]
        /\ turn' \in Loaders \union {Nobody}
    <3>1. pos[l] + 1 \in Nat /\ page[l] + 1 \in Nat
      <4>1. pos[l] \in Nat /\ page[l] \in Nat
        OBVIOUS
      <4> HIDE <1>4 DEF TypeOK, LoaderTypeOK, ReconciliationAssumption
      <4> QED BY <4>1
    <3>2. page' \in [Loaders -> Nat] /\ pos' \in [Loaders -> Nat]
      BY <3>1 DEF Advance
    <3>3. pc' \in [Loaders -> {"idle", "fetch", "rows", "done", "failed"}]
      BY DEF Advance
    <3>4. turn' \in Loaders \union {Nobody}
      BY DEF Advance
    <3> QED BY <3>2, <3>3, <3>4
  <2>3. \A m \in Loaders : pc'[m] = "rows" <=> turn' = m
    BY DEF Advance
  <2>4. \A m \in Loaders : pc'[m] \in {"fetch", "rows"} => page'[m] \in 1..Len(Feed[m])
    <3>1. pc'[l] \in {"fetch", "rows"} => page'[l] \in 1..Len(Feed[l])
      BY <2>1 DEF Advance, LastRow, LastPage
    <3>2. \A m \in Loaders \ {l} : pc'[m] = pc[m] /\ page'[m] = page[m]
      BY DEF Advance
    <3> QED BY <3>1, <3>2
  <2>5. \A m \in Loaders : pc'[m] = "rows" => pos'[m] \in 1..Len(Feed[m][page'[m]])
    <3>1. pc'[l] = "rows" => page'[l] = page[l] /\ pos'[l] \in 1..Len(Feed[l][page[l]])
      BY <2>1 DEF Advance, LastRow
    <3>2. \A m \in Loaders \ {l} : pc'[m] # "rows"
      BY <2>3 DEF Advance
    <3> QED BY <3>1, <3>2
  <2>6. result' \in [Loaders -> [upserted : Nat, skipped : Nat, conflicts : Nat]]
    <3>1. result \in [Loaders -> [upserted : Nat, skipped : Nat, conflicts : Nat]]
      OBVIOUS
    <3>2. result' = [result EXCEPT ![l] = [upserted  |-> result[l].upserted + u,
                                           skipped   |-> result[l].skipped + s,
                                           conflicts |-> result[l].conflicts + c]]
      BY DEF Tally
    <3> HIDE <1>4 DEF TypeOK, LoaderTypeOK, ReconciliationAssumption
    <3>3. /\ result[l].upserted + u \in Nat
          /\ result[l].skipped + s \in Nat
          /\ result[l].conflicts + c \in Nat
      BY <3>1
    <3> QED BY <3>1, <3>2, <3>3
  <2>7. since' \in [Loaders -> {"disturbed", "first", "settled", "again"}]
    BY DEF SinceAfter
  <2>8. dry_run' = dry_run /\ runs' = runs /\ edits' = edits
    BY DEF Advance
  <2> QED BY <2>2, <2>3, <2>4, <2>5, <2>6, <2>7, <2>8
<1>5. ASSUME NEW l \in Loaders, Step(l)
      PROVE  LoaderTypeOK'
  <2>1. result[l].conflicts \in Nat /\ 0 \in Nat /\ 1 \in Nat
    OBVIOUS
  <2>2. CASE RowRefused(l)
    BY <1>4, <2>1, <2>2 DEF RowRefused
  <2>3. CASE RowUnchanged(l)
    BY <1>4, <2>1, <2>3 DEF RowUnchanged
  <2>4. CASE RowPlanned(l)
    BY <1>4, <2>1, <2>4 DEF RowPlanned
  <2>5. CASE RowWritten(l)
    BY <1>4, <2>1, <2>5 DEF RowWritten
  <2> QED BY <1>1, <1>2, <1>3, <1>5, <2>2, <2>3, <2>4, <2>5 DEF Step
<1>6. CASE Edit
  BY <1>6 DEF Edit
<1>7. CASE Record
  BY <1>7 DEF Record, loaderVars
<1>8. CASE UNCHANGED vars
  BY <1>8 DEF vars, loaderVars
<1> QED BY <1>5, <1>6, <1>7, <1>8 DEF Next

(* Loaders and operators together keep types and the store's invariant.    *)
THEOREM ReconciliationInvariant ==
  ASSUME ReconciliationAssumption
  PROVE  Spec => [](TypeOK /\ StoreInv)
<1>1. Init => TypeOK /\ StoreInv
  BY StoreInitInv DEF Init, TypeOK, LoaderTypeOK, StoreInv, Empty, ReconciliationAssumption
<1>2. TypeOK /\ StoreInv /\ [Next]_vars => (TypeOK /\ StoreInv)'
  BY LoaderTyping, StepIsStoreStep, StoreNextInv, ReconciliationAssumption
     DEF TypeOK, StoreInv
<1> QED BY <1>1, <1>2, PTL DEF Spec

(* Whatever the loaders and operators do, the store behaves as specified:  *)
(* its theorems hold of it in the running system.                          *)
THEOREM ReconciliationUsesStore ==
  ASSUME ReconciliationAssumption
  PROVE  Spec => StoreSpec
<1>1. Init => StoreInit
  BY DEF Init
<1>2. TypeOK /\ [Next]_vars => [StoreNext]_storeVars
  BY StepIsStoreStep, ReconciliationAssumption
<1> QED BY <1>1, <1>2, ReconciliationInvariant, ReconciliationAssumption, PTL
        DEF Spec, StoreSpec

-----------------------------------------------------------------------------
(* A run that finds what the last one left.                                *)

(* A row is stored when an issuer has its name and just its identifiers.   *)
Stored(row) == \E i \in IssuerIds : SameAsStored(i, row)

Places(l) == {pl \in Nat \X Nat : /\ pl[1] \in 1..Len(Feed[l])
                                  /\ pl[2] \in 1..Len(Feed[l][pl[1]])}
RowAt(l, pl) == Feed[l][pl[1]][pl[2]]

(* The rows of one source share no identifier.                             *)
RowsShareNothing ==
  \A l \in Loaders : \A pl, other \in Places(l) :
    pl # other => IdSet(RowAt(l, pl)) \intersect IdSet(RowAt(l, other)) = {}

Handled(l, pl) ==
  \/ pl[1] < page[l]
  \/ pl[1] = page[l] /\ pc[l] = "rows" /\ pl[2] < pos[l]

(* What makes it inductive: after a complete run without conflicts every   *)
(* row is stored, and during the first such run those handled so far.      *)
FirstInv(l) ==
  since[l] = "first" =>
    /\ ~dry_run[l] /\ pc[l] \in {"fetch", "rows"}
    /\ result[l].conflicts = 0 => \A pl \in Places(l) : Handled(l, pl) => Stored(RowAt(l, pl))

SettledInv(l) ==
  since[l] \in {"settled", "again"} => \A pl \in Places(l) : Stored(RowAt(l, pl))

NoopInv(l) == since[l] = "again" => result[l].upserted = 0 /\ result[l].conflicts = 0

RerunInv == \A l \in Loaders : FirstInv(l) /\ SettledInv(l) /\ NoopInv(l)

(* The rows of a source are rows, and each has a first identifier.         *)
LEMMA RowsAreRows ==
  ASSUME ReconciliationAssumption, NEW l \in Loaders, NEW pl \in Places(l)
  PROVE  LET row == RowAt(l, pl)
         IN  /\ row.name \in Names /\ IdSet(row) \in SUBSET Keys
             /\ 1 \in DOMAIN row.ids /\ row.ids[1] \in Keys
             /\ DOMAIN row.ids \subseteq Nat \ {0}
<1>1. /\ Feed[l] \in Seq(Seq(Row))
      /\ pl[1] \in 1..Len(Feed[l]) /\ pl[2] \in 1..Len(Feed[l][pl[1]])
  BY DEF ReconciliationAssumption, Places
<1>2. Feed[l][pl[1]] \in Seq(Row)
  BY <1>1
<1>3. RowAt(l, pl) \in Row
  BY <1>1, <1>2 DEF RowAt
<1> DEFINE row == RowAt(l, pl)
<1> HIDE DEF row
<1>4. row.name \in Names /\ row.ids \in Seq(Keys) /\ row.ids # <<>>
  BY <1>3 DEF Row, row
<1>5. DOMAIN row.ids = 1..Len(row.ids) /\ Len(row.ids) \in Nat \ {0}
  BY <1>4
<1>6. \A n \in DOMAIN row.ids : row.ids[n] \in Keys
  BY <1>4, <1>5
<1>7. IdSet(row) \in SUBSET Keys
  BY <1>6 DEF IdSet
<1> QED BY <1>4, <1>5, <1>6, <1>7 DEF row

(* A stored row leads back to the issuer that has it.                      *)
LEMMA StoredIsTarget ==
  ASSUME StoreInv, NEW row, 1 \in DOMAIN row.ids, row.ids[1] \in Keys,
         DOMAIN row.ids \subseteq Nat \ {0},
         NEW i \in IssuerIds, SameAsStored(i, row)
  PROVE  TargetIds(row) = {i}
<1>1. row.ids[1] \in issuers[i].identifiers
  BY DEF SameAsStored, IdSet
<1>2. index[row.ids[1]] = i
  BY <1>1 DEF StoreInv, IndexAgrees
<1>3. i # NoIssuer
  OBVIOUS
<1>4. i \in OwnersOf(row)
  <2>1. \A m \in 1..(1 - 1) : index[row.ids[m]] = NoIssuer
    OBVIOUS
  <2> QED BY <1>2, <2>1 DEF OwnersOf
<1>5. ASSUME NEW j \in OwnersOf(row) PROVE j = i
  <2>1. PICK n \in DOMAIN row.ids : /\ index[row.ids[n]] = j
                                    /\ \A m \in 1..(n - 1) : index[row.ids[m]] = NoIssuer
    BY <1>5 DEF OwnersOf
  <2>2. n = 1 \/ 1 \in 1..(n - 1)
    OBVIOUS
  <2> QED BY <1>2, <1>3, <2>1, <2>2
<1> QED BY <1>4, <1>5 DEF TargetIds

(* A written row is stored.                                                *)
LEMMA WrittenIsStored ==
  ASSUME StoreInv, NEW row, row.name \in Names, IdSet(row) \in SUBSET Keys,
         NEW i \in IssuerIds, Upsert(i, row.name, IdSet(row))
  PROVE  Stored(row)'
<1>1. issuers' = [issuers EXCEPT ![i] = [name |-> row.name, identifiers |-> IdSet(row)]]
  BY DEF Upsert
<1>2. issuers'[i] = [name |-> row.name, identifiers |-> IdSet(row)]
  BY <1>1 DEF StoreInv, StoreTypeOK
<1>3. SameAsStored(i, row)'
  BY <1>2 DEF SameAsStored, Live, IdSet
<1> QED BY <1>3 DEF Stored

(* And a row that shares no identifier with it is stored as it was.        *)
LEMMA OthersStayStored ==
  ASSUME StoreInv, NEW row, NEW other, Stored(other),
         IdSet(row) \intersect IdSet(other) = {}, IdSet(row) \in SUBSET Keys,
         NEW i \in TargetIds(row), Upsert(i, row.name, IdSet(row))
  PROVE  Stored(other)'
<1>1. PICK j \in IssuerIds : SameAsStored(j, other)
  BY DEF Stored
<1>2. i # j
  <2>1. SUFFICES ASSUME i = j PROVE FALSE
    OBVIOUS
  <2>2. Live(j) /\ issuers[j].identifiers = IdSet(other)
    BY <1>1 DEF SameAsStored
  <2>3. i \in OwnersOf(row)
    BY <2>1, <2>2 DEF TargetIds
  <2>4. PICK n \in DOMAIN row.ids : index[row.ids[n]] = j
    BY <2>1, <2>3 DEF OwnersOf
  <2>5. row.ids[n] \in IdSet(row) /\ row.ids[n] \in Keys
    BY <2>4 DEF IdSet
  <2>6. row.ids[n] \in issuers[j].identifiers
    BY <2>4, <2>5 DEF StoreInv, IndexAgrees
  <2> QED BY <2>2, <2>5, <2>6
<1>3. issuers'[j] = issuers[j]
  BY <1>2 DEF Upsert, StoreInv, StoreTypeOK
<1>4. SameAsStored(j, other)'
  BY <1>1, <1>3 DEF SameAsStored, Live, IdSet
<1> QED BY <1>4 DEF Stored

(* The row at hand has a place, and the loop goes on from it.              *)
LEMMA LoopGoesOn ==
  ASSUME ReconciliationAssumption, TypeOK, NEW l \in Loaders, turn = l, Advance(l)
  PROVE  LET here == <<page[l], pos[l]>>
         IN  /\ here \in Places(l) /\ CurrentRow(l) = RowAt(l, here)
             /\ ~Finishes(l) =>
                  /\ pc'[l] \in {"fetch", "rows"}
                  /\ \A pl \in Places(l) : Handled(l, pl)' => Handled(l, pl) \/ pl = here
             /\ Finishes(l) => \A pl \in Places(l) : Handled(l, pl) \/ pl = here
             /\ \A m \in Loaders \ {l} :
                  pc'[m] = pc[m] /\ page'[m] = page[m] /\ pos'[m] = pos[m]
<1> DEFINE here == <<page[l], pos[l]>>
<1>1. /\ pc[l] = "rows" /\ page[l] \in 1..Len(Feed[l])
      /\ pos[l] \in 1..Len(Feed[l][page[l]])
      /\ page[l] \in Nat /\ pos[l] \in Nat
      /\ page \in [Loaders -> Nat] /\ pos \in [Loaders -> Nat]
      /\ pc \in [Loaders -> {"idle", "fetch", "rows", "done", "failed"}]
  BY DEF TypeOK, LoaderTypeOK
<1>2. here \in Places(l) /\ CurrentRow(l) = RowAt(l, here)
  BY <1>1 DEF Places, CurrentRow, RowAt
<1>3. Len(Feed[l]) \in Nat /\ Len(Feed[l][page[l]]) \in Nat
  <2>1. Feed[l] \in Seq(Seq(Row))
    BY DEF ReconciliationAssumption
  <2>2. Feed[l][page[l]] \in Seq(Row)
    BY <1>1, <2>1
  <2> QED BY <2>1, <2>2
<1>4. \A pl \in Places(l) : /\ pl[1] \in Nat /\ pl[2] \in Nat
                            /\ pl[1] <= Len(Feed[l])
                            /\ pl[1] = page[l] => pl[2] <= Len(Feed[l][page[l]])
                            /\ pl = <<pl[1], pl[2]>>
  BY <1>1, <1>3 DEF Places
<1>5. \A m \in Loaders \ {l} : pc'[m] = pc[m] /\ page'[m] = page[m] /\ pos'[m] = pos[m]
  BY <1>1 DEF Advance
<1>6. ASSUME Finishes(l), NEW pl \in Places(l)
      PROVE  Handled(l, pl) \/ pl = here
  <2>1. pos[l] = Len(Feed[l][page[l]]) /\ page[l] = Len(Feed[l])
    BY <1>6 DEF Finishes, LastRow, LastPage
  <2>2. pl[1] < page[l] \/ (pl[1] = page[l] /\ pl[2] < pos[l])
          \/ (pl[1] = page[l] /\ pl[2] = pos[l])
    BY <1>1, <1>4, <2>1
  <2> QED BY <1>1, <1>4, <2>2 DEF Handled
<1>7. ASSUME ~Finishes(l), LastRow(l)
      PROVE  /\ pc'[l] \in {"fetch", "rows"}
             /\ \A pl \in Places(l) : Handled(l, pl)' => Handled(l, pl) \/ pl = here
  <2>1. /\ pc'[l] = "fetch" /\ page'[l] = page[l] + 1
        /\ pos[l] = Len(Feed[l][page[l]])
    BY <1>1, <1>7 DEF Finishes, LastRow, Advance
  <2>2. ASSUME NEW pl \in Places(l), Handled(l, pl)' PROVE Handled(l, pl) \/ pl = here
    <3>1. pl[1] < page[l] + 1
      BY <2>1, <2>2 DEF Handled
    <3>2. pl[1] < page[l] \/ (pl[1] = page[l] /\ pl[2] < pos[l])
            \/ (pl[1] = page[l] /\ pl[2] = pos[l])
      BY <1>1, <1>4, <2>1, <3>1
    <3> QED BY <1>1, <1>4, <3>2 DEF Handled
  <2> QED BY <2>1, <2>2
<1>8. ASSUME ~LastRow(l)
      PROVE  /\ pc'[l] \in {"fetch", "rows"}
             /\ \A pl \in Places(l) : Handled(l, pl)' => Handled(l, pl) \/ pl = here
  <2>1. pc'[l] = "rows" /\ page'[l] = page[l] /\ pos'[l] = pos[l] + 1
    BY <1>1, <1>8 DEF Advance
  <2>2. ASSUME NEW pl \in Places(l), Handled(l, pl)' PROVE Handled(l, pl) \/ pl = here
    <3>1. pl[1] < page[l] \/ (pl[1] = page[l] /\ pl[2] < pos[l] + 1)
      BY <2>1, <2>2 DEF Handled
    <3>2. pl[1] < page[l] \/ (pl[1] = page[l] /\ pl[2] < pos[l])
            \/ (pl[1] = page[l] /\ pl[2] = pos[l])
      BY <1>1, <1>4, <3>1
    <3> QED BY <1>1, <1>4, <3>2 DEF Handled
  <2> QED BY <2>1, <2>2
<1> QED BY <1>2, <1>5, <1>6, <1>7, <1>8

(* A row handled during a run keeps the invariant: in a repeated run it is *)
(* found as the last one left it, and in a first run it is stored, or      *)
(* refused and counted.                                                    *)
LEMMA RowRerun ==
  ASSUME ReconciliationAssumption, RowsShareNothing, TypeOK, StoreInv, RerunInv,
         NEW l \in Loaders,
         RowRefused(l) \/ RowUnchanged(l) \/ RowPlanned(l) \/ RowWritten(l)
  PROVE  RerunInv'
<1> DEFINE row == CurrentRow(l)
           here == <<page[l], pos[l]>>
<1>1. turn = l /\ Advance(l)
  BY DEF RowRefused, RowUnchanged, RowPlanned, RowWritten
<1>2. /\ here \in Places(l) /\ row = RowAt(l, here)
      /\ ~Finishes(l) =>
           /\ pc'[l] \in {"fetch", "rows"}
           /\ \A pl \in Places(l) : Handled(l, pl)' => Handled(l, pl) \/ pl = here
      /\ Finishes(l) => \A pl \in Places(l) : Handled(l, pl) \/ pl = here
      /\ \A m \in Loaders \ {l} : pc'[m] = pc[m] /\ page'[m] = page[m] /\ pos'[m] = pos[m]
  BY <1>1, LoopGoesOn
<1>3. /\ row.name \in Names /\ IdSet(row) \in SUBSET Keys
      /\ 1 \in DOMAIN row.ids /\ row.ids[1] \in Keys
      /\ DOMAIN row.ids \subseteq Nat \ {0}
  BY <1>2, RowsAreRows
<1> HIDE DEF row, here
<1>4. dry_run' = dry_run
  BY <1>1 DEF Advance
<1>5. /\ result \in [Loaders -> [upserted : Nat, skipped : Nat, conflicts : Nat]]
      /\ since \in [Loaders -> {"disturbed", "first", "settled", "again"}]
  BY DEF TypeOK, LoaderTypeOK
<1>6. FirstInv(l) /\ SettledInv(l) /\ NoopInv(l)
  BY DEF RerunInv
<1>7. \A m \in Loaders \ {l} : FirstInv(m) /\ SettledInv(m) /\ NoopInv(m)
  BY DEF RerunInv
<1>8. ASSUME Stored(row)
      PROVE  RowUnchanged(l) /\ ~RowRefused(l) /\ ~RowPlanned(l) /\ ~RowWritten(l)
  <2>1. PICK i \in IssuerIds : SameAsStored(i, row)
    BY <1>8 DEF Stored
  <2>2. TargetIds(row) = {i}
    BY <1>3, <2>1, StoredIsTarget
  <2>3. ~OtherEntity(i, row)
    BY <2>1 DEF SameAsStored, OtherEntity
  <2>4. ~RowRefused(l) /\ ~RowPlanned(l) /\ ~RowWritten(l)
    BY <2>1, <2>2, <2>3 DEF RowRefused, RowPlanned, RowWritten, row
  <2> QED BY <2>4
<1>9. since[l] \in {"settled", "again"} => Stored(row)
  BY <1>2, <1>6 DEF SettledInv
(* The loaders that are not at it.                                         *)
<1>10. ASSUME NEW m \in Loaders \ {l}, UNCHANGED storeVars, since'[m] = since[m],
              result'[m] = result[m]
       PROVE  (FirstInv(m) /\ SettledInv(m) /\ NoopInv(m))'
  <2>1. \A other : Stored(other)' <=> Stored(other)
    BY <1>10 DEF storeVars, Stored, SameAsStored, Live, IdSet
  <2>2. \A pl : Handled(m, pl)' <=> Handled(m, pl)
    BY <1>2 DEF Handled
  <2>3. FirstInv(m) /\ SettledInv(m) /\ NoopInv(m)
    BY <1>7
  <2>4. NoopInv(m)'
    BY <1>10, <2>3 DEF NoopInv
  <2>5. SettledInv(m)'
    BY <1>10, <2>1, <2>3 DEF SettledInv, Places, RowAt
  <2>6. FirstInv(m)'
    BY <1>2, <1>4, <1>10, <2>1, <2>2, <2>3 DEF FirstInv, Places, RowAt
  <2> QED BY <2>4, <2>5, <2>6
<1>11. ASSUME UNCHANGED storeVars, NEW c \in Nat, since' = SinceAfter(l, c, FALSE),
              NEW u \in Nat, NEW s \in Nat, NEW d \in Nat, result' = Tally(l, u, s, d)
       PROVE  \A m \in Loaders \ {l} : (FirstInv(m) /\ SettledInv(m) /\ NoopInv(m))'
  BY <1>5, <1>10, <1>11 DEF SinceAfter, Tally
(* The loader at hand, when the row is left alone.                         *)
<1>12. CASE RowUnchanged(l)
  <2>1. /\ UNCHANGED storeVars /\ result' = Tally(l, 0, 1, 0)
        /\ since' = SinceAfter(l, result[l].conflicts, FALSE)
    BY <1>12 DEF RowUnchanged
  <2>2. Stored(row)
    BY <1>12 DEF RowUnchanged, Stored, TargetIds, OwnersOf, row
  <2>3. result'[l].upserted = result[l].upserted /\ result'[l].conflicts = result[l].conflicts
    BY <1>5, <2>1 DEF Tally
  <2>4. \A other : Stored(other)' <=> Stored(other)
    BY <2>1 DEF storeVars, Stored, SameAsStored, Live, IdSet
  <2>5. since'[l] = IF Finishes(l) /\ since[l] = "first"
                    THEN IF result[l].conflicts = 0 THEN "settled" ELSE "disturbed"
                    ELSE since[l]
    BY <2>1 DEF SinceAfter
  <2>6. NoopInv(l)'
    BY <1>6, <2>3, <2>5 DEF NoopInv
  <2>7. SettledInv(l)'
    <3>1. CASE Finishes(l) /\ since[l] = "first"
      <4>1. result[l].conflicts = 0 => \A pl \in Places(l) : Stored(RowAt(l, pl))
        BY <1>2, <1>6, <2>2, <3>1 DEF FirstInv
      <4> QED BY <2>4, <2>5, <3>1, <4>1 DEF SettledInv, Places, RowAt
    <3>2. CASE ~(Finishes(l) /\ since[l] = "first")
      BY <1>6, <2>4, <2>5, <3>2 DEF SettledInv, Places, RowAt
    <3> QED BY <3>1, <3>2
  <2>8. FirstInv(l)'
    <3>1. SUFFICES ASSUME since'[l] = "first"
                   PROVE  /\ ~dry_run'[l] /\ pc'[l] \in {"fetch", "rows"}
                          /\ result'[l].conflicts = 0 =>
                               \A pl \in Places(l) : Handled(l, pl)' => Stored(RowAt(l, pl))'
      BY DEF FirstInv, Places, RowAt
    <3>2. since[l] = "first" /\ ~Finishes(l)
      BY <2>5, <3>1
    <3> QED BY <1>2, <1>4, <1>6, <2>2, <2>3, <2>4, <3>2 DEF FirstInv, RowAt
  <2>9. \A m \in Loaders \ {l} : (FirstInv(m) /\ SettledInv(m) /\ NoopInv(m))'
    BY <1>5, <1>11, <2>1
  <2> QED BY <2>6, <2>7, <2>8, <2>9 DEF RerunInv
(* Refused.                                                                *)
<1>13. CASE RowRefused(l)
  <2>1. /\ UNCHANGED storeVars /\ result' = Tally(l, 0, 1, 1)
        /\ since' = SinceAfter(l, 1, FALSE)
    BY <1>13 DEF RowRefused
  <2>2. since[l] \notin {"settled", "again"}
    BY <1>8, <1>9, <1>13
  <2>3. result'[l].conflicts # 0
    BY <1>5, <2>1 DEF Tally
  <2>4. since'[l] = IF Finishes(l) /\ since[l] = "first" THEN "disturbed" ELSE since[l]
    BY <2>1 DEF SinceAfter
  <2>5. FirstInv(l)' /\ SettledInv(l)' /\ NoopInv(l)'
    BY <1>2, <1>4, <1>6, <2>2, <2>3, <2>4 DEF FirstInv, SettledInv, NoopInv
  <2>6. \A m \in Loaders \ {l} : (FirstInv(m) /\ SettledInv(m) /\ NoopInv(m))'
    BY <1>11, <2>1
  <2> QED BY <2>5, <2>6 DEF RerunInv
(* Planned.                                                                *)
<1>14. CASE RowPlanned(l)
  <2>1. /\ UNCHANGED storeVars /\ result' = Tally(l, 1, 0, 0) /\ dry_run[l]
        /\ since' = SinceAfter(l, result[l].conflicts, FALSE)
    BY <1>14 DEF RowPlanned
  <2>2. since[l] \notin {"settled", "again"} /\ since[l] # "first"
    BY <1>6, <1>8, <1>9, <1>14, <2>1 DEF FirstInv
  <2>3. since'[l] = since[l]
    BY <2>1, <2>2 DEF SinceAfter
  <2>4. FirstInv(l)' /\ SettledInv(l)' /\ NoopInv(l)'
    BY <2>2, <2>3 DEF FirstInv, SettledInv, NoopInv
  <2>5. \A m \in Loaders \ {l} : (FirstInv(m) /\ SettledInv(m) /\ NoopInv(m))'
    BY <1>5, <1>11, <2>1
  <2> QED BY <2>4, <2>5 DEF RerunInv
(* Written.                                                                *)
<1>15. CASE RowWritten(l)
  <2>1. PICK i \in TargetIds(row) : Upsert(i, row.name, IdSet(row))
    BY <1>15 DEF RowWritten, row
  <2>2. /\ result' = Tally(l, 1, 0, 0)
        /\ since' = SinceAfter(l, result[l].conflicts, TRUE)
    BY <1>15 DEF RowWritten
  <2>3. since[l] \notin {"settled", "again"}
    BY <1>8, <1>9, <1>15
  <2>4. i \in IssuerIds
    BY DEF TargetIds, OwnersOf
  <2> PICK this \in Places(l) : this = here
    BY <1>2
  <2>5. Stored(RowAt(l, this))'
    <3>1. RowAt(l, this) = row
      BY <1>2
    <3>2. Stored(RowAt(l, this))'
      BY <1>3, <2>1, <2>4, <3>1, WrittenIsStored
    <3> QED BY <3>2
  <2>6. ASSUME NEW pl \in Places(l), pl # here, Stored(RowAt(l, pl))
        PROVE  Stored(RowAt(l, pl))'
    <3>1. IdSet(row) \intersect IdSet(RowAt(l, pl)) = {}
      BY <1>2, <2>6 DEF RowsShareNothing
    <3>2. (RowAt(l, pl))' = RowAt(l, pl)
      BY DEF RowAt
    <3> QED BY <1>3, <2>1, <2>6, <3>1, <3>2, OthersStayStored
  <2>7. \A pl \in Places(l) : Stored(RowAt(l, pl)) \/ pl = here => Stored(RowAt(l, pl))'
    <3>1. \A pl \in Places(l) : pl = here => Stored(RowAt(l, pl))'
      BY <2>5
    <3> QED BY <2>6, <3>1
  <2>8. result'[l].conflicts = result[l].conflicts
    BY <1>5, <2>2 DEF Tally
  <2>9. since'[l] = IF Finishes(l) /\ since[l] = "first"
                    THEN IF result[l].conflicts = 0 THEN "settled" ELSE "disturbed"
                    ELSE since[l]
    BY <2>2 DEF SinceAfter
  <2>10. NoopInv(l)'
    BY <2>3, <2>9 DEF NoopInv
  <2>11. SettledInv(l)'
    <3>1. SUFFICES ASSUME since'[l] \in {"settled", "again"}
                   PROVE  \A pl \in Places(l) : Stored(RowAt(l, pl))'
      BY DEF SettledInv, Places, RowAt
    <3>2. Finishes(l) /\ since[l] = "first" /\ result[l].conflicts = 0
      BY <2>3, <2>9, <3>1
    <3>3. \A pl \in Places(l) : Stored(RowAt(l, pl)) \/ pl = here
      BY <1>2, <1>6, <3>2 DEF FirstInv
    <3> QED BY <2>7, <3>3
  <2>12. FirstInv(l)'
    <3>1. SUFFICES ASSUME since'[l] = "first"
                   PROVE  /\ ~dry_run'[l] /\ pc'[l] \in {"fetch", "rows"}
                          /\ result'[l].conflicts = 0 =>
                               \A pl \in Places(l) : Handled(l, pl)' => Stored(RowAt(l, pl))'
      BY DEF FirstInv, Places, RowAt
    <3>2. since[l] = "first" /\ ~Finishes(l)
      BY <2>9, <3>1
    <3>3. ~dry_run'[l] /\ pc'[l] \in {"fetch", "rows"}
      BY <1>2, <1>4, <1>6, <3>2 DEF FirstInv
    <3>4. ASSUME result'[l].conflicts = 0, NEW pl \in Places(l), Handled(l, pl)'
          PROVE  Stored(RowAt(l, pl))'
      <4>1. Handled(l, pl) \/ pl = here
        BY <1>2, <3>2, <3>4
      <4>2. Stored(RowAt(l, pl)) \/ pl = here
        BY <1>6, <2>8, <3>2, <3>4, <4>1 DEF FirstInv
      <4> QED BY <2>7, <4>2
    <3> QED BY <3>3, <3>4
  <2>13. \A m \in Loaders \ {l} : since'[m] = "disturbed"
    BY <2>2 DEF SinceAfter
  <2>14. \A m \in Loaders \ {l} : (FirstInv(m) /\ SettledInv(m) /\ NoopInv(m))'
    BY <2>13 DEF FirstInv, SettledInv, NoopInv
  <2> QED BY <2>10, <2>11, <2>12, <2>14 DEF RerunInv
<1> QED BY <1>12, <1>13, <1>14, <1>15

(* Every other step keeps it too.                                          *)
LEMMA RerunStep ==
  ASSUME ReconciliationAssumption, RowsShareNothing, TypeOK, StoreInv, RerunInv,
         [Next]_vars
  PROVE  RerunInv'
<1>1. /\ result \in [Loaders -> [upserted : Nat, skipped : Nat, conflicts : Nat]]
      /\ since \in [Loaders -> {"disturbed", "first", "settled", "again"}]
      /\ page \in [Loaders -> Nat] /\ pos \in [Loaders -> Nat]
      /\ pc \in [Loaders -> {"idle", "fetch", "rows", "done", "failed"}]
      /\ dry_run \in [Loaders -> BOOLEAN]
  BY DEF TypeOK, LoaderTypeOK
<1>2. ASSUME NEW l \in Loaders, since'[l] = "disturbed"
      PROVE  (FirstInv(l) /\ SettledInv(l) /\ NoopInv(l))'
  BY <1>2 DEF FirstInv, SettledInv, NoopInv
<1>3. ASSUME issuers' = issuers
      PROVE  \A row : Stored(row)' <=> Stored(row)
  BY <1>3 DEF Stored, SameAsStored, Live, IdSet
<1>4. ASSUME NEW l \in Loaders, issuers' = issuers, pc'[l] = pc[l], page'[l] = page[l],
             pos'[l] = pos[l], dry_run'[l] = dry_run[l], result'[l] = result[l],
             since'[l] = since[l]
      PROVE  (FirstInv(l) /\ SettledInv(l) /\ NoopInv(l))'
  <2>1. \A pl : Handled(l, pl)' <=> Handled(l, pl)
    BY <1>4 DEF Handled
  <2>2. FirstInv(l) /\ SettledInv(l) /\ NoopInv(l)
    BY DEF RerunInv
  <2> QED BY <1>3, <1>4, <2>1, <2>2 DEF FirstInv, SettledInv, NoopInv, Places, RowAt
<1>5. ASSUME NEW l \in Loaders, NEW dry \in BOOLEAN, Begin(l, dry)
      PROVE  RerunInv'
  <2>1. issuers' = issuers
    BY <1>5 DEF Begin, storeVars
  <2>2. /\ since'[l] = IF since[l] \in {"settled", "again"} /\ ~dry THEN "again"
                       ELSE IF dry THEN "disturbed" ELSE "first"
        /\ pc'[l] = "fetch" /\ page'[l] = 1 /\ dry_run'[l] = dry /\ result'[l] = Empty
    BY <1>1, <1>5 DEF Begin
  <2>3. \A m \in Loaders \ {l} :
          /\ pc'[m] = pc[m] /\ page'[m] = page[m] /\ pos'[m] = pos[m]
          /\ dry_run'[m] = dry_run[m] /\ result'[m] = result[m] /\ since'[m] = since[m]
    BY <1>1, <1>5 DEF Begin
  <2>4. \A pl \in Places(l) : ~Handled(l, pl)'
    BY <2>2 DEF Handled, Places
  <2>5. FirstInv(l)' /\ NoopInv(l)'
    BY <2>2, <2>4 DEF FirstInv, NoopInv, Empty, Places
  <2>6. SettledInv(l)'
    <3>1. SettledInv(l)
      BY DEF RerunInv
    <3> QED BY <1>3, <2>1, <2>2, <3>1 DEF SettledInv, Places, RowAt
  <2> QED BY <1>4, <2>1, <2>3, <2>5, <2>6 DEF RerunInv
<1>6. ASSUME NEW l \in Loaders, Fetch(l)
      PROVE  RerunInv'
  <2>1. issuers' = issuers
    BY <1>6 DEF Fetch, storeVars
  <2>2. /\ since' = since /\ page' = page /\ dry_run' = dry_run /\ result' = result
        /\ pc'[l] = "rows" /\ pos'[l] = 1 /\ pc[l] = "fetch"
    BY <1>1, <1>6 DEF Fetch
  <2>3. \A m \in Loaders \ {l} : pc'[m] = pc[m] /\ pos'[m] = pos[m]
    BY <1>1, <1>6 DEF Fetch
  <2>4. \A pl \in Places(l) : Handled(l, pl)' => Handled(l, pl)
    BY <2>2 DEF Handled, Places
  <2>5. FirstInv(l) /\ SettledInv(l) /\ NoopInv(l)
    BY DEF RerunInv
  <2>6. FirstInv(l)' /\ SettledInv(l)' /\ NoopInv(l)'
    BY <1>3, <2>1, <2>2, <2>4, <2>5 DEF FirstInv, SettledInv, NoopInv, Places, RowAt
  <2> QED BY <1>4, <2>1, <2>2, <2>3, <2>6 DEF RerunInv
<1>7. ASSUME NEW l \in Loaders, FetchFails(l)
      PROVE  RerunInv'
  <2>1. /\ issuers' = issuers /\ since'[l] = "disturbed"
        /\ page' = page /\ pos' = pos /\ dry_run' = dry_run /\ result' = result
        /\ \A m \in Loaders \ {l} : pc'[m] = pc[m] /\ since'[m] = since[m]
    BY <1>1, <1>7 DEF FetchFails, storeVars
  <2> QED BY <1>2, <1>4, <2>1 DEF RerunInv
<1>8. CASE Edit
  <2>1. \A l \in Loaders : since'[l] = "disturbed"
    BY <1>8 DEF Edit
  <2> QED BY <1>2, <2>1 DEF RerunInv
<1>9. CASE Record \/ UNCHANGED vars
  <2>1. issuers' = issuers /\ UNCHANGED loaderVars
    BY <1>9 DEF Record, vars, storeVars, AppendRecord, AppendFiling, AppendRelation,
                AppendMarketPoints
  <2> QED BY <1>4, <2>1 DEF RerunInv, loaderVars
<1> QED BY <1>5, <1>6, <1>7, <1>8, <1>9, RowRerun DEF Next, Step

(* Running a loader again on the same input is a no-op, when the rows of   *)
(* one source share no identifier and nobody else has changed an issuer    *)
(* since its last complete run began.                                      *)
THEOREM RerunIsNoopHolds ==
  ASSUME ReconciliationAssumption, RowsShareNothing
  PROVE  Spec => []RerunIsNoop
<1>1. Init => RerunInv
  BY DEF Init, RerunInv, FirstInv, SettledInv, NoopInv
<1>2. TypeOK /\ StoreInv /\ RerunInv /\ [Next]_vars => RerunInv'
  BY RerunStep, ReconciliationAssumption, RowsShareNothing
<1>3. RerunInv => RerunIsNoop
  BY DEF RerunInv, NoopInv, RerunIsNoop
<1> QED BY <1>1, <1>2, <1>3, ReconciliationInvariant, ReconciliationAssumption, PTL
        DEF Spec
=============================================================================
