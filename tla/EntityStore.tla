----------------------------- MODULE EntityStore -----------------------------
(***************************************************************************)
(* EntityStore: the canonical issuers, the index from a source's           *)
(* identifier to its issuer, and what hangs on issuers: filings, relations *)
(* between two issuers, and market points.  Every method is synchronous,   *)
(* so each is one step.  A call that raises UnknownIssuerError or          *)
(* IdentifierConflictError before it writes is not a step.                 *)
(*                                                                         *)
(* An identifier is a (kind, value) pair, here one member of Keys.  Of an  *)
(* issuer the store uses its id, its display name and its identifiers.     *)
(* Of a filing, a relation and a point only the issuers they name matter   *)
(* here; codes, dates, values and the order of appends are left out.       *)
(***************************************************************************)
EXTENDS Integers, FiniteSets

CONSTANTS
  IssuerIds,  \* canonical issuer ids
  Keys,       \* identifiers: (kind, value) pairs
  Names,      \* display names
  Docs,       \* filing document ids
  Sources,    \* sources of market points
  NoIssuer,   \* the lookup that finds nothing
  NoName,     \* the name of an absent issuer
  MaxRecords  \* bound on filings, relations and market points together

ASSUME EntityStoreAssumption ==
  /\ NoIssuer \notin IssuerIds
  /\ NoName \notin Names
  /\ MaxRecords \in Nat

VARIABLES
  issuers,       \* _issuers: the issuer under each id, Absent when there is none
  index,         \* _identifiers: the issuer id of each identifier
  filings,       \* _filings
  relations,     \* _relations
  market_points  \* the keys of _market_points

storeVars == <<issuers, index, filings, relations, market_points>>
recordVars == <<filings, relations, market_points>>

Issuer == [name : Names \union {NoName}, identifiers : SUBSET Keys]
Absent == [name |-> NoName, identifiers |-> {}]

Live(i) == issuers[i].name # NoName

StoreTypeOK ==
  /\ issuers \in [IssuerIds -> Issuer]
  /\ index \in [Keys -> IssuerIds \union {NoIssuer}]
  /\ filings \in SUBSET (Docs \X IssuerIds)
  /\ relations \in SUBSET (IssuerIds \X IssuerIds)
  /\ market_points \in SUBSET (IssuerIds \X Sources)

StoreInit ==
  /\ issuers = [i \in IssuerIds |-> Absent]
  /\ index = [k \in Keys |-> NoIssuer]
  /\ filings = {} /\ relations = {} /\ market_points = {}

-----------------------------------------------------------------------------
(* upsert_issuer: refused as a whole when one identifier is another        *)
(* issuer's; otherwise the new identifiers replace the old ones.           *)

ClashesBug(i, keys) ==        \* mutant: only a new issuer is checked
  ~Live(i) /\ \E k \in keys : index[k] \notin {i, NoIssuer}
Clashes(i, keys) == \E k \in keys : index[k] \notin {i, NoIssuer}

IndexAfter(i, keys) ==
  [k \in Keys |-> IF k \in keys THEN i
                  ELSE IF index[k] = i THEN NoIssuer
                  ELSE index[k]]

Upsert(i, name, keys) ==
  /\ ~Clashes(i, keys)
  /\ issuers' = [issuers EXCEPT ![i] = [name |-> name, identifiers |-> keys]]
  /\ index' = IndexAfter(i, keys)
  /\ UNCHANGED recordVars

-----------------------------------------------------------------------------
(* merge_issuers: drop's identifiers and everything that names drop move   *)
(* to keep, which keeps its name.  Its IdentifierConflictError needs an    *)
(* identifier of drop that the index gives to a third issuer; IndexAgrees  *)
(* excludes it.                                                            *)

Heir(i, keep, drop) == IF i = drop THEN keep ELSE i

HeirsOfRelationBug(r, keep, drop) == <<Heir(r[1], keep, drop), r[2]>>
                              \* mutant: to_id is left pointing at drop
HeirsOfRelation(r, keep, drop) == <<Heir(r[1], keep, drop), Heir(r[2], keep, drop)>>

Merge(keep, drop) ==
  /\ Live(keep) /\ Live(drop) /\ keep # drop
  /\ LET merged == issuers[keep].identifiers \union issuers[drop].identifiers
     IN  /\ issuers' = [issuers EXCEPT ![keep].identifiers = merged, ![drop] = Absent]
         /\ index' = [k \in Keys |-> IF k \in merged THEN keep ELSE index[k]]
  /\ filings' = {<<f[1], Heir(f[2], keep, drop)>> : f \in filings}
  /\ relations' = {HeirsOfRelation(r, keep, drop) : r \in relations}
  /\ market_points' = {<<Heir(p[1], keep, drop), p[2]>> : p \in market_points}

-----------------------------------------------------------------------------
(* Appends, each after _require_issuer.                                    *)

Room == Cardinality(filings) + Cardinality(relations)
          + Cardinality(market_points) < MaxRecords

AppendFiling(d, i) ==
  /\ Live(i) /\ Room
  /\ filings' = filings \union {<<d, i>>}
  /\ UNCHANGED <<issuers, index, relations, market_points>>

AppendRelation(from, to) ==
  /\ Live(from) /\ Live(to) /\ Room
  /\ relations' = relations \union {<<from, to>>}
  /\ UNCHANGED <<issuers, index, filings, market_points>>

AppendMarketPoints(i, s) ==
  /\ Live(i) /\ Room
  /\ market_points' = market_points \union {<<i, s>>}
  /\ UNCHANGED <<issuers, index, filings, relations>>

AppendRecord ==
  \/ \E d \in Docs, i \in IssuerIds : AppendFiling(d, i)
  \/ \E from, to \in IssuerIds : AppendRelation(from, to)
  \/ \E i \in IssuerIds, s \in Sources : AppendMarketPoints(i, s)

StoreNext ==
  \/ \E i \in IssuerIds, n \in Names, keys \in SUBSET Keys : Upsert(i, n, keys)
  \/ \E keep, drop \in IssuerIds : Merge(keep, drop)
  \/ AppendRecord

StoreSpec == StoreInit /\ [][StoreNext]_storeVars

-----------------------------------------------------------------------------
(* Reads.  Each is a scan of what the store keeps; the windows of dates and *)
(* the codes a caller may ask for are left out.  lookup_issuer and          *)
(* subsidiaries_of raise KeyError for an id that is not live.               *)
LookupIssuer(k) == IF index[k] = NoIssuer THEN {} ELSE {index[k]}
SubsidiariesOf(i) == {r[1] : r \in {r \in relations : r[2] = i}}
RelationsFor(i) == {r \in relations : i \in {r[1], r[2]}}
FilingsFor(i) == {f[1] : f \in {f \in filings : f[2] = i}}

-----------------------------------------------------------------------------
(* The index and the issuers tell the same story: an identifier leads to   *)
(* an issuer exactly when that issuer lists it.  merge_issuers relies on   *)
(* it to move the identifiers of the issuer it drops, and upsert_issuer to *)
(* let go of those an issuer gave up.                                      *)
IndexAgrees ==
  \A k \in Keys, i \in IssuerIds : index[k] = i <=> k \in issuers[i].identifiers

(* Whatever the store names exists: what the index leads to, and the       *)
(* issuers of filings, relations and points.  lookup_issuer and            *)
(* subsidiaries_of subscript _issuers with such an id and would raise      *)
(* KeyError.                                                               *)
NoDangling ==
  /\ \A k \in Keys : index[k] # NoIssuer => Live(index[k])
  /\ \A f \in filings : Live(f[2])
  /\ \A r \in relations : Live(r[1]) /\ Live(r[2])
  /\ \A p \in market_points : Live(p[1])

(* An identifier that resolves before and after a call leads to the same   *)
(* filings and market points: only a merge may change the issuer it leads  *)
(* to, and a merge takes them along.  A call that let a second issuer take *)
(* an identifier over would cut it off from its history.                   *)
HistoryFollowsIdentifier ==
  \A k \in Keys : index[k] # NoIssuer /\ index'[k] # NoIssuer =>
    /\ \A f \in filings : f[2] = index[k] => <<f[1], index'[k]>> \in filings'
    /\ \A p \in market_points :
         p[1] = index[k] => <<index'[k], p[2]>> \in market_points'

HistoryFollows == [][HistoryFollowsIdentifier]_storeVars
=============================================================================
