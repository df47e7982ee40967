---------------------------- MODULE DuckDbStore ----------------------------
(***************************************************************************)
(* DuckDbEntityStore: the EntityStore kept in the tables of a DuckDB file. *)
(* A call is a sequence of statements on the store's one connection.       *)
(* upsert_issuer and merge_issuers run theirs in a transaction that        *)
(* _transaction commits, or rolls back after an Exception; the appends run *)
(* theirs outside of it, each statement on its own.  A statement fails on  *)
(* a constraint of the schema, and may fail for reasons of the engine.     *)
(*                                                                         *)
(* As in EntityStore, an identifier is one member of Keys, and of a filing *)
(* and a relation only the issuers they name are kept.  Points have their  *)
(* time, source and value, which get_market_series reads.                  *)
(***************************************************************************)
EXTENDS Integers, Sequences, FiniteSets, SequencesExt

CONSTANTS
  IssuerIds, Keys, Names, Docs, NoIssuer, NoName,
  Times, Values,  \* of market points
  SourceOrder,    \* the sources, in the order of their names
  Priority,       \* the source_priority of the reads
  MaxRecords,     \* bound on filings, relations and market points together
  MaxPoints       \* bound on the points of one append

Sources == ToSet(SourceOrder)

ASSUME DuckDbStoreAssumption ==
  /\ NoIssuer \notin IssuerIds /\ NoName \notin Names
  /\ SourceOrder \in Seq(Sources) /\ Priority \in Seq(Sources)
  /\ MaxRecords \in Nat /\ MaxPoints \in Nat

VARIABLES
  file,  \* the tables, as committed
  seen,  \* the tables as the connection sees them
  txn,   \* "closed", "none", "open", or "stuck": open, and nobody to end it
  todo   \* the statements the call in progress has still to run

vars == <<file, seen, txn, todo>>

Point == [issuer : IssuerIds, time : Times, source : Sources, value : Values]
Tables ==
  [version : {0, 1, 2},                                  \* 0 in a new file
   issuers : [IssuerIds -> Names \union {NoName}],
   identifiers : [Keys -> IssuerIds \union {NoIssuer}],  \* PRIMARY KEY (kind, value)
   filings : [Docs -> IssuerIds \union {NoIssuer}],      \* PRIMARY KEY (doc_id)
   relations : SUBSET (IssuerIds \X IssuerIds),
   points : Seq(Point)]

TypeOK ==
  /\ file \in Tables /\ seen \in Tables
  /\ txn \in {"closed", "none", "open", "stuck"}
  /\ (txn \in {"closed", "none"} => seen = file)

Exists(t, i) == t.issuers[i] # NoName

Init ==
  /\ \E v \in {0, 1, 2} :
       file = [version |-> v, issuers |-> [i \in IssuerIds |-> NoName],
               identifiers |-> [k \in Keys |-> NoIssuer],
               filings |-> [d \in Docs |-> NoIssuer],
               relations |-> {}, points |-> <<>>]
  /\ seen = file
  /\ txn = "closed" /\ todo = <<>>

-----------------------------------------------------------------------------
(* The statements, each a function of the tables.                          *)
Heir(i, s) == IF i = s.drop THEN s.keep ELSE i

MovePointsBug(t, s) == t          \* mutant: no foreign key would notice
MovePoints(t, s) ==
  [t EXCEPT !.points =
     [n \in DOMAIN t.points |-> [t.points[n] EXCEPT !.issuer = Heir(@, s)]]]

Apply(t, s) ==
  CASE s.do = "put_issuer" -> [t EXCEPT !.issuers[s.id] = s.name]
    [] s.do = "release" ->
         [t EXCEPT !.identifiers = [k \in Keys |-> IF @[k] = s.id THEN NoIssuer ELSE @[k]]]
    [] s.do = "claim" ->
         [t EXCEPT !.identifiers = [k \in Keys |-> IF k \in s.keys THEN s.id ELSE @[k]]]
    [] s.do = "move_from" ->
         [t EXCEPT !.relations = {<<Heir(r[1], s), r[2]>> : r \in @}]
    [] s.do = "move_to" ->
         [t EXCEPT !.relations = {<<r[1], Heir(r[2], s)>> : r \in @}]
    [] s.do = "move_points" -> MovePoints(t, s)
    [] s.do = "move_filings" -> [t EXCEPT !.filings = [d \in Docs |-> Heir(@[d], s)]]
    [] s.do = "move_identifiers" ->
         [t EXCEPT !.identifiers = [k \in Keys |-> Heir(@[k], s)]]
    [] s.do = "delete_issuer" -> [t EXCEPT !.issuers[s.drop] = NoName]
    [] s.do = "filing" -> [t EXCEPT !.filings[s.doc] = s.id]
    [] s.do = "relation" -> [t EXCEPT !.relations = @ \union {<<s.id, s.to>>}]
    [] s.do = "point" -> [t EXCEPT !.points = Append(@, s.point)]

(* Primary keys, and the foreign keys of identifiers, filings and          *)
(* relations; market_points has none.                                      *)
Violates(t, s) ==
  CASE s.do = "claim" -> \E k \in s.keys : t.identifiers[k] # NoIssuer
    [] s.do = "delete_issuer" ->
         \/ \E k \in Keys : t.identifiers[k] = s.drop
         \/ \E d \in Docs : t.filings[d] = s.drop
         \/ \E r \in t.relations : s.drop \in {r[1], r[2]}
    [] s.do = "filing" -> t.filings[s.doc] # NoIssuer
    [] OTHER -> FALSE

-----------------------------------------------------------------------------
(* A call begins.                                                          *)
Idle == todo = <<>> /\ txn \in {"none", "stuck"}

Begin(stmts) ==
  /\ todo' = stmts /\ UNCHANGED <<file, seen>>

(* BEGIN TRANSACTION raises when a transaction is open already.            *)
BeginTransaction(stmts) ==
  /\ Idle /\ txn = "none" /\ txn' = "open" /\ Begin(stmts)

(* The conflicts are looked for before the transaction begins.             *)
UpsertIssuer(i, name, keys) ==
  /\ \A k \in keys : seen.identifiers[k] \in {i, NoIssuer}
  /\ BeginTransaction(
       << [do |-> "put_issuer", id |-> i, name |-> name],
          [do |-> "release", id |-> i] >>
       \o (IF keys = {} THEN <<>> ELSE << [do |-> "claim", id |-> i, keys |-> keys] >>))

MergeStatements(keep, drop) ==
  LET moves == <<"move_from", "move_to", "move_points", "move_filings",
                 "move_identifiers", "delete_issuer">>
  IN  [n \in DOMAIN moves |-> [do |-> moves[n], keep |-> keep, drop |-> drop]]

MergeIssuers(keep, drop) ==
  /\ Exists(seen, keep) /\ Exists(seen, drop) /\ keep # drop
  /\ BeginTransaction(MergeStatements(keep, drop))

Records == Cardinality({d \in Docs : seen.filings[d] # NoIssuer})
             + Cardinality(seen.relations) + Len(seen.points)

Append1(i, stmts) ==
  /\ Idle /\ Exists(seen, i) /\ Records + Len(stmts) <= MaxRecords
  /\ Begin(stmts) /\ UNCHANGED txn

AppendFiling(d, i) == Append1(i, << [do |-> "filing", doc |-> d, id |-> i] >>)

AppendRelation(from, to) ==
  Exists(seen, to) /\ Append1(from, << [do |-> "relation", id |-> from, to |-> to] >>)

AppendMarketPoints(i, points) ==
  Append1(i, [n \in DOMAIN points |-> [do |-> "point", point |-> points[n]]])

-----------------------------------------------------------------------------
(* The call's statements run, and it returns or raises.                    *)
Statement ==
  /\ todo # <<>> /\ ~Violates(seen, Head(todo))
  /\ seen' = Apply(seen, Head(todo)) /\ todo' = Tail(todo)
  /\ file' = IF txn = "none" THEN seen' ELSE file
  /\ UNCHANGED txn

Commit ==
  /\ txn = "open" /\ todo = <<>>
  /\ file' = seen /\ txn' = "none"
  /\ UNCHANGED <<seen, todo>>

RolledBack == file

(* An Exception, of a statement or of COMMIT.                              *)
Fail ==
  /\ todo # <<>> \/ txn = "open"
  /\ todo' = <<>>
  /\ IF txn = "open" THEN txn' = "none" /\ seen' = RolledBack ELSE UNCHANGED <<txn, seen>>
  /\ UNCHANGED file

(* A KeyboardInterrupt is not an Exception: nothing is rolled back. Until  *)
(* the store is closed no call can begin a transaction, and what the       *)
(* appends write is seen on this connection but never committed.           *)
Interrupt ==
  /\ todo # <<>> \/ txn = "open"
  /\ todo' = <<>> /\ txn' = IF txn = "open" THEN "stuck" ELSE txn
  /\ UNCHANGED <<file, seen>>

(* close(), or the process ends at any point of a call.                    *)
Close ==
  /\ txn # "closed"
  /\ txn' = "closed" /\ seen' = file /\ todo' = <<>>
  /\ UNCHANGED file

(* The constructor: init creates the tables and writes the version in one  *)
(* transaction, and raises on a file of another version.                   *)
Open ==
  /\ txn = "closed" /\ file.version \in {0, 1}
  /\ file' = [file EXCEPT !.version = 1]
  /\ seen' = file' /\ txn' = "none"
  /\ UNCHANGED todo

Next ==
  \/ \E i \in IssuerIds, n \in Names, keys \in SUBSET Keys : UpsertIssuer(i, n, keys)
  \/ \E keep, drop \in IssuerIds : MergeIssuers(keep, drop)
  \/ \E d \in Docs, i \in IssuerIds : AppendFiling(d, i)
  \/ \E from, to \in IssuerIds : AppendRelation(from, to)
  \/ \E i \in IssuerIds : \E len \in 1..MaxPoints :
       \E points \in [1..len -> {p \in Point : p.issuer = i}] :
         AppendMarketPoints(i, points)
  \/ Statement \/ Commit \/ Fail \/ Interrupt \/ Close \/ Open

Spec == Init /\ [][Next]_vars

-----------------------------------------------------------------------------
(* Reads.  get_market_series collects the points of each time by source,   *)
(* in the order of ORDER BY timestamp, source: which of two points of one  *)
(* source and time comes last, and stays, is up to the engine.             *)
PointsAt(i, time) == {p \in ToSet(seen.points) : p.issuer = i /\ p.time = time}
SourcesAt(i, time) == {p.source : p \in PointsAt(i, time)}

Readings(i, time) ==
  {f \in [SourcesAt(i, time) -> PointsAt(i, time)] :
     \A s \in DOMAIN f : f[s].source = s}

FirstOf(order, S) == order[CHOOSE n \in DOMAIN order :
                             order[n] \in S /\ \A m \in 1..n-1 : order[m] \notin S]

(* _choose_point                                                           *)
ChosenSource(S) ==
  IF \E s \in S : s \in ToSet(Priority) THEN FirstOf(Priority, S)
                                        ELSE FirstOf(SourceOrder, S)

DiscardedBug(f) ==                    \* mutant: only sources the caller listed
  LET chosen == f[ChosenSource(DOMAIN f)] IN
  {f[s] : s \in {s \in DOMAIN f \intersect ToSet(Priority) : f[s].value # chosen.value}}
Discarded(f) ==
  LET chosen == f[ChosenSource(DOMAIN f)] IN
  {f[s] : s \in {s \in DOMAIN f : s # chosen.source /\ f[s].value # chosen.value}}

(* lookup_issuer and subsidiaries_of join with issuers: a row that names   *)
(* no issuer is left out.                                                  *)
LookupIssuer(k) == {i \in IssuerIds : seen.identifiers[k] = i /\ Exists(seen, i)}
SubsidiariesOfBug(i) ==               \* mutant: the parents instead
  {r[2] : r \in {r \in seen.relations : r[1] = i /\ Exists(seen, r[2])}}
SubsidiariesOf(i) == {r[1] : r \in {r \in seen.relations : r[2] = i /\ Exists(seen, r[1])}}
FilingsFor(i) == {d \in Docs : seen.filings[d] = i}
RelationsFor(i) == {r \in seen.relations : i \in {r[1], r[2]}}

-----------------------------------------------------------------------------
(* The file holds what EntityStore says the store promises, after every    *)
(* statement, failure, interrupt and crash: a change of the file is one    *)
(* call of EntityStore, complete, or none.                                 *)
Store == INSTANCE EntityStore WITH
  issuers <- [i \in IssuerIds |->
               [name |-> file.issuers[i],
                identifiers |-> {k \in Keys : file.identifiers[k] = i}]],
  index <- file.identifiers,
  filings <- {<<d, file.filings[d]>> : d \in {d \in Docs : file.filings[d] # NoIssuer}},
  relations <- file.relations,
  market_points <- {<<p.issuer, p.source>> : p \in ToSet(file.points)}

ImplementsStore == Store!StoreSpec

(* No disagreement between sources goes unreported (ENT-A4): whatever the  *)
(* engine's order, a point whose source has no other value at its time is  *)
(* chosen, agrees with the one chosen, or is in the conflict log.          *)
DisagreementReported ==
  \A i \in IssuerIds, time \in Times : \A f \in Readings(i, time) :
    \A p \in PointsAt(i, time) :
      (\A q \in PointsAt(i, time) : q.source = p.source => q = p)
        => p.value = f[ChosenSource(DOMAIN f)].value \/ p \in Discarded(f)

(* A caller cannot tell the file from the store in memory: every read of   *)
(* the tables, the joins with issuers included, answers what EntityStore   *)
(* answers.  In a stuck transaction the connection sees rows the file does *)
(* not hold.                                                               *)
AnswersAgree ==
  txn = "none" =>
    /\ \A k \in Keys : LookupIssuer(k) = Store!LookupIssuer(k)
    /\ \A i \in IssuerIds :
         /\ SubsidiariesOf(i) = Store!SubsidiariesOf(i)
         /\ RelationsFor(i) = Store!RelationsFor(i)
         /\ FilingsFor(i) = Store!FilingsFor(i)
=============================================================================
