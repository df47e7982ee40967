-------------------------- MODULE DuckDbStoreProofs --------------------------
(***************************************************************************)
(* The entity store on disk, for any issuers, identifiers, documents and   *)
(* sources: whatever statement fails and wherever a call is interrupted or *)
(* killed, the file goes from one state that EntityStore allows to the     *)
(* next, and the reads answer what EntityStore answers.                    *)
(***************************************************************************)
EXTENDS DuckDbStore, FiniteSetTheorems, SequenceTheorems, NaturalsInduction,
        WellFoundedInduction, TLAPS

USE DuckDbStoreAssumption

-----------------------------------------------------------------------------
(* The statements.                                                         *)

Moves == {"move_from", "move_to", "move_points", "move_filings", "move_identifiers",
          "delete_issuer"}

Appends ==
  [do : {"filing"}, doc : Docs, id : IssuerIds]
    \union [do : {"relation"}, id : IssuerIds, to : IssuerIds]
    \union [do : {"point"}, point : Point]

Statements ==
  Appends
    \union [do : {"put_issuer"}, id : IssuerIds, name : Names]
    \union [do : {"release"}, id : IssuerIds]
    \union [do : {"claim"}, id : IssuerIds, keys : SUBSET Keys]
    \union [do : Moves, keep : IssuerIds, drop : IssuerIds]

(* Tables with these rows.                                                 *)
Holds(t, issuers, identifiers, filings, relations, points) ==
  /\ t \in Tables
  /\ t.issuers = issuers /\ t.identifiers = identifiers /\ t.filings = filings
  /\ t.relations = relations /\ t.points = points

(* The rows a merge moves, column by column.                               *)
Follow(i, keep, drop) == IF i = drop THEN keep ELSE i
MovedIds(m, keep, drop) == [x \in DOMAIN m |-> Follow(m[x], keep, drop)]
MovedFrom(rs, keep, drop) == {<<Follow(r[1], keep, drop), r[2]>> : r \in rs}
MovedTo(rs, keep, drop) == {<<r[1], Follow(r[2], keep, drop)>> : r \in rs}
MovedPoints(ps, keep, drop) ==
  [n \in DOMAIN ps |-> [ps[n] EXCEPT !.issuer = Follow(@, keep, drop)]]

Released(ids, i) == [k \in Keys |-> IF ids[k] = i THEN NoIssuer ELSE ids[k]]
Claimed(ids, keys, i) == [k \in Keys |-> IF k \in keys THEN i ELSE ids[k]]

(* Tables are what they hold.                                              *)
LEMMA TablesHold ==
  ASSUME NEW t \in Tables
  PROVE  /\ t.issuers \in [IssuerIds -> Names \union {NoName}]
         /\ t.identifiers \in [Keys -> IssuerIds \union {NoIssuer}]
         /\ t.filings \in [Docs -> IssuerIds \union {NoIssuer}]
         /\ t.relations \in SUBSET (IssuerIds \X IssuerIds)
         /\ t.points \in Seq(Point)
         /\ Holds(t, t.issuers, t.identifiers, t.filings, t.relations, t.points)
  BY DEF Tables, Holds

(* The points of tables are points.                                        *)
LEMMA PointsHold ==
  ASSUME NEW t \in Tables
  PROVE  \A n \in DOMAIN t.points : t.points[n] \in Point /\ t.points[n].issuer \in IssuerIds
<1>1. t.points \in Seq(Point) /\ DOMAIN t.points = 1..Len(t.points)
  BY TablesHold, LenProperties
<1>2. \A n \in DOMAIN t.points : t.points[n] \in Point
  BY <1>1, ElementOfSeq
<1>3. \A p \in Point : p.issuer \in IssuerIds
  BY DEF Point
<1> QED BY <1>2, <1>3

(* What each statement of upsert_issuer does.                              *)
LEMMA UpsertStatementsDo ==
  ASSUME NEW t \in Tables, NEW i \in IssuerIds, NEW n \in Names, NEW keys \in SUBSET Keys
  PROVE  /\ Holds(Apply(t, [do |-> "put_issuer", id |-> i, name |-> n]),
                  [t.issuers EXCEPT ![i] = n], t.identifiers, t.filings, t.relations, t.points)
         /\ Holds(Apply(t, [do |-> "release", id |-> i]),
                  t.issuers, Released(t.identifiers, i), t.filings, t.relations, t.points)
         /\ Holds(Apply(t, [do |-> "claim", id |-> i, keys |-> keys]),
                  t.issuers, Claimed(t.identifiers, keys, i), t.filings, t.relations, t.points)
<1>1. /\ [t.issuers EXCEPT ![i] = n] \in [IssuerIds -> Names \union {NoName}]
      /\ Released(t.identifiers, i) \in [Keys -> IssuerIds \union {NoIssuer}]
      /\ Claimed(t.identifiers, keys, i) \in [Keys -> IssuerIds \union {NoIssuer}]
  BY TablesHold DEF Released, Claimed
<1>2. Apply(t, [do |-> "put_issuer", id |-> i, name |-> n])
        = [t EXCEPT !.issuers = [t.issuers EXCEPT ![i] = n]]
  BY DEF Apply
<1>3. Apply(t, [do |-> "release", id |-> i])
        = [t EXCEPT !.identifiers = Released(t.identifiers, i)]
  BY DEF Apply, Released
<1>4. Apply(t, [do |-> "claim", id |-> i, keys |-> keys])
        = [t EXCEPT !.identifiers = Claimed(t.identifiers, keys, i)]
  BY DEF Apply, Claimed
<1> QED BY <1>1, <1>2, <1>3, <1>4 DEF Tables, Holds

(* What each statement of merge_issuers does.                              *)
LEMMA MergeStatementsDo ==
  ASSUME NEW t \in Tables, NEW keep \in IssuerIds, NEW drop \in IssuerIds
  PROVE  LET S(do) == [do |-> do, keep |-> keep, drop |-> drop]
         IN  /\ Holds(Apply(t, S("move_from")), t.issuers, t.identifiers, t.filings,
                      MovedFrom(t.relations, keep, drop), t.points)
             /\ Holds(Apply(t, S("move_to")), t.issuers, t.identifiers, t.filings,
                      MovedTo(t.relations, keep, drop), t.points)
             /\ Holds(Apply(t, S("move_points")), t.issuers, t.identifiers, t.filings,
                      t.relations, MovedPoints(t.points, keep, drop))
             /\ Holds(Apply(t, S("move_filings")), t.issuers, t.identifiers,
                      MovedIds(t.filings, keep, drop), t.relations, t.points)
             /\ Holds(Apply(t, S("move_identifiers")), t.issuers,
                      MovedIds(t.identifiers, keep, drop), t.filings, t.relations, t.points)
             /\ Holds(Apply(t, S("delete_issuer")), [t.issuers EXCEPT ![drop] = NoName],
                      t.identifiers, t.filings, t.relations, t.points)
<1> DEFINE S(do) == [do |-> do, keep |-> keep, drop |-> drop]
<1>1. /\ MovedFrom(t.relations, keep, drop) \in SUBSET (IssuerIds \X IssuerIds)
      /\ MovedTo(t.relations, keep, drop) \in SUBSET (IssuerIds \X IssuerIds)
  BY TablesHold DEF MovedFrom, MovedTo, Follow
<1>2. MovedPoints(t.points, keep, drop) \in Seq(Point)
  <2>1. t.points \in Seq(Point) /\ DOMAIN t.points = 1..Len(t.points)
        /\ Len(t.points) \in Nat
    BY TablesHold, LenProperties
  <2>2. \A p \in Point : [p EXCEPT !.issuer = Follow(@, keep, drop)] \in Point
    BY DEF Point, Follow
  <2>3. \A n \in 1..Len(t.points) :
          [t.points[n] EXCEPT !.issuer = Follow(@, keep, drop)] \in Point
    BY <2>1, <2>2
  <2> QED BY <2>1, <2>3 DEF MovedPoints
<1>3. /\ MovedIds(t.filings, keep, drop) \in [Docs -> IssuerIds \union {NoIssuer}]
      /\ MovedIds(t.identifiers, keep, drop) \in [Keys -> IssuerIds \union {NoIssuer}]
  BY TablesHold DEF MovedIds, Follow
<1>4. [t.issuers EXCEPT ![drop] = NoName] \in [IssuerIds -> Names \union {NoName}]
  BY TablesHold
<1>5. Apply(t, S("move_from")) = [t EXCEPT !.relations = MovedFrom(t.relations, keep, drop)]
  BY DEF Apply, MovedFrom, Follow, Heir
<1>6. Apply(t, S("move_to")) = [t EXCEPT !.relations = MovedTo(t.relations, keep, drop)]
  BY DEF Apply, MovedTo, Follow, Heir
<1>7. Apply(t, S("move_points")) = [t EXCEPT !.points = MovedPoints(t.points, keep, drop)]
  <2>1. Apply(t, S("move_points")) = MovePoints(t, S("move_points"))
    BY DEF Apply
  <2>2. \A i : Heir(i, S("move_points")) = Follow(i, keep, drop)
    BY DEF Heir, Follow
  <2> DEFINE heirs == [n \in DOMAIN t.points |->
                        [t.points[n] EXCEPT !.issuer = Heir(@, S("move_points"))]]
  <2>3. MovePoints(t, S("move_points")) = [t EXCEPT !.points = heirs]
    BY DEF MovePoints
  <2>4. heirs = MovedPoints(t.points, keep, drop)
    <3> HIDE DEF S
    <3> QED BY <2>2 DEF MovedPoints
  <2> HIDE DEF heirs
  <2> QED BY <2>1, <2>3, <2>4
<1>8. Apply(t, S("move_filings")) = [t EXCEPT !.filings = MovedIds(t.filings, keep, drop)]
  BY TablesHold DEF Apply, MovedIds, Follow, Heir
<1>9. Apply(t, S("move_identifiers"))
        = [t EXCEPT !.identifiers = MovedIds(t.identifiers, keep, drop)]
  BY TablesHold DEF Apply, MovedIds, Follow, Heir
<1>10. Apply(t, S("delete_issuer"))
         = [t EXCEPT !.issuers = [t.issuers EXCEPT ![drop] = NoName]]
  BY DEF Apply
<1>11. /\ Holds(Apply(t, S("move_from")), t.issuers, t.identifiers, t.filings,
                MovedFrom(t.relations, keep, drop), t.points)
       /\ Holds(Apply(t, S("move_to")), t.issuers, t.identifiers, t.filings,
                MovedTo(t.relations, keep, drop), t.points)
       /\ Holds(Apply(t, S("move_points")), t.issuers, t.identifiers, t.filings,
                t.relations, MovedPoints(t.points, keep, drop))
  BY <1>1, <1>2, <1>5, <1>6, <1>7 DEF Tables, Holds
<1>12. /\ Holds(Apply(t, S("move_filings")), t.issuers, t.identifiers,
                MovedIds(t.filings, keep, drop), t.relations, t.points)
       /\ Holds(Apply(t, S("move_identifiers")), t.issuers,
                MovedIds(t.identifiers, keep, drop), t.filings, t.relations, t.points)
       /\ Holds(Apply(t, S("delete_issuer")), [t.issuers EXCEPT ![drop] = NoName],
                t.identifiers, t.filings, t.relations, t.points)
  BY <1>3, <1>4, <1>8, <1>9, <1>10 DEF Tables, Holds
<1> QED BY <1>11, <1>12

(* What the statements of the appends do.                                  *)
LEMMA AppendStatementsDo ==
  ASSUME NEW t \in Tables, NEW i \in IssuerIds
  PROVE  /\ \A d \in Docs :
              Holds(Apply(t, [do |-> "filing", doc |-> d, id |-> i]), t.issuers, t.identifiers,
                    [t.filings EXCEPT ![d] = i], t.relations, t.points)
         /\ \A j \in IssuerIds :
              Holds(Apply(t, [do |-> "relation", id |-> i, to |-> j]), t.issuers,
                    t.identifiers, t.filings, t.relations \union {<<i, j>>}, t.points)
         /\ \A p \in Point :
              Holds(Apply(t, [do |-> "point", point |-> p]), t.issuers, t.identifiers,
                    t.filings, t.relations, Append(t.points, p))
<1>1. ASSUME NEW d \in Docs
      PROVE  Holds(Apply(t, [do |-> "filing", doc |-> d, id |-> i]), t.issuers,
                   t.identifiers, [t.filings EXCEPT ![d] = i], t.relations, t.points)
  <2>1. [t.filings EXCEPT ![d] = i] \in [Docs -> IssuerIds \union {NoIssuer}]
    BY TablesHold
  <2>2. Apply(t, [do |-> "filing", doc |-> d, id |-> i])
          = [t EXCEPT !.filings = [t.filings EXCEPT ![d] = i]]
    BY DEF Apply
  <2> QED BY <2>1, <2>2 DEF Tables, Holds
<1>2. ASSUME NEW j \in IssuerIds
      PROVE  Holds(Apply(t, [do |-> "relation", id |-> i, to |-> j]), t.issuers,
                   t.identifiers, t.filings, t.relations \union {<<i, j>>}, t.points)
  <2>1. t.relations \union {<<i, j>>} \in SUBSET (IssuerIds \X IssuerIds)
    BY TablesHold
  <2>2. Apply(t, [do |-> "relation", id |-> i, to |-> j])
          = [t EXCEPT !.relations = t.relations \union {<<i, j>>}]
    BY DEF Apply
  <2> QED BY <2>1, <2>2 DEF Tables, Holds
<1>3. ASSUME NEW p \in Point
      PROVE  Holds(Apply(t, [do |-> "point", point |-> p]), t.issuers, t.identifiers,
                   t.filings, t.relations, Append(t.points, p))
  <2>1. Append(t.points, p) \in Seq(Point)
    BY TablesHold
  <2>2. Apply(t, [do |-> "point", point |-> p])
          = [t EXCEPT !.points = Append(t.points, p)]
    BY DEF Apply
  <2> QED BY <2>1, <2>2 DEF Tables, Holds
<1> QED BY <1>1, <1>2, <1>3

(* A statement leaves tables.                                              *)
LEMMA ApplyTyped ==
  ASSUME NEW t \in Tables, NEW s \in Statements
  PROVE  Apply(t, s) \in Tables
<1>1. CASE s \in Appends
  <2>1. CASE s \in [do : {"filing"}, doc : Docs, id : IssuerIds]
    <3> DEFINE d == s.doc  i == s.id
    <3>1. s = [do |-> "filing", doc |-> d, id |-> i] /\ d \in Docs /\ i \in IssuerIds
      BY <2>1
    <3> HIDE DEF d, i
    <3>2. Holds(Apply(t, [do |-> "filing", doc |-> d, id |-> i]), t.issuers, t.identifiers,
                [t.filings EXCEPT ![d] = i], t.relations, t.points)
      BY <3>1, AppendStatementsDo
    <3> QED BY <3>1, <3>2 DEF Holds
  <2>2. CASE s \in [do : {"relation"}, id : IssuerIds, to : IssuerIds]
    <3>1. /\ s = [do |-> "relation", id |-> s.id, to |-> s.to]
          /\ s.id \in IssuerIds /\ s.to \in IssuerIds
      BY <2>2
    <3> QED BY <3>1, AppendStatementsDo DEF Holds
  <2>3. CASE s \in [do : {"point"}, point : Point]
    <3>1. s = [do |-> "point", point |-> s.point] /\ s.point \in Point
      BY <2>3
    <3>2. s.point.issuer \in IssuerIds
      BY <3>1 DEF Point
    <3> QED BY <3>1, <3>2, AppendStatementsDo DEF Holds
  <2> QED BY <1>1, <2>1, <2>2, <2>3 DEF Appends
<1>2. CASE s \in [do : {"put_issuer"}, id : IssuerIds, name : Names]
  <2>1. /\ s = [do |-> "put_issuer", id |-> s.id, name |-> s.name]
        /\ s.id \in IssuerIds /\ s.name \in Names
    BY <1>2
  <2>2. Apply(t, s) = [t EXCEPT !.issuers = [t.issuers EXCEPT ![s.id] = s.name]]
    BY <2>1 DEF Apply
  <2>3. [t.issuers EXCEPT ![s.id] = s.name] \in [IssuerIds -> Names \union {NoName}]
    BY <2>1, TablesHold
  <2> QED BY <2>2, <2>3 DEF Tables
<1>3. CASE s \in [do : {"release"}, id : IssuerIds]
  <2>1. s = [do |-> "release", id |-> s.id] /\ s.id \in IssuerIds
    BY <1>3
  <2>2. Apply(t, s) = [t EXCEPT !.identifiers = Released(t.identifiers, s.id)]
    BY <2>1 DEF Apply, Released
  <2>3. Released(t.identifiers, s.id) \in [Keys -> IssuerIds \union {NoIssuer}]
    BY <2>1, TablesHold DEF Released
  <2> QED BY <2>2, <2>3 DEF Tables
<1>4. CASE s \in [do : {"claim"}, id : IssuerIds, keys : SUBSET Keys]
  <2>1. /\ s = [do |-> "claim", id |-> s.id, keys |-> s.keys]
        /\ s.id \in IssuerIds /\ s.keys \in SUBSET Keys
    BY <1>4
  <2>2. Apply(t, s) = [t EXCEPT !.identifiers = Claimed(t.identifiers, s.keys, s.id)]
    BY <2>1 DEF Apply, Claimed
  <2>3. Claimed(t.identifiers, s.keys, s.id) \in [Keys -> IssuerIds \union {NoIssuer}]
    BY <2>1, TablesHold DEF Claimed
  <2> QED BY <2>2, <2>3 DEF Tables
<1>5. CASE s \in [do : Moves, keep : IssuerIds, drop : IssuerIds]
  <2>1. /\ s = [do |-> s.do, keep |-> s.keep, drop |-> s.drop]
        /\ s.do \in Moves /\ s.keep \in IssuerIds /\ s.drop \in IssuerIds
    BY <1>5
  <2> QED BY <2>1, MergeStatementsDo DEF Holds, Moves
<1> QED BY <1>1, <1>2, <1>3, <1>4, <1>5 DEF Statements

-----------------------------------------------------------------------------
(* The invariant.                                                          *)

(* What is left of an upsert, and what its statements have done so far.    *)
PutS(i, n) == [do |-> "put_issuer", id |-> i, name |-> n]
ReleaseS(i) == [do |-> "release", id |-> i]
ClaimS(i, keys) == [do |-> "claim", id |-> i, keys |-> keys]

UpsertCall(i, n, keys) ==
  <<PutS(i, n), ReleaseS(i)>> \o (IF keys = {} THEN <<>> ELSE <<ClaimS(i, keys)>>)

UpsertLeft(stage, i, n, keys) ==
  CASE stage = 0 -> IF keys = {} THEN <<PutS(i, n), ReleaseS(i)>>
                    ELSE <<PutS(i, n), ReleaseS(i), ClaimS(i, keys)>>
    [] stage = 1 -> IF keys = {} THEN <<ReleaseS(i)>> ELSE <<ReleaseS(i), ClaimS(i, keys)>>
    [] stage = 2 -> IF keys = {} THEN <<>> ELSE <<ClaimS(i, keys)>>
    [] stage = 3 -> <<>>

UpsertedUpTo(stage, i, n, keys) ==
  Holds(seen,
        IF stage >= 1 THEN [file.issuers EXCEPT ![i] = n] ELSE file.issuers,
        IF stage = 3 THEN Claimed(Released(file.identifiers, i), keys, i)
        ELSE IF stage = 2 THEN Released(file.identifiers, i) ELSE file.identifiers,
        file.filings, file.relations, file.points)

Upserting ==
  \E i \in IssuerIds, n \in Names, keys \in SUBSET Keys, stage \in 0..3 :
    /\ \A k \in keys : file.identifiers[k] \in {i, NoIssuer}
    /\ todo = UpsertLeft(stage, i, n, keys)
    /\ UpsertedUpTo(stage, i, n, keys)

(* The same for a merge.                                                   *)
MergedUpTo(stage, keep, drop) ==
  Holds(seen,
        IF stage >= 6 THEN [file.issuers EXCEPT ![drop] = NoName] ELSE file.issuers,
        IF stage >= 5 THEN MovedIds(file.identifiers, keep, drop) ELSE file.identifiers,
        IF stage >= 4 THEN MovedIds(file.filings, keep, drop) ELSE file.filings,
        IF stage >= 2 THEN MovedTo(MovedFrom(file.relations, keep, drop), keep, drop)
        ELSE IF stage = 1 THEN MovedFrom(file.relations, keep, drop) ELSE file.relations,
        IF stage >= 3 THEN MovedPoints(file.points, keep, drop) ELSE file.points)

Merging ==
  \E keep, drop \in IssuerIds, stage \in 0..6 :
    /\ keep # drop /\ Exists(file, keep) /\ Exists(file, drop)
    /\ todo = SubSeq(MergeStatements(keep, drop), stage + 1, 6)
    /\ MergedUpTo(stage, keep, drop)

(* Statements of an append name issuers that exist, and there is room.     *)
HasIssuers(s) ==
  /\ s \in Appends
  /\ s.do = "filing" => Exists(file, s.id)
  /\ s.do = "relation" => Exists(file, s.id) /\ Exists(file, s.to)
  /\ s.do = "point" => Exists(file, s.point.issuer)

Filed(t) == {d \in Docs : t.filings[d] # NoIssuer}
RecordsOf(t) == Cardinality(Filed(t)) + Cardinality(t.relations) + Len(t.points)

Appending ==
  /\ \A n \in 1..Len(todo) : HasIssuers(todo[n])
  /\ todo # <<>> => RecordsOf(file) + Len(todo) <= MaxRecords

(* Nothing names an issuer that is not there: the foreign keys see to it   *)
(* for identifiers, filings and relations, and no key for points.          *)
NamesExist(t) ==
  /\ \A k \in Keys : t.identifiers[k] # NoIssuer => Exists(t, t.identifiers[k])
  /\ \A d \in Docs : t.filings[d] # NoIssuer => Exists(t, t.filings[d])
  /\ \A r \in t.relations : Exists(t, r[1]) /\ Exists(t, r[2])
  /\ \A n \in DOMAIN t.points : Exists(t, t.points[n].issuer)

FiniteTables(t) == IsFiniteSet(Filed(t)) /\ IsFiniteSet(t.relations)

FileInv == file \in Tables /\ NamesExist(file) /\ FiniteTables(file)

CallInv ==
  /\ seen \in Tables /\ todo \in Seq(Statements)
  /\ txn \in {"closed", "none", "open", "stuck"}
  /\ txn \in {"closed", "none"} => seen = file
  /\ txn = "closed" => todo = <<>>
  /\ txn = "none" => Appending
  /\ txn = "open" => Upserting \/ Merging

DuckInv == FileInv /\ CallInv

(* A new file satisfies it.                                                *)
LEMMA DuckInit == Init => DuckInv
<1> SUFFICES ASSUME Init PROVE DuckInv
  OBVIOUS
<1>1. PICK v \in {0, 1, 2} :
        file = [version |-> v, issuers |-> [i \in IssuerIds |-> NoName],
                identifiers |-> [k \in Keys |-> NoIssuer],
                filings |-> [d \in Docs |-> NoIssuer],
                relations |-> {}, points |-> <<>>]
  BY DEF Init
<1>2. file \in Tables
  <2>1. <<>> \in Seq(Point)
    OBVIOUS
  <2> QED BY <1>1, <2>1 DEF Tables
<1>3. NamesExist(file)
  BY <1>1 DEF NamesExist
<1>4. FiniteTables(file)
  <2>1. Filed(file) = {} /\ file.relations = {}
    BY <1>1 DEF Filed
  <2> QED BY <2>1, FS_EmptySet DEF FiniteTables
<1>5. <<>> \in Seq(Statements)
  OBVIOUS
<1> QED BY <1>2, <1>3, <1>4, <1>5 DEF Init, DuckInv, FileInv, CallInv

(* Two statements and a third.                                             *)
LEMMA Three == ASSUME NEW a, NEW b, NEW c PROVE <<a, b>> \o <<c>> = <<a, b, c>>
<1> DEFINE S == {a, b, c}
<1>1. <<a, b>> \in Seq(S) /\ <<c>> \in Seq(S) /\ <<a, b, c>> \in Seq(S)
  OBVIOUS
<1>2. Len(<<a, b>>) = 2 /\ Len(<<c>>) = 1 /\ Len(<<a, b, c>>) = 3
  OBVIOUS
<1>3. Len(<<a, b>> \o <<c>>) = 3 /\ <<a, b>> \o <<c>> \in Seq(S)
  BY <1>1, <1>2, ConcatProperties
<1>4. \A i \in 1..3 : (<<a, b>> \o <<c>>)[i] = IF i <= 2 THEN <<a, b>>[i] ELSE <<c>>[i - 2]
  BY <1>1, <1>2, ConcatProperties
<1>5. \A i \in 1..3 : (<<a, b>> \o <<c>>)[i] = <<a, b, c>>[i]
  <2>1. SUFFICES ASSUME NEW i \in 1..3 PROVE (<<a, b>> \o <<c>>)[i] = <<a, b, c>>[i]
    OBVIOUS
  <2>2. i = 1 \/ i = 2 \/ i = 3
    OBVIOUS
  <2> QED BY <1>4, <2>2
<1> HIDE DEF S
<1> QED BY <1>1, <1>2, <1>3, <1>5, SeqEqual

(* What is left of an upsert, statement by statement.                      *)
LEMMA UpsertSteps ==
  ASSUME NEW i \in IssuerIds, NEW n \in Names, NEW keys \in SUBSET Keys
  PROVE  /\ UpsertLeft(0, i, n, keys) = UpsertCall(i, n, keys)
         /\ UpsertCall(i, n, keys) \in Seq(Statements)
         /\ Head(UpsertLeft(0, i, n, keys)) = PutS(i, n)
         /\ Tail(UpsertLeft(0, i, n, keys)) = UpsertLeft(1, i, n, keys)
         /\ Head(UpsertLeft(1, i, n, keys)) = ReleaseS(i)
         /\ Tail(UpsertLeft(1, i, n, keys)) = UpsertLeft(2, i, n, keys)
         /\ UpsertLeft(2, i, n, keys) = <<>> <=> keys = {}
         /\ keys # {} => /\ Head(UpsertLeft(2, i, n, keys)) = ClaimS(i, keys)
                         /\ Tail(UpsertLeft(2, i, n, keys)) = UpsertLeft(3, i, n, keys)
         /\ UpsertLeft(3, i, n, keys) = <<>>
<1> DEFINE put == PutS(i, n)
           release == ReleaseS(i)
           claim == ClaimS(i, keys)
<1>1. put \in Statements /\ release \in Statements /\ claim \in Statements
  BY DEF Statements, PutS, ReleaseS, ClaimS
<1>2. /\ UpsertLeft(0, i, n, keys) = IF keys = {} THEN <<put, release>>
                                     ELSE <<put, release, claim>>
      /\ UpsertLeft(1, i, n, keys) = IF keys = {} THEN <<release>> ELSE <<release, claim>>
      /\ UpsertLeft(2, i, n, keys) = IF keys = {} THEN <<>> ELSE <<claim>>
      /\ UpsertLeft(3, i, n, keys) = <<>>
  BY DEF UpsertLeft
<1> HIDE DEF put, release, claim
<1>3. <<put, release>> \o <<claim>> = <<put, release, claim>>
  BY Three
<1>4. <<put, release>> \o <<>> = <<put, release>>
  OBVIOUS
<1>5. <<put, release>> \in Seq(Statements) /\ <<put, release, claim>> \in Seq(Statements)
  BY <1>1
<1>6. /\ Head(<<put, release>>) = put /\ Tail(<<put, release>>) = <<release>>
      /\ Head(<<put, release, claim>>) = put
      /\ Tail(<<put, release, claim>>) = <<release, claim>>
      /\ Head(<<release>>) = release /\ Tail(<<release>>) = <<>>
      /\ Head(<<release, claim>>) = release /\ Tail(<<release, claim>>) = <<claim>>
      /\ Head(<<claim>>) = claim /\ Tail(<<claim>>) = <<>>
  OBVIOUS
<1>7. /\ <<put, release>> # <<>> /\ <<put, release, claim>> # <<>>
      /\ <<release>> # <<>> /\ <<release, claim>> # <<>> /\ <<claim>> # <<>>
  OBVIOUS
<1>8. CASE keys = {}
  BY <1>2, <1>4, <1>5, <1>6, <1>7, <1>8 DEF put, release, claim, UpsertCall
<1>9. CASE keys # {}
  BY <1>2, <1>3, <1>5, <1>6, <1>7, <1>9 DEF put, release, claim, UpsertCall
<1> QED BY <1>8, <1>9

(* What is left of a merge.                                                *)
LEMMA MergeSteps ==
  ASSUME NEW keep \in IssuerIds, NEW drop \in IssuerIds
  PROVE  LET S(do) == [do |-> do, keep |-> keep, drop |-> drop]
             left(stage) == SubSeq(MergeStatements(keep, drop), stage + 1, 6)
         IN  /\ left(0) = MergeStatements(keep, drop)
             /\ MergeStatements(keep, drop) \in Seq(Statements)
             /\ \A stage \in 0..5 : /\ left(stage) # <<>>
                                    /\ Tail(left(stage)) = left(stage + 1)
             /\ left(6) = <<>>
             /\ Head(left(0)) = S("move_from") /\ Head(left(1)) = S("move_to")
             /\ Head(left(2)) = S("move_points") /\ Head(left(3)) = S("move_filings")
             /\ Head(left(4)) = S("move_identifiers") /\ Head(left(5)) = S("delete_issuer")
<1> DEFINE S(do) == [do |-> do, keep |-> keep, drop |-> drop]
           M == MergeStatements(keep, drop)
           left(stage) == SubSeq(MergeStatements(keep, drop), stage + 1, 6)
<1>1. M = <<S("move_from"), S("move_to"), S("move_points"), S("move_filings"),
            S("move_identifiers"), S("delete_issuer")>>
  BY DEF MergeStatements
<1>2. \A do \in Moves : S(do) \in Statements
  BY DEF Statements
<1>3. M \in Seq(Statements) /\ Len(M) = 6
  <2>1. S("move_from") \in Statements /\ S("move_to") \in Statements
        /\ S("move_points") \in Statements /\ S("move_filings") \in Statements
        /\ S("move_identifiers") \in Statements /\ S("delete_issuer") \in Statements
    BY <1>2 DEF Moves
  <2> HIDE DEF S, M
  <2> QED BY <1>1, <2>1
<1>4. /\ M[1] = S("move_from") /\ M[2] = S("move_to") /\ M[3] = S("move_points")
      /\ M[4] = S("move_filings") /\ M[5] = S("move_identifiers")
      /\ M[6] = S("delete_issuer")
  <2> HIDE DEF S, M
  <2> QED BY <1>1
<1> HIDE DEF M
<1>5. SubSeq(M, 1, 6) = M
  BY <1>3, SubSeqFull
<1>6. \A m \in 1..6 : /\ Head(SubSeq(M, m, 6)) = M[m]
                      /\ Tail(SubSeq(M, m, 6)) = SubSeq(M, m + 1, 6)
  BY <1>3, HeadTailOfSubSeq
<1>7. \A m \in 1..6 : SubSeq(M, m, 6) # <<>>
  <2>1. SUFFICES ASSUME NEW m \in 1..6 PROVE SubSeq(M, m, 6) # <<>>
    OBVIOUS
  <2>2. \A j \in 1..6 : M[j] \in Statements
    BY <1>3, ElementOfSeq
  <2>3. \A j \in m..6 : M[j] \in Statements
    BY <2>2
  <2>4. Len(SubSeq(M, m, 6)) = 6 - m + 1
    BY <2>3, SubSeqProperties
  <2>5. Len(SubSeq(M, m, 6)) # 0
    BY <2>4
  <2>6. Len(<<>>) = 0
    OBVIOUS
  <2> QED BY <2>5, <2>6, Zenon
<1>8. SubSeq(M, 7, 6) = <<>>
  BY SubSeqEmpty
<1>9. \A stage \in 0..5 : /\ left(stage) # <<>>
                          /\ Tail(left(stage)) = left(stage + 1)
                          /\ Head(left(stage)) = M[stage + 1]
  <2>1. SUFFICES ASSUME NEW stage \in 0..5
                 PROVE  /\ SubSeq(M, stage + 1, 6) # <<>>
                        /\ Tail(SubSeq(M, stage + 1, 6)) = SubSeq(M, stage + 1 + 1, 6)
                        /\ Head(SubSeq(M, stage + 1, 6)) = M[stage + 1]
    BY DEF M
  <2>2. stage + 1 \in 1..6
    OBVIOUS
  <2> QED BY <1>6, <1>7, <2>2
<1>10. left(6) = <<>> /\ left(0) = M
  BY <1>5, <1>8 DEF M
<1>11. /\ Head(left(0)) = S("move_from") /\ Head(left(1)) = S("move_to")
       /\ Head(left(2)) = S("move_points") /\ Head(left(3)) = S("move_filings")
       /\ Head(left(4)) = S("move_identifiers") /\ Head(left(5)) = S("delete_issuer")
  <2> HIDE DEF left, S
  <2> QED BY <1>4, <1>9
<1> HIDE DEF left
<1>12. \A stage \in 0..5 : left(stage) # <<>> /\ Tail(left(stage)) = left(stage + 1)
  BY <1>9
<1> QED BY <1>3, <1>10, <1>11, <1>12 DEF M, left

(* Each statement of an upsert takes it one stage on.                      *)
LEMMA StatementUpserts ==
  ASSUME DuckInv, txn = "open", Upserting, Statement
  PROVE  Upserting'
<1>1. file' = file /\ todo # <<>> /\ seen' = Apply(seen, Head(todo)) /\ todo' = Tail(todo)
  BY DEF Statement
<1>2. seen \in Tables
  BY DEF DuckInv, CallInv
<1>3. PICK i \in IssuerIds, n \in Names, keys \in SUBSET Keys, stage \in 0..3 :
        /\ \A k \in keys : file.identifiers[k] \in {i, NoIssuer}
        /\ todo = UpsertLeft(stage, i, n, keys)
        /\ UpsertedUpTo(stage, i, n, keys)
  BY DEF Upserting
<1>4. /\ Head(UpsertLeft(0, i, n, keys)) = PutS(i, n)
      /\ Tail(UpsertLeft(0, i, n, keys)) = UpsertLeft(1, i, n, keys)
      /\ Head(UpsertLeft(1, i, n, keys)) = ReleaseS(i)
      /\ Tail(UpsertLeft(1, i, n, keys)) = UpsertLeft(2, i, n, keys)
      /\ UpsertLeft(2, i, n, keys) = <<>> <=> keys = {}
      /\ keys # {} => /\ Head(UpsertLeft(2, i, n, keys)) = ClaimS(i, keys)
                      /\ Tail(UpsertLeft(2, i, n, keys)) = UpsertLeft(3, i, n, keys)
      /\ UpsertLeft(3, i, n, keys) = <<>>
  BY UpsertSteps
<1>5. ASSUME NEW next \in 0..3, todo' = UpsertLeft(next, i, n, keys),
             UpsertedUpTo(next, i, n, keys)'
      PROVE  Upserting'
  BY <1>1, <1>3, <1>5 DEF Upserting
<1>6. CASE stage = 0
  <2>1. seen' = Apply(seen, PutS(i, n)) /\ todo' = UpsertLeft(1, i, n, keys)
    BY <1>1, <1>3, <1>4, <1>6
  <2>2. Holds(seen', [seen.issuers EXCEPT ![i] = n],
              seen.identifiers, seen.filings, seen.relations, seen.points)
    BY <1>2, <2>1, UpsertStatementsDo DEF PutS, ReleaseS, ClaimS
  <2>3. Holds(seen, file.issuers, file.identifiers,
              file.filings, file.relations, file.points)
    BY <1>3, <1>6 DEF UpsertedUpTo
  <2>4. UpsertedUpTo(1, i, n, keys)'
    BY <1>1, <2>2, <2>3 DEF UpsertedUpTo, Holds
  <2> QED BY <1>5, <2>1, <2>4
<1>7. CASE stage = 1
  <2>1. seen' = Apply(seen, ReleaseS(i)) /\ todo' = UpsertLeft(2, i, n, keys)
    BY <1>1, <1>3, <1>4, <1>7
  <2>2. Holds(seen', seen.issuers,
              Released(seen.identifiers, i), seen.filings, seen.relations, seen.points)
    BY <1>2, <2>1, UpsertStatementsDo DEF PutS, ReleaseS, ClaimS
  <2>3. Holds(seen, [file.issuers EXCEPT ![i] = n], file.identifiers,
              file.filings, file.relations, file.points)
    BY <1>3, <1>7 DEF UpsertedUpTo
  <2>4. UpsertedUpTo(2, i, n, keys)'
    BY <1>1, <2>2, <2>3 DEF UpsertedUpTo, Holds
  <2> QED BY <1>5, <2>1, <2>4
<1>8. CASE stage = 2
  <2>1. seen' = Apply(seen, ClaimS(i, keys)) /\ todo' = UpsertLeft(3, i, n, keys)
    BY <1>1, <1>3, <1>4, <1>8
  <2>2. Holds(seen', seen.issuers,
              Claimed(seen.identifiers, keys, i), seen.filings, seen.relations, seen.points)
    BY <1>2, <2>1, UpsertStatementsDo DEF PutS, ReleaseS, ClaimS
  <2>3. Holds(seen, [file.issuers EXCEPT ![i] = n], Released(file.identifiers, i),
              file.filings, file.relations, file.points)
    BY <1>3, <1>8 DEF UpsertedUpTo
  <2>4. UpsertedUpTo(3, i, n, keys)'
    BY <1>1, <2>2, <2>3 DEF UpsertedUpTo, Holds
  <2> QED BY <1>5, <2>1, <2>4
<1>9. stage # 3
  BY <1>1, <1>3, <1>4
<1> QED BY <1>6, <1>7, <1>8, <1>9

(* And each statement of a merge.                                          *)
LEMMA StatementMerges ==
  ASSUME DuckInv, txn = "open", Merging, Statement
  PROVE  Merging'
<1>1. file' = file /\ todo # <<>> /\ seen' = Apply(seen, Head(todo)) /\ todo' = Tail(todo)
  BY DEF Statement
<1>2. seen \in Tables
  BY DEF DuckInv, CallInv
<1>3. PICK keep \in IssuerIds, drop \in IssuerIds, stage \in 0..6 :
        /\ keep # drop /\ Exists(file, keep) /\ Exists(file, drop)
        /\ todo = SubSeq(MergeStatements(keep, drop), stage + 1, 6)
        /\ MergedUpTo(stage, keep, drop)
  BY DEF Merging
<1> DEFINE left(n) == SubSeq(MergeStatements(keep, drop), n + 1, 6)
           S(do) == [do |-> do, keep |-> keep, drop |-> drop]
<1>4. /\ \A n \in 0..5 : left(n) # <<>> /\ Tail(left(n)) = left(n + 1)
      /\ left(6) = <<>>
      /\ Head(left(0)) = S("move_from") /\ Head(left(1)) = S("move_to")
      /\ Head(left(2)) = S("move_points") /\ Head(left(3)) = S("move_filings")
      /\ Head(left(4)) = S("move_identifiers") /\ Head(left(5)) = S("delete_issuer")
  BY MergeSteps
<1>5. todo = left(stage)
  BY <1>3
<1>6. ASSUME stage \in 0..5, MergedUpTo(stage + 1, keep, drop)'
      PROVE  Merging'
  <2>1. todo' = left(stage + 1) /\ stage + 1 \in 0..6
    BY <1>1, <1>4, <1>5, <1>6
  <2> QED BY <1>1, <1>3, <1>6, <2>1 DEF Merging, Exists
<1>7. stage \in 0..5
  BY <1>1, <1>4, <1>5
<1> HIDE DEF left
<1>8. CASE stage = 0
  <2>1. seen' = Apply(seen, S("move_from"))
    BY <1>1, <1>4, <1>5, <1>8
  <2>2. Holds(seen', seen.issuers, seen.identifiers, seen.filings,
              MovedFrom(seen.relations, keep, drop), seen.points)
    BY <1>2, <2>1, MergeStatementsDo
  <2>3. Holds(seen, file.issuers, file.identifiers, file.filings, file.relations,
              file.points)
    BY <1>3, <1>8 DEF MergedUpTo
  <2>4. MergedUpTo(1, keep, drop)'
    <3> HIDE DEF S
    <3> QED BY <1>1, <2>2, <2>3 DEF MergedUpTo, Holds
  <2> QED BY <1>6, <1>8, <2>4
<1>9. CASE stage = 1
  <2>1. seen' = Apply(seen, S("move_to"))
    BY <1>1, <1>4, <1>5, <1>9
  <2>2. Holds(seen', seen.issuers, seen.identifiers, seen.filings,
              MovedTo(seen.relations, keep, drop), seen.points)
    BY <1>2, <2>1, MergeStatementsDo
  <2>3. Holds(seen, file.issuers, file.identifiers, file.filings,
              MovedFrom(file.relations, keep, drop), file.points)
    BY <1>3, <1>9 DEF MergedUpTo
  <2>4. MergedUpTo(2, keep, drop)'
    <3> HIDE DEF S
    <3> QED BY <1>1, <2>2, <2>3 DEF MergedUpTo, Holds
  <2> QED BY <1>6, <1>9, <2>4
<1>10. CASE stage = 2
  <2>1. seen' = Apply(seen, S("move_points"))
    BY <1>1, <1>4, <1>5, <1>10
  <2>2. Holds(seen', seen.issuers, seen.identifiers, seen.filings, seen.relations,
              MovedPoints(seen.points, keep, drop))
    BY <1>2, <2>1, MergeStatementsDo
  <2>3. Holds(seen, file.issuers, file.identifiers, file.filings,
              MovedTo(MovedFrom(file.relations, keep, drop), keep, drop), file.points)
    BY <1>3, <1>10 DEF MergedUpTo
  <2>4. MergedUpTo(3, keep, drop)'
    <3> HIDE DEF S
    <3> QED BY <1>1, <2>2, <2>3 DEF MergedUpTo, Holds
  <2> QED BY <1>6, <1>10, <2>4
<1>11. CASE stage = 3
  <2>1. seen' = Apply(seen, S("move_filings"))
    BY <1>1, <1>4, <1>5, <1>11
  <2>2. Holds(seen', seen.issuers, seen.identifiers, MovedIds(seen.filings, keep, drop),
              seen.relations, seen.points)
    BY <1>2, <2>1, MergeStatementsDo
  <2>3. Holds(seen, file.issuers, file.identifiers, file.filings,
              MovedTo(MovedFrom(file.relations, keep, drop), keep, drop),
              MovedPoints(file.points, keep, drop))
    BY <1>3, <1>11 DEF MergedUpTo
  <2>4. MergedUpTo(4, keep, drop)'
    <3> HIDE DEF S
    <3> QED BY <1>1, <2>2, <2>3 DEF MergedUpTo, Holds
  <2> QED BY <1>6, <1>11, <2>4
<1>12. CASE stage = 4
  <2>1. seen' = Apply(seen, S("move_identifiers"))
    BY <1>1, <1>4, <1>5, <1>12
  <2>2. Holds(seen', seen.issuers, MovedIds(seen.identifiers, keep, drop), seen.filings,
              seen.relations, seen.points)
    BY <1>2, <2>1, MergeStatementsDo
  <2>3. Holds(seen, file.issuers, file.identifiers, MovedIds(file.filings, keep, drop),
              MovedTo(MovedFrom(file.relations, keep, drop), keep, drop),
              MovedPoints(file.points, keep, drop))
    BY <1>3, <1>12 DEF MergedUpTo
  <2>4. MergedUpTo(5, keep, drop)'
    <3> HIDE DEF S
    <3> QED BY <1>1, <2>2, <2>3 DEF MergedUpTo, Holds
  <2> QED BY <1>6, <1>12, <2>4
<1>13. CASE stage = 5
  <2>1. seen' = Apply(seen, S("delete_issuer"))
    BY <1>1, <1>4, <1>5, <1>13
  <2>2. Holds(seen', [seen.issuers EXCEPT ![drop] = NoName], seen.identifiers,
              seen.filings, seen.relations, seen.points)
    BY <1>2, <2>1, MergeStatementsDo
  <2>3. Holds(seen, file.issuers, MovedIds(file.identifiers, keep, drop),
              MovedIds(file.filings, keep, drop),
              MovedTo(MovedFrom(file.relations, keep, drop), keep, drop),
              MovedPoints(file.points, keep, drop))
    BY <1>3, <1>13 DEF MergedUpTo
  <2>4. MergedUpTo(6, keep, drop)'
    <3> HIDE DEF S
    <3> QED BY <1>1, <2>2, <2>3 DEF MergedUpTo, Holds
  <2> QED BY <1>6, <1>13, <2>4
<1> QED BY <1>7, <1>8, <1>9, <1>10, <1>11, <1>12, <1>13

-----------------------------------------------------------------------------
(* The file as EntityStore sees it.                                        *)
IssuersOf(t) ==
  [i \in IssuerIds |->
    [name |-> t.issuers[i], identifiers |-> {k \in Keys : t.identifiers[k] = i}]]
FilingsOf(t) == {<<d, t.filings[d]>> : d \in Filed(t)}
PointsOf(t) == {<<p.issuer, p.source>> : p \in ToSet(t.points)}

(* What EntityStore keeps is this much of the file.                        *)
LEMMA StoreViews ==
  /\ Store!storeVars = <<IssuersOf(file), file.identifiers, FilingsOf(file),
                         file.relations, PointsOf(file)>>
  /\ \A i \in IssuerIds : Store!Live(i) <=> Exists(file, i)
<1>1. Store!storeVars = <<IssuersOf(file), file.identifiers, FilingsOf(file),
                          file.relations, PointsOf(file)>>
  BY DEF Store!storeVars, IssuersOf, FilingsOf, PointsOf, Filed
<1>2. \A i \in IssuerIds : Store!Live(i) <=> Exists(file, i)
  BY DEF Store!Live, Exists
<1> QED BY <1>1, <1>2

(* A filing for a live issuer is an append of EntityStore.                 *)
LEMMA FilingIsAppend ==
  ASSUME NEW d \in Docs, NEW i \in IssuerIds, Exists(file, i), Store!Room,
         FilingsOf(file') = FilingsOf(file) \union {<<d, i>>},
         file'.issuers = file.issuers, file'.identifiers = file.identifiers,
         file'.relations = file.relations, file'.points = file.points
  PROVE  Store!AppendRecord
<1>1. Store!Live(i)
  BY StoreViews
<1>2. Store!AppendFiling(d, i)
  BY <1>1 DEF Store!AppendFiling, FilingsOf, Filed
<1> QED BY <1>2 DEF Store!AppendRecord

(* And so is a relation between live issuers.                              *)
LEMMA RelationIsAppend ==
  ASSUME NEW i \in IssuerIds, NEW j \in IssuerIds,
         Exists(file, i), Exists(file, j), Store!Room,
         file'.relations = file.relations \union {<<i, j>>},
         file'.issuers = file.issuers, file'.identifiers = file.identifiers,
         file'.filings = file.filings, file'.points = file.points
  PROVE  Store!AppendRecord
<1>1. Store!Live(i) /\ Store!Live(j)
  BY StoreViews
<1>2. Store!AppendRelation(i, j)
  BY <1>1 DEF Store!AppendRelation
<1> QED BY <1>2 DEF Store!AppendRecord

(* And a point of a live issuer.                                           *)
LEMMA PointIsAppend ==
  ASSUME NEW p \in Point, Exists(file, p.issuer), Store!Room,
         PointsOf(file') = PointsOf(file) \union {<<p.issuer, p.source>>},
         file'.issuers = file.issuers, file'.identifiers = file.identifiers,
         file'.filings = file.filings, file'.relations = file.relations
  PROVE  Store!AppendRecord
<1>1. p.issuer \in IssuerIds /\ p.source \in Sources
  BY DEF Point
<1>2. Store!Live(p.issuer)
  BY <1>1, StoreViews
<1>3. Store!AppendMarketPoints(p.issuer, p.source)
  BY <1>2 DEF Store!AppendMarketPoints, PointsOf
<1> QED BY <1>1, <1>3 DEF Store!AppendRecord

(* Filings and points of the file are no fewer than EntityStore counts.    *)
LEMMA FileHasRoom ==
  ASSUME FileInv, RecordsOf(file) < MaxRecords
  PROVE  Store!Room
<1>1. IsFiniteSet(Filed(file)) /\ IsFiniteSet(file.relations) /\ file.points \in Seq(Point)
  BY DEF FileInv, FiniteTables, Tables
<1>2. Cardinality(Filed(file)) \in Nat /\ Cardinality(file.relations) \in Nat
      /\ Len(file.points) \in Nat
  BY <1>1, FS_CardinalityType, LenProperties
<1>3. Cardinality(FilingsOf(file)) \in Nat
      /\ Cardinality(FilingsOf(file)) <= Cardinality(Filed(file))
  <2> DEFINE f == [d \in Filed(file) |-> <<d, file.filings[d]>>]
  <2>1. f \in Surjection(Filed(file), FilingsOf(file))
    BY DEF Surjection, FilingsOf
  <2>2. IsFiniteSet(FilingsOf(file))
        /\ Cardinality(FilingsOf(file)) <= Cardinality(Filed(file))
    <3> HIDE DEF f
    <3> QED BY <1>1, <2>1, FS_Surjection
  <2> QED BY <2>2, FS_CardinalityType
<1>4. Cardinality(PointsOf(file)) \in Nat /\ Cardinality(PointsOf(file)) <= Len(file.points)
  <2> DEFINE N == 1..Len(file.points)
             g == [n \in N |-> <<file.points[n].issuer, file.points[n].source>>]
  <2>1. g \in Surjection(N, PointsOf(file))
    <3>1. DOMAIN file.points = N
      BY <1>1, LenProperties
    <3> QED BY <3>1 DEF Surjection, PointsOf, ToSet
  <2>2. IsFiniteSet(N) /\ Cardinality(N) = Len(file.points)
    <3>1. Len(file.points) \in Int /\ 1 \in Int
      BY <1>2
    <3>2. Cardinality(1..Len(file.points)) = IF 1 > Len(file.points) THEN 0
                                             ELSE Len(file.points) - 1 + 1
      BY <3>1, FS_Interval
    <3>3. IsFiniteSet(1..Len(file.points))
      BY <3>1, FS_Interval
    <3> QED BY <1>2, <3>2, <3>3
  <2>3. IsFiniteSet(PointsOf(file)) /\ Cardinality(PointsOf(file)) <= Cardinality(N)
    <3> HIDE DEF N, g
    <3> QED BY <2>1, <2>2, FS_Surjection
  <2> HIDE DEF N, g
  <2> QED BY <2>2, <2>3, FS_CardinalityType
<1>5. Cardinality(FilingsOf(file)) + Cardinality(file.relations) + Cardinality(PointsOf(file))
        < MaxRecords
  BY <1>2, <1>3, <1>4 DEF RecordsOf
<1>6. \A S : Store!Cardinality(S) = Cardinality(S)
  BY DEF Store!Cardinality, Cardinality
<1> QED BY <1>5, <1>6 DEF Store!Room, FilingsOf, PointsOf, Filed

(* One statement of an append, run on the file.                            *)
LEMMA AppendsOne ==
  ASSUME FileInv, RecordsOf(file) < MaxRecords, NEW s \in Appends, HasIssuers(s),
         ~Violates(file, s), file' = Apply(file, s)
  PROVE  /\ FileInv' /\ file'.issuers = file.issuers
         /\ RecordsOf(file') <= RecordsOf(file) + 1 /\ RecordsOf(file') \in Int
         /\ Store!AppendRecord
<1>1. Store!Room
  BY FileHasRoom
<1>2. /\ file \in Tables /\ NamesExist(file)
      /\ IsFiniteSet(Filed(file)) /\ IsFiniteSet(file.relations)
  BY DEF FileInv, FiniteTables
<1>3. /\ file.issuers \in [IssuerIds -> Names \union {NoName}]
      /\ file.identifiers \in [Keys -> IssuerIds \union {NoIssuer}]
      /\ file.filings \in [Docs -> IssuerIds \union {NoIssuer}]
      /\ file.relations \in SUBSET (IssuerIds \X IssuerIds)
      /\ file.points \in Seq(Point)
  BY <1>2, TablesHold
<1>4. /\ Cardinality(Filed(file)) \in Nat /\ Cardinality(file.relations) \in Nat
      /\ Len(file.points) \in Nat
  BY <1>2, <1>3, FS_CardinalityType, LenProperties
<1>5. CASE s \in [do : {"filing"}, doc : Docs, id : IssuerIds]
  <2>1. PICK d \in Docs, i \in IssuerIds : s = [do |-> "filing", doc |-> d, id |-> i]
    BY <1>5
  <2>2. Holds(file', file.issuers, file.identifiers, [file.filings EXCEPT ![d] = i],
              file.relations, file.points)
    BY <1>2, <2>1, AppendStatementsDo
  <2>3. Exists(file, i) /\ file.filings[d] = NoIssuer
    BY <2>1 DEF HasIssuers, Violates
  <2>4. i # NoIssuer
    OBVIOUS
  <2>5. Filed(file') = Filed(file) \union {d} /\ d \notin Filed(file)
    BY <1>3, <2>2, <2>3, <2>4 DEF Holds, Filed
  <2>6. FilingsOf(file') = FilingsOf(file) \union {<<d, i>>}
    <3>1. \A e \in Filed(file) : file'.filings[e] = file.filings[e]
      BY <1>3, <2>2, <2>3 DEF Holds, Filed
    <3>2. file'.filings[d] = i
      BY <1>3, <2>2 DEF Holds
    <3> QED BY <2>5, <3>1, <3>2 DEF FilingsOf
  <2>7. Store!AppendRecord
    BY <1>1, <2>2, <2>3, <2>6, FilingIsAppend DEF Holds
  <2>8. IsFiniteSet(Filed(file')) /\ Cardinality(Filed(file')) = Cardinality(Filed(file)) + 1
    BY <1>2, <2>5, FS_AddElement
  <2>9. RecordsOf(file') = RecordsOf(file) + 1 /\ RecordsOf(file') \in Int
    <3>1. file'.relations = file.relations /\ file'.points = file.points
      BY <2>2 DEF Holds
    <3> DEFINE a == Cardinality(Filed(file))  b == Cardinality(file.relations)
               c == Len(file.points)
    <3>2. RecordsOf(file) = a + b + c /\ RecordsOf(file') = (a + 1) + b + c
      BY <2>8, <3>1 DEF RecordsOf
    <3>3. a \in Nat /\ b \in Nat /\ c \in Nat
      BY <1>4
    <3> HIDE DEF a, b, c
    <3> QED BY <3>2, <3>3
  <2>10. NamesExist(file')
    BY <1>2, <1>3, <2>2, <2>3 DEF NamesExist, Exists, Holds
  <2> QED BY <1>2, <2>2, <2>7, <2>8, <2>9, <2>10 DEF FileInv, FiniteTables, Holds
<1>6. CASE s \in [do : {"relation"}, id : IssuerIds, to : IssuerIds]
  <2>1. PICK i \in IssuerIds, j \in IssuerIds : s = [do |-> "relation", id |-> i, to |-> j]
    BY <1>6
  <2>2. Holds(file', file.issuers, file.identifiers, file.filings,
              file.relations \union {<<i, j>>}, file.points)
    BY <1>2, <2>1, AppendStatementsDo
  <2>3. Exists(file, i) /\ Exists(file, j)
    BY <2>1 DEF HasIssuers
  <2>4. Store!AppendRecord
    BY <1>1, <2>2, <2>3, RelationIsAppend DEF Holds
  <2>5. Filed(file') = Filed(file)
    BY <2>2 DEF Holds, Filed
  <2>6. IsFiniteSet(file'.relations)
        /\ Cardinality(file'.relations) \in Nat
        /\ Cardinality(file'.relations) <= Cardinality(file.relations) + 1
    <3>1. file'.relations = file.relations \union {<<i, j>>}
      BY <2>2 DEF Holds
    <3>2. CASE <<i, j>> \in file.relations
      <4>1. file'.relations = file.relations
        BY <3>1, <3>2
      <4> QED BY <1>2, <1>4, <4>1
    <3>3. CASE <<i, j>> \notin file.relations
      <4>1. IsFiniteSet(file'.relations)
            /\ Cardinality(file'.relations) = Cardinality(file.relations) + 1
        BY <1>2, <3>1, <3>3, FS_AddElement
      <4> QED BY <1>4, <4>1
    <3> QED BY <3>2, <3>3
  <2>7. RecordsOf(file') <= RecordsOf(file) + 1 /\ RecordsOf(file') \in Int
    BY <1>4, <2>2, <2>5, <2>6 DEF RecordsOf, Holds
  <2>8. NamesExist(file')
    BY <1>2, <1>3, <2>2, <2>3 DEF NamesExist, Exists, Holds
  <2> QED BY <1>2, <2>2, <2>4, <2>5, <2>6, <2>7, <2>8 DEF FileInv, FiniteTables, Holds
<1>7. CASE s \in [do : {"point"}, point : Point]
  <2>1. PICK p \in Point : s = [do |-> "point", point |-> p]
    BY <1>7
  <2>2. p.issuer \in IssuerIds
    BY DEF Point
  <2>3. Holds(file', file.issuers, file.identifiers, file.filings,
              file.relations, Append(file.points, p))
    BY <1>2, <2>1, <2>2, AppendStatementsDo
  <2>4. Exists(file, p.issuer)
    BY <2>1 DEF HasIssuers
  <2>5. PointsOf(file') = PointsOf(file) \union {<<p.issuer, p.source>>}
    <3>1. file'.points = Append(file.points, p)
      BY <2>3 DEF Holds
    <3>2. /\ DOMAIN file.points = 1..Len(file.points)
          /\ DOMAIN file'.points = 1..(Len(file.points) + 1)
          /\ \A n \in 1..Len(file.points) : file'.points[n] = file.points[n]
          /\ file'.points[Len(file.points) + 1] = p
      BY <1>3, <3>1, AppendProperties, LenProperties
    <3>3. ToSet(file'.points) = ToSet(file.points) \union {p}
      <4>1. 1..(Len(file.points) + 1) = (1..Len(file.points)) \union {Len(file.points) + 1}
        BY <1>4
      <4> QED BY <3>2, <4>1 DEF ToSet
    <3> QED BY <3>3 DEF PointsOf
  <2>6. Store!AppendRecord
    BY <1>1, <2>3, <2>4, <2>5, PointIsAppend DEF Holds
  <2>7. Filed(file') = Filed(file)
    BY <2>3 DEF Holds, Filed
  <2>8. Len(file'.points) = Len(file.points) + 1
    BY <1>3, <2>3, AppendProperties DEF Holds
  <2>9. RecordsOf(file') = RecordsOf(file) + 1 /\ RecordsOf(file') \in Int
    <3>1. file'.relations = file.relations
      BY <2>3 DEF Holds
    <3> QED BY <1>4, <2>7, <2>8, <3>1 DEF RecordsOf
  <2>10. NamesExist(file')
    <3>1. file'.points = Append(file.points, p)
      BY <2>3 DEF Holds
    <3>2. \A n \in DOMAIN file'.points :
            \/ n \in DOMAIN file.points /\ file'.points[n] = file.points[n]
            \/ file'.points[n] = p
      BY <1>3, <1>4, <3>1, AppendProperties, LenProperties
    <3>3. \A n \in DOMAIN file'.points : Exists(file', file'.points[n].issuer)
      BY <1>2, <2>3, <2>4, <3>2 DEF NamesExist, Exists, Holds
    <3>4. /\ file'.issuers = file.issuers /\ file'.identifiers = file.identifiers
          /\ file'.filings = file.filings /\ file'.relations = file.relations
      BY <2>3 DEF Holds
    <3> QED BY <1>2, <3>3, <3>4 DEF NamesExist, Exists
  <2> QED BY <1>2, <2>3, <2>6, <2>7, <2>9, <2>10 DEF FileInv, FiniteTables, Holds
<1> QED BY <1>5, <1>6, <1>7 DEF Appends

(* A statement outside of a transaction is one append of EntityStore.      *)
LEMMA StatementAppends ==
  ASSUME DuckInv, txn = "none", Statement
  PROVE  FileInv' /\ Appending' /\ seen' = file' /\ Store!AppendRecord
<1>1. /\ FileInv /\ seen = file /\ Appending /\ todo \in Seq(Statements)
  BY DEF DuckInv, CallInv
<1>2. /\ todo # <<>> /\ ~Violates(file, Head(todo))
      /\ seen' = Apply(file, Head(todo)) /\ todo' = Tail(todo) /\ file' = seen'
  BY <1>1 DEF Statement
<1>3. /\ Len(todo) \in Nat \ {0} /\ Head(todo) = todo[1]
      /\ Len(todo') = Len(todo) - 1
      /\ \A n \in 1..Len(todo') : todo'[n] = todo[n + 1]
  BY <1>1, <1>2, HeadTailProperties, LenProperties, EmptySeq
<1>4. HasIssuers(Head(todo)) /\ RecordsOf(file) + Len(todo) <= MaxRecords
  BY <1>1, <1>2, <1>3 DEF Appending
<1>5. RecordsOf(file) \in Int
  <2>1. /\ IsFiniteSet(Filed(file)) /\ IsFiniteSet(file.relations)
        /\ file.points \in Seq(Point)
    BY <1>1 DEF FileInv, FiniteTables, Tables
  <2> QED BY <2>1, FS_CardinalityType, LenProperties DEF RecordsOf
<1>6. /\ FileInv' /\ file'.issuers = file.issuers
      /\ RecordsOf(file') <= RecordsOf(file) + 1 /\ RecordsOf(file') \in Int
      /\ Store!AppendRecord
  <2>1. RecordsOf(file) < MaxRecords /\ Head(todo) \in Appends
    BY <1>3, <1>4, <1>5 DEF HasIssuers
  <2> QED BY <1>1, <1>2, <1>4, <2>1, AppendsOne
<1>7. Appending'
  <2>1. (\A n \in 1..Len(todo) : HasIssuers(todo[n]))'
    <3>1. SUFFICES ASSUME NEW n \in 1..Len(todo') PROVE HasIssuers(todo[n])'
      OBVIOUS
    <3>3. (todo[n])' = todo[n + 1]
      BY <1>3
    <3>2. HasIssuers(todo[n + 1])
      <4>1. n + 1 \in 1..Len(todo)
        BY <1>3
      <4> QED BY <1>1, <4>1 DEF Appending
    <3> QED BY <1>6, <3>2, <3>3 DEF HasIssuers, Exists
  <2>2. RecordsOf(file') + Len(todo') <= MaxRecords
    BY <1>3, <1>4, <1>5, <1>6
  <2> QED BY <2>1, <2>2 DEF Appending, RecordsOf, Filed
<1> QED BY <1>2, <1>6, <1>7

-----------------------------------------------------------------------------
(* COMMIT.                                                                 *)

(* An upsert that ran to its end is committed as one.                      *)
LEMMA CommitUpserts ==
  ASSUME DuckInv, Upserting, Commit
  PROVE  FileInv' /\ Store!StoreNext
<1>1. file' = seen /\ todo = <<>>
  BY DEF Commit
<1>2. /\ file \in Tables /\ NamesExist(file)
      /\ IsFiniteSet(Filed(file)) /\ IsFiniteSet(file.relations)
  BY DEF DuckInv, FileInv, FiniteTables
<1>3. /\ file.issuers \in [IssuerIds -> Names \union {NoName}]
      /\ file.identifiers \in [Keys -> IssuerIds \union {NoIssuer}]
      /\ file.filings \in [Docs -> IssuerIds \union {NoIssuer}]
      /\ file.relations \in SUBSET (IssuerIds \X IssuerIds)
  BY <1>2, TablesHold
<1>4. PICK i \in IssuerIds, n \in Names, keys \in SUBSET Keys, stage \in 0..3 :
        /\ \A k \in keys : file.identifiers[k] \in {i, NoIssuer}
        /\ todo = UpsertLeft(stage, i, n, keys)
        /\ UpsertedUpTo(stage, i, n, keys)
  BY DEF Upserting
<1>5. stage = 3 \/ (stage = 2 /\ keys = {})
  <2>1. UpsertLeft(stage, i, n, keys) = <<>>
    BY <1>1, <1>4
  <2> QED BY <2>1 DEF UpsertLeft
<1> DEFINE ids == Claimed(Released(file.identifiers, i), keys, i)
<1>6. Holds(file', [file.issuers EXCEPT ![i] = n], ids,
            file.filings, file.relations, file.points)
  <2>1. CASE stage = 3
    BY <1>1, <1>4, <2>1 DEF UpsertedUpTo
  <2>2. CASE stage = 2 /\ keys = {}
    <3>1. Released(file.identifiers, i) = Claimed(Released(file.identifiers, i), keys, i)
      BY <1>3, <2>2 DEF Released, Claimed
    <3> QED BY <1>1, <1>4, <2>2, <3>1 DEF UpsertedUpTo
  <2> QED BY <1>5, <2>1, <2>2
<1>7. /\ ids = [k \in Keys |-> IF k \in keys THEN i
                               ELSE IF file.identifiers[k] = i THEN NoIssuer
                               ELSE file.identifiers[k]]
  BY DEF Released, Claimed
<1>8. i # NoIssuer /\ n # NoName
  OBVIOUS
<1> HIDE DEF ids
<1>9. FileInv'
  <2>1. \A j \in IssuerIds : Exists(file, j) => Exists(file', j)
    BY <1>3, <1>6, <1>8 DEF Exists, Holds
  <2>2. Exists(file', i)
    BY <1>3, <1>6, <1>8 DEF Exists, Holds
  <2>3. \A k \in Keys : file'.identifiers[k] # NoIssuer => Exists(file', file'.identifiers[k])
    BY <1>2, <1>3, <1>6, <1>7, <2>1, <2>2 DEF NamesExist, Holds
  <2>4. \A d \in Docs : file'.filings[d] # NoIssuer => Exists(file', file'.filings[d])
    BY <1>2, <1>3, <1>6, <2>1 DEF NamesExist, Holds
  <2>5. \A r \in file'.relations : Exists(file', r[1]) /\ Exists(file', r[2])
    BY <1>2, <1>3, <1>6, <2>1 DEF NamesExist, Holds
  <2>6. Filed(file') = Filed(file) /\ file'.relations = file.relations
    BY <1>6 DEF Filed, Holds
  <2>7. \A m \in DOMAIN file'.points : Exists(file', file'.points[m].issuer)
    <3>1. \A m \in DOMAIN file.points : file.points[m].issuer \in IssuerIds
      BY <1>2, PointsHold
    <3> QED BY <1>2, <1>6, <2>1, <3>1 DEF NamesExist, Holds
  <2> QED BY <1>2, <1>6, <2>3, <2>4, <2>5, <2>6, <2>7
          DEF FileInv, NamesExist, FiniteTables, Holds
<1>10. IssuersOf(file')
         = [IssuersOf(file) EXCEPT ![i] = [name |-> n, identifiers |-> keys]]
  <2>1. {k \in Keys : file'.identifiers[k] = i} = keys
    BY <1>6, <1>7, <1>8 DEF Holds
  <2>2. \A j \in IssuerIds \ {i} :
          {k \in Keys : file'.identifiers[k] = j} = {k \in Keys : file.identifiers[k] = j}
    BY <1>4, <1>6, <1>7, <1>8 DEF Holds
  <2>3. file'.issuers[i] = n
        /\ \A j \in IssuerIds \ {i} : file'.issuers[j] = file.issuers[j]
    BY <1>3, <1>6 DEF Holds
  <2> QED BY <2>1, <2>2, <2>3 DEF IssuersOf
<1>11. FilingsOf(file') = FilingsOf(file) /\ PointsOf(file') = PointsOf(file)
       /\ file'.relations = file.relations
  BY <1>6 DEF FilingsOf, Filed, PointsOf, Holds
<1>12. file'.identifiers = Store!IndexAfter(i, keys)
  BY <1>6, <1>7 DEF Holds, Store!IndexAfter
<1>13. ~Store!Clashes(i, keys)
  BY <1>4 DEF Store!Clashes
<1>14. Store!Upsert(i, n, keys)
  BY <1>10, <1>11, <1>12, <1>13
     DEF Store!Upsert, Store!recordVars, IssuersOf, FilingsOf, PointsOf, Filed
<1> QED BY <1>9, <1>14 DEF Store!StoreNext

(* A merge that ran to its end is committed as one.                        *)
LEMMA CommitMerges ==
  ASSUME DuckInv, Merging, Commit
  PROVE  FileInv' /\ Store!StoreNext
<1>1. file' = seen /\ todo = <<>>
  BY DEF Commit
<1>2. /\ file \in Tables /\ NamesExist(file)
      /\ IsFiniteSet(Filed(file)) /\ IsFiniteSet(file.relations)
  BY DEF DuckInv, FileInv, FiniteTables
<1>3. /\ file.issuers \in [IssuerIds -> Names \union {NoName}]
      /\ file.identifiers \in [Keys -> IssuerIds \union {NoIssuer}]
      /\ file.filings \in [Docs -> IssuerIds \union {NoIssuer}]
      /\ file.relations \in SUBSET (IssuerIds \X IssuerIds)
      /\ file.points \in Seq(Point)
  BY <1>2, TablesHold
<1>4. PICK keep \in IssuerIds, drop \in IssuerIds, stage \in 0..6 :
        /\ keep # drop /\ Exists(file, keep) /\ Exists(file, drop)
        /\ todo = SubSeq(MergeStatements(keep, drop), stage + 1, 6)
        /\ MergedUpTo(stage, keep, drop)
  BY DEF Merging
<1>5. stage = 6
  <2>1. \A m \in 0..5 : SubSeq(MergeStatements(keep, drop), m + 1, 6) # <<>>
    BY MergeSteps
  <2> QED BY <1>1, <1>4, <2>1
<1> DEFINE ids == MovedIds(file.identifiers, keep, drop)
           docs == MovedIds(file.filings, keep, drop)
           rels == MovedTo(MovedFrom(file.relations, keep, drop), keep, drop)
           pts == MovedPoints(file.points, keep, drop)
<1>6. Holds(file', [file.issuers EXCEPT ![drop] = NoName], ids, docs, rels, pts)
  BY <1>1, <1>4, <1>5 DEF MergedUpTo
<1>7. keep # NoIssuer /\ drop # NoIssuer
  OBVIOUS
<1>8. /\ ids = [k \in Keys |-> Follow(file.identifiers[k], keep, drop)]
      /\ docs = [d \in Docs |-> Follow(file.filings[d], keep, drop)]
      /\ rels = {<<Follow(r[1], keep, drop), Follow(r[2], keep, drop)>> : r \in file.relations}
  <2>1. /\ ids = [k \in Keys |-> Follow(file.identifiers[k], keep, drop)]
        /\ docs = [d \in Docs |-> Follow(file.filings[d], keep, drop)]
    BY <1>3 DEF MovedIds
  <2>2. rels = {<<r[1], Follow(r[2], keep, drop)>> :
                  r \in {<<Follow(r[1], keep, drop), r[2]>> : r \in file.relations}}
    BY DEF MovedTo, MovedFrom
  <2>3. rels = {<<Follow(r[1], keep, drop), Follow(r[2], keep, drop)>> : r \in file.relations}
    <3> DEFINE old == file.relations
               from == {<<Follow(r[1], keep, drop), r[2]>> : r \in old}
               lhs == {<<r[1], Follow(r[2], keep, drop)>> : r \in from}
               rhs == {<<Follow(r[1], keep, drop), Follow(r[2], keep, drop)>> : r \in old}
    <3>1. ASSUME NEW x \in lhs PROVE x \in rhs
      <4>1. PICK q \in from : x = <<q[1], Follow(q[2], keep, drop)>>
        OBVIOUS
      <4>2. PICK r \in old : q = <<Follow(r[1], keep, drop), r[2]>>
        OBVIOUS
      <4>3. x = <<Follow(r[1], keep, drop), Follow(r[2], keep, drop)>>
        BY <4>1, <4>2
      <4> QED BY <4>3
    <3>2. ASSUME NEW x \in rhs PROVE x \in lhs
      <4>1. PICK r \in old : x = <<Follow(r[1], keep, drop), Follow(r[2], keep, drop)>>
        OBVIOUS
      <4> DEFINE q == <<Follow(r[1], keep, drop), r[2]>>
      <4>2. q \in from /\ x = <<q[1], Follow(q[2], keep, drop)>>
        BY <4>1
      <4> HIDE DEF q, from
      <4> QED BY <4>2
    <3> HIDE DEF lhs, rhs
    <3>3. lhs = rhs
      BY <3>1, <3>2
    <3> HIDE DEF rels
    <3> QED BY <2>2, <3>3 DEF lhs, rhs
  <2> QED BY <2>1, <2>3
<1> HIDE DEF ids, docs, rels, pts
<1>9. Filed(file') = Filed(file)
  BY <1>3, <1>6, <1>7, <1>8 DEF Filed, Holds, Follow
<1>10. FileInv'
  <2>1. /\ Exists(file', keep)
        /\ \A j \in IssuerIds : Exists(file, j) /\ j # drop => Exists(file', j)
    BY <1>3, <1>4, <1>6 DEF Exists, Holds
  <2>2. \A j \in IssuerIds : Exists(file, j) => Exists(file', Follow(j, keep, drop))
    BY <2>1 DEF Follow
  <2>3. Follow(NoIssuer, keep, drop) = NoIssuer
    BY <1>7 DEF Follow
  <2>4. \A k \in Keys : file'.identifiers[k] # NoIssuer => Exists(file', file'.identifiers[k])
    BY <1>2, <1>3, <1>6, <1>8, <2>2, <2>3 DEF NamesExist, Holds
  <2>5. \A d \in Docs : file'.filings[d] # NoIssuer => Exists(file', file'.filings[d])
    BY <1>2, <1>3, <1>6, <1>8, <2>2, <2>3 DEF NamesExist, Holds
  <2>6. \A r \in file'.relations : Exists(file', r[1]) /\ Exists(file', r[2])
    <3>1. SUFFICES ASSUME NEW r \in file.relations
                   PROVE  /\ Exists(file', Follow(r[1], keep, drop))
                          /\ Exists(file', Follow(r[2], keep, drop))
      BY <1>6, <1>8 DEF Holds
    <3>2. r[1] \in IssuerIds /\ r[2] \in IssuerIds
      BY <1>3
    <3> QED BY <1>2, <2>2, <3>2 DEF NamesExist
  <2>7. IsFiniteSet(file'.relations)
    <3> DEFINE f == [r \in file.relations |->
                      <<Follow(r[1], keep, drop), Follow(r[2], keep, drop)>>]
    <3>1. f \in Surjection(file.relations, rels)
      BY <1>8 DEF Surjection
    <3> HIDE DEF f
    <3> QED BY <1>2, <1>6, <3>1, FS_Surjection DEF Holds
  <2>8. \A n \in DOMAIN file'.points : Exists(file', file'.points[n].issuer)
    <3>1. /\ DOMAIN file'.points = DOMAIN file.points
          /\ \A n \in DOMAIN file.points : file.points[n] \in Point
      BY <1>3, <1>6 DEF Holds, MovedPoints, pts
    <3>2. \A n \in DOMAIN file.points :
            /\ file.points[n].issuer \in IssuerIds /\ Exists(file, file.points[n].issuer)
            /\ file'.points[n].issuer = Follow(file.points[n].issuer, keep, drop)
      BY <1>2, <1>6, <3>1 DEF NamesExist, Holds, MovedPoints, pts, Point
    <3> QED BY <2>2, <3>1, <3>2
  <2> QED BY <1>2, <1>6, <1>9, <2>4, <2>5, <2>6, <2>7, <2>8
          DEF FileInv, NamesExist, FiniteTables, Holds
<1> DEFINE own(i) == {k \in Keys : file.identifiers[k] = i}
           merged == own(keep) \union own(drop)
<1>11. file'.identifiers = [k \in Keys |-> IF k \in merged THEN keep ELSE file.identifiers[k]]
  BY <1>3, <1>6, <1>8 DEF Holds, Follow
<1>12. IssuersOf(file') = [j \in IssuerIds |->
                            IF j = drop THEN [name |-> NoName, identifiers |-> {}]
                            ELSE IF j = keep
                            THEN [name |-> file.issuers[keep], identifiers |-> merged]
                            ELSE IssuersOf(file)[j]]
  <2>1. {k \in Keys : file'.identifiers[k] = keep} = merged
    BY <1>11
  <2>2. {k \in Keys : file'.identifiers[k] = drop} = {}
    BY <1>4, <1>11
  <2>3. \A j \in IssuerIds \ {keep, drop} : {k \in Keys : file'.identifiers[k] = j} = own(j)
    BY <1>11
  <2>4. file'.issuers = [file.issuers EXCEPT ![drop] = NoName]
    BY <1>6 DEF Holds
  <2>5. /\ file'.issuers[drop] = NoName /\ file'.issuers[keep] = file.issuers[keep]
        /\ \A j \in IssuerIds \ {keep, drop} : file'.issuers[j] = file.issuers[j]
    BY <1>3, <1>4, <2>4
  <2> DEFINE after(j) == [name |-> file'.issuers[j],
                          identifiers |-> {k \in Keys : file'.identifiers[k] = j}]
  <2>6. after(drop) = [name |-> NoName, identifiers |-> {}]
    BY <2>2, <2>5
  <2>7. after(keep) = [name |-> file.issuers[keep], identifiers |-> merged]
    <3> HIDE DEF merged
    <3> QED BY <2>1, <2>5
  <2>8. \A j \in IssuerIds \ {keep, drop} : after(j) = IssuersOf(file)[j]
    BY <2>3, <2>5 DEF IssuersOf
  <2>9. IssuersOf(file') = [j \in IssuerIds |-> after(j)]
    BY DEF IssuersOf
  <2> HIDE DEF merged, after
  <2> QED BY <1>4, <2>6, <2>7, <2>8, <2>9
<1>13. IssuersOf(file') = [IssuersOf(file) EXCEPT ![keep].identifiers = merged,
                                                  ![drop] = Store!Absent]
  <2> HIDE DEF merged
  <2> QED BY <1>4, <1>12 DEF IssuersOf, Store!Absent
<1>14. FilingsOf(file') = {<<f[1], Store!Heir(f[2], keep, drop)>> : f \in FilingsOf(file)}
  <2>1. \A d \in Filed(file) : file'.filings[d] = Store!Heir(file.filings[d], keep, drop)
    BY <1>6, <1>8 DEF Holds, Follow, Store!Heir, Filed
  <2>2. FilingsOf(file') = {<<d, Store!Heir(file.filings[d], keep, drop)>> : d \in Filed(file)}
    BY <1>9, <2>1 DEF FilingsOf
  <2>3. {<<f[1], Store!Heir(f[2], keep, drop)>> : f \in FilingsOf(file)}
          = {<<d, Store!Heir(file.filings[d], keep, drop)>> : d \in Filed(file)}
    <3> DEFINE old == {<<d, file.filings[d]>> : d \in Filed(file)}
               lhs == {<<f[1], Store!Heir(f[2], keep, drop)>> : f \in old}
               rhs == {<<d, Store!Heir(file.filings[d], keep, drop)>> : d \in Filed(file)}
    <3>1. ASSUME NEW x \in lhs PROVE x \in rhs
      <4>1. PICK f \in old : x = <<f[1], Store!Heir(f[2], keep, drop)>>
        OBVIOUS
      <4>2. PICK d \in Filed(file) : f = <<d, file.filings[d]>>
        OBVIOUS
      <4>3. x = <<d, Store!Heir(file.filings[d], keep, drop)>>
        BY <4>1, <4>2
      <4> QED BY <4>3
    <3>2. ASSUME NEW x \in rhs PROVE x \in lhs
      <4>1. PICK d \in Filed(file) : x = <<d, Store!Heir(file.filings[d], keep, drop)>>
        OBVIOUS
      <4> DEFINE f == <<d, file.filings[d]>>
      <4>2. f \in old /\ x = <<f[1], Store!Heir(f[2], keep, drop)>>
        BY <4>1
      <4> HIDE DEF f, old
      <4> QED BY <4>2
    <3> HIDE DEF lhs, rhs
    <3>3. lhs = rhs
      BY <3>1, <3>2
    <3> QED BY <3>3 DEF lhs, rhs, FilingsOf
  <2> QED BY <2>2, <2>3
<1>15. file'.relations = {Store!HeirsOfRelation(r, keep, drop) : r \in file.relations}
  BY <1>6, <1>8 DEF Holds, Follow, Store!Heir, Store!HeirsOfRelation
<1>16. PointsOf(file') = {<<Store!Heir(p[1], keep, drop), p[2]>> : p \in PointsOf(file)}
  <2>1. DOMAIN file'.points = DOMAIN file.points
    BY <1>6 DEF Holds, MovedPoints, pts
  <2>2. \A n \in DOMAIN file.points :
          /\ file'.points[n].issuer = Store!Heir(file.points[n].issuer, keep, drop)
          /\ file'.points[n].source = file.points[n].source
    <3>1. \A n \in DOMAIN file.points : file.points[n] \in Point
      BY <1>3
    <3> QED BY <1>6, <3>1 DEF Holds, MovedPoints, pts, Follow, Store!Heir, Point
  <2>3. PointsOf(file')
          = {<<file'.points[n].issuer, file'.points[n].source>> : n \in DOMAIN file.points}
    BY <2>1 DEF PointsOf, ToSet
  <2>4. PointsOf(file')
          = {<<Store!Heir(file.points[n].issuer, keep, drop), file.points[n].source>> :
               n \in DOMAIN file.points}
    BY <2>2, <2>3
  <2>5. PointsOf(file)
          = {<<file.points[n].issuer, file.points[n].source>> : n \in DOMAIN file.points}
    BY DEF PointsOf, ToSet
  <2>6. {<<Store!Heir(p[1], keep, drop), p[2]>> : p \in PointsOf(file)}
          = {<<Store!Heir(file.points[n].issuer, keep, drop), file.points[n].source>> :
               n \in DOMAIN file.points}
    <3> DEFINE N == DOMAIN file.points
               old == {<<file.points[n].issuer, file.points[n].source>> : n \in N}
               lhs == {<<Store!Heir(p[1], keep, drop), p[2]>> : p \in old}
               rhs == {<<Store!Heir(file.points[n].issuer, keep, drop),
                         file.points[n].source>> : n \in N}
    <3>1. ASSUME NEW x \in lhs PROVE x \in rhs
      <4>1. PICK p \in old : x = <<Store!Heir(p[1], keep, drop), p[2]>>
        OBVIOUS
      <4>2. PICK n \in N : p = <<file.points[n].issuer, file.points[n].source>>
        OBVIOUS
      <4>3. x = <<Store!Heir(file.points[n].issuer, keep, drop), file.points[n].source>>
        BY <4>1, <4>2
      <4> QED BY <4>3
    <3>2. ASSUME NEW x \in rhs PROVE x \in lhs
      <4>1. PICK n \in N : x = <<Store!Heir(file.points[n].issuer, keep, drop),
                                file.points[n].source>>
        OBVIOUS
      <4> DEFINE p == <<file.points[n].issuer, file.points[n].source>>
      <4>2. p \in old /\ x = <<Store!Heir(p[1], keep, drop), p[2]>>
        BY <4>1
      <4> HIDE DEF p, old
      <4> QED BY <4>2
    <3> HIDE DEF lhs, rhs
    <3>3. lhs = rhs
      BY <3>1, <3>2
    <3> QED BY <2>5, <3>3 DEF lhs, rhs
  <2> QED BY <2>4, <2>6
<1>17. Store!Live(keep) /\ Store!Live(drop)
  BY <1>4, StoreViews
<1>18. Store!Merge(keep, drop)
  <2>1. IssuersOf(file)[keep].identifiers \union IssuersOf(file)[drop].identifiers = merged
    BY DEF IssuersOf
  <2>2. file'.identifiers
          = [k \in Keys |-> IF k \in IssuersOf(file)[keep].identifiers
                                       \union IssuersOf(file)[drop].identifiers
                            THEN keep ELSE file.identifiers[k]]
    <3> HIDE DEF merged
    <3> QED BY <1>11, <2>1
  <2> HIDE DEF merged
  <2> QED BY <1>4, <1>13, <1>14, <1>15, <1>16, <1>17, <2>1, <2>2
          DEF Store!Merge, IssuersOf, FilingsOf, PointsOf, Filed
<1> QED BY <1>10, <1>18 DEF Store!StoreNext

-----------------------------------------------------------------------------
(* The steps.                                                              *)

(* What a step must show.                                                  *)
StepsWell == DuckInv' /\ [Store!StoreNext]_(Store!storeVars)

(* A step that leaves the file alone is none of EntityStore's.             *)
LEMMA SameFile == file' = file => UNCHANGED Store!storeVars
  BY DEF Store!storeVars

(* upsert_issuer begins.                                                   *)
LEMMA UpsertBegins ==
  ASSUME DuckInv, NEW i \in IssuerIds, NEW n \in Names, NEW keys \in SUBSET Keys,
         UpsertIssuer(i, n, keys)
  PROVE  StepsWell
<1>1. /\ txn = "none" /\ txn' = "open" /\ file' = file /\ seen' = seen
      /\ \A k \in keys : seen.identifiers[k] \in {i, NoIssuer}
  BY DEF UpsertIssuer, BeginTransaction, Begin
<1>2. seen = file /\ file \in Tables
  BY <1>1 DEF DuckInv, CallInv, FileInv
<1>3. todo' = UpsertCall(i, n, keys)
  BY DEF UpsertIssuer, BeginTransaction, Begin, UpsertCall, PutS, ReleaseS, ClaimS
<1>4. todo' = UpsertLeft(0, i, n, keys) /\ todo' \in Seq(Statements)
  BY <1>3, UpsertSteps
<1>5. UpsertedUpTo(0, i, n, keys)'
  BY <1>1, <1>2, TablesHold DEF UpsertedUpTo
<1>6. Upserting'
  BY <1>1, <1>2, <1>4, <1>5 DEF Upserting
<1>7. DuckInv'
  BY <1>1, <1>2, <1>4, <1>6 DEF DuckInv, CallInv, FileInv, NamesExist, FiniteTables,
                                Exists, Filed
<1> QED BY <1>1, <1>7, SameFile DEF StepsWell

(* merge_issuers begins.                                                   *)
LEMMA MergeBegins ==
  ASSUME DuckInv, NEW keep \in IssuerIds, NEW drop \in IssuerIds, MergeIssuers(keep, drop)
  PROVE  StepsWell
<1>1. /\ txn = "none" /\ txn' = "open" /\ file' = file /\ seen' = seen
      /\ todo' = MergeStatements(keep, drop)
      /\ Exists(seen, keep) /\ Exists(seen, drop) /\ keep # drop
  BY DEF MergeIssuers, BeginTransaction, Begin
<1>2. seen = file /\ file \in Tables
  BY <1>1 DEF DuckInv, CallInv, FileInv
<1>3. /\ SubSeq(MergeStatements(keep, drop), 0 + 1, 6) = MergeStatements(keep, drop)
      /\ MergeStatements(keep, drop) \in Seq(Statements)
  BY MergeSteps
<1>4. MergedUpTo(0, keep, drop)'
  BY <1>1, <1>2, TablesHold DEF MergedUpTo
<1>5. Merging'
  BY <1>1, <1>2, <1>3, <1>4 DEF Merging, Exists
<1>6. DuckInv'
  BY <1>1, <1>2, <1>3, <1>5 DEF DuckInv, CallInv, FileInv, NamesExist, FiniteTables,
                                Exists, Filed
<1> QED BY <1>1, <1>6, SameFile DEF StepsWell

(* An append begins.                                                       *)
LEMMA AppendBegins ==
  ASSUME DuckInv, NEW i \in IssuerIds, NEW stmts \in Seq(Appends), Append1(i, stmts),
         seen = file => \A n \in 1..Len(stmts) : HasIssuers(stmts[n])
  PROVE  StepsWell
<1>1. /\ txn \in {"none", "stuck"} /\ txn' = txn /\ file' = file /\ seen' = seen
      /\ todo' = stmts /\ Records + Len(stmts) <= MaxRecords
  BY DEF Append1, Idle, Begin
<1>2. stmts \in Seq(Statements)
  <2>1. Appends \subseteq Statements
    BY DEF Statements
  <2> QED BY <2>1
<1>3. ASSUME txn = "none" PROVE Appending'
  <2>1. seen = file
    BY <1>3 DEF DuckInv, CallInv
  <2>2. Records = RecordsOf(file)
    BY <2>1 DEF Records, RecordsOf, Filed
  <2> QED BY <1>1, <2>1, <2>2 DEF Appending, HasIssuers, Exists, RecordsOf, Filed
<1>4. DuckInv'
  BY <1>1, <1>2, <1>3 DEF DuckInv, CallInv, FileInv, NamesExist, FiniteTables, Exists, Filed
<1> QED BY <1>1, <1>4, SameFile DEF StepsWell

(* A statement runs.                                                       *)
LEMMA StatementRuns == ASSUME DuckInv, Statement PROVE StepsWell
<1>1. /\ todo # <<>> /\ seen' = Apply(seen, Head(todo)) /\ todo' = Tail(todo) /\ txn' = txn
  BY DEF Statement
<1>2. /\ seen \in Tables /\ todo \in Seq(Statements) /\ txn # "closed"
      /\ txn \in {"none", "open", "stuck"}
  BY <1>1 DEF DuckInv, CallInv
<1>3. Head(todo) \in Statements /\ Tail(todo) \in Seq(Statements)
  BY <1>1, <1>2, HeadTailProperties
<1>4. seen' \in Tables
  BY <1>1, <1>2, <1>3, ApplyTyped
<1>5. CASE txn = "none"
  <2>1. FileInv' /\ Appending' /\ seen' = file' /\ Store!AppendRecord
    BY <1>5, StatementAppends
  <2>2. DuckInv'
    BY <1>1, <1>3, <1>4, <1>5, <2>1 DEF DuckInv, CallInv
  <2> QED BY <2>1, <2>2 DEF StepsWell, Store!StoreNext
<1>6. CASE txn \in {"open", "stuck"}
  <2>1. file' = file
    BY <1>6 DEF Statement
  <2>2. FileInv'
    BY <2>1 DEF DuckInv, FileInv, NamesExist, FiniteTables, Exists, Filed
  <2>3. txn = "open" => Upserting' \/ Merging'
    BY StatementUpserts, StatementMerges DEF DuckInv, CallInv
  <2>4. DuckInv'
    BY <1>1, <1>3, <1>4, <1>6, <2>2, <2>3 DEF DuckInv, CallInv
  <2> QED BY <2>1, <2>4, SameFile DEF StepsWell
<1> QED BY <1>2, <1>5, <1>6

(* COMMIT runs.                                                            *)
LEMMA CommitRuns == ASSUME DuckInv, Commit PROVE StepsWell
<1>1. /\ txn = "open" /\ txn' = "none" /\ todo = <<>> /\ todo' = todo
      /\ file' = seen /\ seen' = seen
  BY DEF Commit
<1>2. Upserting \/ Merging
  BY <1>1 DEF DuckInv, CallInv
<1>3. FileInv' /\ Store!StoreNext
  BY <1>2, CommitUpserts, CommitMerges
<1>4. Appending'
  BY <1>1 DEF Appending
<1>5. DuckInv'
  BY <1>1, <1>3, <1>4 DEF DuckInv, CallInv
<1> QED BY <1>3, <1>5 DEF StepsWell

(* A call ends early, or the process does.                                 *)
LEMMA CallEnds == ASSUME DuckInv, Fail \/ Interrupt \/ Close PROVE StepsWell
<1>1. file' = file /\ todo' = <<>>
  BY DEF Fail, Interrupt, Close
<1>2. FileInv' /\ Appending' /\ <<>> \in Seq(Statements)
  BY <1>1 DEF DuckInv, FileInv, NamesExist, FiniteTables, Exists, Filed, Appending
<1>3. DuckInv'
  <2>1. CASE Fail
    BY <1>1, <1>2, <2>1 DEF DuckInv, CallInv, FileInv, Fail, RolledBack
  <2>2. CASE Interrupt
    BY <1>1, <1>2, <2>2 DEF DuckInv, CallInv, FileInv, Interrupt
  <2>3. CASE Close
    BY <1>1, <1>2, <2>3 DEF DuckInv, CallInv, FileInv, Close
  <2> QED BY <2>1, <2>2, <2>3
<1> QED BY <1>1, <1>3, SameFile DEF StepsWell

(* The file is opened.                                                     *)
LEMMA FileOpens == ASSUME DuckInv, Open PROVE StepsWell
<1>1. /\ txn = "closed" /\ txn' = "none" /\ file' = [file EXCEPT !.version = 1]
      /\ seen' = file' /\ todo' = todo /\ todo = <<>>
  BY DEF Open, DuckInv, CallInv
<1>2. file' \in Tables
        /\ file'.issuers = file.issuers /\ file'.identifiers = file.identifiers
        /\ file'.filings = file.filings /\ file'.relations = file.relations
        /\ file'.points = file.points
  BY <1>1 DEF DuckInv, FileInv, Tables
<1>3. FileInv'
  BY <1>2 DEF DuckInv, FileInv, NamesExist, FiniteTables, Exists, Filed
<1>4. DuckInv'
  BY <1>1, <1>2, <1>3 DEF DuckInv, CallInv, Appending
<1>5. UNCHANGED Store!storeVars
  BY <1>2 DEF Store!storeVars
<1> QED BY <1>4, <1>5 DEF StepsWell

(* Every step keeps the invariant, and is one of EntityStore or none.      *)
LEMMA DuckStep == ASSUME DuckInv, [Next]_vars PROVE StepsWell
<1>1. ASSUME NEW i \in IssuerIds, NEW n \in Names, NEW keys \in SUBSET Keys,
             UpsertIssuer(i, n, keys)
      PROVE  StepsWell
  BY <1>1, UpsertBegins
<1>2. ASSUME NEW keep \in IssuerIds, NEW drop \in IssuerIds, MergeIssuers(keep, drop)
      PROVE  StepsWell
  BY <1>2, MergeBegins
<1>3. ASSUME NEW d \in Docs, NEW i \in IssuerIds, AppendFiling(d, i)
      PROVE  StepsWell
  <2> DEFINE s == [do |-> "filing", doc |-> d, id |-> i]
  <2>1. s \in Appends /\ s.do = "filing" /\ s.id = i
    BY DEF Appends
  <2>2. Append1(i, <<s>>)
    BY <1>3 DEF AppendFiling
  <2>3. Exists(seen, i)
    BY <2>2 DEF Append1
  <2>4. seen = file => HasIssuers(s)
    BY <2>1, <2>3 DEF HasIssuers
  <2> HIDE DEF s
  <2>5. <<s>> \in Seq(Appends) /\ Len(<<s>>) = 1 /\ <<s>>[1] = s
    BY <2>1
  <2>6. seen = file => \A n \in 1..Len(<<s>>) : HasIssuers(<<s>>[n])
    BY <2>4, <2>5
  <2> QED BY <2>2, <2>5, <2>6, AppendBegins
<1>4. ASSUME NEW from \in IssuerIds, NEW to \in IssuerIds, AppendRelation(from, to)
      PROVE  StepsWell
  <2> DEFINE s == [do |-> "relation", id |-> from, to |-> to]
  <2>1. s \in Appends /\ s.do = "relation" /\ s.id = from /\ s.to = to
    BY DEF Appends
  <2>2. Append1(from, <<s>>) /\ Exists(seen, to)
    BY <1>4 DEF AppendRelation
  <2>3. Exists(seen, from)
    BY <2>2 DEF Append1
  <2>4. seen = file => HasIssuers(s)
    BY <2>1, <2>2, <2>3 DEF HasIssuers
  <2> HIDE DEF s
  <2>5. <<s>> \in Seq(Appends) /\ Len(<<s>>) = 1 /\ <<s>>[1] = s
    BY <2>1
  <2>6. seen = file => \A n \in 1..Len(<<s>>) : HasIssuers(<<s>>[n])
    BY <2>4, <2>5
  <2> QED BY <2>2, <2>5, <2>6, AppendBegins
<1>5. ASSUME NEW i \in IssuerIds, NEW len \in 1..MaxPoints,
             NEW points \in [1..len -> {p \in Point : p.issuer = i}],
             AppendMarketPoints(i, points)
      PROVE  StepsWell
  <2> DEFINE stmts == [n \in 1..len |-> [do |-> "point", point |-> points[n]]]
  <2>1. Append1(i, stmts)
    BY <1>5 DEF AppendMarketPoints
  <2>2. Exists(seen, i)
    BY <2>1 DEF Append1
  <2>3. \A n \in 1..len : /\ stmts[n] \in Appends
                          /\ stmts[n].do = "point" /\ stmts[n].point.issuer = i
    BY DEF Appends
  <2>4. seen = file => \A n \in 1..len : HasIssuers(stmts[n])
    BY <2>2, <2>3 DEF HasIssuers
  <2>5. stmts \in Seq(Appends) /\ Len(stmts) = len
    <3>1. len \in Nat
      OBVIOUS
    <3>2. stmts \in [1..len -> Appends]
      BY <2>3
    <3> HIDE DEF stmts
    <3> QED BY <3>1, <3>2
  <2> HIDE DEF stmts
  <2> QED BY <2>1, <2>4, <2>5, AppendBegins
<1>6. CASE UNCHANGED vars
  <2>1. file' = file /\ seen' = seen /\ txn' = txn /\ todo' = todo
    BY <1>6 DEF vars
  <2>2. FileInv => FileInv'
    BY <2>1 DEF FileInv, NamesExist, FiniteTables, Exists, Filed
  <2>3. Appending => Appending'
    BY <2>1 DEF Appending, HasIssuers, Exists, RecordsOf, Filed
  <2>4. Upserting => Upserting'
    BY <2>1 DEF Upserting, UpsertedUpTo
  <2>5. Merging => Merging'
    <3>1. \A keep, drop \in IssuerIds, stage \in 0..6 :
            MergedUpTo(stage, keep, drop)' <=> MergedUpTo(stage, keep, drop)
      <4>1. TAKE keep \in IssuerIds, drop \in IssuerIds, stage \in 0..6
      <4>2. MergedUpTo(stage, keep, drop)' <=> MergedUpTo(stage, keep, drop)
        BY <2>1, SMTT(30) DEF MergedUpTo
      <4> QED BY <4>2
    <3> QED BY <2>1, <3>1 DEF Merging, Exists
  <2> QED BY <2>1, <2>2, <2>3, <2>4, <2>5, SameFile DEF StepsWell, DuckInv, CallInv
<1> QED BY <1>1, <1>2, <1>3, <1>4, <1>5, <1>6, StatementRuns, CommitRuns, CallEnds, FileOpens
        DEF Next

(* DuckInv holds in every state: the transaction that is open has done the *)
(* first statements of an upsert or of a merge, and nothing in the file    *)
(* names an issuer that is not there.                                      *)
THEOREM DuckInvariant == Spec => []DuckInv
<1>1. DuckInv /\ [Next]_vars => DuckInv'
  BY DuckStep DEF StepsWell
<1> QED BY <1>1, DuckInit, PTL DEF Spec

(* Every state is one the model means: the tables hold rows of their       *)
(* columns' types, and outside of a transaction the connection sees the    *)
(* file.                                                                   *)
THEOREM TypeCorrect == Spec => []TypeOK
<1>1. DuckInv => TypeOK
  BY DEF DuckInv, FileInv, CallInv, TypeOK
<1> QED BY <1>1, DuckInvariant, PTL

(* Nothing on file names an issuer that is not there, the points included, *)
(* which no foreign key protects.                                          *)
THEOREM NothingDangles == Spec => []Store!NoDangling
<1>1. DuckInv => Store!NoDangling
  <2> SUFFICES ASSUME DuckInv PROVE Store!NoDangling
    OBVIOUS
  <2>1. file \in Tables /\ NamesExist(file)
    BY DEF DuckInv, FileInv
  <2>2. /\ file.identifiers \in [Keys -> IssuerIds \union {NoIssuer}]
        /\ file.filings \in [Docs -> IssuerIds \union {NoIssuer}]
        /\ file.relations \in SUBSET (IssuerIds \X IssuerIds)
        /\ file.points \in Seq(Point)
    BY <2>1, TablesHold
  <2>3. \A k \in Keys : file.identifiers[k] # NoIssuer => Store!Live(file.identifiers[k])
    BY <2>1, <2>2, StoreViews DEF NamesExist
  <2>4. \A f \in FilingsOf(file) : Store!Live(f[2])
    BY <2>1, <2>2, StoreViews DEF NamesExist, FilingsOf, Filed
  <2>5. \A r \in file.relations : Store!Live(r[1]) /\ Store!Live(r[2])
    BY <2>1, <2>2, StoreViews DEF NamesExist
  <2>6. \A p \in PointsOf(file) : Store!Live(p[1])
    <3>1. \A n \in DOMAIN file.points : /\ file.points[n].issuer \in IssuerIds
                                        /\ Exists(file, file.points[n].issuer)
      BY <2>1, PointsHold DEF NamesExist
    <3>2. \A n \in DOMAIN file.points : Store!Live(file.points[n].issuer)
      BY <3>1, StoreViews
    <3> QED BY <3>2 DEF PointsOf, ToSet
  <2> QED BY <2>3, <2>4, <2>5, <2>6 DEF Store!NoDangling, FilingsOf, PointsOf, Filed
<1> QED BY <1>1, DuckInvariant, PTL

(* The file goes from one state EntityStore allows to the next, whatever   *)
(* statement fails and wherever a call is interrupted or killed.           *)
THEOREM ImplementsStoreHolds == Spec => ImplementsStore
<1>1. Init => Store!StoreInit
  <2> SUFFICES ASSUME Init PROVE Store!StoreInit
    OBVIOUS
  <2>1. /\ file.issuers = [i \in IssuerIds |-> NoName]
        /\ file.identifiers = [k \in Keys |-> NoIssuer]
        /\ file.filings = [d \in Docs |-> NoIssuer]
        /\ file.relations = {} /\ file.points = <<>>
    BY DEF Init
  <2>2. IssuersOf(file) = [i \in IssuerIds |-> Store!Absent]
    BY <2>1 DEF IssuersOf, Store!Absent
  <2>3. FilingsOf(file) = {} /\ PointsOf(file) = {}
    BY <2>1 DEF FilingsOf, Filed, PointsOf, ToSet
  <2> QED BY <2>1, <2>2, <2>3 DEF Store!StoreInit, IssuersOf, FilingsOf, PointsOf, Filed
<1>2. DuckInv /\ [Next]_vars => [Store!StoreNext]_(Store!storeVars)
  BY DuckStep DEF StepsWell
<1> QED BY <1>1, <1>2, DuckInvariant, PTL DEF Spec, ImplementsStore, Store!StoreSpec

-----------------------------------------------------------------------------
(* The reads.                                                              *)

(* The filings of an issuer, as pairs, are those of the file.              *)
LEMMA FilingsAgree ==
  \A i : {f[1] : f \in {f \in FilingsOf(file) : f[2] = i}}
           = {d \in Filed(file) : file.filings[d] = i}
<1> SUFFICES ASSUME NEW i
             PROVE  {f[1] : f \in {f \in FilingsOf(file) : f[2] = i}}
                      = {d \in Filed(file) : file.filings[d] = i}
  OBVIOUS
<1> DEFINE pairs == {f \in FilingsOf(file) : f[2] = i}
           lhs == {f[1] : f \in pairs}
           rhs == {d \in Filed(file) : file.filings[d] = i}
<1>1. ASSUME NEW x \in lhs PROVE x \in rhs
  <2>1. PICK f \in FilingsOf(file) : f[2] = i /\ x = f[1]
    OBVIOUS
  <2>2. PICK d \in Filed(file) : f = <<d, file.filings[d]>>
    BY DEF FilingsOf
  <2> QED BY <2>1, <2>2
<1>2. ASSUME NEW x \in rhs PROVE x \in lhs
  <2> DEFINE f == <<x, file.filings[x]>>
  <2>1. f \in FilingsOf(file) /\ f[2] = i /\ f[1] = x
    BY DEF FilingsOf
  <2>2. f \in pairs /\ f[1] = x
    BY <2>1
  <2> HIDE DEF f, pairs
  <2> QED BY <2>2
<1> HIDE DEF lhs, rhs
<1>3. lhs = rhs
  BY <1>1, <1>2
<1> QED BY <1>3 DEF lhs, rhs

(* Every read of the tables answers what EntityStore answers: the joins    *)
(* with issuers leave nothing out.                                         *)
THEOREM AnswersAgreeHolds == Spec => []AnswersAgree
<1>1. DuckInv => AnswersAgree
  <2> SUFFICES ASSUME DuckInv, txn = "none"
               PROVE  /\ \A k \in Keys : LookupIssuer(k) = Store!LookupIssuer(k)
                      /\ \A i \in IssuerIds :
                           /\ SubsidiariesOf(i) = Store!SubsidiariesOf(i)
                           /\ RelationsFor(i) = Store!RelationsFor(i)
                           /\ FilingsFor(i) = Store!FilingsFor(i)
    BY DEF AnswersAgree
  <2>1. seen = file /\ file \in Tables /\ NamesExist(file)
    BY DEF DuckInv, CallInv, FileInv
  <2>2. /\ file.identifiers \in [Keys -> IssuerIds \union {NoIssuer}]
        /\ file.filings \in [Docs -> IssuerIds \union {NoIssuer}]
        /\ file.relations \in SUBSET (IssuerIds \X IssuerIds)
    BY <2>1, TablesHold
  <2>3. ASSUME NEW k \in Keys PROVE LookupIssuer(k) = Store!LookupIssuer(k)
    <3>1. CASE file.identifiers[k] = NoIssuer
      BY <2>1, <3>1 DEF LookupIssuer, Store!LookupIssuer
    <3>2. CASE file.identifiers[k] # NoIssuer
      <4>1. file.identifiers[k] \in IssuerIds /\ Exists(file, file.identifiers[k])
        BY <2>1, <2>2, <3>2 DEF NamesExist
      <4> QED BY <2>1, <3>2, <4>1 DEF LookupIssuer, Store!LookupIssuer
    <3> QED BY <3>1, <3>2
  <2>4. ASSUME NEW i \in IssuerIds PROVE SubsidiariesOf(i) = Store!SubsidiariesOf(i)
    <3>1. {r \in file.relations : r[2] = i /\ Exists(file, r[1])}
            = {r \in file.relations : r[2] = i}
      BY <2>1 DEF NamesExist
    <3> QED BY <2>1, <3>1 DEF SubsidiariesOf, Store!SubsidiariesOf
  <2>5. ASSUME NEW i \in IssuerIds PROVE RelationsFor(i) = Store!RelationsFor(i)
    BY <2>1 DEF RelationsFor, Store!RelationsFor
  <2>6. ASSUME NEW i \in IssuerIds PROVE FilingsFor(i) = Store!FilingsFor(i)
    <3>1. FilingsFor(i) = {d \in Filed(file) : file.filings[d] = i}
      BY <2>1 DEF FilingsFor, Filed
    <3>2. Store!FilingsFor(i) = {f[1] : f \in {f \in FilingsOf(file) : f[2] = i}}
      BY DEF Store!FilingsFor, FilingsOf, Filed
    <3> QED BY <3>1, <3>2, FilingsAgree
  <2> QED BY <2>3, <2>4, <2>5, <2>6
<1> QED BY <1>1, DuckInvariant, PTL

(* The first source of an order that is in a set is in the set.            *)
LEMMA FirstIsThere ==
  ASSUME NEW order \in Seq(Sources), NEW S, NEW m \in DOMAIN order, order[m] \in S
  PROVE  FirstOf(order, S) \in S
<1> DEFINE T == {n \in DOMAIN order : order[n] \in S}
<1>1. DOMAIN order = 1..Len(order) /\ Len(order) \in Nat
  BY LenProperties
<1>2. T \subseteq Nat /\ T # {}
  BY <1>1
<1>3. PICK n \in T : \A k \in T : ~(<<k, n>> \in OpToRel(<, Nat))
  <2> HIDE DEF T
  <2> QED BY <1>2, NatLessThanWellFounded, WFMin
<1>4. \A k \in 1..n-1 : order[k] \notin S
  <2>1. SUFFICES ASSUME NEW k \in 1..n-1, order[k] \in S PROVE FALSE
    OBVIOUS
  <2>2. k \in T /\ k \in Nat /\ n \in Nat /\ k < n
    BY <1>1, <2>1
  <2>3. <<k, n>> \in OpToRel(<, Nat)
    BY <2>2 DEF OpToRel
  <2> QED BY <1>3, <2>2, <2>3
<1>5. \E k \in DOMAIN order : order[k] \in S /\ \A j \in 1..k-1 : order[j] \notin S
  BY <1>4
<1> DEFINE first == CHOOSE k \in DOMAIN order :
                      order[k] \in S /\ \A j \in 1..k-1 : order[j] \notin S
<1>6. order[first] \in S
  <2> HIDE DEF T
  <2> QED BY <1>5
<1>7. FirstOf(order, S) = order[first]
  BY DEF FirstOf
<1> QED BY <1>6, <1>7

(* The source a read chooses is one that has a point.                      *)
LEMMA ChosenIsThere ==
  ASSUME NEW S \in SUBSET Sources, S # {}
  PROVE  ChosenSource(S) \in S
<1>1. CASE \E s \in S : s \in ToSet(Priority)
  <2>1. PICK m \in DOMAIN Priority : Priority[m] \in S
    BY <1>1 DEF ToSet
  <2>2. FirstOf(Priority, S) \in S
    BY <2>1, FirstIsThere DEF DuckDbStoreAssumption
  <2> QED BY <1>1, <2>2 DEF ChosenSource
<1>2. CASE ~\E s \in S : s \in ToSet(Priority)
  <2>1. PICK m \in DOMAIN SourceOrder : SourceOrder[m] \in S
    BY DEF Sources, ToSet
  <2>2. FirstOf(SourceOrder, S) \in S
    BY <2>1, FirstIsThere DEF DuckDbStoreAssumption
  <2> QED BY <1>2, <2>2 DEF ChosenSource
<1> QED BY <1>1, <1>2

(* No disagreement between sources goes unreported: a point whose source   *)
(* has no other value at its time agrees with the one chosen, or is in the *)
(* conflict log, whichever of two points of one source the engine kept.    *)
THEOREM DisagreementIsReported == Spec => []DisagreementReported
<1>1. DuckInv => DisagreementReported
  <2> SUFFICES ASSUME DuckInv, NEW i \in IssuerIds, NEW time \in Times,
                      NEW f \in Readings(i, time), NEW p \in PointsAt(i, time),
                      \A q \in PointsAt(i, time) : q.source = p.source => q = p,
                      p.value # f[ChosenSource(DOMAIN f)].value
               PROVE  p \in Discarded(f)
    BY DEF DisagreementReported
  <2> DEFINE S == SourcesAt(i, time)
             c == ChosenSource(S)
             s == p.source
  <2>1. /\ f \in [S -> PointsAt(i, time)]
        /\ \A t \in S : f[t].source = t
    BY DEF Readings
  <2>2. s \in S
    BY DEF SourcesAt
  <2>3. S \subseteq Sources
    <3>1. \A n \in DOMAIN seen.points : seen.points[n] \in Point
      BY PointsHold DEF DuckInv, CallInv
    <3> QED BY <3>1 DEF SourcesAt, PointsAt, ToSet, Point
  <2>4. c \in S
    <3> HIDE DEF S, s
    <3> QED BY <2>2, <2>3, ChosenIsThere
  <2>5. f[s] = p
    BY <2>1, <2>2
  <2>6. DOMAIN f = S
    BY <2>1
  <2>7. f[c].source = c
    <3> HIDE DEF c, S, s
    <3> QED BY <2>1, <2>4
  <2>8. c # s /\ p.value # f[c].value
    <3>1. p.value # f[c].value
      BY <2>6
    <3> HIDE DEF c, S, s
    <3> QED BY <2>5, <3>1
  <2> HIDE DEF c, S, s
  <2>9. s \in DOMAIN f /\ s # f[c].source /\ f[s].value # f[c].value
    BY <2>2, <2>5, <2>6, <2>7, <2>8
  <2>10. Discarded(f) = {f[t] : t \in {t \in DOMAIN f : t # f[c].source
                                                        /\ f[t].value # f[c].value}}
    BY <2>6 DEF Discarded, c
  <2> QED BY <2>5, <2>9, <2>10
<1> QED BY <1>1, DuckInvariant, PTL
=============================================================================
