------------------------ MODULE ContentDatabaseProofs ------------------------
(***************************************************************************)
(* Database calls, for any number of callers and contents, any pool and    *)
(* either database: the callers, the queue and the connections agree, what *)
(* an open transaction has written is what its statements so far say, and  *)
(* with that every unit takes effect at one moment or not at all.          *)
(***************************************************************************)
EXTENDS ContentDatabase, TLAPS

-----------------------------------------------------------------------------
(* Statements and units *)

\* The last writes of some statements and one more.
LEMMA OneMoreWrite ==
    ASSUME NEW u, NEW t, NEW n \in Nat
    PROVE  /\ LastWrites(u, 0, t) = {}
           /\ LastWrites(u, n + 1, t) = IF Writes(u.statements[n + 1], t) THEN {n + 1}
                                        ELSE LastWrites(u, n, t)
<1> DEFINE W(i) == Writes(u.statements[i], t)
<1>1. \A m \in Nat : LastWrites(u, m, t) = {i \in 1 .. m : W(i) /\ \A j \in (i + 1) .. m : ~W(j)}
  BY DEF LastWrites
<1> HIDE DEF W
<1>2. LastWrites(u, 0, t) = {}
  BY <1>1
<1>3. CASE W(n + 1)
  <2>1. LastWrites(u, n + 1, t) = {n + 1}
    BY <1>1, <1>3
  <2> QED
    BY <1>2, <1>3, <2>1 DEF W
<1>4. CASE ~W(n + 1)
  <2>1. LastWrites(u, n + 1, t) = LastWrites(u, n, t)
    BY <1>1, <1>4
  <2> QED
    BY <1>2, <1>4, <2>1 DEF W
<1> QED
  BY <1>3, <1>4

\* The statements take effect one after the other.
LEMMA EffectsAdd ==
    ASSUME NEW v \in [Tables -> Values], NEW u, NEW c, NEW n \in Nat
    PROVE  /\ AfterFirst(v, u, c, 0) = v
           /\ AfterFirst(v, u, c, n + 1) = After(AfterFirst(v, u, c, n), u.statements[n + 1], c)
<1> DEFINE s == u.statements[n + 1]
<1>1. \A t \in Tables : /\ LastWrites(u, 0, t) = {}
                        /\ LastWrites(u, n + 1, t) = IF Writes(s, t) THEN {n + 1}
                                                     ELSE LastWrites(u, n, t)
  BY OneMoreWrite
<1>2. AfterFirst(v, u, c, 0) = v
  BY <1>1 DEF AfterFirst
<1> DEFINE A == AfterFirst(v, u, c, n + 1)
           B == AfterFirst(v, u, c, n)
           C == After(B, s, c)
<1>3. ASSUME NEW t \in Tables PROVE A[t] = C[t]
  <2>1. CASE Writes(s, t)
    <3>1. C[t] = IF s.kind = "delete" THEN Absent ELSE c
      BY <2>1 DEF After
    <3>2. LastWrites(u, n + 1, t) = {n + 1}
      BY <1>1, <2>1
    <3>3. A[t] = IF s.kind = "delete" THEN Absent ELSE c
      BY <3>2 DEF AfterFirst
    <3> QED
      BY <3>1, <3>3
  <2>2. CASE ~Writes(s, t)
    <3>1. C[t] = B[t]
      BY <2>2 DEF After
    <3>2. LastWrites(u, n + 1, t) = LastWrites(u, n, t)
      BY <1>1, <2>2
    <3> QED
      BY <3>1, <3>2 DEF AfterFirst
  <2> QED
    BY <2>1, <2>2
<1>4. A = [t \in Tables |-> A[t]] /\ C = [t \in Tables |-> C[t]]
  BY DEF AfterFirst, After
<1> HIDE DEF A, C
<1>5. A = C
  BY <1>3, <1>4
<1> QED
  BY <1>2, <1>5 DEF A, C

\* A row is what it was, or absent, or written with the content.
LEMMA EffectType ==
    ASSUME NEW v \in [Tables -> Values], NEW u, NEW c \in Values, NEW n \in Nat
    PROVE  AfterFirst(v, u, c, n) \in [Tables -> Values]
BY DEF AfterFirst, Values

\* Whatever the rows were, the last write of a row decides.
LEMMA LastWriteDecides ==
    ASSUME NEW v, NEW u, NEW c, NEW n \in Nat, NEW t \in Tables, NEW i \in 1 .. n,
           Writes(u.statements[i], t), \A j \in (i + 1) .. n : ~Writes(u.statements[j], t)
    PROVE  AfterFirst(v, u, c, n)[t] = IF u.statements[i].kind = "delete" THEN Absent ELSE c
<1>1. LastWrites(u, n, t) = {i}
  BY DEF LastWrites
<1> QED
  BY <1>1 DEF AfterFirst

-----------------------------------------------------------------------------
(* The programs *)

\* The named units of the program, as the case analysis speaks of them.
DeleteContent ==
    Transaction("content", << Delete("aggregate"), Delete("file"), Delete("extract") >>)

Transactions == {UpsertProposal, DeleteContent, DeleteListing, UpsertSkill, IndexVersion}

Databases == {"content", "catalog", "search"}

Autocommitted(db) ==
    CASE db = "content" ->
            {Read("aggregate"), Put("aggregate"), Put("file"), Put("extract"), Put("skill")}
      [] db = "catalog" -> {Delete("skillFile"), Delete("tag"), Delete("version")}
      [] db = "search"  ->
            {Delete("document"), Delete("documentTag"), Put("document"), Insert("documentTag")}

\* The program of every operation, written out.
LEMMA ProgramOf ==
    /\ Operations = {"findProposal", "saveProposal", "storeFile", "storeExtract",
                     "deleteProposal", "saveSkill", "rebuild", "indexVersion",
                     "removeVersion", "reindexAll"}
    /\ Program["findProposal"] = << Single("content", Read("aggregate")) >>
    /\ Program["saveProposal"] = << Single("content", Put("aggregate")), UpsertProposal >>
    /\ Program["storeFile"] = << Single("content", Put("file")) >>
    /\ Program["storeExtract"] = << Single("content", Put("extract")) >>
    /\ Program["deleteProposal"] = << DeleteContent, DeleteListing >>
    /\ Program["saveSkill"] = << Single("content", Put("skill")), UpsertSkill >>
    /\ Program["rebuild"] =
            << Single("catalog", Delete("skillFile")), Single("catalog", Delete("tag")),
               Single("catalog", Delete("version")), UpsertSkill >>
    /\ Program["indexVersion"] = << IndexVersion >>
    /\ Program["removeVersion"] = << Single("search", Delete("document")) >>
    /\ Program["reindexAll"] =
            << Single("search", Delete("document")), Single("search", Delete("documentTag")),
               Single("search", Put("document")), Single("search", Insert("documentTag")) >>
BY DEF Program, Operations, DeleteProposal, DeleteContent, Rebuild, ReindexAll

\* Every operation has at least one unit.
LEMMA ProgramLengths == \A op \in Operations : Len(Program[op]) \in Nat \ {0}
BY ProgramOf

\* The operations of the search projection that only MySQL has.
Maintenance == {"rebuild", "indexVersion", "removeVersion", "reindexAll"}

\* The fields of a single statement and of a unit made of one.
LEMMA SingleFields ==
    ASSUME NEW db, NEW s
    PROVE  /\ Single(db, s).db = db /\ Single(db, s).tx = FALSE
           /\ Single(db, s).statements = <<s>>
BY DEF Single

\* A unit of one statement determines its database and its statement.
LEMMA SingleOnce ==
    ASSUME NEW db, NEW s, NEW e, NEW r, Single(db, s) = Single(e, r)
    PROVE  db = e /\ s = r
<1>1. Single(db, s).db = db /\ Single(db, s).statements = <<s>>
  BY SingleFields
<1>2. Single(e, r).db = e /\ Single(e, r).statements = <<r>>
  BY SingleFields
<1>3. db = e /\ <<s>> = <<r>>
  BY <1>1, <1>2
<1> QED
  BY <1>3

\* A unit run without a transaction.
IsAlone(u) ==
    \E db \in Databases : \E s \in Autocommitted(db) : u = Single(db, s)

\* A transaction is one of five, and any other unit a statement on its own.  Only
\* findProposal reads; only maintenance, which writes what is published, touches
\* the search index or projects with single statements.
LEMMA UnitShapes ==
    ASSUME NEW op \in Operations, NEW i \in 1 .. Len(Program[op])
    PROVE  LET u == Program[op][i]
           IN  /\ u \in Transactions \/ IsAlone(u)
               /\ op = "findProposal" <=> u = Single("content", Read("aggregate"))
               /\ u.db = "search" => op \notin Saves
               /\ u.db # "content" /\ ~u.tx => op \in Maintenance
<1> DEFINE u == Program[op][i]
           Goal == /\ u \in Transactions \/ IsAlone(u)
                   /\ op = "findProposal" <=> u = Single("content", Read("aggregate"))
                   /\ u.db = "search" => op \notin Saves
                   /\ u.db # "content" /\ ~u.tx => op \in Maintenance
<1>1. ASSUME NEW db \in Databases, NEW s \in Autocommitted(db),
             u = Single(db, s),
             op = "findProposal" <=> db = "content" /\ s = Read("aggregate"),
             db = "search" => op \notin Saves,
             db # "content" => op \in Maintenance
      PROVE  Goal
  <2> HIDE DEF u
  <2>1. u.db = db /\ u.tx = FALSE
    BY <1>1, SingleFields
  <2>2. u = Single("content", Read("aggregate")) <=> db = "content" /\ s = Read("aggregate")
    <3>1. CASE db = "content" /\ s = Read("aggregate")
      BY <1>1, <3>1
    <3>2. CASE u = Single("content", Read("aggregate"))
      <4>1. u.db = "content" /\ u.statements = << Read("aggregate") >>
        BY <3>2, SingleFields
      <4>2. u.db = db /\ u.statements = <<s>>
        BY <1>1, SingleFields
      <4>3. db = "content"
        BY <4>1, <4>2
      <4>4. s = Read("aggregate")
        BY <4>1, <4>2
      <4> QED
        BY <3>2, <4>3, <4>4
    <3> QED
      BY <3>1, <3>2
  <2>3. IsAlone(u)
    BY <1>1 DEF IsAlone
  <2> QED
    BY <1>1, <2>1, <2>2, <2>3 DEF Goal
<1>2. ASSUME u \in Transactions, op # "findProposal", u.db = "search" => op \notin Saves PROVE Goal
  <2>1. u.tx = TRUE
    BY <1>2 DEF Transactions, Transaction, UpsertProposal, DeleteContent, DeleteListing,
                UpsertSkill, IndexVersion
  <2>2. u # Single("content", Read("aggregate"))
    BY <2>1 DEF Single
  <2> QED
    BY <1>2, <2>1, <2>2
<1>3. /\ UpsertProposal.db = "catalog" /\ DeleteContent.db = "content"
      /\ DeleteListing.db = "catalog" /\ UpsertSkill.db = "catalog" /\ IndexVersion.db = "search"
  BY DEF Transaction, UpsertProposal, DeleteContent, DeleteListing, UpsertSkill, IndexVersion
<1> SUFFICES Goal
  OBVIOUS
<1> HIDE DEF Goal
<1>4. \A table : Put(table) # Read("aggregate") /\ Delete(table) # Read("aggregate")
                 /\ Insert(table) # Read("aggregate")
  BY DEF Read, Put, Delete, Insert
<1> USE ProgramOf
<1>5. CASE op = "findProposal"
  <2>1. u = Single("content", Read("aggregate"))
    BY <1>5
  <2> QED
    BY <1>1, <1>5, <2>1 DEF Databases, Autocommitted, Saves
<1>6. CASE op = "saveProposal"
  <2>1. u \in {Single("content", Put("aggregate")), UpsertProposal}
    BY <1>6
  <2> QED
    BY <1>1, <1>2, <1>3, <1>4, <1>6, <2>1 DEF Databases, Autocommitted, Transactions
<1>7. CASE op \in {"storeFile", "storeExtract"}
  <2>1. u \in {Single("content", Put("file")), Single("content", Put("extract"))}
    BY <1>7
  <2> QED
    BY <1>1, <1>4, <1>7, <2>1 DEF Databases, Autocommitted
<1>8. CASE op = "deleteProposal"
  <2>1. u \in {DeleteContent, DeleteListing}
    BY <1>8
  <2> QED
    BY <1>2, <1>3, <1>8, <2>1 DEF Transactions
<1>9. CASE op = "saveSkill"
  <2>1. u \in {Single("content", Put("skill")), UpsertSkill}
    BY <1>9
  <2> QED
    BY <1>1, <1>2, <1>3, <1>4, <1>9, <2>1 DEF Databases, Autocommitted, Transactions
<1>10. CASE op = "rebuild"
  <2>1. u \in {Single("catalog", Delete("skillFile")), Single("catalog", Delete("tag")),
               Single("catalog", Delete("version")), UpsertSkill}
    BY <1>10
  <2> QED
    BY <1>1, <1>2, <1>3, <1>4, <1>10, <2>1 DEF Databases, Autocommitted, Transactions, Maintenance
<1>11. CASE op \in {"indexVersion", "removeVersion"}
  <2>1. u \in {IndexVersion, Single("search", Delete("document"))}
    BY <1>11
  <2> QED
    BY <1>1, <1>2, <1>4, <1>11, <2>1 DEF Databases, Autocommitted, Transactions, Maintenance, Saves
<1>12. CASE op = "reindexAll"
  <2>1. u \in {Single("search", Delete("document")), Single("search", Delete("documentTag")),
               Single("search", Put("document")), Single("search", Insert("documentTag"))}
    BY <1>12
  <2> QED
    BY <1>1, <1>4, <1>12, <2>1 DEF Databases, Autocommitted, Maintenance, Saves
<1> QED
  BY <1>5, <1>6, <1>7, <1>8, <1>9, <1>10, <1>11, <1>12

\* What a unit that is one statement does.
LEMMA AloneEffect ==
    ASSUME NEW u, IsAlone(u), NEW v \in [Tables -> Values], NEW c \in Contents
    PROVE  /\ u.tx = FALSE /\ Len(u.statements) = 1 /\ u.statements[1] \in Autocommitted(u.db)
           /\ u.db \in Databases
           /\ AfterUnit(v, u, c) = After(v, u.statements[1], c)
           /\ Applicable(v, u, c) <=> Accepts(v, u.statements[1])
<1>1. PICK db \in Databases : \E s \in Autocommitted(db) : u = Single(db, s)
  BY DEF IsAlone
<1>9. PICK s \in Autocommitted(db) : u = Single(db, s)
  BY <1>1
<1>2. u.tx = FALSE /\ u.statements = <<s>> /\ u.db = db
  BY <1>9, SingleFields
<1>3. Len(u.statements) = 1 /\ u.statements[1] = s
  BY <1>2
<1>4. AfterFirst(v, u, c, 0) = v /\ AfterFirst(v, u, c, 0 + 1) = After(AfterFirst(v, u, c, 0), s, c)
  BY <1>3, EffectsAdd
<1>5. AfterUnit(v, u, c) = After(v, s, c)
  BY <1>3, <1>4 DEF AfterUnit
<1>6. Applicable(v, u, c) <=> Accepts(v, s)
  BY <1>3, <1>4 DEF Applicable
<1> QED
  BY <1>2, <1>3, <1>5, <1>6

\* The statements of the transactions, one by one.
LEMMA StatementsOf ==
    /\ \A db, ss : Transaction(db, ss).tx = TRUE /\ Transaction(db, ss).statements = ss
    /\ Len(UpsertProposal.statements) = 5
    /\ UpsertProposal.statements[1] = Put("listed")
    /\ UpsertProposal.statements[2] = Delete("listedFile")
    /\ UpsertProposal.statements[3] = Delete("judgement")
    /\ UpsertProposal.statements[4] = Put("listedFile")
    /\ UpsertProposal.statements[5] = Insert("judgement")
    /\ Len(DeleteContent.statements) = 3
    /\ DeleteContent.statements[1] = Delete("aggregate")
    /\ DeleteContent.statements[2] = Delete("file")
    /\ DeleteContent.statements[3] = Delete("extract")
    /\ Len(DeleteListing.statements) = 3
    /\ DeleteListing.statements[1] = Delete("listed")
    /\ DeleteListing.statements[2] = Delete("listedFile")
    /\ DeleteListing.statements[3] = Delete("judgement")
    /\ Len(UpsertSkill.statements) = 6
    /\ UpsertSkill.statements[1] = Delete("skillFile")
    /\ UpsertSkill.statements[2] = Delete("tag")
    /\ UpsertSkill.statements[3] = Delete("version")
    /\ UpsertSkill.statements[4] = Insert("version")
    /\ UpsertSkill.statements[5] = Insert("tag")
    /\ UpsertSkill.statements[6] = Put("skillFile")
    /\ Len(IndexVersion.statements) = 3
    /\ IndexVersion.statements[1] = Put("document")
    /\ IndexVersion.statements[2] = Delete("documentTag")
    /\ IndexVersion.statements[3] = Insert("documentTag")
<1>1. \A db, ss : Transaction(db, ss).tx = TRUE /\ Transaction(db, ss).statements = ss
  BY DEF Transaction
<1> QED
  BY <1>1 DEF UpsertProposal, DeleteContent, DeleteListing, UpsertSkill, IndexVersion

\* What the statements touch.
LEMMA TouchedBy ==
    /\ DOMAIN Parent = {"listedFile", "skillFile", "tag", "documentTag"}
    /\ Parent["listedFile"] = "listed" /\ Parent["skillFile"] = "version"
    /\ Parent["tag"] = "version" /\ Parent["documentTag"] = "document"
    /\ \A table, t :
          /\ Writes(Put(table), t) <=> t = table
          /\ Writes(Insert(table), t) <=> t = table
          /\ Writes(Delete(table), t) <=>
                t = table \/ (t \in DOMAIN Parent /\ Parent[t] = table)
          /\ ~Writes(Read(table), t)
    /\ \A table : /\ Put(table).kind = "put" /\ Put(table).table = table
                  /\ Insert(table).kind = "insert" /\ Insert(table).table = table
                  /\ Delete(table).kind = "delete" /\ Delete(table).table = table
                  /\ Read(table).kind = "read" /\ Read(table).table = table
<1>1. /\ DOMAIN Parent = {"listedFile", "skillFile", "tag", "documentTag"}
      /\ Parent["listedFile"] = "listed" /\ Parent["skillFile"] = "version"
      /\ Parent["tag"] = "version" /\ Parent["documentTag"] = "document"
  BY DEF Parent
<1>2. \A table : /\ Put(table).kind = "put" /\ Put(table).table = table
                 /\ Insert(table).kind = "insert" /\ Insert(table).table = table
                 /\ Delete(table).kind = "delete" /\ Delete(table).table = table
                 /\ Read(table).kind = "read" /\ Read(table).table = table
  BY DEF Put, Insert, Delete, Read
<1> QED
  BY <1>1, <1>2 DEF Writes, Touched

\* The transactions, and what their statements touch.
LEMMA TransactionShapes ==
    ASSUME NEW u \in Transactions
    PROVE  /\ u.tx = TRUE /\ Len(u.statements) \in Nat \ {0}
           /\ \A n \in 1 .. Len(u.statements) : u.statements[n].kind # "read"
<1>1. u.tx = TRUE
  BY StatementsOf DEF Transactions, UpsertProposal, DeleteContent, DeleteListing, UpsertSkill,
       IndexVersion
<1>2. CASE u = UpsertProposal
  BY <1>1, <1>2, StatementsOf, TouchedBy
<1>3. CASE u = DeleteContent
  BY <1>1, <1>3, StatementsOf, TouchedBy
<1>4. CASE u = DeleteListing
  BY <1>1, <1>4, StatementsOf, TouchedBy
<1>5. CASE u = UpsertSkill
  BY <1>1, <1>5, StatementsOf, TouchedBy
<1>6. CASE u = IndexVersion
  BY <1>1, <1>6, StatementsOf, TouchedBy
<1> QED
  BY <1>2, <1>3, <1>4, <1>5, <1>6 DEF Transactions

\* A transaction brings along all that the schema asks of its statements.
LEMMA SelfContained ==
    ASSUME NEW u \in Transactions, NEW v, NEW c \in Contents
    PROVE  Applicable(v, u, c)
<1> SUFFICES ASSUME NEW n \in 1 .. Len(u.statements)
             PROVE  Accepts(AfterFirst(v, u, c, n - 1), u.statements[n])
  BY DEF Applicable
<1> DEFINE s == u.statements[n]
           w == AfterFirst(v, u, c, n - 1)
           left == n - 1
<1>0. Len(u.statements) \in Nat /\ left \in Nat /\ Absent \notin Contents
  BY TransactionShapes, ContentAssumption
<1>1. ASSUME NEW p \in Tables, NEW i \in 1 .. left,
             Writes(u.statements[i], p), \A j \in (i + 1) .. left : ~Writes(u.statements[j], p)
      PROVE  w[p] = IF u.statements[i].kind = "delete" THEN Absent ELSE c
  BY <1>0, <1>1, LastWriteDecides
<1> HIDE DEF w, left
<1>2. CASE u = UpsertProposal
  <2>1. n \in 1 .. 5 /\ left \in 0 .. 4
    BY <1>2, StatementsOf DEF left
  <2>2. CASE n \in {2, 3}
    BY <1>2, <2>2, StatementsOf, TouchedBy DEF Accepts, w
  <2>3. CASE n = 1
    BY <1>2, <2>3, StatementsOf, TouchedBy DEF Accepts, w
  <2>4. CASE n = 4
    <3>1. w["listed"] = IF u.statements[1].kind = "delete" THEN Absent ELSE c
      BY <1>1, <1>2, <2>4, StatementsOf, TouchedBy DEF left, Tables, ProposalListing
    <3> QED
      BY <1>0, <1>2, <2>4, <3>1, StatementsOf, TouchedBy DEF Accepts, w
  <2>5. CASE n = 5
    <3>1. w["judgement"] = IF u.statements[3].kind = "delete" THEN Absent ELSE c
      BY <1>1, <1>2, <2>5, StatementsOf, TouchedBy DEF left, Tables, ProposalListing
    <3> QED
      BY <1>0, <1>2, <2>5, <3>1, StatementsOf, TouchedBy DEF Accepts, w
  <2> QED
    BY <2>1, <2>2, <2>3, <2>4, <2>5
<1>3. CASE u \in {DeleteContent, DeleteListing}
  <2>1. s.kind = "delete"
    BY <1>3, StatementsOf, TouchedBy
  <2> QED
    BY <2>1 DEF Accepts, w
<1>5. CASE u = UpsertSkill
  <2>1. n \in 1 .. 6 /\ left \in 0 .. 5
    BY <1>5, StatementsOf DEF left
  <2>2. CASE n \in {1, 2, 3}
    BY <1>5, <2>2, StatementsOf, TouchedBy DEF Accepts, w
  <2>3. CASE n = 4
    <3>1. w["version"] = IF u.statements[3].kind = "delete" THEN Absent ELSE c
      BY <1>1, <1>5, <2>3, StatementsOf, TouchedBy DEF left, Tables, SkillListing
    <3> QED
      BY <1>5, <2>3, <3>1, StatementsOf, TouchedBy DEF Accepts, w
  <2>4. ASSUME n \in {5, 6} PROVE w["version"] = c
    <3>1. w["version"] = IF u.statements[4].kind = "delete" THEN Absent ELSE c
      BY <1>1, <1>5, <2>4, StatementsOf, TouchedBy DEF left, Tables, SkillListing
    <3> QED
      BY <1>5, <3>1, StatementsOf, TouchedBy
  <2>5. CASE n = 5
    <3>1. w["tag"] = IF u.statements[3].kind = "delete" THEN Absent ELSE c
      BY <1>1, <1>5, <2>5, StatementsOf, TouchedBy DEF left, Tables, SkillListing
    <3> QED
      BY <1>0, <1>5, <2>4, <2>5, <3>1, StatementsOf, TouchedBy DEF Accepts, w
  <2>6. CASE n = 6
    BY <1>0, <1>5, <2>4, <2>6, StatementsOf, TouchedBy DEF Accepts, w
  <2> QED
    BY <2>1, <2>2, <2>3, <2>5, <2>6
<1>6. CASE u = IndexVersion
  <2>1. n \in 1 .. 3 /\ left \in 0 .. 2
    BY <1>6, StatementsOf DEF left
  <2>2. CASE n \in {1, 2}
    BY <1>6, <2>2, StatementsOf, TouchedBy DEF Accepts, w
  <2>3. CASE n = 3
    <3>1. w["document"] = IF u.statements[1].kind = "delete" THEN Absent ELSE c
      BY <1>1, <1>6, <2>3, StatementsOf, TouchedBy DEF left, Tables, SearchIndex
    <3>2. w["documentTag"] = IF u.statements[2].kind = "delete" THEN Absent ELSE c
      BY <1>1, <1>6, <2>3, StatementsOf, TouchedBy DEF left, Tables, SearchIndex
    <3> QED
      BY <1>0, <1>6, <2>3, <3>1, <3>2, StatementsOf, TouchedBy DEF Accepts, w
  <2> QED
    BY <2>1, <2>2, <2>3
<1> QED
  BY <1>2, <1>3, <1>5, <1>6 DEF Transactions
\* The committed rows of the projections are of one save each.
Whole(v) ==
    /\ v["listed"] = v["listedFile"] /\ v["listed"] = v["judgement"]
    /\ \A child \in DOMAIN Parent : v[child] \in {v[Parent[child]], Absent}
    /\ v["document"] \in {Published, Absent}

\* A unit leaves the projections whole.
LEMMA UnitKeepsWhole ==
    ASSUME NEW op \in Operations, NEW i \in 1 .. Len(Program[op]), NEW c \in ContentsOf(op),
           NEW v \in [Tables -> Values], Whole(v), Applicable(v, Program[op][i], c)
    PROVE  Whole(AfterUnit(v, Program[op][i], c))
<1> DEFINE u == Program[op][i]
           w == AfterUnit(v, u, c)
           n == Len(u.statements)
<1>0. c \in Contents /\ (op \notin Saves => c = Published) /\ Absent \notin Contents
  BY ContentAssumption DEF ContentsOf
<1>1. u \in Transactions \/ IsAlone(u)
  BY UnitShapes
<1>2. u.db = "search" => c = Published
  BY <1>0, UnitShapes
<1>3. n \in Nat
  BY <1>0, <1>1, AloneEffect, TransactionShapes
<1>4. ASSUME NEW t \in Tables, NEW k \in 1 .. n, Writes(u.statements[k], t),
             \A j \in (k + 1) .. n : ~Writes(u.statements[j], t)
      PROVE  w[t] = IF u.statements[k].kind = "delete" THEN Absent ELSE c
  <2>1. w = AfterFirst(v, u, c, n)
    BY DEF AfterUnit
  <2>2. AfterFirst(v, u, c, n)[t] = IF u.statements[k].kind = "delete" THEN Absent ELSE c
    <3> HIDE DEF n, u, w
    <3> QED
      BY <1>3, <1>4, LastWriteDecides
  <2> QED
    BY <2>1, <2>2
<1>5. ASSUME NEW t \in Tables, \A j \in 1 .. n : ~Writes(u.statements[j], t)
      PROVE  w[t] = v[t]
  BY <1>5 DEF AfterUnit, AfterFirst, LastWrites
<1>6. {"listed", "listedFile", "judgement", "skillFile", "tag", "version", "document",
        "documentTag"} \subseteq Tables
  BY DEF Tables, ProposalListing, SkillListing, SearchIndex
<1>7. ASSUME NEW x \in [Tables -> Values]
      PROVE  Whole(x) <=>
                /\ x["listed"] = x["listedFile"] /\ x["listed"] = x["judgement"]
                /\ x["skillFile"] \in {x["version"], Absent} /\ x["tag"] \in {x["version"], Absent}
                /\ x["documentTag"] \in {x["document"], Absent}
                /\ x["document"] \in {Published, Absent}
  BY TouchedBy DEF Whole
<1>8. w \in [Tables -> Values]
  BY <1>0, <1>3, EffectType DEF AfterUnit, Values
<1> SUFFICES Whole(w)
  OBVIOUS
<1>9. CASE IsAlone(u)
  <2> DEFINE s == u.statements[1]
  <2>1. /\ s \in Autocommitted(u.db) /\ u.db \in Databases /\ w = After(v, s, c)
        /\ Accepts(v, s)
    BY <1>0, <1>9, AloneEffect
  <2> HIDE DEF s
  <2>2. \A t \in Tables : w[t] = IF ~Writes(s, t) THEN v[t]
                                 ELSE IF s.kind = "delete" THEN Absent ELSE c
    BY <2>1 DEF After
  <2> HIDE DEF u, w, n
  <2>3. CASE u.db = "content"
    <3>1. s \in {Read("aggregate"), Put("aggregate"), Put("file"), Put("extract"), Put("skill")}
      BY <2>1, <2>3 DEF Autocommitted
    <3>2. \A t \in {"listed", "listedFile", "judgement", "skillFile", "tag", "version", "document",
                    "documentTag"} : ~Writes(s, t)
      BY <3>1, TouchedBy
    <3> QED
      BY <1>6, <1>7, <1>8, <2>2, <3>2
  <2>4. CASE u.db = "catalog"
    <3>1. s \in {Delete("skillFile"), Delete("tag"), Delete("version")}
      BY <2>1, <2>4 DEF Autocommitted
    <3> QED
      BY <1>6, <1>7, <1>8, <2>2, <3>1, TouchedBy
  <2>5. CASE u.db = "search"
    <3>1. s \in {Delete("document"), Delete("documentTag"), Put("document"), Insert("documentTag")}
      BY <2>1, <2>5 DEF Autocommitted
    <3>2. CASE s \in {Delete("document"), Delete("documentTag")}
      BY <1>6, <1>7, <1>8, <2>2, <3>2, TouchedBy
    <3>3. CASE s = Put("document")
      BY <1>2, <1>6, <1>7, <1>8, <2>2, <2>5, <3>3, TouchedBy
    <3>4. CASE s = Insert("documentTag")
      <4>1. v["document"] # Absent
        BY <2>1, <3>4, TouchedBy DEF Accepts
      <4> QED
        BY <1>2, <1>6, <1>7, <1>8, <2>2, <2>5, <3>4, <4>1, TouchedBy
    <3> QED
      BY <3>1, <3>2, <3>3, <3>4
  <2> QED
    BY <2>1, <2>3, <2>4, <2>5 DEF Databases
<1> HIDE DEF u, w, n
<1>10. CASE u = UpsertProposal
  <2>1. n = 5
    BY <1>10, StatementsOf DEF n
  <2>2. w["listed"] = c
    <3>1. w["listed"] = IF u.statements[1].kind = "delete" THEN Absent ELSE c
      BY <1>4, <1>6, <1>10, <2>1, StatementsOf, TouchedBy
    <3> QED
      BY <1>10, <3>1, StatementsOf, TouchedBy
  <2>3. w["listedFile"] = c
    <3>1. w["listedFile"] = IF u.statements[4].kind = "delete" THEN Absent ELSE c
      BY <1>4, <1>6, <1>10, <2>1, StatementsOf, TouchedBy
    <3> QED
      BY <1>10, <3>1, StatementsOf, TouchedBy
  <2>4. w["judgement"] = c
    <3>1. w["judgement"] = IF u.statements[5].kind = "delete" THEN Absent ELSE c
      BY <1>4, <1>6, <1>10, <2>1, StatementsOf, TouchedBy
    <3> QED
      BY <1>10, <3>1, StatementsOf, TouchedBy
  <2>5. ASSUME NEW t \in {"skillFile", "tag", "version",
                         "document", "documentTag"} PROVE w[t] = v[t]
    <3>1. /\ ~Writes(Put("listed"), t) /\ ~Writes(Delete("listedFile"), t)
          /\ ~Writes(Delete("judgement"), t) /\ ~Writes(Put("listedFile"), t)
          /\ ~Writes(Insert("judgement"), t)
      BY <2>5, TouchedBy
    <3>2. \A j \in 1 .. n : ~Writes(u.statements[j], t)
      BY <1>10, <2>1, <3>1, StatementsOf
    <3> QED
      BY <1>5, <1>6, <2>5, <3>2
  <2> QED
    BY <1>7, <1>8, <2>2, <2>3, <2>4, <2>5
<1>11. CASE u = DeleteContent
  <2>1. n = 3
    BY <1>11, StatementsOf DEF n
  <2>2. ASSUME NEW t \in {"listed", "listedFile", "judgement", "skillFile", "tag", "version",
                         "document", "documentTag"} PROVE w[t] = v[t]
    <3>1. /\ ~Writes(Delete("aggregate"), t) /\ ~Writes(Delete("file"), t)
          /\ ~Writes(Delete("extract"), t)
      BY <2>2, TouchedBy
    <3>2. \A j \in 1 .. n : ~Writes(u.statements[j], t)
      BY <1>11, <2>1, <3>1, StatementsOf
    <3> QED
      BY <1>5, <1>6, <2>2, <3>2
  <2> QED
    BY <1>7, <1>8, <2>2
<1>12. CASE u = DeleteListing
  <2>1. n = 3
    BY <1>12, StatementsOf DEF n
  <2>2. w["listed"] = Absent
    <3>1. w["listed"] = IF u.statements[1].kind = "delete" THEN Absent ELSE c
      BY <1>4, <1>6, <1>12, <2>1, StatementsOf, TouchedBy
    <3> QED
      BY <1>12, <3>1, StatementsOf, TouchedBy
  <2>3. w["listedFile"] = Absent
    <3>1. w["listedFile"] = IF u.statements[2].kind = "delete" THEN Absent ELSE c
      BY <1>4, <1>6, <1>12, <2>1, StatementsOf, TouchedBy
    <3> QED
      BY <1>12, <3>1, StatementsOf, TouchedBy
  <2>4. w["judgement"] = Absent
    <3>1. w["judgement"] = IF u.statements[3].kind = "delete" THEN Absent ELSE c
      BY <1>4, <1>6, <1>12, <2>1, StatementsOf, TouchedBy
    <3> QED
      BY <1>12, <3>1, StatementsOf, TouchedBy
  <2>5. ASSUME NEW t \in {"skillFile", "tag", "version",
                         "document", "documentTag"} PROVE w[t] = v[t]
    <3>1. /\ ~Writes(Delete("listed"), t) /\ ~Writes(Delete("listedFile"), t)
          /\ ~Writes(Delete("judgement"), t)
      BY <2>5, TouchedBy
    <3>2. \A j \in 1 .. n : ~Writes(u.statements[j], t)
      BY <1>12, <2>1, <3>1, StatementsOf
    <3> QED
      BY <1>5, <1>6, <2>5, <3>2
  <2> QED
    BY <1>7, <1>8, <2>2, <2>3, <2>4, <2>5
<1>13. CASE u = UpsertSkill
  <2>1. n = 6
    BY <1>13, StatementsOf DEF n
  <2>2. w["version"] = c
    <3>1. w["version"] = IF u.statements[4].kind = "delete" THEN Absent ELSE c
      BY <1>4, <1>6, <1>13, <2>1, StatementsOf, TouchedBy
    <3> QED
      BY <1>13, <3>1, StatementsOf, TouchedBy
  <2>3. w["tag"] = c
    <3>1. w["tag"] = IF u.statements[5].kind = "delete" THEN Absent ELSE c
      BY <1>4, <1>6, <1>13, <2>1, StatementsOf, TouchedBy
    <3> QED
      BY <1>13, <3>1, StatementsOf, TouchedBy
  <2>4. w["skillFile"] = c
    <3>1. w["skillFile"] = IF u.statements[6].kind = "delete" THEN Absent ELSE c
      BY <1>4, <1>6, <1>13, <2>1, StatementsOf, TouchedBy
    <3> QED
      BY <1>13, <3>1, StatementsOf, TouchedBy
  <2>5. ASSUME NEW t \in {"listed", "listedFile", "judgement", "document", "documentTag"}
        PROVE  w[t] = v[t]
    <3>1. /\ ~Writes(Delete("skillFile"), t) /\ ~Writes(Delete("tag"), t)
          /\ ~Writes(Delete("version"), t) /\ ~Writes(Insert("version"), t)
          /\ ~Writes(Insert("tag"), t) /\ ~Writes(Put("skillFile"), t)
      BY <2>5, TouchedBy
    <3>2. \A j \in 1 .. n : ~Writes(u.statements[j], t)
      BY <1>13, <2>1, <3>1, StatementsOf
    <3> QED
      BY <1>5, <1>6, <2>5, <3>2
  <2> QED
    BY <1>7, <1>8, <2>2, <2>3, <2>4, <2>5
<1>14. CASE u = IndexVersion
  <2>1. n = 3 /\ c = Published
    BY <1>2, <1>14, StatementsOf DEF n, IndexVersion, Transaction
  <2>2. w["document"] = c
    <3>1. w["document"] = IF u.statements[1].kind = "delete" THEN Absent ELSE c
      BY <1>4, <1>6, <1>14, <2>1, StatementsOf, TouchedBy
    <3> QED
      BY <1>14, <3>1, StatementsOf, TouchedBy
  <2>3. w["documentTag"] = c
    <3>1. w["documentTag"] = IF u.statements[3].kind = "delete" THEN Absent ELSE c
      BY <1>4, <1>6, <1>14, <2>1, StatementsOf, TouchedBy
    <3> QED
      BY <1>14, <3>1, StatementsOf, TouchedBy
  <2>4. ASSUME NEW t \in {"listed", "listedFile", "judgement", "skillFile", "tag", "version"}
        PROVE  w[t] = v[t]
    <3>1. /\ ~Writes(Put("document"), t) /\ ~Writes(Delete("documentTag"), t)
          /\ ~Writes(Insert("documentTag"), t)
      BY <2>4, TouchedBy
    <3>2. \A j \in 1 .. n : ~Writes(u.statements[j], t)
      BY <1>14, <2>1, <3>1, StatementsOf
    <3> QED
      BY <1>5, <1>6, <2>4, <3>2
  <2> QED
    BY <1>7, <1>8, <2>1, <2>2, <2>3, <2>4
<1> QED
  BY <1>1, <1>9, <1>10, <1>11, <1>12, <1>13, <1>14 DEF Transactions

-----------------------------------------------------------------------------
(* Callers, connections and the queue *)

\* The stages of a caller that has a call under way, and all stages.
Running == {"queued", "between", "granted", "open"}
Stages == Running \cup Ended \cup {"undoing"}

\* What is known of a caller, and the unit it is at.
CallRecord ==
    [op : Operations \cup {None}, content : Contents \cup {None}, unit : Nat,
     statement : Nat, at : Stages, seen : Values]

UnitOf(s) == Program[s.op][s.unit]

\* What a stage says about a caller.
Placed(s) ==
    /\ s \in CallRecord
    /\ s.at \notin Running => s = Answered(s.at, s.seen)
    /\ s.at = "undoing" => s.seen = Absent
    /\ s.at \in Running =>
          /\ s.op \in workload /\ s.content \in ContentsOf(s.op)
          /\ s.unit \in 1 .. Len(Program[s.op])
          /\ s.seen = Absent /\ s.statement # 0
    /\ s.at = "between" => ~Queued(s.op, s.unit)
    /\ s.at \in {"queued", "granted"} => s.statement = 1
    /\ s.at = "granted" => ~UnitOf(s).tx
    /\ s.at = "open" => UnitOf(s).tx /\ s.statement <= Len(UnitOf(s).statements) + 1

\* The database, the workload and the rows are of their types, and every caller is placed.
Grounds ==
    /\ dialect \in {"sqlite", "mysql"}
    /\ workload \subseteq Operations
    /\ dialect = "sqlite" => workload \cap Maintenance = {}
    /\ rows \in [Tables -> Values]
    /\ DOMAIN call = Tasks
    /\ \A t \in Tasks : Placed(call[t])

\* The queue lists whoever waits, once.
Waiting ==
    /\ queue \in Seq(Tasks)
    /\ \A i, j \in 1 .. Len(queue) : queue[i] = queue[j] => i = j
    /\ \A t \in Tasks : call[t].at = "queued" <=> \E i \in 1 .. Len(queue) : queue[i] = t

\* Whoever runs has a connection of its own.
Holders ==
    /\ using \in [Tasks -> Connections \cup {None}]
    /\ \A t \in Tasks : call[t].at \in Held <=> using[t] # None
    /\ \A t, q \in Tasks : using[t] = using[q] /\ using[t] # None => t = q

\* The rows a transaction has written after n statements of a unit.
Pending(u, c, n) ==
    [t \in Tables |->
        IF LastWrites(u, n, t) = {} THEN None
        ELSE IF \E i \in LastWrites(u, n, t) : u.statements[i].kind = "delete" THEN Absent
        ELSE c]

\* An open transaction is that of the task whose connection it is, and has
\* written what the statements of its unit so far say.
Writing ==
    /\ open \subseteq 1 .. PoolSize
    /\ written \in [1 .. PoolSize -> [Tables -> Values \cup {None}]]
    /\ \A c \in open : \E t \in Tasks : using[t] = c /\ call[t].at \in {"open", "undoing"}
    /\ \A t \in Tasks : call[t].at = "open" =>
          /\ using[t] \in open
          /\ written[using[t]] =
                   Pending(UnitOf(call[t]), call[t].content, call[t].statement - 1)
    /\ \A c \in 1 .. PoolSize : c \notin open => written[c] = Unwritten

\* The inductive invariant.
Inv == Grounds /\ Waiting /\ Holders /\ Writing

\* Connections are numbered from one, and None is not a number.
LEMMA Connected == Connections \subseteq 1 .. PoolSize /\ None \notin Connections
BY PoolAssumption, NoneAssumption DEF Connections

\* A caller that has its answer is placed.
LEMMA AnsweredPlaced ==
    ASSUME NEW at \in Ended \cup {"undoing"}, NEW seen \in Values, at = "undoing" => seen = Absent
    PROVE  Placed(Answered(at, seen)) /\ Answered(at, seen).at = at
<1>1. Answered(at, seen) \in CallRecord /\ Answered(at, seen).at = at
      /\ Answered(at, seen).seen = seen
  BY DEF Answered, CallRecord, Stages
<1> QED
  BY <1>1 DEF Placed, Ended, Running

\* A step of one caller leaves the others placed.
LEMMA OneMoves ==
    ASSUME Grounds, NEW t \in Tasks, NEW s, call' = [call EXCEPT ![t] = s], Placed(s),
           UNCHANGED <<dialect, workload>>, rows' \in [Tables -> Values]
    PROVE  /\ Grounds'
           /\ call'[t] = s /\ \A q \in Tasks : q # t => call'[q] = call[q]
<1>1. DOMAIN call' = Tasks /\ call'[t] = s /\ \A q \in Tasks : q # t => call'[q] = call[q]
  BY DEF Grounds
<1>2. ASSUME NEW q \in Tasks PROVE Placed(call[q])'
  <2>1. Placed(call'[q])
    BY <1>1 DEF Grounds
  <2> QED
    BY <2>1 DEF Placed, Queued
<1> QED
  BY <1>1, <1>2 DEF Grounds

\* The queue after one caller has moved.
LEMMA WaitingKept ==
    ASSUME Waiting, DOMAIN call = Tasks, NEW t \in Tasks, NEW s,
           call' = [call EXCEPT ![t] = s],
           \/ call[t].at # "queued" /\ queue' = IF s.at = "queued" THEN Append(queue, t) ELSE queue
           \/ /\ queue # <<>> /\ Head(queue) = t /\ queue' = Tail(queue)
              /\ s.at # "queued"
    PROVE  Waiting'
<1> DEFINE Listed(Q, q) == \E i \in 1 .. Len(Q) : Q[i] = q
<1>1. call'[t] = s /\ \A q \in Tasks : q # t => call'[q] = call[q]
  OBVIOUS
<1>2. /\ queue \in Seq(Tasks) /\ \A i, j \in 1 .. Len(queue) : queue[i] = queue[j] => i = j
      /\ \A q \in Tasks : call[q].at = "queued" <=> Listed(queue, q)
  BY DEF Waiting
<1>3. CASE call[t].at # "queued" /\ s.at # "queued" /\ queue' = queue
  BY <1>1, <1>2, <1>3 DEF Waiting
<1>4. CASE call[t].at # "queued" /\ s.at = "queued" /\ queue' = Append(queue, t)
  <2>1. ~Listed(queue, t)
    BY <1>2, <1>4
  <2>2. /\ queue' \in Seq(Tasks) /\ Len(queue') = Len(queue) + 1
        /\ \A i \in 1 .. Len(queue) : queue'[i] = queue[i]
        /\ queue'[Len(queue) + 1] = t
    BY <1>2, <1>4
  <2>3. \A i, j \in 1 .. Len(queue') : queue'[i] = queue'[j] => i = j
    BY <1>2, <2>1, <2>2, SMTT(30)
  <2>4. \A q \in Tasks : Listed(queue', q) <=> Listed(queue, q) \/ q = t
    <3>1. Len(queue) \in Nat
      BY <1>2
    <3>2. \A i \in 1 .. Len(queue') : i \in 1 .. Len(queue) \/ i = Len(queue) + 1
      BY <2>2, <3>1
    <3>3. 1 .. Len(queue) \subseteq 1 .. Len(queue') /\ Len(queue) + 1 \in 1 .. Len(queue')
      BY <2>2, <3>1
    <3> QED
      BY <2>2, <3>2, <3>3
  <2> HIDE DEF Listed
  <2>5. \A q \in Tasks : call'[q].at = "queued" <=> Listed(queue', q)
    BY <1>1, <1>2, <1>4, <2>4
  <2> QED
    BY <2>2, <2>3, <2>5 DEF Waiting, Listed
<1>5. CASE queue # <<>> /\ Head(queue) = t /\ queue' = Tail(queue) /\ s.at # "queued"
  <2>1. /\ queue' \in Seq(Tasks) /\ Len(queue) > 0 /\ Len(queue') = Len(queue) - 1
        /\ Len(queue) \in Nat
        /\ \A i \in 1 .. Len(queue') : queue'[i] = queue[i + 1]
        /\ queue[1] = t
    BY <1>2, <1>5
  <2>2. \A i, j \in 1 .. Len(queue') : queue'[i] = queue'[j] => i = j
    BY <1>2, <2>1
  <2>3. ASSUME NEW q \in Tasks PROVE Listed(queue', q) <=> Listed(queue, q) /\ q # t
    <3>1. ASSUME NEW i \in 1 .. Len(queue), queue[i] = q, q # t PROVE Listed(queue', q)
      <4>1. i # 1 /\ i - 1 \in 1 .. Len(queue') /\ (i - 1) + 1 = i
        BY <2>1, <3>1
      <4>2. queue'[i - 1] = q
        BY <2>1, <3>1, <4>1
      <4> QED
        BY <4>1, <4>2
    <3>2. ASSUME NEW i \in 1 .. Len(queue'), queue'[i] = q PROVE Listed(queue, q) /\ q # t
      <4>1. i + 1 \in 1 .. Len(queue) /\ i + 1 # 1 /\ queue[i + 1] = q /\ 1 \in 1 .. Len(queue)
        BY <2>1, <3>2
      <4> QED
        BY <1>2, <2>1, <4>1
    <3> QED
      BY <3>1, <3>2
  <2> HIDE DEF Listed
  <2>4. \A q \in Tasks : call'[q].at = "queued" <=> Listed(queue', q)
    BY <1>1, <1>2, <1>5, <2>3
  <2> QED
    BY <2>1, <2>2, <2>4 DEF Waiting, Listed
<1> QED
  BY <1>3, <1>4, <1>5

\* The connections after one caller has moved.
LEMMA HoldersKept ==
    ASSUME Holders, DOMAIN call = Tasks, NEW t \in Tasks, NEW s,
           call' = [call EXCEPT ![t] = s], dialect' = dialect,
           \/ using' = using /\ (call[t].at \in Held <=> s.at \in Held)
           \/ Release(t) /\ s.at \notin Held
           \/ \E c \in Connections : Free(c) /\ using' = [using EXCEPT ![t] = c] /\ s.at \in Held
    PROVE  Holders'
<1>1. call'[t] = s /\ \A q \in Tasks : q # t => call'[q] = call[q]
  OBVIOUS
<1>2. Connections' = Connections
  BY DEF Connections
<1>3. CASE using' = using /\ (call[t].at \in Held <=> s.at \in Held)
  BY <1>1, <1>2, <1>3 DEF Holders
<1>4. CASE Release(t) /\ s.at \notin Held
  BY <1>1, <1>2, <1>4 DEF Holders, Release
<1>5. CASE \E c \in Connections : Free(c) /\ using' = [using EXCEPT ![t] = c] /\ s.at \in Held
  <2>1. PICK c \in Connections : Free(c) /\ using' = [using EXCEPT ![t] = c] /\ s.at \in Held
    BY <1>5
  <2>2. c # None /\ \A q \in Tasks : using[q] # c
    BY <2>1, Connected DEF Free
  <2>3. using'[t] = c /\ \A q \in Tasks : q # t => using'[q] = using[q]
    BY <2>1 DEF Holders
  <2>4. using' \in [Tasks -> Connections \cup {None}]
    BY <2>1 DEF Holders
  <2> QED
    BY <1>1, <1>2, <2>1, <2>2, <2>3, <2>4 DEF Holders
<1> QED
  BY <1>3, <1>4, <1>5

\* The transactions after a caller has moved that had none and gets none.
LEMMA WritingKept ==
    ASSUME Writing, DOMAIN call = Tasks, NEW t \in Tasks, NEW s,
           call' = [call EXCEPT ![t] = s], UNCHANGED <<open, written>>,
           call[t].at \notin {"open", "undoing"}, s.at \notin {"open", "undoing"},
           \A q \in Tasks : q # t => using'[q] = using[q]
    PROVE  Writing'
<1>1. call'[t] = s /\ \A q \in Tasks : q # t => call'[q] = call[q]
  OBVIOUS
<1>2. ASSUME NEW c \in open
      PROVE  \E q \in Tasks : using'[q] = c /\ call'[q].at \in {"open", "undoing"}
  BY <1>1, <1>2 DEF Writing
<1>3. ASSUME NEW q \in Tasks, call'[q].at = "open"
      PROVE  /\ using'[q] \in open
             /\ written[using'[q]] =
                      Pending(UnitOf(call'[q]), call'[q].content, call'[q].statement - 1)
  <2>1. q # t /\ call'[q] = call[q] /\ using'[q] = using[q]
    BY <1>1, <1>3
  <2> QED
    BY <1>3, <2>1 DEF Writing
<1>4. /\ open' \subseteq 1 .. PoolSize
      /\ written' \in [1 .. PoolSize -> [Tables -> Values \cup {None}]]
      /\ written' = written
      /\ \A c \in 1 .. PoolSize : c \notin open' => written'[c] = Unwritten
  BY DEF Writing
<1>5. open' = open
  OBVIOUS
<1> QED
  BY <1>2, <1>3, <1>4, <1>5 DEF Writing

\* The transaction of a caller is over.
LEMMA WritingClosed ==
    ASSUME Writing, Holders, DOMAIN call = Tasks, NEW t \in Tasks, NEW s, NEW c, using[t] = c,
           c \in Connections, call' = [call EXCEPT ![t] = s], Closed(c), s.at # "open",
           \A q \in Tasks : q # t => using'[q] = using[q]
    PROVE  Writing'
<1>1. call'[t] = s /\ \A q \in Tasks : q # t => call'[q] = call[q]
  OBVIOUS
<1>2. c \in 1 .. PoolSize /\ \A q \in Tasks : q # t => using[q] # c
  BY Connected DEF Holders
<1>3. /\ open' = open \ {c} /\ written'[c] = Unwritten
      /\ \A d \in 1 .. PoolSize : d # c => written'[d] = written[d]
      /\ written' \in [1 .. PoolSize -> [Tables -> Values \cup {None}]]
  <2>1. Unwritten \in [Tables -> Values \cup {None}]
    BY DEF Unwritten
  <2> HIDE DEF Unwritten
  <2> QED
    BY <1>2, <2>1 DEF Closed, Writing
<1>4. ASSUME NEW d \in open'
      PROVE  \E q \in Tasks : using'[q] = d /\ call'[q].at \in {"open", "undoing"}
  <2>1. PICK q \in Tasks : using[q] = d /\ call[q].at \in {"open", "undoing"}
    BY <1>3, <1>4 DEF Writing
  <2> QED
    BY <1>1, <1>3, <1>4, <2>1
<1>5. ASSUME NEW q \in Tasks, call'[q].at = "open"
      PROVE  /\ using'[q] \in open'
             /\ written'[using'[q]] =
                      Pending(UnitOf(call'[q]), call'[q].content, call'[q].statement - 1)
  <2>1. q # t /\ call'[q] = call[q] /\ using'[q] = using[q] /\ using[q] # c
    BY <1>1, <1>2, <1>5
  <2>2. using[q] \in open /\ using[q] \in 1 .. PoolSize
    BY <1>5, <2>1 DEF Writing
  <2> QED
    BY <1>3, <1>5, <2>1, <2>2 DEF Writing
<1>6. \A d \in 1 .. PoolSize : d \notin open' => written'[d] = Unwritten
  BY <1>3 DEF Writing
<1>7. open' \subseteq 1 .. PoolSize
  BY <1>3 DEF Writing
<1> QED
  BY <1>3, <1>4, <1>5, <1>6, <1>7 DEF Writing, Unwritten, UnitOf, Pending

-----------------------------------------------------------------------------
(* Turning to a unit and going on after one *)

\* A caller turns to a unit.
LEMMA Turned ==
    ASSUME Grounds, NEW t \in Tasks, NEW op \in workload, NEW c \in ContentsOf(op),
           NEW u \in 1 .. Len(Program[op]), Turn(t, op, c, u)
    PROVE  \E s : /\ call' = [call EXCEPT ![t] = s] /\ Placed(s)
                  /\ s.op = op /\ s.content = c /\ s.unit = u /\ s.seen = Absent
                  /\ s.at \in {"queued", "between"}
                  /\ queue' = IF s.at = "queued" THEN Append(queue, t) ELSE queue
<1> DEFINE at == IF Queued(op, u) THEN "queued" ELSE "between"
           s == [op |-> op, content |-> c, unit |-> u, statement |-> 1, at |-> at, seen |-> Absent]
<1>1. call' = [call EXCEPT ![t] = s] /\ queue' = IF Queued(op, u) THEN Append(queue, t) ELSE queue
  BY DEF Turn
<1>2. at \in {"queued", "between"} /\ (at = "queued" <=> Queued(op, u))
  OBVIOUS
<1> HIDE DEF at
<1>3. op \in Operations /\ c \in Contents /\ Len(Program[op]) \in Nat
  BY ProgramLengths, ContentAssumption DEF Grounds, ContentsOf
<1>4. s \in CallRecord
  BY <1>2, <1>3 DEF CallRecord, Stages, Running, Values
<1>5. /\ s.op = op /\ s.content = c /\ s.unit = u /\ s.statement = 1 /\ s.at = at
      /\ s.seen = Absent
  OBVIOUS
<1> HIDE DEF s
<1>6. Placed(s)
  BY <1>2, <1>4, <1>5 DEF Placed, Running
<1> QED
  BY <1>1, <1>2, <1>5, <1>6

\* The unit of a caller is over.
LEMMA Advanced ==
    ASSUME Grounds, NEW t \in Tasks, call[t].at \in Running, NEW read \in Values, Advance(t, read)
    PROVE  \E s : /\ call' = [call EXCEPT ![t] = s] /\ Placed(s)
                  /\ s.at \in {"queued", "between", "ok"}
                  /\ queue' = IF s.at = "queued" THEN Append(queue, t) ELSE queue
                  /\ IF call[t].unit < Len(Program[call[t].op])
                     THEN /\ s.op = call[t].op /\ s.content = call[t].content
                          /\ s.unit = call[t].unit + 1 /\ s.seen = Absent
                          /\ s.at \in {"queued", "between"}
                     ELSE s = Answered("ok", read)
<1> DEFINE o == call[t]
<1>1. /\ o.op \in workload /\ o.op \in Operations /\ o.content \in ContentsOf(o.op)
      /\ o.unit \in 1 .. Len(Program[o.op]) /\ Len(Program[o.op]) \in Nat
  BY ProgramLengths DEF Grounds, Placed
<1>2. CASE o.unit < Len(Program[o.op])
  <2>1. Turn(t, o.op, o.content, o.unit + 1) /\ o.unit + 1 \in 1 .. Len(Program[o.op])
    BY <1>1, <1>2 DEF Advance
  <2> HIDE DEF o
  <2>2. PICK s : /\ call' = [call EXCEPT ![t] = s] /\ Placed(s)
                 /\ s.op = o.op /\ s.content = o.content /\ s.unit = o.unit + 1 /\ s.seen = Absent
                 /\ s.at \in {"queued", "between"}
                 /\ queue' = IF s.at = "queued" THEN Append(queue, t) ELSE queue
    BY <1>1, <2>1, Turned
  <2> QED
    BY <1>2, <2>2 DEF o
<1>3. CASE ~(o.unit < Len(Program[o.op]))
  <2> DEFINE s == Answered("ok", read)
  <2>1. call' = [call EXCEPT ![t] = s] /\ queue' = queue
    BY <1>3 DEF Advance
  <2>2. Placed(s) /\ s.at = "ok"
    BY AnsweredPlaced DEF Ended
  <2> HIDE DEF s
  <2>3. call' = [call EXCEPT ![t] = s] /\ s = Answered("ok", read)
    BY <2>1 DEF s
  <2> QED
    BY <1>3, <2>1, <2>2, <2>3
<1> QED
  BY <1>2, <1>3

\* A caller in the middle of an operation.
LEMMA Standing ==
    ASSUME Grounds, NEW t \in Tasks, call[t].at \in Running
    PROVE  /\ call[t].op \in workload /\ call[t].op \in Operations
           /\ call[t].content \in ContentsOf(call[t].op) /\ call[t].content \in Contents
           /\ call[t].content \in Values
           /\ call[t].unit \in 1 .. Len(Program[call[t].op]) /\ Len(Program[call[t].op]) \in Nat
           /\ call[t].seen = Absent /\ call[t].statement \in Nat /\ call[t].statement # 0
           /\ Unit(t) \in Transactions \/ IsAlone(Unit(t))
           /\ Unit(t) = UnitOf(call[t])
<1>1. Placed(call[t]) /\ workload \subseteq Operations
  BY DEF Grounds
<1>2. /\ call[t].op \in workload /\ call[t].op \in Operations
      /\ call[t].content \in ContentsOf(call[t].op)
      /\ call[t].unit \in 1 .. Len(Program[call[t].op])
      /\ call[t].seen = Absent /\ call[t].statement \in Nat /\ call[t].statement # 0
  BY <1>1 DEF Placed, CallRecord
<1>3. call[t].content \in Contents /\ call[t].content \in Values
  BY <1>2, ContentAssumption DEF ContentsOf, Values
<1>4. Len(Program[call[t].op]) \in Nat
  BY <1>2, ProgramLengths
<1>5. Unit(t) \in Transactions \/ IsAlone(Unit(t))
  BY <1>2, UnitShapes DEF Unit
<1> QED
  BY <1>2, <1>3, <1>4, <1>5 DEF Unit, UnitOf

\* A unit that is a transaction is one of the five, any other a statement.
LEMMA UnitKinds ==
    ASSUME Grounds, NEW t \in Tasks, call[t].at \in Running
    PROVE  IF Unit(t).tx THEN Unit(t) \in Transactions ELSE IsAlone(Unit(t))
<1>1. Unit(t) \in Transactions \/ IsAlone(Unit(t))
  BY Standing
<1>2. CASE Unit(t) \in Transactions
  <2>1. Unit(t).tx = TRUE
    BY <1>2, TransactionShapes
  <2> QED
    BY <1>2, <2>1
<1>3. CASE IsAlone(Unit(t))
  <2>1. rows \in [Tables -> Values] /\ call[t].content \in Contents
    BY Standing DEF Grounds
  <2>2. Unit(t).tx = FALSE
    BY <1>3, <2>1, AloneEffect
  <2> QED
    BY <1>3, <2>2
<1> QED
  BY <1>1, <1>2, <1>3

\* Without a transaction's writes a connection shows the committed rows.
LEMMA ViewPlain ==
    ASSUME NEW c, rows \in [Tables -> Values], written[c] = Unwritten
    PROVE  View(c) = rows
BY DEF View, Unwritten

\* In its transaction a caller sees what its statements so far have done.
LEMMA ViewPending ==
    ASSUME Grounds, Writing, NEW t \in Tasks, call[t].at = "open"
    PROVE  /\ View(using[t]) = AfterFirst(rows, Unit(t), call[t].content, call[t].statement - 1)
           /\ call[t].statement - 1 \in Nat
<1> DEFINE u == Unit(t)
           n == call[t].statement - 1
           k == call[t].content
           w == written[using[t]]
<1>1. k \in Values /\ n \in Nat /\ u = UnitOf(call[t])
  BY Standing DEF Running
<1>2. w = Pending(u, k, n)
  BY <1>1 DEF Writing
<1>3. None \notin Values /\ Absent \in Values
  BY NoneAssumption DEF Values
<1> HIDE DEF u, n, k, w
<1>4. \A r \in Tables : (IF w[r] = None THEN rows[r] ELSE w[r]) = AfterFirst(rows, u, k, n)[r]
  BY <1>1, <1>2, <1>3 DEF Pending, AfterFirst
<1>5. View(using[t]) = [r \in Tables |-> IF w[r] = None THEN rows[r] ELSE w[r]]
  BY DEF View, w
<1>6. AfterFirst(rows, u, k, n) = [r \in Tables |-> AfterFirst(rows, u, k, n)[r]]
  BY DEF AfterFirst
<1>7. View(using[t]) = AfterFirst(rows, u, k, n)
  BY <1>4, <1>5, <1>6
<1> QED
  BY <1>1, <1>7 DEF u, n, k

-----------------------------------------------------------------------------
(* The steps that change the committed rows *)

\* The unit of a caller takes effect as a whole.
Effect(t) ==
    /\ rows' = AfterUnit(rows, Unit(t), call[t].content)
    /\ Applicable(rows, Unit(t), call[t].content)

\* A unit's effect leaves every row absent or a content.
LEMMA EffectKeepsType ==
    ASSUME Grounds, NEW t \in Tasks, call[t].at \in Running, Effect(t)
    PROVE  rows' \in [Tables -> Values]
<1>1. call[t].content \in Values
  BY Standing
<1>2. Len(Unit(t).statements) \in Nat
  <2>1. Unit(t) \in Transactions \/ IsAlone(Unit(t))
    BY Standing
  <2>2. rows \in [Tables -> Values] /\ call[t].content \in Contents
    BY Standing DEF Grounds
  <2> QED
    BY <2>1, <2>2, TransactionShapes, AloneEffect
<1> QED
  BY <1>1, <1>2, EffectType DEF Effect, AfterUnit, Grounds

\* What a commit publishes is the effect of its whole unit.
LEMMA CommitTakesEffect ==
    ASSUME Inv, NEW t \in Tasks, call[t].at = "open",
           call[t].statement > Len(Unit(t).statements), rows' = View(using[t])
    PROVE  Effect(t)
<1>1. /\ Unit(t).tx /\ call[t].statement <= Len(Unit(t).statements) + 1
      /\ call[t].statement \in Nat /\ call[t].content \in Contents
  BY Standing DEF Inv, Grounds, Placed, Running
<1>2. Unit(t) \in Transactions
  BY <1>1, UnitKinds DEF Inv, Running
<1>3. Len(Unit(t).statements) \in Nat
  BY <1>2, TransactionShapes
<1>4. call[t].statement - 1 = Len(Unit(t).statements)
  BY <1>1, <1>3
<1>5. View(using[t]) = AfterFirst(rows, Unit(t), call[t].content, call[t].statement - 1)
  BY ViewPending DEF Inv
<1>6. Applicable(rows, Unit(t), call[t].content)
  BY <1>1, <1>2, SelfContained
<1> QED
  BY <1>4, <1>5, <1>6 DEF Effect, AfterUnit

\* A statement outside a transaction runs on a connection that has none.
LEMMA AloneTakesEffect ==
    ASSUME Inv, NEW t \in Tasks, NEW c \in Connections, call[t].at = "granted", using[t] = c,
           Ready(t, c), Run(t, c)
    PROVE  Effect(t) /\ UNCHANGED written /\ View(c) = rows /\ IsAlone(Unit(t))
           /\ Statement(t) = Unit(t).statements[1]
<1>1. c \in 1 .. PoolSize
  BY Connected
<1>2. c \notin open
  <2>1. SUFFICES ASSUME c \in open PROVE FALSE
    OBVIOUS
  <2>2. PICK q \in Tasks : using[q] = c /\ call[q].at \in {"open", "undoing"}
    BY <2>1 DEF Inv, Writing
  <2>3. q = t
    BY <2>2, Connected DEF Inv, Holders
  <2> QED
    BY <2>2, <2>3
<1>3. View(c) = rows /\ rows \in [Tables -> Values]
  BY <1>1, <1>2, ViewPlain DEF Inv, Writing, Grounds
<1>4. ~Unit(t).tx /\ call[t].statement = 1 /\ call[t].content \in Contents
  BY Standing DEF Inv, Grounds, Placed, Running
<1>5. IsAlone(Unit(t))
  BY <1>4, UnitKinds DEF Inv, Running
<1>6. Statement(t) = Unit(t).statements[1]
  BY <1>4 DEF Statement
<1>7. rows' = After(rows, Statement(t), call[t].content) /\ written' = written
  BY <1>2, <1>3 DEF Run
<1>8. Accepts(rows, Statement(t))
  BY <1>3 DEF Ready
<1>9. Effect(t)
  BY <1>3, <1>4, <1>5, <1>6, <1>7, <1>8, AloneEffect DEF Effect
<1> QED
  BY <1>3, <1>5, <1>6, <1>7, <1>9

\* SQLite's catalog projects with transactions only.
LEMMA ProjectionTakesEffect ==
    ASSUME Inv, NEW t \in Tasks, call[t].at = "between",
           rows' = AfterUnit(rows, Unit(t), call[t].content)
    PROVE  Effect(t) /\ Unit(t) \in Transactions
<1>1. /\ call[t].op \in workload /\ call[t].op \in Operations
      /\ call[t].unit \in 1 .. Len(Program[call[t].op])
      /\ call[t].content \in Contents
  BY Standing DEF Inv, Running
<1>2. dialect = "sqlite" /\ Unit(t).db # "content"
  BY DEF Inv, Grounds, Placed, Queued, Unit
<1>3. call[t].op \notin Maintenance
  BY <1>1, <1>2 DEF Inv, Grounds
<1>4. Unit(t).tx
  BY <1>1, <1>2, <1>3, UnitShapes DEF Unit
<1>5. Unit(t) \in Transactions
  BY <1>4, UnitKinds DEF Inv, Running
<1> QED
  BY <1>1, <1>5, SelfContained DEF Effect

-----------------------------------------------------------------------------
(* Every step keeps the invariant *)

\* A call begins with its first unit.
LEMMA BeginKeeps == ASSUME Inv, NEW t \in Tasks, Begin(t) PROVE Inv'
<1>1. PICK op \in workload : \E c \in ContentsOf(op) : Turn(t, op, c, 1)
  BY DEF Begin
<1>2. PICK c \in ContentsOf(op) : Turn(t, op, c, 1)
  BY <1>1
<1>3. op \in Operations /\ 1 \in 1 .. Len(Program[op])
  BY ProgramLengths DEF Inv, Grounds
<1>4. PICK s : /\ call' = [call EXCEPT ![t] = s] /\ Placed(s)
               /\ s.at \in {"queued", "between"}
               /\ queue' = IF s.at = "queued" THEN Append(queue, t) ELSE queue
  BY <1>2, <1>3, Turned DEF Inv
<1>5. /\ call[t].at \in Ended /\ UNCHANGED <<dialect, workload, rows, written, open, using>>
      /\ DOMAIN call = Tasks /\ rows' \in [Tables -> Values]
  BY DEF Begin, Inv, Grounds
<1>6. Grounds'
  BY <1>4, <1>5, OneMoves DEF Inv
<1>7. Waiting'
  BY <1>4, <1>5, WaitingKept DEF Inv, Ended
<1>8. Holders'
  <2>1. call[t].at \notin Held /\ s.at \notin Held
    BY <1>4, <1>5 DEF Ended, Held
  <2> QED
    BY <1>4, <1>5, <2>1, HoldersKept DEF Inv
<1>9. Writing'
  BY <1>4, <1>5, WritingKept DEF Inv, Ended
<1> QED
  BY <1>6, <1>7, <1>8, <1>9 DEF Inv

\* The record of a caller when only its stage changes.
LEMMA StageOnly ==
    ASSUME Grounds, NEW t \in Tasks, NEW at \in Stages
    PROVE  LET s == [call[t] EXCEPT !.at = at]
           IN  /\ s \in CallRecord /\ s.at = at /\ s.op = call[t].op
               /\ s.content = call[t].content /\ s.unit = call[t].unit
               /\ s.statement = call[t].statement /\ s.seen = call[t].seen
               /\ UnitOf(s) = UnitOf(call[t])
<1>1. call[t] \in CallRecord
  BY DEF Grounds, Placed
<1> QED
  BY <1>1 DEF CallRecord, UnitOf

\* The pool gives a connection to the first in the queue.
LEMMA GrantKeeps == ASSUME Inv, NEW t \in Tasks, NEW c \in Connections, Grant(t, c) PROVE Inv'
<1> DEFINE at == IF Unit(t).tx THEN "open" ELSE "granted"
           s == [call[t] EXCEPT !.at = at]
<1>1. /\ queue # <<>> /\ Head(queue) = t /\ Free(c)
      /\ using' = [using EXCEPT ![t] = c] /\ queue' = Tail(queue)
      /\ open' = IF Unit(t).tx THEN open \cup {c} ELSE open
      /\ call' = [call EXCEPT ![t] = s]
      /\ UNCHANGED <<dialect, workload, rows, written>>
  BY DEF Grant
<1>2. call[t].at = "queued"
  <2>1. Len(queue) \in Nat /\ 1 \in 1 .. Len(queue) /\ queue[1] = t
    BY <1>1 DEF Inv, Waiting
  <2> QED
    BY <2>1 DEF Inv, Waiting
<1>3. at \in {"open", "granted"} /\ at \in Stages /\ (at = "open" => Unit(t).tx)
      /\ (at = "granted" => ~Unit(t).tx)
  BY DEF Stages, Running
<1> HIDE DEF at
<1>4. /\ s \in CallRecord /\ s.at = at /\ s.op = call[t].op
      /\ s.content = call[t].content /\ s.unit = call[t].unit
      /\ s.statement = call[t].statement /\ s.seen = call[t].seen
      /\ UnitOf(s) = UnitOf(call[t])
  BY <1>3, StageOnly DEF Inv
<1> HIDE DEF s
<1>5. /\ call[t].statement = 1 /\ Unit(t) = UnitOf(call[t]) /\ Placed(call[t])
      /\ DOMAIN call = Tasks /\ rows' \in [Tables -> Values]
      /\ call[t].content \in Values
  BY <1>1, <1>2, Standing DEF Inv, Grounds, Placed, Running
<1>6. Unit(t).tx => Len(Unit(t).statements) \in Nat
  BY <1>2, UnitKinds, TransactionShapes DEF Inv, Running
<1>7. Placed(s)
  BY <1>2, <1>3, <1>4, <1>5, <1>6 DEF Placed, Running
<1>8. Grounds'
  BY <1>1, <1>5, <1>7, OneMoves DEF Inv
<1>9. Waiting'
  BY <1>1, <1>3, <1>4, <1>5, WaitingKept DEF Inv
<1>10. Holders'
  <2>1. s.at \in Held
    BY <1>3, <1>4 DEF Held
  <2> QED
    BY <1>1, <1>5, <2>1, HoldersKept DEF Inv
<1>11. \A q \in Tasks : q # t => using'[q] = using[q] /\ call'[q] = call[q]
  BY <1>1, <1>5 DEF Inv, Holders
<1>12. Writing'
  <2>1. CASE at = "granted"
    BY <1>1, <1>2, <1>3, <1>4, <1>5, <1>11, <2>1, WritingKept DEF Inv
  <2>2. CASE at = "open"
    <3>1. c \in 1 .. PoolSize /\ open' = open \cup {c} /\ written' = written
      BY <1>1, <1>3, <2>2, Connected
    <3>2. using'[t] = c /\ call'[t] = s
      BY <1>1, <1>5 DEF Inv, Holders
    <3>3. c \notin open
      BY <1>1 DEF Inv, Writing, Free
    <3>4. Pending(UnitOf(s), s.content, s.statement - 1) = Unwritten
      <4>1. s.statement - 1 = 0
        BY <1>4, <1>5
      <4>2. \A r \in Tables : LastWrites(UnitOf(s), 0, r) = {}
        BY OneMoreWrite
      <4> QED
        BY <4>1, <4>2 DEF Pending, Unwritten
    <3>5. written[c] = Unwritten
      BY <3>1, <3>3 DEF Inv, Writing
    <3>6. \A d \in open' : \E q \in Tasks : using'[q] = d /\ call'[q].at \in {"open", "undoing"}
      <4>1. ASSUME NEW d \in open
            PROVE  \E q \in Tasks : using'[q] = d /\ call'[q].at \in {"open", "undoing"}
        <5>1. PICK q \in Tasks : using[q] = d /\ call[q].at \in {"open", "undoing"}
          BY DEF Inv, Writing
        <5>2. q # t
          BY <1>2, <5>1
        <5> QED
          BY <1>11, <5>1, <5>2
      <4> QED
        BY <1>4, <2>2, <3>1, <3>2, <4>1
    <3>7. ASSUME NEW q \in Tasks, call'[q].at = "open"
          PROVE  /\ using'[q] \in open'
                 /\ written'[using'[q]]
                      = Pending(UnitOf(call'[q]), call'[q].content, call'[q].statement - 1)
      <4>1. CASE q = t
        BY <3>1, <3>2, <3>4, <3>5, <4>1
      <4>2. CASE q # t
        <5>1. using'[q] = using[q] /\ call'[q] = call[q]
          BY <1>11, <4>2
        <5> QED
          BY <3>1, <3>7, <5>1 DEF Inv, Writing
      <4> QED
        BY <4>1, <4>2
    <3>8. \A d \in 1 .. PoolSize : d \notin open' => written'[d] = Unwritten
      BY <3>1 DEF Inv, Writing
    <3>9. /\ open' \subseteq 1 .. PoolSize
          /\ written' \in [1 .. PoolSize -> [Tables -> Values \cup {None}]]
      BY <3>1 DEF Inv, Writing
    <3> QED
      BY <3>6, <3>7, <3>8, <3>9 DEF Writing, Unwritten, UnitOf, Pending
  <2> QED
    BY <1>3, <2>1, <2>2
<1> QED
  BY <1>8, <1>9, <1>10, <1>12 DEF Inv

\* A statement of a transaction adds what it writes.
LEMMA ExecuteKeeps ==
    ASSUME Inv, NEW t \in Tasks, NEW c \in Connections, using[t] = c, Execute(t, c)
    PROVE  Inv'
<1> DEFINE o == call[t]
           s == [o EXCEPT !.statement = @ + 1]
           u == Unit(t)
           n == o.statement - 1
           k == o.content
<1>1. /\ o.at = "open" /\ o.statement <= Len(u.statements)
      /\ call' = [call EXCEPT ![t] = s] /\ UNCHANGED <<dialect, workload, open, using, queue>>
      /\ Run(t, c) /\ DOMAIN call = Tasks
  BY DEF Execute, Inv, Grounds
<1>2. /\ o \in CallRecord /\ Placed(o) /\ u = UnitOf(o) /\ o.statement \in Nat /\ o.statement # 0
      /\ n \in Nat /\ n + 1 = o.statement /\ k \in Values
  BY <1>1, Standing DEF Inv, Grounds, Placed, Running
<1>3. u \in Transactions /\ Len(u.statements) \in Nat
  <2>1. u.tx
    BY <1>1, <1>2 DEF Placed
  <2>2. u \in Transactions
    BY <1>1, <2>1, UnitKinds DEF Inv, Running
  <2> QED
    BY <2>2, TransactionShapes
<1>4. o.statement \in 1 .. Len(u.statements)
  BY <1>1, <1>2, <1>3
<1>5. Statement(t) = u.statements[n + 1] /\ Statement(t).kind # "read"
  BY <1>2, <1>3, <1>4, TransactionShapes DEF Statement
<1>6. /\ s \in CallRecord /\ s.at = "open" /\ s.op = o.op /\ s.content = k /\ s.unit = o.unit
      /\ s.statement = n + 2 /\ s.seen = o.seen /\ UnitOf(s) = u
  BY <1>1, <1>2 DEF CallRecord, UnitOf
<1>7. c \in open /\ c \in 1 .. PoolSize /\ written[c] = Pending(u, k, n)
  BY <1>1, <1>2, Connected DEF Inv, Writing
<1>8. /\ rows' = rows
      /\ written' = [written EXCEPT ![c] =
           [r \in Tables |-> IF r \in Touched(Statement(t)) THEN After(View(c), Statement(t), k)[r]
                             ELSE @[r]]]
  BY <1>1, <1>7 DEF Run
<1> HIDE DEF s, n, u
<1>9. Placed(s)
  BY <1>1, <1>2, <1>3, <1>4, <1>6 DEF Placed, Running
<1>10. rows' \in [Tables -> Values]
  BY <1>8 DEF Inv, Grounds
<1>11. Grounds'
  <2> HIDE DEF o
  <2> QED
    BY <1>1, <1>9, <1>10, OneMoves DEF Inv
<1>12. Waiting'
  <2>1. o.at # "queued" /\ queue' = IF s.at = "queued" THEN Append(queue, t) ELSE queue
    BY <1>1, <1>6
  <2> QED
    BY <1>1, <2>1, WaitingKept DEF Inv
<1>13. Holders'
  <2>1. o.at \in Held <=> s.at \in Held
    BY <1>1, <1>6
  <2> QED
    BY <1>1, <2>1, HoldersKept DEF Inv
<1>14. written'[c] = Pending(u, k, n + 1)
  <2> DEFINE w == written[c]
             x == Statement(t)
  <2>1. written'[c] = [r \in Tables |-> IF r \in Touched(x) THEN After(View(c), x, k)[r] ELSE w[r]]
    BY <1>7, <1>8 DEF Inv, Writing
  <2>2. ASSUME NEW r \in Tables PROVE written'[c][r] = Pending(u, k, n + 1)[r]
    <3>1. LastWrites(u, n + 1, r) = IF Writes(x, r) THEN {n + 1} ELSE LastWrites(u, n, r)
      BY <1>2, <1>5, OneMoreWrite
    <3>2. CASE r \in Touched(x)
      <4>1. Writes(x, r)
        BY <1>5, <3>2 DEF Writes
      <4>2. After(View(c), x, k)[r] = IF x.kind = "delete" THEN Absent ELSE k
        BY <4>1 DEF After
      <4>3. Pending(u, k, n + 1)[r] = IF x.kind = "delete" THEN Absent ELSE k
        BY <1>5, <3>1, <4>1 DEF Pending
      <4> QED
        BY <2>1, <3>2, <4>2, <4>3
    <3>3. CASE r \notin Touched(x)
      <4>1. ~Writes(x, r)
        BY <3>3 DEF Writes
      <4>2. Pending(u, k, n + 1)[r] = Pending(u, k, n)[r]
        BY <3>1, <4>1 DEF Pending
      <4> QED
        BY <1>7, <2>1, <3>3, <4>2
    <3> QED
      BY <3>2, <3>3
  <2>3. written'[c] = [r \in Tables |-> written'[c][r]]
    BY <2>1
  <2>4. Pending(u, k, n + 1) = [r \in Tables |-> Pending(u, k, n + 1)[r]]
    BY DEF Pending
  <2> QED
    BY <2>2, <2>3, <2>4
<1>15. Pending(u, k, n + 1) \in [Tables -> Values \cup {None}]
  BY <1>2 DEF Pending, Values
<1>16. /\ \A d \in 1 .. PoolSize : d # c => written'[d] = written[d]
       /\ written' \in [1 .. PoolSize -> [Tables -> Values \cup {None}]]
  <2>1. written \in [1 .. PoolSize -> [Tables -> Values \cup {None}]]
    BY DEF Inv, Writing
  <2>2. /\ DOMAIN written' = 1 .. PoolSize
        /\ \A d \in 1 .. PoolSize : d # c => written'[d] = written[d]
    BY <1>7, <1>8, <2>1
  <2>3. \A d \in 1 .. PoolSize : written'[d] \in [Tables -> Values \cup {None}]
    BY <1>14, <1>15, <2>1, <2>2
  <2>4. written' = [d \in 1 .. PoolSize |-> written'[d]]
    BY <1>8, <2>1
  <2> QED
    BY <2>2, <2>3, <2>4
<1>17. call'[t] = s /\ \A q \in Tasks : q # t => call'[q] = call[q] /\ using[q] # c
  BY <1>1, Connected DEF Inv, Holders
<1>18. Writing'
  <2>1. \A d \in open' : \E q \in Tasks : using'[q] = d /\ call'[q].at \in {"open", "undoing"}
    <3>1. ASSUME NEW d \in open
          PROVE  \E q \in Tasks : using[q] = d /\ call'[q].at \in {"open", "undoing"}
      <4>1. PICK q \in Tasks : using[q] = d /\ call[q].at \in {"open", "undoing"}
        BY DEF Inv, Writing
      <4> QED
        BY <1>6, <1>17, <4>1
    <3> QED
      BY <1>1, <3>1
  <2>2. ASSUME NEW q \in Tasks, call'[q].at = "open"
        PROVE  /\ using'[q] \in open'
               /\ written'[using'[q]]
                    = Pending(UnitOf(call'[q]), call'[q].content, call'[q].statement - 1)
    <3>1. CASE q = t
      <4>1. s.statement - 1 = n + 1
        BY <1>2, <1>6
      <4> QED
        BY <1>1, <1>6, <1>7, <1>14, <1>17, <3>1, <4>1
    <3>2. CASE q # t
      <4>1. call'[q] = call[q] /\ using[q] # c /\ using[q] \in open /\ using[q] \in 1 .. PoolSize
        BY <1>17, <2>2, <3>2 DEF Inv, Writing
      <4> QED
        BY <1>1, <1>16, <2>2, <4>1 DEF Inv, Writing
    <3> QED
      BY <3>1, <3>2
  <2>3. \A d \in 1 .. PoolSize : d \notin open' => written'[d] = Unwritten
    BY <1>1, <1>7, <1>16 DEF Inv, Writing
  <2>4. open' \subseteq 1 .. PoolSize
    BY <1>1 DEF Inv, Writing
  <2> QED
    BY <1>16, <2>1, <2>2, <2>3, <2>4 DEF Writing, Unwritten, UnitOf, Pending
<1> QED
  BY <1>11, <1>12, <1>13, <1>18 DEF Inv

\* A commit takes effect; the unit is over, or its answer was lost.
LEMMA CommitKeeps ==
    ASSUME Inv, NEW t \in Tasks, NEW c \in Connections, using[t] = c, Commit(t, c)
    PROVE  Inv' /\ Effect(t)
<1>1. /\ call[t].at = "open" /\ call[t].statement > Len(Unit(t).statements)
      /\ rows' = View(c) /\ Closed(c) /\ UNCHANGED <<dialect, workload>>
      /\ DOMAIN call = Tasks
  BY DEF Commit, Inv, Grounds
<1>2. Effect(t)
  BY <1>1, CommitTakesEffect
<1>3. rows' \in [Tables -> Values]
  BY <1>1, <1>2, EffectKeepsType DEF Inv, Running
<1>4. Absent \in Values
  BY DEF Values
<1>5. CASE Release(t) /\ Advance(t, Absent)
  <2>1. PICK s : /\ call' = [call EXCEPT ![t] = s] /\ Placed(s)
                 /\ s.at \in {"queued", "between", "ok"}
                 /\ queue' = IF s.at = "queued" THEN Append(queue, t) ELSE queue
    BY <1>1, <1>4, <1>5, Advanced DEF Inv, Running
  <2>2. s.at \notin Held /\ s.at # "open" /\ call[t].at # "queued"
    BY <1>1, <2>1 DEF Held
  <2>3. \A q \in Tasks : q # t => using'[q] = using[q]
    BY <1>5 DEF Release, Inv, Holders
  <2>4. Grounds'
    BY <1>1, <1>3, <2>1, OneMoves DEF Inv
  <2>5. Waiting'
    BY <1>1, <2>1, <2>2, WaitingKept DEF Inv
  <2>6. Holders'
    BY <1>1, <1>5, <2>1, <2>2, HoldersKept DEF Inv
  <2>7. Writing'
    BY <1>1, <2>1, <2>2, <2>3, WritingClosed DEF Inv
  <2> QED
    BY <1>2, <2>4, <2>5, <2>6, <2>7 DEF Inv
<1>6. CASE call' = [call EXCEPT ![t] = Undoing] /\ UNCHANGED <<using, queue>>
  <2> DEFINE s == Undoing
  <2>1. Placed(s) /\ s.at = "undoing"
    BY <1>4, AnsweredPlaced DEF Undoing
  <2>2. call' = [call EXCEPT ![t] = s]
    BY <1>6
  <2> HIDE DEF s
  <2>3. call[t].at # "queued" /\ (call[t].at \in Held <=> s.at \in Held)
    BY <1>1, <2>1 DEF Held
  <2>4. Grounds'
    BY <1>1, <1>3, <2>1, <2>2, OneMoves DEF Inv
  <2>5. Waiting'
    BY <1>1, <1>6, <2>1, <2>2, <2>3, WaitingKept DEF Inv
  <2>6. Holders'
    BY <1>1, <1>6, <2>2, <2>3, HoldersKept DEF Inv
  <2>7. Writing'
    BY <1>1, <1>6, <2>1, <2>2, WritingClosed DEF Inv
  <2> QED
    BY <1>2, <2>4, <2>5, <2>6, <2>7 DEF Inv
<1> QED
  BY <1>5, <1>6 DEF Commit

\* A transaction that fails keeps its connection until the rollback.
LEMMA TransactionFailsKeeps == ASSUME Inv, NEW t \in Tasks, TransactionFails(t) PROVE Inv'
<1> DEFINE s == Undoing
<1>1. /\ call[t].at = "open" /\ call' = [call EXCEPT ![t] = s]
      /\ UNCHANGED <<dialect, workload, rows, written, open, using, queue>>
      /\ DOMAIN call = Tasks /\ rows' \in [Tables -> Values]
  BY DEF TransactionFails, Inv, Grounds
<1>2. Placed(s) /\ s.at = "undoing"
  BY AnsweredPlaced DEF Undoing, Values
<1> HIDE DEF s
<1>3. call[t].at # "queued" /\ (call[t].at \in Held <=> s.at \in Held)
  BY <1>1, <1>2 DEF Held
<1>4. Grounds'
  BY <1>1, <1>2, OneMoves DEF Inv
<1>5. Waiting'
  BY <1>1, <1>2, <1>3, WaitingKept DEF Inv
<1>6. Holders'
  BY <1>1, <1>3, HoldersKept DEF Inv
<1>7. call'[t] = s /\ \A q \in Tasks : q # t => call'[q] = call[q]
  BY <1>1
<1>8. \A d \in open : \E q \in Tasks : using[q] = d /\ call'[q].at \in {"open", "undoing"}
  <2>1. ASSUME NEW d \in open
        PROVE  \E q \in Tasks : using[q] = d /\ call'[q].at \in {"open", "undoing"}
    <3>1. PICK q \in Tasks : using[q] = d /\ call[q].at \in {"open", "undoing"}
      BY DEF Inv, Writing
    <3> QED
      BY <1>2, <1>7, <3>1
  <2> QED
    BY <2>1
<1>9. ASSUME NEW q \in Tasks, call'[q].at = "open"
      PROVE  /\ using[q] \in open
             /\ written[using[q]] =
                      Pending(UnitOf(call'[q]), call'[q].content, call'[q].statement - 1)
  <2>1. q # t /\ call'[q] = call[q]
    BY <1>2, <1>7, <1>9
  <2> QED
    BY <1>9, <2>1 DEF Inv, Writing
<1>10. Writing'
  <2>1. \A q \in Tasks : call'[q].at = "open" =>
          /\ using'[q] \in open'
          /\ written'[using'[q]] =
                   Pending(UnitOf(call'[q]), call'[q].content, call'[q].statement - 1)
    BY <1>1, <1>9
  <2>2. /\ open' \subseteq 1 .. PoolSize
        /\ written' \in [1 .. PoolSize -> [Tables -> Values \cup {None}]]
        /\ \A d \in 1 .. PoolSize : d \notin open' => written'[d] = Unwritten
    BY <1>1 DEF Inv, Writing
  <2>3. \A d \in open' : \E q \in Tasks : using'[q] = d /\ call'[q].at \in {"open", "undoing"}
    BY <1>1, <1>8
  <2> QED
    BY <2>1, <2>2, <2>3 DEF Writing, Unwritten, UnitOf, Pending
<1> QED
  BY <1>4, <1>5, <1>6, <1>10 DEF Inv

\* A rollback forgets what was written and gives the connection back.
LEMMA RollbackKeeps ==
    ASSUME Inv, NEW t \in Tasks, NEW c \in Connections, using[t] = c, Rollback(t, c)
    PROVE  Inv'
<1> DEFINE s == Answered("failed", Absent)
<1>1. /\ call[t].at = "undoing" /\ Closed(c) /\ Release(t) /\ call' = [call EXCEPT ![t] = s]
      /\ UNCHANGED <<dialect, workload, rows, queue>>
      /\ DOMAIN call = Tasks /\ rows' \in [Tables -> Values]
  BY DEF Rollback, Inv, Grounds
<1>2. Placed(s) /\ s.at = "failed"
  BY AnsweredPlaced DEF Ended, Values
<1> HIDE DEF s
<1>3. call[t].at # "queued" /\ s.at \notin Held
  BY <1>1, <1>2 DEF Held
<1>4. Grounds'
  BY <1>1, <1>2, OneMoves DEF Inv
<1>5. Waiting'
  BY <1>1, <1>2, <1>3, WaitingKept DEF Inv
<1>6. Holders'
  BY <1>1, <1>3, HoldersKept DEF Inv
<1>7. \A q \in Tasks : q # t => using'[q] = using[q]
  BY <1>1 DEF Release, Inv, Holders
<1>8. Writing'
  BY <1>1, <1>2, <1>7, WritingClosed DEF Inv
<1> QED
  BY <1>4, <1>5, <1>6, <1>8 DEF Inv

\* A statement outside a transaction takes effect at once.
LEMMA RunAloneKeeps ==
    ASSUME Inv, NEW t \in Tasks, NEW c \in Connections, using[t] = c, RunAlone(t, c)
    PROVE  Inv' /\ Effect(t)
<1> DEFINE read == IF Statement(t).kind = "read" THEN View(c)[Statement(t).table] ELSE Absent
<1>1. /\ call[t].at = "granted" /\ Ready(t, c) /\ Run(t, c) /\ Advance(t, read) /\ Release(t)
      /\ UNCHANGED <<dialect, workload, open>> /\ DOMAIN call = Tasks
  BY DEF RunAlone, Inv, Grounds
<1>2. Effect(t) /\ UNCHANGED written /\ View(c) = rows
  BY <1>1, AloneTakesEffect
<1>3. read \in Values
  <2>1. IsAlone(Unit(t)) /\ Statement(t) = Unit(t).statements[1]
    BY <1>1, AloneTakesEffect
  <2>2. rows \in [Tables -> Values] /\ call[t].content \in Contents /\ Absent \in Values
    BY <1>1, Standing DEF Inv, Grounds, Running, Values
  <2>3. Unit(t).db \in Databases /\ Statement(t) \in Autocommitted(Unit(t).db)
    BY <2>1, <2>2, AloneEffect
  <2>4. Statement(t).kind = "read" => Statement(t).table \in Tables
    BY <2>3, TouchedBy DEF Databases, Autocommitted, Tables, ProposalContent
  <2> QED
    BY <1>2, <2>2, <2>4
<1> HIDE DEF read
<1>4. rows' \in [Tables -> Values]
  BY <1>1, <1>2, EffectKeepsType DEF Inv, Running
<1>5. PICK s : /\ call' = [call EXCEPT ![t] = s] /\ Placed(s)
               /\ s.at \in {"queued", "between", "ok"}
               /\ queue' = IF s.at = "queued" THEN Append(queue, t) ELSE queue
  BY <1>1, <1>3, Advanced DEF Inv, Running
<1>6. /\ s.at \notin Held /\ s.at \notin {"open", "undoing"}
      /\ call[t].at \notin {"queued", "open", "undoing"}
  BY <1>1, <1>5 DEF Held
<1>7. \A q \in Tasks : q # t => using'[q] = using[q]
  BY <1>1 DEF Release, Inv, Holders
<1>8. Grounds'
  BY <1>1, <1>4, <1>5, OneMoves DEF Inv
<1>9. Waiting'
  BY <1>1, <1>5, <1>6, WaitingKept DEF Inv
<1>10. Holders'
  BY <1>1, <1>5, <1>6, HoldersKept DEF Inv
<1>11. Writing'
  BY <1>1, <1>2, <1>5, <1>6, <1>7, WritingKept DEF Inv
<1> QED
  BY <1>2, <1>8, <1>9, <1>10, <1>11 DEF Inv

\* A statement outside a transaction fails, with its effect or without.
LEMMA AloneFailsKeeps ==
    ASSUME Inv, NEW t \in Tasks, NEW c \in Connections, using[t] = c, AloneFails(t, c)
    PROVE  Inv' /\ (UNCHANGED rows \/ Effect(t))
<1> DEFINE s == Answered("failed", Absent)
<1>1. /\ call[t].at = "granted" /\ Release(t) /\ call' = [call EXCEPT ![t] = s]
      /\ UNCHANGED <<dialect, workload, open, queue>> /\ DOMAIN call = Tasks
  BY DEF AloneFails, Inv, Grounds
<1>2. written' = written /\ (UNCHANGED rows \/ Effect(t))
  BY <1>1, AloneTakesEffect DEF AloneFails
<1>3. rows' \in [Tables -> Values]
  BY <1>1, <1>2, EffectKeepsType DEF Inv, Running, Grounds
<1>4. Placed(s) /\ s.at = "failed"
  BY AnsweredPlaced DEF Ended, Values
<1> HIDE DEF s
<1>5. /\ s.at \notin Held /\ s.at \notin {"open", "undoing"}
      /\ call[t].at \notin {"queued", "open", "undoing"}
  BY <1>1, <1>4 DEF Held
<1>6. \A q \in Tasks : q # t => using'[q] = using[q]
  BY <1>1 DEF Release, Inv, Holders
<1>7. Grounds'
  BY <1>1, <1>3, <1>4, OneMoves DEF Inv
<1>8. Waiting'
  BY <1>1, <1>4, <1>5, WaitingKept DEF Inv
<1>9. Holders'
  BY <1>1, <1>5, HoldersKept DEF Inv
<1>10. Writing'
  BY <1>1, <1>2, <1>5, <1>6, WritingKept DEF Inv
<1> QED
  BY <1>2, <1>7, <1>8, <1>9, <1>10 DEF Inv

\* A unit of SQLite's catalog takes effect in one step or fails.
LEMMA ProjectKeeps ==
    ASSUME Inv, NEW t \in Tasks, Project(t)
    PROVE  Inv' /\ (UNCHANGED rows \/ Effect(t))
<1>1. /\ call[t].at = "between" /\ UNCHANGED <<dialect, workload, written, open, using>>
      /\ DOMAIN call = Tasks
  BY DEF Project, Inv, Grounds
<1>2. UNCHANGED rows \/ Effect(t)
  BY <1>1, ProjectionTakesEffect DEF Project
<1>3. rows' \in [Tables -> Values]
  BY <1>1, <1>2, EffectKeepsType DEF Inv, Running, Grounds
<1>4. \E s : /\ call' = [call EXCEPT ![t] = s] /\ Placed(s)
             /\ s.at \in {"queued", "between", "ok", "failed"}
             /\ queue' = IF s.at = "queued" THEN Append(queue, t) ELSE queue
  <2>1. CASE Advance(t, Absent)
    <3>1. Absent \in Values
      BY DEF Values
    <3>2. PICK s : /\ call' = [call EXCEPT ![t] = s] /\ Placed(s)
                   /\ s.at \in {"queued", "between", "ok"}
                   /\ queue' = IF s.at = "queued" THEN Append(queue, t) ELSE queue
      BY <1>1, <2>1, <3>1, Advanced DEF Inv, Running
    <3> QED
      BY <3>2
  <2>2. CASE call' = [call EXCEPT ![t] = Answered("failed", Absent)] /\ UNCHANGED queue
    <3> DEFINE s == Answered("failed", Absent)
    <3>1. Placed(s) /\ s.at = "failed"
      BY AnsweredPlaced DEF Ended, Values
    <3>2. call' = [call EXCEPT ![t] = s]
      BY <2>2
    <3> HIDE DEF s
    <3> QED
      BY <2>2, <3>1, <3>2
  <2> QED
    BY <2>1, <2>2 DEF Project
<1>5. PICK s : /\ call' = [call EXCEPT ![t] = s] /\ Placed(s)
               /\ s.at \in {"queued", "between", "ok", "failed"}
               /\ queue' = IF s.at = "queued" THEN Append(queue, t) ELSE queue
  BY <1>4
<1>6. s.at \notin Held /\ call[t].at \notin Held /\ call[t].at # "queued"
      /\ s.at \notin {"open", "undoing"}
  BY <1>1, <1>5 DEF Held
<1>7. Grounds'
  BY <1>1, <1>3, <1>5, OneMoves DEF Inv
<1>8. Waiting'
  BY <1>1, <1>5, <1>6, WaitingKept DEF Inv
<1>9. Holders'
  BY <1>1, <1>5, <1>6, HoldersKept DEF Inv
<1>10. Writing'
  BY <1>1, <1>5, <1>6, WritingKept DEF Inv
<1> QED
  BY <1>2, <1>7, <1>8, <1>9, <1>10 DEF Inv

\* A crash ends every call and forgets what was not committed.
LEMMA CrashKeeps == ASSUME Inv, Crash PROVE Inv'
<1>1. /\ written' = [c \in 1 .. PoolSize |-> Unwritten] /\ open' = {}
      /\ using' = [t \in Tasks |-> None] /\ queue' = <<>>
      /\ UNCHANGED <<dialect, workload, rows>>
      /\ call' = [t \in Tasks |-> IF call[t].at \in Ended THEN call[t]
                                    ELSE Answered("failed", Absent)]
  BY DEF Crash
<1>2. ASSUME NEW t \in Tasks PROVE Placed(call'[t]) /\ call'[t].at \in Ended
  <2>1. Placed(Answered("failed", Absent)) /\ Answered("failed", Absent).at \in Ended
    BY AnsweredPlaced DEF Ended, Values
  <2> HIDE DEF Answered
  <2> QED
    BY <1>1, <2>1 DEF Inv, Grounds
<1>3. Grounds'
  <2>1. ASSUME NEW t \in Tasks PROVE Placed(call[t])'
    <3>1. Placed(call'[t])
      BY <1>2
    <3> QED
      BY <1>1, <3>1 DEF Placed, Queued
  <2> QED
    BY <1>1, <2>1 DEF Inv, Grounds
<1>4. Waiting'
  BY <1>1, <1>2 DEF Waiting, Ended
<1>5. Holders'
  <2>1. \A t \in Tasks : call'[t].at \notin Held
    BY <1>2 DEF Ended, Held
  <2> QED
    BY <1>1, <2>1 DEF Holders
<1>6. Writing'
  <2>1. \A t \in Tasks : call'[t].at # "open"
    BY <1>2 DEF Ended
  <2>2. Unwritten \in [Tables -> Values \cup {None}]
    BY DEF Unwritten
  <2>3. Unwritten' = Unwritten
    BY DEF Unwritten
  <2> HIDE DEF Unwritten
  <2> QED
    BY <1>1, <2>1, <2>2, <2>3 DEF Writing
<1> QED
  BY <1>3, <1>4, <1>5, <1>6 DEF Inv

\* The invariant holds initially.
LEMMA InvInit == Init => Inv
<1> SUFFICES ASSUME Init PROVE Inv
  OBVIOUS
<1>1. Absent \in Values /\ Unwritten \in [Tables -> Values \cup {None}]
  BY DEF Values, Unwritten
<1>2. Placed(Answered("ok", Absent)) /\ Answered("ok", Absent).at = "ok"
  BY AnsweredPlaced, <1>1 DEF Ended
<1> HIDE DEF Answered, Unwritten
<1>3. \A t \in Tasks : call[t] = Answered("ok", Absent)
  BY DEF Init
<1>4. Grounds
  BY <1>1, <1>2, <1>3, WorkloadAssumption DEF Init, Grounds, Maintenance
<1>5. Waiting
  BY <1>2, <1>3 DEF Init, Waiting
<1>6. Holders
  BY <1>2, <1>3 DEF Init, Holders, Held
<1>7. Writing
  BY <1>1, <1>2, <1>3 DEF Init, Writing
<1> QED
  BY <1>4, <1>5, <1>6, <1>7 DEF Inv

\* A step of the system is one of these.
LEMMA StepOf ==
    ASSUME Next
    PROVE  \/ Crash
           \/ \E t \in Tasks : Begin(t)
           \/ \E t \in Tasks : TransactionFails(t)
           \/ \E t \in Tasks : Project(t)
           \/ \E t \in Tasks, c \in Connections : Grant(t, c)
           \/ \E t \in Tasks, c \in Connections : using[t] = c /\ On(t, c)
BY DEF Next, Continue

\* Every step keeps the invariant.
LEMMA InvStep == Inv /\ [Next]_vars => Inv'
<1> SUFFICES ASSUME Inv, [Next]_vars PROVE Inv'
  OBVIOUS
<1>1. CASE Next
  <2>1. ASSUME NEW t \in Tasks, NEW c \in Connections, using[t] = c, On(t, c) PROVE Inv'
    BY <2>1, ExecuteKeeps, CommitKeeps, RollbackKeeps, RunAloneKeeps, AloneFailsKeeps DEF On
  <2> QED
    BY <1>1, <2>1, StepOf, CrashKeeps, BeginKeeps, TransactionFailsKeeps, ProjectKeeps, GrantKeeps
<1>2. CASE UNCHANGED vars
  <2>1. Grounds'
    BY <1>2 DEF Inv, Grounds, Placed, Queued, vars
  <2>2. Waiting'
    BY <1>2 DEF Inv, Waiting, vars
  <2>3. Holders'
    BY <1>2 DEF Inv, Holders, Connections, vars
  <2>4. Writing'
    <3>1. call' = call /\ using' = using /\ open' = open /\ written' = written
      BY <1>2 DEF vars
    <3>2. \A t \in Tasks : call'[t].at = "open" =>
            /\ using'[t] \in open'
            /\ written'[using'[t]]
                 = Pending(UnitOf(call'[t]), call'[t].content, call'[t].statement - 1)
      BY <3>1 DEF Inv, Writing
    <3>3. /\ open' \subseteq 1 .. PoolSize
          /\ written' \in [1 .. PoolSize -> [Tables -> Values \cup {None}]]
          /\ \A d \in 1 .. PoolSize : d \notin open' => written'[d] = Unwritten
          /\ \A d \in open' : \E t \in Tasks : using'[t] = d /\ call'[t].at \in {"open", "undoing"}
      BY <3>1 DEF Inv, Writing
    <3> QED
      BY <3>2, <3>3 DEF Writing, Unwritten, UnitOf, Pending
  <2> QED
    BY <2>1, <2>2, <2>3, <2>4 DEF Inv
<1> QED
  BY <1>1, <1>2

\* The invariant holds always.
LEMMA Invariant == Spec => []Inv
BY InvInit, InvStep, PTL DEF Spec

\* The rows, the transactions and the callers keep their shape.
THEOREM TypeCorrect == Spec => []TypeOK
<1>1. Inv => TypeOK
  <2> SUFFICES ASSUME Inv PROVE TypeOK
    OBVIOUS
  <2>1. \A c \in 1 .. PoolSize : written[c] # Unwritten => c \in open
    BY DEF Inv, Writing
  <2>2. ASSUME NEW t \in Tasks
        PROVE  /\ call[t].at \in Ended \cup Held \cup {"between", "queued"}
               /\ call[t].at \in Held => using[t] # None
    <3>1. call[t].at \in Stages
      BY DEF Inv, Grounds, Placed, CallRecord
    <3> QED
      BY <3>1 DEF Inv, Holders, Stages, Running, Ended, Held
  <2>3. DOMAIN queue = 1 .. Len(queue)
    BY DEF Inv, Waiting
  <2>4. \A t \in Tasks : call[t].at = "queued" <=> \E i \in DOMAIN queue : queue[i] = t
    BY <2>3 DEF Inv, Waiting
  <2> QED
    BY <2>1, <2>2, <2>4 DEF TypeOK, Inv, Grounds, Holders, Writing
<1> QED
  BY <1>1, Invariant, PTL

-----------------------------------------------------------------------------
\* Only a unit that takes effect changes the rows every caller sees.
LEMMA RowsByUnits ==
    ASSUME Inv, [Next]_vars
    PROVE  \/ UNCHANGED rows
           \/ \E t \in Tasks : call[t].at \in Running /\ Effect(t)
<1>1. ASSUME NEW t \in Tasks, NEW c \in Connections, using[t] = c, On(t, c)
      PROVE  UNCHANGED rows \/ (call[t].at \in Running /\ Effect(t))
  <2>1. CASE Execute(t, c)
    <3>1. c \in open
      BY <1>1, <2>1 DEF Execute, Inv, Writing
    <3> QED
      BY <2>1, <3>1 DEF Execute, Run
  <2>2. CASE Commit(t, c)
    BY <1>1, <2>2, CommitKeeps DEF Commit, Running
  <2>3. CASE Rollback(t, c)
    BY <2>3 DEF Rollback
  <2>4. CASE RunAlone(t, c)
    BY <1>1, <2>4, RunAloneKeeps DEF RunAlone, Running
  <2>5. CASE AloneFails(t, c)
    BY <1>1, <2>5, AloneFailsKeeps DEF AloneFails, Running
  <2> QED
    BY <1>1, <2>1, <2>2, <2>3, <2>4, <2>5 DEF On
<1>2. ASSUME NEW t \in Tasks, Project(t)
      PROVE  UNCHANGED rows \/ (call[t].at \in Running /\ Effect(t))
  BY <1>2, ProjectKeeps DEF Project, Running
<1>3. CASE Next
  <2>1. CASE \E t \in Tasks, c \in Connections : using[t] = c /\ On(t, c)
    BY <1>1, <2>1
  <2>2. CASE \E t \in Tasks : Project(t)
    BY <1>2, <2>2
  <2>3. CASE Crash \/ (\E t \in Tasks : Begin(t) \/ TransactionFails(t))
             \/ (\E t \in Tasks, c \in Connections : Grant(t, c))
    BY <2>3 DEF Crash, Begin, TransactionFails, Grant
  <2> QED
    BY <1>3, <2>1, <2>2, <2>3, StepOf
<1> QED
  BY <1>3 DEF vars

\* Whatever overlaps, the committed rows of a projection are of one save.
THEOREM ProjectionsWhole == Spec => []ProjectionWhole
<1>1. Init => Whole(rows)
  BY TouchedBy DEF Init, Whole, Tables, ProposalListing, SkillListing, SearchIndex
<1>2. Inv /\ Whole(rows) /\ [Next]_vars => Whole(rows)'
  <2> SUFFICES ASSUME Inv, Whole(rows), [Next]_vars PROVE Whole(rows')
    BY DEF Whole
  <2>1. ASSUME NEW t \in Tasks, call[t].at \in Running, Effect(t) PROVE Whole(rows')
    <3>1. /\ call[t].op \in Operations /\ call[t].content \in ContentsOf(call[t].op)
          /\ call[t].unit \in 1 .. Len(Program[call[t].op]) /\ rows \in [Tables -> Values]
      BY <2>1, Standing DEF Inv, Grounds
    <3> QED
      BY <2>1, <3>1, UnitKeepsWhole DEF Effect, Unit
  <2>2. CASE UNCHANGED rows
    BY <2>2
  <2> QED
    BY <2>1, <2>2, RowsByUnits
<1>3. Whole(rows) => ProjectionWhole
  BY DEF Whole, ProjectionWhole
<1> QED
  BY <1>1, <1>2, <1>3, Invariant, PTL DEF Spec

-----------------------------------------------------------------------------
(* The units as the abstract specification sees them *)

\* The abstract specification speaks of the same programs.
LEMMA SamePrograms ==
    /\ Atomic!Tables = Tables /\ Atomic!Program = Program /\ Atomic!Operations = Operations
    /\ \A op : Atomic!ContentsOf(op) = ContentsOf(op)
<1>1. Atomic!Tables = Tables
  BY DEF Atomic!Tables, Atomic!ProposalContent, Atomic!ProposalListing, Atomic!SkillListing,
         Atomic!SearchIndex, Tables, ProposalContent, ProposalListing, SkillListing, SearchIndex
<1>2. /\ \A table : /\ Atomic!Read(table) = Read(table) /\ Atomic!Put(table) = Put(table)
                    /\ Atomic!Insert(table) = Insert(table) /\ Atomic!Delete(table) = Delete(table)
      /\ \A db, s : /\ Atomic!Single(db, s) = Single(db, s)
                    /\ Atomic!Transaction(db, s) = Transaction(db, s)
  BY DEF Atomic!Read, Atomic!Put, Atomic!Insert, Atomic!Delete, Atomic!Single, Atomic!Transaction,
         Read, Put, Insert, Delete, Single, Transaction
<1>3. /\ Atomic!UpsertProposal = UpsertProposal /\ Atomic!DeleteListing = DeleteListing
      /\ Atomic!UpsertSkill = UpsertSkill /\ Atomic!IndexVersion = IndexVersion
  BY <1>2 DEF Atomic!UpsertProposal, Atomic!DeleteListing, Atomic!UpsertSkill, Atomic!IndexVersion,
              UpsertProposal, DeleteListing, UpsertSkill, IndexVersion
<1>4. /\ Atomic!Rebuild = Rebuild /\ Atomic!ReindexAll = ReindexAll
      /\ Atomic!DeleteProposal = DeleteProposal
  BY <1>2, <1>3 DEF Atomic!Rebuild, Atomic!ReindexAll, Atomic!DeleteProposal,
                    Rebuild, ReindexAll, DeleteProposal
<1>5. Atomic!Program = Program
  BY <1>2, <1>3, <1>4 DEF Atomic!Program, Program
<1>6. \A op : Atomic!ContentsOf(op) = ContentsOf(op)
  BY DEF Atomic!ContentsOf, Atomic!Saves, ContentsOf, Saves
<1> QED
  BY <1>1, <1>5, <1>6 DEF Atomic!Operations, Operations

\* The two specifications agree on what statements leave.
LEMMA SameEffects ==
    ASSUME NEW v, NEW u, NEW c
    PROVE  /\ Atomic!AfterUnit(v, u, c) = AfterUnit(v, u, c)
           /\ Atomic!Applicable(v, u, c) <=> Applicable(v, u, c)
<1>1. Atomic!Parent = Parent
  BY DEF Atomic!Parent, Parent
<1>2. \A s : Atomic!Touched(s) = Touched(s)
  BY <1>1 DEF Atomic!Touched, Touched
<1>3. \A s, t : Atomic!Writes(s, t) <=> Writes(s, t)
  BY <1>2 DEF Atomic!Writes, Writes
<1>4. \A n, t : Atomic!LastWrites(u, n, t) = LastWrites(u, n, t)
  BY <1>3 DEF Atomic!LastWrites, LastWrites
<1>5. \A n : Atomic!AfterFirst(v, u, c, n) = AfterFirst(v, u, c, n)
  BY <1>4, SamePrograms DEF Atomic!AfterFirst, AfterFirst
<1>6. \A w, s : Atomic!Accepts(w, s) <=> Accepts(w, s)
  BY <1>1 DEF Atomic!Accepts, Accepts
<1>7. Atomic!AfterUnit(v, u, c) = AfterUnit(v, u, c)
  BY <1>5 DEF Atomic!AfterUnit, AfterUnit
<1>8. Atomic!Applicable(v, u, c) <=> Applicable(v, u, c)
  BY <1>5, <1>6 DEF Atomic!Applicable, Applicable
<1> QED
  BY <1>7, <1>8

\* How a caller looks to the abstract specification.
StateOf(at) ==
    IF at = "ok" THEN "ok"
    ELSE IF at \in {"undoing", "failed"} THEN "failed" ELSE "running"

\* What the abstract specification sees of a caller, and of all of them.
Shown(s) == [op |-> s.op, content |-> s.content, unit |-> s.unit,
             state |-> StateOf(s.at), seen |-> s.seen]

shown == [t \in Tasks |-> Shown(call[t])]

\* A step of the abstract specification, or none.
UnitsStep == Atomic!Next \/ UNCHANGED <<rows, shown>>

\* A step of one caller is seen as a step of one caller.
LEMMA ShownMoves ==
    ASSUME DOMAIN call = Tasks, NEW t \in Tasks, NEW s, call' = [call EXCEPT ![t] = s]
    PROVE  shown' = [shown EXCEPT ![t] = Shown(s)]
<1>1. call'[t] = s /\ \A q \in Tasks : q # t => call'[q] = call[q]
  OBVIOUS
<1>2. shown' = [q \in Tasks |-> Shown(call'[q])]
  BY DEF shown, Shown, StateOf
<1>3. [shown EXCEPT ![t] = Shown(s)] = [q \in Tasks |-> IF q = t THEN Shown(s) ELSE Shown(call[q])]
  BY DEF shown
<1>4. \A q \in Tasks : Shown(call'[q]) = IF q = t THEN Shown(s) ELSE Shown(call[q])
  BY <1>1
<1> QED
  BY <1>2, <1>3, <1>4

\* What is seen of a caller that has a call under way.
LEMMA ShownFields ==
    ASSUME NEW s
    PROVE  /\ Shown(s).op = s.op /\ Shown(s).content = s.content /\ Shown(s).unit = s.unit
           /\ Shown(s).state = StateOf(s.at) /\ Shown(s).seen = s.seen
           /\ s.at \in Running => Shown(s).state = "running"
BY DEF Shown, StateOf, Running

\* What is seen of a caller that has its answer.
LEMMA ShownAnswered ==
    ASSUME NEW at \in {"ok", "failed", "undoing"}, NEW seen
    PROVE  Shown(Answered(at, seen)) = Atomic!Answered(StateOf(at), seen)
<1>1. /\ Answered(at, seen).op = None /\ Answered(at, seen).content = None
      /\ Answered(at, seen).unit = 0 /\ Answered(at, seen).at = at /\ Answered(at, seen).seen = seen
  BY DEF Answered
<1> QED
  BY <1>1 DEF Shown, Atomic!Answered

\* The abstract effect of a unit is that of the detailed specification.
LEMMA SameEffect ==
    ASSUME NEW t \in Tasks, Effect(t)
    PROVE  Atomic!TakesEffect(t)
<1>1. shown[t] = Shown(call[t])
  BY DEF shown
<1>2. shown[t].op = call[t].op /\ shown[t].unit = call[t].unit /\ shown[t].content = call[t].content
  BY <1>1, ShownFields
<1>3. Atomic!Unit(t) = Unit(t)
  BY <1>2, SamePrograms DEF Atomic!Unit, Unit, shown, Shown, StateOf
<1>4. /\ rows' = Atomic!AfterUnit(rows, Unit(t), call[t].content)
      /\ Atomic!Applicable(rows, Unit(t), call[t].content)
  BY SameEffects DEF Effect
<1> QED
  BY <1>2, <1>3, <1>4 DEF Atomic!TakesEffect, shown, Shown, StateOf

\* What is seen of every caller.
LEMMA ShownStage == Inv => \A t \in Tasks : /\ shown[t] = Shown(call[t])
                                            /\ call[t].at \in Running => shown[t].state = "running"
BY ShownFields DEF shown

\* A step inside a unit is not seen.
LEMMA Unseen ==
    ASSUME Inv, NEW t \in Tasks, NEW s, call' = [call EXCEPT ![t] = s], Shown(s) = Shown(call[t]),
           UNCHANGED rows
    PROVE  UnitsStep
<1>1. shown' = [shown EXCEPT ![t] = Shown(call[t])]
  BY ShownMoves DEF Inv, Grounds
<1>2. shown' = shown
  BY <1>1 DEF shown
<1> QED
  BY <1>2 DEF UnitsStep

\* A call that fails is seen to fail, its unit with its effect or without.
LEMMA Rejected ==
    ASSUME Inv, NEW t \in Tasks, call[t].at \in Running, NEW at \in {"failed", "undoing"},
           call' = [call EXCEPT ![t] = Answered(at, Absent)], UNCHANGED rows \/ Effect(t)
    PROVE  UnitsStep
<1> DEFINE s == Answered(at, Absent)
<1>1. Shown(s) = Atomic!Answered("failed", Absent)
  BY ShownAnswered DEF StateOf
<1>2. call' = [call EXCEPT ![t] = s]
  OBVIOUS
<1> HIDE DEF s
<1>3. shown' = [shown EXCEPT ![t] = Atomic!Answered("failed", Absent)]
  <2>1. DOMAIN call = Tasks
    BY DEF Inv, Grounds
  <2>2. shown' = [shown EXCEPT ![t] = Shown(s)]
    BY <1>2, <2>1, ShownMoves
  <2> QED
    BY <1>1, <2>2
<1>4. shown[t].state = "running"
  BY ShownStage
<1>5. UNCHANGED rows \/ Atomic!TakesEffect(t)
  BY SameEffect
<1>6. Atomic!Reject(t)
  BY <1>3, <1>4, <1>5 DEF Atomic!Reject, shown, Shown, StateOf
<1> QED
  BY <1>6 DEF UnitsStep, Atomic!Next

\* A call whose unit takes effect is seen to proceed.
LEMMA Applied ==
    ASSUME Inv, NEW t \in Tasks, call[t].at \in Running, Effect(t), NEW read \in Values,
           read = IF call[t].op = "findProposal" THEN rows["aggregate"] ELSE Absent,
           Advance(t, read)
    PROVE  UnitsStep
<1> DEFINE o == shown[t]
<1>1. PICK s : /\ call' = [call EXCEPT ![t] = s]
               /\ IF call[t].unit < Len(Program[call[t].op])
                  THEN /\ s.op = call[t].op /\ s.content = call[t].content
                       /\ s.unit = call[t].unit + 1 /\ s.seen = Absent
                       /\ s.at \in {"queued", "between"}
                  ELSE s = Answered("ok", read)
  BY Advanced DEF Inv
<1>2. shown' = [shown EXCEPT ![t] = Shown(s)]
  BY <1>1, ShownMoves DEF Inv, Grounds
<1>3. /\ o.state = "running" /\ o = Shown(call[t]) /\ call[t].seen = Absent
      /\ o.op = call[t].op /\ o.unit = call[t].unit /\ o.content = call[t].content
      /\ o.seen = Absent
  BY ShownStage, ShownFields, Standing DEF Inv
<1>4. Atomic!TakesEffect(t)
  BY SameEffect
<1>5. Shown(s) = IF o.unit < Len(Atomic!Program[o.op]) THEN [o EXCEPT !.unit = @ + 1]
                 ELSE Atomic!Answered("ok", read)
  <2>1. CASE call[t].unit < Len(Program[call[t].op])
    <3>1. /\ s.op = call[t].op /\ s.content = call[t].content
          /\ s.unit = call[t].unit + 1 /\ s.seen = Absent
          /\ StateOf(s.at) = "running" /\ StateOf(call[t].at) = "running"
      BY <1>1, <2>1 DEF StateOf, Running
    <3>2. Shown(s) = [Shown(call[t]) EXCEPT !.unit = @ + 1]
      BY <1>3, <3>1 DEF Shown
    <3> QED
      BY <1>3, <2>1, <3>2, SamePrograms
  <2>2. CASE ~(call[t].unit < Len(Program[call[t].op]))
    <3>1. Shown(s) = Atomic!Answered("ok", read)
      BY <1>1, <2>2, ShownAnswered DEF StateOf
    <3> QED
      BY <1>3, <2>2, <3>1, SamePrograms
  <2> QED
    BY <2>1, <2>2
<1> HIDE DEF o
<1>6. Atomic!Proceeded(t) = Shown(s)
  BY <1>3, <1>5 DEF Atomic!Proceeded, shown, Shown, StateOf, o
<1>7. Atomic!Apply(t)
  BY <1>2, <1>3, <1>4, <1>6 DEF Atomic!Apply, shown, Shown, StateOf, o
<1> QED
  BY <1>7 DEF UnitsStep, Atomic!Next

\* A call that begins is seen to begin.
LEMMA Begun == ASSUME Inv, NEW t \in Tasks, Begin(t) PROVE UnitsStep
<1>1. PICK op \in workload : \E c \in ContentsOf(op) : Turn(t, op, c, 1)
  BY DEF Begin
<1>2. PICK c \in ContentsOf(op) : Turn(t, op, c, 1)
  BY <1>1
<1>3. op \in Operations /\ 1 \in 1 .. Len(Program[op])
  BY ProgramLengths DEF Inv, Grounds
<1>4. PICK s : /\ call' = [call EXCEPT ![t] = s]
               /\ s.op = op /\ s.content = c /\ s.unit = 1 /\ s.seen = Absent
               /\ s.at \in {"queued", "between"}
  BY <1>2, <1>3, Turned DEF Inv
<1>5. StateOf(s.at) = "running"
  BY <1>4 DEF StateOf
<1>6. Shown(s) = [op |-> op, content |-> c, unit |-> 1, state |-> "running", seen |-> Absent]
  BY <1>4, <1>5 DEF Shown
<1>7. shown' = [shown EXCEPT ![t] =
                  [op |-> op, content |-> c, unit |-> 1, state |-> "running", seen |-> Absent]]
  BY <1>4, <1>6, ShownMoves DEF Inv, Grounds
<1>8. shown[t].state # "running" /\ UNCHANGED rows
  <2>1. shown[t].state = StateOf(call[t].at) /\ call[t].at \in Ended /\ UNCHANGED rows
    BY ShownFields DEF shown, Begin
  <2> QED
    BY <2>1 DEF StateOf, Ended
<1>9. op \in Atomic!Operations /\ c \in Atomic!ContentsOf(op)
  BY <1>3, SamePrograms
<1>10. Atomic!Begin(t)
  BY <1>7, <1>8, <1>9 DEF Atomic!Begin, shown, Shown, StateOf
<1> QED
  BY <1>10 DEF UnitsStep, Atomic!Next

\* A crash is seen as the failure of every call under way.
LEMMA Stopped == ASSUME Inv, Crash PROVE UnitsStep
<1>1. UNCHANGED rows
      /\ call' = [t \in Tasks |-> IF call[t].at \in Ended THEN call[t]
                                    ELSE Answered("failed", Absent)]
  BY DEF Crash
<1>2. ASSUME NEW t \in Tasks
      PROVE  Shown(call'[t]) = IF shown[t].state = "running" THEN Atomic!Answered("failed", Absent)
                               ELSE shown[t]
  <2>1. shown[t] = Shown(call[t]) /\ shown[t].state = StateOf(call[t].at)
    BY ShownFields DEF shown
  <2>2. Placed(call[t]) /\ call[t].at \in Stages
    BY DEF Inv, Grounds, Placed, CallRecord
  <2>3. CASE call[t].at \in Ended
    <3>1. StateOf(call[t].at) # "running"
      BY <2>3 DEF StateOf, Ended
    <3> QED
      BY <1>1, <2>1, <2>3, <3>1
  <2>4. CASE call[t].at \notin Ended
    <3>1. call'[t] = Answered("failed", Absent)
      BY <1>1, <2>4
    <3>2. Shown(call'[t]) = Atomic!Answered("failed", Absent)
      BY <3>1, ShownAnswered DEF StateOf
    <3>3. CASE call[t].at \in Running
      <4>1. StateOf(call[t].at) = "running"
        BY <3>3 DEF StateOf, Running
      <4> QED
        BY <2>1, <3>2, <4>1
    <3>4. CASE call[t].at = "undoing"
      <4>1. call[t] = Answered("undoing", Absent)
        BY <2>2, <3>4 DEF Placed, Running
      <4>2. Shown(call[t]) = Atomic!Answered("failed", Absent)
        BY <4>1, ShownAnswered DEF StateOf
      <4>3. StateOf(call[t].at) = "failed"
        BY <3>4 DEF StateOf
      <4> QED
        BY <2>1, <3>2, <4>2, <4>3
    <3> QED
      BY <2>2, <2>4, <3>3, <3>4 DEF Stages
  <2> QED
    BY <2>3, <2>4
<1>3. shown' = [t \in Tasks |-> IF shown[t].state = "running" THEN Atomic!Answered("failed", Absent)
                                ELSE shown[t]]
  <2>1. shown' = [t \in Tasks |-> Shown(call'[t])]
    BY DEF shown, Shown, StateOf
  <2> QED
    BY <1>2, <2>1
<1>4. Atomic!Stop
  BY <1>1, <1>3 DEF Atomic!Stop, shown, Shown, StateOf
<1> QED
  BY <1>4 DEF UnitsStep, Atomic!Next

\* What an operation returns when its last unit was a statement of its own: only
\* findProposal reads, and it reads the aggregate.
LEMMA ReadByFind ==
    ASSUME Inv, NEW t \in Tasks, call[t].at \in Running, IsAlone(Unit(t)),
           Statement(t) = Unit(t).statements[1], NEW v
    PROVE  (IF Statement(t).kind = "read" THEN v[Statement(t).table] ELSE Absent)
             = IF call[t].op = "findProposal" THEN v["aggregate"] ELSE Absent
<1> DEFINE u == Unit(t)
           R == Single("content", Read("aggregate"))
<1>1. call[t].op = "findProposal" <=> u = R
  BY Standing, UnitShapes DEF Inv, Unit
<1>2. PICK db \in Databases : \E s \in Autocommitted(db) : u = Single(db, s)
  BY DEF IsAlone
<1>3. PICK s \in Autocommitted(db) : u = Single(db, s)
  BY <1>2
<1> HIDE DEF u
<1>4. u.statements = <<s>>
  BY <1>3, SingleFields
<1>5. Statement(t) = s
  BY <1>4 DEF u
<1>6. s.kind = "read" => db = "content" /\ s = Read("aggregate")
  BY TouchedBy DEF Databases, Autocommitted
<1>7. u = R => s = Read("aggregate")
  BY <1>3, SingleOnce
<1>8. Read("aggregate").kind = "read" /\ Read("aggregate").table = "aggregate"
  BY TouchedBy
<1>9. CASE s.kind = "read"
  <2>1. u = R /\ s = Read("aggregate")
    BY <1>3, <1>6, <1>9
  <2> QED
    BY <1>1, <1>5, <1>8, <2>1
<1>10. CASE s.kind # "read"
  <2>1. u # R
    BY <1>7, <1>8, <1>10
  <2> QED
    BY <1>1, <1>5, <1>10, <2>1
<1> QED
  BY <1>9, <1>10

\* A transaction belongs to an operation that returns nothing.
LEMMA NotFind ==
    ASSUME Inv, NEW t \in Tasks, call[t].at \in Running, Unit(t).tx
    PROVE  call[t].op # "findProposal"
<1> SUFFICES ASSUME call[t].op = "findProposal" PROVE FALSE
  OBVIOUS
<1>1. Unit(t) = Single("content", Read("aggregate"))
  BY Standing, UnitShapes DEF Inv, Unit
<1>2. Single("content", Read("aggregate")).tx = FALSE
  BY SingleFields
<1> QED
  BY <1>1, <1>2

\* What a caller does on its connection is a step of its unit or is not seen.
LEMMA OnRefines ==
    ASSUME Inv, NEW t \in Tasks, NEW c \in Connections, using[t] = c, On(t, c)
    PROVE  UnitsStep
<1>0. Absent \in Values /\ rows \in [Tables -> Values] /\ Placed(call[t])
  BY DEF Values, Inv, Grounds
<1>1. CASE Execute(t, c)
  <2> DEFINE s == [call[t] EXCEPT !.statement = @ + 1]
  <2>1. call[t].at = "open" /\ call' = [call EXCEPT ![t] = s]
    BY <1>1 DEF Execute
  <2>2. c \in open /\ call[t] \in CallRecord
    BY <1>0, <2>1 DEF Inv, Writing, Placed
  <2>3. UNCHANGED rows
    BY <1>1, <2>2 DEF Execute, Run
  <2>4. Shown(s) = Shown(call[t])
    BY <2>2 DEF Shown, CallRecord
  <2> HIDE DEF s
  <2> QED
    BY <2>1, <2>3, <2>4, Unseen
<1>2. CASE Commit(t, c)
  <2>1. call[t].at = "open" /\ call[t].at \in Running /\ Effect(t)
    BY <1>2, CommitKeeps DEF Commit, Running
  <2>2. CASE Advance(t, Absent)
    <3>1. call[t].op # "findProposal"
      BY <1>0, <2>1, NotFind DEF Placed, Unit, UnitOf
    <3> QED
      BY <1>0, <2>1, <2>2, <3>1, Applied
  <2>3. CASE call' = [call EXCEPT ![t] = Undoing]
    BY <2>1, <2>3, Rejected DEF Undoing
  <2> QED
    BY <1>2, <2>2, <2>3 DEF Commit
<1>3. CASE Rollback(t, c)
  <2> DEFINE s == Answered("failed", Absent)
  <2>1. call[t].at = "undoing" /\ call' = [call EXCEPT ![t] = s] /\ UNCHANGED rows
    BY <1>3 DEF Rollback
  <2>2. call[t] = Answered("undoing", Absent)
    BY <1>0, <2>1 DEF Placed, Running
  <2>3. Shown(s) = Shown(call[t])
    BY <2>2, ShownAnswered DEF StateOf
  <2> HIDE DEF s
  <2> QED
    BY <2>1, <2>3, Unseen
<1>4. CASE RunAlone(t, c)
  <2> DEFINE read == IF Statement(t).kind = "read" THEN View(c)[Statement(t).table] ELSE Absent
  <2>1. /\ call[t].at = "granted" /\ call[t].at \in Running /\ Effect(t) /\ Advance(t, read)
        /\ Ready(t, c) /\ Run(t, c)
    BY <1>4, RunAloneKeeps DEF RunAlone, Running
  <2>2. View(c) = rows /\ IsAlone(Unit(t)) /\ Statement(t) = Unit(t).statements[1]
    BY <2>1, AloneTakesEffect
  <2>3. read = IF call[t].op = "findProposal" THEN rows["aggregate"] ELSE Absent
    BY <2>1, <2>2, ReadByFind
  <2> HIDE DEF read
  <2>4. read \in Values
    BY <1>0, <2>3 DEF Tables, ProposalContent
  <2> QED
    BY <2>1, <2>3, <2>4, Applied
<1>5. CASE AloneFails(t, c)
  <2>1. /\ call[t].at \in Running /\ call' = [call EXCEPT ![t] = Answered("failed", Absent)]
        /\ UNCHANGED rows \/ Effect(t)
    BY <1>5, AloneFailsKeeps DEF AloneFails, Running
  <2> QED
    BY <2>1, Rejected
<1> QED
  BY <1>1, <1>2, <1>3, <1>4, <1>5 DEF On

\* A unit of SQLite's catalog is a step of the abstract specification.
LEMMA ProjectRefines == ASSUME Inv, NEW t \in Tasks, Project(t) PROVE UnitsStep
<1>1. call[t].at = "between" /\ call[t].at \in Running /\ Absent \in Values
  BY DEF Project, Running, Values
<1>2. CASE rows' = AfterUnit(rows, Unit(t), call[t].content) /\ Advance(t, Absent)
  <2>1. Effect(t) /\ Unit(t) \in Transactions
    BY <1>1, <1>2, ProjectionTakesEffect
  <2>2. call[t].op # "findProposal"
    BY <1>1, <2>1, TransactionShapes, NotFind
  <2> QED
    BY <1>1, <1>2, <2>1, <2>2, Applied
<1>3. CASE call' = [call EXCEPT ![t] = Answered("failed", Absent)] /\ UNCHANGED rows
  BY <1>1, <1>3, Rejected
<1> QED
  BY <1>2, <1>3 DEF Project

\* Getting a connection is not seen.
LEMMA GrantRefines ==
    ASSUME Inv, NEW t \in Tasks, NEW c \in Connections, Grant(t, c)
    PROVE  UnitsStep
<1> DEFINE at == IF Unit(t).tx THEN "open" ELSE "granted"
           s == [call[t] EXCEPT !.at = at]
<1>1. /\ queue # <<>> /\ Head(queue) = t /\ UNCHANGED rows /\ call' = [call EXCEPT ![t] = s]
  BY DEF Grant
<1>2. call[t].at = "queued"
  <2>1. Len(queue) \in Nat /\ 1 \in 1 .. Len(queue) /\ queue[1] = t
    BY <1>1 DEF Inv, Waiting
  <2> QED
    BY <2>1 DEF Inv, Waiting
<1>3. at \in {"open", "granted"} /\ at \in Stages
  BY DEF Stages, Running
<1> HIDE DEF at
<1>4. /\ s.at = at /\ s.op = call[t].op /\ s.content = call[t].content /\ s.unit = call[t].unit
      /\ s.seen = call[t].seen
  BY <1>3, StageOnly DEF Inv
<1>5. StateOf(s.at) = StateOf(call[t].at)
  BY <1>2, <1>3, <1>4 DEF StateOf
<1> HIDE DEF s
<1>6. Shown(s) = Shown(call[t])
  BY <1>4, <1>5 DEF Shown
<1> QED
  BY <1>1, <1>6, Unseen

\* A transaction that fails is seen to fail.
LEMMA FailureRefines == ASSUME Inv, NEW t \in Tasks, TransactionFails(t) PROVE UnitsStep
<1>1. call[t].at \in Running /\ call' = [call EXCEPT ![t] = Answered("undoing", Absent)]
      /\ UNCHANGED rows
  BY DEF TransactionFails, Undoing, Running
<1> QED
  BY <1>1, Rejected

\* The initial states are initial for the abstract specification.
LEMMA UnitsInitial == Init => Atomic!Init
<1> SUFFICES ASSUME Init PROVE Atomic!Init
  OBVIOUS
<1>1. \A t \in Tasks : call[t] = Answered("ok", Absent)
  BY DEF Init
<1>2. Shown(Answered("ok", Absent)) = Atomic!Answered("ok", Absent)
  BY ShownAnswered DEF StateOf
<1>3. shown = [t \in Tasks |-> Atomic!Answered("ok", Absent)]
  BY <1>1, <1>2 DEF shown
<1>4. rows = [t \in Atomic!Tables |-> Absent]
  BY SamePrograms DEF Init
<1> QED
  BY <1>3, <1>4 DEF Atomic!Init, shown, Shown, StateOf

\* However statements, transactions, failures and stops of concurrent callers
\* interleave, every unit takes effect as a whole or not at all, and an operation
\* that returned has had all of its effect.
THEOREM UnitsRefined == Spec => UnitsAreAtomic
<1>1. ASSUME Inv, [Next]_vars PROVE [Atomic!Next]_(Atomic!vars)
  <2>1. UnitsStep => [Atomic!Next]_(Atomic!vars)
    BY DEF UnitsStep, Atomic!vars, shown, Shown, StateOf
  <2>2. CASE Next
    BY <1>1, <2>1, <2>2, StepOf, Stopped, Begun, FailureRefines, ProjectRefines, GrantRefines,
       OnRefines
  <2>3. CASE UNCHANGED vars
    <3>1. UNCHANGED <<rows, shown>>
      BY <2>3 DEF vars, shown, Shown, StateOf
    <3> QED
      BY <2>1, <3>1 DEF UnitsStep
  <2> QED
    BY <1>1, <2>2, <2>3
<1>2. Inv /\ [Next]_vars => [Atomic!Next]_(Atomic!vars)
  BY <1>1
<1> QED
  BY <1>2, Invariant, UnitsInitial, PTL DEF Spec, UnitsAreAtomic, Atomic!Spec
=============================================================================
