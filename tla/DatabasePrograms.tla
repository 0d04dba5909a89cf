-------------------------- MODULE DatabasePrograms --------------------------
(***************************************************************************)
(* What the database-backed adapters send to the database, per operation.  *)
(*                                                                         *)
(* An operation of the repository, the catalog or the search index is a    *)
(* sequence of units; a unit is one autocommitted statement or one         *)
(* transaction of several.  Only the tables the operations share and the   *)
(* order of their statements are kept: a table stands for the rows one     *)
(* proposal (or one skill version) has in it, a row's columns are one      *)
(* member of Contents.                                                     *)
(***************************************************************************)
EXTENDS Naturals, Sequences

CONSTANTS Contents,   \* what a save may write
          Published,  \* the content of the published version: it does not change
          Absent      \* no row

ASSUME ContentAssumption == Published \in Contents /\ Absent \notin Contents

ProposalContent == {"aggregate", "file", "extract"}
ProposalListing == {"listed", "listedFile", "judgement"}
SkillListing    == {"skillFile", "tag", "version"}
SearchIndex     == {"document", "documentTag"}

Tables == ProposalContent \cup {"skill"} \cup ProposalListing
            \cup SkillListing \cup SearchIndex

Values == Contents \cup {Absent}

Read(table)   == [kind |-> "read",   table |-> table]
Put(table)    == [kind |-> "put",    table |-> table]   \* insert or update
Insert(table) == [kind |-> "insert", table |-> table]   \* insert only
Delete(table) == [kind |-> "delete", table |-> table]

Single(db, statement)       == [db |-> db, tx |-> FALSE, statements |-> <<statement>>]
Transaction(db, statements) == [db |-> db, tx |-> TRUE,  statements |-> statements]

(***************************************************************************)
(* The units of the catalog and the search index.                          *)
(***************************************************************************)
UpsertProposal ==
    Transaction("catalog", << Put("listed"), Delete("listedFile"), Delete("judgement"),
                              Put("listedFile"), Insert("judgement") >>)

\* Mutant: relies on foreign keys for the judgements too.
DeleteListingOnly ==
    Transaction("catalog", << Delete("listed"), Delete("listedFile") >>)

DeleteListing ==
    Transaction("catalog", << Delete("listed"), Delete("listedFile"), Delete("judgement") >>)

UpsertSkill ==
    Transaction("catalog", << Delete("skillFile"), Delete("tag"), Delete("version"),
                              Insert("version"), Insert("tag"), Put("skillFile") >>)

IndexVersion ==
    Transaction("search", << Put("document"), Delete("documentTag"), Insert("documentTag") >>)

(***************************************************************************)
(* The operations.  rebuild and reindexAll clear their tables with one     *)
(* autocommitted statement each.                                           *)
(***************************************************************************)
Rebuild ==
    << Single("catalog", Delete("skillFile")), Single("catalog", Delete("tag")),
       Single("catalog", Delete("version")), UpsertSkill >>

ReindexAll ==
    << Single("search", Delete("document")), Single("search", Delete("documentTag")),
       Single("search", Put("document")), Single("search", Insert("documentTag")) >>

DeleteProposal ==
    << Transaction("content", << Delete("aggregate"), Delete("file"), Delete("extract") >>),
       DeleteListing >>

Program ==
    [ findProposal   |-> << Single("content", Read("aggregate")) >>,
      saveProposal   |-> << Single("content", Put("aggregate")), UpsertProposal >>,
      storeFile      |-> << Single("content", Put("file")) >>,
      storeExtract   |-> << Single("content", Put("extract")) >>,
      deleteProposal |-> DeleteProposal,
      saveSkill      |-> << Single("content", Put("skill")), UpsertSkill >>,
      rebuild        |-> Rebuild,
      indexVersion   |-> << IndexVersion >>,
      removeVersion  |-> << Single("search", Delete("document")) >>,
      reindexAll     |-> ReindexAll ]

Operations == DOMAIN Program

\* What an operation may be called with.
Saves == {"saveProposal", "saveSkill"}

ContentsOf(op) == IF op \in Saves THEN Contents ELSE {Published}

(***************************************************************************)
(* What a statement does to the rows it sees: the schema's foreign keys    *)
(* reject a child without its parent and delete children with it.          *)
(***************************************************************************)
Parent == [ listedFile |-> "listed", skillFile |-> "version", tag |-> "version",
            documentTag |-> "document" ]

Touched(s) ==
    {s.table} \cup IF s.kind = "delete" THEN {t \in DOMAIN Parent : Parent[t] = s.table}
                                        ELSE {}

Accepts(v, s) ==
    /\ s.kind = "insert" => v[s.table] = Absent
    /\ s.kind \in {"put", "insert"} /\ s.table \in DOMAIN Parent => v[Parent[s.table]] # Absent

Writes(s, t) == s.kind # "read" /\ t \in Touched(s)

After(v, s, c) ==
    [t \in Tables |-> IF ~Writes(s, t) THEN v[t]
                      ELSE IF s.kind = "delete" THEN Absent ELSE c]

\* The last of the first n statements of a unit that writes a row, if any does.
LastWrites(u, n, t) ==
    {i \in 1 .. n : /\ Writes(u.statements[i], t)
                    /\ \A j \in (i + 1) .. n : ~Writes(u.statements[j], t)}

\* The first n statements one after the other, each seeing what those before it left.
AfterFirst(v, u, c, n) ==
    [t \in Tables |->
        IF LastWrites(u, n, t) = {} THEN v[t]
        ELSE IF \E i \in LastWrites(u, n, t) : u.statements[i].kind = "delete" THEN Absent
        ELSE c]

AfterUnit(v, u, c) == AfterFirst(v, u, c, Len(u.statements))

Applicable(v, u, c) ==
    \A n \in 1 .. Len(u.statements) : Accepts(AfterFirst(v, u, c, n - 1), u.statements[n])
=============================================================================
