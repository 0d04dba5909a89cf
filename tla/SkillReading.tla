---------------------------- MODULE SkillReading ----------------------------
(***************************************************************************)
(* The readers of one skill, composed with the handlers that change it: a  *)
(* step of SkillRegistry may come between any two reads of a request.  A   *)
(* read is an awaited query of the catalog, the search index, the stored   *)
(* aggregate or the artifact storage; nothing ties the reads of a request  *)
(* together but the version it has settled on.                             *)
(*                                                                         *)
(* A content is the set of the paths it has; versions with different       *)
(* contents differ in every file.  A read whose result decides nothing (the *)
(* version summaries of a package) is left out, and so is what follows the *)
(* reading of an artifact: scanning it, probing it, keeping its text.      *)
(***************************************************************************)
EXTENDS SkillRegistry

CONSTANTS
    Readers,        \* the read requests that may be in flight
    Paths           \* the relative paths of artifacts

ASSUME ReadingAssumption == Contents \subseteq (SUBSET Paths) \ {{}}

VARIABLES
    reader,     \* what every reader is doing
    replaced    \* the versions whose artifacts were overwritten with others

registry == <<yaml, rows, files, index, judged, audit, handler, faults, cut>>
allVars == <<registry, reader, replaced>>

Latest == 0     \* the version of a request that names none

Open == [stage |-> "idle", op |-> "none", version |-> Latest, staff |-> FALSE,
         listing |-> NoContent, todo |-> {}, got |-> {}, shown |-> {}, steady |-> FALSE]

ReadingInit ==
    /\ Init
    /\ reader = [r \in Readers |-> Open]
    /\ replaced = {}

-----------------------------------------------------------------------------
(* What the queries return *)

Last(vs) == CHOOSE v \in vs : \A u \in vs : u <= v

Visible(skill, staff) == IF staff THEN Existing(skill) ELSE Published(skill)

\* Mutant: a query for a version does not look at its status.
SettledWhateverStatus(skill, v, staff) ==
    IF v = Latest THEN {u \in Visible(skill, staff) : u = Last(Visible(skill, staff))}
                  ELSE Existing(skill) \cap {v}

\* The versions a request may settle on in a copy of the aggregate: none, or one.
Settled(skill, v, staff) ==
    IF v = Latest THEN {u \in Visible(skill, staff) : u = Last(Visible(skill, staff))}
                  ELSE Visible(skill, staff) \cap {v}

\* What a request that names no version or this one may expect to find.
Standing(v, catalog, overwritten) ==
    IF v = Latest THEN Published(catalog) # {}
                  ELSE v \in Published(catalog) \ overwritten

-----------------------------------------------------------------------------
(* A request begins, goes on and ends *)

Unversioned == {"list", "versions", "search", "detail"}
ForStaff == {"view"}
ForBoth == {"detail", "text"}
ForPublic == {"package", "file", "manifest", "list", "versions", "search"}

FirstRead(op) ==
    CASE op \in {"package", "file", "manifest"}             -> "resolve"
      [] op \in {"list", "versions"}                        -> "look"
      [] op = "search"                                      -> "search"
      [] op = "detail"                                      -> "latest"
      [] op \in {"text", "view"}                          -> "find"

Ended == {"idle", "answered", "refused"}

Offered(staff) == ForBoth \cup IF staff THEN ForStaff ELSE ForPublic

\* A request for one file names it; a package's files are listed first.
Ask(r, op, v, staff) ==
    /\ reader[r].stage \in Ended
    /\ op \in Unversioned => v = Latest
    /\ \E wanted \in IF op = "file" THEN {{p} : p \in Paths} ELSE {{}} :
          reader' = [reader EXCEPT ![r] =
              [Open EXCEPT !.stage = FirstRead(op), !.op = op, !.version = v,
                           !.staff = staff, !.todo = wanted,
                           !.steady = ~staff /\ Standing(v, rows, replaced)]]

GoOn(r, stage) == reader' = [reader EXCEPT ![r].stage = stage]

SettleOn(r, v, stage) ==
    reader' = [reader EXCEPT
        ![r].stage = stage,
        ![r].version = v,
        ![r].steady = IF reader[r].version = Latest
                      THEN ~reader[r].staff /\ Standing(v, rows, replaced) ELSE @]

Answer(r, seen) ==
    reader' = [reader EXCEPT ![r] =
        [Open EXCEPT !.stage = "answered", !.shown = IF reader[r].staff THEN {} ELSE seen]]

Refuse(r) == reader' = [reader EXCEPT ![r] = [Open EXCEPT !.stage = "refused"]]

-----------------------------------------------------------------------------
(* Manifests and downloads: settle on a version, list its files, fetch them *)
(* one after the other                                                      *)

Resolve(r) ==
    LET found == Settled(rows, reader[r].version, FALSE)
    IN
    /\ reader[r].stage = "resolve"
    /\ \/ found = {} /\ Refuse(r)
       \/ reader[r].op = "manifest" /\ found # {} /\ Answer(r, found)
       \/ reader[r].op = "package" /\ \E v \in found : SettleOn(r, v, "confirm")
       \/ reader[r].op = "file" /\ \E v \in found : SettleOn(r, v, "file_confirm")

\* listFiles asks again whether the version is published, and then for its files.
ConfirmListing(r) ==
    /\ reader[r].stage = "confirm"
    /\ IF Settled(rows, reader[r].version, FALSE) = {} THEN Refuse(r) ELSE GoOn(r, "list")

ListFiles(r) ==
    LET v == reader[r].version
    IN
    /\ reader[r].stage = "list"
    /\ IF v \in Existing(rows)
       THEN reader' = [reader EXCEPT ![r].stage = "file_confirm",
                                     ![r].listing = rows[v].digest,
                                     ![r].todo = rows[v].digest]
       ELSE Refuse(r)

\* Mutant: files are fetched from what is the latest version by then.
FetchedLatest(r) ==
    IF Published(rows) = {} THEN reader[r].version ELSE Last(Published(rows))

\* Mutant: only the newest version can be fetched.
FetchedNewest(r) ==
    IF Existing(rows) = {} THEN reader[r].version ELSE Last(Existing(rows))

\* Every file of a package is asked for with the version settled on.
Fetched(r) == reader[r].version

NextFile(r) == CHOOSE p \in reader[r].todo : TRUE

\* getFile asks a third time.
ConfirmFile(r) ==
    /\ reader[r].stage = "file_confirm"
    /\ IF Settled(rows, Fetched(r), FALSE) = {} THEN Refuse(r) ELSE GoOn(r, "file_list")

FindFile(r) ==
    LET v == Fetched(r)
    IN
    /\ reader[r].stage = "file_list"
    /\ IF v \in Existing(rows) /\ NextFile(r) \in rows[v].digest
       THEN GoOn(r, "file_read") ELSE Refuse(r)

\* One missing file refuses the whole package.
ReadFile(r) ==
    LET content == files[Fetched(r)]
        left == reader[r].todo \ {NextFile(r)}
    IN
    /\ reader[r].stage = "file_read"
    /\ IF content = NoContent \/ NextFile(r) \notin content THEN Refuse(r)
       ELSE reader' = [reader EXCEPT
                ![r].got = @ \cup {content},
                ![r].todo = left,
                ![r].shown = {reader[r].version},
                ![r].stage = IF left = {} THEN "answered" ELSE "file_confirm"]

-----------------------------------------------------------------------------
(* Lists, details and search *)

Look(r) ==
    /\ reader[r].stage = "look"
    /\ Answer(r, IF reader[r].op = "versions" THEN Published(rows)
                                              ELSE Settled(rows, Latest, FALSE))

\* A detail shows the latest version with a list of versions read after it.
ReadLatest(r) ==
    LET found == Settled(rows, Latest, reader[r].staff)
    IN
    /\ reader[r].stage = "latest"
    /\ IF found = {} THEN Refuse(r)
       ELSE reader' = [reader EXCEPT ![r].stage = "all", ![r].shown = found]

ReadVersions(r) ==
    /\ reader[r].stage = "all"
    /\ Answer(r, reader[r].shown \cup Visible(rows, reader[r].staff))

\* Of the skill's documents that match the query, the best one is taken.
SearchIndex(r) ==
    /\ reader[r].stage = "search"
    /\ \/ Answer(r, {})
       \/ \E v \in index :
            reader' = [reader EXCEPT ![r].stage = "hit", ![r].version = v]

\* A hit is shown as the latest published version or, when there is none any
\* more, as the version the index named.
ShowHit(r) ==
    /\ reader[r].stage = "hit"
    /\ Answer(r, IF Published(rows) = {} THEN {reader[r].version}
                                         ELSE Settled(rows, Latest, FALSE))

-----------------------------------------------------------------------------
(* Text extraction, probing and the administrators' view of a file *)

Find(r) ==
    LET found == Settled(rows, reader[r].version, reader[r].staff)
    IN
    /\ reader[r].stage = "find"
    /\ IF found = {} THEN GoOn(r, "find_again")
                     ELSE \E v \in found : SettleOn(r, v, "read")

\* What the catalog does not have is looked for in the stored aggregate; the
\* view of a file loads the skill as a command does.
FindAgain(r) ==
    LET skill == IF reader[r].op = "view" THEN LoadedSkill ELSE yaml
        found == Settled(skill, reader[r].version, reader[r].staff)
    IN
    /\ reader[r].stage = "find_again"
    /\ IF found = {} THEN Refuse(r) ELSE \E v \in found : SettleOn(r, v, "read")

ReadArtifact(r) ==
    /\ reader[r].stage = "read"
    /\ IF files[reader[r].version] = NoContent THEN Refuse(r)
                                               ELSE Answer(r, {reader[r].version})

-----------------------------------------------------------------------------
Read(r) ==
    \/ \E staff \in BOOLEAN, v \in {Latest} \cup Versions :
          \E op \in Offered(staff) : Ask(r, op, v, staff)
    \/ Resolve(r) \/ ConfirmListing(r) \/ ListFiles(r)
    \/ ConfirmFile(r) \/ FindFile(r) \/ ReadFile(r)
    \/ Look(r) \/ ReadLatest(r) \/ ReadVersions(r)
    \/ SearchIndex(r) \/ ShowHit(r)
    \/ Find(r) \/ FindAgain(r) \/ ReadArtifact(r)

\* A step of the registry; readers notice nothing of it until their next read.
Change ==
    /\ Next
    /\ replaced' = replaced \cup
          {v \in Versions : files[v] # NoContent /\ files'[v] # files[v]}
    /\ reader' = [r \in Readers |-> [reader[r] EXCEPT
          !.steady = @ /\ Standing(reader[r].version, rows', replaced')]]

ReadingNext ==
    \/ Change
    \/ \E r \in Readers : Read(r) /\ UNCHANGED <<registry, replaced>>

ReadingSpec == ReadingInit /\ [][ReadingNext]_allVars

-----------------------------------------------------------------------------
(* Properties *)

\* Whatever a request of the public shows was published by somebody, and the
\* audit log says so or is about to: however its reads fall between the writes
\* of the handlers, wherever the version was found - in the catalog, in the
\* search index or in the stored aggregate (Skill.spec.md).
ShownWasPublished ==
    \A r \in Readers :
        ~reader[r].staff => \A v \in reader[r].shown : AuditedOrPending(v, "publish")

\* The files of a package are those of one version as that version was listed,
\* though each is fetched by a request of its own; unless its artifacts were
\* overwritten (buildSkillPackageBuffer of skill-read.controller.ts).
PackageIsOneVersion ==
    \A r \in Readers :
        reader[r].op = "package" /\ reader[r].version \notin replaced =>
            \A content \in reader[r].got : content = reader[r].listing

\* The public is refused only for cause: what it asked for was not published, or
\* was overwritten, at some moment since it asked, or the file is not one of the
\* version (resolvePublishedCatalogVersion asks again at every read).
RefusedForCause ==
    [][\A r \in Readers :
          reader[r].stage \notin Ended /\ reader'[r].stage = "refused" =>
              \/ ~reader[r].steady
              \/ /\ reader[r].op = "file"
                 /\ ~(reader[r].todo \subseteq rows[reader[r].version].digest)]_allVars
=============================================================================
