--------------------------- MODULE MCServiceControl ---------------------------
(* Small instances of ServiceControl for TLC. *)
EXTENDS ServiceControl, TLC

\* A catalog from before any history of migrations; one that the earlier migration
\* system has recorded, where indexes are replaced under their foreign keys.
Found(d, s, h, l) == [database |-> d, schema |-> s, history |-> h, legacy |-> l]
Unversioned(d) == Found(d, {"tables", "parity"}, NoTable, {})
Versioned(d) == Found(d, {"tables", "reuse", "parity"}, NoTable, {"baseline", "addReuse"})

SomeCatalogs == {Versioned("mysql"), Unversioned("sqlite")}

Interchangeable == Permutations(Processes) \cup Permutations(Scripts)
=============================================================================
