------------------------- MODULE MCContentDatabase -------------------------
EXTENDS ContentDatabase

\* The operations that share tables, against each other.
SomeWorkloads ==
    { {"findProposal", "saveProposal", "storeFile", "deleteProposal"},
      {"saveSkill", "rebuild"},
      {"indexVersion", "removeVersion", "reindexAll"} }
=============================================================================
