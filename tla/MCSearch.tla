------------------------------ MODULE MCSearch ------------------------------
(***************************************************************************)
(* TLC instance of Search: two evidence rows of different documents, so    *)
(* that one scope alone may fill pages and a filter may split it, and one  *)
(* row or none of every other table.                                       *)
(***************************************************************************)
EXTENDS Search

CONSTANTS d1, d2

Entry(type, uid, owner) == [type |-> type, uid |-> uid, owner |-> owner]

MCEntries ==
  { Entry("evidence", 2, d1), Entry("evidence", 1, d2), Entry("chunk", 1, d1),
    Entry("document", 3, d2), Entry("curated", 1, Project),
    Entry("project", 1, Project) }
=============================================================================
