---------------------- MODULE MCSqliteArchiveRefinement ----------------------
(* The refinement of SharedStore on the small instances. *)
EXTENDS MCSqliteArchive, SqliteArchiveRefinement, TLC

\* Paths and contents are only compared.
Alike == Permutations({p, q}) \cup Permutations({x, y})
=============================================================================
