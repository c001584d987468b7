------------------------------ MODULE Library -------------------------------
(***************************************************************************)
(* The GGUF files of LM Studio's library (internal/models/models.go) and    *)
(* the one that a model handle stands for.                                  *)
(***************************************************************************)
EXTENDS Integers, FiniteSets

CONSTANTS
  Gguf,     \* files: their id, is it a projector, which shard (0: not split)
  Contains  \* <<id, h>>: the id has the handle h in it, case ignored

\* Projectors and the shards past the first are not models.
Discover == {g.id : g \in {f \in Gguf : ~f.mmproj /\ f.shard <= 1}}

\* The model of that id, else the only one whose id has the handle in it.
Find(h) ==
  LET matches == {m \in Discover : <<m, h>> \in Contains}
  IN  IF h \in Discover THEN {h}
      ELSE IF Cardinality(matches) = 1 THEN matches ELSE {}
=============================================================================
