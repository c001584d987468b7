------------------------------ MODULE Backends ------------------------------
(***************************************************************************)
(* The llama.cpp builds that LM Studio has downloaded                       *)
(* (internal/backends/backends.go): what a scan of its directory finds and  *)
(* which build a variant stands for.                                       *)
(*                                                                         *)
(* A directory is a record: tokens, the variant names that occur in its     *)
(* name ("cuda12" brings "cuda" with it); version, its numbers; server, the *)
(* server's file ("none", "stub" when empty, "file"); core, is the ggml core *)
(* library there?                                                          *)
(***************************************************************************)
EXTENDS Integers, Sequences, FiniteSets

\* parseDirName: the first of the cases that applies, "cpu" when none does
VariantOf(dir) ==
  LET cases == <<"cuda12", "cuda", "rocm", "vulkan", "cpu">>
      Applies(k) == cases[k] \in dir.tokens \cup {"cpu"}
  IN  cases[CHOOSE k \in 1 .. 5 : Applies(k) /\ \A j \in 1 .. k - 1 : ~Applies(j)]

\* Not a 0-byte stub, and not a shim without the library that it loads.
Runnable(dir) == dir.server = "file" /\ dir.core

\* A missing part counts as 0.
Part(v, k) == IF k <= Len(v) THEN v[k] ELSE 0

\* Mutant of Newer: the comparison ends with the shorter version.
NewerPrefix(v, w) ==
  \E k \in 1 .. Len(v) : /\ k <= Len(w) /\ v[k] > w[k]
                         /\ \A j \in 1 .. k - 1 : v[j] = w[j]

\* cmpVersion(v, w) > 0: the first part that differs decides
Newer(v, w) ==
  \E k \in 1 .. Len(v) : /\ Part(v, k) > Part(w, k)
                         /\ \A j \in 1 .. k - 1 : Part(v, j) = Part(w, j)

\* Latest, over what Discover has sorted: the first of the variant that runs.
\* sort.Slice is not stable: of two equally new ones either may come first.
Latest(dirs, variant) ==
  LET runs == {d \in dirs : VariantOf(d) = variant /\ Runnable(d)}
  IN  {d \in runs : \A e \in runs : ~Newer(e.version, d.version)}
=============================================================================
