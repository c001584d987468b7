------------------------------- MODULE MCFold -------------------------------
(* Instances of Fold for TLC: every conversation of a few messages. *)
EXTENDS Fold

CONSTANT MaxLen

\* what a message can be, with its number of blocks
Kinds == {<<"system", "list", 0>>, <<"system", "list", 2>>, <<"system", "string", 1>>,
          <<"system", "other", 0>>, <<"user", "list", 1>>, <<"user", "string", 1>>,
          <<"user", "absent", 0>>, <<"user", "other", 0>>, <<"assistant", "list", 1>>,
          <<"none", "other", 0>>, <<"unreadable", "absent", 0>>}

\* the k-th block of the j-th message is 10 * j + k
Blocks == {10 * j + k : j \in 1 .. MaxLen, k \in 1 .. 2}

Conversations ==
  LET Build(ks) == [j \in 1 .. Len(ks) |->
                      [role |-> ks[j][1], shape |-> ks[j][2],
                       blocks |-> [k \in 1 .. ks[j][3] |-> 10 * j + k]]]
  IN  {Build(ks) : ks \in UNION {[1 .. n -> Kinds] : n \in 0 .. MaxLen}}
=============================================================================
