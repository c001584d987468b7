---------------------------- MODULE MCFederation ----------------------------
(* Instances of Federation for TLC. *)
EXTENDS Federation, TLC

CONSTANTS n1, n2, n3

\* n1 lists n2 then n3, n2 lists n1 and n3, n3 is a leaf that lists nobody
Triangle == (n1 :> <<n2, n3>>) @@ (n2 :> <<n1, n3>>) @@ (n3 :> <<>>)
Mutual   == (n1 :> <<n2>>) @@ (n2 :> <<n1>>)

Open     == [n \in Node |-> None]
NoTokens == [n \in Node |-> [p \in Node |-> None]]

\* n3 is gated; n1 has n3's token as a per-peer token, n2 has none for it
GatedLeaf   == [n \in Node |-> IF n = n3 THEN "t" ELSE None]
TokensOfOne  == [n \in Node |-> [p \in Node |-> IF n = n1 /\ p = n3 THEN "t" ELSE None]]

\* handle "qwen" is part of the names and of the IDs
NoMatch  == {}
Matching == {<<"qwen-7b", "qwen">>}
\* handle "x" is part of the name and of the ID of the only model, "m"
NickName == {<<"m", "x">>}
\* two slot names that contain "coder" for models whose IDs do not
Aliases  == {<<"coder-7b", "coder">>, <<"coder-32b", "coder">>}
=============================================================================
