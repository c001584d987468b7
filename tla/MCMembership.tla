---------------------------- MODULE MCMembership ----------------------------
(* Instances of Membership for TLC. *)
EXTENDS Membership

\* Two contributors, or one contributor and one reader, or one contributor and
\* a node token without an address.  With two nodes the order of the names
\* decides nothing, so the mirror images are left out.
TwoOrOne == {<<"node", "node">>, <<"user", "node">>, <<"mute", "node">>}
=============================================================================
