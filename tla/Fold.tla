-------------------------------- MODULE Fold --------------------------------
(***************************************************************************)
(* The rewriting of a /v1/messages body on its way through the router       *)
(* (internal/router/anthropic.go: parseOrdered, blocksOf, foldSystemTurns;  *)
(* internal/router/router.go: proxyByModel): the blocks of every system     *)
(* message move into a user turn, so that a strict chat template accepts    *)
(* the conversation.                                                        *)
(*                                                                         *)
(* The loop over the messages is the state machine; a request that is       *)
(* proxied to a peer goes through the peer's fold as well.  A content block *)
(* is an opaque value, and a message the three things the loop looks at:    *)
(* its role, the shape of its content and the blocks in it.  Keys other     *)
(* than role and content are carried along and left out.                    *)
(***************************************************************************)
EXTENDS Integers, Sequences, FiniteSets

CONSTANTS
  Block,     \* content blocks
  Messages,  \* the message lists that clients send
  None,      \* no message list: the key is missing, or its value is no array
  MaxHops    \* how many routers a request passes

ASSUME HopsAssumption == MaxHops \in Nat \ {0}

VARIABLES
  doc,      \* the body as the client or the previous router sent it
  clear,    \* has the body one reading (no duplicate keys, no trailing data)?
  pc,       \* where the router is: "read", "parse", "loop", "done", "refused"
  i,        \* the message that the loop is at
  out,      \* the messages kept so far
  pending,  \* system blocks that wait for a user turn
  folded,   \* how many system messages were folded
  result,   \* the message list that is forwarded
  hop       \* which router on the way this is

vars == <<doc, clear, pc, i, out, pending, folded, result, hop>>

-----------------------------------------------------------------------------
\* "none" stands for any other role, or none; an "unreadable" message is one
\* that parseOrdered refuses.
Role  == {"system", "user", "assistant", "none", "unreadable"}
Shape == {"list", "string", "absent", "other"}
Message == [role : Role, shape : Shape, blocks : Seq(Block)]

Indices(ms) == 1 .. Len(ms)

\* Block p[2] of message p[1], and the order of the body.
Places(ms) == UNION {{<<n, m>> : m \in 1 .. Len(ms[n].blocks)} : n \in Indices(ms)}
BlockAt(ms, p) == ms[p[1]].blocks[p[2]]
Before(p, q) == p[1] < q[1] \/ (p[1] = q[1] /\ p[2] < q[2])

ASSUME MessagesAssumption == Messages \subseteq Seq(Message) /\ None \notin Seq(Message)

\* Every block of a message list is told apart from the others.
ASSUME BlockAssumption ==
  \A ms \in Messages : \A p, q \in Places(ms) : BlockAt(ms, p) = BlockAt(ms, q) => p = q

\* blocksOf: the list, the one text block a string becomes, or nothing
BlocksOf(m) == m.blocks

\* blocksOf returns an error: "neither a block list nor a string"
Unfoldable(m) == m.shape = "other"

\* set("content", packed)
WithBlocks(m, bs) == [m EXCEPT !.shape = "list", !.blocks = bs]

Users(ms) == {j \in Indices(ms) : ms[j].role = "user"}

\* Mutant of Nearest: the first user turn, not the last.
NearestFirst == CHOOSE j \in Users(out) : \A k \in Users(out) : j <= k

\* the nearest preceding user turn
Nearest == CHOOSE j \in Users(out) : \A k \in Users(out) : k <= j

Init ==
  /\ doc \in Messages \cup {None}
  /\ clear \in BOOLEAN
  /\ pc = "read" /\ hop = 1
  /\ i = 1 /\ out = <<>> /\ pending = <<>> /\ folded = 0
  /\ result = None

-----------------------------------------------------------------------------
\* The body is forwarded as it came.
Unchanged ==
  /\ pc' = "done"
  /\ result' = doc
  /\ folded' = 0
  /\ UNCHANGED <<doc, clear, i, out, pending, hop>>

\* proxyByModel: a body without exactly one reading is refused with 400
Refuse ==
  /\ pc = "read" /\ ~clear
  /\ pc' = "refused"
  /\ UNCHANGED <<doc, clear, i, out, pending, folded, result, hop>>

Accept ==
  /\ pc = "read" /\ clear
  /\ pc' = "parse"
  /\ UNCHANGED <<doc, clear, i, out, pending, folded, result, hop>>

\* There is nothing to fold, or a message cannot be read.
ToFold == /\ doc # None
          /\ \A j \in Indices(doc) : doc[j].role # "unreadable"
          /\ \E j \in Indices(doc) : doc[j].role = "system"

PassThrough == pc = "parse" /\ ~ToFold /\ Unchanged

Parse ==
  /\ pc = "parse" /\ ToFold
  /\ pc' = "loop"
  /\ UNCHANGED <<doc, clear, i, out, pending, folded, result, hop>>

(***************************************************************************)
(* The loop.                                                               *)
(***************************************************************************)
AtMessage == pc = "loop" /\ i <= Len(doc)

Advance == /\ i' = i + 1
           /\ UNCHANGED <<doc, clear, pc, result, hop>>

\* Mutant of FoldBack: the system blocks go in front.
FoldBackInFront ==
  /\ AtMessage /\ doc[i].role = "system" /\ ~Unfoldable(doc[i])
  /\ Users(out) # {} /\ ~Unfoldable(out[Nearest])
  /\ out' = [out EXCEPT ![Nearest] = WithBlocks(@, BlocksOf(doc[i]) \o BlocksOf(@))]
  /\ folded' = folded + 1
  /\ pending' = pending
  /\ Advance

\* a system message after a user turn: its blocks go to the end of that turn
FoldBack ==
  /\ AtMessage /\ doc[i].role = "system" /\ ~Unfoldable(doc[i])
  /\ Users(out) # {} /\ ~Unfoldable(out[Nearest])
  /\ out' = [out EXCEPT ![Nearest] = WithBlocks(@, BlocksOf(@) \o BlocksOf(doc[i]))]
  /\ folded' = folded + 1
  /\ pending' = pending
  /\ Advance

\* a system message before any user turn: its blocks wait
FoldAhead ==
  /\ AtMessage /\ doc[i].role = "system" /\ ~Unfoldable(doc[i])
  /\ Users(out) = {}
  /\ pending' = pending \o BlocksOf(doc[i])
  /\ folded' = folded + 1
  /\ out' = out
  /\ Advance

\* the user turn they wait for
Take ==
  /\ AtMessage /\ doc[i].role = "user" /\ pending # <<>> /\ ~Unfoldable(doc[i])
  /\ out' = Append(out, WithBlocks(doc[i], pending \o BlocksOf(doc[i])))
  /\ pending' = <<>>
  /\ folded' = folded
  /\ Advance

\* any other message is kept as it is
Keep ==
  /\ AtMessage /\ doc[i].role # "system"
  /\ ~(doc[i].role = "user" /\ pending # <<>>)
  /\ out' = Append(out, doc[i])
  /\ UNCHANGED <<pending, folded>>
  /\ Advance

\* blocksOf fails on the message or on the turn to fold into: the whole fold
\* is given up
GiveUp ==
  /\ AtMessage
  /\ \/ doc[i].role = "system" /\ (\/ Unfoldable(doc[i])
                                   \/ Users(out) # {} /\ Unfoldable(out[Nearest]))
     \/ doc[i].role = "user" /\ pending # <<>> /\ Unfoldable(doc[i])
  /\ Unchanged

UserTurn(bs) == [role |-> "user", shape |-> "list", blocks |-> bs]

\* Mutant of Finish: the blocks left over become a system turn.
FinishSystem ==
  /\ pc = "loop" /\ i > Len(doc)
  /\ pc' = "done"
  /\ result' = IF pending = <<>> THEN out
               ELSE Append(out, [UserTurn(pending) EXCEPT !.role = "system"])
  /\ UNCHANGED <<doc, clear, i, out, pending, folded, hop>>

\* after the loop: blocks still waiting become a user turn of their own
Finish ==
  /\ pc = "loop" /\ i > Len(doc)
  /\ pc' = "done"
  /\ result' = IF pending = <<>> THEN out ELSE Append(out, UserTurn(pending))
  /\ UNCHANGED <<doc, clear, i, out, pending, folded, hop>>

\* The request was routed to a peer, whose router reads what this one wrote.
NextHop ==
  /\ pc = "done" /\ hop < MaxHops
  /\ hop' = hop + 1
  /\ doc' = result
  /\ pc' = "read"
  /\ i' = 1 /\ out' = <<>> /\ pending' = <<>> /\ folded' = 0
  /\ result' = None
  /\ clear' = clear

Next == \/ Refuse \/ Accept \/ PassThrough \/ Parse
        \/ FoldBack \/ FoldAhead \/ Take \/ Keep \/ GiveUp \/ Finish
        \/ NextHop

Spec == Init /\ [][Next]_vars

-----------------------------------------------------------------------------
(***************************************************************************)
(* Where every block belongs, without a loop: "fold each system message's   *)
(* blocks into the nearest PRECEDING user turn, else the next one, else     *)
(* append them as a user turn" (anthropic.go:20-22).                        *)
(***************************************************************************)
Home(ms, j) ==
  LET before == {k \in Users(ms) : k < j}
  IN  IF ms[j].role # "system" THEN j
      ELSE IF before # {} THEN CHOOSE k \in before : \A l \in before : l <= k
      ELSE IF Users(ms) # {} THEN CHOOSE k \in Users(ms) : \A l \in Users(ms) : k <= l
      ELSE Len(ms) + 1

\* The places at home in turn k.
Residents(ms, k) == {p \in Places(ms) : Home(ms, p[1]) = k}

\* The turns of the folded conversation, by the messages that they come from,
\* and the place of turn k among them.
Turns(ms) ==
  {k \in 1 .. Len(ms) + 1 : IF k <= Len(ms) THEN ms[k].role # "system" ELSE Residents(ms, k) # {}}
Position(ms, k) == Cardinality({l \in Turns(ms) : l <= k})

\* The blocks bs are those at the places ps of ms, in the order of the body.
Lists(bs, ms, ps) ==
  /\ \A m \in 1 .. Len(bs) : \E p \in ps : bs[m] = BlockAt(ms, p)
  /\ \A p \in ps : \E m \in 1 .. Len(bs) : bs[m] = BlockAt(ms, p)
  /\ \A m, n \in 1 .. Len(bs) : \A p, q \in ps :
       bs[m] = BlockAt(ms, p) /\ bs[n] = BlockAt(ms, q) => (m < n <=> Before(p, q))

\* Blocks would have to be taken from, or added to, a content that has none.
Impossible(ms) ==
  \E j \in Indices(ms) :
    /\ ms[j].role = "system"
    /\ \/ Unfoldable(ms[j])
       \/ /\ Home(ms, j) <= Len(ms) /\ Unfoldable(ms[Home(ms, j)])
          /\ Home(ms, j) < j \/ ms[j].blocks # <<>>

\* The turns of rs are those of ms, each with the role it had and all the blocks
\* that are at home in it; one that nothing is folded into is as it was.
IsFold(rs, ms) ==
  /\ Len(rs) = Cardinality(Turns(ms))
  /\ \A k \in Turns(ms) :
       LET turn == rs[Position(ms, k)] IN
       /\ turn.role = (IF k <= Len(ms) THEN ms[k].role ELSE "user")
       /\ Lists(turn.blocks, ms, Residents(ms, k))
       /\ (\A j \in Indices(ms) : Home(ms, j) = k => j = k) => turn = ms[k]

-----------------------------------------------------------------------------
(***************************************************************************)
(* Properties.                                                             *)
(***************************************************************************)
\* foldSystemTurns computes the reference: every block is in the turn where it
\* belongs, the turns are in their order, and when a fold is not possible, or
\* not needed, the body goes on exactly as it came.
MatchesReference ==
  pc = "done" => IF ~ToFold \/ Impossible(doc) THEN result = doc ELSE IsFold(result, doc)

\* "order and content preserved" (anthropic.go:22), at every turn of the loop:
\* of the messages read so far each block is there once, the system blocks are
\* in their order and the others in theirs.
OrderKept ==
  LET read == IF pc = "done" THEN doc ELSE SubSeq(doc, 1, i - 1)
      kept == IF pc = "done" THEN result ELSE Append(out, UserTurn(pending))
      FromSystem(p) == doc[p[1]].role = "system"
  IN  pc \in {"loop", "done"} /\ doc # None =>
        /\ \A r \in Places(kept) : \E p \in Places(read) : BlockAt(kept, r) = BlockAt(read, p)
        /\ \A p \in Places(read) : \E r \in Places(kept) : BlockAt(kept, r) = BlockAt(read, p)
        /\ \A r, s \in Places(kept) : \A p, q \in Places(read) :
             /\ BlockAt(kept, r) = BlockAt(read, p) /\ BlockAt(kept, s) = BlockAt(read, q)
             /\ FromSystem(p) <=> FromSystem(q)
             => (Before(r, s) <=> Before(p, q))

\* A second router finds nothing left to fold: what one node rewrote, or gave
\* up on, its peer forwards byte for byte.
FoldedOnce == hop > 1 /\ pc = "done" => folded = 0 /\ result = doc
=============================================================================
