----------------------------- MODULE FoldProofs -----------------------------
(***************************************************************************)
(* Proofs about Fold, for conversations of any length, any blocks and any   *)
(* number of routers: the loop computes the reference, no block is lost,    *)
(* doubled or moved past another of its kind, and a second fold changes     *)
(* nothing.  The loop itself is the induction over the messages: LoopInv    *)
(* says of the messages before i what IsFold says of all of them.           *)
(***************************************************************************)
EXTENDS Fold, Numbers, FiniteSetTheorems, TLAPS

\* The turns among the first n messages, and how many they are.
TurnsUpTo(ms, n) == {l \in 1 .. n : ms[l].role # "system"}
Count(ms, n) == Cardinality(TurnsUpTo(ms, n))

\* Of the messages before n: the places at home in turn k, and those whose home
\* is still to come.
Arrived(ms, k, n) == {p \in Residents(ms, k) : p[1] < n}
Waiting(ms, n) == {p \in Places(ms) : p[1] < n /\ Home(ms, p[1]) >= n}
Own(ms, j) == {p \in Places(ms) : p[1] = j}

Distinct(ms) == \A p, q \in Places(ms) : BlockAt(ms, p) = BlockAt(ms, q) => p = q

\* What turn t, which message k became, is when the messages before n are read.
Turned(t, ms, k, n) ==
  /\ t.role = ms[k].role
  /\ Lists(t.blocks, ms, Arrived(ms, k, n))
  /\ t = ms[k] \/ (/\ t.shape = "list" /\ ~Unfoldable(ms[k])
                  /\ \E j \in 1 .. n - 1 : j # k /\ Home(ms, j) = k)

\* A message that would make the whole fold impossible.
Blocks(ms, j) ==
  /\ ms[j].role = "system"
  /\ \/ Unfoldable(ms[j])
     \/ /\ Home(ms, j) <= Len(ms) /\ Unfoldable(ms[Home(ms, j)])
        /\ Home(ms, j) < j \/ ms[j].blocks # <<>>

\* ms without what comes from message n on has become os, and bs wait.
Loop(ms, n, os, bs) ==
  /\ n \in 1 .. Len(ms) + 1
  /\ Len(os) = Count(ms, n - 1)
  /\ \A m \in 1 .. Len(os) : \E k \in TurnsUpTo(ms, n - 1) : m = Count(ms, k)
  /\ \A k \in TurnsUpTo(ms, n - 1) : Turned(os[Count(ms, k)], ms, k, n)
  /\ Lists(bs, ms, Waiting(ms, n))
  /\ \A j \in 1 .. n - 1 : Home(ms, j) < n => ~Blocks(ms, j)
  /\ \A j \in 1 .. n - 1 : ms[j].role = "system" => ~Unfoldable(ms[j])

\* kept has the blocks of the messages before n, each once, those of the system
\* messages in their order and the others in theirs.
Read(ms, n) == {p \in Places(ms) : p[1] < n}
InOrder(ms, n, kept) ==
  /\ \A r \in Places(kept) : \E p \in Read(ms, n) : BlockAt(kept, r) = BlockAt(ms, p)
  /\ \A p \in Read(ms, n) : \E r \in Places(kept) : BlockAt(kept, r) = BlockAt(ms, p)
  /\ \A r, s \in Places(kept) : \A p, q \in Read(ms, n) :
       /\ BlockAt(kept, r) = BlockAt(ms, p) /\ BlockAt(kept, s) = BlockAt(ms, q)
       /\ ms[p[1]].role = "system" <=> ms[q[1]].role = "system"
       => (Before(r, s) <=> Before(p, q))

TypeInv ==
  /\ doc \in Seq(Message) \cup {None}
  /\ clear \in BOOLEAN
  /\ pc \in {"read", "parse", "loop", "done", "refused"}
  /\ i \in Nat /\ folded \in Nat /\ hop \in Nat
  /\ out \in Seq(Message) /\ pending \in Seq(Block)
  /\ result \in Seq(Message) \cup {None}

\* There is something to fold, and it can be folded.
Foldable == ToFold /\ ~Impossible(doc)

HopInv == hop > 1 => ~Foldable

LoopInv ==
  /\ pc \in {"read", "parse"} => i = 1 /\ out = <<>> /\ pending = <<>>
  /\ pc = "loop" => ToFold /\ Loop(doc, i, out, pending)

DoneInv ==
  pc = "done" =>
    /\ MatchesReference
    /\ ~Foldable => folded = 0
    /\ Foldable => \A n \in Indices(result) : result[n].role # "system"

OrderInv == pc = "done" /\ doc # None => InOrder(doc, Len(doc) + 1, result)

FoldInv ==
  /\ TypeInv /\ (doc # None => Distinct(doc))
  /\ HopInv /\ LoopInv /\ DoneInv /\ OrderInv

-----------------------------------------------------------------------------
\* What a place is.
LEMMA PlacesAre ==
  ASSUME NEW ms \in Seq(Message)
  PROVE  /\ \A n \in 1 .. Len(ms) : /\ ms[n] \in Message /\ Len(ms[n].blocks) \in Nat
                                    /\ \A m \in 1 .. Len(ms[n].blocks) :
                                         <<n, m>> \in Places(ms) /\ BlockAt(ms, <<n, m>>) = ms[n].blocks[m]
         /\ \A p \in Places(ms) : /\ p[1] \in 1 .. Len(ms) /\ p[2] \in 1 .. Len(ms[p[1]].blocks)
                                  /\ p = <<p[1], p[2]>> /\ p[1] \in Nat /\ p[2] \in Nat
                                  /\ BlockAt(ms, p) \in Block
<1>1. ASSUME NEW n \in 1 .. Len(ms)
      PROVE  ms[n] \in Message /\ ms[n].blocks \in Seq(Block) /\ Len(ms[n].blocks) \in Nat
  <2>1. ms[n] \in Message
    OBVIOUS
  <2>2. ms[n].blocks \in Seq(Block)
    BY <2>1 DEF Message
  <2> QED BY <2>1, <2>2
<1>2. ASSUME NEW n \in 1 .. Len(ms), NEW m \in 1 .. Len(ms[n].blocks)
      PROVE  <<n, m>> \in Places(ms) /\ BlockAt(ms, <<n, m>>) = ms[n].blocks[m]
  BY DEF Places, Indices, BlockAt
<1>3. ASSUME NEW p \in Places(ms)
      PROVE  /\ p[1] \in 1 .. Len(ms) /\ p[2] \in 1 .. Len(ms[p[1]].blocks)
             /\ p = <<p[1], p[2]>> /\ p[1] \in Nat /\ p[2] \in Nat
             /\ BlockAt(ms, p) \in Block
  <2>1. PICK n \in 1 .. Len(ms) : p \in {<<n, m>> : m \in 1 .. Len(ms[n].blocks)}
    BY DEF Places, Indices
  <2>2. PICK m \in 1 .. Len(ms[n].blocks) : p = <<n, m>>
    BY <2>1
  <2>3. ms[n].blocks[m] \in Block
    BY <1>1
  <2> QED BY <1>1, <2>2, <2>3 DEF BlockAt
<1> QED BY <1>1, <1>2, <1>3

\* Two places are one, or one is before the other.
LEMMA BeforeOrders ==
  ASSUME NEW p1 \in Nat, NEW p2 \in Nat, NEW q1 \in Nat, NEW q2 \in Nat
  PROVE  /\ ~Before(<<p1, p2>>, <<p1, p2>>)
         /\ Before(<<p1, p2>>, <<q1, q2>>) => ~Before(<<q1, q2>>, <<p1, p2>>)
         /\ Before(<<p1, p2>>, <<q1, q2>>) \/ Before(<<q1, q2>>, <<p1, p2>>) \/ <<p1, p2>> = <<q1, q2>>
BY DEF Before

\* The turn where the blocks of a message belong: its own, the last user turn
\* before it, the first one after it, or one at the end.
LEMMA HomeIs ==
  ASSUME NEW ms \in Seq(Message), NEW j \in 1 .. Len(ms)
  PROVE  /\ Home(ms, j) \in 1 .. Len(ms) + 1
         /\ ms[j].role # "system" => Home(ms, j) = j
         /\ ms[j].role = "system" =>
              /\ Home(ms, j) # j
              /\ Home(ms, j) <= Len(ms) => Home(ms, j) \in Users(ms)
              /\ \A u \in Users(ms) : u < j => u <= Home(ms, j) /\ Home(ms, j) < j
              /\ (\A u \in Users(ms) : ~(u < j)) =>
                   /\ Home(ms, j) > j
                   /\ \A u \in Users(ms) : Home(ms, j) <= u
<1> DEFINE before == {k \in Users(ms) : k < j}
<1>1. Users(ms) \subseteq 1 .. Len(ms) /\ Len(ms) \in Nat
  BY DEF Users, Indices
<1>2. \A u \in Users(ms) : ms[u].role = "user"
  BY DEF Users
<1>3. CASE ms[j].role # "system"
  BY <1>3 DEF Home
<1>4. CASE ms[j].role = "system" /\ before # {}
  <2>1. Home(ms, j) = CHOOSE k \in before : \A l \in before : l <= k
    BY <1>4 DEF Home
  <2>2. before \subseteq 0 .. Len(ms)
    BY <1>1
  <2>3. \E k \in before : \A l \in before : l <= k
    <3> HIDE DEF before
    <3> QED BY <1>1, <1>4, <2>2, GreatestElement
  <2>4. Home(ms, j) \in before /\ \A l \in before : l <= Home(ms, j)
    <3> HIDE DEF before
    <3> QED BY <2>1, <2>3
  <2> QED BY <1>1, <1>4, <2>4
<1>5. CASE ms[j].role = "system" /\ before = {} /\ Users(ms) # {}
  <2>1. Home(ms, j) = CHOOSE k \in Users(ms) : \A l \in Users(ms) : k <= l
    BY <1>5 DEF Home
  <2>2. \E k \in Users(ms) : \A l \in Users(ms) : k <= l
    BY <1>1, <1>5, LeastElement
  <2>3. Home(ms, j) \in Users(ms) /\ \A l \in Users(ms) : Home(ms, j) <= l
    BY <2>1, <2>2
  <2>4. j \notin Users(ms)
    BY <1>2, <1>5
  <2>5. Home(ms, j) > j
    BY <1>1, <1>5, <2>3, <2>4
  <2> QED BY <1>1, <1>5, <2>3, <2>5
<1>6. CASE ms[j].role = "system" /\ before = {} /\ Users(ms) = {}
  <2>1. Home(ms, j) = Len(ms) + 1
    BY <1>6 DEF Home
  <2> QED BY <1>1, <1>6, <2>1
<1> QED BY <1>3, <1>4, <1>5, <1>6

\* The homes of system messages are in the order of the messages, and those that
\* are still to come at some point of the body are one and the same.
LEMMA HomesInOrder ==
  ASSUME NEW ms \in Seq(Message), NEW j \in 1 .. Len(ms), NEW k \in 1 .. Len(ms),
         ms[j].role = "system", ms[k].role = "system", j < k
  PROVE  /\ Home(ms, j) <= Home(ms, k)
         /\ Home(ms, j) >= k => Home(ms, j) = Home(ms, k)
<1>0. Users(ms) \subseteq 1 .. Len(ms) /\ Len(ms) \in Nat
  BY DEF Users, Indices
<1>1. Home(ms, j) \in Int /\ Home(ms, k) \in Int
  BY HomeIs
<1>2. CASE \E u \in Users(ms) : u < k
  <2>1. PICK u \in Users(ms) : u < k
    BY <1>2
  <2>2. Home(ms, k) < k /\ Home(ms, k) \in Users(ms)
    BY <1>0, <2>1, HomeIs
  <2>3. CASE \E v \in Users(ms) : v < j
    <3>1. Home(ms, j) < j /\ Home(ms, j) \in Users(ms)
      BY <1>0, <2>3, HomeIs
    <3>2. Home(ms, j) <= Home(ms, k)
      BY <1>1, <3>1, HomeIs
    <3> QED BY <1>1, <3>1, <3>2
  <2>4. CASE \A v \in Users(ms) : ~(v < j)
    <3>1. Home(ms, j) <= Home(ms, k)
      BY <2>2, <2>4, HomeIs
    <3> QED BY <1>1, <2>2, <3>1
  <2> QED BY <2>3, <2>4
<1>3. CASE \A u \in Users(ms) : ~(u < k)
  <2>1. \A u \in Users(ms) : ~(u < j)
    BY <1>0, <1>3
  <2>2. /\ \A u \in Users(ms) : Home(ms, j) <= u /\ Home(ms, k) <= u
        /\ Home(ms, j) <= Len(ms) => Home(ms, j) \in Users(ms)
        /\ Home(ms, k) <= Len(ms) => Home(ms, k) \in Users(ms)
        /\ Home(ms, j) <= Len(ms) + 1 /\ Home(ms, k) <= Len(ms) + 1
    BY <1>3, <2>1, HomeIs
  <2>3. Home(ms, j) = Home(ms, k)
    BY <1>0, <1>1, <2>2
  <2> QED BY <1>1, <2>3
<1> QED BY <1>2, <1>3

-----------------------------------------------------------------------------
\* How the turns are counted.
LEMMA Counts ==
  ASSUME NEW ms, NEW n \in Nat
  PROVE  /\ IsFiniteSet(TurnsUpTo(ms, n)) /\ Count(ms, n) \in Nat
         /\ n = 0 => Count(ms, n) = 0
         /\ n > 0 => /\ ms[n].role = "system" => /\ TurnsUpTo(ms, n) = TurnsUpTo(ms, n - 1)
                                                 /\ Count(ms, n) = Count(ms, n - 1)
                     /\ ms[n].role # "system" => /\ TurnsUpTo(ms, n) = TurnsUpTo(ms, n - 1) \cup {n}
                                                 /\ Count(ms, n) = Count(ms, n - 1) + 1
<1>1. ASSUME NEW k \in Nat PROVE IsFiniteSet(TurnsUpTo(ms, k)) /\ Count(ms, k) \in Nat
  <2>1. IsFiniteSet(1 .. k)
    BY FS_Interval
  <2>2. TurnsUpTo(ms, k) \subseteq 1 .. k
    BY DEF TurnsUpTo
  <2>3. IsFiniteSet(TurnsUpTo(ms, k))
    BY <2>1, <2>2, FS_Subset
  <2> QED BY <2>3, FS_CardinalityType DEF Count
<1>2. CASE n = 0
  <2>1. TurnsUpTo(ms, n) = {}
    BY <1>2 DEF TurnsUpTo
  <2> QED BY <1>1, <1>2, <2>1, FS_EmptySet DEF Count
<1>3. CASE n > 0 /\ ms[n].role = "system"
  <2>1. TurnsUpTo(ms, n) = TurnsUpTo(ms, n - 1)
    BY <1>3 DEF TurnsUpTo
  <2> QED BY <1>1, <1>3, <2>1 DEF Count
<1>4. CASE n > 0 /\ ms[n].role # "system"
  <2>1. TurnsUpTo(ms, n) = TurnsUpTo(ms, n - 1) \cup {n}
    BY <1>4 DEF TurnsUpTo
  <2>2. n - 1 \in Nat /\ n \notin TurnsUpTo(ms, n - 1)
    BY <1>4 DEF TurnsUpTo
  <2>3. IsFiniteSet(TurnsUpTo(ms, n - 1))
    BY <1>1, <2>2
  <2>4. Cardinality(TurnsUpTo(ms, n - 1) \cup {n}) = Cardinality(TurnsUpTo(ms, n - 1)) + 1
    BY <2>2, <2>3, FS_AddElement
  <2>5. Count(ms, n) = Count(ms, n - 1) + 1
    BY <2>1, <2>4 DEF Count
  <2>6. ~(n = 0) /\ ~(ms[n].role = "system")
    BY <1>4
  <2>7. IsFiniteSet(TurnsUpTo(ms, n)) /\ Count(ms, n) \in Nat
    BY <1>1
  <2> QED BY <2>1, <2>5, <2>6, <2>7
<1> QED BY <1>2, <1>3, <1>4

\* Later turns have greater numbers, and none exceeds the count.
LEMMA CountsGrow ==
  ASSUME NEW ms, NEW n \in Nat, NEW k \in TurnsUpTo(ms, n)
  PROVE  /\ Count(ms, k) \in 1 .. Count(ms, n)
         /\ \A l \in TurnsUpTo(ms, n) : k < l => Count(ms, k) < Count(ms, l)
<1>1. k \in Nat \ {0} /\ k <= n /\ ms[k].role # "system"
  BY DEF TurnsUpTo
<1>2. ASSUME NEW a \in Nat, NEW b \in Nat, a <= b PROVE Count(ms, a) <= Count(ms, b)
  <2>1. TurnsUpTo(ms, a) \subseteq TurnsUpTo(ms, b)
    BY <1>2 DEF TurnsUpTo
  <2> QED BY <2>1, Counts, FS_Subset DEF Count
<1>3. Count(ms, k) = Count(ms, k - 1) + 1 /\ Count(ms, k - 1) \in Nat
  BY <1>1, Counts
<1>4. Count(ms, k) \in 1 .. Count(ms, n)
  <2>1. Count(ms, k) <= Count(ms, n) /\ Count(ms, n) \in Nat
    BY <1>1, <1>2, Counts
  <2> QED BY <1>3, <2>1
<1>5. ASSUME NEW l \in TurnsUpTo(ms, n), k < l PROVE Count(ms, k) < Count(ms, l)
  <2>1. l \in Nat \ {0} /\ ms[l].role # "system"
    BY DEF TurnsUpTo
  <2>2. Count(ms, l) = Count(ms, l - 1) + 1 /\ Count(ms, l - 1) \in Nat /\ Count(ms, k) \in Nat
    BY <1>1, <2>1, Counts
  <2>3. Count(ms, k) <= Count(ms, l - 1)
    BY <1>1, <1>2, <1>5, <2>1
  <2> QED BY <2>2, <2>3
<1> QED BY <1>4, <1>5

-----------------------------------------------------------------------------
\* A message lists its own blocks.
LEMMA ListsOwn ==
  ASSUME NEW ms \in Seq(Message), Distinct(ms), NEW j \in 1 .. Len(ms)
  PROVE  Lists(ms[j].blocks, ms, Own(ms, j))
<1> DEFINE bs == ms[j].blocks
<1>1. Len(bs) \in Nat /\ \A m \in 1 .. Len(bs) : <<j, m>> \in Own(ms, j) /\ bs[m] = BlockAt(ms, <<j, m>>)
  <2>1. \A m \in 1 .. Len(bs) : <<j, m>>[1] = j
    OBVIOUS
  <2> QED BY <2>1, PlacesAre DEF Own
<1>2. ASSUME NEW p \in Own(ms, j)
      PROVE  /\ p \in Places(ms) /\ p = <<j, p[2]>> /\ p[2] \in 1 .. Len(bs)
             /\ bs[p[2]] = BlockAt(ms, p)
  BY PlacesAre DEF Own, BlockAt
<1>3. ASSUME NEW m \in 1 .. Len(bs), NEW n \in 1 .. Len(bs), NEW p \in Own(ms, j), NEW q \in Own(ms, j),
             bs[m] = BlockAt(ms, p), bs[n] = BlockAt(ms, q)
      PROVE  m < n <=> Before(p, q)
  <2>1. <<j, m>> \in Places(ms) /\ <<j, n>> \in Places(ms)
    BY PlacesAre
  <2>2. p = <<j, m>> /\ q = <<j, n>>
    BY <1>1, <1>2, <1>3, <2>1 DEF Distinct
  <2> QED BY <2>2 DEF Before
<1> HIDE DEF bs
<1>4. Lists(bs, ms, Own(ms, j))
  BY <1>1, <1>2, <1>3 DEF Lists
<1> QED BY <1>4 DEF bs

LEMMA ListsNone ==
  ASSUME NEW ms, NEW bs \in Seq(Block), NEW ps
  PROVE  /\ ps = {} => Lists(<<>>, ms, ps)
         /\ Lists(bs, ms, ps) => (bs = <<>> <=> ps = {})
<1>1. ps = {} => Lists(<<>>, ms, ps)
  BY DEF Lists
<1>2. ASSUME Lists(bs, ms, ps), bs = <<>> PROVE ps = {}
  BY <1>2 DEF Lists
<1>3. ASSUME Lists(bs, ms, ps), ps = {} PROVE bs = <<>>
  <2>1. ~(1 \in 1 .. Len(bs))
    BY <1>3 DEF Lists
  <2>2. Len(bs) = 0
    BY <2>1
  <2> QED BY <2>2
<1> QED BY <1>1, <1>2, <1>3

\* What Lists says of two of the blocks.
LEMMA ListsOrder ==
  ASSUME NEW ms, NEW bs, NEW P, Lists(bs, ms, P), NEW m \in 1 .. Len(bs), NEW n \in 1 .. Len(bs),
         NEW p \in P, NEW q \in P, bs[m] = BlockAt(ms, p), bs[n] = BlockAt(ms, q)
  PROVE  m < n <=> Before(p, q)
BY DEF Lists

\* One list of blocks after another, when all places of the first are before
\* those of the second.
LEMMA ListsJoin ==
  ASSUME NEW ms \in Seq(Message), Distinct(ms), NEW s \in Seq(Block), NEW t \in Seq(Block),
         NEW S \in SUBSET Places(ms), NEW T \in SUBSET Places(ms),
         Lists(s, ms, S), Lists(t, ms, T), \A p \in S, q \in T : p[1] < q[1]
  PROVE  Lists(s \o t, ms, S \cup T)
<1> DEFINE st == s \o t
           a  == Len(s)
           b  == Len(t)
<1>1. /\ a \in Nat /\ b \in Nat /\ Len(st) = a + b
      /\ \A m \in 1 .. a : st[m] = s[m]
      /\ \A m \in 1 .. b : st[m + a] = t[m]
      /\ \A m \in 1 .. Len(st) : m \in 1 .. a \/ (m - a \in 1 .. b /\ st[m] = t[m - a] /\ m > a)
  <2>1. a \in Nat /\ b \in Nat /\ Len(st) = a + b
    OBVIOUS
  <2>2. \A m \in 1 .. a + b : st[m] = IF m <= a THEN s[m] ELSE t[m - a]
    OBVIOUS
  <2> HIDE DEF st, a, b
  <2>3. \A m \in 1 .. b : m + a \in 1 .. a + b /\ ~(m + a <= a) /\ (m + a) - a = m
    BY <2>1
  <2>4. \A m \in 1 .. a + b : m \in 1 .. a \/ (m - a \in 1 .. b /\ m > a)
    BY <2>1
  <2> QED BY <2>1, <2>2, <2>3, <2>4
<1>2. /\ \A m \in 1 .. a : \E p \in S : s[m] = BlockAt(ms, p)
      /\ \A p \in S : \E m \in 1 .. a : s[m] = BlockAt(ms, p)
      /\ \A m, n \in 1 .. a : \A p, q \in S :
           s[m] = BlockAt(ms, p) /\ s[n] = BlockAt(ms, q) => (m < n <=> Before(p, q))
  BY DEF Lists
<1>3. /\ \A m \in 1 .. b : \E p \in T : t[m] = BlockAt(ms, p)
      /\ \A p \in T : \E m \in 1 .. b : t[m] = BlockAt(ms, p)
      /\ \A m, n \in 1 .. b : \A p, q \in T :
           t[m] = BlockAt(ms, p) /\ t[n] = BlockAt(ms, q) => (m < n <=> Before(p, q))
  BY DEF Lists
<1>4. \A p \in S \cup T, q \in S \cup T : p[1] \in Nat /\ (BlockAt(ms, p) = BlockAt(ms, q) => p = q)
  BY PlacesAre DEF Distinct
<1> HIDE DEF st, a, b
<1>5. ASSUME NEW m \in 1 .. Len(st) PROVE \E p \in S \cup T : st[m] = BlockAt(ms, p)
  <2>1. CASE m \in 1 .. a
    BY <1>1, <1>2, <2>1
  <2>2. CASE m \notin 1 .. a
    <3>1. m - a \in 1 .. b /\ st[m] = t[m - a]
      BY <1>1, <2>2
    <3> QED BY <1>3, <3>1
  <2> QED BY <2>1, <2>2
<1>6. ASSUME NEW p \in S \cup T PROVE \E m \in 1 .. Len(st) : st[m] = BlockAt(ms, p)
  <2>1. CASE p \in S
    <3>1. PICK m \in 1 .. a : s[m] = BlockAt(ms, p)
      BY <1>2, <2>1
    <3> QED BY <1>1, <3>1
  <2>2. CASE p \in T
    <3>1. PICK m \in 1 .. b : t[m] = BlockAt(ms, p)
      BY <1>3, <2>2
    <3>2. m + a \in 1 .. Len(st)
      BY <1>1
    <3> QED BY <1>1, <3>1, <3>2
  <2> QED BY <2>1, <2>2
<1>7. ASSUME NEW m \in 1 .. Len(st), NEW p \in S \cup T, st[m] = BlockAt(ms, p)
      PROVE  \/ m \in 1 .. a /\ p \in S /\ s[m] = BlockAt(ms, p)
             \/ m > a /\ m - a \in 1 .. b /\ p \in T /\ t[m - a] = BlockAt(ms, p)
  <2>1. CASE m \in 1 .. a
    <3>1. PICK q \in S : s[m] = BlockAt(ms, q)
      BY <1>2, <2>1
    <3> QED BY <1>1, <1>4, <1>7, <2>1, <3>1
  <2>2. CASE m \notin 1 .. a
    <3>1. m > a /\ m - a \in 1 .. b /\ st[m] = t[m - a]
      BY <1>1, <2>2
    <3>2. PICK q \in T : t[m - a] = BlockAt(ms, q)
      BY <1>3, <3>1
    <3> QED BY <1>4, <1>7, <3>1, <3>2
  <2> QED BY <2>1, <2>2
<1>8. ASSUME NEW m \in 1 .. Len(st), NEW n \in 1 .. Len(st), NEW p \in S \cup T, NEW q \in S \cup T,
             st[m] = BlockAt(ms, p), st[n] = BlockAt(ms, q)
      PROVE  m < n <=> Before(p, q)
  <2>1. m \in Nat /\ n \in Nat /\ a \in Nat
    BY <1>1
  <2>2. CASE p \in S /\ m \in 1 .. a /\ s[m] = BlockAt(ms, p)
    <3>1. CASE q \in S /\ n \in 1 .. a /\ s[n] = BlockAt(ms, q)
      BY <1>2, <2>2, <3>1
    <3>2. CASE q \in T /\ n > a
      <4>1. p[1] < q[1]
        BY <2>2, <3>2
      <4> QED BY <2>1, <2>2, <3>2, <4>1 DEF Before
    <3> QED BY <1>7, <1>8, <3>1, <3>2
  <2>3. CASE p \in T /\ m > a /\ m - a \in 1 .. b /\ t[m - a] = BlockAt(ms, p)
    <3>1. CASE q \in T /\ n > a /\ n - a \in 1 .. b /\ t[n - a] = BlockAt(ms, q)
      <4>1. m - a < n - a <=> Before(p, q)
        BY <1>3, <2>3, <3>1
      <4> QED BY <2>1, <4>1
    <3>2. CASE q \in S /\ n \in 1 .. a
      <4>1. q[1] < p[1] /\ q[1] \in Nat /\ p[1] \in Nat
        BY <1>4, <2>3, <3>2
      <4>2. ~Before(p, q)
        BY <4>1 DEF Before
      <4> QED BY <2>1, <2>3, <3>2, <4>2
    <3> QED BY <1>7, <1>8, <3>1, <3>2
  <2> QED BY <1>7, <1>8, <2>2, <2>3
<1>9. Lists(st, ms, S \cup T)
  BY <1>5, <1>6, <1>8 DEF Lists
<1> QED BY <1>9 DEF st

-----------------------------------------------------------------------------
\* What the next message does to the places that are at home in a turn, and to
\* those that wait.
LEMMA Arrivals ==
  ASSUME NEW ms \in Seq(Message), NEW n \in 1 .. Len(ms)
  PROVE  /\ \A k : Home(ms, n) # k => Arrived(ms, k, n + 1) = Arrived(ms, k, n)
         /\ Arrived(ms, Home(ms, n), n + 1) = Arrived(ms, Home(ms, n), n) \cup Own(ms, n)
         /\ \A k : /\ Arrived(ms, k, n) \subseteq Places(ms) /\ Own(ms, n) \subseteq Places(ms)
                   /\ \A p \in Arrived(ms, k, n), q \in Own(ms, n) : p[1] < q[1]
<1>1. \A p \in Places(ms) : p[1] \in Nat
  BY PlacesAre
<1>2. \A p \in Places(ms) : p[1] < n + 1 <=> p[1] < n \/ p[1] = n
  BY <1>1
<1>3. ASSUME NEW k, Home(ms, n) # k PROVE Arrived(ms, k, n + 1) = Arrived(ms, k, n)
  BY <1>2, <1>3 DEF Arrived, Residents
<1>4. Arrived(ms, Home(ms, n), n + 1) = Arrived(ms, Home(ms, n), n) \cup Own(ms, n)
  BY <1>2 DEF Arrived, Residents, Own
<1>5. ASSUME NEW k
      PROVE  /\ Arrived(ms, k, n) \subseteq Places(ms) /\ Own(ms, n) \subseteq Places(ms)
             /\ \A p \in Arrived(ms, k, n), q \in Own(ms, n) : p[1] < q[1]
  BY DEF Arrived, Residents, Own
<1> QED BY <1>3, <1>4, <1>5

LEMMA Waits ==
  ASSUME NEW ms \in Seq(Message), NEW n \in 1 .. Len(ms)
  PROVE  /\ Waiting(ms, n) \subseteq Places(ms)
         /\ \A p \in Waiting(ms, n), q \in Own(ms, n) : p[1] < q[1]
         /\ ms[n].role = "system" /\ Home(ms, n) < n => Waiting(ms, n + 1) = Waiting(ms, n)
         /\ ms[n].role = "system" /\ Home(ms, n) > n =>
              Waiting(ms, n + 1) = Waiting(ms, n) \cup Own(ms, n)
         /\ ms[n].role = "user" =>
              Arrived(ms, n, n) = Waiting(ms, n) /\ Waiting(ms, n + 1) = {}
         /\ ms[n].role \notin {"user", "system"} =>
              Arrived(ms, n, n) = {} /\ Waiting(ms, n + 1) = Waiting(ms, n)
<1> DEFINE H(p) == Home(ms, p[1])
<1>1. \A p \in Places(ms) :
        /\ p[1] \in 1 .. Len(ms) /\ p[1] \in Nat /\ H(p) \in Nat
        /\ p[1] < n + 1 <=> p[1] < n \/ p[1] = n
        /\ H(p) >= n + 1 <=> H(p) >= n /\ H(p) # n
  <2>1. ASSUME NEW p \in Places(ms)
        PROVE  p[1] \in 1 .. Len(ms) /\ p[1] \in Nat /\ H(p) \in Nat
    <3>1. p[1] \in 1 .. Len(ms) /\ p[1] \in Nat
      BY PlacesAre
    <3>2. H(p) \in 1 .. Len(ms) + 1
      BY <3>1, HomeIs
    <3> QED BY <3>1, <3>2
  <2> HIDE DEF H
  <2>2. ASSUME NEW p \in Places(ms)
        PROVE  /\ p[1] < n + 1 <=> p[1] < n \/ p[1] = n
               /\ H(p) >= n + 1 <=> H(p) >= n /\ H(p) # n
    BY <2>1
  <2> QED BY <2>1, <2>2
<1>2. ASSUME NEW p \in Places(ms), p[1] < n, H(p) = n PROVE ms[n].role = "user"
  <2>1. ms[p[1]].role = "system"
    BY <1>1, <1>2, HomeIs
  <2>2. n \in Users(ms)
    BY <1>1, <1>2, <2>1, HomeIs
  <2> QED BY <2>2 DEF Users
<1>3. ASSUME ms[n].role = "user", NEW p \in Places(ms), p[1] < n PROVE H(p) <= n
  <2>1. n \in Users(ms)
    BY <1>3 DEF Users, Indices
  <2>2. CASE ms[p[1]].role # "system"
    BY <1>1, <1>3, <2>2, HomeIs
  <2>3. CASE ms[p[1]].role = "system" /\ \E u \in Users(ms) : u < p[1]
    <3>1. H(p) < p[1]
      BY <1>1, <2>3, HomeIs
    <3> QED BY <1>1, <1>3, <3>1
  <2>4. CASE ms[p[1]].role = "system" /\ \A u \in Users(ms) : ~(u < p[1])
    BY <1>1, <2>1, <2>4, HomeIs
  <2> QED BY <2>2, <2>3, <2>4
<1>4. Waiting(ms, n) \subseteq Places(ms) /\ \A p \in Waiting(ms, n), q \in Own(ms, n) : p[1] < q[1]
  BY DEF Waiting, Own
<1>5. Home(ms, n) \in Nat /\ \A p \in Places(ms) : p[1] = n => H(p) = Home(ms, n)
  BY HomeIs
<1>6. /\ Waiting(ms, n) = {p \in Places(ms) : p[1] < n /\ H(p) >= n}
      /\ Waiting(ms, n + 1) = {p \in Places(ms) : p[1] < n + 1 /\ H(p) >= n + 1}
      /\ Arrived(ms, n, n) = {p \in Places(ms) : H(p) = n /\ p[1] < n}
      /\ Own(ms, n) = {p \in Places(ms) : p[1] = n}
  BY DEF Waiting, Arrived, Residents, Own
<1> HIDE DEF H
<1>7. ASSUME ms[n].role = "system", Home(ms, n) < n PROVE Waiting(ms, n + 1) = Waiting(ms, n)
  <2>1. \A p \in Places(ms) : p[1] < n + 1 /\ H(p) >= n + 1 <=> p[1] < n /\ H(p) >= n
    BY <1>1, <1>2, <1>5, <1>7
  <2> QED BY <1>6, <2>1
<1>8. ASSUME ms[n].role = "system", Home(ms, n) > n
      PROVE  Waiting(ms, n + 1) = Waiting(ms, n) \cup Own(ms, n)
  <2>1. \A p \in Places(ms) : p[1] < n + 1 /\ H(p) >= n + 1 <=> (p[1] < n /\ H(p) >= n) \/ p[1] = n
    BY <1>1, <1>2, <1>5, <1>8
  <2> QED BY <1>6, <2>1
<1>9. ASSUME ms[n].role = "user"
      PROVE  Arrived(ms, n, n) = Waiting(ms, n) /\ Waiting(ms, n + 1) = {}
  <2>1. \A p \in Places(ms) : p[1] < n => (H(p) >= n <=> H(p) = n)
    BY <1>1, <1>3, <1>9
  <2>2. Home(ms, n) = n
    BY <1>9, HomeIs
  <2>3. \A p \in Places(ms) : ~(p[1] < n + 1 /\ H(p) >= n + 1)
    BY <1>1, <1>5, <2>1, <2>2
  <2> QED BY <1>6, <2>1, <2>3
<1>10. ASSUME ms[n].role \notin {"user", "system"}
       PROVE  Arrived(ms, n, n) = {} /\ Waiting(ms, n + 1) = Waiting(ms, n)
  <2>1. \A p \in Places(ms) : p[1] < n => H(p) # n
    BY <1>2, <1>10
  <2>2. Home(ms, n) = n
    BY <1>10, HomeIs
  <2>3. \A p \in Places(ms) : p[1] < n + 1 /\ H(p) >= n + 1 <=> p[1] < n /\ H(p) >= n
    BY <1>1, <1>5, <2>1, <2>2
  <2> QED BY <1>6, <2>1, <2>3
<1> QED BY <1>4, <1>7, <1>8, <1>9, <1>10

\* Nothing waits once a user turn has been read.
LEMMA NoneWaits ==
  ASSUME NEW ms \in Seq(Message), NEW n \in 1 .. Len(ms) + 1, NEW u \in Users(ms), u < n
  PROVE  Waiting(ms, n) = {}
<1> SUFFICES ASSUME NEW p \in Places(ms), p[1] < n, Home(ms, p[1]) >= n PROVE FALSE
  BY DEF Waiting
<1>1. p[1] \in 1 .. Len(ms) /\ p[1] \in Nat /\ n \in Nat /\ u \in Nat
  BY PlacesAre DEF Users, Indices
<1>2. Home(ms, p[1]) \in Nat
  BY <1>1, HomeIs
<1>3. ms[p[1]].role = "system"
  BY <1>1, HomeIs
<1>4. ~(Home(ms, p[1]) < p[1])
  BY <1>1, <1>2
<1>5. \A v \in Users(ms) : ~(v < p[1])
  BY <1>1, <1>3, <1>4, HomeIs
<1>6. Home(ms, p[1]) <= u
  BY <1>1, <1>3, <1>5, HomeIs
<1> QED BY <1>1, <1>2, <1>6

-----------------------------------------------------------------------------
(***************************************************************************)
(* The loop, message by message.                                           *)
(***************************************************************************)
LEMMA WithBlocksIs ==
  ASSUME NEW m \in Message, NEW bs \in Seq(Block)
  PROVE  /\ WithBlocks(m, bs) \in Message /\ WithBlocks(m, bs).role = m.role
         /\ WithBlocks(m, bs).shape = "list" /\ WithBlocks(m, bs).blocks = bs
         /\ m.blocks \in Seq(Block)
BY DEF WithBlocks, Message, Shape

\* A turn stays as it is while messages at home elsewhere are read.
LEMMA TurnedStays ==
  ASSUME NEW ms \in Seq(Message), NEW n \in 1 .. Len(ms), NEW t, NEW k,
         Turned(t, ms, k, n), Home(ms, n) # k
  PROVE  Turned(t, ms, k, n + 1)
<1>1. Arrived(ms, k, n + 1) = Arrived(ms, k, n)
  BY Arrivals
<1>2. \A j \in 1 .. n - 1 : j \in 1 .. (n + 1) - 1
  OBVIOUS
<1> QED BY <1>1, <1>2 DEF Turned

\* A turn that more blocks are folded into: what it was folded from has a
\* content that takes blocks.
LEMMA TurnedFoldable ==
  ASSUME NEW t, NEW ms, NEW k, NEW n, Turned(t, ms, k, n), ~Unfoldable(t)
  PROVE  ~Unfoldable(ms[k])
BY DEF Turned, Unfoldable

\* No system message before n has its home at the system message n.
LEMMA HomeElsewhere ==
  ASSUME NEW ms \in Seq(Message), NEW n \in 1 .. Len(ms), ms[n].role = "system", NEW j \in 1 .. n - 1
  PROVE  Home(ms, j) < n + 1 => Home(ms, j) < n
<1>1. j \in 1 .. Len(ms) /\ n \in Nat
  OBVIOUS
<1>2. Home(ms, j) \in Nat
  BY <1>1, HomeIs
<1>3. Home(ms, j) # n
  <2>1. CASE ms[j].role # "system"
    BY <1>1, <2>1, HomeIs
  <2>2. CASE ms[j].role = "system"
    <3>1. n \notin Users(ms)
      BY DEF Users
    <3> QED BY <1>1, <2>2, <3>1, HomeIs
  <2> QED BY <2>1, <2>2
<1> QED BY <1>1, <1>2, <1>3

\* One more message that can be folded, or needs no fold.
LEMMA ReadOn ==
  ASSUME NEW ms \in Seq(Message), NEW os, NEW bs, NEW n \in 1 .. Len(ms), Loop(ms, n, os, bs),
         ms[n].role = "system" => ~Unfoldable(ms[n])
  PROVE  \A j \in 1 .. n : ms[j].role = "system" => ~Unfoldable(ms[j])
<1>1. \A j \in 1 .. n - 1 : ms[j].role = "system" => ~Unfoldable(ms[j])
  BY DEF Loop
<1>2. \A j \in 1 .. n : j = n \/ j \in 1 .. n - 1
  OBVIOUS
<1> QED BY <1>1, <1>2

\* FoldBack
LEMMA LoopBack ==
  ASSUME NEW ms \in Seq(Message), Distinct(ms), NEW os \in Seq(Message), NEW bs \in Seq(Block),
         NEW n \in 1 .. Len(ms), Loop(ms, n, os, bs),
         ms[n].role = "system", ~Unfoldable(ms[n]), Home(ms, n) < n,
         ~Unfoldable(os[Count(ms, Home(ms, n))])
  PROVE  LET c == Count(ms, Home(ms, n))
         IN  Loop(ms, n + 1,
                  [os EXCEPT ![c] = WithBlocks(@, BlocksOf(@) \o BlocksOf(ms[n]))], bs)
<1> DEFINE h  == Home(ms, n)
           c  == Count(ms, h)
           t  == os[c]
           t2 == WithBlocks(t, t.blocks \o ms[n].blocks)
           os2 == [os EXCEPT ![c] = t2]
<1>0. n \in Nat \ {0} /\ n - 1 \in Nat /\ (n + 1) - 1 = n
  OBVIOUS
<1>1. h \in 1 .. n - 1 /\ h \in Users(ms) /\ h \in TurnsUpTo(ms, n - 1)
  <2>1. h \in Nat \ {0} /\ h \in Users(ms)
    BY HomeIs
  <2> QED BY <2>1 DEF TurnsUpTo, Users
<1>2. /\ TurnsUpTo(ms, n) = TurnsUpTo(ms, n - 1) /\ Count(ms, n) = Count(ms, n - 1)
      /\ Len(os) = Count(ms, n - 1)
  BY <1>0, Counts DEF Loop
<1>3. c \in 1 .. Len(os)
  BY <1>0, <1>1, <1>2, CountsGrow
<1>4. ASSUME NEW k \in TurnsUpTo(ms, n - 1), k # h PROVE Count(ms, k) # c /\ Count(ms, k) \in 1 .. Len(os)
  <2>1. k < h \/ h < k
    BY <1>1, <1>4 DEF TurnsUpTo
  <2>2. Count(ms, k) \in Nat /\ c \in Nat /\ Count(ms, k) \in 1 .. Len(os)
    BY <1>0, <1>2, <1>3, CountsGrow
  <2>3. Count(ms, k) < c \/ c < Count(ms, k)
    BY <1>0, <1>1, <2>1, CountsGrow
  <2> QED BY <2>2, <2>3
<1>5. Turned(t, ms, h, n) /\ t \in Message /\ ms[n] \in Message
  BY <1>1, <1>3 DEF Loop
<1>6. t.blocks \in Seq(Block) /\ ms[n].blocks \in Seq(Block) /\ t.blocks \o ms[n].blocks \in Seq(Block)
  BY <1>5, WithBlocksIs
<1>7. t2 \in Message /\ t2.role = t.role /\ t2.shape = "list" /\ t2.blocks = t.blocks \o ms[n].blocks
  BY <1>5, <1>6, WithBlocksIs
<1>8. ~Unfoldable(ms[h])
  BY <1>5, TurnedFoldable
<1>9. Turned(t2, ms, h, n + 1)
  <2>1. Lists(t.blocks, ms, Arrived(ms, h, n)) /\ Lists(ms[n].blocks, ms, Own(ms, n))
    BY <1>5, ListsOwn DEF Turned
  <2>2. Lists(t.blocks \o ms[n].blocks, ms, Arrived(ms, h, n) \cup Own(ms, n))
    BY <1>6, <2>1, Arrivals, ListsJoin
  <2>3. Arrived(ms, h, n + 1) = Arrived(ms, h, n) \cup Own(ms, n)
    BY Arrivals
  <2>4. n \in 1 .. (n + 1) - 1 /\ n # h /\ Home(ms, n) = h
    BY <1>1
  <2>5. t.role = ms[h].role
    BY <1>5 DEF Turned
  <2> HIDE DEF t2, t, h
  <2> QED BY <1>7, <1>8, <2>2, <2>3, <2>4, <2>5 DEF Turned
<1>10. Len(os2) = Len(os) /\ os2[c] = t2 /\ \A m \in 1 .. Len(os) : m # c => os2[m] = os[m]
  BY <1>3
<1>11. ASSUME NEW k \in TurnsUpTo(ms, n) PROVE Turned(os2[Count(ms, k)], ms, k, n + 1)
  <2>1. CASE k = h
    BY <1>9, <1>10, <2>1
  <2>2. CASE k # h
    <3>1. os2[Count(ms, k)] = os[Count(ms, k)]
      BY <1>2, <1>4, <1>10, <2>2
    <3>2. Turned(os[Count(ms, k)], ms, k, n)
      BY <1>2 DEF Loop
    <3> QED BY <2>2, <3>1, <3>2, TurnedStays
  <2> QED BY <2>1, <2>2
<1>12. Lists(bs, ms, Waiting(ms, n + 1))
  BY Waits DEF Loop
<1>13. ASSUME NEW j \in 1 .. n, Home(ms, j) < n + 1 PROVE ~Blocks(ms, j)
  <2>1. CASE j = n
    BY <1>8, <2>1 DEF Blocks
  <2>2. CASE j # n
    BY <1>13, <2>2, HomeElsewhere DEF Loop
  <2> QED BY <2>1, <2>2
<1>14. \A j \in 1 .. n : ms[j].role = "system" => ~Unfoldable(ms[j])
  BY ReadOn
<1>15. \A m \in 1 .. Len(os) : \E k \in TurnsUpTo(ms, n - 1) : m = Count(ms, k)
  BY DEF Loop
<1>16. os2 = [os EXCEPT ![c] = WithBlocks(@, BlocksOf(@) \o BlocksOf(ms[n]))]
  BY DEF BlocksOf
<1>17. n + 1 \in 1 .. Len(ms) + 1
  OBVIOUS
<1> HIDE DEF os2
<1>18. Loop(ms, n + 1, os2, bs)
  BY <1>0, <1>2, <1>10, <1>11, <1>12, <1>13, <1>14, <1>15, <1>17 DEF Loop
<1> QED BY <1>16, <1>18

\* FoldAhead
LEMMA LoopAhead ==
  ASSUME NEW ms \in Seq(Message), Distinct(ms), NEW os \in Seq(Message), NEW bs \in Seq(Block),
         NEW n \in 1 .. Len(ms), Loop(ms, n, os, bs),
         ms[n].role = "system", ~Unfoldable(ms[n]), Home(ms, n) > n
  PROVE  Loop(ms, n + 1, os, bs \o BlocksOf(ms[n]))
<1>0. n \in Nat \ {0} /\ n - 1 \in Nat /\ (n + 1) - 1 = n /\ n + 1 \in 1 .. Len(ms) + 1
  OBVIOUS
<1>1. TurnsUpTo(ms, n) = TurnsUpTo(ms, n - 1) /\ Count(ms, n) = Count(ms, n - 1)
  BY <1>0, Counts
<1>2. ASSUME NEW k \in TurnsUpTo(ms, n) PROVE Turned(os[Count(ms, k)], ms, k, n + 1)
  <2>1. Turned(os[Count(ms, k)], ms, k, n)
    BY <1>1 DEF Loop
  <2>2. Home(ms, n) # k
    BY <1>0 DEF TurnsUpTo
  <2> QED BY <2>1, <2>2, TurnedStays
<1>3. Lists(bs \o ms[n].blocks, ms, Waiting(ms, n + 1))
  <2>1. ms[n].blocks \in Seq(Block) /\ Lists(bs, ms, Waiting(ms, n))
    BY PlacesAre, WithBlocksIs DEF Loop
  <2>2. Lists(ms[n].blocks, ms, Own(ms, n)) /\ Own(ms, n) \subseteq Places(ms)
    BY ListsOwn, Arrivals
  <2>3. /\ Waiting(ms, n) \subseteq Places(ms)
        /\ \A p \in Waiting(ms, n), q \in Own(ms, n) : p[1] < q[1]
        /\ Waiting(ms, n + 1) = Waiting(ms, n) \cup Own(ms, n)
    BY Waits
  <2>4. Lists(bs \o ms[n].blocks, ms, Waiting(ms, n) \cup Own(ms, n))
    BY <2>1, <2>2, <2>3, ListsJoin
  <2> QED BY <2>3, <2>4
<1>4. ASSUME NEW j \in 1 .. n, Home(ms, j) < n + 1 PROVE ~Blocks(ms, j)
  <2>1. CASE j = n
    <3>1. Home(ms, n) \in Int
      BY HomeIs
    <3> QED BY <1>0, <1>4, <2>1, <3>1
  <2>2. CASE j # n
    BY <1>4, <2>2, HomeElsewhere DEF Loop
  <2> QED BY <2>1, <2>2
<1>5. \A j \in 1 .. n : ms[j].role = "system" => ~Unfoldable(ms[j])
  BY ReadOn
<1>6. Len(os) = Count(ms, n - 1) /\ \A m \in 1 .. Len(os) : \E k \in TurnsUpTo(ms, n - 1) : m = Count(ms, k)
  BY DEF Loop
<1> QED BY <1>0, <1>1, <1>2, <1>3, <1>4, <1>5, <1>6 DEF Loop, BlocksOf

\* A message that stays a turn: t is what it becomes, cs is what waits then.
LEMMA LoopTurn ==
  ASSUME NEW ms \in Seq(Message), NEW os \in Seq(Message), NEW bs, NEW cs,
         NEW n \in 1 .. Len(ms), Loop(ms, n, os, bs), ms[n].role # "system",
         NEW t \in Message, Turned(t, ms, n, n + 1), Lists(cs, ms, Waiting(ms, n + 1)),
         \A j \in 1 .. n - 1 : Home(ms, j) = n => ~Blocks(ms, j)
  PROVE  Loop(ms, n + 1, Append(os, t), cs)
<1> DEFINE os2 == Append(os, t)
<1>0. n \in Nat \ {0} /\ n - 1 \in Nat /\ (n + 1) - 1 = n /\ n + 1 \in 1 .. Len(ms) + 1
  OBVIOUS
<1>1. /\ TurnsUpTo(ms, n) = TurnsUpTo(ms, n - 1) \cup {n}
      /\ Count(ms, n) = Count(ms, n - 1) + 1 /\ Count(ms, n - 1) \in Nat
  BY <1>0, Counts
<1>2. Len(os) = Count(ms, n - 1)
  BY DEF Loop
<1>3. Len(os2) = Count(ms, n) /\ os2[Count(ms, n)] = t /\ \A m \in 1 .. Len(os) : os2[m] = os[m]
  BY <1>1, <1>2
<1> HIDE DEF os2
<1>4. ASSUME NEW m \in 1 .. Len(os2) PROVE \E k \in TurnsUpTo(ms, n) : m = Count(ms, k)
  <2>1. CASE m = Count(ms, n)
    BY <1>1, <2>1
  <2>2. CASE m # Count(ms, n)
    <3>1. m \in 1 .. Len(os)
      BY <1>1, <1>2, <1>3, <2>2
    <3> QED BY <1>1, <3>1 DEF Loop
  <2> QED BY <2>1, <2>2
<1>5. ASSUME NEW k \in TurnsUpTo(ms, n) PROVE Turned(os2[Count(ms, k)], ms, k, n + 1)
  <2>1. CASE k = n
    BY <1>3, <2>1
  <2>2. CASE k # n
    <3>1. k \in TurnsUpTo(ms, n - 1)
      BY <1>1, <2>2
    <3>2. Count(ms, k) \in 1 .. Len(os)
      BY <1>0, <1>2, <3>1, CountsGrow
    <3>3. Turned(os[Count(ms, k)], ms, k, n)
      BY <3>1 DEF Loop
    <3>4. Home(ms, n) # k
      BY <2>2, HomeIs
    <3> QED BY <1>3, <3>2, <3>3, <3>4, TurnedStays
  <2> QED BY <2>1, <2>2
<1>6. ASSUME NEW j \in 1 .. n, Home(ms, j) < n + 1 PROVE ~Blocks(ms, j)
  <2>1. CASE j = n
    BY <2>1 DEF Blocks
  <2>2. CASE j # n
    <3>1. j \in 1 .. n - 1 /\ j \in 1 .. Len(ms)
      BY <1>0, <2>2
    <3>2. Home(ms, j) \in Int
      BY <3>1, HomeIs
    <3>3. Home(ms, j) < n \/ Home(ms, j) = n
      BY <1>0, <1>6, <3>2
    <3> QED BY <3>1, <3>3 DEF Loop
  <2> QED BY <2>1, <2>2
<1>7. \A j \in 1 .. n : ms[j].role = "system" => ~Unfoldable(ms[j])
  BY ReadOn
<1>8. Loop(ms, n + 1, os2, cs)
  BY <1>0, <1>3, <1>4, <1>5, <1>6, <1>7 DEF Loop
<1> QED BY <1>8 DEF os2

\* Take
LEMMA LoopTake ==
  ASSUME NEW ms \in Seq(Message), Distinct(ms), NEW os \in Seq(Message), NEW bs \in Seq(Block),
         NEW n \in 1 .. Len(ms), Loop(ms, n, os, bs),
         ms[n].role = "user", bs # <<>>, ~Unfoldable(ms[n])
  PROVE  Loop(ms, n + 1, Append(os, WithBlocks(ms[n], bs \o BlocksOf(ms[n]))), <<>>)
<1> DEFINE t == WithBlocks(ms[n], bs \o ms[n].blocks)
<1>1. ms[n] \in Message /\ ms[n].blocks \in Seq(Block) /\ bs \o ms[n].blocks \in Seq(Block)
  BY WithBlocksIs
<1>2. t \in Message /\ t.role = ms[n].role /\ t.shape = "list" /\ t.blocks = bs \o ms[n].blocks
  BY <1>1, WithBlocksIs
<1>3. /\ Arrived(ms, n, n) = Waiting(ms, n) /\ Waiting(ms, n + 1) = {}
      /\ Waiting(ms, n) \subseteq Places(ms)
      /\ \A p \in Waiting(ms, n), q \in Own(ms, n) : p[1] < q[1]
  BY Waits
<1>4. Home(ms, n) = n
  BY HomeIs
<1>5. Arrived(ms, n, n + 1) = Waiting(ms, n) \cup Own(ms, n) /\ Own(ms, n) \subseteq Places(ms)
  BY <1>3, <1>4, Arrivals
<1>6. Lists(bs, ms, Waiting(ms, n)) /\ Lists(ms[n].blocks, ms, Own(ms, n))
  BY ListsOwn DEF Loop
<1>7. Lists(bs \o ms[n].blocks, ms, Arrived(ms, n, n + 1))
  <2>1. Lists(bs \o ms[n].blocks, ms, Waiting(ms, n) \cup Own(ms, n))
    BY <1>1, <1>3, <1>5, <1>6, ListsJoin
  <2> QED BY <1>5, <2>1
<1>8. \E j \in 1 .. (n + 1) - 1 : j # n /\ Home(ms, j) = n
  <2>1. Waiting(ms, n) # {}
    BY <1>6, ListsNone
  <2>2. PICK p \in Places(ms) : p[1] < n /\ Home(ms, p[1]) = n
    BY <1>3, <2>1 DEF Arrived, Residents
  <2>3. p[1] \in 1 .. (n + 1) - 1 /\ p[1] # n
    BY <2>2, PlacesAre
  <2> QED BY <2>2, <2>3
<1>9. Turned(t, ms, n, n + 1)
  <2> HIDE DEF t
  <2> QED BY <1>2, <1>7, <1>8 DEF Turned
<1>10. ASSUME NEW j \in 1 .. n - 1, Home(ms, j) = n PROVE ~Blocks(ms, j)
  <2>1. ms[j].role = "system" => ~Unfoldable(ms[j])
    BY DEF Loop
  <2> QED BY <1>10, <2>1 DEF Blocks
<1>11. Lists(<<>>, ms, Waiting(ms, n + 1))
  BY <1>3 DEF Lists
<1>12. t = WithBlocks(ms[n], bs \o BlocksOf(ms[n]))
  BY DEF BlocksOf
<1> HIDE DEF t
<1>13. ms[n].role # "system"
  OBVIOUS
<1> QED BY <1>2, <1>9, <1>10, <1>11, <1>12, <1>13, LoopTurn

\* Keep
LEMMA LoopKeep ==
  ASSUME NEW ms \in Seq(Message), Distinct(ms), NEW os \in Seq(Message), NEW bs \in Seq(Block),
         NEW n \in 1 .. Len(ms), Loop(ms, n, os, bs),
         ms[n].role # "system", ~(ms[n].role = "user" /\ bs # <<>>)
  PROVE  Loop(ms, n + 1, Append(os, ms[n]), bs)
<1>1. ms[n] \in Message /\ Home(ms, n) = n
  BY HomeIs
<1>2. Lists(bs, ms, Waiting(ms, n))
  BY DEF Loop
<1>3. Arrived(ms, n, n) = {} /\ Lists(bs, ms, Waiting(ms, n + 1))
  <2>1. CASE ms[n].role = "user"
    <3>1. Waiting(ms, n) = {} /\ bs = <<>>
      BY <1>2, <2>1, ListsNone
    <3>2. Waiting(ms, n + 1) = {} /\ Arrived(ms, n, n) = {}
      BY <2>1, <3>1, Waits
    <3> QED BY <3>1, <3>2 DEF Lists
  <2>2. CASE ms[n].role # "user"
    BY <1>2, <2>2, Waits
  <2> QED BY <2>1, <2>2
<1>4. Arrived(ms, n, n + 1) = Own(ms, n)
  <2>1. Arrived(ms, Home(ms, n), n + 1) = Arrived(ms, Home(ms, n), n) \cup Own(ms, n)
    BY Arrivals
  <2> QED BY <1>1, <1>3, <2>1
<1>5. Turned(ms[n], ms, n, n + 1)
  BY <1>4, ListsOwn DEF Turned
<1>6. ASSUME NEW j \in 1 .. n - 1, Home(ms, j) = n PROVE ~Blocks(ms, j)
  <2>1. j \in 1 .. Len(ms) /\ j < n /\ n \in Nat
    OBVIOUS
  <2>2. ms[j].role = "system"
    BY <1>6, <2>1, HomeIs
  <2>3. n \in Users(ms)
    BY <1>6, <2>1, <2>2, HomeIs
  <2>4. Waiting(ms, n) = {}
    <3>1. ms[n].role = "user" /\ bs = <<>>
      BY <2>3 DEF Users
    <3> QED BY <1>2, <3>1, ListsNone
  <2>5. ms[j].blocks = <<>>
    <3> SUFFICES ASSUME ms[j].blocks # <<>> PROVE FALSE
      OBVIOUS
    <3>1. ms[j].blocks \in Seq(Block) /\ 1 \in 1 .. Len(ms[j].blocks)
      BY <2>1, WithBlocksIs
    <3>2. <<j, 1>> \in Places(ms)
      BY <2>1, <3>1, PlacesAre
    <3>3. <<j, 1>> \in Waiting(ms, n)
      BY <1>6, <2>1, <3>2 DEF Waiting
    <3> QED BY <2>4, <3>3
  <2>6. ~Unfoldable(ms[j])
    BY <2>2 DEF Loop
  <2> QED BY <1>6, <2>1, <2>5, <2>6 DEF Blocks
<1> QED BY <1>1, <1>3, <1>5, <1>6, LoopTurn

\* The user turn that FoldBack takes is the home of the message.
LEMMA NearestIsHome ==
  ASSUME NEW ms \in Seq(Message), out \in Seq(Message), NEW bs,
         NEW n \in 1 .. Len(ms), Loop(ms, n, out, bs), ms[n].role = "system"
  PROVE  /\ Users(out) # {} => Home(ms, n) < n /\ Nearest = Count(ms, Home(ms, n))
         /\ Users(out) = {} => Home(ms, n) > n
<1>0. n \in Nat \ {0} /\ n - 1 \in Nat /\ Users(ms) \subseteq Nat
  BY DEF Users, Indices
<1>1. ASSUME NEW m \in Users(out)
      PROVE  \E k \in Users(ms) : k \in TurnsUpTo(ms, n - 1) /\ m = Count(ms, k)
  <2>1. m \in 1 .. Len(out) /\ out[m].role = "user"
    BY DEF Users, Indices
  <2>2. PICK k \in TurnsUpTo(ms, n - 1) : m = Count(ms, k)
    BY <2>1 DEF Loop
  <2>3. ms[k].role = "user"
    BY <2>1, <2>2 DEF Loop, Turned
  <2>4. k \in Users(ms)
    BY <2>3 DEF Users, Indices, TurnsUpTo
  <2> QED BY <2>2, <2>4
<1>2. ASSUME NEW u \in Users(ms), u < n PROVE u \in TurnsUpTo(ms, n - 1) /\ Count(ms, u) \in Users(out)
  <2>1. u \in TurnsUpTo(ms, n - 1) /\ ms[u].role = "user"
    BY <1>2 DEF Users, Indices, TurnsUpTo
  <2>2. Count(ms, u) \in 1 .. Len(out)
    BY <1>0, <2>1, CountsGrow DEF Loop
  <2>3. out[Count(ms, u)].role = "user"
    BY <2>1 DEF Loop, Turned
  <2> QED BY <2>1, <2>2, <2>3 DEF Users, Indices
<1>3. ASSUME Users(out) = {} PROVE Home(ms, n) > n
  BY <1>2, <1>3, HomeIs
<1>4. ASSUME Users(out) # {} PROVE Home(ms, n) < n /\ Nearest = Count(ms, Home(ms, n))
  <2> DEFINE h == Home(ms, n)
             c == Count(ms, h)
  <2>1. \E u \in Users(ms) : u < n
    <3>1. PICK m \in Users(out) : TRUE
      BY <1>4
    <3>2. PICK k \in Users(ms) : k \in TurnsUpTo(ms, n - 1)
      BY <1>1
    <3> QED BY <1>0, <3>2 DEF TurnsUpTo
  <2>2. h < n /\ h \in Users(ms) /\ \A u \in Users(ms) : u < n => u <= h
    BY <2>1, HomeIs DEF Users, Indices
  <2>3. c \in Users(out) /\ h \in TurnsUpTo(ms, n - 1)
    BY <1>2, <2>2
  <2>4. ASSUME NEW m \in Users(out) PROVE m <= c
    <3>1. PICK k \in Users(ms) : k \in TurnsUpTo(ms, n - 1) /\ m = Count(ms, k)
      BY <1>1
    <3>2. k <= h
      BY <1>0, <2>2, <3>1 DEF TurnsUpTo
    <3>3. k < h => m < c
      BY <1>0, <2>3, <3>1, CountsGrow
    <3>4. m \in Nat /\ c \in Nat /\ k \in Nat /\ h \in Nat
      BY <1>0, <2>2, <2>3 DEF Users, Indices
    <3>5. k = h => m = c
      BY <3>1
    <3> HIDE DEF h, c
    <3> QED BY <3>2, <3>3, <3>4, <3>5
  <2>5. \A a, b \in Users(out) : a <= b /\ b <= a => a = b
    BY DEF Users, Indices
  <2> HIDE DEF c, h
  <2>6. Nearest = c
    BY <2>3, <2>4, <2>5 DEF Nearest
  <2> QED BY <2>2, <2>6 DEF c, h
<1> QED BY <1>3, <1>4

\* Finish: after the last message, what the loop has is the reference.
LEMMA LoopEnds ==
  ASSUME NEW ms \in Seq(Message), NEW os \in Seq(Message), NEW bs \in Seq(Block),
         Loop(ms, Len(ms) + 1, os, bs)
  PROVE  LET rs == IF bs = <<>> THEN os ELSE Append(os, UserTurn(bs))
         IN  /\ ~Impossible(ms)
             /\ IsFold(rs, ms)
             /\ \A m \in Indices(rs) : rs[m].role # "system"
<1> DEFINE N  == Len(ms)
           E  == N + 1
           rs == IF bs = <<>> THEN os ELSE Append(os, UserTurn(bs))
           c  == Count(ms, N)
<1>0. N \in Nat /\ E - 1 = N /\ E \in Nat /\ \A k \in 1 .. N : k <= N
  OBVIOUS
<1>1. /\ Len(os) = c /\ c \in Nat /\ \A m \in 1 .. Len(os) : \E k \in TurnsUpTo(ms, N) : m = Count(ms, k)
      /\ \A k \in TurnsUpTo(ms, N) : Turned(os[Count(ms, k)], ms, k, E)
      /\ Lists(bs, ms, Waiting(ms, E))
      /\ \A j \in 1 .. N : Home(ms, j) < E => ~Blocks(ms, j)
      /\ \A j \in 1 .. N : ms[j].role = "system" => ~Unfoldable(ms[j])
  BY <1>0, Counts DEF Loop
<1>2. ~Impossible(ms)
  <2>1. Impossible(ms) => \E j \in 1 .. N : Blocks(ms, j)
    BY DEF Impossible, Blocks, Indices
  <2>2. ASSUME NEW j \in 1 .. N PROVE ~Blocks(ms, j)
    <3>1. Home(ms, j) \in 1 .. E
      BY HomeIs
    <3>2. CASE Home(ms, j) < E
      BY <1>1, <3>2
    <3>3. CASE ~(Home(ms, j) <= N)
      BY <1>1, <3>3 DEF Blocks
    <3> QED BY <1>0, <3>1, <3>2, <3>3
  <2> QED BY <2>1, <2>2
<1>3. /\ Waiting(ms, E) = Residents(ms, E)
      /\ \A k : Arrived(ms, k, E) = Residents(ms, k)
  <2>1. \A p \in Places(ms) : p[1] < E /\ (Home(ms, p[1]) >= E <=> Home(ms, p[1]) = E)
    <3> SUFFICES ASSUME NEW p \in Places(ms)
                 PROVE  p[1] < E /\ (Home(ms, p[1]) >= E <=> Home(ms, p[1]) = E)
      OBVIOUS
    <3>1. p[1] \in 1 .. N
      BY PlacesAre
    <3>2. Home(ms, p[1]) \in 1 .. E
      BY <3>1, HomeIs
    <3> QED BY <3>1, <3>2
  <2> HIDE DEF E
  <2> QED BY <2>1 DEF Waiting, Arrived, Residents
<1>4. bs = <<>> <=> Residents(ms, E) = {}
  BY <1>1, <1>3, ListsNone
<1>5. Turns(ms) = TurnsUpTo(ms, N) \cup (IF bs = <<>> THEN {} ELSE {E})
  <2>1. \A k \in 1 .. E : k <= N <=> k \in 1 .. N
    BY <1>0
  <2>2. \A k \in 1 .. E : k \notin 1 .. N <=> k = E
    BY <1>0
  <2>3. 1 .. N \subseteq 1 .. E /\ E \in 1 .. E
    BY <1>0
  <2>4. Turns(ms) = {k \in 1 .. E : IF k <= N THEN ms[k].role # "system" ELSE Residents(ms, k) # {}}
    BY DEF Turns
  <2>5. TurnsUpTo(ms, N) = {k \in 1 .. N : ms[k].role # "system"}
    BY DEF TurnsUpTo
  <2> HIDE DEF E, N
  <2>6. CASE bs = <<>>
    BY <1>4, <2>1, <2>2, <2>3, <2>4, <2>5, <2>6
  <2>7. CASE bs # <<>>
    BY <1>4, <2>1, <2>2, <2>3, <2>4, <2>5, <2>7
  <2> QED BY <2>6, <2>7
<1>6. IsFiniteSet(TurnsUpTo(ms, N)) /\ E \notin TurnsUpTo(ms, N)
  <2>1. IsFiniteSet(TurnsUpTo(ms, N))
    BY <1>0, Counts
  <2>2. E \notin 1 .. N
    BY <1>0
  <2> QED BY <2>1, <2>2 DEF TurnsUpTo
<1>7. Cardinality(Turns(ms)) = IF bs = <<>> THEN c ELSE c + 1
  <2>1. Cardinality(TurnsUpTo(ms, N) \cup {E}) = Cardinality(TurnsUpTo(ms, N)) + 1
    BY <1>6, FS_AddElement
  <2>2. CASE bs = <<>>
    BY <1>5, <2>2 DEF Count
  <2>3. CASE bs # <<>>
    BY <1>5, <2>1, <2>3 DEF Count
  <2> QED BY <2>2, <2>3
<1>8. ASSUME NEW k \in TurnsUpTo(ms, N) PROVE Position(ms, k) = Count(ms, k) /\ k \in 1 .. N
  <2>1. k \in 1 .. N
    BY DEF TurnsUpTo
  <2>2. {l \in Turns(ms) : l <= k} = TurnsUpTo(ms, k)
    <3>1. \A l : l \in 1 .. k <=> l \in 1 .. N /\ l <= k
      BY <1>0, <2>1
    <3>2. ~(E <= k)
      BY <1>0, <2>1
    <3> HIDE DEF E, N
    <3> QED BY <1>5, <3>1, <3>2 DEF TurnsUpTo
  <2> QED BY <2>1, <2>2 DEF Position, Count
<1>9. ASSUME bs # <<>> PROVE Position(ms, E) = c + 1
  <2>1. {l \in Turns(ms) : l <= E} = Turns(ms)
    <3>1. Turns(ms) \subseteq 1 .. E
      BY DEF Turns
    <3>2. \A l \in 1 .. E : l <= E
      BY <1>0
    <3> HIDE DEF E
    <3> QED BY <3>1, <3>2
  <2> QED BY <1>7, <1>9, <2>1 DEF Position
<1>10. /\ Len(rs) = Cardinality(Turns(ms)) /\ Len(rs) \in Nat
       /\ \A m \in 1 .. c : rs[m] = os[m]
       /\ bs # <<>> => rs[c + 1] = UserTurn(bs)
  <2>1. Len(Append(os, UserTurn(bs))) = c + 1
    BY <1>1
  <2>2. \A m \in 1 .. c : Append(os, UserTurn(bs))[m] = os[m]
    BY <1>1
  <2>3. Append(os, UserTurn(bs))[c + 1] = UserTurn(bs)
    BY <1>1
  <2> HIDE DEF c
  <2> QED BY <1>1, <1>7, <2>1, <2>2, <2>3
<1> HIDE DEF rs
<1>11. ASSUME NEW k \in Turns(ms)
       PROVE  LET turn == rs[Position(ms, k)] IN
              /\ turn.role = (IF k <= Len(ms) THEN ms[k].role ELSE "user")
              /\ Lists(turn.blocks, ms, Residents(ms, k))
              /\ (\A j \in Indices(ms) : Home(ms, j) = k => j = k) => turn = ms[k]
  <2>1. CASE k \in TurnsUpTo(ms, N)
    <3>1. Count(ms, k) \in 1 .. c
      BY <1>0, <2>1, CountsGrow
    <3>2. rs[Position(ms, k)] = os[Count(ms, k)] /\ k \in 1 .. N
      BY <1>8, <1>10, <2>1, <3>1
    <3>3. Turned(os[Count(ms, k)], ms, k, E)
      BY <1>1, <2>1
    <3>4. \A j \in 1 .. E - 1 : j \in Indices(ms)
      BY <1>0 DEF Indices
    <3>5. Lists(os[Count(ms, k)].blocks, ms, Residents(ms, k))
      BY <1>3, <3>3 DEF Turned
    <3>6. os[Count(ms, k)].role = ms[k].role /\ k <= Len(ms)
      BY <3>2, <3>3 DEF Turned
    <3>7. (\A j \in Indices(ms) : Home(ms, j) = k => j = k) => os[Count(ms, k)] = ms[k]
      BY <3>3, <3>4 DEF Turned
    <3> QED BY <3>2, <3>5, <3>6, <3>7
  <2>2. CASE k = E /\ bs # <<>>
    <3>1. rs[Position(ms, k)] = UserTurn(bs)
      BY <1>9, <1>10, <2>2
    <3>2. UserTurn(bs).role = "user" /\ UserTurn(bs).blocks = bs /\ ~(k <= Len(ms))
      BY <1>0, <2>2 DEF UserTurn
    <3>3. Lists(bs, ms, Residents(ms, k))
      BY <1>1, <1>3, <2>2
    <3>4. PICK p \in Places(ms) : Home(ms, p[1]) = k
      BY <1>4, <2>2 DEF Residents
    <3>5. p[1] \in Indices(ms) /\ p[1] # k
      BY <1>0, <2>2, PlacesAre DEF Indices
    <3> QED BY <3>1, <3>2, <3>3, <3>4, <3>5
  <2> QED BY <1>5, <2>1, <2>2
<1>12. IsFold(rs, ms)
  BY <1>10, <1>11 DEF IsFold
<1>13. ASSUME NEW m \in Indices(rs) PROVE rs[m].role # "system"
  <2>1. m \in 1 .. Len(rs)
    BY <1>13 DEF Indices
  <2>2. CASE m \in 1 .. c
    <3>1. PICK k \in TurnsUpTo(ms, N) : m = Count(ms, k)
      BY <1>1, <2>2
    <3>2. Turned(os[m], ms, k, E)
      BY <1>1, <3>1
    <3>3. os[m].role # "system"
      BY <3>2 DEF Turned, TurnsUpTo
    <3> QED BY <1>10, <2>2, <3>3
  <2>3. CASE m \notin 1 .. c
    <3>1. m = c + 1 /\ bs # <<>>
      BY <1>1, <1>7, <1>10, <2>1, <2>3
    <3> QED BY <1>10, <3>1 DEF UserTurn
  <2> QED BY <2>2, <2>3
<1> QED BY <1>2, <1>12, <1>13 DEF rs

-----------------------------------------------------------------------------
(***************************************************************************)
(* Order.                                                                  *)
(***************************************************************************)
\* At every turn of the loop no block of the messages read is lost, doubled or
\* moved past another of its kind.
LEMMA LoopInOrder ==
  ASSUME NEW ms \in Seq(Message), Distinct(ms), NEW os \in Seq(Message), NEW bs \in Seq(Block),
         NEW n \in 1 .. Len(ms) + 1, Loop(ms, n, os, bs)
  PROVE  InOrder(ms, n, Append(os, UserTurn(bs)))
<1> DEFINE kept    == Append(os, UserTurn(bs))
           L       == Len(os)
           H(p)    == Home(ms, p[1])
           Slot(h) == IF h < n THEN Count(ms, h) ELSE L + 1
           Mates(h) == IF h < n THEN Arrived(ms, h, n) ELSE Waiting(ms, n)
<1>0. n \in Nat \ {0} /\ n - 1 \in Nat /\ n - 1 <= Len(ms) /\ L \in Nat
  OBVIOUS
<1>1. /\ kept \in Seq(Message) /\ Len(kept) = L + 1
      /\ kept[L + 1].blocks = bs /\ \A m \in 1 .. L : kept[m] = os[m]
  <2>1. UserTurn(bs) \in Message
    BY DEF UserTurn, Message, Role, Shape
  <2>2. UserTurn(bs).blocks = bs
    BY DEF UserTurn
  <2> QED BY <2>1, <2>2
<1> HIDE DEF kept, L
<1>2. \A p \in Read(ms, n) : /\ p \in Places(ms) /\ p[1] \in 1 .. Len(ms) /\ p[1] < n
                             /\ p[1] \in Nat /\ p[2] \in Nat /\ p = <<p[1], p[2]>>
                             /\ H(p) \in Nat
  <2> SUFFICES ASSUME NEW p \in Read(ms, n)
               PROVE  /\ p \in Places(ms) /\ p[1] \in 1 .. Len(ms) /\ p[1] < n
                      /\ p[1] \in Nat /\ p[2] \in Nat /\ p = <<p[1], p[2]>>
                      /\ H(p) \in Nat
    OBVIOUS
  <2>1. p \in Places(ms) /\ p[1] < n
    BY DEF Read
  <2>2. p[1] \in 1 .. Len(ms) /\ p[1] \in Nat /\ p[2] \in Nat /\ p = <<p[1], p[2]>>
    BY <2>1, PlacesAre
  <2>3. H(p) \in 1 .. Len(ms) + 1
    BY <2>2, HomeIs
  <2> QED BY <2>1, <2>2, <2>3
<1>3. ASSUME NEW k \in TurnsUpTo(ms, n - 1)
      PROVE  Count(ms, k) \in 1 .. L /\ Lists(kept[Count(ms, k)].blocks, ms, Arrived(ms, k, n))
  <2>1. Count(ms, k) \in 1 .. L
    BY <1>0, CountsGrow DEF Loop, L
  <2>2. Turned(os[Count(ms, k)], ms, k, n)
    BY DEF Loop
  <2> QED BY <1>1, <2>1, <2>2 DEF Turned
<1>4. Lists(bs, ms, Waiting(ms, n))
  BY DEF Loop
\* A block that has been read is in the turn of its home, or waits.
<1>5. ASSUME NEW p \in Read(ms, n)
      PROVE  /\ p \in Mates(H(p)) /\ Slot(H(p)) \in 1 .. Len(kept)
             /\ H(p) < n => H(p) \in TurnsUpTo(ms, n - 1)
             /\ Lists(kept[Slot(H(p))].blocks, ms, Mates(H(p)))
  <2>1. CASE H(p) < n
    <3>1. H(p) \in TurnsUpTo(ms, n - 1)
      <4>1. H(p) \in 1 .. n - 1 /\ H(p) <= Len(ms)
        <5>1. H(p) \in 1 .. Len(ms) + 1
          BY <1>2, HomeIs
        <5> QED BY <1>0, <2>1, <5>1
      <4>2. ms[H(p)].role # "system"
        <5>1. CASE ms[p[1]].role # "system"
          BY <1>2, <5>1, HomeIs
        <5>2. CASE ms[p[1]].role = "system"
          BY <1>2, <4>1, <5>2, HomeIs DEF Users
        <5> QED BY <5>1, <5>2
      <4> QED BY <4>1, <4>2 DEF TurnsUpTo
    <3>2. p \in Arrived(ms, H(p), n)
      BY <1>2 DEF Arrived, Residents
    <3>3. Slot(H(p)) = Count(ms, H(p)) /\ Mates(H(p)) = Arrived(ms, H(p), n)
      BY <2>1
    <3>4. Count(ms, H(p)) \in 1 .. Len(kept)
      BY <1>0, <1>1, <1>3, <3>1
    <3> QED BY <1>3, <3>1, <3>2, <3>3, <3>4
  <2>2. CASE ~(H(p) < n)
    <3>1. H(p) >= n
      BY <1>0, <1>2, <2>2
    <3>2. p \in Waiting(ms, n)
      BY <1>2, <3>1 DEF Waiting
    <3>3. Slot(H(p)) = L + 1 /\ Mates(H(p)) = Waiting(ms, n)
      BY <2>2
    <3> QED BY <1>0, <1>1, <1>4, <2>2, <3>2, <3>3
  <2> QED BY <2>1, <2>2
\* Every block kept is one of those, and in that place.
<1>6. ASSUME NEW r \in Places(kept)
      PROVE  /\ r[1] \in 1 .. Len(kept) /\ r[2] \in 1 .. Len(kept[r[1]].blocks)
             /\ r[1] \in Nat /\ r[2] \in Nat /\ r = <<r[1], r[2]>>
             /\ BlockAt(kept, r) = kept[r[1]].blocks[r[2]]
             /\ \E p \in Read(ms, n) : BlockAt(kept, r) = BlockAt(ms, p) /\ r[1] = Slot(H(p))
  <2>1. /\ r[1] \in 1 .. Len(kept) /\ r[2] \in 1 .. Len(kept[r[1]].blocks)
        /\ r[1] \in Nat /\ r[2] \in Nat /\ r = <<r[1], r[2]>>
        /\ BlockAt(kept, r) = kept[r[1]].blocks[r[2]]
    BY <1>1, PlacesAre DEF BlockAt
  <2>2. CASE r[1] \in 1 .. L
    <3>1. PICK k \in TurnsUpTo(ms, n - 1) : r[1] = Count(ms, k)
      BY <2>2 DEF Loop, L
    <3>2. PICK p \in Arrived(ms, k, n) : BlockAt(kept, r) = BlockAt(ms, p)
      BY <1>3, <2>1, <3>1 DEF Lists
    <3>3. p \in Read(ms, n) /\ H(p) = k
      BY <3>2 DEF Arrived, Residents, Read
    <3>4. k < n
      BY <1>0 DEF TurnsUpTo
    <3>5. Slot(H(p)) = r[1]
      BY <3>1, <3>3, <3>4
    <3> HIDE DEF Slot, H
    <3> QED BY <2>1, <3>2, <3>3, <3>5
  <2>3. CASE r[1] \notin 1 .. L
    <3>1. r[1] = L + 1
      BY <1>0, <1>1, <2>1, <2>3
    <3>2. PICK p \in Waiting(ms, n) : BlockAt(kept, r) = BlockAt(ms, p)
      BY <1>1, <1>4, <2>1, <3>1 DEF Lists
    <3>3. p \in Read(ms, n) /\ H(p) >= n
      BY <3>2 DEF Waiting, Read
    <3>4. ~(H(p) < n)
      BY <1>0, <1>2, <3>3
    <3>5. Slot(H(p)) = r[1]
      BY <3>1, <3>4
    <3> HIDE DEF Slot, H
    <3> QED BY <2>1, <3>2, <3>3, <3>5
  <2> QED BY <2>1, <2>2, <2>3
<1>7. ASSUME NEW r \in Places(kept), NEW p \in Read(ms, n), BlockAt(kept, r) = BlockAt(ms, p)
      PROVE  r[1] = Slot(H(p))
  <2>1. PICK q \in Read(ms, n) : BlockAt(kept, r) = BlockAt(ms, q) /\ r[1] = Slot(H(q))
    BY <1>6
  <2>2. p = q
    BY <1>2, <1>7, <2>1 DEF Distinct
  <2> QED BY <2>1, <2>2
\* The turns are in the order of the homes.
<1>8. ASSUME NEW p \in Read(ms, n), NEW q \in Read(ms, n), H(p) < H(q),
             ms[p[1]].role = "system" <=> ms[q[1]].role = "system"
      PROVE  Slot(H(p)) < Slot(H(q)) /\ p[1] < q[1]
  <2>1. /\ p[1] \in 1 .. Len(ms) /\ q[1] \in 1 .. Len(ms) /\ p[1] \in Nat /\ q[1] \in Nat
        /\ p[1] < n /\ q[1] < n /\ H(p) \in Nat /\ H(q) \in Nat
    BY <1>2
  <2>2. p[1] < q[1]
    <3>1. CASE ms[p[1]].role # "system"
      <4>1. H(p) = p[1] /\ H(q) = q[1]
        BY <1>8, <2>1, <3>1, HomeIs
      <4> QED BY <1>8, <4>1
    <3>2. CASE ms[p[1]].role = "system"
      <4>1. ~(q[1] < p[1])
        <5> SUFFICES ASSUME q[1] < p[1] PROVE H(q) <= H(p)
          BY <1>8, <2>1
        <5> QED BY <1>8, <2>1, <3>2, HomesInOrder
      <4>2. q[1] # p[1]
        BY <1>8, <2>1
      <4> QED BY <2>1, <4>1, <4>2
    <3> QED BY <3>1, <3>2
  <2>3. H(p) < n
    <3> SUFFICES ASSUME H(p) >= n PROVE FALSE
      BY <1>0, <2>1
    <3>1. ms[p[1]].role = "system"
      BY <1>0, <2>1, HomeIs
    <3>2. H(p) >= q[1]
      BY <1>0, <2>1
    <3>3. H(p) = H(q)
      BY <1>8, <2>1, <2>2, <3>1, <3>2, HomesInOrder
    <3> QED BY <1>8, <2>1, <3>3
  <2>4. H(p) \in TurnsUpTo(ms, n - 1) /\ Slot(H(p)) = Count(ms, H(p)) /\ Count(ms, H(p)) \in 1 .. L
    BY <1>3, <1>5, <2>3
  <2>5. CASE H(q) < n
    <3>1. H(q) \in TurnsUpTo(ms, n - 1) /\ Slot(H(q)) = Count(ms, H(q))
      BY <1>5, <2>5
    <3>2. Count(ms, H(p)) < Count(ms, H(q))
      BY <1>0, <1>8, <2>4, <3>1, CountsGrow
    <3> QED BY <2>2, <2>4, <3>1, <3>2
  <2>6. CASE ~(H(q) < n)
    <3>1. Slot(H(q)) = L + 1
      BY <2>6
    <3> QED BY <1>0, <2>2, <2>4, <3>1
  <2> QED BY <2>5, <2>6
<1>9. ASSUME NEW r \in Places(kept), NEW s \in Places(kept), NEW p \in Read(ms, n), NEW q \in Read(ms, n),
             BlockAt(kept, r) = BlockAt(ms, p), BlockAt(kept, s) = BlockAt(ms, q),
             ms[p[1]].role = "system" <=> ms[q[1]].role = "system"
      PROVE  Before(r, s) <=> Before(p, q)
  <2>0. /\ r[1] = Slot(H(p)) /\ s[1] = Slot(H(q)) /\ H(p) \in Nat /\ H(q) \in Nat
        /\ r[1] \in Nat /\ s[1] \in Nat /\ p[1] \in Nat /\ q[1] \in Nat
    BY <1>2, <1>6, <1>7, <1>9
  <2>1. CASE H(p) < H(q)
    <3>1. r[1] < s[1] /\ p[1] < q[1]
      BY <1>8, <1>9, <2>0, <2>1
    <3> QED BY <3>1 DEF Before
  <2>2. CASE H(q) < H(p)
    <3>1. s[1] < r[1] /\ q[1] < p[1]
      BY <1>8, <1>9, <2>0, <2>2
    <3>2. ~Before(r, s) /\ ~Before(p, q)
      BY <2>0, <3>1 DEF Before
    <3> QED BY <3>2
  <2>3. CASE H(p) = H(q)
    <3>1. p \in Mates(H(p)) /\ q \in Mates(H(p)) /\ r[1] = s[1]
      BY <1>5, <2>0, <2>3
    <3>2. Lists(kept[r[1]].blocks, ms, Mates(H(p)))
      BY <1>5, <2>0
    <3>3. /\ r[2] \in 1 .. Len(kept[r[1]].blocks) /\ s[2] \in 1 .. Len(kept[r[1]].blocks)
          /\ kept[r[1]].blocks[r[2]] = BlockAt(ms, p) /\ kept[r[1]].blocks[s[2]] = BlockAt(ms, q)
      BY <1>6, <1>9, <3>1
    <3>4. r[2] < s[2] <=> Before(p, q)
      <4> DEFINE bs1 == kept[r[1]].blocks
                 P   == Mates(H(p))
      <4>1. /\ Lists(bs1, ms, P) /\ p \in P /\ q \in P
            /\ r[2] \in 1 .. Len(bs1) /\ s[2] \in 1 .. Len(bs1)
            /\ bs1[r[2]] = BlockAt(ms, p) /\ bs1[s[2]] = BlockAt(ms, q)
        BY <3>1, <3>2, <3>3
      <4> HIDE DEF bs1, P
      <4> QED BY <4>1, ListsOrder
    <3>5. Before(r, s) <=> r[2] < s[2]
      BY <2>0, <3>1 DEF Before
    <3> QED BY <3>4, <3>5
  <2> HIDE DEF H, Slot
  <2> QED BY <2>0, <2>1, <2>2, <2>3
<1>10. ASSUME NEW p \in Read(ms, n) PROVE \E r \in Places(kept) : BlockAt(kept, r) = BlockAt(ms, p)
  <2>1. PICK m \in 1 .. Len(kept[Slot(H(p))].blocks) : kept[Slot(H(p))].blocks[m] = BlockAt(ms, p)
    <3> HIDE DEF Mates, Slot, H
    <3> QED BY <1>5 DEF Lists
  <2>2. Slot(H(p)) \in 1 .. Len(kept)
    BY <1>5
  <2> HIDE DEF Slot, H
  <2>3. <<Slot(H(p)), m>> \in Places(kept) /\ BlockAt(kept, <<Slot(H(p)), m>>) = BlockAt(ms, p)
    BY <1>1, <2>1, <2>2, PlacesAre
  <2> QED BY <2>3
<1>11. InOrder(ms, n, kept)
  <2>1. \A r \in Places(kept) : \E p \in Read(ms, n) : BlockAt(kept, r) = BlockAt(ms, p)
    BY <1>6
  <2> HIDE DEF Slot, H, Mates
  <2> QED BY <1>9, <1>10, <2>1 DEF InOrder
<1> QED BY <1>11 DEF kept

\* The messages before n as a list of their own.
LEMMA ReadIsPrefix ==
  ASSUME NEW ms \in Seq(Message), NEW n \in 1 .. Len(ms) + 1
  PROVE  /\ Places(SubSeq(ms, 1, n - 1)) = Read(ms, n)
         /\ \A p \in Read(ms, n) : BlockAt(SubSeq(ms, 1, n - 1), p) = BlockAt(ms, p)
         /\ Read(ms, Len(ms) + 1) = Places(ms)
<1> DEFINE ss == SubSeq(ms, 1, n - 1)
<1>1. ss \in Seq(Message) /\ Len(ss) = n - 1 /\ \A m \in 1 .. n - 1 : ss[m] = ms[m]
  OBVIOUS
<1>2. \A m : m \in 1 .. n - 1 <=> m \in 1 .. Len(ms) /\ m < n
  OBVIOUS
<1> HIDE DEF ss
<1>3. ASSUME NEW p \in Places(ss) PROVE p \in Read(ms, n)
  <2>1. p[1] \in 1 .. n - 1 /\ p[2] \in 1 .. Len(ss[p[1]].blocks) /\ p = <<p[1], p[2]>>
    BY <1>1, PlacesAre
  <2>2. p[1] \in 1 .. Len(ms) /\ p[1] < n /\ p[2] \in 1 .. Len(ms[p[1]].blocks)
    BY <1>1, <1>2, <2>1
  <2>3. p \in Places(ms)
    BY <2>1, <2>2, PlacesAre
  <2> QED BY <2>2, <2>3 DEF Read
<1>4. ASSUME NEW p \in Read(ms, n) PROVE p \in Places(ss) /\ BlockAt(ss, p) = BlockAt(ms, p)
  <2>1. /\ p[1] \in 1 .. Len(ms) /\ p[1] < n /\ p[2] \in 1 .. Len(ms[p[1]].blocks)
        /\ p = <<p[1], p[2]>>
    BY PlacesAre DEF Read
  <2>2. p[1] \in 1 .. n - 1 /\ ss[p[1]] = ms[p[1]]
    BY <1>1, <1>2, <2>1
  <2>3. <<p[1], p[2]>> \in Places(ss)
    BY <1>1, <2>1, <2>2, PlacesAre
  <2> QED BY <2>1, <2>2, <2>3 DEF BlockAt
<1>5. Read(ms, Len(ms) + 1) = Places(ms)
  <2>1. \A p \in Places(ms) : p[1] < Len(ms) + 1
    BY PlacesAre
  <2> QED BY <2>1 DEF Read
<1>6. Places(ss) = Read(ms, n) /\ \A p \in Read(ms, n) : BlockAt(ss, p) = BlockAt(ms, p)
  BY <1>3, <1>4
<1> QED BY <1>5, <1>6 DEF ss

\* Nothing changes when no block waits, and the body as it came is in order.
LEMMA InOrderWithout ==
  ASSUME NEW ms \in Seq(Message), NEW n, NEW os \in Seq(Message),
         InOrder(ms, n, Append(os, UserTurn(<<>>)))
  PROVE  InOrder(ms, n, os)
<1> DEFINE kept == Append(os, UserTurn(<<>>))
<1>1. /\ kept \in Seq(Message) /\ Len(kept) = Len(os) + 1 /\ Len(os) \in Nat
      /\ \A m \in 1 .. Len(os) : kept[m] = os[m]
      /\ kept[Len(os) + 1].blocks = <<>>
  <2>1. UserTurn(<<>>) \in Message
    BY DEF UserTurn, Message, Role, Shape
  <2>2. UserTurn(<<>>).blocks = <<>>
    BY DEF UserTurn
  <2> QED BY <2>1, <2>2
<1> HIDE DEF kept
<1>2. ASSUME NEW p \in Places(kept) PROVE p \in Places(os) /\ BlockAt(kept, p) = BlockAt(os, p)
  <2>1. p[1] \in 1 .. Len(kept) /\ p[2] \in 1 .. Len(kept[p[1]].blocks) /\ p = <<p[1], p[2]>>
    BY <1>1, PlacesAre
  <2>2. p[1] # Len(os) + 1
    <3> SUFFICES ASSUME p[1] = Len(os) + 1 PROVE FALSE
      OBVIOUS
    <3>1. p[2] \in 1 .. Len(<<>>)
      BY <1>1, <2>1
    <3> QED BY <3>1
  <2>3. p[1] \in 1 .. Len(os)
    BY <1>1, <2>1, <2>2
  <2>4. <<p[1], p[2]>> \in Places(os)
    BY <1>1, <2>1, <2>3, PlacesAre
  <2> QED BY <1>1, <2>1, <2>3, <2>4 DEF BlockAt
<1>3. ASSUME NEW p \in Places(os) PROVE p \in Places(kept)
  <2>1. p[1] \in 1 .. Len(os) /\ p[2] \in 1 .. Len(os[p[1]].blocks) /\ p = <<p[1], p[2]>>
    BY PlacesAre
  <2>2. p[1] \in 1 .. Len(kept) /\ kept[p[1]] = os[p[1]]
    BY <1>1, <2>1
  <2>3. <<p[1], p[2]>> \in Places(kept)
    BY <1>1, <2>1, <2>2, PlacesAre
  <2> QED BY <2>1, <2>3
<1>4. InOrder(ms, n, kept)
  BY DEF kept
<1>5. Places(kept) = Places(os) /\ \A p \in Places(os) : BlockAt(kept, p) = BlockAt(os, p)
  BY <1>2, <1>3
<1> QED BY <1>4, <1>5 DEF InOrder

LEMMA InOrderItself ==
  ASSUME NEW ms \in Seq(Message), Distinct(ms)
  PROVE  InOrder(ms, Len(ms) + 1, ms)
<1>1. Len(ms) + 1 \in 1 .. Len(ms) + 1
  OBVIOUS
<1>2. Read(ms, Len(ms) + 1) = Places(ms)
  BY <1>1, ReadIsPrefix
<1> QED BY <1>2 DEF InOrder, Distinct

\* What is in order is told apart again.
LEMMA InOrderDistinct ==
  ASSUME NEW ms, NEW n, NEW kept \in Seq(Message), InOrder(ms, n, kept)
  PROVE  Distinct(kept)
<1> SUFFICES ASSUME NEW r \in Places(kept), NEW s \in Places(kept), BlockAt(kept, r) = BlockAt(kept, s)
             PROVE  r = s
  BY DEF Distinct
<1>1. PICK p \in Read(ms, n) : BlockAt(kept, r) = BlockAt(ms, p)
  BY DEF InOrder
<1>2. /\ Before(r, s) <=> Before(p, p)
      /\ Before(s, r) <=> Before(p, p)
      /\ Before(r, r) <=> Before(p, p)
  BY <1>1 DEF InOrder
<1>3. /\ r = <<r[1], r[2]>> /\ r[1] \in Nat /\ r[2] \in Nat
      /\ s = <<s[1], s[2]>> /\ s[1] \in Nat /\ s[2] \in Nat
  BY PlacesAre
<1>4. ~Before(r, r) /\ (Before(r, s) \/ Before(s, r) \/ r = s)
  <2> DEFINE r1 == r[1]  r2 == r[2]  s1 == s[1]  s2 == s[2]
  <2>1. ~Before(<<r1, r2>>, <<r1, r2>>)
    BY <1>3, BeforeOrders
  <2>2. Before(<<r1, r2>>, <<s1, s2>>) \/ Before(<<s1, s2>>, <<r1, r2>>) \/ <<r1, r2>> = <<s1, s2>>
    BY <1>3, BeforeOrders
  <2> QED BY <1>3, <2>1, <2>2
<1> QED BY <1>2, <1>4

-----------------------------------------------------------------------------
(***************************************************************************)
(* The steps of Fold.                                                      *)
(***************************************************************************)
LEMMA FoldInit == Init => FoldInv
<1> SUFFICES ASSUME Init PROVE FoldInv
  OBVIOUS
<1>1. TypeInv
  BY MessagesAssumption DEF Init, TypeInv
<1>2. doc # None => Distinct(doc)
  BY BlockAssumption DEF Init, Distinct
<1> QED BY <1>1, <1>2 DEF Init, FoldInv, HopInv, LoopInv, DoneInv, OrderInv

\* Where the body goes on as it came, nothing can or need be folded.
LEMMA UnchangedStep ==
  ASSUME FoldInv, Unchanged, ~Foldable
  PROVE  FoldInv'
<1> USE DEF FoldInv, Unchanged
<1>1. TypeInv'
  BY DEF TypeInv
<1>2. (doc # None => Distinct(doc))' /\ HopInv' /\ LoopInv'
  BY DEF HopInv, LoopInv, Foldable, ToFold
<1>3. ~Foldable' /\ (~ToFold \/ Impossible(doc))'
  BY DEF Foldable, ToFold
<1>4. DoneInv'
  BY <1>3 DEF DoneInv, MatchesReference
<1>5. OrderInv'
  <2> SUFFICES ASSUME doc # None PROVE InOrder(doc, Len(doc) + 1, doc)
    BY DEF OrderInv
  <2> QED BY InOrderItself DEF TypeInv
<1> QED BY <1>1, <1>2, <1>4, <1>5

\* A step of the loop.
LEMMA AdvanceStep ==
  ASSUME FoldInv, AtMessage, Advance, out' \in Seq(Message), pending' \in Seq(Block), folded' \in Nat,
         Loop(doc, i + 1, out', pending')
  PROVE  FoldInv'
<1> USE DEF FoldInv, Advance, AtMessage
<1>1. TypeInv'
  BY DEF TypeInv
<1>2. (doc # None => Distinct(doc))' /\ HopInv' /\ DoneInv' /\ OrderInv'
  BY DEF HopInv, DoneInv, OrderInv, Foldable, ToFold
<1>3. LoopInv'
  BY DEF LoopInv, ToFold
<1> QED BY <1>1, <1>2, <1>3

LEMMA LoopStarts ==
  ASSUME NEW ms \in Seq(Message)
  PROVE  Loop(ms, 1, <<>>, <<>>)
<1>1. TurnsUpTo(ms, 0) = {} /\ Count(ms, 0) = 0
  <2>1. TurnsUpTo(ms, 0) = {}
    BY DEF TurnsUpTo
  <2> QED BY <2>1, Counts
<1>2. Lists(<<>>, ms, Waiting(ms, 1))
  <2>1. \A p \in Places(ms) : ~(p[1] < 1)
    BY PlacesAre
  <2>2. Waiting(ms, 1) = {}
    BY <2>1 DEF Waiting
  <2> QED BY <2>2 DEF Lists
<1>3. 1 - 1 = 0 /\ 1 \in 1 .. Len(ms) + 1 /\ Len(<<>>) = 0 /\ \A m : m \notin 1 .. 0
  OBVIOUS
<1> QED BY <1>1, <1>2, <1>3 DEF Loop

\* Where the loop is at a message.
LEMMA AtLoop ==
  ASSUME FoldInv, AtMessage
  PROVE  /\ doc \in Seq(Message) /\ Distinct(doc) /\ ToFold
         /\ i \in 1 .. Len(doc) /\ doc[i] \in Message
         /\ out \in Seq(Message) /\ pending \in Seq(Block) /\ folded \in Nat
         /\ Loop(doc, i, out, pending)
<1>1. doc \in Seq(Message) /\ ToFold /\ Loop(doc, i, out, pending)
  BY DEF FoldInv, TypeInv, LoopInv, AtMessage, ToFold
<1>2. i \in 1 .. Len(doc) + 1
  BY <1>1 DEF Loop
<1>3. i \in 1 .. Len(doc)
  BY <1>1, <1>2 DEF AtMessage
<1> QED BY <1>1, <1>3 DEF FoldInv, TypeInv, ToFold

LEMMA FoldBackStep == FoldInv /\ FoldBack => FoldInv'
<1> SUFFICES ASSUME FoldInv, FoldBack PROVE FoldInv'
  OBVIOUS
<1>0. AtMessage /\ Advance /\ doc[i].role = "system" /\ Users(out) # {}
  BY DEF FoldBack
<1>1. /\ doc \in Seq(Message) /\ Distinct(doc) /\ i \in 1 .. Len(doc) /\ doc[i] \in Message
      /\ out \in Seq(Message) /\ pending \in Seq(Block) /\ folded \in Nat
      /\ Loop(doc, i, out, pending)
  BY <1>0, AtLoop
<1>2. Home(doc, i) < i /\ Nearest = Count(doc, Home(doc, i))
  BY <1>0, <1>1, NearestIsHome
<1>3. Loop(doc, i + 1,
           [out EXCEPT ![Nearest] = WithBlocks(@, BlocksOf(@) \o BlocksOf(doc[i]))], pending)
  BY <1>0, <1>1, <1>2, LoopBack DEF FoldBack
<1>4. out' \in Seq(Message)
  <2>1. ASSUME NEW m \in Message PROVE WithBlocks(m, BlocksOf(m) \o BlocksOf(doc[i])) \in Message
    <3>1. m.blocks \in Seq(Block) /\ doc[i].blocks \in Seq(Block)
      BY <1>1, WithBlocksIs
    <3>2. m.blocks \o doc[i].blocks \in Seq(Block)
      BY <3>1
    <3> QED BY <3>2, WithBlocksIs DEF BlocksOf
  <2> DEFINE t == WithBlocks(out[Nearest], BlocksOf(out[Nearest]) \o BlocksOf(doc[i]))
  <2>2. out' = [out EXCEPT ![Nearest] = t]
    BY DEF FoldBack
  <2>3. Nearest \in 1 .. Len(out)
    <3>1. Home(doc, i) \in TurnsUpTo(doc, i - 1)
      <4>1. Home(doc, i) \in Users(doc)
        BY <1>0, <1>1, <1>2, HomeIs
      <4> QED BY <1>1, <1>2, <4>1 DEF TurnsUpTo, Users, Indices
    <3>2. i - 1 \in Nat /\ Len(out) = Count(doc, i - 1)
      BY <1>1 DEF Loop
    <3> QED BY <1>2, <3>1, <3>2, CountsGrow
  <2>4. t \in Message
    BY <1>1, <2>1, <2>3
  <2> DEFINE c == Nearest
  <2> HIDE DEF t, c
  <2>5. ASSUME NEW c1 \in 1 .. Len(out) PROVE [out EXCEPT ![c1] = t] \in Seq(Message)
    BY <1>1, <2>4
  <2> QED BY <2>2, <2>3, <2>5
<1>5. pending' = pending /\ folded' \in Nat
  BY <1>1 DEF FoldBack
<1> QED BY <1>0, <1>1, <1>3, <1>4, <1>5, AdvanceStep DEF FoldBack

LEMMA FoldAheadStep == FoldInv /\ FoldAhead => FoldInv'
<1> SUFFICES ASSUME FoldInv, FoldAhead PROVE FoldInv'
  OBVIOUS
<1>0. AtMessage /\ Advance /\ doc[i].role = "system" /\ Users(out) = {}
  BY DEF FoldAhead
<1>1. /\ doc \in Seq(Message) /\ Distinct(doc) /\ i \in 1 .. Len(doc) /\ doc[i] \in Message
      /\ out \in Seq(Message) /\ pending \in Seq(Block) /\ folded \in Nat
      /\ Loop(doc, i, out, pending)
  BY <1>0, AtLoop
<1>2. Home(doc, i) > i
  BY <1>0, <1>1, NearestIsHome
<1>3. Loop(doc, i + 1, out, pending \o BlocksOf(doc[i]))
  BY <1>0, <1>1, <1>2, LoopAhead DEF FoldAhead
<1>4. out' = out /\ pending' = pending \o BlocksOf(doc[i]) /\ folded' \in Nat
  BY <1>1 DEF FoldAhead
<1>5. pending' \in Seq(Block)
  BY <1>1, <1>4, WithBlocksIs DEF BlocksOf
<1> QED BY <1>0, <1>1, <1>3, <1>4, <1>5, AdvanceStep

LEMMA TakeStep == FoldInv /\ Take => FoldInv'
<1> SUFFICES ASSUME FoldInv, Take PROVE FoldInv'
  OBVIOUS
<1>0. /\ AtMessage /\ Advance /\ doc[i].role = "user" /\ pending # <<>> /\ ~Unfoldable(doc[i])
      /\ out' = Append(out, WithBlocks(doc[i], pending \o BlocksOf(doc[i])))
      /\ pending' = <<>> /\ folded' = folded
  BY DEF Take
<1>1. /\ doc \in Seq(Message) /\ Distinct(doc) /\ i \in 1 .. Len(doc) /\ doc[i] \in Message
      /\ out \in Seq(Message) /\ pending \in Seq(Block) /\ folded \in Nat
      /\ Loop(doc, i, out, pending)
  BY <1>0, AtLoop
<1>2. Loop(doc, i + 1, out', pending')
  BY <1>0, <1>1, LoopTake
<1>3. out' \in Seq(Message) /\ pending' \in Seq(Block)
  <2>1. pending \o BlocksOf(doc[i]) \in Seq(Block)
    BY <1>1, WithBlocksIs DEF BlocksOf
  <2>2. WithBlocks(doc[i], pending \o BlocksOf(doc[i])) \in Message
    BY <1>1, <2>1, WithBlocksIs
  <2> QED BY <1>0, <1>1, <2>2
<1> QED BY <1>0, <1>1, <1>2, <1>3, AdvanceStep

LEMMA KeepStep == FoldInv /\ Keep => FoldInv'
<1> SUFFICES ASSUME FoldInv, Keep PROVE FoldInv'
  OBVIOUS
<1>0. /\ AtMessage /\ Advance /\ doc[i].role # "system" /\ ~(doc[i].role = "user" /\ pending # <<>>)
      /\ out' = Append(out, doc[i]) /\ pending' = pending /\ folded' = folded
  BY DEF Keep
<1>1. /\ doc \in Seq(Message) /\ Distinct(doc) /\ i \in 1 .. Len(doc) /\ doc[i] \in Message
      /\ out \in Seq(Message) /\ pending \in Seq(Block) /\ folded \in Nat
      /\ Loop(doc, i, out, pending)
  BY <1>0, AtLoop
<1>2. Loop(doc, i + 1, out', pending')
  BY <1>0, <1>1, LoopKeep
<1>3. out' \in Seq(Message)
  BY <1>0, <1>1
<1> QED BY <1>0, <1>1, <1>2, <1>3, AdvanceStep

\* The loop gives up only on what no fold could do.
LEMMA GiveUpStep == FoldInv /\ GiveUp => FoldInv'
<1> SUFFICES ASSUME FoldInv, GiveUp PROVE FoldInv'
  OBVIOUS
<1>0. AtMessage /\ Unchanged
  BY DEF GiveUp
<1>1. /\ doc \in Seq(Message) /\ i \in 1 .. Len(doc)
      /\ out \in Seq(Message) /\ pending \in Seq(Block) /\ Loop(doc, i, out, pending)
  BY <1>0, AtLoop
<1>2. i \in Indices(doc) /\ Indices(doc) = 1 .. Len(doc)
  BY <1>1 DEF Indices
<1>3. CASE doc[i].role = "system" /\ Unfoldable(doc[i])
  BY <1>0, <1>2, <1>3, UnchangedStep DEF Foldable, Impossible
<1>4. CASE doc[i].role = "system" /\ Users(out) # {} /\ Unfoldable(out[Nearest])
  <2> DEFINE h == Home(doc, i)
  <2>1. h < i /\ Nearest = Count(doc, h)
    BY <1>1, <1>4, NearestIsHome
  <2>2. h \in 1 .. Len(doc) + 1 /\ (h <= Len(doc) => h \in Users(doc))
    BY <1>1, <1>4, HomeIs
  <2>3. h <= Len(doc) /\ h \in TurnsUpTo(doc, i - 1)
    BY <1>1, <2>1, <2>2 DEF TurnsUpTo, Users
  <2>4. Turned(out[Nearest], doc, h, i)
    BY <1>1, <2>1, <2>3 DEF Loop
  <2>5. Unfoldable(doc[h])
    BY <1>4, <2>4 DEF Turned, Unfoldable
  <2>6. Impossible(doc)
    BY <1>2, <1>4, <2>1, <2>3, <2>5 DEF Impossible
  <2> QED BY <1>0, <2>6, UnchangedStep DEF Foldable
<1>5. CASE doc[i].role = "user" /\ pending # <<>> /\ Unfoldable(doc[i])
  <2>1. Waiting(doc, i) # {}
    BY <1>1, <1>5, ListsNone DEF Loop
  <2>2. PICK p \in Places(doc) : p[1] < i /\ Home(doc, p[1]) = i
    BY <1>1, <1>5, <2>1, Waits DEF Arrived, Residents
  <2>3. /\ p[1] \in Indices(doc) /\ p[1] \in 1 .. Len(doc)
        /\ p[1] \in Nat /\ p[2] \in 1 .. Len(doc[p[1]].blocks)
    BY <1>1, <1>2, PlacesAre
  <2>4. doc[p[1]].role = "system"
    BY <1>1, <2>2, <2>3, HomeIs
  <2>5. doc[p[1]].blocks # <<>>
    BY <2>3
  <2>6. Home(doc, p[1]) <= Len(doc)
    BY <1>1, <2>2
  <2>7. Impossible(doc)
    BY <1>5, <2>2, <2>3, <2>4, <2>5, <2>6 DEF Impossible
  <2> QED BY <1>0, <2>7, UnchangedStep DEF Foldable
<1> QED BY <1>3, <1>4, <1>5 DEF GiveUp

LEMMA FinishStep == FoldInv /\ Finish => FoldInv'
<1> SUFFICES ASSUME FoldInv, Finish PROVE FoldInv'
  OBVIOUS
<1> USE DEF FoldInv, Finish
<1>1. /\ doc \in Seq(Message) /\ doc # None /\ ToFold /\ Loop(doc, i, out, pending)
      /\ out \in Seq(Message) /\ pending \in Seq(Block)
  BY DEF TypeInv, LoopInv, ToFold
<1>2. i = Len(doc) + 1 /\ i \in 1 .. Len(doc) + 1
  <2>1. i \in 1 .. Len(doc) + 1
    BY <1>1 DEF Loop
  <2> QED BY <1>1, <2>1
<1>3. /\ ~Impossible(doc) /\ IsFold(result', doc)
      /\ \A m \in Indices(result') : result'[m].role # "system"
  BY <1>1, <1>2, LoopEnds
<1>4. UserTurn(pending) \in Message
  BY <1>1 DEF UserTurn, Message, Role, Shape
<1>5. result' \in Seq(Message)
  BY <1>1, <1>4
<1>6. InOrder(doc, Len(doc) + 1, result')
  <2>1. InOrder(doc, Len(doc) + 1, Append(out, UserTurn(pending)))
    BY <1>1, <1>2, LoopInOrder
  <2>2. pending = <<>> => InOrder(doc, Len(doc) + 1, out)
    BY <1>1, <2>1, InOrderWithout
  <2> QED BY <2>1, <2>2
<1>7. TypeInv'
  BY <1>5 DEF TypeInv
<1>8. (doc # None => Distinct(doc))' /\ HopInv' /\ LoopInv'
  BY DEF HopInv, LoopInv, Foldable, ToFold
<1>9. DoneInv' /\ OrderInv'
  BY <1>1, <1>3, <1>6 DEF DoneInv, MatchesReference, OrderInv, Foldable, ToFold
<1> QED BY <1>7, <1>8, <1>9

\* The next router gets a body whose blocks are told apart and that it has no
\* need to fold, or no way to.
LEMMA NextHopStep == FoldInv /\ NextHop => FoldInv'
<1> SUFFICES ASSUME FoldInv, NextHop PROVE FoldInv'
  OBVIOUS
<1> USE DEF FoldInv, NextHop
<1>1. TypeInv'
  BY DEF TypeInv
<1>2. ~Foldable => result = doc
  BY DEF DoneInv, MatchesReference, Foldable
<1>3. (doc # None => Distinct(doc))'
  <2> SUFFICES ASSUME result # None PROVE Distinct(result)
    OBVIOUS
  <2>1. doc # None
    BY <1>2 DEF Foldable, ToFold
  <2>2. InOrder(doc, Len(doc) + 1, result) /\ result \in Seq(Message)
    BY <2>1 DEF OrderInv, TypeInv
  <2> QED BY <2>2, InOrderDistinct
<1>4. ~Foldable'
  <2>1. CASE ~Foldable
    BY <1>2, <2>1 DEF Foldable, ToFold
  <2>2. CASE Foldable
    BY <2>2 DEF DoneInv, Foldable, ToFold
  <2> QED BY <2>1, <2>2
<1> QED BY <1>1, <1>3, <1>4 DEF HopInv, LoopInv, DoneInv, OrderInv

LEMMA FoldStep == FoldInv /\ [Next]_vars => FoldInv'
<1> SUFFICES ASSUME FoldInv, [Next]_vars PROVE FoldInv'
  OBVIOUS
<1>1. CASE Refuse \/ Accept
  BY <1>1 DEF FoldInv, Refuse, Accept, TypeInv, HopInv, LoopInv, DoneInv, OrderInv, Foldable, ToFold
<1>2. CASE PassThrough
  BY <1>2, UnchangedStep DEF PassThrough, Foldable
<1>3. CASE Parse
  <2> USE DEF FoldInv, Parse
  <2>1. doc \in Seq(Message)
    BY <1>3 DEF TypeInv, ToFold
  <2>2. Loop(doc, i, out, pending)
    BY <1>3, <2>1, LoopStarts DEF LoopInv
  <2> QED BY <1>3, <2>2 DEF TypeInv, HopInv, LoopInv, DoneInv, OrderInv, Foldable, ToFold
<1>4. CASE UNCHANGED vars
  BY <1>4 DEF vars, FoldInv, TypeInv, HopInv, LoopInv, DoneInv, MatchesReference, OrderInv, Foldable, ToFold
<1> QED
  BY <1>1, <1>2, <1>3, <1>4, FoldBackStep, FoldAheadStep, TakeStep, KeepStep, GiveUpStep,
     FinishStep, NextHopStep DEF Next

LEMMA FoldInvariant == Spec => []FoldInv
BY FoldInit, FoldStep, PTL DEF Spec

-----------------------------------------------------------------------------
\* foldSystemTurns computes the reference on every conversation, and where it
\* gives up, or has nothing to do, the body goes on as it came.
THEOREM FoldsAsSpecified == Spec => []MatchesReference
<1>1. FoldInv => MatchesReference
  BY DEF FoldInv, DoneInv, MatchesReference
<1> QED BY <1>1, FoldInvariant, PTL

\* No block is lost, doubled or moved past another of its kind, at any turn of
\* the loop.
THEOREM NothingMoved == Spec => []OrderKept
<1>1. ASSUME FoldInv PROVE OrderKept
  <2> USE <1>1 DEF FoldInv
  <2>1. CASE pc = "loop" /\ doc # None
    <3>1. /\ doc \in Seq(Message) /\ Distinct(doc) /\ Loop(doc, i, out, pending)
          /\ out \in Seq(Message) /\ pending \in Seq(Block) /\ i \in 1 .. Len(doc) + 1
      BY <2>1 DEF TypeInv, LoopInv, Loop
    <3>2. InOrder(doc, i, Append(out, UserTurn(pending)))
      BY <3>1, LoopInOrder
    <3>3. /\ Places(SubSeq(doc, 1, i - 1)) = Read(doc, i)
          /\ \A p \in Read(doc, i) : BlockAt(SubSeq(doc, 1, i - 1), p) = BlockAt(doc, p)
      BY <3>1, ReadIsPrefix
    <3> QED BY <2>1, <3>2, <3>3 DEF OrderKept, InOrder
  <2>2. CASE pc = "done" /\ doc # None
    <3>1. doc \in Seq(Message) /\ InOrder(doc, Len(doc) + 1, result)
      BY <2>2 DEF TypeInv, OrderInv
    <3>2. Len(doc) + 1 \in 1 .. Len(doc) + 1
      BY <3>1
    <3>3. Read(doc, Len(doc) + 1) = Places(doc)
      BY <3>1, <3>2, ReadIsPrefix
    <3> QED BY <2>2, <3>1, <3>3 DEF OrderKept, InOrder
  <2> QED BY <2>1, <2>2 DEF OrderKept
<1> QED BY <1>1, FoldInvariant, PTL

\* After one router, the routers that follow forward the body as they get it.
THEOREM SecondFoldIdle == Spec => []FoldedOnce
<1>1. FoldInv => FoldedOnce
  BY DEF FoldInv, HopInv, DoneInv, MatchesReference, FoldedOnce, Foldable
<1> QED BY <1>1, FoldInvariant, PTL
=============================================================================
