----------------------- MODULE BlockHashCheckerProofs -----------------------
(***************************************************************************)
(* Proofs about BlockHashChecker, for any nodes, batch size, heights, and  *)
(* numbers of forks and faults: the cursor stands for blocks on which the  *)
(* nodes agree, there is no alarm without a fork, and the block reported   *)
(* after one fork is the first that differs.                               *)
(*                                                                         *)
(* All three rest on what the watcher holds while the nodes go on: a block *)
(* that a node which has not failed once gave out stays its block.         *)
(***************************************************************************)
EXTENDS BlockHashChecker, FiniteSetTheorems, WellFoundedInduction, TLAPS

BlockIds == [num : Int, branch : Nat]

Replies == [hash : BlockIds, parent : BlockIds, order : Nat]

\* What the watcher's record is made of at each stage.
PollOK ==
    /\ w = [pc |-> "poll", heights |-> w.heights, verdict |-> 0, flag |-> FALSE]
    /\ w.heights \in Seq(Heights \cup {-1}) /\ Len(w.heights) <= Len(Nodes)

FetchOK ==
    /\ w = [pc |-> "fetch", mode |-> w.mode, again |-> w.again, lo |-> w.lo, hi |-> w.hi,
            min |-> w.min, max |-> w.max, got |-> w.got, verdict |-> 0, flag |-> FALSE]
    /\ w.mode \in {"batch", "search"}
    /\ w.lo \in Nat \ {0} /\ w.hi \in Nat /\ w.min \in Nat /\ w.max \in Nat
    /\ w.got \in [w.lo..w.hi -> Seq(Replies)]
    /\ \A b \in w.lo..w.hi : Len(w.got[b]) <= Len(Nodes)
    /\ w.mode = "search" => w.again \in Nat \ {0} /\ w.hi = w.lo /\ w.min \in Nat \ {0}

SearchOK ==
    /\ w = [pc |-> "search", low |-> w.low, high |-> w.high, found |-> w.found,
            verdict |-> 0, flag |-> FALSE]
    /\ w.low \in Nat \ {0} /\ w.high \in Nat /\ w.found \in Nat \ {0}

Types ==
    /\ height \in [Names -> Heights] /\ branch \in [Names -> Nat]
    /\ cursor \in Nat /\ forks \in Nat /\ steady \in SUBSET Names
    /\ w.pc \in {"sleep", "poll", "fetch", "search", "exited"}
    /\ w.pc \in {"sleep", "exited"} =>
          w \in [pc : {"sleep", "exited"}, verdict : Nat, flag : BOOLEAN]
    /\ w.pc # "exited" => w.verdict = 0
    /\ w.pc = "poll" => PollOK
    /\ w.pc = "fetch" => FetchOK
    /\ w.pc = "search" => SearchOK

\* What a node that has always answered gave out is still its block.
Holds(n, b, r) == r = Missing \/ (b <= height[n] /\ r = Fetched(n, b))

AnswerInv ==
    w.pc = "fetch" =>
        \A b \in w.lo..w.hi : \A i \in DOMAIN w.got[b] :
            Nodes[i] \in steady => Holds(Nodes[i], b, w.got[b][i])

Agree(b) == \A n, m \in steady : Block(n, b) = Block(m, b) /\ b <= height[n]

PollInv ==
    w.pc = "poll" =>
        \A i \in DOMAIN w.heights :
            Nodes[i] \in steady => w.heights[i] \in 0..height[Nodes[i]]

\* A watch compares every block from the cursor on, and every node that has always
\* answered has the blocks up to min.
BatchInv ==
    w.pc = "fetch" /\ w.mode = "batch" =>
        /\ cursor < w.lo /\ cursor <= w.min /\ w.min <= w.max /\ w.lo <= w.hi /\ w.hi <= w.max
        /\ w.hi = w.max \/ w.hi = w.lo + BatchSize - 1
        /\ \A n \in steady : w.min <= height[n]
        /\ \A b \in 1..(w.lo - 1) : b <= w.min => Agree(b)
        /\ \A b \in w.lo..w.hi : \A i \in DOMAIN w.got[b] :
              Nodes[i] \in steady /\ b <= w.min => w.got[b][i] # Missing

CursorInv == \A b \in 1..cursor : Agree(b)

\* At most as many nodes are on a branch of their own as there were forks.
ForkInv ==
    /\ forks = 0 => \A n \in Names : branch[n] = 0
    /\ forks = 1 => \A n, m \in Names : branch[n] # 0 /\ branch[m] # 0 => n = m

\* Before the first fork there is one answer for each block, and nothing to search for.
Common(b) == [hash |-> [num |-> b, branch |-> 0], parent |-> [num |-> b - 1, branch |-> 0],
              order |-> 0]

CleanInv ==
    forks = 0 =>
        /\ w.verdict = 0 /\ w.pc # "search"
        /\ w.pc = "fetch" =>
              /\ w.mode = "batch"
              /\ \A b \in w.lo..w.hi : \A i \in DOMAIN w.got[b] :
                    w.got[b][i] \in {Missing, Common(b)}

\* p and q differ at the block found, their first difference is not below low, and
\* the search has it between low and found.
Between(p, q, low, high, found) ==
    /\ p \in Names /\ q \in Names /\ branch[p] # 0 /\ branch[q] = 0
    /\ low <= branch[p] /\ branch[p] <= found /\ high = found - 1
    /\ found <= height[p] /\ found <= height[q]

SearchInv ==
    forks = 1 /\ steady = Names =>
        /\ w.pc = "search" => \E p, q \in Names : Between(p, q, w.low, w.high, w.found)
        /\ w.pc = "fetch" /\ w.mode = "search" =>
              \E p, q \in Names :
                  /\ Between(p, q, w.min, w.max, w.again) /\ w.lo <= w.max
                  /\ \A i \in DOMAIN w.got[w.lo] : Nodes[i] \in {p, q} => w.got[w.lo][i] # Missing
        /\ w.verdict # 0 =>
              /\ w.flag \in BOOLEAN
              /\ w.flag <=> \E n, m \in Names : Hash(n, w.verdict) # Hash(m, w.verdict)
              /\ \E p, q \in Names : Between(p, q, w.verdict, w.verdict - 1, w.verdict)

IInv ==
    /\ Types /\ AnswerInv /\ PollInv /\ BatchInv /\ CursorInv
    /\ ForkInv /\ CleanInv /\ SearchInv

-----------------------------------------------------------------------------
(* Smallest and largest elements.                                          *)

LEMMA SmallestExists ==
  ASSUME NEW T, T \subseteq Nat, T # {}
  PROVE  \E x \in T : \A y \in T : x <= y
<1> DEFINE R == {ss \in Nat \X Nat : ss[1] < ss[2]}
<1>1. IsWellFoundedOn(R, Nat)
  BY NatLessThanWellFounded DEF OpToRel
<1> HIDE DEF R
<1>2. PICK x \in T : \A y \in T : ~(<<y, x>> \in R)
  BY <1>1, WFMin
<1>3. ASSUME NEW y \in T PROVE x <= y
  <2>1. ~(<<y, x>> \in R)
    BY <1>2
  <2> QED BY <2>1 DEF R
<1> QED BY <1>2, <1>3

LEMMA MinIsSmallest ==
  ASSUME NEW T, T \subseteq Nat, T # {}
  PROVE  Min(T) \in T /\ \A y \in T : Min(T) <= y
<1>1. \E x \in T : \A y \in T : x <= y
  BY SmallestExists
<1> QED BY <1>1 DEF Min

LEMMA MaxIsLargest ==
  ASSUME NEW T, T \subseteq Heights, T # {}
  PROVE  Max(T) \in T /\ \A y \in T : Max(T) >= y
<1> DEFINE D == {MaxHeight - y : y \in T}
<1>1. MaxHeight \in Nat /\ \A y \in T : y \in Nat /\ y <= MaxHeight
  BY CheckerAssumption DEF Heights
<1>2. D \subseteq Nat /\ D # {}
  BY <1>1
<1>3. PICK d \in D : \A e \in D : d <= e
  BY <1>2, SmallestExists
<1>4. PICK x \in T : d = MaxHeight - x
  BY <1>3
<1>5. ASSUME NEW y \in T PROVE x >= y
  <2>1. MaxHeight - x <= MaxHeight - y
    BY <1>3, <1>4, <1>5
  <2>2. x \in Nat /\ y \in Nat
    BY <1>1, <1>4, <1>5
  <2> QED BY <1>1, <2>1, <2>2
<1>6. \E z \in T : \A y \in T : z >= y
  BY <1>4, <1>5
<1> QED BY <1>6 DEF Max

LEMMA MinOfTwo ==
  ASSUME NEW a \in Nat, NEW b \in Nat
  PROVE  /\ Min({a, b}) \in {a, b} /\ Min({a, b}) \in Nat
         /\ Min({a, b}) <= a /\ Min({a, b}) <= b
<1>1. {a, b} \subseteq Nat /\ {a, b} # {}
  OBVIOUS
<1> QED BY <1>1, MinIsSmallest

LEMMA TwoOf ==
  ASSUME NEW S, IsFiniteSet(S), NEW i \in S, NEW j \in S, i # j
  PROVE  Cardinality(S) >= 2
<1>1. IsFiniteSet({i}) /\ Cardinality({i}) = 1
  BY FS_Singleton
<1>2. IsFiniteSet({i} \cup {j}) /\ Cardinality({i} \cup {j}) = 2
  <2>1. j \notin {i}
    OBVIOUS
  <2> QED BY <1>1, <2>1, FS_AddElement
<1>3. Cardinality({i} \cup {j}) <= Cardinality(S)
  BY FS_Subset
<1>4. Cardinality(S) \in Nat
  BY FS_CardinalityType
<1> QED BY <1>2, <1>3, <1>4

-----------------------------------------------------------------------------
(* Nodes and their blocks.                                                 *)

LEMMA NodesAreNames ==
  /\ Len(Nodes) \in Nat /\ DOMAIN Nodes = 1..Len(Nodes)
  /\ \A i \in DOMAIN Nodes : Nodes[i] \in Names
  /\ \A n \in Names : \E i \in DOMAIN Nodes : n = Nodes[i]
<1>1. Nodes \in Seq(Names)
  BY CheckerAssumption DEF Names
<1>2. \A n \in Names : \E i \in DOMAIN Nodes : n = Nodes[i]
  BY DEF Names, Range
<1> QED BY <1>1, <1>2

LEMMA BlockTypes ==
  ASSUME Types, NEW n \in Names, NEW b \in Nat \ {0}
  PROVE  /\ Fetched(n, b) \in Replies /\ Missing \in Replies /\ Fetched(n, b) # Missing
         /\ Fetched(n, b).hash = Hash(n, b) /\ Fetched(n, b).parent = Hash(n, b - 1)
         /\ Fetched(n, b).order = TxOrder(n, b)
         /\ Block(n, b).hash = Hash(n, b) /\ Block(n, b).order = TxOrder(n, b)
<1>1. branch[n] \in Nat
  BY DEF Types
<1>2. /\ Hash(n, b) \in BlockIds /\ Hash(n, b - 1) \in BlockIds /\ Hash(n, b).num = b
      /\ TxOrder(n, b) \in Nat
  BY <1>1 DEF Hash, TxOrder, Own, BlockIds
<1>3. NoBlock \in BlockIds /\ NoBlock.num = -1
  BY DEF NoBlock, BlockIds
<1>4. Missing \in Replies /\ Missing.hash = NoBlock
  BY <1>3 DEF Missing, Replies
<1>5. /\ Fetched(n, b) \in Replies
      /\ Fetched(n, b).hash = Hash(n, b) /\ Fetched(n, b).parent = Hash(n, b - 1)
      /\ Fetched(n, b).order = TxOrder(n, b)
  BY <1>2 DEF Fetched, Replies
<1>6. Block(n, b).hash = Hash(n, b) /\ Block(n, b).order = TxOrder(n, b)
  BY DEF Block
<1> QED BY <1>2, <1>3, <1>4, <1>5, <1>6

\* A block is as it was if its hash and its transactions are.
LEMMA BlockParts ==
  ASSUME NEW n, NEW b, Block(n, b)' = Block(n, b)
  PROVE  Hash(n, b)' = Hash(n, b) /\ TxOrder(n, b)' = TxOrder(n, b)
<1>1. Block(n, b).hash = Hash(n, b) /\ Block(n, b).order = TxOrder(n, b)
  BY DEF Block
<1>2. Block(n, b)'.hash = Hash(n, b)' /\ Block(n, b)'.order = TxOrder(n, b)'
  BY DEF Block
<1> QED BY <1>1, <1>2

\* Nodes that have always answered keep their blocks.
History ==
    /\ steady' \subseteq steady
    /\ \A m \in steady' :
          /\ height[m] <= height'[m]
          /\ \A b \in Int : b <= height[m] => Block(m, b)' = Block(m, b)

LEMMA HistoryKept ==
  ASSUME Types, Types', History
  PROVE  /\ \A b \in Nat : Agree(b) => Agree(b)'
         /\ \A r : \A n \in steady', b \in Nat \ {0} : Holds(n, b, r) => Holds(n, b, r)'
<1>0. \A n \in steady' : n \in steady /\ height[n] \in Nat /\ height'[n] \in Nat
  <2>1. height \in [Names -> Heights] /\ height' \in [Names -> Heights] /\ steady \subseteq Names
    BY DEF Types
  <2>2. Heights \subseteq Nat
    BY CheckerAssumption DEF Heights
  <2> QED BY <2>1, <2>2 DEF History
<1>1. ASSUME NEW b \in Nat, Agree(b) PROVE Agree(b)'
  <2> SUFFICES ASSUME NEW n \in steady', NEW m \in steady'
               PROVE  Block(n, b)' = Block(m, b)' /\ b <= height'[n]
    BY DEF Agree
  <2>1. n \in steady /\ m \in steady
    BY <1>0
  <2>2. Block(n, b) = Block(m, b) /\ b <= height[n] /\ b <= height[m]
    BY <1>1, <2>1 DEF Agree
  <2>3. Block(n, b)' = Block(n, b) /\ Block(m, b)' = Block(m, b) /\ height[n] <= height'[n]
    BY <2>2 DEF History
  <2>4. b <= height'[n]
    BY <1>0, <2>2, <2>3
  <2> QED BY <2>2, <2>3, <2>4
<1>2. ASSUME NEW n \in steady', NEW b \in Nat \ {0}, NEW r, Holds(n, b, r) PROVE Holds(n, b, r)'
  <2>1. CASE r = Missing
    BY <2>1 DEF Holds
  <2>2. CASE b <= height[n] /\ r = Fetched(n, b)
    <3>1. b - 1 <= height[n] /\ height[n] <= height'[n] /\ b <= height'[n]
      BY <1>0, <2>2 DEF History
    <3>2. Block(n, b)' = Block(n, b) /\ Block(n, b - 1)' = Block(n, b - 1)
      BY <2>2, <3>1 DEF History
    <3>3. Fetched(n, b)' = Fetched(n, b)
      <4>1. Hash(n, b)' = Hash(n, b) /\ TxOrder(n, b)' = TxOrder(n, b)
        BY <3>2, BlockParts
      <4>2. Hash(n, b - 1)' = Hash(n, b - 1)
        BY <3>2, BlockParts
      <4> QED BY <4>1, <4>2 DEF Fetched
    <3> QED BY <2>2, <3>1, <3>3 DEF Holds
  <2> QED BY <1>2, <2>1, <2>2 DEF Holds
<1> QED BY <1>1, <1>2

\* The watcher's own steps leave the blocks alone.
LEMMA WatcherHistory ==
  ASSUME Types, height' = height, branch' = branch, steady' \subseteq steady
  PROVE  History
<1>1. Heights \subseteq Nat
  BY CheckerAssumption DEF Heights
<1>2. \A m \in steady' : height[m] \in Nat
  BY <1>1 DEF Types
<1> QED BY <1>2 DEF History, Block, Hash, TxOrder, Own

LEMMA NodeTypes ==
  ASSUME Types, NEW n \in Names, Grow(n) \/ Fork(n) \/ Restart(n)
  PROVE  Types' /\ History /\ w' = w /\ cursor' = cursor
<1>0. /\ height \in [Names -> Heights] /\ branch \in [Names -> Nat] /\ steady \subseteq Names
      /\ forks \in Nat /\ height[n] \in Nat /\ height[n] <= MaxHeight
      /\ MaxHeight \in Nat
  BY CheckerAssumption DEF Types, Heights
<1>1. w' = w /\ cursor' = cursor
  BY DEF Grow, Fork, Restart
<1>2. /\ \A m \in Names \ {n} : height'[m] = height[m] /\ branch'[m] = branch[m]
      /\ height' \in [Names -> Heights] /\ branch' \in [Names -> Nat]
      /\ forks' \in Nat /\ steady' \subseteq steady
  <2>1. CASE Grow(n)
    <3>1. height[n] + 1 \in Heights
      BY <1>0, <2>1 DEF Grow, Heights
    <3> QED BY <1>0, <2>1, <3>1 DEF Grow
  <2>2. CASE Fork(n)
    BY <1>0, <2>2 DEF Fork
  <2>3. CASE Restart(n)
    <3>1. PICK h \in 0..height[n] : height' = [height EXCEPT ![n] = h]
      BY <2>3 DEF Restart
    <3>2. h \in Heights
      BY <1>0, <3>1 DEF Heights
    <3> QED BY <1>0, <2>3, <3>1, <3>2 DEF Restart, Fault
  <2> QED BY <2>1, <2>2, <2>3
<1>3. \/ n \notin steady'
      \/ branch'[n] = branch[n] /\ height'[n] = height[n] + 1
      \/ branch[n] = 0 /\ branch'[n] = height[n] + 1 /\ height'[n] = height[n]
  <2>1. CASE Grow(n)
    BY <1>0, <2>1 DEF Grow
  <2>2. CASE Fork(n)
    BY <1>0, <2>2 DEF Fork
  <2>3. CASE Restart(n)
    BY <2>3 DEF Restart, Fault
  <2> QED BY <2>1, <2>2, <2>3
<1>4. ASSUME NEW m \in steady'
      PROVE  /\ height[m] <= height'[m]
             /\ \A b \in Int : b <= height[m] => Block(m, b)' = Block(m, b)
  <2>0. m \in Names /\ height[m] \in Nat
    <3>1. Heights \subseteq Nat
      BY CheckerAssumption DEF Heights
    <3> QED BY <1>0, <1>2, <1>4, <3>1
  <2>1. CASE m # n
    BY <1>2, <2>0, <2>1 DEF Block, Hash, TxOrder, Own
  <2>2. CASE m = n
    <3>1. CASE branch'[n] = branch[n] /\ height'[n] = height[n] + 1
      BY <2>0, <2>2, <3>1 DEF Block, Hash, TxOrder, Own
    <3>2. CASE branch[n] = 0 /\ branch'[n] = height[n] + 1 /\ height'[n] = height[n]
      BY <2>0, <2>2, <3>2 DEF Block, Hash, TxOrder, Own
    <3> QED BY <1>3, <1>4, <2>2, <3>1, <3>2
  <2> QED BY <2>1, <2>2
<1>5. History
  BY <1>2, <1>4 DEF History
<1>6. Types'
  BY <1>0, <1>1, <1>2 DEF Types, PollOK, FetchOK, SearchOK
<1> QED BY <1>1, <1>5, <1>6

\* The invariants that only speak of what nodes gave out.
LEMMA StillHolds ==
  ASSUME Types, Types', AnswerInv, PollInv, BatchInv, CursorInv, History, w' = w, cursor' = cursor
  PROVE  AnswerInv' /\ PollInv' /\ BatchInv' /\ CursorInv'
<1>0. /\ \A b \in Nat : Agree(b) => Agree(b)'
      /\ \A r : \A n \in steady', b \in Nat \ {0} : Holds(n, b, r) => Holds(n, b, r)'
      /\ \A n \in steady' : n \in steady /\ height[n] <= height'[n]
  BY HistoryKept DEF History
<1>1. \A n \in steady' : height[n] \in Nat /\ height'[n] \in Nat
  <2>1. Heights \subseteq Nat
    BY CheckerAssumption DEF Heights
  <2> QED BY <1>0, <2>1 DEF Types
<1>2. AnswerInv'
  <2> SUFFICES ASSUME w.pc = "fetch", NEW b \in w.lo..w.hi, NEW i \in DOMAIN w.got[b],
                      Nodes[i] \in steady'
               PROVE  Holds(Nodes[i], b, w.got[b][i])'
    BY DEF AnswerInv
  <2>1. b \in Nat \ {0}
    BY DEF Types, FetchOK
  <2>2. Holds(Nodes[i], b, w.got[b][i])
    BY <1>0 DEF AnswerInv
  <2> DEFINE n == Nodes[i]
             r == w.got[b][i]
  <2>3. Holds(n, b, r) /\ n \in steady' /\ w'.got[b][i] = r
    BY <2>2
  <2> HIDE DEF n, r
  <2>4. r = Missing \/ (b <= height'[n] /\ r = Fetched(n, b)')
    <3>1. CASE r = Missing
      BY <3>1
    <3>2. CASE b <= height[n] /\ r = Fetched(n, b)
      <4>1. b - 1 <= height[n] /\ b <= height'[n]
        BY <1>0, <1>1, <2>1, <2>3, <3>2
      <4>2. Block(n, b)' = Block(n, b) /\ Block(n, b - 1)' = Block(n, b - 1)
        BY <2>1, <2>3, <3>2, <4>1 DEF History, n
      <4>3. Hash(n, b)' = Hash(n, b) /\ TxOrder(n, b)' = TxOrder(n, b)
        BY <4>2 DEF Block, n
      <4>4. Hash(n, b - 1)' = Hash(n, b - 1)
        BY <4>2 DEF Block, n
      <4> QED BY <3>2, <4>1, <4>3, <4>4 DEF Fetched, n
    <3> QED BY <2>3, <3>1, <3>2 DEF Holds
  <2> QED BY <2>3, <2>4 DEF Holds, n, r
<1>3. PollInv'
  <2> SUFFICES ASSUME w.pc = "poll", NEW i \in DOMAIN w.heights, Nodes[i] \in steady'
               PROVE  w.heights[i] \in 0..height'[Nodes[i]]
    BY DEF PollInv
  <2>1. w.heights[i] \in 0..height[Nodes[i]]
    BY <1>0 DEF PollInv
  <2> QED BY <1>0, <1>1, <2>1
<1>4. BatchInv'
  <2> SUFFICES ASSUME w.pc = "fetch", w.mode = "batch"
               PROVE  /\ cursor < w.lo /\ cursor <= w.min /\ w.min <= w.max
                      /\ w.lo <= w.hi /\ w.hi <= w.max
                      /\ w.hi = w.max \/ w.hi = w.lo + BatchSize - 1
                      /\ \A n \in steady' : w.min <= height'[n]
                      /\ \A b \in 1..(w.lo - 1) : b <= w.min => Agree(b)'
                      /\ \A b \in w.lo..w.hi : \A i \in DOMAIN w.got[b] :
                            Nodes[i] \in steady' /\ b <= w.min => w.got[b][i] # Missing
    BY DEF BatchInv
  <2>1. w.min \in Nat /\ w.lo \in Nat
    BY DEF Types, FetchOK
  <2>2. \A n \in steady' : w.min <= height'[n]
    BY <1>0, <1>1, <2>1 DEF BatchInv
  <2>3. \A b \in 1..(w.lo - 1) : b <= w.min => Agree(b)'
    BY <1>0, <2>1 DEF BatchInv
  <2> QED BY <1>0, <2>2, <2>3 DEF BatchInv
<1>5. CursorInv'
  <2>1. cursor \in Nat
    BY DEF Types
  <2> QED BY <1>0, <2>1 DEF CursorInv
<1> QED BY <1>2, <1>3, <1>4, <1>5

LEMMA NodeStep ==
  ASSUME IInv, w.pc # "exited", NEW n \in Names, Grow(n) \/ Fork(n) \/ Restart(n)
  PROVE  IInv'
<1>1. Types /\ Types' /\ History /\ w' = w /\ cursor' = cursor
  BY NodeTypes DEF IInv
<1>2. AnswerInv' /\ PollInv' /\ BatchInv' /\ CursorInv'
  BY <1>1, StillHolds DEF IInv
<1>3. /\ height \in [Names -> Heights] /\ branch \in [Names -> Nat] /\ forks \in Nat
      /\ \A m \in Names \ {n} : branch'[m] = branch[m]
      /\ steady' \subseteq steady /\ steady \subseteq Names
      /\ \A m \in Names : height[m] \in Nat /\ height'[m] \in Nat
  <2>1. Heights \subseteq Nat
    BY CheckerAssumption DEF Heights
  <2> QED BY <1>1, <2>1 DEF Types, Grow, Fork, Restart, History
<1>4. \/ forks' = forks /\ branch'[n] \in {0, branch[n]}
      \/ forks' = forks + 1
  BY <1>3 DEF Grow, Fork, Restart
<1>5. ForkInv'
  <2>1. CASE forks' = forks /\ branch'[n] \in {0, branch[n]}
    BY <1>3, <2>1 DEF IInv, ForkInv
  <2>2. CASE forks' = forks + 1
    <3>1. forks' # 0 /\ (forks' = 1 => forks = 0)
      BY <1>3, <2>2
    <3> QED BY <1>3, <3>1 DEF IInv, ForkInv
  <2> QED BY <1>4, <2>1, <2>2
<1>6. CleanInv'
  <2>1. forks' = 0 => forks = 0
    BY <1>3, <1>4
  <2> QED BY <1>1, <2>1 DEF IInv, CleanInv
<1>7. SearchInv'
  <2> SUFFICES ASSUME forks' = 1, steady' = Names
               PROVE  /\ w.pc = "search" => \E p, q \in Names : Between(p, q, w.low, w.high, w.found)'
                      /\ w.pc = "fetch" /\ w.mode = "search" =>
                            \E p, q \in Names :
                               /\ Between(p, q, w.min, w.max, w.again)' /\ w.lo <= w.max
                               /\ \A i \in DOMAIN w.got[w.lo] :
                                      Nodes[i] \in {p, q} => w.got[w.lo][i] # Missing
                      /\ w.verdict # 0 => FALSE
    BY <1>1 DEF SearchInv, Between
  <2>0. w.verdict = 0
    BY <1>1 DEF Types
  <2>1. CASE forks = 0
    BY <2>0, <2>1 DEF IInv, CleanInv
  <2>2. CASE forks = 1
    <3>1. forks' = forks /\ steady = Names
      BY <1>3, <1>4, <2>2
    <3>2. \A m \in Names : height[m] <= height'[m]
      BY <1>1 DEF History
    <3>3. \A m \in Names : branch'[m] = branch[m]
      <4>1. ~Restart(n)
        <5>1. Restart(n) => n \notin steady'
          BY DEF Restart, Fault
        <5> QED BY <5>1
      <4>2. ~Fork(n)
        BY <1>3, <3>1 DEF Fork
      <4> QED BY <1>3, <4>1, <4>2 DEF Grow
    <3>4. ASSUME w.pc = "search"
          PROVE  \E p, q \in Names : Between(p, q, w.low, w.high, w.found)'
      <4>1. PICK p \in Names, q \in Names : Between(p, q, w.low, w.high, w.found)
        BY <2>2, <3>1, <3>4 DEF IInv, SearchInv
      <4>2. w.found \in Nat
        BY <1>1, <3>4 DEF Types, SearchOK
      <4>3. w.found <= height'[p] /\ w.found <= height'[q]
        BY <1>3, <3>2, <4>1, <4>2 DEF Between
      <4>4. Between(p, q, w.low, w.high, w.found)'
        BY <1>1, <3>3, <4>1, <4>3 DEF Between
      <4> QED BY <4>4
    <3>5. ASSUME w.pc = "fetch", w.mode = "search"
          PROVE  \E p, q \in Names :
                    /\ Between(p, q, w.min, w.max, w.again)' /\ w.lo <= w.max
                    /\ \A i \in DOMAIN w.got[w.lo] :
                          Nodes[i] \in {p, q} => w.got[w.lo][i] # Missing
      <4>1. PICK p \in Names, q \in Names :
                    /\ Between(p, q, w.min, w.max, w.again) /\ w.lo <= w.max
                    /\ \A i \in DOMAIN w.got[w.lo] :
                          Nodes[i] \in {p, q} => w.got[w.lo][i] # Missing
        BY <2>2, <3>1, <3>5 DEF IInv, SearchInv
      <4>2. w.again \in Nat
        BY <1>1, <3>5 DEF Types, FetchOK
      <4>3. w.again <= height'[p] /\ w.again <= height'[q]
        BY <1>3, <3>2, <4>1, <4>2 DEF Between
      <4>4. Between(p, q, w.min, w.max, w.again)'
        BY <1>1, <3>3, <4>1, <4>3 DEF Between
      <4> QED BY <4>1, <4>4
    <3> QED BY <2>0, <3>4, <3>5
  <2>3. forks \in {0, 1}
    BY <1>3, <1>4
  <2> QED BY <2>1, <2>2, <2>3
<1> QED BY <1>1, <1>2, <1>5, <1>6, <1>7 DEF IInv

-----------------------------------------------------------------------------
(* The watcher sleeps and polls.                                           *)

\* A step of the watcher, which leaves the nodes and the number of forks alone.
Watches == UNCHANGED <<height, branch, forks>> /\ steady' \subseteq steady

LEMMA WatchesKeep ==
  ASSUME IInv, Types', Watches
  PROVE  /\ History /\ ForkInv' /\ (cursor' <= cursor => CursorInv')
         /\ \A b \in Nat : Agree(b) => Agree(b)'
<1>1. History
  BY WatcherHistory DEF IInv, Watches
<1>2. \A b \in Nat : Agree(b) => Agree(b)'
  BY <1>1, HistoryKept DEF IInv
<1>3. ASSUME cursor' <= cursor PROVE CursorInv'
  <2>1. cursor \in Nat /\ cursor' \in Nat
    BY DEF IInv, Types
  <2>2. \A b \in 1..cursor' : b \in 1..cursor /\ b \in Nat
    BY <1>3, <2>1
  <2> QED BY <1>2, <2>2 DEF CursorInv, IInv
<1>4. ForkInv'
  BY DEF IInv, ForkInv, Watches
<1> QED BY <1>1, <1>2, <1>3, <1>4

\* The watcher holds no blocks.
LEMMA RestingKeeps ==
  ASSUME IInv, Types', Watches, w'.pc \in {"sleep", "exited", "poll"}, w'.verdict = 0,
         PollInv', CursorInv'
  PROVE  IInv'
<1>1. ForkInv'
  BY WatchesKeep
<1>2. AnswerInv' /\ BatchInv' /\ CleanInv' /\ SearchInv'
  BY DEF AnswerInv, BatchInv, CleanInv, SearchInv
<1> QED BY <1>1, <1>2 DEF IInv

LEMMA TickStep ==
  ASSUME IInv, Tick \/ Interrupt \/ (UNCHANGED vars /\ w.pc = "sleep")
  PROVE  IInv'
<1>1. Types /\ w.pc = "sleep" /\ w.verdict = 0
  BY DEF IInv, Types, Tick, Interrupt
<1>2. UNCHANGED <<height, branch, cursor, forks, steady>>
  BY DEF Tick, Interrupt, vars
<1>3. /\ w' \in [pc : {"sleep", "exited"}, verdict : Nat, flag : BOOLEAN] \/ w'.pc = "poll"
      /\ w'.pc \in {"sleep", "exited", "poll"} /\ w'.verdict = 0
      /\ w'.pc = "poll" =>
            w' = [pc |-> "poll", heights |-> <<>>, verdict |-> 0, flag |-> FALSE]
  <2>1. w \in [pc : {"sleep", "exited"}, verdict : Nat, flag : BOOLEAN]
    BY <1>1 DEF Types
  <2>2. CASE Tick
    BY <2>2 DEF Tick
  <2>3. CASE Interrupt
    BY <1>1, <2>1, <2>3 DEF Interrupt
  <2>4. CASE UNCHANGED vars
    BY <1>1, <2>1, <2>4 DEF vars
  <2> QED BY <2>2, <2>3, <2>4
<1>4. w'.pc = "poll" => PollOK' /\ DOMAIN w'.heights = {}
  <2> SUFFICES ASSUME w'.pc = "poll" PROVE PollOK' /\ DOMAIN w'.heights = {}
    OBVIOUS
  <2>1. Len(Nodes) \in Nat
    BY NodesAreNames
  <2>2. w'.heights = <<>>
    BY <1>3
  <2>3. w' = [pc |-> "poll", heights |-> w'.heights, verdict |-> 0, flag |-> FALSE]
    BY <1>3, <2>2
  <2>4. /\ <<>> \in Seq(Heights \cup {-1}) /\ Len(<<>>) <= Len(Nodes)
        /\ DOMAIN w'.heights = {}
    BY <2>1, <2>2
  <2> QED BY <2>2, <2>3, <2>4 DEF PollOK
<1>5. Types'
  BY <1>1, <1>2, <1>3, <1>4 DEF Types
<1>6. PollInv'
  BY <1>4 DEF PollInv
<1>7. Watches /\ cursor' <= cursor
  BY <1>1, <1>2 DEF Watches, Types
<1> QED BY <1>3, <1>5, <1>6, <1>7, WatchesKeep, RestingKeeps

LEMMA PollStep ==
  ASSUME IInv, Poll \/ PollFails
  PROVE  IInv'
<1>1. Types /\ w.pc = "poll" /\ PollOK /\ Len(w.heights) < Len(Nodes)
  BY DEF IInv, Types, Poll, PollFails, Polling
<1> DEFINE k == Len(w.heights) + 1
<1>2. /\ Len(w.heights) \in Nat /\ k \in DOMAIN Nodes /\ k <= Len(Nodes) /\ Nodes[k] \in Names
      /\ DOMAIN w.heights = 1..Len(w.heights) /\ w.heights \in Seq(Heights \cup {-1})
  BY <1>1, NodesAreNames DEF PollOK
<1>3. PICK h \in Heights \cup {-1} :
         /\ w' = [w EXCEPT !.heights = Append(@, h)]
         /\ Nodes[k] \in steady' => h \in 0..height[Nodes[k]]
  <2>0. height[Nodes[k]] \in Heights /\ height[Nodes[k]] \in Nat
    BY <1>1, <1>2, CheckerAssumption DEF Types, Heights
  <2>1. CASE Poll
    <3>1. w' = [w EXCEPT !.heights = Append(@, height[Nodes[k]])]
      BY <2>1 DEF Poll
    <3>2. \A x \in Nat : x \in 0..x
      OBVIOUS
    <3> QED BY <2>0, <3>1, <3>2
  <2>2. CASE PollFails
    BY <2>2 DEF PollFails, Fault
  <2> QED BY <2>1, <2>2
<1>4. /\ UNCHANGED <<height, branch, cursor, forks>> /\ steady' \subseteq steady
  BY <1>1 DEF Poll, PollFails, Fault, Types
<1>5. w' = [pc |-> "poll", heights |-> Append(w.heights, h), verdict |-> 0, flag |-> FALSE]
  <2>1. PICK H : w = [pc |-> "poll", heights |-> H, verdict |-> 0, flag |-> FALSE]
    BY <1>1 DEF PollOK
  <2>2. w.heights = H
    BY <2>1
  <2>3. w' = [[pc |-> "poll", heights |-> H, verdict |-> 0, flag |-> FALSE]
                  EXCEPT !.heights = Append(H, h)]
    BY <1>3, <2>1, <2>2
  <2> QED BY <2>2, <2>3
<1>6. /\ w'.heights \in Seq(Heights \cup {-1}) /\ Len(w'.heights) = k
      /\ DOMAIN w'.heights = DOMAIN w.heights \cup {k} /\ w'.heights[k] = h
      /\ \A i \in DOMAIN w.heights : w'.heights[i] = w.heights[i]
  BY <1>2, <1>5
<1>7. PollOK'
  <2>1. w' = [pc |-> "poll", heights |-> w'.heights, verdict |-> 0, flag |-> FALSE]
    BY <1>5
  <2> QED BY <1>2, <1>6, <2>1 DEF PollOK
<1>8. Types'
  BY <1>1, <1>4, <1>5, <1>7 DEF Types
<1>9. PollInv'
  <2> SUFFICES ASSUME NEW i \in DOMAIN w'.heights, Nodes[i] \in steady'
               PROVE  w'.heights[i] \in 0..height'[Nodes[i]]
    BY DEF PollInv
  <2>1. CASE i = k
    BY <1>3, <1>4, <1>6, <2>1
  <2>2. CASE i \in DOMAIN w.heights
    BY <1>1, <1>4, <1>6, <2>2 DEF IInv, PollInv
  <2> QED BY <1>6, <2>1, <2>2
<1>10. Watches /\ cursor' <= cursor /\ w'.pc = "poll" /\ w'.verdict = 0
  BY <1>1, <1>4, <1>5 DEF Watches, Types
<1> QED BY <1>8, <1>9, <1>10, WatchesKeep, RestingKeeps

\* What the heights say, once all nodes were asked.
LEMMA LowestAndHighest ==
  ASSUME IInv, w.pc = "poll", Len(w.heights) = Len(Nodes), Cardinality(Answered) >= 2
  PROVE  /\ Lowest \in Nat /\ Highest \in Heights /\ Lowest <= Highest
         /\ \A n \in steady : Lowest <= height[n]
         /\ Rewound(Lowest) \in Nat /\ Rewound(Lowest) <= cursor /\ Rewound(Lowest) <= Lowest
<1> DEFINE T == {w.heights[i] : i \in Answered}
<1>0. Types /\ PollOK /\ Heights \subseteq Nat
  BY CheckerAssumption DEF IInv, Types, Heights
<1>1. \A i \in Answered : i \in DOMAIN w.heights /\ w.heights[i] \in Heights
  BY <1>0 DEF PollOK, Answered
<1>2. Answered # {}
  <2> SUFFICES ASSUME Answered = {} PROVE FALSE
    OBVIOUS
  <2>1. Cardinality(Answered) = 0
    BY FS_EmptySet
  <2> QED BY <2>1
<1>3. T \subseteq Heights /\ T # {} /\ T \subseteq Nat
  BY <1>0, <1>1, <1>2
<1>4. Lowest \in T /\ \A y \in T : Lowest <= y
  BY <1>3, MinIsSmallest DEF Lowest
<1>5. Highest \in T /\ \A y \in T : Highest >= y
  BY <1>3, MaxIsLargest DEF Highest
<1>6. Lowest \in Nat /\ Highest \in Heights /\ Lowest <= Highest
  BY <1>3, <1>4, <1>5
<1>7. ASSUME NEW n \in steady PROVE Lowest <= height[n]
  <2>1. n \in Names /\ height[n] \in Nat
    BY <1>0 DEF Types
  <2>2. PICK i \in DOMAIN Nodes : n = Nodes[i]
    BY <2>1, NodesAreNames
  <2>3. i \in DOMAIN w.heights
    <3>1. DOMAIN w.heights = 1..Len(w.heights) /\ DOMAIN Nodes = 1..Len(Nodes)
      BY <1>0, NodesAreNames DEF PollOK
    <3> QED BY <2>2, <3>1
  <2>4. w.heights[i] \in 0..height[n]
    BY <2>2, <2>3 DEF IInv, PollInv
  <2>5. i \in Answered
    BY <2>1, <2>3, <2>4 DEF Answered
  <2>6. Lowest <= w.heights[i]
    BY <1>4, <2>5
  <2> QED BY <1>6, <2>1, <2>4, <2>6
<1>8. Rewound(Lowest) \in Nat /\ Rewound(Lowest) <= cursor /\ Rewound(Lowest) <= Lowest
  <2>1. cursor \in Nat
    BY <1>0 DEF Types
  <2> QED BY <1>6, <2>1 DEF Rewound
<1> QED BY <1>6, <1>7, <1>8

LEMMA NothingStep ==
  ASSUME IInv, Nothing
  PROVE  IInv'
<1>1. /\ Types /\ w' = [pc |-> "sleep", verdict |-> 0, flag |-> FALSE]
      /\ UNCHANGED <<height, branch, forks, steady>>
      /\ w.pc = "poll" /\ Len(w.heights) = Len(Nodes)
  BY DEF IInv, Nothing, Resting
<1>2. cursor' \in Nat /\ cursor' <= cursor
  <2>0. cursor \in Nat
    BY <1>1 DEF Types
  <2>1. IsFiniteSet(Answered)
    <3>1. DOMAIN w.heights = 1..Len(w.heights) /\ Len(w.heights) \in Nat
      BY <1>1 DEF Types, PollOK
    <3>2. IsFiniteSet(1..Len(w.heights))
      BY <3>1, FS_Interval
    <3> QED BY <3>1, <3>2, FS_Subset DEF Answered
  <2>2. Cardinality(Answered) \in Nat
    BY <2>1, FS_CardinalityType
  <2>3. CASE Cardinality(Answered) < 2
    BY <2>0, <2>3 DEF Nothing
  <2>4. CASE Cardinality(Answered) >= 2
    <3>1. Rewound(Lowest) \in Nat /\ Rewound(Lowest) <= cursor
      BY <1>1, <2>4, LowestAndHighest
    <3>2. cursor' = Rewound(Lowest)
      BY <2>2, <2>4 DEF Nothing
    <3> QED BY <3>1, <3>2
  <2> QED BY <2>2, <2>3, <2>4
<1>3. Types' /\ PollInv'
  BY <1>1, <1>2 DEF Types, PollInv
<1>4. Watches
  BY <1>1 DEF Watches
<1> QED BY <1>1, <1>2, <1>3, <1>4, WatchesKeep, RestingKeeps

-----------------------------------------------------------------------------
(* Batches.                                                                *)

LEMMA FetchOfType ==
  ASSUME NEW lo \in Nat \ {0}, NEW hi \in Nat, NEW min \in Nat, NEW max \in Nat,
         w' = FetchOf(lo, hi, min, max)
  PROVE  /\ FetchOK' /\ w'.pc = "fetch" /\ w'.mode = "batch" /\ w'.verdict = 0
         /\ w'.lo = lo /\ w'.hi = hi /\ w'.min = min /\ w'.max = max
         /\ \A b \in lo..hi : w'.got[b] = <<>> /\ DOMAIN w'.got[b] = {}
<1>1. w' = [pc |-> "fetch", mode |-> "batch", again |-> FALSE, lo |-> lo, hi |-> hi, min |-> min,
            max |-> max, got |-> [b \in lo..hi |-> <<>>], verdict |-> 0, flag |-> FALSE]
  BY DEF FetchOf
<1>2. /\ w'.pc = "fetch" /\ w'.mode = "batch" /\ w'.again = FALSE /\ w'.lo = lo /\ w'.hi = hi
      /\ w'.min = min /\ w'.max = max /\ w'.got = [b \in lo..hi |-> <<>>] /\ w'.verdict = 0
  BY <1>1
<1>3. w' = [pc |-> "fetch", mode |-> w'.mode, again |-> w'.again, lo |-> w'.lo, hi |-> w'.hi,
            min |-> w'.min, max |-> w'.max, got |-> w'.got, verdict |-> 0, flag |-> FALSE]
  BY <1>1, <1>2
<1>4. /\ <<>> \in Seq(Replies) /\ Len(<<>>) = 0 /\ Len(Nodes) \in Nat /\ DOMAIN <<>> = {}
  BY NodesAreNames
<1>5. /\ w'.got \in [lo..hi -> Seq(Replies)]
      /\ \A b \in lo..hi : w'.got[b] = <<>>
  BY <1>2, <1>4
<1>6. \A b \in lo..hi : Len(w'.got[b]) <= Len(Nodes) /\ DOMAIN w'.got[b] = {}
  BY <1>4, <1>5
<1>7. FetchOK'
  BY <1>2, <1>3, <1>5, <1>6 DEF FetchOK
<1> QED BY <1>2, <1>5, <1>6, <1>7

\* A fetch begins with empty hands.
LEMMA EmptyHands ==
  ASSUME IInv, Types', Watches, w'.pc = "fetch", w'.mode = "batch", w'.verdict = 0,
         \A b \in w'.lo..w'.hi : DOMAIN w'.got[b] = {},
         cursor' < w'.lo, cursor' <= w'.min, w'.min <= w'.max, w'.lo <= w'.hi, w'.hi <= w'.max,
         w'.hi = w'.max \/ w'.hi = w'.lo + BatchSize - 1,
         \A n \in steady : w'.min <= height[n],
         \A b \in 1..(w'.lo - 1) : b <= w'.min => Agree(b),
         cursor' <= cursor
  PROVE  IInv'
<1>1. History /\ ForkInv' /\ CursorInv' /\ \A b \in Nat : Agree(b) => Agree(b)'
  BY WatchesKeep
<1>2. AnswerInv' /\ PollInv' /\ CleanInv' /\ SearchInv'
  BY DEF AnswerInv, PollInv, CleanInv, SearchInv
<1>3. \A b \in 1..(w'.lo - 1) : b <= w'.min => Agree(b)'
  <2>1. w'.lo \in Nat
    BY DEF Types, FetchOK
  <2> QED BY <1>1, <2>1
<1>4. \A n \in steady' : w'.min <= height'[n]
  BY DEF Watches
<1>5. BatchInv'
  BY <1>3, <1>4 DEF BatchInv
<1> QED BY <1>1, <1>2, <1>5 DEF IInv

LEMMA BatchFromType ==
  ASSUME NEW lo \in Nat \ {0}, NEW min \in Nat, NEW max \in Nat, lo <= max,
         w' = BatchFrom(lo, min, max)
  PROVE  /\ FetchOK' /\ w'.pc = "fetch" /\ w'.mode = "batch" /\ w'.verdict = 0
         /\ w'.lo = lo /\ w'.min = min /\ w'.max = max /\ lo <= w'.hi /\ w'.hi <= max
         /\ w'.hi = max \/ w'.hi = lo + BatchSize - 1
         /\ \A b \in lo..w'.hi : DOMAIN w'.got[b] = {}
<1> DEFINE hi == Min({lo + BatchSize - 1, max})
<1>1. lo + BatchSize - 1 \in Nat /\ lo <= lo + BatchSize - 1
  BY CheckerAssumption
<1>2. hi \in Nat /\ hi \in {lo + BatchSize - 1, max} /\ hi <= max
  BY <1>1, MinOfTwo
<1>3. lo <= hi
  BY <1>1, <1>2
<1>4. w' = FetchOf(lo, hi, min, max)
  BY DEF BatchFrom
<1> HIDE DEF hi
<1> QED BY <1>2, <1>3, <1>4, FetchOfType

LEMMA StartStep ==
  ASSUME IInv, StartBatches
  PROVE  IInv'
<1> DEFINE c == Rewound(Lowest)
<1>1. /\ Types /\ UNCHANGED <<height, branch, forks, steady>>
      /\ w.pc = "poll" /\ Len(w.heights) = Len(Nodes) /\ Cardinality(Answered) >= 2
      /\ c + 1 <= Highest /\ cursor' = c /\ w' = BatchFrom(c + 1, Lowest, Highest)
  BY DEF IInv, StartBatches, StartAt
<1>2. /\ Lowest \in Nat /\ Highest \in Nat /\ Lowest <= Highest
      /\ \A n \in steady : Lowest <= height[n]
      /\ c \in Nat /\ c <= cursor /\ c <= Lowest
  <2>1. Heights \subseteq Nat
    BY CheckerAssumption DEF Heights
  <2> QED BY <1>1, <2>1, LowestAndHighest
<1> HIDE DEF c
<1>3. c + 1 \in Nat \ {0}
  BY <1>2
<1>4. /\ FetchOK' /\ w'.pc = "fetch" /\ w'.mode = "batch" /\ w'.verdict = 0
      /\ w'.lo = c + 1 /\ w'.min = Lowest /\ w'.max = Highest /\ c + 1 <= w'.hi /\ w'.hi <= Highest
      /\ w'.hi = Highest \/ w'.hi = (c + 1) + BatchSize - 1
      /\ \A b \in (c + 1)..w'.hi : DOMAIN w'.got[b] = {}
  BY <1>1, <1>2, <1>3, BatchFromType
<1>5. Types'
  BY <1>1, <1>2, <1>4 DEF Types
<1>6. \A b \in 1..(w'.lo - 1) : b <= w'.min => Agree(b)
  <2>1. cursor \in Nat
    BY <1>1 DEF Types
  <2>2. \A b \in 1..(w'.lo - 1) : b \in 1..cursor
    BY <1>2, <1>4, <2>1
  <2> QED BY <2>2 DEF IInv, CursorInv
<1>7. Watches
  BY <1>1 DEF Watches
<1>8. cursor' < w'.lo
  BY <1>1, <1>2, <1>4
<1> QED BY <1>1, <1>2, <1>4, <1>5, <1>6, <1>7, <1>8, EmptyHands

\* One more answer.
LEMMA GetsEffect ==
  ASSUME Types, w.pc = "fetch", NEW b \in w.lo..w.hi, NEW r \in Replies, Gets(b, r),
         Len(w.got[b]) < Len(Nodes)
  PROVE  /\ FetchOK' /\ w'.pc = "fetch" /\ w'.mode = w.mode /\ w'.verdict = 0
         /\ w'.again = w.again /\ w'.lo = w.lo /\ w'.hi = w.hi /\ w'.min = w.min /\ w'.max = w.max
         /\ DOMAIN w'.got[b] = DOMAIN w.got[b] \cup {Len(w.got[b]) + 1}
         /\ w'.got[b][Len(w.got[b]) + 1] = r
         /\ \A i \in DOMAIN w.got[b] : w'.got[b][i] = w.got[b][i]
         /\ \A d \in w.lo..w.hi : d # b => w'.got[d] = w.got[d]
<1> DEFINE g == [w.got EXCEPT ![b] = Append(w.got[b], r)]
<1>1. FetchOK
  BY DEF Types
<1>2. w' = [pc |-> "fetch", mode |-> w.mode, again |-> w.again, lo |-> w.lo, hi |-> w.hi,
            min |-> w.min, max |-> w.max, got |-> g, verdict |-> 0, flag |-> FALSE]
  <2>1. PICK mo, ag, l, h, mi, ma, go :
           /\ w = [pc |-> "fetch", mode |-> mo, again |-> ag, lo |-> l, hi |-> h,
                   min |-> mi, max |-> ma, got |-> go, verdict |-> 0, flag |-> FALSE]
    BY <1>1 DEF FetchOK
  <2>2. /\ w.mode = mo /\ w.again = ag /\ w.lo = l /\ w.hi = h /\ w.min = mi /\ w.max = ma
        /\ w.got = go
    BY <2>1
  <2>3. w' = [w EXCEPT !.got = g]
    BY DEF Gets
  <2> HIDE DEF g
  <2>4. w' = [[pc |-> "fetch", mode |-> mo, again |-> ag, lo |-> l, hi |-> h,
                   min |-> mi, max |-> ma, got |-> go, verdict |-> 0, flag |-> FALSE]
              EXCEPT !.got = g]
    BY <2>1, <2>3
  <2> QED BY <2>2, <2>4
<1>3. /\ w'.pc = "fetch" /\ w'.mode = w.mode /\ w'.verdict = 0 /\ w'.again = w.again
      /\ w'.lo = w.lo /\ w'.hi = w.hi /\ w'.min = w.min /\ w'.max = w.max /\ w'.got = g
  BY <1>2
<1>4. w' = [pc |-> "fetch", mode |-> w'.mode, again |-> w'.again, lo |-> w'.lo, hi |-> w'.hi,
            min |-> w'.min, max |-> w'.max, got |-> w'.got, verdict |-> 0, flag |-> FALSE]
  BY <1>2, <1>3
<1>5. /\ w.got \in [w.lo..w.hi -> Seq(Replies)] /\ w.got[b] \in Seq(Replies)
      /\ \A d \in w.lo..w.hi : Len(w.got[d]) <= Len(Nodes)
  BY <1>1 DEF FetchOK
<1>6. /\ Append(w.got[b], r) \in Seq(Replies) /\ Len(Append(w.got[b], r)) = Len(w.got[b]) + 1
      /\ DOMAIN Append(w.got[b], r) = DOMAIN w.got[b] \cup {Len(w.got[b]) + 1}
      /\ Append(w.got[b], r)[Len(w.got[b]) + 1] = r
      /\ \A i \in DOMAIN w.got[b] : Append(w.got[b], r)[i] = w.got[b][i]
      /\ Len(w.got[b]) \in Nat
  BY <1>5
<1>7. /\ g \in [w.lo..w.hi -> Seq(Replies)] /\ g[b] = Append(w.got[b], r)
      /\ \A d \in w.lo..w.hi : d # b => g[d] = w.got[d]
  BY <1>5, <1>6
<1> HIDE DEF g
<1>8. \A d \in w.lo..w.hi : Len(g[d]) <= Len(Nodes)
  <2>1. Len(Nodes) \in Nat
    BY NodesAreNames
  <2>2. Len(g[b]) <= Len(Nodes)
    BY <1>6, <1>7, <2>1
  <2> QED BY <1>5, <1>7, <2>2
<1>9. FetchOK'
  BY <1>1, <1>3, <1>4, <1>7, <1>8 DEF FetchOK
<1> QED BY <1>3, <1>6, <1>7, <1>9

LEMMA FetchStep ==
  ASSUME IInv, NEW b \in 1..MaxHeight, NEW n \in Names, Fetch(b, n) \/ FetchFails(b, n)
  PROVE  IInv'
<1> DEFINE k == Len(w.got[b]) + 1
<1>1. /\ Types /\ w.pc = "fetch" /\ b \in w.lo..w.hi /\ Len(w.got[b]) < Len(Nodes) /\ n = Nodes[k]
  BY DEF IInv, Fetch, FetchFails, Asks
<1>2. /\ b \in Nat \ {0} /\ height[n] \in Nat /\ n \in Names
  <2>1. Heights \subseteq Nat /\ b \in Nat \ {0}
    BY CheckerAssumption DEF Heights
  <2> QED BY <1>1, <2>1 DEF Types
<1>3. /\ UNCHANGED <<height, branch, cursor, forks>> /\ steady' \subseteq steady
  BY <1>1 DEF Fetch, FetchFails, Fault, Types
<1>4. PICK r \in {Missing, Fetched(n, b)} :
         /\ Gets(b, r)
         /\ n \in steady' => \/ b <= height[n] /\ r = Fetched(n, b)
                             \/ ~(b <= height[n]) /\ r = Missing
  <2>1. CASE Fetch(b, n)
    <3>1. CASE b <= height[n]
      BY <2>1, <3>1 DEF Fetch
    <3>2. CASE ~(b <= height[n])
      BY <2>1, <3>2 DEF Fetch
    <3> QED BY <3>1, <3>2
  <2>2. CASE FetchFails(b, n)
    BY <2>2 DEF FetchFails, Fault
  <2> QED BY <2>1, <2>2
<1>5. r \in Replies
  BY <1>1, <1>2, <1>4, BlockTypes
<1>6. /\ FetchOK' /\ w'.pc = "fetch" /\ w'.mode = w.mode /\ w'.verdict = 0
      /\ w'.again = w.again /\ w'.lo = w.lo /\ w'.hi = w.hi /\ w'.min = w.min /\ w'.max = w.max
      /\ DOMAIN w'.got[b] = DOMAIN w.got[b] \cup {k} /\ w'.got[b][k] = r
      /\ \A i \in DOMAIN w.got[b] : w'.got[b][i] = w.got[b][i]
      /\ \A d \in w.lo..w.hi : d # b => w'.got[d] = w.got[d]
  BY <1>1, <1>4, <1>5, GetsEffect
<1>7. Types' /\ Watches
  BY <1>1, <1>3, <1>6 DEF Types, Watches
<1>8. /\ History /\ ForkInv' /\ CursorInv' /\ \A d \in Nat : Agree(d) => Agree(d)'
  <2>1. cursor' <= cursor
    BY <1>1, <1>3 DEF Types
  <2> QED BY <1>7, <2>1, WatchesKeep
\* An answer that is held now was held before, or is the new one.
<1>9. ASSUME NEW d \in w.lo..w.hi, NEW i \in DOMAIN w'.got[d]
      PROVE  \/ i \in DOMAIN w.got[d] /\ w'.got[d][i] = w.got[d][i]
             \/ d = b /\ i = k /\ w'.got[d][i] = r /\ Nodes[i] = n
  BY <1>1, <1>6, <1>9
<1> HIDE DEF k
<1>10. AnswerInv'
  <2>0. \A x, y : Fetched(x, y)' = Fetched(x, y)
    BY <1>3 DEF Fetched, Hash, TxOrder, Own
  <2> SUFFICES ASSUME NEW d \in w.lo..w.hi, NEW i \in DOMAIN w'.got[d], Nodes[i] \in steady'
               PROVE  \/ w'.got[d][i] = Missing
                      \/ d <= height[Nodes[i]] /\ w'.got[d][i] = Fetched(Nodes[i], d)
    BY <1>3, <1>6, <2>0 DEF AnswerInv, Holds
  <2>1. CASE i \in DOMAIN w.got[d] /\ w'.got[d][i] = w.got[d][i]
    BY <1>1, <1>3, <2>1 DEF IInv, AnswerInv, Holds
  <2>2. CASE d = b /\ i = k /\ w'.got[d][i] = r /\ Nodes[i] = n
    BY <1>4, <2>2
  <2> QED BY <1>9, <2>1, <2>2
<1>11. PollInv'
  BY <1>6 DEF PollInv
<1>12. BatchInv'
  <2> SUFFICES ASSUME w.mode = "batch"
               PROVE  /\ cursor < w.lo /\ cursor <= w.min /\ w.min <= w.max
                      /\ w.lo <= w.hi /\ w.hi <= w.max
                      /\ w.hi = w.max \/ w.hi = w.lo + BatchSize - 1
                      /\ \A m \in steady' : w.min <= height[m]
                      /\ \A d \in 1..(w.lo - 1) : d <= w.min => Agree(d)'
                      /\ \A d \in w.lo..w.hi : \A i \in DOMAIN w'.got[d] :
                            Nodes[i] \in steady' /\ d <= w.min => w'.got[d][i] # Missing
    BY <1>3, <1>6 DEF BatchInv
  <2>1. w.min \in Nat /\ w.lo \in Nat
    BY <1>1 DEF Types, FetchOK
  <2>2. \A d \in 1..(w.lo - 1) : d <= w.min => Agree(d)'
    BY <1>1, <1>8, <2>1 DEF IInv, BatchInv
  <2>3. ASSUME NEW d \in w.lo..w.hi, NEW i \in DOMAIN w'.got[d],
               Nodes[i] \in steady', d <= w.min
        PROVE  w'.got[d][i] # Missing
    <3>1. CASE i \in DOMAIN w.got[d] /\ w'.got[d][i] = w.got[d][i]
      BY <1>1, <1>3, <2>3, <3>1 DEF IInv, BatchInv
    <3>2. CASE d = b /\ i = k /\ w'.got[d][i] = r /\ Nodes[i] = n
      <4>1. w.min <= height[n]
        BY <1>1, <1>3, <2>3, <3>2 DEF IInv, BatchInv
      <4>2. b <= height[n]
        BY <1>2, <2>1, <2>3, <3>2, <4>1
      <4>3. r = Fetched(n, b)
        BY <1>4, <2>3, <3>2, <4>2
      <4> QED BY <1>1, <1>2, <3>2, <4>3, BlockTypes
    <3> QED BY <1>9, <2>3, <3>1, <3>2
  <2> QED BY <1>1, <1>3, <2>2, <2>3 DEF IInv, BatchInv
<1>13. CleanInv'
  <2> SUFFICES ASSUME forks = 0
               PROVE  /\ w.mode = "batch"
                      /\ \A d \in w.lo..w.hi : \A i \in DOMAIN w'.got[d] :
                            w'.got[d][i] \in {Missing, Common(d)}
    BY <1>3, <1>6 DEF CleanInv
  <2>1. Fetched(n, b) = Common(b)
    <3>1. branch[n] = 0
      BY DEF IInv, ForkInv
    <3> QED BY <3>1 DEF Fetched, Hash, TxOrder, Own, Common
  <2>2. ASSUME NEW d \in w.lo..w.hi, NEW i \in DOMAIN w'.got[d]
        PROVE  w'.got[d][i] \in {Missing, Common(d)}
    BY <1>1, <1>4, <1>9, <2>1, <2>2 DEF IInv, CleanInv
  <2> QED BY <1>1, <2>2 DEF IInv, CleanInv
<1>14. SearchInv'
  <2> SUFFICES ASSUME forks = 1, steady' = Names, w.mode = "search"
               PROVE  \E p, q \in Names :
                          /\ Between(p, q, w.min, w.max, w.again) /\ w.lo <= w.max
                          /\ \A i \in DOMAIN w'.got[w.lo] :
                                Nodes[i] \in {p, q} => w'.got[w.lo][i] # Missing
    BY <1>3, <1>6 DEF SearchInv, Between
  <2>1. steady = Names
    BY <1>1, <1>3 DEF Types
  <2>2. PICK p \in Names, q \in Names :
                          /\ Between(p, q, w.min, w.max, w.again) /\ w.lo <= w.max
                          /\ \A i \in DOMAIN w.got[w.lo] :
                                Nodes[i] \in {p, q} => w.got[w.lo][i] # Missing
    BY <1>1, <2>1 DEF IInv, SearchInv
  <2>3. ASSUME NEW i \in DOMAIN w'.got[w.lo], Nodes[i] \in {p, q}
        PROVE  w'.got[w.lo][i] # Missing
    <3>0. w.lo \in Nat /\ w.hi = w.lo /\ w.lo \in w.lo..w.hi /\ w.max \in Nat /\ w.again \in Nat
      BY <1>1 DEF Types, FetchOK
    <3>1. CASE i \in DOMAIN w.got[w.lo] /\ w'.got[w.lo][i] = w.got[w.lo][i]
      BY <2>2, <2>3, <3>1
    <3>2. CASE w.lo = b /\ i = k /\ w'.got[w.lo][i] = r /\ Nodes[i] = n
      <4>1. w.again <= height[n] /\ w.max = w.again - 1
        BY <2>2, <2>3, <3>2 DEF Between
      <4>2. b <= height[n]
        BY <1>2, <2>2, <3>0, <3>2, <4>1
      <4>3. r = Fetched(n, b)
        BY <1>4, <4>2
      <4> QED BY <1>1, <1>2, <3>2, <4>3, BlockTypes
    <3> QED BY <1>9, <2>3, <3>0, <3>1, <3>2
  <2> QED BY <2>2, <2>3
<1> QED BY <1>7, <1>8, <1>10, <1>11, <1>12, <1>13, <1>14 DEF IInv

-----------------------------------------------------------------------------
(* A batch is compared.                                                    *)

\* All answers are there.
LEMMA WholeParts ==
  ASSUME Types, Whole, NEW b \in w.lo..w.hi
  PROVE  /\ w.pc = "fetch" /\ FetchOK /\ b \in Nat \ {0} /\ DOMAIN w.got[b] = DOMAIN Nodes
         /\ Valid(b) \subseteq DOMAIN Nodes /\ IsFiniteSet(Valid(b))
         /\ \A i \in DOMAIN Nodes : w.got[b][i] \in Replies
<1>1. w.pc = "fetch" /\ FetchOK
  BY DEF Types, Whole
<1>2. b \in Nat \ {0} /\ w.got[b] \in Seq(Replies) /\ Len(w.got[b]) = Len(Nodes)
  BY <1>1 DEF FetchOK, Whole
<1>3. DOMAIN w.got[b] = 1..Len(w.got[b]) /\ DOMAIN Nodes = 1..Len(Nodes) /\ Len(Nodes) \in Nat
  BY <1>2, NodesAreNames
<1>4. Valid(b) \subseteq DOMAIN Nodes
  BY DEF Valid
<1>5. IsFiniteSet(DOMAIN Nodes)
  BY <1>3, FS_Interval
<1>6. IsFiniteSet(Valid(b))
  BY <1>4, <1>5, FS_Subset
<1>7. \A i \in DOMAIN Nodes : w.got[b][i] \in Replies
  BY <1>2, <1>3
<1> QED BY <1>1, <1>2, <1>3, <1>4, <1>6, <1>7

\* A batch without a mismatch: nodes that have always answered agree on its blocks.
LEMMA BatchAgrees ==
  ASSUME IInv, Whole, w.mode = "batch", Mismatches = {}, NEW b \in w.lo..w.hi, b <= w.min
  PROVE  Agree(b)
<1>1. /\ Types /\ w.pc = "fetch" /\ FetchOK /\ b \in Nat \ {0} /\ DOMAIN w.got[b] = DOMAIN Nodes
      /\ IsFiniteSet(Valid(b))
  BY WholeParts DEF IInv
<1>2. ~Mismatch(b)
  BY DEF Mismatches
<1>3. ASSUME NEW n \in steady
      PROVE  \E i \in Valid(b) : /\ Nodes[i] = n /\ b <= height[n]
                                 /\ w.got[b][i].hash = Hash(n, b)
                                 /\ w.got[b][i].order = TxOrder(n, b)
  <2>1. n \in Names
    BY <1>1 DEF Types
  <2>2. PICK i \in DOMAIN Nodes : n = Nodes[i]
    BY <2>1, NodesAreNames
  <2>3. w.got[b][i] # Missing
    BY <1>1, <2>2 DEF IInv, BatchInv
  <2>4. Holds(Nodes[i], b, w.got[b][i])
    BY <1>1, <2>2 DEF IInv, AnswerInv
  <2>5. b <= height[n] /\ w.got[b][i] = Fetched(n, b)
    BY <2>2, <2>3, <2>4 DEF Holds
  <2>6. Fetched(n, b).hash = Hash(n, b) /\ Fetched(n, b).order = TxOrder(n, b)
    BY <1>1, <2>1, BlockTypes
  <2>7. i \in Valid(b)
    BY <2>2, <2>3 DEF Valid
  <2> QED BY <2>2, <2>5, <2>6, <2>7
<1>4. ASSUME NEW n \in steady, NEW m \in steady
      PROVE  Block(n, b) = Block(m, b) /\ b <= height[n]
  <2>1. PICK i \in Valid(b) : /\ b <= height[n]
                              /\ w.got[b][i].hash = Hash(n, b) /\ w.got[b][i].order = TxOrder(n, b)
    BY <1>3
  <2>2. PICK j \in Valid(b) : w.got[b][j].hash = Hash(m, b) /\ w.got[b][j].order = TxOrder(m, b)
    BY <1>3
  <2>3. CASE i = j
    BY <2>1, <2>2, <2>3 DEF Block
  <2>4. CASE i # j
    <3>1. Cardinality(Valid(b)) >= 2
      BY <1>1, <2>1, <2>2, <2>4, TwoOf
    <3>2. w.got[b][i] = w.got[b][j]
      BY <1>2, <2>1, <2>2, <3>1 DEF Mismatch
    <3> QED BY <2>1, <2>2, <3>2 DEF Block
  <2> QED BY <2>3, <2>4
<1> QED BY <1>4 DEF Agree

LEMMA RecheckStep ==
  ASSUME IInv, Whole, NEW m, Recheck(m)
  PROVE  IInv'
<1> DEFINE g == [b \in w.lo..w.hi |-> <<>>]
<1>1. /\ Types /\ w.pc = "fetch" /\ FetchOK /\ w.mode = "batch"
      /\ UNCHANGED <<height, branch, cursor, forks, steady>>
      /\ w' = [w EXCEPT !.again = TRUE, !.got = g]
  BY DEF IInv, Types, Whole, Recheck
<1> HIDE DEF g
<1>2. w' = [pc |-> "fetch", mode |-> w.mode, again |-> TRUE, lo |-> w.lo, hi |-> w.hi,
            min |-> w.min, max |-> w.max, got |-> g, verdict |-> 0, flag |-> FALSE]
  <2>1. PICK mo, ag, l, h, mi, ma, go :
           /\ w = [pc |-> "fetch", mode |-> mo, again |-> ag, lo |-> l, hi |-> h,
                   min |-> mi, max |-> ma, got |-> go, verdict |-> 0, flag |-> FALSE]
    BY <1>1 DEF FetchOK
  <2>2. /\ w.mode = mo /\ w.lo = l /\ w.hi = h /\ w.min = mi /\ w.max = ma
    BY <2>1
  <2>3. w' = [[pc |-> "fetch", mode |-> mo, again |-> ag, lo |-> l, hi |-> h,
                   min |-> mi, max |-> ma, got |-> go, verdict |-> 0, flag |-> FALSE]
              EXCEPT !.again = TRUE, !.got = g]
    BY <1>1, <2>1
  <2> QED BY <2>2, <2>3
<1>3. /\ w'.pc = "fetch" /\ w'.mode = "batch" /\ w'.verdict = 0 /\ w'.again = TRUE
      /\ w'.lo = w.lo /\ w'.hi = w.hi /\ w'.min = w.min /\ w'.max = w.max /\ w'.got = g
  <2>1. /\ w'.pc = "fetch" /\ w'.mode = w.mode /\ w'.verdict = 0
        /\ w'.lo = w.lo /\ w'.hi = w.hi /\ w'.min = w.min /\ w'.max = w.max /\ w'.got = g
    BY <1>2
  <2>2. w'.again = TRUE
    BY <1>2
  <2>3. w.mode = "batch"
    BY <1>1
  <2> QED BY <2>1, <2>2, <2>3
<1>4. w' = [pc |-> "fetch", mode |-> w'.mode, again |-> w'.again, lo |-> w'.lo, hi |-> w'.hi,
            min |-> w'.min, max |-> w'.max, got |-> w'.got, verdict |-> 0, flag |-> FALSE]
  BY <1>2, <1>3
<1>5. /\ <<>> \in Seq(Replies) /\ Len(<<>>) = 0 /\ Len(Nodes) \in Nat /\ DOMAIN <<>> = {}
  BY NodesAreNames
<1>6. /\ g \in [w.lo..w.hi -> Seq(Replies)] /\ \A b \in w.lo..w.hi : g[b] = <<>>
  BY <1>5 DEF g
<1>7. \A b \in w.lo..w.hi : Len(g[b]) <= Len(Nodes) /\ DOMAIN g[b] = {}
  BY <1>5, <1>6
<1>8. FetchOK'
  BY <1>1, <1>3, <1>4, <1>6, <1>7 DEF FetchOK
<1>9. Types' /\ Watches /\ cursor' <= cursor
  BY <1>1, <1>3, <1>8 DEF Types, Watches
<1>10. \A b \in w'.lo..w'.hi : DOMAIN w'.got[b] = {}
  BY <1>3, <1>7
<1>11. /\ cursor' < w'.lo /\ cursor' <= w'.min /\ w'.min <= w'.max /\ w'.lo <= w'.hi
       /\ w'.hi <= w'.max /\ (w'.hi = w'.max \/ w'.hi = w'.lo + BatchSize - 1)
       /\ (\A n \in steady : w'.min <= height[n])
       /\ \A b \in 1..(w'.lo - 1) : b <= w'.min => Agree(b)
  BY <1>1, <1>3 DEF IInv, BatchInv
<1> QED BY <1>3, <1>9, <1>10, <1>11, EmptyHands

\* What a batch without a mismatch adds to what was compared before.
LEMMA ComparedSoFar ==
  ASSUME IInv, Whole, w.mode = "batch", Mismatches = {}
  PROVE  \A b \in 1..w.hi : b <= w.min => Agree(b)
<1>1. Types /\ w.pc = "fetch" /\ w.lo \in Nat /\ w.hi \in Nat
  BY DEF IInv, Types, Whole, FetchOK
<1> SUFFICES ASSUME NEW b \in 1..w.hi, b <= w.min PROVE Agree(b)
  OBVIOUS
<1>2. b \in 1..(w.lo - 1) \/ b \in w.lo..w.hi
  BY <1>1
<1>3. CASE b \in 1..(w.lo - 1)
  BY <1>1, <1>3 DEF IInv, BatchInv
<1>4. CASE b \in w.lo..w.hi
  BY <1>4, BatchAgrees
<1> QED BY <1>2, <1>3, <1>4

LEMMA NextBatchStep ==
  ASSUME IInv, Whole, NextBatch(Mismatches)
  PROVE  IInv'
<1> DEFINE lo == w.lo + BatchSize
<1>1. /\ Types /\ w.pc = "fetch" /\ FetchOK /\ w.mode = "batch" /\ Mismatches = {} /\ w.hi < w.max
      /\ UNCHANGED <<height, branch, cursor, forks, steady>>
      /\ w' = BatchFrom(lo, w.min, w.max)
  BY DEF IInv, Types, Whole, NextBatch
<1>2. /\ w.lo \in Nat \ {0} /\ w.hi \in Nat /\ w.min \in Nat /\ w.max \in Nat /\ BatchSize \in Nat \ {0}
      /\ cursor \in Nat
  BY <1>1, CheckerAssumption DEF FetchOK, Types
<1>3. /\ cursor < w.lo /\ cursor <= w.min /\ w.min <= w.max /\ w.lo <= w.hi
      /\ w.hi = w.max \/ w.hi = w.lo + BatchSize - 1
  BY <1>1 DEF IInv, BatchInv
<1>4. w.hi = w.lo + BatchSize - 1
  BY <1>1, <1>2, <1>3
<1>5. /\ lo = w.hi + 1 /\ lo \in Nat \ {0} /\ lo <= w.max /\ cursor < lo
  BY <1>1, <1>2, <1>3, <1>4
<1> HIDE DEF lo
<1>6. /\ FetchOK' /\ w'.pc = "fetch" /\ w'.mode = "batch" /\ w'.verdict = 0
      /\ w'.lo = lo /\ w'.min = w.min /\ w'.max = w.max /\ lo <= w'.hi /\ w'.hi <= w.max
      /\ w'.hi = w.max \/ w'.hi = lo + BatchSize - 1
      /\ \A b \in lo..w'.hi : DOMAIN w'.got[b] = {}
  BY <1>1, <1>2, <1>5, BatchFromType
<1>7. Types' /\ Watches /\ cursor' <= cursor
  BY <1>1, <1>2, <1>6 DEF Types, Watches
<1>8. \A b \in 1..(w'.lo - 1) : b <= w'.min => Agree(b)
  <2>1. w'.lo - 1 = w.hi
    BY <1>2, <1>5, <1>6
  <2> QED BY <1>1, <1>6, <2>1, ComparedSoFar
<1>9. \A n \in steady : w'.min <= height[n]
  BY <1>1, <1>6 DEF IInv, BatchInv
<1> QED BY <1>1, <1>3, <1>5, <1>6, <1>7, <1>8, <1>9, EmptyHands

LEMMA VerifiedStep ==
  ASSUME IInv, Whole, Verified(Mismatches)
  PROVE  IInv'
<1>1. /\ Types /\ w.pc = "fetch" /\ FetchOK /\ w.mode = "batch" /\ Mismatches = {} /\ w.hi = w.max
      /\ UNCHANGED <<height, branch, forks, steady>> /\ cursor' = w.min
      /\ w' = [pc |-> "sleep", verdict |-> 0, flag |-> FALSE]
  BY DEF IInv, Types, Whole, Verified, Resting
<1>2. w.min \in Nat /\ w.max \in Nat /\ w.min <= w.max
  BY <1>1 DEF FetchOK, IInv, BatchInv
<1>3. Types' /\ Watches /\ PollInv' /\ w'.pc = "sleep" /\ w'.verdict = 0
  BY <1>1, <1>2 DEF Types, Watches, PollInv
<1>4. \A b \in Nat : Agree(b) => Agree(b)'
  BY <1>3, WatchesKeep
<1>5. CursorInv'
  <2>1. \A b \in 1..w.min : b \in 1..w.hi /\ b <= w.min /\ b \in Nat
    BY <1>1, <1>2
  <2>2. \A b \in 1..w.min : Agree(b)
    BY <1>1, <2>1, ComparedSoFar
  <2> QED BY <1>1, <1>4, <2>1, <2>2 DEF CursorInv
<1> QED BY <1>3, <1>5, RestingKeeps

-----------------------------------------------------------------------------
(* A mismatch and the search.                                              *)

\* Without a fork there is no mismatch.
LEMMA NoMismatch ==
  ASSUME IInv, Whole, forks = 0
  PROVE  Mismatches = {}
<1> SUFFICES ASSUME NEW b \in w.lo..w.hi PROVE ~Mismatch(b)
  BY DEF Mismatches
<1>1. /\ w.pc = "fetch" /\ b \in Nat \ {0} /\ DOMAIN w.got[b] = DOMAIN Nodes
  BY WholeParts DEF IInv
<1>2. \A i \in Valid(b) : i \in DOMAIN Nodes /\ w.got[b][i] = Common(b)
  BY <1>1 DEF IInv, CleanInv, Valid
<1>3. Broken(b) = {}
  <2> SUFFICES ASSUME NEW i \in Valid(b), NEW h \in Prev(b, i)
               PROVE  w.got[b][i].parent = h
    BY DEF Broken
  <2>1. b - 1 \in w.lo..w.hi /\ i \in Valid(b - 1) /\ h = w.got[b - 1][i].hash
    BY DEF Prev
  <2>2. DOMAIN w.got[b - 1] = DOMAIN Nodes
    BY <2>1, WholeParts DEF IInv
  <2>3. w.got[b - 1][i] = Common(b - 1)
    BY <1>1, <2>1, <2>2 DEF IInv, CleanInv, Valid
  <2>4. Common(b).parent = [num |-> b - 1, branch |-> 0]
    BY DEF Common
  <2>5. Common(b - 1).hash = [num |-> b - 1, branch |-> 0]
    BY DEF Common
  <2> QED BY <1>2, <2>1, <2>3, <2>4, <2>5
<1> QED BY <1>2, <1>3 DEF Mismatch

\* The nodes hold what they answered, if all have always answered.
LEMMA AllHold ==
  ASSUME IInv, Whole, steady = Names, NEW b \in w.lo..w.hi, NEW i \in Valid(b)
  PROVE  /\ i \in DOMAIN Nodes /\ Nodes[i] \in Names /\ b <= height[Nodes[i]]
         /\ w.got[b][i] = Fetched(Nodes[i], b)
<1>1. /\ w.pc = "fetch" /\ DOMAIN w.got[b] = DOMAIN Nodes
  BY WholeParts DEF IInv
<1>2. i \in DOMAIN Nodes /\ w.got[b][i] # Missing /\ Nodes[i] \in Names
  BY NodesAreNames DEF Valid
<1>3. Holds(Nodes[i], b, w.got[b][i])
  BY <1>1, <1>2 DEF IInv, AnswerInv
<1> QED BY <1>2, <1>3 DEF Holds

LEMMA BranchSeen ==
  ASSUME Types, NEW p \in Names, NEW q \in Names, NEW b \in Nat \ {0},
         branch[p] # 0, branch[q] = 0
  PROVE  /\ branch[p] <= b => Block(p, b) # Block(q, b)
         /\ branch[p] <= b => Fetched(p, b) # Fetched(q, b)
         /\ ~(branch[p] <= b) => Fetched(p, b) = Fetched(q, b)
<1>1. branch[p] \in Nat
  BY DEF Types
<1>2. branch[p] <= b => Own(p, b) # Own(q, b)
  BY <1>1 DEF Own
<1>3. branch[p] <= b => Hash(p, b) # Hash(q, b) \/ TxOrder(p, b) # TxOrder(q, b)
  <2>1. Own(q, b) = 0
    BY DEF Own
  <2>2. CASE p \in Reordered
    BY <1>2, <2>1, <2>2 DEF TxOrder
  <2>3. CASE p \notin Reordered
    <3>1. Hash(p, b).branch = Own(p, b) /\ Hash(q, b).branch = 0
      BY <2>1, <2>3 DEF Hash
    <3> QED BY <1>2, <2>1, <3>1
  <2> QED BY <2>2, <2>3
<1>4. ~(branch[p] <= b) =>
         /\ Hash(p, b) = Hash(q, b) /\ Hash(p, b - 1) = Hash(q, b - 1)
         /\ TxOrder(p, b) = TxOrder(q, b)
  BY <1>1 DEF Hash, TxOrder, Own
<1>5. /\ Fetched(p, b).hash = Hash(p, b) /\ Fetched(q, b).hash = Hash(q, b)
      /\ Fetched(p, b).order = TxOrder(p, b) /\ Fetched(q, b).order = TxOrder(q, b)
      /\ Block(p, b).hash = Hash(p, b) /\ Block(q, b).hash = Hash(q, b)
      /\ Block(p, b).order = TxOrder(p, b) /\ Block(q, b).order = TxOrder(q, b)
  BY BlockTypes
<1>6. branch[p] <= b => Fetched(p, b) # Fetched(q, b) /\ Block(p, b) # Block(q, b)
  BY <1>3, <1>5
<1>7. ~(branch[p] <= b) => Fetched(p, b) = Fetched(q, b)
  BY <1>4 DEF Fetched
<1> QED BY <1>6, <1>7

\* After one fork, a mismatch is between a node on its branch and one that is not.
LEMMA MismatchMeans ==
  ASSUME IInv, Whole, steady = Names, forks = 1, NEW b \in w.lo..w.hi, Mismatch(b)
  PROVE  \E p, q \in Names :
            /\ branch[p] # 0 /\ branch[q] = 0 /\ branch[p] <= b
            /\ b <= height[p] /\ b <= height[q]
<1>1. Types /\ b \in Nat \ {0}
  BY WholeParts DEF IInv
<1>2. Broken(b) = {}
  <2> SUFFICES ASSUME NEW i \in Valid(b), NEW h \in Prev(b, i)
               PROVE  w.got[b][i].parent = h
    BY DEF Broken
  <2>1. b - 1 \in w.lo..w.hi /\ i \in Valid(b - 1) /\ h = w.got[b - 1][i].hash
    BY DEF Prev
  <2>2. b - 1 \in Nat \ {0}
    BY <2>1, WholeParts DEF IInv
  <2>3. w.got[b][i] = Fetched(Nodes[i], b) /\ Nodes[i] \in Names
    BY AllHold
  <2>4. w.got[b - 1][i] = Fetched(Nodes[i], b - 1)
    BY <2>1, AllHold
  <2>5. Fetched(Nodes[i], b).parent = Hash(Nodes[i], b - 1)
    BY <1>1, <2>3, BlockTypes
  <2>6. Fetched(Nodes[i], b - 1).hash = Hash(Nodes[i], b - 1)
    BY <1>1, <2>2, <2>3, BlockTypes
  <2> QED BY <2>1, <2>3, <2>4, <2>5, <2>6
<1>3. PICK i \in Valid(b), j \in Valid(b) : w.got[b][i] # w.got[b][j]
  BY <1>2 DEF Mismatch
<1>4. PICK n \in Names, m \in Names :
         Fetched(n, b) # Fetched(m, b) /\ b <= height[n] /\ b <= height[m]
  BY <1>3, AllHold
<1>5. branch[n] # branch[m]
  <2> SUFFICES ASSUME branch[n] = branch[m] PROVE FALSE
    OBVIOUS
  <2>1. n # m
    BY <1>4
  <2>2. branch[n] = 0 /\ branch[m] = 0
    BY <2>1 DEF IInv, ForkInv
  <2> QED BY <1>4, <2>2 DEF Fetched, Hash, TxOrder, Own
<1>6. branch[n] = 0 \/ branch[m] = 0
  BY <1>5 DEF IInv, ForkInv
<1>7. CASE branch[n] = 0
  <2>1. branch[m] # 0 /\ branch[m] <= b
    BY <1>1, <1>4, <1>5, <1>7, BranchSeen
  <2> QED BY <1>4, <1>7, <2>1
<1>8. CASE branch[m] = 0
  <2>1. branch[n] # 0 /\ branch[n] <= b
    BY <1>1, <1>4, <1>5, <1>8, BranchSeen
  <2> QED BY <1>4, <1>8, <2>1
<1> QED BY <1>6, <1>7, <1>8

LEMMA SearchKeeps ==
  ASSUME IInv, Watches, cursor' = cursor, forks # 0,
         NEW low \in Nat \ {0}, NEW high \in Nat, NEW found \in Nat \ {0},
         w' = SearchOf(low, high, found),
         forks = 1 /\ steady = Names => \E p, q \in Names : Between(p, q, low, high, found)
  PROVE  IInv'
<1>1. w' = [pc |-> "search", low |-> low, high |-> high, found |-> found,
            verdict |-> 0, flag |-> FALSE]
  BY DEF SearchOf
<1>2. w'.pc = "search" /\ w'.low = low /\ w'.high = high /\ w'.found = found /\ w'.verdict = 0
  BY <1>1
<1>3. SearchOK'
  BY <1>1, <1>2 DEF SearchOK
<1>4. Types'
  BY <1>2, <1>3 DEF IInv, Types, Watches
<1>5. ForkInv' /\ CursorInv'
  <2>1. cursor' <= cursor
    BY DEF IInv, Types
  <2> QED BY <1>4, <2>1, WatchesKeep
<1>6. AnswerInv' /\ PollInv' /\ BatchInv' /\ CleanInv'
  BY <1>2 DEF AnswerInv, PollInv, BatchInv, CleanInv, Watches
<1>7. SearchInv'
  <2> SUFFICES ASSUME forks = 1, steady' = Names
               PROVE  \E p, q \in Names : Between(p, q, low, high, found)
    BY <1>2 DEF SearchInv, Between, Watches
  <2>1. steady = Names
    BY DEF IInv, Types, Watches
  <2> QED BY <2>1
<1> QED BY <1>4, <1>5, <1>6, <1>7 DEF IInv

LEMMA DiffersStep ==
  ASSUME IInv, Whole, Differs(Mismatches)
  PROVE  IInv'
<1> DEFINE f == Min(Mismatches)
<1>1. /\ Types /\ w.mode = "batch" /\ Mismatches # {}
      /\ UNCHANGED <<height, branch, cursor, forks, steady>>
      /\ w' = SearchOf(1, f - 1, f)
  BY DEF IInv, Differs
<1>2. \A b \in Mismatches : b \in w.lo..w.hi /\ Mismatch(b) /\ b \in Nat \ {0}
  BY <1>1, WholeParts DEF Mismatches
<1>3. f \in Mismatches
  <2>1. Mismatches \subseteq Nat
    BY <1>2
  <2> QED BY <1>1, <2>1, MinIsSmallest
<1> HIDE DEF f
<1>4. f \in w.lo..w.hi /\ Mismatch(f) /\ f \in Nat \ {0} /\ f - 1 \in Nat
  BY <1>2, <1>3
<1>5. forks # 0
  BY <1>1, NoMismatch
<1>6. ASSUME forks = 1, steady = Names
      PROVE  \E p, q \in Names : Between(p, q, 1, f - 1, f)
  <2>1. PICK p \in Names, q \in Names :
            /\ branch[p] # 0 /\ branch[q] = 0 /\ branch[p] <= f
            /\ f <= height[p] /\ f <= height[q]
    BY <1>4, <1>6, MismatchMeans
  <2>2. branch[p] \in Nat
    BY <1>1 DEF Types
  <2>3. 1 <= branch[p]
    BY <2>1, <2>2
  <2>4. Between(p, q, 1, f - 1, f)
    BY <2>1, <2>3 DEF Between
  <2> QED BY <2>4
<1>7. Watches /\ 1 \in Nat \ {0}
  BY <1>1 DEF Watches
<1> QED BY <1>1, <1>4, <1>5, <1>6, <1>7, SearchKeeps

LEMMA Halfway ==
  ASSUME NEW a \in Nat, NEW b \in Nat, a <= b
  PROVE  a + (b - a) \div 2 \in a..b
<1>1. PICK d \in Nat : b = a + d
  <2>1. b - a \in Nat /\ b = a + (b - a)
    OBVIOUS
  <2> QED BY <2>1
<1>2. d \div 2 \in Nat /\ d \div 2 <= d
  BY <1>1
<1>3. b - a = d
  BY <1>1
<1> QED BY <1>1, <1>2, <1>3

LEMMA ProbeStep ==
  ASSUME IInv, Probe
  PROVE  IInv'
<1> DEFINE mid == w.low + (w.high - w.low) \div 2
<1>1. /\ Types /\ w.pc = "search" /\ SearchOK /\ w.low <= w.high
      /\ UNCHANGED <<height, branch, cursor, forks, steady>>
      /\ w' = [FetchOf(mid, mid, w.low, w.high) EXCEPT !.mode = "search", !.again = w.found]
  BY DEF IInv, Types, Probe
<1>2. w.low \in Nat \ {0} /\ w.high \in Nat /\ w.found \in Nat \ {0}
  BY <1>1 DEF SearchOK
<1>3. mid \in w.low..w.high
  BY <1>1, <1>2, Halfway
<1>4. mid \in Nat \ {0} /\ mid <= w.high
  BY <1>2, <1>3
<1> HIDE DEF mid
<1> DEFINE g == [b \in mid..mid |-> <<>>]
<1>5. FetchOf(mid, mid, w.low, w.high) =
         [pc |-> "fetch", mode |-> "batch", again |-> FALSE, lo |-> mid, hi |-> mid, min |-> w.low,
          max |-> w.high, got |-> g, verdict |-> 0, flag |-> FALSE]
  BY DEF FetchOf
<1> HIDE DEF g
<1>6. w' = [pc |-> "fetch", mode |-> "search", again |-> w.found, lo |-> mid, hi |-> mid,
            min |-> w.low, max |-> w.high, got |-> g, verdict |-> 0, flag |-> FALSE]
  <2>1. PICK fo, lo, hi : w.found = fo /\ w.low = lo /\ w.high = hi
    OBVIOUS
  <2>2. w' = [[pc |-> "fetch", mode |-> "batch", again |-> FALSE, lo |-> mid, hi |-> mid,
               min |-> lo, max |-> hi, got |-> g, verdict |-> 0, flag |-> FALSE]
              EXCEPT !.mode = "search", !.again = fo]
    BY <1>1, <1>5, <2>1
  <2> QED BY <2>1, <2>2
<1>7. /\ w'.pc = "fetch" /\ w'.mode = "search" /\ w'.again = w.found /\ w'.lo = mid /\ w'.hi = mid
      /\ w'.min = w.low /\ w'.max = w.high /\ w'.got = g /\ w'.verdict = 0
  BY <1>6
<1>8. w' = [pc |-> "fetch", mode |-> w'.mode, again |-> w'.again, lo |-> w'.lo, hi |-> w'.hi,
            min |-> w'.min, max |-> w'.max, got |-> w'.got, verdict |-> 0, flag |-> FALSE]
  BY <1>6, <1>7
<1>9. /\ <<>> \in Seq(Replies) /\ Len(<<>>) = 0 /\ Len(Nodes) \in Nat /\ DOMAIN <<>> = {}
      /\ mid \in mid..mid
  BY <1>4, NodesAreNames
<1>10. g \in [mid..mid -> Seq(Replies)] /\ \A b \in mid..mid : g[b] = <<>>
  BY <1>9 DEF g
<1>11. \A b \in mid..mid : Len(g[b]) <= Len(Nodes) /\ DOMAIN g[b] = {}
  BY <1>9, <1>10
<1>12. FetchOK'
  BY <1>2, <1>4, <1>7, <1>8, <1>10, <1>11 DEF FetchOK
<1>13. Types' /\ Watches /\ cursor' <= cursor
  BY <1>1, <1>7, <1>12 DEF Types, Watches
<1>14. ForkInv' /\ CursorInv'
  BY <1>13, WatchesKeep
<1>15. forks # 0
  BY <1>1 DEF IInv, CleanInv
<1>16. AnswerInv' /\ PollInv' /\ BatchInv' /\ CleanInv'
  BY <1>1, <1>7, <1>11, <1>15 DEF AnswerInv, PollInv, BatchInv, CleanInv
<1>17. SearchInv'
  <2> SUFFICES ASSUME forks = 1, steady = Names
               PROVE  \E p, q \in Names :
                          /\ Between(p, q, w.low, w.high, w.found) /\ mid <= w.high
                          /\ \A i \in DOMAIN g[mid] : Nodes[i] \in {p, q} => g[mid][i] # Missing
    BY <1>1, <1>7 DEF SearchInv, Between
  <2>1. PICK p \in Names, q \in Names : Between(p, q, w.low, w.high, w.found)
    BY <1>1 DEF IInv, SearchInv
  <2> QED BY <1>4, <1>9, <1>11, <2>1
<1> QED BY <1>13, <1>14, <1>16, <1>17 DEF IInv

\* A probe without a mismatch is below the branch.
LEMMA NoMismatchBelow ==
  ASSUME IInv, Whole, steady = Names, NEW b \in w.lo..w.hi, ~Mismatch(b),
         NEW p \in Names, NEW q \in Names, branch[p] # 0, branch[q] = 0,
         \A i \in DOMAIN w.got[b] : Nodes[i] \in {p, q} => w.got[b][i] # Missing
  PROVE  b < branch[p]
<1>1. /\ Types /\ b \in Nat \ {0} /\ DOMAIN w.got[b] = DOMAIN Nodes /\ IsFiniteSet(Valid(b))
  BY WholeParts DEF IInv
<1>2. PICK i \in DOMAIN Nodes, j \in DOMAIN Nodes : p = Nodes[i] /\ q = Nodes[j]
  BY NodesAreNames
<1>3. i \in Valid(b) /\ j \in Valid(b) /\ i # j
  BY <1>1, <1>2 DEF Valid
<1>4. w.got[b][i] = Fetched(p, b) /\ w.got[b][j] = Fetched(q, b)
  BY <1>2, <1>3, AllHold
<1>5. Cardinality(Valid(b)) >= 2
  BY <1>1, <1>3, TwoOf
<1>6. Fetched(p, b) = Fetched(q, b)
  BY <1>3, <1>4, <1>5 DEF Mismatch
<1>7. ~(branch[p] <= b)
  BY <1>1, <1>6, BranchSeen
<1>8. branch[p] \in Nat
  BY <1>1 DEF Types
<1> QED BY <1>1, <1>7, <1>8

LEMMA ProbeEndsStep ==
  ASSUME IInv, Whole, ProbeEnds(Mismatches)
  PROVE  IInv'
<1>1. /\ Types /\ w.pc = "fetch" /\ FetchOK /\ w.mode = "search"
      /\ UNCHANGED <<height, branch, cursor, forks, steady>>
      /\ w' = IF Mismatches # {} THEN SearchOf(w.min, w.lo - 1, w.lo)
                                 ELSE SearchOf(w.lo + 1, w.max, w.again)
  BY DEF IInv, Types, Whole, ProbeEnds
<1>2. /\ w.lo \in Nat \ {0} /\ w.hi = w.lo /\ w.min \in Nat \ {0} /\ w.max \in Nat
      /\ w.again \in Nat \ {0} /\ w.lo - 1 \in Nat /\ w.lo + 1 \in Nat \ {0}
  BY <1>1 DEF FetchOK
<1>3. w.lo \in w.lo..w.hi /\ (Mismatches # {} <=> Mismatch(w.lo))
  <2>1. \A b : b \in w.lo..w.hi <=> b = w.lo
    BY <1>2
  <2> QED BY <2>1 DEF Mismatches
<1>4. forks # 0 /\ Watches
  BY <1>1 DEF IInv, CleanInv, Watches
<1>5. CASE Mismatches # {}
  <2>1. ASSUME forks = 1, steady = Names
        PROVE  \E p, q \in Names : Between(p, q, w.min, w.lo - 1, w.lo)
    <3>1. PICK p \in Names, q \in Names :
              /\ branch[p] # 0 /\ branch[q] = 0 /\ branch[p] <= w.lo
              /\ w.lo <= height[p] /\ w.lo <= height[q]
      BY <1>3, <1>5, <2>1, MismatchMeans
    <3>2. PICK o \in Names : branch[o] # 0 /\ w.min <= branch[o]
      BY <1>1, <2>1 DEF IInv, SearchInv, Between
    <3>3. o = p
      BY <2>1, <3>1, <3>2 DEF IInv, ForkInv
    <3>4. Between(p, q, w.min, w.lo - 1, w.lo)
      BY <3>1, <3>2, <3>3 DEF Between
    <3> QED BY <3>4
  <2>2. w' = SearchOf(w.min, w.lo - 1, w.lo)
    BY <1>1, <1>5
  <2> QED BY <1>1, <1>2, <1>4, <2>1, <2>2, SearchKeeps
<1>6. CASE Mismatches = {}
  <2>1. ASSUME forks = 1, steady = Names
        PROVE  \E p, q \in Names : Between(p, q, w.lo + 1, w.max, w.again)
    <3>1. PICK p \in Names, q \in Names :
              /\ Between(p, q, w.min, w.max, w.again)
              /\ \A i \in DOMAIN w.got[w.lo] : Nodes[i] \in {p, q} => w.got[w.lo][i] # Missing
      BY <1>1, <2>1 DEF IInv, SearchInv
    <3>2. w.lo < branch[p]
      BY <1>3, <1>6, <2>1, <3>1, NoMismatchBelow DEF Between
    <3>3. branch[p] \in Nat
      BY <1>1 DEF Types
    <3>4. w.lo + 1 <= branch[p]
      BY <1>2, <3>2, <3>3
    <3>5. Between(p, q, w.lo + 1, w.max, w.again)
      BY <3>1, <3>4 DEF Between
    <3> QED BY <3>5
  <2>2. w' = SearchOf(w.lo + 1, w.max, w.again)
    BY <1>1, <1>6
  <2> QED BY <1>1, <1>2, <1>4, <2>1, <2>2, SearchKeeps
<1> QED BY <1>5, <1>6

LEMMA ReportStep ==
  ASSUME IInv, Report
  PROVE  IInv'
<1>1. /\ Types /\ w.pc = "search" /\ SearchOK /\ w.low > w.high
      /\ UNCHANGED <<height, branch, cursor, forks>>
  BY DEF IInv, Types, Report
<1>2. w.low \in Nat \ {0} /\ w.high \in Nat /\ w.found \in Nat \ {0}
  BY <1>1 DEF SearchOK
<1>3. PICK bad \in SUBSET Names :
         /\ steady' = steady \ bad
         /\ w' = [pc |-> "exited", verdict |-> w.found,
                  flag |-> \E n, m \in {k \in Names \ bad : w.found <= height[k]} :
                              HeadersDiffer(Fetched(n, w.found), Fetched(m, w.found))]
  BY DEF Report
<1> DEFINE F == \E n, m \in {k \in Names \ bad : w.found <= height[k]} :
                    HeadersDiffer(Fetched(n, w.found), Fetched(m, w.found))
<1>4. F \in BOOLEAN /\ w' = [pc |-> "exited", verdict |-> w.found, flag |-> F]
  BY <1>3
<1> HIDE DEF F
<1>5. w'.pc = "exited" /\ w'.verdict = w.found /\ w'.flag = F
  BY <1>4
<1>6. w' \in [pc : {"sleep", "exited"}, verdict : Nat, flag : BOOLEAN]
  BY <1>2, <1>4
<1>7. Types' /\ Watches /\ cursor' <= cursor
  BY <1>1, <1>3, <1>5, <1>6 DEF Types, Watches
<1>8. ForkInv' /\ CursorInv'
  BY <1>7, WatchesKeep
<1>9. forks # 0
  BY <1>1 DEF IInv, CleanInv
<1>10. AnswerInv' /\ PollInv' /\ BatchInv' /\ CleanInv'
  BY <1>1, <1>5, <1>9 DEF AnswerInv, PollInv, BatchInv, CleanInv
<1>11. SearchInv'
  <2> SUFFICES ASSUME forks = 1, steady' = Names
               PROVE  /\ F <=> \E n, m \in Names : Hash(n, w.found) # Hash(m, w.found)
                      /\ \E p, q \in Names : Between(p, q, w.found, w.found - 1, w.found)
    BY <1>1, <1>4, <1>5 DEF SearchInv, Between, Hash, Own
  <2>1. steady = Names /\ bad = {}
    BY <1>1, <1>3 DEF Types
  <2>2. PICK p \in Names, q \in Names : Between(p, q, w.low, w.high, w.found)
    BY <1>1, <2>1 DEF IInv, SearchInv
  <2>3. branch[p] = w.found
    <3>1. branch[p] \in Nat
      BY <1>1 DEF Types
    <3>2. w.low <= branch[p] /\ branch[p] <= w.found /\ w.high = w.found - 1
      BY <2>2 DEF Between
    <3> QED BY <1>1, <1>2, <3>1, <3>2
  <2>4. Between(p, q, w.found, w.found - 1, w.found)
    BY <1>2, <2>2, <2>3 DEF Between
  <2>5. ASSUME NEW n \in Names, n # p
        PROVE  branch[n] = 0 /\ Hash(n, w.found) = Hash(q, w.found)
    <3>1. branch[n] = 0 /\ branch[q] = 0
      BY <2>2, <2>5 DEF Between, IInv, ForkInv
    <3> QED BY <3>1 DEF Hash, Own
  <2>6. ASSUME NEW n \in Names
        PROVE  /\ Hash(n, w.found - 1) = Hash(q, w.found - 1)
               /\ Fetched(n, w.found).hash = Hash(n, w.found)
               /\ Fetched(n, w.found).parent = Hash(n, w.found - 1)
    <3>1. ~(branch[n] # 0 /\ w.found - 1 >= branch[n]) /\ branch[q] = 0
      BY <1>2, <2>2, <2>3, <2>5 DEF Between
    <3>2. Hash(n, w.found - 1) = Hash(q, w.found - 1)
      BY <3>1 DEF Hash, Own
    <3> QED BY <1>1, <1>2, <3>2, BlockTypes
  <2>7. ASSUME F PROVE \E n, m \in Names : Hash(n, w.found) # Hash(m, w.found)
    BY <2>6, <2>7 DEF F, HeadersDiffer
  <2>8. ASSUME NEW n \in Names, NEW m \in Names, Hash(n, w.found) # Hash(m, w.found) PROVE F
    <3>1. Hash(p, w.found) # Hash(q, w.found)
      BY <2>5, <2>8
    <3>2. HeadersDiffer(Fetched(p, w.found), Fetched(q, w.found))
      BY <2>2, <2>6, <3>1 DEF HeadersDiffer, Between
    <3> QED BY <2>1, <2>2, <3>2 DEF F, Between
  <2> QED BY <2>4, <2>7, <2>8
<1> QED BY <1>7, <1>8, <1>10, <1>11 DEF IInv

-----------------------------------------------------------------------------
(* All steps.                                                              *)

LEMMA InitIInv == Init => IInv
<1> SUFFICES ASSUME Init PROVE IInv
  OBVIOUS
<1>1. /\ height = [n \in Names |-> StartHeight] /\ branch = [n \in Names |-> 0]
      /\ w = [pc |-> "sleep", verdict |-> 0, flag |-> FALSE]
      /\ cursor = 0 /\ forks = 0 /\ steady = Names
  BY DEF Init, Resting
<1>2. StartHeight \in Heights
  BY CheckerAssumption DEF Heights
<1>3. Types
  BY <1>1, <1>2 DEF Types
<1>4. AnswerInv /\ PollInv /\ BatchInv /\ CursorInv
  BY <1>1 DEF AnswerInv, PollInv, BatchInv, CursorInv
<1>5. ForkInv /\ CleanInv /\ SearchInv
  BY <1>1 DEF ForkInv, CleanInv, SearchInv
<1> QED BY <1>3, <1>4, <1>5 DEF IInv

LEMMA NextIInv == IInv /\ [Next]_vars => IInv'
<1> SUFFICES ASSUME IInv, [Next]_vars PROVE IInv'
  OBVIOUS
<1>1. ASSUME Whole, NEW m \in {Mismatches},
             Recheck(m) \/ NextBatch(m) \/ Verified(m) \/ Differs(m) \/ ProbeEnds(m)
      PROVE  IInv'
  BY <1>1, RecheckStep, NextBatchStep, VerifiedStep, DiffersStep, ProbeEndsStep
<1>2. CASE WatchStep
  <2>1. CASE Tick \/ Poll \/ PollFails \/ Nothing \/ StartBatches
    BY <2>1, TickStep, PollStep, NothingStep, StartStep
  <2>2. CASE \E b \in 1..MaxHeight, n \in Names : Fetch(b, n) \/ FetchFails(b, n)
    BY <2>2, FetchStep
  <2>3. CASE Probe \/ Report
    BY <2>3, ProbeStep, ReportStep
  <2> QED BY <1>1, <1>2, <2>1, <2>2, <2>3 DEF WatchStep
<1>3. CASE Interrupt
  BY <1>3, TickStep
<1>4. CASE w.pc # "exited" /\ \E n \in Names : Grow(n) \/ Fork(n) \/ Restart(n)
  BY <1>4, NodeStep
<1>5. CASE UNCHANGED vars
  <2>1. UNCHANGED <<height, branch, w, cursor, forks, steady>>
    BY <1>5 DEF vars
  <2>2. \A n, b : Hash(n, b)' = Hash(n, b) /\ TxOrder(n, b)' = TxOrder(n, b)
    BY <2>1 DEF Hash, TxOrder, Own
  <2>3. \A n, b : Block(n, b)' = Block(n, b) /\ Fetched(n, b)' = Fetched(n, b)
    BY <2>2 DEF Block, Fetched
  <2>4. Types' /\ ForkInv' /\ CleanInv' /\ PollInv'
    BY <2>1 DEF IInv, Types, PollOK, FetchOK, SearchOK, ForkInv, CleanInv, PollInv
  <2>5. AnswerInv'
    BY <2>1, <2>3 DEF IInv, AnswerInv, Holds
  <2>6. BatchInv' /\ CursorInv'
    BY <2>1, <2>3 DEF IInv, BatchInv, CursorInv, Agree
  <2>7. SearchInv'
    BY <2>1, <2>2 DEF IInv, SearchInv, Between
  <2> QED BY <2>4, <2>5, <2>6, <2>7 DEF IInv
<1> QED BY <1>2, <1>3, <1>4, <1>5 DEF Next

\* The inductive invariant: what the watcher holds is what the nodes have, while they go
\* on, and what it has compared or searched for is where it says.
THEOREM Invariance == Spec => []IInv
  BY InitIInv, NextIInv, PTL DEF Spec

\* All nodes that have answered every question have every block up to lastVerifiedBlock,
\* and have the same ones: the cursor only moves over blocks that were compared on all of
\* them, though they grow, fork and lag while a watch goes on, batch by batch, and others
\* fail, restart below the cursor or come back.
THEOREM CursorMeansAgreement == Spec => []VerifiedAgree
<1>1. IInv => VerifiedAgree
  <2> SUFFICES ASSUME IInv, NEW n \in steady, NEW m \in steady, NEW b \in 1..cursor
               PROVE  ~Differ(n, m, b) /\ b <= height[n]
    BY DEF VerifiedAgree
  <2>1. Agree(b)
    BY DEF IInv, CursorInv
  <2> QED BY <2>1 DEF Agree, Differ
<1> QED BY <1>1, Invariance, PTL

\* The watcher stops a test run only if there was a fork, whatever answers are late or
\* missing and whichever nodes restart while it reads.
THEOREM AlarmMeansFork == Spec => []NoFalseAlarm
<1>1. IInv => NoFalseAlarm
  BY DEF IInv, CleanInv, NoFalseAlarm, Types
<1> QED BY <1>1, Invariance, PTL

\* If all nodes answer and one of them forks, the binary search ends at the first block
\* that differs, and the stop flag is written exactly if the headers differ there.
THEOREM SearchFindsFirst == Spec => []FirstIsFirst
<1>1. IInv => FirstIsFirst
  <2> DEFINE D == {b \in 1..MaxHeight : \E n, m \in Names : Differ(n, m, b)}
  <2> SUFFICES ASSUME IInv, w.verdict # 0, steady = Names, forks = 1
               PROVE  /\ w.flag <=> \E n, m \in Names : Hash(n, w.verdict) # Hash(m, w.verdict)
                      /\ w.verdict = Min(D)
    BY DEF FirstIsFirst
  <2>1. PICK p \in Names, q \in Names : Between(p, q, w.verdict, w.verdict - 1, w.verdict)
    BY DEF IInv, SearchInv
  <2>2. /\ Types /\ branch[p] \in Nat /\ height[p] \in Nat /\ height[q] \in Nat
        /\ height[p] <= MaxHeight /\ MaxHeight \in Nat /\ w.pc = "exited"
    <3>1. w.pc = "exited"
      BY DEF IInv, Types
    <3> QED BY <3>1, CheckerAssumption DEF IInv, Types, Heights
  <2>3. w.verdict \in Nat
    BY <2>2 DEF Types
  <2>4. /\ branch[p] = w.verdict /\ branch[p] # 0 /\ branch[q] = 0
        /\ w.verdict <= height[p] /\ w.verdict <= height[q]
    BY <2>1, <2>2, <2>3 DEF Between
  <2>5. w.verdict \in D
    <3>1. Min({height[p], height[q]}) \in {height[p], height[q]}
      BY <2>2, MinOfTwo
    <3>2. w.verdict \in 1..Min({height[p], height[q]}) /\ w.verdict \in 1..MaxHeight
      BY <2>2, <2>3, <2>4, <3>1
    <3>3. Block(p, w.verdict) # Block(q, w.verdict)
      BY <2>2, <2>3, <2>4, BranchSeen
    <3> QED BY <3>2, <3>3 DEF Differ
  <2>6. ASSUME NEW b \in D PROVE w.verdict <= b
    <3>1. b \in Nat
      BY <2>2
    <3>2. PICK n \in Names, m \in Names : Block(n, b) # Block(m, b)
      BY <2>6 DEF Differ
    <3>3. (branch[n] # 0 /\ b >= branch[n]) \/ (branch[m] # 0 /\ b >= branch[m])
      BY <3>2 DEF Block, Hash, TxOrder, Own
    <3>4. b >= branch[p]
      BY <2>4, <3>3 DEF IInv, ForkInv
    <3> QED BY <2>2, <2>4, <3>1, <3>4
  <2>7. D \subseteq Nat /\ D # {}
    BY <2>2, <2>5
  <2> HIDE DEF D
  <2>8. Min(D) \in D /\ Min(D) <= w.verdict
    BY <2>5, <2>7, MinIsSmallest
  <2>9. w.verdict <= Min(D) /\ Min(D) \in Nat
    BY <2>6, <2>7, <2>8
  <2>10. w.flag <=> \E n, m \in Names : Hash(n, w.verdict) # Hash(m, w.verdict)
    BY DEF IInv, SearchInv
  <2> QED BY <2>3, <2>8, <2>9, <2>10
<1> QED BY <1>1, Invariance, PTL
=============================================================================
