-------------------------- MODULE BlockchainProofs --------------------------
(***************************************************************************)
(* Proofs about Blockchain, for every tree of blocks whose chains have at  *)
(* most TriesInMemory (128) blocks, every set of batches and both ways of  *)
(* keeping states: the number index is the head's chain, and no stored     *)
(* block is heavier than the head.                                         *)
(*                                                                         *)
(* The argument.  reorg always has blocks to insert, because a block that  *)
(* wins is not in the chain of the head (WriteStarts); this needs that     *)
(* nobody writes the head again, which holds because the importer only     *)
(* takes blocks without a state or above the head and because a nested     *)
(* call of insertChain is about ancestors of the block that its caller is  *)
(* at (Nested, NotTheHead).  What is inserted continues a block that both  *)
(* chains have, so that every single insert leaves a linked index below    *)
(* the block that it inserts (Linked).  Each conjunct of ChainInv has one  *)
(* lemma that all actions preserve it.                                     *)
(***************************************************************************)
EXTENDS Blockchain, NaturalsInduction, WellFoundedInduction, TLAPS

\* Every set of natural numbers has a least element.
LEMMA LeastNat ==
    ASSUME NEW T \in SUBSET Nat, T # {}
    PROVE  \E m \in T : \A n \in T : m <= n
<1>1. PICK m \in T : \A n \in T : ~(<<n, m>> \in OpToRel(<, Nat))
  BY WFMin, NatLessThanWellFounded, Zenon
<1>2. \A n \in T : ~(n < m)
  BY <1>1, Zenon DEF OpToRel
<1> QED BY <1>2

\* A bounded set of natural numbers has a greatest element.
LEMMA MaxNat ==
    ASSUME NEW T \in SUBSET Nat, T # {}, NEW b \in Nat, \A n \in T : n <= b
    PROVE  Max(T) \in T /\ \A n \in T : n <= Max(T)
<1> DEFINE U == {m \in Nat : \A n \in T : n <= m}
<1>1. U \in SUBSET Nat /\ U # {}
  OBVIOUS
<1>2. PICK m \in U : \A n \in U : m <= n
  BY <1>1, LeastNat
<1>3. m \in T
  <2>1. SUFFICES ASSUME m \notin T PROVE FALSE
    OBVIOUS
  <2>2. \A n \in T : n <= m - 1
    BY <2>1
  <2>3. m - 1 \in U
    <3>1. PICK n \in T : TRUE
      OBVIOUS
    <3> QED BY <2>2, <3>1
  <2> QED BY <2>3, <1>2
<1>4. \E x \in T : \A y \in T : x >= y
  BY <1>3
<1> QED BY <1>4, Zenon DEF Max

LEMMA SubSeqFacts ==
    ASSUME NEW S, NEW s \in Seq(S), NEW m \in Nat, NEW n \in Nat, m <= n, n <= Len(s)
    PROVE  /\ SubSeq(s, m + 1, n) \in Seq(S)
           /\ Len(SubSeq(s, m + 1, n)) = n - m
           /\ \A i \in 1..(n - m) : SubSeq(s, m + 1, n)[i] = s[m + i]
OBVIOUS

-----------------------------------------------------------------------------
(* Chains. *)

\* a is in the chain of b.
Anc(a, b) == Len(Line[a]) <= Len(Line[b]) /\ Line[b][Len(Line[a])] = a

\* The chain of b begins with Genesis and ends with b, and every part of it
\* from its beginning is the chain of a lighter block.
Chained(b) ==
    /\ Len(Line[b]) \in Nat \ {0}
    /\ Line[b][1] = Genesis /\ Line[b][Len(Line[b])] = b
    /\ \A i \in 1..Len(Line[b]) :
        LET a == Line[b][i] IN
        /\ a \in Blocks
        /\ Len(Line[a]) = i
        /\ \A j \in 1..i : Line[a][j] = Line[b][j]
        /\ i < Len(Line[b]) => Td[a] < Td[b]

LEMMA ParentFacts ==
    ASSUME NEW b \in Blocks \ {Genesis}
    PROVE  /\ Parent(b) \in Blocks
           /\ Len(Line[b]) \in Nat /\ Len(Line[Parent(b)]) \in Nat
           /\ Len(Line[b]) > 1
           /\ Len(Line[b]) = Len(Line[Parent(b)]) + 1
           /\ Line[b][Len(Line[b])] = b
           /\ \A i \in 1..Len(Line[Parent(b)]) : Line[b][i] = Line[Parent(b)][i]
           /\ Td[b] > Td[Parent(b)]
           /\ Parent(b) # b
<1>1. Line[b] \in Seq(Blocks) /\ Len(Line[b]) \in Nat /\ Len(Line[b]) > 1
  BY TreeAssumption
<1>2. Parent(b) \in Blocks
  BY <1>1 DEF Parent
<1>3. Line[Parent(b)] \in Seq(Blocks)
  BY <1>2, TreeAssumption
<1>4. Line[b] = Append(Line[Parent(b)], b) /\ Td[b] > Td[Parent(b)]
  BY TreeAssumption DEF Parent
<1>5. Td[b] \in Nat /\ Td[Parent(b)] \in Nat
  BY <1>2, TreeAssumption
<1> QED BY <1>1, <1>2, <1>3, <1>4, <1>5

LEMMA AllChained == \A b \in Blocks : Chained(b)
<1> DEFINE T == {n \in Nat : \E b \in Blocks : ~Chained(b) /\ Len(Line[b]) = n}
<1>1. SUFFICES ASSUME T # {} PROVE FALSE
  <2>1. \A b \in Blocks : Len(Line[b]) \in Nat
    BY TreeAssumption
  <2>2. \A b \in Blocks : ~Chained(b) => Len(Line[b]) \in T
    BY <2>1
  <2> QED BY <2>2, Zenon
<1>2. PICK n \in T : \A m \in T : n <= m
  <2>1. T \in SUBSET Nat
    OBVIOUS
  <2> HIDE DEF T
  <2> QED BY <1>1, <2>1, LeastNat
<1>3. PICK b \in Blocks : ~Chained(b) /\ Len(Line[b]) = n
  OBVIOUS
<1>4. b # Genesis
  <2>1. Len(<<Genesis>>) = 1 /\ <<Genesis>>[1] = Genesis
    OBVIOUS
  <2>2. Genesis \in Blocks /\ Len(Line[Genesis]) = 1 /\ Line[Genesis][1] = Genesis
    BY <2>1, TreeAssumption
  <2>3. \A i \in 1..1 : i = 1
    OBVIOUS
  <2>4. Chained(Genesis)
    BY <2>2, <2>3 DEF Chained
  <2> QED BY <1>3, <2>4
<1> DEFINE p == Parent(b)
<1>5. /\ p \in Blocks /\ Len(Line[b]) \in Nat /\ Len(Line[p]) \in Nat
      /\ Len(Line[b]) > 1 /\ Len(Line[b]) = Len(Line[p]) + 1
      /\ Line[b][Len(Line[b])] = b
      /\ \A i \in 1..Len(Line[p]) : Line[b][i] = Line[p][i]
      /\ Td[b] > Td[p]
  BY <1>4, ParentFacts
<1>6. Chained(p)
  <2>1. n \in Nat /\ Len(Line[p]) < n
    BY <1>3, <1>5
  <2> QED BY <2>1, <1>2, <1>5
<1> HIDE DEF p, T
<1>7. Td[b] \in Nat /\ Td[p] \in Nat /\ \A i \in 1..Len(Line[p]) : Td[Line[p][i]] \in Nat
  BY <1>5, <1>6, TreeAssumption DEF Chained
<1>8. Line[b][1] = Genesis /\ Line[p][Len(Line[p])] = p
  BY <1>5, <1>6 DEF Chained
<1>9. ASSUME NEW i \in 1..Len(Line[b])
      PROVE  /\ Line[b][i] \in Blocks
             /\ Len(Line[Line[b][i]]) = i
             /\ \A j \in 1..i : Line[Line[b][i]][j] = Line[b][j]
             /\ i < Len(Line[b]) => Td[Line[b][i]] < Td[b]
  <2>1. CASE i = Len(Line[b])
    BY <1>5, <2>1
  <2>2. CASE i < Len(Line[b])
    <3>1. i \in 1..Len(Line[p]) /\ Line[b][i] = Line[p][i]
      BY <1>5, <2>2
    <3>2. Line[p][i] \in Blocks /\ Len(Line[Line[p][i]]) = i
          /\ \A j \in 1..i : Line[Line[p][i]][j] = Line[p][j]
      BY <1>6, <3>1 DEF Chained
    <3>3. \A j \in 1..i : Line[p][j] = Line[b][j]
      BY <1>5, <3>1
    <3>4. Td[Line[p][i]] < Td[b]
      <4>1. i < Len(Line[p]) => Td[Line[p][i]] < Td[p]
        BY <1>6, <3>1 DEF Chained
      <4>2. i = Len(Line[p]) => Td[Line[p][i]] = Td[p]
        BY <1>8
      <4> QED BY <1>5, <1>7, <3>1, <4>1, <4>2
    <3> QED BY <3>1, <3>2, <3>3, <3>4
  <2> QED BY <2>1, <2>2, <1>5
<1>10. Chained(b)
  BY <1>5, <1>8, <1>9 DEF Chained
<1> QED BY <1>3, <1>10

\* Being in the chain is an order, and the total difficulty grows along it.
LEMMA AncFacts ==
    ASSUME NEW a \in Blocks, NEW b \in Blocks, Anc(a, b)
    PROVE  /\ Len(Line[a]) \in 1..Len(Line[b])
           /\ \A j \in 1..Len(Line[a]) : Line[a][j] = Line[b][j]
           /\ Td[a] <= Td[b]
           /\ a # b => Td[a] < Td[b] /\ Len(Line[a]) < Len(Line[b])
<1>1. Chained(a) /\ Chained(b)
  BY AllChained
<1>2. Td[a] \in Nat /\ Td[b] \in Nat
  BY TreeAssumption
<1> QED BY <1>1, <1>2 DEF Chained, Anc

LEMMA AncOfLine ==
    ASSUME NEW b \in Blocks, NEW i \in 1..Len(Line[b])
    PROVE  Line[b][i] \in Blocks /\ Len(Line[Line[b][i]]) = i /\ Anc(Line[b][i], b)
<1>1. Chained(b)
  BY AllChained
<1> QED BY <1>1 DEF Chained, Anc

LEMMA LineFacts ==
    ASSUME NEW b \in Blocks
    PROVE  /\ Line[b] \in Seq(Blocks) /\ Len(Line[b]) \in Nat /\ Len(Line[b]) >= 1
           /\ DOMAIN Line[b] = 1..Len(Line[b])
           /\ Line[b][1] = Genesis /\ Line[b][Len(Line[b])] = b
<1>1. Line[b] \in Seq(Blocks)
  BY TreeAssumption
<1>2. Chained(b)
  BY AllChained
<1> QED BY <1>1, <1>2 DEF Chained

LEMMA AncTransitive ==
    ASSUME NEW a \in Blocks, NEW b \in Blocks, NEW c \in Blocks, Anc(a, b), Anc(b, c)
    PROVE  Anc(a, c)
<1>1. /\ Len(Line[a]) \in 1..Len(Line[b]) /\ Line[b][Len(Line[a])] = a
  BY AncFacts DEF Anc
<1>2. /\ Len(Line[b]) \in 1..Len(Line[c])
      /\ \A j \in 1..Len(Line[b]) : Line[b][j] = Line[c][j]
  BY AncFacts
<1> QED BY <1>1, <1>2 DEF Anc

LEMMA AncSelf ==
    ASSUME NEW b \in Blocks
    PROVE  Anc(b, b) /\ Anc(Genesis, b) /\ Len(Line[b]) \in Nat \ {0} /\ Number(b) \in Numbers
           /\ Number(b) \in Nat /\ Len(Line[b]) = Number(b) + 1
<1>1. Chained(b)
  BY AllChained
<1>2. Len(Line[Genesis]) = 1
  BY TreeAssumption
<1> QED BY <1>1, <1>2 DEF Chained, Anc, Number, Numbers

LEMMA AncParent ==
    ASSUME NEW b \in Blocks \ {Genesis}
    PROVE  Anc(Parent(b), b) /\ Number(Parent(b)) + 1 = Number(b)
<1>1. Line[Parent(b)][Len(Line[Parent(b)])] = Parent(b) /\ Len(Line[Parent(b)]) \in Nat \ {0}
  BY ParentFacts, AllChained DEF Chained
<1> QED BY <1>1, ParentFacts DEF Anc, Number

\* The numbers up to that of a block have an entry in the index.
LEMMA NumbersBelow ==
    ASSUME NEW b \in Blocks, NEW n \in 0..Number(b)
    PROVE  n \in Numbers /\ n + 1 \in 1..Len(Line[b])
<1>1. n + 1 \in 1..Len(Line[b])
  BY AncSelf DEF Number
<1>2. Line[b][n + 1] \in Blocks /\ Number(Line[b][n + 1]) = n
  BY <1>1, AncOfLine DEF Number
<1> QED BY <1>1, <1>2 DEF Numbers

\* reorg finds a common block, and what is above it in the new chain is not in
\* the old one.
LEMMA CommonBlockFacts ==
    ASSUME NEW old \in Blocks, NEW new \in Blocks
    PROVE  LET k == CommonBlock(old, new) IN
           /\ k \in 1..Len(Line[new]) /\ k \in 1..Len(Line[old])
           /\ \A j \in 1..k : Line[old][j] = Line[new][j]
           /\ \A i \in 1..Len(Line[new]) : Anc(Line[new][i], old) => i <= k
<1> DEFINE T == {i \in DOMAIN Line[new] : i \in DOMAIN Line[old] /\ Line[old][i] = Line[new][i]}
           k == Max(T)
<1>1. Chained(old) /\ Chained(new) /\ Line[old] \in Seq(Blocks) /\ Line[new] \in Seq(Blocks)
  BY AllChained, TreeAssumption
<1>2. DOMAIN Line[new] = 1..Len(Line[new]) /\ DOMAIN Line[old] = 1..Len(Line[old])
  BY <1>1
<1>3. 1 \in T
  BY <1>1, <1>2 DEF Chained
<1>4. T \in SUBSET Nat /\ \A i \in T : i <= Len(Line[new])
  BY <1>1, <1>2 DEF Chained
<1>5. k \in T /\ \A i \in T : i <= k
  <2> HIDE DEF T
  <2> QED BY <1>1, <1>3, <1>4, MaxNat DEF Chained
<1>6. k \in 1..Len(Line[new]) /\ k \in 1..Len(Line[old]) /\ Line[old][k] = Line[new][k]
  BY <1>2, <1>5
<1>7. \A j \in 1..k : Line[old][j] = Line[new][j]
  <2> HIDE DEF k
  <2> QED BY <1>1, <1>6 DEF Chained
<1>8. ASSUME NEW i \in 1..Len(Line[new]), Anc(Line[new][i], old) PROVE i <= k
  <2>1. Len(Line[Line[new][i]]) = i
    BY AncOfLine
  <2>2. i \in 1..Len(Line[old]) /\ Line[old][i] = Line[new][i]
    BY <2>1, <1>8, <1>1 DEF Anc, Chained
  <2> QED BY <2>2, <1>2, <1>5
<1> QED BY <1>6, <1>7, <1>8 DEF CommonBlock

\* The blocks that reorg inserts end with the new head and continue a block of
\* the old chain.
LEMMA NewChainFacts ==
    ASSUME NEW old \in Blocks, NEW new \in Blocks, ~Anc(new, old)
    PROVE  LET k == CommonBlock(old, new)
               todo == NewChain(old, new)
           IN  /\ k \in 1..(Len(Line[new]) - 1)
               /\ todo \in Seq(Blocks)
               /\ Len(todo) = Len(Line[new]) - k
               /\ \A i \in 1..Len(todo) : todo[i] = Line[new][k + i]
<1> DEFINE k == CommonBlock(old, new)
           todo == NewChain(old, new)
<1>1. /\ k \in 1..Len(Line[new]) /\ k \in 1..Len(Line[old])
      /\ \A j \in 1..k : Line[old][j] = Line[new][j]
  BY CommonBlockFacts
<1>2. Chained(new) /\ Line[new] \in Seq(Blocks)
  BY AllChained, TreeAssumption
<1>3. k # Len(Line[new])
  BY <1>1, <1>2 DEF Anc, Chained
<1> HIDE DEF k
<1>4. todo = SubSeq(Line[new], k + 1, Len(Line[new]))
  BY DEF NewChain, k
<1>5. k \in Nat /\ Len(Line[new]) \in Nat
  BY <1>1, <1>2 DEF Chained
<1> HIDE DEF todo
<1>6. /\ todo \in Seq(Blocks)
      /\ Len(todo) = Len(Line[new]) - k
      /\ \A i \in 1..Len(todo) : todo[i] = Line[new][k + i]
  BY <1>1, <1>2, <1>3, <1>4, <1>5
<1> QED BY <1>1, <1>3, <1>5, <1>6 DEF k, todo

-----------------------------------------------------------------------------
(* The inductive invariant. *)

DbType ==
    [blocks : SUBSET Blocks, canon : [Numbers -> Blocks \cup {NoBlock}], head : Blocks,
     lookup : [Txs -> Blocks \cup {NoBlock}], receipts : SUBSET Blocks,
     states : SUBSET Blocks]

FrameType ==
    [chain : Seq(Blocks), at : Nat, doing : {"next", "process"},
     lastCanon : Blocks \cup {NoBlock}, heads : SUBSET Blocks]

WriteType ==
    [by : {"miner", "importer"}, block : Blocks, old : Blocks, wins : BOOLEAN,
     step : {"canon", "head", "lookup", "delete", "batch"}, batched : BOOLEAN,
     todo : Seq(Blocks)]

Types ==
    /\ db \in DbType
    /\ current \in Blocks /\ cache \in SUBSET Blocks
    /\ frames \in Seq(FrameType)
    /\ tasks \in SUBSET Own
    /\ write = NoWrite \/ write \in WriteType
    /\ pending \in SUBSET Blocks /\ announced \in SUBSET Blocks /\ aborted \in SUBSET Blocks
    /\ unclean \in BOOLEAN /\ torn \in BOOLEAN

\* A set of blocks with their chains.
Closed(known) == \A b \in known : \A i \in 1..Len(Line[b]) : Line[b][i] \in known

\* Whatever is stored or referred to is a known block, with its whole chain.
Stored ==
    /\ Closed(db.blocks)
    /\ Genesis \in db.states
    /\ db.states \subseteq db.blocks /\ db.receipts \subseteq db.blocks
    /\ cache \subseteq db.blocks /\ (Archive => cache = {})
    /\ db.head \in db.blocks /\ current \in db.blocks
    /\ \A b \in tasks : b \notin db.blocks /\ HasBlockAndState(Parent(b))
    /\ pending \cup announced \cup aborted \subseteq db.blocks

\* A batch, and how much of it is done.
FrameOK(f, known) ==
    /\ f.at \in 1..(Len(f.chain) + 1)
    /\ f.doing = "process" => f.at <= Len(f.chain)
    /\ \A j \in 1..Len(f.chain) : f.chain[j] # Genesis
    /\ \A j \in 1..Len(f.chain) : f.chain[j] \in Own => f.chain[j] \in known
    /\ f.lastCanon \in known \cup {NoBlock} /\ f.heads \subseteq known

\* The block a batch is at.
At(f) == f.chain[f.at]

\* A call of insertChain from within insertChain is about ancestors of the
\* block at which the outer one is.
Nested ==
    /\ \A i \in 1..Len(frames) : FrameOK(frames[i], db.blocks)
    /\ \A i, j \in 1..Len(frames) : i < j =>
        /\ frames[i].doing = "process"
        /\ \A k \in 1..Len(frames[j].chain) :
            Anc(frames[j].chain[k], At(frames[i])) /\ frames[j].chain[k] # At(frames[i])

\* What is left to insert is the end of the new block's chain.
TodoOK ==
    /\ Len(write.todo) \in 1..Len(Line[write.block])
    /\ \A i \in 1..Len(write.todo) :
        write.todo[i] = Line[write.block][Len(Line[write.block]) - Len(write.todo) + i]

Inserting == write.step \in {"canon", "head", "lookup"}

\* The call of WriteBlockWithState that is inside mu.
WriteOK ==
    write # NoWrite =>
        /\ write.block # Genesis
        /\ write.block \in db.blocks /\ HasState(write.block)
        /\ write.old \in db.blocks
        /\ HasBlockAndState(Parent(write.block))
        /\ Inserting => TodoOK
        /\ ~Inserting => write.todo = <<>>
        /\ ~write.wins => write.step = "batch"
        /\ write.batched => write.todo = <<write.block>> /\ write.step \in {"canon", "head"}
        /\ write.by = "importer" => /\ frames # <<>> /\ Top.doing = "process"
                                    /\ write.block = At(Top)
        /\ write.by = "miner" =>
            /\ write.block \in Own
            /\ \A i \in 1..Len(frames) : \A j \in 1..Len(frames[i].chain) :
                frames[i].chain[j] # write.block

\* The head once the writer is done.
FinalHead == IF write # NoWrite /\ write.wins THEN write.block ELSE current

\* Who is about to write does not write the head again.
NotTheHead ==
    \A i \in 1..Len(frames) :
        frames[i].doing = "process" =>
            \/ At(frames[i]) # FinalHead
            \/ write # NoWrite /\ write.by = "importer" /\ i = Len(frames)

\* How far the number index is in step with the head on disk.
HeadOK ==
    /\ Anc(current, db.head)
    /\ ~unclean => current = db.head /\ ~torn
    /\ write = NoWrite \/ ~write.wins => HasState(current)
    /\ write # NoWrite =>
        /\ write.step = "lookup" => current = Head(write.todo) /\ db.head = current
        /\ write.step = "delete" => current = write.block /\ db.head = current
        /\ write.step = "batch" /\ write.wins =>
              current = write.block \/ current = Parent(write.block)
        /\ write.step = "head" =>
              db.canon[Number(Head(write.todo))] = Head(write.todo)

\* Between the two writes of insert one number is ahead of the head.
Ahead(n) ==
    write # NoWrite /\ write.step = "head" /\ n = Number(Head(write.todo))

Linked ==
    ~torn =>
        /\ \A n \in 0..Number(db.head) : db.canon[n] = Line[db.head][n + 1] \/ Ahead(n)
        /\ write # NoWrite /\ write.step \in {"canon", "head"} =>
            \A n \in 0..(Number(Head(write.todo)) - 1) :
                db.canon[n] = Line[Head(write.todo)][n + 1]

\* No stored block is heavier than what the head will be.
Heaviest == ~unclean => \A b \in db.blocks : Td[b] <= Td[FinalHead]

\* No import after Stop.
StopIdle == stopped => frames = <<>>

StructInv == Types /\ Stored /\ Nested /\ WriteOK /\ NotTheHead /\ StopIdle
ChainInv == StructInv /\ HeadOK /\ Linked /\ Heaviest

-----------------------------------------------------------------------------
(* What the actions compute. *)

LEMMA WriteIsNotNoWrite ==
    ASSUME NEW w \in WriteType PROVE w # NoWrite
BY DEF WriteType, NoWrite

LEMMA NewChainType ==
    ASSUME NEW old \in Blocks, NEW new \in Blocks PROVE NewChain(old, new) \in Seq(Blocks)
<1>1. CommonBlock(old, new) \in 1..Len(Line[new]) /\ Line[new] \in Seq(Blocks)
  BY CommonBlockFacts, TreeAssumption
<1> HIDE DEF CommonBlock
<1> QED BY <1>1 DEF NewChain

\* The block that an import is at.
LEMMA TopFacts ==
    ASSUME Types, Nested, frames # <<>>
    PROVE  /\ Len(frames) \in Nat \ {0}
           /\ Top \in FrameType /\ FrameOK(Top, db.blocks)
           /\ Len(Top.chain) \in Nat
           /\ Top.at <= Len(Top.chain) =>
                /\ Block \in Blocks \ {Genesis} /\ Block = At(Top)
                /\ Parent(Block) \in Blocks
<1>1. Len(frames) \in Nat \ {0} /\ Top \in FrameType /\ FrameOK(Top, db.blocks)
  BY DEF Types, Nested, Top
<1> HIDE DEF Top
<1>2. Top.chain \in Seq(Blocks) /\ Top.at \in Nat /\ Top.at >= 1
  BY <1>1 DEF FrameType, FrameOK
<1>3. Top.at <= Len(Top.chain) => Block \in Blocks \ {Genesis}
  BY <1>1, <1>2 DEF Block, FrameOK
<1>4. Top.at <= Len(Top.chain) => Parent(Block) \in Blocks
  BY <1>3, ParentFacts
<1> QED BY <1>1, <1>2, <1>3, <1>4 DEF Block, At

\* A change of the running call only.
LEMMA SetTopFacts ==
    ASSUME Types, Nested, frames # <<>>, NEW f \in FrameType, frames' = SetTop(f)
    PROVE  /\ frames' \in Seq(FrameType) /\ Len(frames') = Len(frames)
           /\ frames'[Len(frames)] = f
           /\ \A i \in 1..(Len(frames) - 1) : frames'[i] = frames[i]
BY DEF SetTop, Types

\* The start of WriteBlockWithState.
LEMMA WriteBlockFacts ==
    ASSUME Types, NEW by \in {"miner", "importer"}, NEW b \in Blocks \ {Genesis},
           WriteBlock(by, b)
    PROVE  /\ write = NoWrite /\ write' # NoWrite /\ write' \in WriteType
           /\ write'.by = by /\ write'.block = b /\ write'.old = current /\ ~write'.batched
           /\ \/ /\ write'.step = "canon" /\ write'.wins /\ Parent(b) # current
                 /\ write'.todo = NewChain(current, b)
              \/ /\ write'.step = "batch" /\ write'.todo = <<>>
                 /\ write'.wins => Parent(b) = current
           /\ write'.wins => Td[b] >= Td[current]
           /\ ~write'.wins => Td[b] <= Td[current]
           /\ db' \in DbType /\ cache' \in SUBSET Blocks
           /\ db'.blocks = db.blocks \cup {b}
           /\ db'.canon = db.canon /\ db'.head = db.head /\ db'.lookup = db.lookup
           /\ db'.receipts = db.receipts
           /\ db'.states \cup cache' = db.states \cup cache \cup {b}
           /\ db'.states \subseteq db.states \cup {b} /\ db.states \subseteq db'.states
           /\ cache \subseteq cache'
           /\ Archive => db'.states = db.states \cup {b} /\ cache' = cache
           /\ ~Archive => db'.states = db.states /\ cache' = cache \cup {b}
<1>1. PICK wins \in MayWin(b) :
        LET reorg == wins /\ Parent(b) # current IN
        write' = [by |-> by, block |-> b, old |-> current, wins |-> wins,
                  step |-> IF reorg THEN "canon" ELSE "batch", batched |-> FALSE,
                  todo |-> IF reorg THEN NewChain(current, b) ELSE <<>>]
  BY DEF WriteBlock
<1>2. current \in Blocks /\ Td[b] \in Nat /\ Td[current] \in Nat
  BY TreeAssumption DEF Types
<1>3. /\ wins \in BOOLEAN
      /\ wins => Td[b] >= Td[current]
      /\ ~wins => Td[b] <= Td[current]
  <2>1. CASE Td[b] # Td[current]
    <3>1. wins = (Td[b] > Td[current])
      BY <2>1, Zenon DEF MayWin
    <3>2. (Td[b] > Td[current]) \in BOOLEAN /\ (Td[b] > Td[current] => Td[b] >= Td[current])
          /\ (~(Td[b] > Td[current]) => Td[b] <= Td[current])
      BY <1>2
    <3> QED BY <3>1, <3>2, Zenon
  <2>2. CASE Td[b] = Td[current]
    <3>1. wins \in BOOLEAN
      <4>1. \/ wins = (Number(b) < Number(current)) \/ wins = FALSE \/ wins = TRUE \/ wins \in BOOLEAN
        BY <2>2, Zenon DEF MayWin
      <4>2. (Number(b) < Number(current)) \in BOOLEAN
        OBVIOUS
      <4> QED BY <4>1, <4>2, Zenon
    <3> QED BY <3>1, <2>2, <1>2
  <2> QED BY <2>1, <2>2
<1>4. NewChain(current, b) \in Seq(Blocks) /\ <<>> \in Seq(Blocks)
  BY <1>2, NewChainType
<1>5. write' \in WriteType
  BY <1>1, <1>2, <1>3, <1>4 DEF WriteType
<1>6. write = NoWrite /\ write' # NoWrite
  BY <1>5, WriteIsNotNoWrite DEF WriteBlock
<1>7. /\ write'.by = by /\ write'.block = b /\ write'.old = current /\ ~write'.batched
      /\ \/ /\ write'.step = "canon" /\ write'.wins /\ Parent(b) # current
            /\ write'.todo = NewChain(current, b)
         \/ /\ write'.step = "batch" /\ write'.todo = <<>>
            /\ write'.wins => Parent(b) = current
      /\ write'.wins => Td[b] >= Td[current]
      /\ ~write'.wins => Td[b] <= Td[current]
  BY <1>1, <1>3
<1>8. /\ db' = [db EXCEPT !.blocks = @ \cup {b},
                        !.states = IF Archive THEN @ \cup {b} ELSE @]
      /\ cache' = IF Archive THEN cache ELSE cache \cup {b}
  BY DEF WriteBlock
<1>9. db \in DbType /\ cache \in SUBSET Blocks
  BY DEF Types
<1>10. /\ db'.blocks = db.blocks \cup {b}
       /\ db'.canon = db.canon /\ db'.head = db.head /\ db'.lookup = db.lookup
       /\ db'.receipts = db.receipts
       /\ db'.states = IF Archive THEN db.states \cup {b} ELSE db.states
  BY <1>8, <1>9 DEF DbType
<1>11. db' \in DbType /\ cache' \in SUBSET Blocks
  BY <1>8, <1>9 DEF DbType
<1> QED BY <1>5, <1>6, <1>7, <1>8, <1>10, <1>11

\* repair ends: the genesis state is on disk.
LEMMA RepairedHeadFacts ==
    ASSUME NEW disk \in DbType, Genesis \in disk.states
    PROVE  LET h == RepairedHead(disk) IN
           /\ h \in Blocks /\ h \in disk.states /\ Anc(h, disk.head)
           /\ disk.head \in disk.states => h = disk.head
<1> DEFINE line == Line[disk.head]
           T == {i \in DOMAIN line : line[i] \in disk.states}
           m == Max(T)
<1>1. disk.head \in Blocks
  BY DEF DbType
<1>2. line \in Seq(Blocks) /\ DOMAIN line = 1..Len(line) /\ Len(line) \in Nat /\ Len(line) >= 1
      /\ line[1] = Genesis /\ line[Len(line)] = disk.head
  BY <1>1, LineFacts DEF line
<1> HIDE DEF line
<1>3. 1 \in T /\ T \in SUBSET Nat /\ \A i \in T : i <= Len(line)
  BY <1>2
<1>4. m \in T /\ \A i \in T : i <= m
  <2> HIDE DEF T
  <2> QED BY <1>2, <1>3, MaxNat
<1>5. RepairedHead(disk) = line[m]
  BY DEF RepairedHead, line
<1> HIDE DEF m
<1>6. m \in 1..Len(line) /\ line[m] \in disk.states
  BY <1>2, <1>4
<1>7. line[m] \in Blocks /\ Anc(line[m], disk.head)
  BY <1>1, <1>6, AncOfLine DEF line
<1>8. disk.head \in disk.states => line[m] = disk.head
  <2>1. disk.head \in disk.states => Len(line) \in T
    BY <1>2
  <2>2. disk.head \in disk.states => m = Len(line)
    BY <2>1, <1>4, <1>6, <1>2
  <2> QED BY <2>2, <1>2
<1> QED BY <1>5, <1>6, <1>7, <1>8

\* The part of a chain from the last block with a state up to the parent.
WinnerChain(b, S) ==
    SubSeq(Line[b], Max({i \in 1..Number(b) : Line[b][i] \in S}) + 1, Number(b))

LEMMA WinnerFacts ==
    ASSUME NEW b \in Blocks \ {Genesis}, NEW S, Genesis \in S, Parent(b) \notin S
    PROVE  LET chain == WinnerChain(b, S)
           IN  /\ chain \in Seq(Blocks) /\ Len(chain) \in Nat \ {0}
               /\ \A j \in 1..Len(chain) :
                    /\ chain[j] # Genesis /\ chain[j] # b /\ chain[j] \notin S
                    /\ Anc(chain[j], b) /\ Anc(chain[j], Parent(b))
               /\ chain[Len(chain)] = Parent(b)
               /\ \A j \in 2..Len(chain) : Parent(chain[j]) = chain[j - 1]
<1> DEFINE T == {i \in 1..Number(b) : Line[b][i] \in S}
           from == Max(T)
           chain == SubSeq(Line[b], from + 1, Number(b))
           n == Number(b)
<1>1. /\ Line[b] \in Seq(Blocks) /\ n \in Nat /\ n >= 1
      /\ Len(Line[b]) = n + 1
      /\ Line[b][1] = Genesis /\ Line[b][n] = Parent(b)
  <2>1. Len(Line[b]) > 1
    BY ParentFacts
  <2> QED BY <2>1, LineFacts DEF Number, Parent
<1> HIDE DEF n
<1>2. 1 \in T /\ T \in SUBSET Nat /\ \A i \in T : i <= n
  BY <1>1 DEF n
<1>3. from \in T /\ \A i \in T : i <= from
  <2> HIDE DEF T
  <2> QED BY <1>1, <1>2, MaxNat
<1> HIDE DEF from
<1>4. from \in Nat /\ from >= 1 /\ from < n
  <2>1. from \in 1..n /\ Line[b][from] \in S
    BY <1>3 DEF n
  <2> QED BY <2>1, <1>1
<1>5. chain \in Seq(Blocks) /\ Len(chain) = n - from
      /\ \A j \in 1..Len(chain) : chain[j] = Line[b][from + j]
  <2>1. from <= n /\ n <= Len(Line[b])
    BY <1>1, <1>4
  <2>2. chain = SubSeq(Line[b], from + 1, n)
    BY DEF n
  <2> HIDE DEF chain
  <2> QED BY <1>1, <1>4, <2>1, <2>2, SubSeqFacts
<1> HIDE DEF chain
<1>6. ASSUME NEW j \in 1..Len(chain)
      PROVE  /\ chain[j] # Genesis /\ chain[j] # b /\ chain[j] \notin S
             /\ Anc(chain[j], b) /\ Anc(chain[j], Parent(b))
  <2>1. from + j \in 1..Len(Line[b]) /\ from + j > 1 /\ from + j <= n /\ chain[j] = Line[b][from + j]
    BY <1>1, <1>4, <1>5
  <2>2. /\ chain[j] \in Blocks /\ Len(Line[chain[j]]) = from + j
        /\ Anc(chain[j], b)
    BY <2>1, AncOfLine
  <2>3. Len(Line[Genesis]) = 1
    BY TreeAssumption
  <2>4. chain[j] # Genesis /\ chain[j] # b
    <3>1. from + j \in Nat /\ from + j # 1 /\ from + j # Len(Line[b])
      BY <2>1, <1>1, <1>4
    <3> QED BY <2>2, <2>3, <3>1
  <2>5. Len(Line[Parent(b)]) = n /\ Line[Parent(b)][from + j] = Line[b][from + j]
    BY <2>1, <1>1, ParentFacts
  <2>6. chain[j] \notin S
    <3>1. ~(from + j <= from) /\ from + j \in 1..Number(b)
      BY <2>1, <1>4 DEF n
    <3>2. from + j \notin T
      BY <3>1, <1>3
    <3> QED BY <2>1, <3>1, <3>2
  <2> QED BY <2>1, <2>2, <2>4, <2>5, <2>6 DEF Anc
<1>7. Len(chain) \in Nat \ {0}
  BY <1>1, <1>4, <1>5
<1>8. chain = WinnerChain(b, S)
  BY DEF WinnerChain, chain, from
<1>9. chain[Len(chain)] = Parent(b)
  <2>1. Len(chain) \in 1..Len(chain) /\ from + Len(chain) = n
    BY <1>1, <1>4, <1>5, <1>7
  <2> QED BY <1>1, <1>5, <2>1
<1>10. ASSUME NEW j \in 2..Len(chain) PROVE Parent(chain[j]) = chain[j - 1]
  <2> DEFINE i == from + j
  <2>1. j \in 1..Len(chain) /\ j - 1 \in 1..Len(chain) /\ i \in 1..Len(Line[b])
        /\ from + (j - 1) = i - 1 /\ i - 1 \in 1..i
    BY <1>1, <1>4, <1>5
  <2>2. chain[j] = Line[b][i] /\ chain[j - 1] = Line[b][i - 1]
    BY <1>5, <2>1
  <2> HIDE DEF i
  <2>3. /\ Line[b][i] \in Blocks /\ Len(Line[Line[b][i]]) = i
        /\ Line[Line[b][i]][i - 1] = Line[b][i - 1]
    BY <2>1, AllChained DEF Chained
  <2> QED BY <2>2, <2>3 DEF Parent
<1> QED BY <1>5, <1>6, <1>7, <1>8, <1>9, <1>10

\* The ancestors that an import of a winning chain delivers.
LEMMA ImportWinnerFacts ==
    ASSUME Types, Stored, Nested, ImportWinner
    PROVE  \E chain \in Seq(Blocks) :
            /\ frames' = Append(SetTop([Top EXCEPT !.doing = "process"]), Frame(chain))
            /\ Len(chain) \in Nat \ {0}
            /\ \A j \in 1..Len(chain) :
                    /\ chain[j] \in db.blocks /\ chain[j] # Genesis
                    /\ ~HasState(chain[j])
                    /\ Anc(chain[j], Block) /\ chain[j] # Block
            /\ chain[Len(chain)] = Parent(Block)
            /\ \A j \in 2..Len(chain) : Parent(chain[j]) = chain[j - 1]
<1> DEFINE S == db.states \cup cache
           from == Max({i \in 1..Number(Block) : HasState(Line[Block][i])})
           chain == SubSeq(Line[Block], from + 1, Number(Block))
<1>1. frames # <<>> /\ Top.at <= Len(Top.chain) /\ Parent(Block) \in db.blocks
      /\ Parent(Block) \notin S
  BY DEF ImportWinner, PrunedAncestor, Importing, HasState
<1>2. Block \in Blocks \ {Genesis} /\ Parent(Block) \in Blocks
  BY <1>1, TopFacts
<1>3. Genesis \in S
  BY DEF Stored
<1>4. frames' = Append(SetTop([Top EXCEPT !.doing = "process"]), Frame(chain))
  BY Zenon DEF ImportWinner
<1>5. /\ chain \in Seq(Blocks) /\ Len(chain) \in Nat \ {0}
      /\ \A j \in 1..Len(chain) :
           /\ chain[j] # Genesis /\ chain[j] # Block /\ chain[j] \notin S
           /\ Anc(chain[j], Block) /\ Anc(chain[j], Parent(Block))
      /\ chain[Len(chain)] = Parent(Block)
      /\ \A j \in 2..Len(chain) : Parent(chain[j]) = chain[j - 1]
  <2>1. from = Max({i \in 1..Number(Block) : Line[Block][i] \in S})
    BY DEF HasState
  <2> DEFINE chainS == WinnerChain(Block, S)
  <2> HIDE DEF S, from
  <2>2. /\ chainS \in Seq(Blocks) /\ Len(chainS) \in Nat \ {0}
        /\ \A j \in 1..Len(chainS) :
             /\ chainS[j] # Genesis /\ chainS[j] # Block /\ chainS[j] \notin S
             /\ Anc(chainS[j], Block) /\ Anc(chainS[j], Parent(Block))
        /\ chainS[Len(chainS)] = Parent(Block)
        /\ \A j \in 2..Len(chainS) : Parent(chainS[j]) = chainS[j - 1]
    BY <1>1, <1>2, <1>3, WinnerFacts
  <2>3. chain = chainS
    BY <2>1 DEF WinnerChain
  <2> HIDE DEF chain, chainS
  <2> QED BY <2>2, <2>3
<1> HIDE DEF chain
<1>6. ASSUME NEW j \in 1..Len(chain) PROVE chain[j] \in db.blocks
  <2>1. chain[j] \in Blocks /\ Anc(chain[j], Parent(Block))
    BY <1>5
  <2>2. Len(Line[chain[j]]) \in 1..Len(Line[Parent(Block)])
        /\ chain[j] = Line[Parent(Block)][Len(Line[chain[j]])]
    BY <1>2, <2>1, AncFacts DEF Anc
  <2> QED BY <1>1, <2>2 DEF Stored, Closed
<1>7. \A j \in 1..Len(chain) : ~HasState(chain[j])
  BY <1>5 DEF HasState
<1> QED BY <1>4, <1>5, <1>6, <1>7

\* The return from WriteBlockWithState.
LEMMA ReturnFacts ==
    ASSUME Types, Nested, WriteOK, write # NoWrite, NEW won \in BOOLEAN, Return(won)
    PROVE  /\ write' = NoWrite
           /\ pending' \in SUBSET (pending \cup {write.block})
           /\ \/ write.by = "miner" /\ frames' = frames
              \/ /\ write.by = "importer" /\ pending' = pending
                 /\ frames' = SetTop([Top EXCEPT !.at = @ + 1, !.doing = "next",
                        !.lastCanon = IF won THEN write.block ELSE @])
<1>1. write \in WriteType
  BY DEF Types
<1>2. write.by \in {"miner", "importer"}
  BY <1>1 DEF WriteType
<1>3. CASE write.by = "miner"
  BY <1>3 DEF Return, MinedHead
<1>4. CASE write.by # "miner"
  BY <1>2, <1>4 DEF Return
<1> QED BY <1>3, <1>4

\* A finished block in a batch.
LEMMA NextFrame ==
    ASSUME NEW f \in FrameType, NEW last \in Blocks \cup {NoBlock}
    PROVE  LET g == [f EXCEPT !.at = @ + 1, !.doing = "next", !.lastCanon = last] IN
           /\ g \in FrameType /\ g.chain = f.chain /\ g.at = f.at + 1 /\ g.doing = "next"
           /\ g.lastCanon = last /\ g.heads = f.heads
<1> DEFINE g1 == [f EXCEPT !.at = f.at + 1]
           g2 == [g1 EXCEPT !.doing = "next"]
           g3 == [g2 EXCEPT !.lastCanon = last]
<1>1. g1 \in FrameType /\ g1.chain = f.chain /\ g1.at = f.at + 1 /\ g1.heads = f.heads
  BY DEF FrameType
<1> HIDE DEF g1
<1>2. g2 \in FrameType /\ g2.chain = f.chain /\ g2.at = f.at + 1 /\ g2.doing = "next"
      /\ g2.heads = f.heads
  BY <1>1 DEF FrameType
<1> HIDE DEF g2
<1>3. g3 \in FrameType /\ g3.chain = f.chain /\ g3.at = f.at + 1 /\ g3.doing = "next"
      /\ g3.heads = f.heads /\ g3.lastCanon = last
  BY <1>2 DEF FrameType
<1>4. g3 = [f EXCEPT !.at = @ + 1, !.doing = "next", !.lastCanon = last]
  BY DEF g1, g2
<1> HIDE DEF g3
<1> QED BY <1>3, <1>4

\* The next start of the process.
LEMMA LoadFacts ==
    ASSUME NEW disk \in DbType, Genesis \in disk.states, LoadLastState(disk)
    PROVE  /\ db' = disk /\ cache' = {} /\ frames' = <<>> /\ tasks' = {}
           /\ write' = NoWrite /\ pending' = {} /\ aborted' = {}
           /\ current' = RepairedHead(disk)
           /\ current' \in Blocks /\ current' \in disk.states /\ Anc(current', disk.head)
           /\ announced' = {current'}
           /\ disk.head \in disk.states => current' = disk.head
BY RepairedHeadFacts DEF LoadLastState

\* What Stop saves.
LEMMA StopFacts ==
    ASSUME Types, Stored, Stop
    PROVE  /\ db' \in DbType /\ db'.blocks = db.blocks /\ db'.canon = db.canon
           /\ db'.head = db.head /\ db'.lookup = db.lookup /\ db'.receipts = db.receipts
           /\ db.states \subseteq db'.states /\ db'.states \subseteq db.states \cup cache
           /\ write = NoWrite /\ frames' = <<>> /\ pending' = {} /\ stopped'
           /\ UNCHANGED <<current, cache, tasks, write, announced, aborted, unclean, torn>>
<1> DEFINE saved == {db.canon[Number(current) - offset] :
                        offset \in {o \in {0, 1} : Number(current) > o}}
           kept == IF Archive THEN db.states ELSE db.states \cup (saved \cap cache)
<1>1. db \in DbType /\ cache \in SUBSET Blocks
  BY DEF Types
<1>2. db' = [db EXCEPT !.states = IF Archive THEN @ ELSE @ \cup (saved \cap cache)]
  BY DEF Stop
<1> HIDE DEF saved
<1>3. db' = [db EXCEPT !.states = kept]
  BY <1>1, <1>2 DEF DbType
<1>4. db.states \subseteq kept /\ kept \subseteq db.states \cup cache
  OBVIOUS
<1>5. kept \in SUBSET Blocks
  BY <1>1 DEF DbType
<1> HIDE DEF kept
<1>6. /\ db' \in DbType /\ db'.blocks = db.blocks /\ db'.canon = db.canon
      /\ db'.head = db.head /\ db'.lookup = db.lookup /\ db'.receipts = db.receipts
      /\ db'.states = kept
  BY <1>1, <1>3, <1>5 DEF DbType
<1> QED BY <1>4, <1>6 DEF Stop

\* A process that ends in the open, with the state of its head on disk, finds
\* everything again.
LEMMA RestartFacts ==
    ASSUME Types, Stored, Restart
    PROVE  /\ db' = db /\ cache' = {} /\ frames' = <<>> /\ tasks' = {}
           /\ write' = NoWrite /\ pending' = {} /\ aborted' = {} /\ announced' = {current'}
           /\ current' \in Blocks /\ current' \in db.states /\ Anc(current', db.head)
           /\ ~stopped' /\ unclean' \in BOOLEAN
           /\ ~unclean' => ~unclean /\ write = NoWrite /\ (current = db.head => current' = current)
<1>1. db \in DbType /\ Genesis \in db.states /\ LoadLastState(db) /\ unclean \in BOOLEAN
  BY DEF Types, Stored, Restart
<1>2. /\ db' = db /\ cache' = {} /\ frames' = <<>> /\ tasks' = {}
      /\ write' = NoWrite /\ pending' = {} /\ aborted' = {} /\ announced' = {current'}
      /\ current' \in Blocks /\ current' \in db.states /\ Anc(current', db.head)
      /\ (db.head \in db.states => current' = db.head)
  BY <1>1, LoadFacts
<1>3. ~stopped' /\ unclean' = (unclean \/ write # NoWrite \/ current \notin db.states)
  BY DEF Restart
<1> QED BY <1>1, <1>2, <1>3

\* The first block that is left to insert.
LEMMA TodoFacts ==
    ASSUME Types, WriteOK, write # NoWrite, Inserting
    PROVE  /\ write \in WriteType /\ write.todo \in Seq(Blocks)
           /\ Len(write.todo) \in Nat \ {0} /\ Len(write.todo) <= Len(Line[write.block])
           /\ write.block \in Blocks
           /\ Head(write.todo) \in Blocks /\ Head(write.todo) = write.todo[1]
           /\ Anc(Head(write.todo), write.block)
           /\ Len(Line[Head(write.todo)]) = Len(Line[write.block]) - Len(write.todo) + 1
           /\ Number(Head(write.todo)) \in Numbers
           /\ Tail(write.todo) \in Seq(Blocks)
           /\ Len(Tail(write.todo)) = Len(write.todo) - 1
           /\ \A i \in 1..Len(Tail(write.todo)) : Tail(write.todo)[i] = write.todo[i + 1]
<1>1. write \in WriteType /\ write.todo \in Seq(Blocks) /\ write.block \in Blocks
  BY DEF Types, WriteType
<1>2. TodoOK
  BY DEF WriteOK
<1> DEFINE n == Len(Line[write.block])
           k == Len(write.todo)
<1>3. n \in Nat /\ k \in 1..n /\ k \in Nat
  BY <1>1, <1>2, LineFacts DEF TodoOK
<1>4. Head(write.todo) = write.todo[1] /\ write.todo[1] \in Blocks
      /\ Tail(write.todo) \in Seq(Blocks) /\ Len(Tail(write.todo)) = k - 1
      /\ \A i \in 1..Len(Tail(write.todo)) : Tail(write.todo)[i] = write.todo[i + 1]
  BY <1>1, <1>3
<1>5. write.todo[1] = Line[write.block][n - k + 1]
  <2>1. 1 \in 1..k
    <3> HIDE DEF n, k
    <3> QED BY <1>3
  <2> QED BY <1>2, <2>1, Zenon DEF TodoOK
<1>6. n - k + 1 \in 1..n
  <2> HIDE DEF n, k
  <2> QED BY <1>3
<1>7. Anc(write.todo[1], write.block) /\ Len(Line[write.todo[1]]) = n - k + 1
  <2> HIDE DEF n, k
  <2>1. \A i \in 1..Len(Line[write.block]) :
            Len(Line[Line[write.block][i]]) = i /\ Anc(Line[write.block][i], write.block)
    BY <1>1, AncOfLine
  <2>2. n = Len(Line[write.block])
    BY DEF n
  <2> QED BY <1>5, <1>6, <2>1, <2>2
<1>8. Number(write.todo[1]) \in Numbers
  BY <1>4, AncSelf
<1>9. k \in Nat \ {0} /\ k <= n
  <2> HIDE DEF n, k
  <2> QED BY <1>3
<1> QED BY <1>1, <1>4, <1>7, <1>8, <1>9

LEMMA InsertCanonFacts ==
    ASSUME Types, WriteOK, InsertCanon
    PROVE  /\ write # NoWrite /\ write.step = "canon" /\ Inserting
           /\ write' \in WriteType /\ write' # NoWrite
           /\ write'.by = write.by /\ write'.block = write.block /\ write'.old = write.old
           /\ write'.wins = write.wins /\ write'.batched = write.batched
           /\ write'.todo = write.todo /\ write'.step = "head"
           /\ db' \in DbType
           /\ db'.blocks = db.blocks /\ db'.head = db.head /\ db'.lookup = db.lookup
           /\ db'.receipts = db.receipts /\ db'.states = db.states
           /\ db'.canon[Number(Head(write.todo))] = Head(write.todo)
           /\ \A n \in Numbers : n # Number(Head(write.todo)) => db'.canon[n] = db.canon[n]
<1>1. write # NoWrite /\ write.step = "canon" /\ Inserting
  BY DEF InsertCanon, Inserting
<1>2. write \in WriteType /\ Head(write.todo) \in Blocks /\ Number(Head(write.todo)) \in Numbers
  BY <1>1, TodoFacts
<1>3. /\ write' \in WriteType
      /\ write'.by = write.by /\ write'.block = write.block /\ write'.old = write.old
      /\ write'.wins = write.wins /\ write'.batched = write.batched
      /\ write'.todo = write.todo /\ write'.step = "head"
  BY <1>2 DEF InsertCanon, WriteType
<1>4. db \in DbType /\ db' = [db EXCEPT !.canon[Number(Head(write.todo))] = Head(write.todo)]
  BY DEF InsertCanon, Types
<1>5. db' \in DbType
  BY <1>2, <1>4 DEF DbType
<1>6. /\ db'.blocks = db.blocks /\ db'.head = db.head /\ db'.lookup = db.lookup
      /\ db'.receipts = db.receipts /\ db'.states = db.states
      /\ db'.canon[Number(Head(write.todo))] = Head(write.todo)
      /\ \A n \in Numbers : n # Number(Head(write.todo)) => db'.canon[n] = db.canon[n]
  BY <1>2, <1>4 DEF DbType
<1>7. write' # NoWrite
  BY <1>3, WriteIsNotNoWrite
<1> QED BY <1>1, <1>3, <1>5, <1>6, <1>7

LEMMA InsertHeadFacts ==
    ASSUME Types, WriteOK, InsertHead
    PROVE  /\ write # NoWrite /\ write.step = "head" /\ Inserting
           /\ db' \in DbType
           /\ db'.blocks = db.blocks /\ db'.canon = db.canon /\ db'.lookup = db.lookup
           /\ db'.receipts = db.receipts /\ db'.states = db.states
           /\ db'.head = Head(write.todo) /\ current' = Head(write.todo)
           /\ \/ write.batched /\ Return(TRUE)
              \/ /\ ~write.batched /\ frames' = frames /\ pending' = pending
                 /\ write' \in WriteType /\ write' # NoWrite
                 /\ write'.by = write.by /\ write'.block = write.block
                 /\ write'.old = write.old
                 /\ write'.wins = write.wins /\ write'.batched = write.batched
                 /\ write'.todo = write.todo /\ write'.step = "lookup"
<1>1. write # NoWrite /\ write.step = "head" /\ Inserting
  BY DEF InsertHead, Inserting
<1>2. write \in WriteType /\ Head(write.todo) \in Blocks
  BY <1>1, TodoFacts
<1>3. db \in DbType /\ db' = [db EXCEPT !.head = Head(write.todo)] /\ current' = Head(write.todo)
  BY DEF InsertHead, Types
<1>4. /\ db' \in DbType
      /\ db'.blocks = db.blocks /\ db'.canon = db.canon /\ db'.lookup = db.lookup
      /\ db'.receipts = db.receipts /\ db'.states = db.states
      /\ db'.head = Head(write.todo)
  BY <1>2, <1>3 DEF DbType
<1>5. CASE write.batched /\ Return(TRUE)
  BY <1>1, <1>3, <1>4, <1>5
<1>6. CASE /\ ~write.batched
           /\ write' = [write EXCEPT !.step = "lookup"]
           /\ UNCHANGED <<frames, pending>>
  <2>1. /\ write' \in WriteType
        /\ write'.by = write.by /\ write'.block = write.block /\ write'.old = write.old
        /\ write'.wins = write.wins /\ write'.batched = write.batched
        /\ write'.todo = write.todo /\ write'.step = "lookup"
    BY <1>2, <1>6 DEF WriteType
  <2>2. write' # NoWrite
    BY <2>1, WriteIsNotNoWrite
  <2> QED BY <1>1, <1>3, <1>4, <1>6, <2>1, <2>2
<1> QED BY <1>5, <1>6 DEF InsertHead

LEMMA ReorgLookupFacts ==
    ASSUME Types, WriteOK, ReorgLookup
    PROVE  /\ write # NoWrite /\ write.step = "lookup" /\ Inserting
           /\ db' \in DbType
           /\ db'.blocks = db.blocks /\ db'.canon = db.canon /\ db'.head = db.head
           /\ db'.receipts = db.receipts /\ db'.states = db.states
           /\ db'.lookup = WriteTxLookupEntries(db.lookup, Head(write.todo))
           /\ write' \in WriteType /\ write' # NoWrite
           /\ write'.by = write.by /\ write'.block = write.block /\ write'.old = write.old
           /\ write'.wins = write.wins /\ write'.batched = write.batched
           /\ write'.todo = Tail(write.todo)
           /\ write'.step = AfterLookup(write.todo)
<1>1. write # NoWrite /\ write.step = "lookup" /\ Inserting
  BY DEF ReorgLookup, Inserting
<1>2. write \in WriteType /\ Head(write.todo) \in Blocks /\ Tail(write.todo) \in Seq(Blocks)
  BY <1>1, TodoFacts
<1>3. db \in DbType /\ db' = [db EXCEPT !.lookup = WriteTxLookupEntries(@, Head(write.todo))]
  BY DEF ReorgLookup, Types
<1>4. WriteTxLookupEntries(db.lookup, Head(write.todo)) \in [Txs -> Blocks \cup {NoBlock}]
  BY <1>2, <1>3 DEF DbType, WriteTxLookupEntries
<1>5. /\ db' \in DbType
      /\ db'.blocks = db.blocks /\ db'.canon = db.canon /\ db'.head = db.head
      /\ db'.receipts = db.receipts /\ db'.states = db.states
      /\ db'.lookup = WriteTxLookupEntries(db.lookup, Head(write.todo))
  BY <1>3, <1>4 DEF DbType
<1>6. AfterLookup(write.todo) \in {"canon", "delete"}
  BY DEF AfterLookup
<1>7. /\ write' \in WriteType
      /\ write'.by = write.by /\ write'.block = write.block /\ write'.old = write.old
      /\ write'.wins = write.wins /\ write'.batched = write.batched
      /\ write'.todo = Tail(write.todo) /\ write'.step = AfterLookup(write.todo)
  BY <1>2, <1>6 DEF ReorgLookup, WriteType
<1>8. write' # NoWrite
  BY <1>7, WriteIsNotNoWrite
<1> QED BY <1>1, <1>5, <1>7, <1>8

LEMMA ReorgDeleteFacts ==
    ASSUME Types, WriteOK, ReorgDelete
    PROVE  /\ write \in WriteType /\ write # NoWrite /\ write.step = "delete"
           /\ db' \in DbType
           /\ db'.blocks = db.blocks /\ db'.canon = db.canon /\ db'.head = db.head
           /\ db'.receipts = db.receipts /\ db'.states = db.states
           /\ \A t \in Txs : db'.lookup[t] =
                IF t \in TxDifference(write.old, write.block) THEN NoBlock ELSE db.lookup[t]
           /\ write' \in WriteType /\ write' # NoWrite
           /\ write'.by = write.by /\ write'.block = write.block /\ write'.old = write.old
           /\ write'.wins = write.wins /\ write'.batched = write.batched
           /\ write'.todo = write.todo /\ write'.step = "batch"
<1>1. write # NoWrite /\ write.step = "delete" /\ write \in WriteType
  BY DEF ReorgDelete, Types
<1>2. db \in DbType
  BY DEF Types
<1> DEFINE D == TxDifference(write.old, write.block)
           look == [t \in Txs |-> IF t \in D THEN NoBlock ELSE db.lookup[t]]
<1>3. db' = [db EXCEPT !.lookup = look]
  BY DEF ReorgDelete
<1>4. look \in [Txs -> Blocks \cup {NoBlock}]
  <2> HIDE DEF D
  <2> QED BY <1>2 DEF DbType
<1>5. \A t \in Txs : look[t] = IF t \in D THEN NoBlock ELSE db.lookup[t]
  OBVIOUS
<1> HIDE DEF look
<1>6. /\ db' \in DbType
      /\ db'.blocks = db.blocks /\ db'.canon = db.canon /\ db'.head = db.head
      /\ db'.receipts = db.receipts /\ db'.states = db.states
      /\ db'.lookup = look
  BY <1>2, <1>3, <1>4 DEF DbType
<1>7. /\ write' \in WriteType
      /\ write'.by = write.by /\ write'.block = write.block /\ write'.old = write.old
      /\ write'.wins = write.wins /\ write'.batched = write.batched
      /\ write'.todo = write.todo /\ write'.step = "batch"
  BY <1>1 DEF ReorgDelete, WriteType
<1>8. write' # NoWrite
  BY <1>7, WriteIsNotNoWrite
<1> QED BY <1>1, <1>5, <1>6, <1>7, <1>8

LEMMA WriteBatchFacts ==
    ASSUME Types, WriteOK, WriteBatch
    PROVE  /\ write \in WriteType /\ write # NoWrite /\ write.step = "batch"
           /\ db' \in DbType
           /\ db'.blocks = db.blocks /\ db'.canon = db.canon /\ db'.head = db.head
           /\ db'.receipts = db.receipts \cup {write.block} /\ db'.states = db.states
           /\ db'.lookup = IF write.wins THEN WriteTxLookupEntries(db.lookup, write.block)
                           ELSE db.lookup
           /\ \/ ~write.wins /\ Return(FALSE)
              \/ /\ write.wins /\ frames' = frames /\ pending' = pending
                 /\ write' \in WriteType /\ write' # NoWrite
                 /\ write'.by = write.by /\ write'.block = write.block
                 /\ write'.old = write.old
                 /\ write'.wins = write.wins /\ write'.batched = TRUE
                 /\ write'.todo = <<write.block>> /\ write'.step = "canon"
<1>1. write # NoWrite /\ write.step = "batch" /\ write \in WriteType
  BY DEF WriteBatch, Types
<1>2. db \in DbType /\ write.block \in Blocks
  BY <1>1 DEF Types, WriteType
<1> DEFINE look == IF write.wins THEN WriteTxLookupEntries(db.lookup, write.block) ELSE db.lookup
<1>3. db' = [db EXCEPT !.receipts = db.receipts \cup {write.block}, !.lookup = look]
  BY DEF WriteBatch
<1>4. look \in [Txs -> Blocks \cup {NoBlock}]
  BY <1>2 DEF DbType, WriteTxLookupEntries
<1> HIDE DEF look
<1>5. db' \in DbType
  BY <1>2, <1>3, <1>4 DEF DbType
<1>6. /\ db'.blocks = db.blocks /\ db'.canon = db.canon /\ db'.head = db.head
      /\ db'.receipts = db.receipts \cup {write.block} /\ db'.states = db.states
      /\ db'.lookup = look
  BY <1>2, <1>3, <1>4 DEF DbType
<1>7. CASE ~write.wins /\ Return(FALSE)
  BY <1>1, <1>5, <1>6, <1>7 DEF look
<1>8. CASE /\ write.wins
           /\ write' = [write EXCEPT !.step = "canon", !.batched = TRUE,
                                  !.todo = <<write.block>>]
           /\ UNCHANGED <<frames, pending>>
  <2>1. <<write.block>> \in Seq(Blocks)
    BY <1>2
  <2>2. /\ write' \in WriteType
        /\ write'.by = write.by /\ write'.block = write.block /\ write'.old = write.old
        /\ write'.wins = write.wins /\ write'.batched = TRUE
        /\ write'.todo = <<write.block>> /\ write'.step = "canon"
    BY <1>1, <1>8, <2>1 DEF WriteType
  <2>3. write' # NoWrite
    BY <2>2, WriteIsNotNoWrite
  <2> QED BY <1>1, <1>5, <1>6, <1>8, <2>2, <2>3 DEF look
<1> QED BY <1>7, <1>8 DEF WriteBatch

\* SkipKnown and WriteBlockWithoutState go on with the next block.
LEMMA SkipFacts ==
    ASSUME Types, Nested, Importing("next"), frames' = SetTop([Top EXCEPT !.at = @ + 1])
    PROVE  \E f \in FrameType :
            /\ frames # <<>> /\ frames' = SetTop(f) /\ FrameOK(f, db.blocks)
            /\ f.chain = Top.chain /\ f.doing = "next" /\ f.at = Top.at + 1
            /\ f.lastCanon = Top.lastCanon /\ f.heads = Top.heads
<1>1. frames # <<>> /\ Top.doing = "next" /\ Top.at <= Len(Top.chain)
  BY DEF Importing
<1>2. Top \in FrameType /\ FrameOK(Top, db.blocks) /\ Len(Top.chain) \in Nat
  BY <1>1, TopFacts
<1> DEFINE f == [Top EXCEPT !.at = @ + 1]
<1>3. f \in FrameType /\ f.chain = Top.chain /\ f.at = Top.at + 1 /\ f.doing = Top.doing
      /\ f.lastCanon = Top.lastCanon /\ f.heads = Top.heads
  BY <1>2 DEF FrameType
<1>4. frames' = SetTop(f)
  OBVIOUS
<1> HIDE DEF f
<1>5. Top.at \in Nat /\ Top.at >= 1
  BY <1>2 DEF FrameOK, FrameType
<1>6. FrameOK(f, db.blocks)
  BY <1>1, <1>2, <1>3, <1>5 DEF FrameOK
<1> QED BY <1>1, <1>3, <1>4, <1>6

\* Accept and ImportWinner leave the call at its block.
LEMMA ProcessFrame ==
    ASSUME Types, Nested, frames # <<>>, Top.at <= Len(Top.chain)
    PROVE  LET f == [Top EXCEPT !.doing = "process"] IN
            /\ f \in FrameType /\ FrameOK(f, db.blocks)
            /\ f.chain = Top.chain /\ f.doing = "process" /\ f.at = Top.at
            /\ f.lastCanon = Top.lastCanon /\ f.heads = Top.heads
<1>2. Top \in FrameType /\ FrameOK(Top, db.blocks) /\ Len(Top.chain) \in Nat
  BY TopFacts
<1> DEFINE f == [Top EXCEPT !.doing = "process"]
<1>3. f \in FrameType /\ f.chain = Top.chain /\ f.at = Top.at /\ f.doing = "process"
      /\ f.lastCanon = Top.lastCanon /\ f.heads = Top.heads
  BY <1>2 DEF FrameType
<1> HIDE DEF f
<1>4. FrameOK(f, db.blocks)
  BY <1>2, <1>3 DEF FrameOK
<1> QED BY <1>3, <1>4 DEF f

LEMMA ReturnFrames ==
    ASSUME Types, Nested, WriteOK, write # NoWrite, NEW won \in BOOLEAN, Return(won)
    PROVE  \/ write.by = "miner" /\ frames' = frames
           \/ /\ write.by = "importer" /\ pending' = pending /\ frames # <<>>
              /\ \E f \in FrameType :
                    /\ frames' = SetTop(f) /\ FrameOK(f, db.blocks)
                    /\ f.chain = Top.chain /\ f.doing = "next" /\ f.heads = Top.heads
                    /\ f.lastCanon = IF won THEN write.block ELSE Top.lastCanon
                    /\ f.at = Top.at + 1
<1>1. CASE write.by = "miner"
  BY <1>1, ReturnFacts
<1>2. CASE write.by = "importer"
  <2>1. frames # <<>> /\ Top.doing = "process" /\ write.block \in db.blocks
    BY <1>2 DEF WriteOK
  <2>2. Top \in FrameType /\ FrameOK(Top, db.blocks) /\ Len(Top.chain) \in Nat
    BY <2>1, TopFacts
  <2>3. write.block \in Blocks /\ Top.lastCanon \in Blocks \cup {NoBlock}
    BY <2>2 DEF Types, WriteType, FrameType
  <2> DEFINE last == IF won THEN write.block ELSE Top.lastCanon
             f == [Top EXCEPT !.at = @ + 1, !.doing = "next", !.lastCanon = last]
  <2>4. last \in Blocks \cup {NoBlock}
    BY <2>3
  <2>5. last \in db.blocks \cup {NoBlock}
    BY <2>1, <2>2 DEF FrameOK
  <2>6. frames' = SetTop(f) /\ pending' = pending
    BY <1>2, ReturnFacts
  <2> HIDE DEF last
  <2>7. /\ f \in FrameType /\ f.chain = Top.chain /\ f.at = Top.at + 1 /\ f.doing = "next"
        /\ f.lastCanon = last /\ f.heads = Top.heads
    BY <2>2, <2>4, NextFrame
  <2> HIDE DEF f
  <2>8. Top.at \in Nat /\ Top.at >= 1 /\ Top.at <= Len(Top.chain)
    BY <2>1, <2>2 DEF FrameOK, FrameType
  <2>9. FrameOK(f, db.blocks)
    BY <2>2, <2>5, <2>7, <2>8 DEF FrameOK
  <2> QED BY <1>2, <2>1, <2>6, <2>7, <2>9 DEF last
<1> QED BY <1>1, <1>2 DEF Types, WriteType

\* The end of a call within a call.
LEMMA ImportEndsFacts ==
    ASSUME Types, Stored, Nested, ImportEnds
    PROVE  /\ frames # <<>> /\ pending' \subseteq db.blocks /\ pending \subseteq pending'
           /\ LET heads == Top.heads \cup ({Top.lastCanon} \cap {current}) IN
              \/ frames' = <<>> /\ pending' = pending \cup heads
              \/ /\ Len(frames) > 1 /\ frames' \in Seq(FrameType)
                 /\ Len(frames') = Len(frames) - 1 /\ pending' = pending
                 /\ \A i \in 1..(Len(frames) - 1) :
                        /\ FrameOK(frames'[i], db.blocks)
                        /\ frames'[i].chain = frames[i].chain
                        /\ frames'[i].at = frames[i].at
                        /\ frames'[i].doing = frames[i].doing
                        /\ frames'[i].lastCanon = frames[i].lastCanon
                        /\ frames'[i].heads =
                                IF i < Len(frames) - 1 THEN frames[i].heads ELSE heads
<1> DEFINE heads == Top.heads \cup ({Top.lastCanon} \cap {current})
           last == Len(frames) - 1
<1>1. frames # <<>> /\ frames \in Seq(FrameType) /\ Len(frames) \in Nat \ {0}
      /\ Top \in FrameType /\ FrameOK(Top, db.blocks)
  BY TopFacts DEF ImportEnds, Types
<1>2. heads \subseteq db.blocks /\ heads \in SUBSET Blocks
  BY <1>1 DEF FrameOK, Stored, Types, DbType
<1>3. pending \subseteq db.blocks
  BY DEF Stored
<1>4. CASE Len(frames) = 1
  <2>1. frames' = <<>> /\ pending' = pending \cup heads
    BY <1>4, Zenon DEF ImportEnds
  <2> HIDE DEF heads
  <2> QED BY <1>1, <1>2, <1>3, <2>1 DEF heads
<1>5. CASE Len(frames) # 1
  <2>1. /\ frames' = [i \in 1..last |->
                    IF i < last THEN frames[i] ELSE [frames[i] EXCEPT !.heads = heads]]
        /\ pending' = pending
    BY <1>5, Zenon DEF ImportEnds
  <2> HIDE DEF heads
  <2>2. last \in Nat \ {0}
    BY <1>1, <1>5
  <2>3. ASSUME NEW i \in 1..last
        PROVE  /\ frames'[i] \in FrameType /\ FrameOK(frames'[i], db.blocks)
               /\ frames'[i].chain = frames[i].chain
               /\ frames'[i].at = frames[i].at
               /\ frames'[i].doing = frames[i].doing
               /\ frames'[i].lastCanon = frames[i].lastCanon
               /\ frames'[i].heads = IF i < last THEN frames[i].heads ELSE heads
    <3>1. i \in 1..Len(frames)
      BY <1>1, <2>2
    <3>2. frames[i] \in FrameType /\ FrameOK(frames[i], db.blocks)
      BY <3>1, <1>1 DEF Nested
    <3>3. CASE i < last
      BY <2>1, <3>2, <3>3
    <3>4. CASE ~(i < last)
      <4>1. frames'[i] = [frames[i] EXCEPT !.heads = heads]
        BY <2>1, <3>4
      <4>2. /\ frames'[i] \in FrameType /\ frames'[i].chain = frames[i].chain
            /\ frames'[i].at = frames[i].at /\ frames'[i].doing = frames[i].doing
            /\ frames'[i].lastCanon = frames[i].lastCanon /\ frames'[i].heads = heads
        BY <4>1, <3>2, <1>2 DEF FrameType
      <4> QED BY <3>2, <3>4, <4>2, <1>2 DEF FrameOK
    <3> QED BY <3>3, <3>4
  <2>4. frames' \in Seq(FrameType) /\ Len(frames') = last
    <3>1. frames' \in [1..last -> FrameType]
      BY <2>1, <2>3
    <3> HIDE DEF last
    <3> QED BY <3>1, <2>2
  <2> QED BY <1>1, <1>3, <1>5, <2>1, <2>2, <2>3, <2>4 DEF heads
<1> QED BY <1>4, <1>5

\* What a call of insertChain starts with.
LEMMA NewFrame ==
    ASSUME NEW chain \in Seq(Blocks), NEW known,
           \A j \in 1..Len(chain) : chain[j] # Genesis /\ (chain[j] \in Own => chain[j] \in known)
    PROVE  /\ Frame(chain) \in FrameType /\ FrameOK(Frame(chain), known)
           /\ Frame(chain).chain = chain /\ Frame(chain).at = 1
           /\ Frame(chain).doing = "next"
           /\ Frame(chain).lastCanon = NoBlock /\ Frame(chain).heads = {}
<1>1. /\ Frame(chain) \in FrameType
      /\ Frame(chain).chain = chain /\ Frame(chain).at = 1 /\ Frame(chain).doing = "next"
      /\ Frame(chain).lastCanon = NoBlock /\ Frame(chain).heads = {}
  BY DEF Frame, FrameType
<1> HIDE DEF Frame
<1>2. 1 \in 1..(Len(chain) + 1)
  OBVIOUS
<1> QED BY <1>1, <1>2 DEF FrameOK

\* A batch of a peer.
LEMMA ImportsFacts ==
    ASSUME NEW chain \in Imports, NEW known
    PROVE  /\ chain \in Seq(Blocks) /\ Frame(chain) \in FrameType /\ FrameOK(Frame(chain), known)
           /\ Frame(chain).chain = chain /\ Frame(chain).at = 1 /\ Frame(chain).doing = "next"
           /\ Frame(chain).lastCanon = NoBlock /\ Frame(chain).heads = {}
           /\ \A j \in 1..Len(chain) : chain[j] \notin Own
           /\ Len(chain) \in Nat \ {0}
           /\ \A j \in 2..Len(chain) : Parent(chain[j]) = chain[j - 1]
<1>1. chain \in Seq(Blocks \ (Own \cup {Genesis}))
  BY ImportsAssumption
<1>2. chain \in Seq(Blocks) /\ \A j \in 1..Len(chain) : chain[j] \notin Own /\ chain[j] # Genesis
  BY <1>1
<1>3. Len(chain) \in Nat \ {0}
  BY <1>1, ImportsAssumption
<1>4. ASSUME NEW j \in 2..Len(chain) PROVE Parent(chain[j]) = chain[j - 1]
  <2> DEFINE b == chain[j]
             a == chain[j - 1]
  <2>1. Line[b] = Append(Line[a], b)
    BY ImportsAssumption
  <2>2. a \in Blocks /\ b \in Blocks
    <3>1. j \in 1..Len(chain) /\ j - 1 \in 1..Len(chain)
      BY <1>3
    <3> QED BY <1>2, <3>1
  <2>3. Line[a] \in Seq(Blocks) /\ Len(Line[a]) \in Nat \ {0} /\ Line[a][Len(Line[a])] = a
    BY <2>2, LineFacts
  <2> HIDE DEF a, b
  <2>4. Len(Line[b]) - 1 = Len(Line[a]) /\ Line[b][Len(Line[a])] = a
    BY <2>1, <2>2, <2>3
  <2>5. Parent(b) = a
    BY <2>4 DEF Parent
  <2> QED BY <2>5 DEF a, b
<1> QED BY <1>2, <1>3, <1>4, NewFrame

\* A call that starts within another one.
LEMMA PushFacts ==
    ASSUME NEW F, NEW s \in Seq(F), NEW f \in F
    PROVE  /\ Append(s, f) \in Seq(F) /\ Len(Append(s, f)) = Len(s) + 1
           /\ Append(s, f)[Len(s) + 1] = f
           /\ \A i \in 1..Len(s) : Append(s, f)[i] = s[i]
OBVIOUS

-----------------------------------------------------------------------------
(* Types. *)

LEMMA TypesInit == Init => Types
<1> SUFFICES ASSUME Init PROVE Types
  OBVIOUS
<1>1. Genesis \in Blocks
  BY TreeAssumption
<1>2. [n \in Numbers |-> IF n = 0 THEN Genesis ELSE NoBlock] \in [Numbers -> Blocks \cup {NoBlock}]
  BY <1>1
<1>3. [t \in Txs |-> NoBlock] \in [Txs -> Blocks \cup {NoBlock}]
  OBVIOUS
<1>4. db \in DbType
  BY <1>1, <1>2, <1>3 DEF Init, DbType
<1>5. frames \in Seq(FrameType)
  BY DEF Init
<1>6. unclean \in BOOLEAN /\ torn \in BOOLEAN
  BY DEF Init
<1> QED BY <1>1, <1>4, <1>5, <1>6 DEF Init, Types

LEMMA TypesStep ==
    ASSUME Types, Stored, Nested, WriteOK, [Next]_vars
    PROVE  Types'
<1>1. /\ db \in DbType /\ current \in Blocks /\ cache \in SUBSET Blocks
      /\ frames \in Seq(FrameType) /\ tasks \in SUBSET Own
      /\ write # NoWrite => write \in WriteType /\ write.block \in Blocks
      /\ pending \in SUBSET Blocks /\ announced \in SUBSET Blocks /\ aborted \in SUBSET Blocks
      /\ unclean \in BOOLEAN /\ torn \in BOOLEAN
  BY DEF Types, WriteType
<1>2. ASSUME write # NoWrite, NEW won \in BOOLEAN, Return(won)
      PROVE  write' = NoWrite /\ pending' \in SUBSET Blocks /\ frames' \in Seq(FrameType)
  <2>1. write' = NoWrite /\ pending' \in SUBSET Blocks
    BY <1>1, <1>2, ReturnFacts
  <2>2. frames' \in Seq(FrameType)
    BY <1>1, <1>2, ReturnFrames, SetTopFacts
  <2> QED BY <2>1, <2>2
<1>3. CASE InsertCanon
  BY <1>1, <1>3, InsertCanonFacts DEF InsertCanon, Types
<1>4. CASE InsertHead
  <2>1. db' \in DbType /\ current' \in Blocks /\ write # NoWrite
    BY <1>4, InsertHeadFacts, TodoFacts
  <2>2. CASE write.batched /\ Return(TRUE)
    BY <1>1, <1>2, <1>4, <2>1, <2>2 DEF InsertHead, Types
  <2>3. CASE ~write.batched
    BY <1>1, <1>4, <2>1, <2>3, InsertHeadFacts DEF InsertHead, Types
  <2> QED BY <1>4, <2>2, <2>3 DEF InsertHead
<1>5. CASE ReorgLookup
  BY <1>1, <1>5, ReorgLookupFacts DEF ReorgLookup, Types
<1>6. CASE ReorgDelete
  BY <1>1, <1>6, ReorgDeleteFacts DEF ReorgDelete, Types
<1>7. CASE WriteBatch
  <2>1. db' \in DbType /\ write # NoWrite
    BY <1>7, WriteBatchFacts
  <2>2. CASE ~write.wins /\ Return(FALSE)
    BY <1>1, <1>2, <1>7, <2>1, <2>2 DEF WriteBatch, Types
  <2>3. CASE write.wins
    BY <1>1, <1>7, <2>1, <2>3, WriteBatchFacts DEF WriteBatch, Types
  <2> QED BY <1>7, <2>2, <2>3 DEF WriteBatch
<1>8. ASSUME NEW chain \in Imports, InsertChain(chain) PROVE Types'
  <2>1. frames' = <<Frame(chain)>> /\ Frame(chain) \in FrameType
    BY <1>8, ImportsFacts DEF InsertChain
  <2>2. frames' \in Seq(FrameType)
    BY <2>1
  <2> QED BY <1>1, <1>8, <2>2 DEF InsertChain, Types
<1>9. CASE SkipKnown
  <2>1. frames' \in Seq(FrameType)
    BY <1>9, SkipFacts, SetTopFacts DEF SkipKnown
  <2> QED BY <1>1, <1>9, <2>1 DEF SkipKnown, Types
<1>10. CASE Accept
  <2>1. frames' \in Seq(FrameType)
    BY <1>10, ProcessFrame, SetTopFacts DEF Accept, Importing
  <2> QED BY <1>1, <1>10, <2>1 DEF Accept, Types
<1>11. CASE WriteBlockWithoutState
  <2>1. frames' \in Seq(FrameType)
    BY <1>11, SkipFacts, SetTopFacts DEF WriteBlockWithoutState, PrunedAncestor
  <2>2. Block \in Blocks
    BY <1>11, TopFacts DEF WriteBlockWithoutState, PrunedAncestor, Importing
  <2>3. db' \in DbType
    BY <1>1, <1>11, <2>2 DEF WriteBlockWithoutState, DbType
  <2> QED BY <1>1, <1>11, <2>1, <2>3 DEF WriteBlockWithoutState, Types
<1>12. CASE ImportWinner
  <2>1. PICK chain \in Seq(Blocks) :
            /\ frames' = Append(SetTop([Top EXCEPT !.doing = "process"]), Frame(chain))
            /\ \A j \in 1..Len(chain) : chain[j] \in db.blocks /\ chain[j] # Genesis
    BY <1>12, ImportWinnerFacts
  <2>2. Frame(chain) \in FrameType
    BY <2>1, NewFrame
  <2>3. [Top EXCEPT !.doing = "process"] \in FrameType /\ frames # <<>>
    BY <1>12, ProcessFrame DEF ImportWinner, PrunedAncestor, Importing
  <2>4. SetTop([Top EXCEPT !.doing = "process"]) \in Seq(FrameType)
    BY <1>1, <2>3 DEF SetTop
  <2>5. frames' \in Seq(FrameType)
    BY <2>1, <2>2, <2>4, PushFacts
  <2> QED BY <1>1, <1>12, <2>5 DEF ImportWinner, Types
<1>13. CASE Process
  <2>1. Block \in Blocks \ {Genesis}
    BY <1>13, TopFacts DEF Process, Importing
  <2>2. write' \in WriteType /\ db' \in DbType /\ cache' \in SUBSET Blocks
    BY <1>13, <2>1, WriteBlockFacts DEF Process
  <2> QED BY <1>1, <1>13, <2>2 DEF Process, Types
<1>14. CASE ImportFails
  <2>1. frames # <<>>
    BY <1>14 DEF ImportFails, Importing
  <2>2. Top \in FrameType
    BY <2>1, TopFacts
  <2>3. Top.heads \in SUBSET Blocks
    BY <2>2 DEF FrameType
  <2>4. \A i \in DOMAIN frames : frames[i].lastCanon \in Blocks \cup {NoBlock}
    <3>1. \A i \in DOMAIN frames : frames[i] \in FrameType
      BY <1>1
    <3> QED BY <3>1 DEF FrameType
  <2>5. frames' \in Seq(FrameType)
    BY <1>14 DEF ImportFails
  <2> QED BY <1>1, <1>14, <2>3, <2>4, <2>5 DEF ImportFails, Types
<1>15. CASE ImportEnds
  <2>1. frames' \in Seq(FrameType) /\ pending' \in SUBSET Blocks
    <3>1. pending' \subseteq db.blocks /\ (frames' = <<>> \/ frames' \in Seq(FrameType))
      BY <1>15, ImportEndsFacts
    <3>2. db.blocks \in SUBSET Blocks
      BY <1>1 DEF DbType
    <3>3. <<>> \in Seq(FrameType)
      OBVIOUS
    <3> QED BY <3>1, <3>2, <3>3
  <2> QED BY <1>1, <1>15, <2>1 DEF ImportEnds, Types
<1>16. ASSUME NEW b \in pending, PostHeadEvent(b) PROVE Types'
  BY <1>1, <1>16 DEF PostHeadEvent, Types
<1>17. ASSUME NEW b \in Own, CommitNewWork(b) PROVE Types'
  BY <1>1, <1>17 DEF CommitNewWork, Types
<1>18. ASSUME NEW b \in Own, Sealed(b) PROVE Types'
  <2>1. b \in Blocks \ {Genesis}
    BY TreeAssumption
  <2>2. write' \in WriteType /\ db' \in DbType /\ cache' \in SUBSET Blocks
    BY <1>18, <2>1, WriteBlockFacts DEF Sealed
  <2> QED BY <1>1, <1>18, <2>2 DEF Sealed, Types
<1>20. CASE Stop
  <2>1. frames' \in Seq(FrameType)
    BY <1>20, StopFacts
  <2> QED BY <1>1, <1>20, <2>1, StopFacts DEF Types
<1>21. CASE Restart
  <2>1. torn' \in BOOLEAN
    BY <1>1, <1>21, Zenon DEF Restart
  <2>2. frames' \in Seq(FrameType)
    BY <1>21, RestartFacts
  <2> QED BY <1>1, <1>21, <2>1, <2>2, RestartFacts DEF Types
<1>22. CASE UNCHANGED vars
  BY <1>1, <1>22 DEF vars, Types
<1> QED BY <1>3, <1>4, <1>5, <1>6, <1>7, <1>8, <1>9, <1>10, <1>11, <1>12, <1>13, <1>14,
           <1>15, <1>16, <1>17, <1>18, <1>20, <1>21, <1>22
        DEF Next, WriteStep, ImportStep

-----------------------------------------------------------------------------
(* Stored. *)

LEMMA ClosedGrows ==
    ASSUME NEW known \in SUBSET Blocks, Closed(known),
           NEW b \in Blocks \ {Genesis}, Parent(b) \in known
    PROVE  Closed(known \cup {b})
<1>1. ASSUME NEW i \in 1..Len(Line[b]) PROVE Line[b][i] \in known \cup {b}
  <2>1. CASE i = Len(Line[b])
    BY <2>1, LineFacts
  <2>2. CASE i # Len(Line[b])
    <3>1. i \in 1..Len(Line[Parent(b)]) /\ Line[b][i] = Line[Parent(b)][i]
      BY <2>2, ParentFacts
    <3> QED BY <3>1 DEF Closed
  <2> QED BY <2>1, <2>2
<1> QED BY <1>1 DEF Closed

\* Every block of the chain of a known block is known.
LEMMA ClosedAnc ==
    ASSUME NEW known \in SUBSET Blocks, Closed(known), NEW b \in known, NEW a \in Blocks, Anc(a, b)
    PROVE  a \in known
<1>1. Len(Line[a]) \in 1..Len(Line[b]) /\ Line[b][Len(Line[a])] = a
  BY AncFacts DEF Anc
<1> QED BY <1>1 DEF Closed

LEMMA StoredInit == Init => Stored
<1> SUFFICES ASSUME Init PROVE Stored
  OBVIOUS
<1>1. Len(Line[Genesis]) = 1 /\ Line[Genesis][1] = Genesis
  BY TreeAssumption
<1>2. Closed({Genesis})
  BY <1>1 DEF Closed
<1> QED BY <1>2 DEF Init, Stored

LEMMA StoredStep ==
    ASSUME Types, Stored, Nested, WriteOK, [Next]_vars
    PROVE  Stored'
<1>1. /\ db \in DbType /\ db.blocks \in SUBSET Blocks
      /\ Closed(db.blocks) /\ Genesis \in db.states
      /\ db.states \subseteq db.blocks /\ db.receipts \subseteq db.blocks
      /\ cache \subseteq db.blocks /\ (Archive => cache = {})
      /\ db.head \in db.blocks /\ current \in db.blocks
      /\ \A b \in tasks : b \notin db.blocks /\ Parent(b) \in db.blocks
                          /\ Parent(b) \in db.states \cup cache
      /\ pending \subseteq db.blocks /\ announced \subseteq db.blocks
      /\ aborted \subseteq db.blocks
  BY DEF Stored, Types, DbType, HasBlockAndState, HasState
\* What a step within WriteBlockWithState, or of the importer, leaves stored.
<1>2. ASSUME db'.blocks = db.blocks, db'.states = db.states, cache' = cache, tasks' = tasks,
             db'.receipts \subseteq db.blocks, db'.head \in db.blocks, current' \in db.blocks,
             pending' \subseteq db.blocks, announced' \subseteq db.blocks, aborted' \subseteq db.blocks
      PROVE  Stored'
  BY <1>1, <1>2 DEF Stored, HasBlockAndState, HasState
<1>3. ASSUME write # NoWrite, NEW won \in BOOLEAN, Return(won) PROVE pending' \subseteq db.blocks
  BY <1>1, <1>3, ReturnFacts DEF WriteOK
\* A block is added.
<1>4. ASSUME NEW b \in Blocks \ {Genesis}, Parent(b) \in db.blocks,
             db'.blocks = db.blocks \cup {b}, db'.states \subseteq db.states \cup {b},
             db.states \subseteq db'.states, db.states \cup cache \subseteq db'.states \cup cache',
             cache' \subseteq cache \cup {b}, Archive => cache' = cache,
             db'.receipts = db.receipts, db'.head = db.head, current' = current,
             b \notin tasks', tasks' \subseteq tasks,
             pending' = pending, announced' = announced, aborted' = aborted
      PROVE  Stored'
  <2>1. Closed(db.blocks \cup {b})
    BY <1>1, <1>4, ClosedGrows
  <2> QED BY <1>1, <1>4, <2>1 DEF Stored, HasBlockAndState, HasState
<1>5. CASE InsertCanon
  BY <1>1, <1>2, <1>5, InsertCanonFacts DEF InsertCanon
<1>6. CASE InsertHead
  <2>1. Head(write.todo) \in db.blocks
    <3>1. Head(write.todo) \in Blocks /\ write.block \in Blocks
          /\ Anc(Head(write.todo), write.block)
      BY <1>1, <1>6, InsertHeadFacts, TodoFacts
    <3>2. write.block \in db.blocks
      BY <1>1, <1>6, InsertHeadFacts DEF WriteOK
    <3> QED BY <1>1, <3>1, <3>2, ClosedAnc
  <2>2. pending' \subseteq db.blocks
    BY <1>1, <1>3, <1>6, InsertHeadFacts
  <2> QED BY <1>1, <1>2, <1>6, <2>1, <2>2, InsertHeadFacts DEF InsertHead
<1>7. CASE ReorgLookup
  BY <1>1, <1>2, <1>7, ReorgLookupFacts DEF ReorgLookup
<1>8. CASE ReorgDelete
  BY <1>1, <1>2, <1>8, ReorgDeleteFacts DEF ReorgDelete
<1>9. CASE WriteBatch
  <2>1. write.block \in db.blocks
    BY <1>9 DEF WriteBatch, WriteOK
  <2>2. pending' \subseteq db.blocks
    BY <1>1, <1>3, <1>9, WriteBatchFacts
  <2> QED BY <1>1, <1>2, <1>9, <2>1, <2>2, WriteBatchFacts DEF WriteBatch
<1>10. ASSUME NEW chain \in Imports, InsertChain(chain) PROVE Stored'
  BY <1>1, <1>2, <1>10 DEF InsertChain
<1>11. CASE SkipKnown
  BY <1>1, <1>2, <1>11 DEF SkipKnown
<1>12. CASE Accept
  BY <1>1, <1>2, <1>12 DEF Accept
\* The block of the importer is none that is being sealed.
<1>13. ASSUME frames # <<>>, Top.at <= Len(Top.chain)
       PROVE  Block \in Blocks \ {Genesis} /\ Block \notin tasks
  <2>1. Block \in Blocks \ {Genesis} /\ Top.at \in 1..Len(Top.chain) /\ FrameOK(Top, db.blocks)
    BY <1>13, TopFacts DEF FrameOK
  <2>2. Block \in Own => Block \in db.blocks
    BY <2>1 DEF FrameOK, Block
  <2> QED BY <1>1, <2>1, <2>2 DEF Types
<1>14. CASE WriteBlockWithoutState
  <2>1. Block \in Blocks \ {Genesis} /\ Block \notin tasks /\ Parent(Block) \in db.blocks
    BY <1>13, <1>14 DEF WriteBlockWithoutState, PrunedAncestor, Importing
  <2>2. /\ db'.blocks = db.blocks \cup {Block} /\ db'.states = db.states
        /\ db'.receipts = db.receipts /\ db'.head = db.head
    BY <1>1, <1>14 DEF WriteBlockWithoutState, DbType
  <2> QED BY <1>4, <1>14, <2>1, <2>2 DEF WriteBlockWithoutState
<1>15. CASE ImportWinner
  BY <1>1, <1>2, <1>15 DEF ImportWinner
<1>16. CASE Process
  <2>1. Block \in Blocks \ {Genesis} /\ Block \notin tasks /\ HasState(Parent(Block))
    BY <1>13, <1>16 DEF Process, Importing
  <2>2. Parent(Block) \in db.blocks
    BY <1>1, <2>1 DEF HasState
  <2>3. WriteBlock("importer", Block)
    BY <1>16 DEF Process
  <2>4. /\ db'.blocks = db.blocks \cup {Block}
        /\ db'.head = db.head /\ db'.receipts = db.receipts
        /\ db'.states \cup cache' = db.states \cup cache \cup {Block}
        /\ db'.states \subseteq db.states \cup {Block} /\ db.states \subseteq db'.states
        /\ cache' \subseteq cache \cup {Block} /\ (Archive => cache' = cache)
    BY <2>1, <2>3, WriteBlockFacts
  <2> QED BY <1>4, <1>16, <2>1, <2>2, <2>4 DEF Process
<1>17. CASE ImportFails
  <2>1. frames # <<>>
    BY <1>17 DEF ImportFails, Importing
  <2>2. Top.heads \subseteq db.blocks
    BY <2>1, TopFacts DEF FrameOK
  <2>3. \A i \in DOMAIN frames : frames[i].lastCanon \in db.blocks \cup {NoBlock}
    BY DEF Nested, FrameOK, Types
  <2> QED BY <1>1, <1>2, <1>17, <2>2, <2>3 DEF ImportFails
<1>18. CASE ImportEnds
  BY <1>1, <1>2, <1>18, ImportEndsFacts DEF ImportEnds
<1>19. ASSUME NEW b \in pending, PostHeadEvent(b) PROVE Stored'
  BY <1>1, <1>2, <1>19 DEF PostHeadEvent
<1>20. ASSUME NEW b \in Own, CommitNewWork(b) PROVE Stored'
  BY <1>1, <1>20 DEF CommitNewWork, Stored, HasBlockAndState, HasState
<1>21. ASSUME NEW b \in Own, Sealed(b) PROVE Stored'
  <2>1. b \in Blocks \ {Genesis} /\ Parent(b) \in db.blocks
    BY <1>1, <1>21, TreeAssumption DEF Sealed
  <2>2. WriteBlock("miner", b)
    BY <1>21 DEF Sealed
  <2>3. /\ db'.blocks = db.blocks \cup {b}
        /\ db'.head = db.head /\ db'.receipts = db.receipts
        /\ db'.states \cup cache' = db.states \cup cache \cup {b}
        /\ db'.states \subseteq db.states \cup {b} /\ db.states \subseteq db'.states
        /\ cache' \subseteq cache \cup {b} /\ (Archive => cache' = cache)
    BY <2>1, <2>2, WriteBlockFacts
  <2> QED BY <1>4, <1>21, <2>1, <2>3 DEF Sealed
<1>23. CASE Stop
  BY <1>1, <1>23, StopFacts DEF Stored, HasBlockAndState, HasState
<1>24. CASE Restart
  BY <1>1, <1>24, RestartFacts DEF Stored
<1>25. CASE UNCHANGED vars
  BY <1>1, <1>2, <1>25 DEF vars
<1> QED BY <1>5, <1>6, <1>7, <1>8, <1>9, <1>10, <1>11, <1>12, <1>14, <1>15, <1>16, <1>17,
           <1>18, <1>19, <1>20, <1>21, <1>23, <1>24, <1>25
        DEF Next, WriteStep, ImportStep

-----------------------------------------------------------------------------
(* Nested. *)

LEMMA FrameOKGrows ==
    ASSUME NEW f, NEW known, NEW more, known \subseteq more, FrameOK(f, known)
    PROVE  FrameOK(f, more)
BY DEF FrameOK

\* No call starts or ends.
LEMMA NestedSame ==
    ASSUME Nested, frames' = frames, db.blocks \subseteq db'.blocks
    PROVE  Nested'
<1>1. ASSUME NEW i \in 1..Len(frames) PROVE FrameOK(frames[i], db'.blocks)
  BY FrameOKGrows DEF Nested
<1> QED BY <1>1 DEF Nested, At

\* The running call goes on in its batch.
LEMMA NestedTop ==
    ASSUME Types, Nested, frames # <<>>, NEW f \in FrameType, frames' = SetTop(f),
           f.chain = Top.chain, FrameOK(f, db.blocks), db.blocks \subseteq db'.blocks
    PROVE  Nested'
<1> DEFINE n == Len(frames)
<1>1. /\ n \in Nat \ {0} /\ Len(frames') = n /\ frames'[n] = f
      /\ \A i \in 1..(n - 1) : frames'[i] = frames[i]
  BY SetTopFacts, TopFacts
<1>2. ASSUME NEW i \in 1..n PROVE FrameOK(frames'[i], db'.blocks) /\ frames'[i].chain = frames[i].chain
  <2>1. CASE i = n
    BY <1>1, <2>1, FrameOKGrows DEF Top
  <2>2. CASE i # n
    <3>1. frames'[i] = frames[i]
      BY <1>1, <2>2
    <3> QED BY <3>1, FrameOKGrows DEF Nested
  <2> QED BY <2>1, <2>2
<1>3. ASSUME NEW i \in 1..n, NEW j \in 1..n, i < j
      PROVE  /\ frames'[i].doing = "process"
             /\ \A k \in 1..Len(frames'[j].chain) :
                Anc(frames'[j].chain[k], At(frames'[i])) /\ frames'[j].chain[k] # At(frames'[i])
  <2>1. frames'[i] = frames[i]
    BY <1>1, <1>3
  <2>2. /\ frames[i].doing = "process"
        /\ \A k \in 1..Len(frames[j].chain) :
           Anc(frames[j].chain[k], At(frames[i])) /\ frames[j].chain[k] # At(frames[i])
    BY <1>3 DEF Nested
  <2>3. frames'[j].chain = frames[j].chain
    BY <1>2
  <2> QED BY <2>1, <2>2, <2>3
<1> HIDE DEF n
<1>4. Len(frames') = n
  BY <1>1
<1> QED BY <1>2, <1>3, <1>4 DEF Nested, At

LEMMA NestedPush ==
    ASSUME Types, Stored, Nested, ImportWinner
    PROVE  Nested'
<1> DEFINE n == Len(frames)
           f == [Top EXCEPT !.doing = "process"]
<1>1. PICK chain \in Seq(Blocks) :
        /\ frames' = Append(SetTop(f), Frame(chain))
        /\ \A j \in 1..Len(chain) :
                /\ chain[j] \in db.blocks /\ chain[j] # Genesis
                /\ Anc(chain[j], Block) /\ chain[j] # Block
  BY ImportWinnerFacts
<1>2. frames # <<>> /\ Top.at <= Len(Top.chain)
  BY DEF ImportWinner, PrunedAncestor, Importing
<1>3. n \in Nat \ {0} /\ frames \in Seq(FrameType) /\ Block = At(Top)
  BY <1>2, TopFacts DEF Types
<1>4. f \in FrameType /\ FrameOK(f, db.blocks) /\ f.chain = Top.chain /\ f.doing = "process"
      /\ f.at = Top.at
  BY <1>2, ProcessFrame
<1>5. Frame(chain) \in FrameType /\ FrameOK(Frame(chain), db.blocks) /\ Frame(chain).chain = chain
  BY <1>1, NewFrame
<1>6. At(f) = Block
  BY <1>3, <1>4 DEF At
<1> HIDE DEF f
<1>7. SetTop(f) \in Seq(FrameType) /\ Len(SetTop(f)) = n /\ SetTop(f)[n] = f
      /\ \A i \in 1..(n - 1) : SetTop(f)[i] = frames[i]
  BY <1>2, <1>3, <1>4 DEF SetTop
<1>8. /\ Len(frames') = n + 1 /\ frames'[n + 1] = Frame(chain) /\ frames'[n] = f
      /\ \A i \in 1..(n - 1) : frames'[i] = frames[i]
  <2> HIDE DEF n
  <2>1. n \in 1..n /\ \A i \in 1..(n - 1) : i \in 1..n
    BY <1>3
  <2> QED BY <1>1, <1>5, <1>7, <2>1, PushFacts
<1>9. db'.blocks = db.blocks
  BY DEF ImportWinner
<1>10. ASSUME NEW i \in 1..(n + 1) PROVE FrameOK(frames'[i], db.blocks)
  <2>1. CASE i = n + 1
    BY <2>1, <1>5, <1>8
  <2>2. CASE i = n
    BY <2>2, <1>4, <1>8
  <2>3. CASE i < n
    BY <2>3, <1>3, <1>8 DEF Nested
  <2> QED BY <2>1, <2>2, <2>3, <1>3
<1>11. ASSUME NEW i \in 1..n
       PROVE  frames'[i].doing = "process" /\ (i < n => At(frames'[i]) = At(frames[i]))
  <2>1. CASE i = n
    BY <2>1, <1>4, <1>8
  <2>2. CASE i # n
    <3>1. i \in 1..(n - 1) /\ i < n /\ n \in 1..n
      BY <2>2, <1>3
    <3>2. frames[i].doing = "process"
      BY <3>1 DEF Nested
    <3> QED BY <3>1, <3>2, <1>8
  <2> QED BY <2>1, <2>2
<1>12. ASSUME NEW i \in 1..n, NEW j \in 1..(n + 1), i < j, NEW k \in 1..Len(frames'[j].chain)
       PROVE  Anc(frames'[j].chain[k], At(frames'[i])) /\ frames'[j].chain[k] # At(frames'[i])
  <2>1. CASE j = n + 1
    <3>1. Anc(frames'[j].chain[k], Block) /\ frames'[j].chain[k] # Block
          /\ frames'[j].chain[k] \in Blocks /\ Block \in Blocks
      BY <1>1, <1>2, <1>5, <1>8, <1>12, <2>1, TopFacts
    <3>2. CASE i = n
      BY <3>1, <3>2, <1>6, <1>8
    <3>3. CASE i # n
      <4>1. i \in 1..(n - 1) /\ i < n /\ n \in 1..n
        BY <3>3, <1>3
      <4>2. At(frames'[i]) = At(frames[i]) /\ FrameOK(frames[i], db.blocks)
            /\ frames[i].doing = "process" /\ frames[i] \in FrameType
        BY <4>1, <1>3, <1>11 DEF Nested
      <4>3. At(frames[i]) \in Blocks
        BY <4>2 DEF At, FrameOK, FrameType
      <4>4. Top.at \in 1..Len(Top.chain)
        BY <1>2, TopFacts DEF FrameOK
      <4>5. Anc(Block, At(frames[i])) /\ Block # At(frames[i])
        BY <4>1, <4>4 DEF Nested, Block, Top
      <4>6. Anc(frames'[j].chain[k], At(frames[i]))
        BY <3>1, <4>3, <4>5, AncTransitive
      <4>7. frames'[j].chain[k] # At(frames[i])
        <5>1. Len(Line[frames'[j].chain[k]]) < Len(Line[Block])
          BY <3>1, AncFacts
        <5>2. Len(Line[Block]) < Len(Line[At(frames[i])])
          BY <3>1, <4>3, <4>5, AncFacts
        <5> QED BY <5>1, <5>2, <3>1, <4>3, LineFacts
      <4> QED BY <4>2, <4>6, <4>7
    <3> QED BY <3>2, <3>3
  <2>2. CASE j # n + 1
    <3>1. j \in 1..n /\ i < n /\ i \in 1..(n - 1)
      BY <2>2, <1>3, <1>12
    <3>2. frames'[j].chain = frames[j].chain
      <4>1. CASE j = n
        BY <4>1, <1>4, <1>8 DEF Top
      <4>2. CASE j # n
        <5>1. j \in 1..(n - 1)
          BY <3>1, <4>2, <1>3
        <5> QED BY <5>1, <1>8
      <4> QED BY <4>1, <4>2
    <3>3. At(frames'[i]) = At(frames[i])
      BY <3>1, <1>11
    <3> QED BY <1>12, <3>1, <3>2, <3>3 DEF Nested
  <2> QED BY <2>1, <2>2
<1> HIDE DEF n
<1>13. \A i, j \in 1..(n + 1) : i < j => i \in 1..n
  BY <1>3
<1>14. Len(frames') = n + 1
  BY <1>8
<1> QED BY <1>9, <1>10, <1>11, <1>12, <1>13, <1>14 DEF Nested, At

LEMMA NestedPop ==
    ASSUME Types, Stored, Nested, ImportEnds
    PROVE  Nested'
<1>1. CASE frames' = <<>>
  BY <1>1 DEF Nested
<1>2. CASE frames' # <<>>
  <2>1. /\ Len(frames) > 1 /\ frames' \in Seq(FrameType)
        /\ Len(frames') = Len(frames) - 1
        /\ \A i \in 1..(Len(frames) - 1) :
             /\ FrameOK(frames'[i], db.blocks)
             /\ frames'[i].chain = frames[i].chain
             /\ frames'[i].at = frames[i].at
             /\ frames'[i].doing = frames[i].doing
    BY <1>2, ImportEndsFacts
  <2>2. db'.blocks = db.blocks /\ Len(frames) \in Nat
    BY DEF ImportEnds, Types
  <2>3. \A i \in 1..Len(frames') : i \in 1..(Len(frames) - 1) /\ i \in 1..Len(frames)
    BY <2>1, <2>2
  <2>4. \A i \in 1..Len(frames') : FrameOK(frames'[i], db'.blocks)
    BY <2>1, <2>2, <2>3
  <2>5. ASSUME NEW i \in 1..Len(frames'), NEW j \in 1..Len(frames'), i < j
        PROVE  /\ frames'[i].doing = "process"
               /\ \A k \in 1..Len(frames'[j].chain) :
                  Anc(frames'[j].chain[k], At(frames'[i])) /\ frames'[j].chain[k] # At(frames'[i])
    <3>1. /\ frames[i].doing = "process"
          /\ \A k \in 1..Len(frames[j].chain) :
             Anc(frames[j].chain[k], At(frames[i])) /\ frames[j].chain[k] # At(frames[i])
      BY <2>3, <2>5 DEF Nested
    <3>2. frames'[i].doing = frames[i].doing /\ frames'[j].chain = frames[j].chain
          /\ At(frames'[i]) = At(frames[i])
      BY <2>1, <2>3 DEF At
    <3> QED BY <3>1, <3>2
  <2> QED BY <2>4, <2>5 DEF Nested, At
<1> QED BY <1>1, <1>2

LEMMA NestedInit == Init => Nested
BY DEF Init, Nested

LEMMA NestedStep ==
    ASSUME Types, Stored, Nested, WriteOK, [Next]_vars
    PROVE  Nested'
<1>1. ASSUME write # NoWrite, NEW won \in BOOLEAN, Return(won), db'.blocks = db.blocks PROVE Nested'
  BY <1>1, ReturnFrames, NestedSame, NestedTop
<1>2. CASE InsertCanon
  BY <1>2, InsertCanonFacts, NestedSame DEF InsertCanon
<1>3. CASE InsertHead
  BY <1>1, <1>3, InsertHeadFacts, NestedSame
<1>4. CASE ReorgLookup
  BY <1>4, ReorgLookupFacts, NestedSame DEF ReorgLookup
<1>5. CASE ReorgDelete
  BY <1>5, ReorgDeleteFacts, NestedSame DEF ReorgDelete
<1>6. CASE WriteBatch
  BY <1>1, <1>6, WriteBatchFacts, NestedSame
<1>7. ASSUME NEW chain \in Imports, InsertChain(chain) PROVE Nested'
  <2>1. Len(frames') = 1 /\ frames'[1] = Frame(chain)
    BY <1>7 DEF InsertChain
  <2>2. FrameOK(Frame(chain), db'.blocks)
    BY ImportsFacts
  <2>3. \A i \in 1..1 : i = 1
    OBVIOUS
  <2> QED BY <2>1, <2>2, <2>3 DEF Nested
<1>8. CASE SkipKnown
  BY <1>8, SkipFacts, NestedTop DEF SkipKnown
<1>9. CASE Accept
  BY <1>9, ProcessFrame, NestedTop DEF Accept, Importing
<1>10. CASE WriteBlockWithoutState
  <2>1. db.blocks \subseteq db'.blocks
    BY <1>10 DEF WriteBlockWithoutState, Types, DbType
  <2> QED BY <1>10, <2>1, SkipFacts, NestedTop DEF WriteBlockWithoutState, PrunedAncestor
<1>11. CASE ImportWinner
  BY <1>11, NestedPush
<1>12. CASE Process
  <2>1. Block \in Blocks \ {Genesis}
    BY <1>12, TopFacts DEF Process, Importing
  <2> QED BY <1>12, <2>1, WriteBlockFacts, NestedSame DEF Process
<1>13. CASE ImportFails
  BY <1>13 DEF ImportFails, Nested
<1>14. CASE ImportEnds
  BY <1>14, NestedPop
<1>15. ASSUME NEW b \in pending, PostHeadEvent(b) PROVE Nested'
  BY <1>15, NestedSame DEF PostHeadEvent
<1>16. ASSUME NEW b \in Own, CommitNewWork(b) PROVE Nested'
  BY <1>16, NestedSame DEF CommitNewWork
<1>17. ASSUME NEW b \in Own, Sealed(b) PROVE Nested'
  <2>1. b \in Blocks \ {Genesis}
    BY TreeAssumption
  <2> QED BY <1>17, <2>1, WriteBlockFacts, NestedSame DEF Sealed
<1>18. CASE Stop
  <2>1. frames' = <<>>
    BY <1>18, StopFacts
  <2> QED BY <2>1 DEF Nested
<1>19. CASE Restart
  BY <1>19 DEF Restart, LoadLastState, Nested
<1>20. CASE UNCHANGED vars
  BY <1>20, NestedSame DEF vars
<1> QED BY <1>2, <1>3, <1>4, <1>5, <1>6, <1>7, <1>8, <1>9, <1>10, <1>11, <1>12, <1>13,
           <1>14, <1>15, <1>16, <1>17, <1>18, <1>19, <1>20
        DEF Next, WriteStep, ImportStep

-----------------------------------------------------------------------------
(* WriteOK. *)

\* A block that wins against a heavier or equally heavy head is not in its chain, so
\* that reorg has something to insert.
LEMMA WriteStarts ==
    ASSUME Types, NEW by \in {"miner", "importer"}, NEW b \in Blocks \ {Genesis},
           WriteBlock(by, b), b # current
    PROVE  /\ write'.step = "canon" =>
                /\ ~Anc(b, current)
                /\ TodoOK'
                /\ Len(write'.todo) = Len(Line[b]) - CommonBlock(current, b)
           /\ write'.step = "canon" \/ (write'.step = "batch" /\ write'.todo = <<>>)
           /\ ~write'.wins => write'.step = "batch"
<1>1. /\ write'.block = b
      /\ \/ /\ write'.step = "canon" /\ write'.wins /\ Parent(b) # current
            /\ write'.todo = NewChain(current, b)
         \/ /\ write'.step = "batch" /\ write'.todo = <<>>
            /\ write'.wins => Parent(b) = current
      /\ write'.wins => Td[b] >= Td[current]
  BY WriteBlockFacts
<1>2. current \in Blocks /\ Td[b] \in Nat /\ Td[current] \in Nat
  BY TreeAssumption DEF Types
<1>3. ASSUME write'.step = "canon"
      PROVE  /\ ~Anc(b, current) /\ TodoOK'
             /\ Len(write'.todo) = Len(Line[b]) - CommonBlock(current, b)
  <2>1. ~Anc(b, current)
    BY <1>1, <1>2, <1>3, AncFacts
  <2> DEFINE k == CommonBlock(current, b)
             n == Len(Line[b])
             todo == write'.todo
  <2>2. /\ k \in 1..(n - 1) /\ todo \in Seq(Blocks) /\ Len(todo) = n - k
        /\ \A i \in 1..Len(todo) : todo[i] = Line[b][k + i]
    BY <1>1, <1>2, <1>3, <2>1, NewChainFacts
  <2>3. n \in Nat
    BY LineFacts
  <2> HIDE DEF k, n, todo
  <2>4. Len(todo) \in 1..n /\ \A i \in 1..Len(todo) : n - Len(todo) + i = k + i
    BY <2>2, <2>3
  <2>5. \A i \in 1..Len(todo) : todo[i] = Line[b][n - Len(todo) + i]
    BY <2>2, <2>4
  <2>6. TodoOK'
    BY <1>1, <2>4, <2>5 DEF TodoOK, n, todo
  <2> QED BY <2>1, <2>2, <2>6 DEF k, n, todo
<1> QED BY <1>1, <1>3

LEMMA WriteOKStep ==
    ASSUME StructInv, [Next]_vars
    PROVE  WriteOK'
<1> USE DEF StructInv
<1>1. ASSUME write' = NoWrite PROVE WriteOK'
  BY <1>1 DEF WriteOK
\* The writer waits for mu, or is inside and does nothing.
<1>2. ASSUME write' = write, db.blocks \subseteq db'.blocks,
             db.states \cup cache \subseteq db'.states \cup cache', frames' = frames
      PROVE  WriteOK'
  BY <1>2 DEF WriteOK, HasBlockAndState, HasState, Inserting, TodoOK, Top, At
\* The importer goes on while the miner writes.
<1>3. ASSUME write' = write, db.blocks \subseteq db'.blocks,
             db.states \cup cache \subseteq db'.states \cup cache',
             write # NoWrite => write.by = "miner",
             write # NoWrite => \A i \in 1..Len(frames') : \A j \in 1..Len(frames'[i].chain) :
                                    frames'[i].chain[j] # write.block
      PROVE  WriteOK'
  BY <1>3 DEF WriteOK, HasBlockAndState, HasState, Inserting, TodoOK
\* The writer goes on.
<1>4. ASSUME write # NoWrite, db'.blocks = db.blocks, db'.states = db.states, cache' = cache,
             frames' = frames, write'.by = write.by, write'.block = write.block,
             write'.old = write.old,
             write'.wins = write.wins,
             Inserting' => TodoOK', ~Inserting' => write'.todo = <<>>,
             ~write'.wins => write'.step = "batch",
             write'.batched => write'.todo = <<write'.block>> /\ write'.step \in {"canon", "head"}
      PROVE  WriteOK'
  BY <1>4 DEF WriteOK, HasBlockAndState, HasState, Top, At
\* The writer starts.
<1>5. ASSUME NEW by \in {"miner", "importer"}, NEW b \in Blocks \ {Genesis}, WriteBlock(by, b),
             b # current, HasBlockAndState(Parent(b)), frames' = frames,
             by = "importer" => frames # <<>> /\ Top.doing = "process" /\ b = At(Top),
             by = "miner" => b \in Own /\ \A i \in 1..Len(frames) :
                    \A j \in 1..Len(frames[i].chain) : frames[i].chain[j] # b
      PROVE  WriteOK'
  <2>1. /\ write'.by = by /\ write'.block = b /\ write'.old = current /\ ~write'.batched
        /\ db'.blocks = db.blocks \cup {b}
        /\ db'.states \cup cache' = db.states \cup cache \cup {b}
    BY <1>5, WriteBlockFacts
  <2>2. /\ write'.step = "canon" => TodoOK'
        /\ write'.step = "canon" \/ (write'.step = "batch" /\ write'.todo = <<>>)
        /\ ~write'.wins => write'.step = "batch"
    BY <1>5, WriteStarts
  <2>3. current \in db.blocks
    BY DEF Stored
  <2> QED BY <1>5, <2>1, <2>2, <2>3 DEF WriteOK, HasBlockAndState, HasState, Inserting, Top, At
<1>6. CASE InsertCanon
  <2>1. write # NoWrite /\ write.step = "canon" /\ Inserting /\ write.wins
    BY <1>6, InsertCanonFacts DEF WriteOK
  <2>2. TodoOK' /\ Inserting'
    <3>1. TodoOK /\ write'.todo = write.todo /\ write'.block = write.block /\ write'.step = "head"
      BY <1>6, <2>1, InsertCanonFacts DEF WriteOK
    <3> QED BY <3>1 DEF TodoOK, Inserting
  <2> QED BY <1>4, <1>6, <2>1, <2>2, InsertCanonFacts DEF InsertCanon, WriteOK
<1>7. CASE InsertHead
  <2>1. CASE write.batched /\ Return(TRUE)
    BY <1>1, <1>7, <2>1, InsertHeadFacts, ReturnFacts
  <2>2. CASE ~write.batched
    <3>1. write # NoWrite /\ write.step = "head" /\ Inserting /\ write.wins
      BY <1>7, InsertHeadFacts DEF WriteOK
    <3>2. TodoOK' /\ Inserting'
      <4>1. TodoOK /\ write'.todo = write.todo /\ write'.block = write.block /\ write'.step = "lookup"
        BY <1>7, <2>2, <3>1, InsertHeadFacts DEF WriteOK
      <4> QED BY <4>1 DEF TodoOK, Inserting
    <3> QED BY <1>4, <1>7, <2>2, <3>1, <3>2, InsertHeadFacts DEF InsertHead
  <2> QED BY <1>7, <2>1, <2>2 DEF InsertHead
<1>8. CASE ReorgLookup
  <2> DEFINE n == Len(Line[write.block])
             k == Len(write.todo)
             rest == Tail(write.todo)
  <2>1. write # NoWrite /\ write.step = "lookup" /\ Inserting /\ write.wins /\ ~write.batched
    BY <1>8, ReorgLookupFacts DEF WriteOK
  <2>2. /\ k \in Nat \ {0} /\ k <= n /\ write.block \in Blocks
        /\ rest \in Seq(Blocks) /\ Len(rest) = k - 1
        /\ \A i \in 1..Len(rest) : rest[i] = write.todo[i + 1]
    BY <2>1, TodoFacts
  <2>3. n \in Nat
    BY <2>2, LineFacts
  <2>4. \A i \in 1..k : write.todo[i] = Line[write.block][n - k + i]
    BY <2>1 DEF WriteOK, TodoOK
  <2>5. write'.block = write.block /\ write'.todo = rest /\ write'.step = AfterLookup(write.todo)
    BY <1>8, ReorgLookupFacts
  <2> HIDE DEF n, k, rest
  <2>6. \A i \in 1..Len(rest) : rest[i] = Line[write.block][n - Len(rest) + i]
    <3>1. TAKE i \in 1..Len(rest)
    <3>2. i + 1 \in 1..k /\ n - k + (i + 1) = n - Len(rest) + i
      BY <2>2, <2>3
    <3> QED BY <2>2, <2>4, <3>2
  <2>7. CASE rest = <<>>
    <3>1. write'.step = "delete"
      BY <2>5, <2>7 DEF AfterLookup, rest
    <3> QED BY <1>4, <1>8, <2>1, <2>5, <2>7, <3>1, ReorgLookupFacts DEF ReorgLookup, Inserting
  <2>8. CASE rest # <<>>
    <3>1. write'.step = "canon"
      BY <2>5, <2>8 DEF AfterLookup, rest
    <3>2. Len(rest) \in 1..n
      BY <2>2, <2>3, <2>8
    <3>3. TodoOK'
      BY <2>5, <2>6, <3>2 DEF TodoOK, n
    <3> QED BY <1>4, <1>8, <2>1, <2>5, <3>1, <3>3, ReorgLookupFacts DEF ReorgLookup, Inserting
  <2> QED BY <2>7, <2>8
<1>9. CASE ReorgDelete
  <2>1. write.wins /\ write.todo = <<>> /\ ~write.batched
    BY <1>9, ReorgDeleteFacts DEF WriteOK, Inserting
  <2> QED BY <1>4, <1>9, <2>1, ReorgDeleteFacts DEF ReorgDelete, Inserting
<1>10. CASE WriteBatch
  <2>1. CASE ~write.wins /\ Return(FALSE)
    BY <1>1, <1>10, <2>1, WriteBatchFacts, ReturnFacts
  <2>2. CASE write.wins
    <3>1. write'.block = write.block /\ write'.todo = <<write.block>> /\ write.block \in Blocks
      BY <1>10, <2>2, WriteBatchFacts DEF WriteType
    <3>2. Len(Line[write.block]) \in Nat /\ Len(Line[write.block]) >= 1
          /\ Line[write.block][Len(Line[write.block])] = write.block
      BY <3>1, LineFacts
    <3>3. Len(<<write.block>>) = 1 /\ <<write.block>>[1] = write.block
      OBVIOUS
    <3>4. 1 \in 1..Len(Line[write.block]) /\ \A i \in 1..1 : i = 1
          /\ Len(Line[write.block]) - 1 + 1 = Len(Line[write.block])
      BY <3>2
    <3>5. TodoOK'
      BY <3>1, <3>2, <3>3, <3>4 DEF TodoOK
    <3> QED BY <1>4, <1>10, <2>2, <3>1, <3>5, WriteBatchFacts DEF WriteBatch, Inserting
  <2> QED BY <1>10, <2>1, <2>2 DEF WriteBatch
<1>11. ASSUME NEW chain \in Imports, InsertChain(chain) PROVE WriteOK'
  <2>1. Len(frames') = 1 /\ frames'[1] = Frame(chain) /\ frames = <<>>
    BY <1>11 DEF InsertChain
  <2>2. Frame(chain).chain = chain /\ \A j \in 1..Len(chain) : chain[j] \notin Own
    BY ImportsFacts
  <2>3. write # NoWrite => write.by = "miner" /\ write.block \in Own
    BY <2>1 DEF WriteOK, Types, WriteType
  <2>4. \A i \in 1..1 : i = 1
    OBVIOUS
  <2> QED BY <1>3, <1>11, <2>1, <2>2, <2>3, <2>4 DEF InsertChain
\* The running call changes, but not its batch.
<1>12. ASSUME frames # <<>>, NEW f \in FrameType, frames' = SetTop(f), f.chain = Top.chain,
              write = NoWrite \/ write.by # "importer", write' = write,
              db.blocks \subseteq db'.blocks, db'.states = db.states, cache' = cache
       PROVE  WriteOK'
  <2>1. write # NoWrite => write.by = "miner"
    BY <1>12 DEF Types, WriteType
  <2>2. Len(frames') = Len(frames) /\ Len(frames) \in Nat \ {0}
    BY <1>12, SetTopFacts, TopFacts
  <2>3. \A i \in 1..Len(frames') : frames'[i].chain = frames[i].chain
    <3>1. TAKE i \in 1..Len(frames')
    <3>2. CASE i = Len(frames)
      BY <1>12, <3>2, SetTopFacts DEF Top
    <3>3. CASE i # Len(frames)
      <4>1. i \in 1..(Len(frames) - 1)
        BY <2>2, <3>3
      <4> QED BY <1>12, <4>1, SetTopFacts
    <3> QED BY <3>2, <3>3
  <2> QED BY <1>3, <1>12, <2>1, <2>2, <2>3 DEF WriteOK
<1>13. CASE SkipKnown
  <2>1. Importing("next") /\ frames' = SetTop([Top EXCEPT !.at = @ + 1])
    BY <1>13 DEF SkipKnown
  <2>2. PICK f \in FrameType : frames # <<>> /\ frames' = SetTop(f) /\ f.chain = Top.chain
    BY <2>1, SkipFacts
  <2> QED BY <1>12, <1>13, <2>1, <2>2 DEF SkipKnown, Importing
<1>14. CASE Accept
  <2>1. PICK f \in FrameType : frames # <<>> /\ frames' = SetTop(f) /\ f.chain = Top.chain
    BY <1>14, ProcessFrame DEF Accept, Importing
  <2> QED BY <1>12, <1>14, <2>1 DEF Accept, Importing
<1>15. CASE WriteBlockWithoutState
  <2>1. Importing("next") /\ frames' = SetTop([Top EXCEPT !.at = @ + 1])
    BY <1>15 DEF WriteBlockWithoutState, PrunedAncestor
  <2>2. PICK f \in FrameType : frames # <<>> /\ frames' = SetTop(f) /\ f.chain = Top.chain
    BY <2>1, SkipFacts
  <2>3. db.blocks \subseteq db'.blocks /\ db'.states = db.states
    BY <1>15 DEF WriteBlockWithoutState, Types, DbType
  <2> QED BY <1>12, <1>15, <2>1, <2>2, <2>3 DEF WriteBlockWithoutState, Importing
<1>16. CASE ImportWinner
  <2> DEFINE n == Len(frames)
             f == [Top EXCEPT !.doing = "process"]
  <2>1. PICK chain \in Seq(Blocks) :
            /\ frames' = Append(SetTop(f), Frame(chain))
            /\ \A j \in 1..Len(chain) :
                chain[j] # Genesis /\ chain[j] \in db.blocks /\ ~HasState(chain[j])
    BY <1>16, ImportWinnerFacts
  <2>2. frames # <<>> /\ (write = NoWrite \/ write.by # "importer")
        /\ Top.at <= Len(Top.chain)
    BY <1>16 DEF ImportWinner, PrunedAncestor, Importing
  <2>3. f \in FrameType /\ f.chain = Top.chain
    BY <2>2, ProcessFrame
  <2>4. Frame(chain) \in FrameType /\ Frame(chain).chain = chain
    BY <2>1, NewFrame
  <2>5. n \in Nat \ {0} /\ frames \in Seq(FrameType)
    BY <2>2, TopFacts DEF Types
  <2> HIDE DEF f
  <2>6. SetTop(f) \in Seq(FrameType) /\ Len(SetTop(f)) = n
        /\ \A i \in 1..n : SetTop(f)[i].chain = frames[i].chain
    BY <2>2, <2>3, <2>5 DEF SetTop, Top
  <2>7. Len(frames') = n + 1 /\ frames'[n + 1] = Frame(chain)
        /\ \A i \in 1..n : frames'[i] = SetTop(f)[i]
    BY <2>1, <2>4, <2>6, PushFacts
  <2>8. write # NoWrite => write.by = "miner" /\ HasState(write.block)
    BY <2>2 DEF WriteOK, Types, WriteType
  <2>9. ASSUME write # NoWrite, NEW i \in 1..Len(frames'), NEW j \in 1..Len(frames'[i].chain)
        PROVE  frames'[i].chain[j] # write.block
    <3>1. CASE i = n + 1
      BY <2>1, <2>4, <2>7, <2>8, <2>9, <3>1
    <3>2. CASE i # n + 1
      <4>1. i \in 1..n
        BY <2>5, <2>7, <3>2
      <4> QED BY <2>6, <2>7, <2>8, <2>9, <4>1 DEF WriteOK
    <3> QED BY <3>1, <3>2
  <2> QED BY <1>3, <1>16, <2>8, <2>9 DEF ImportWinner
<1>17. CASE Process
  <2>1. frames # <<>> /\ Top.doing = "process" /\ Top.at <= Len(Top.chain) /\ write = NoWrite
        /\ HasState(Parent(Block)) /\ WriteBlock("importer", Block)
    BY <1>17 DEF Process, Importing, WriteBlock
  <2>2. Block \in Blocks \ {Genesis} /\ Block = At(Top) /\ Len(frames) \in 1..Len(frames)
    BY <2>1, TopFacts
  <2>3. Block # current
    BY <2>1, <2>2 DEF NotTheHead, FinalHead, Top
  <2>4. HasBlockAndState(Parent(Block))
    BY <2>1 DEF HasBlockAndState, HasState, Stored
  <2> QED BY <1>5, <1>17, <2>1, <2>2, <2>3, <2>4 DEF Process
<1>18. CASE ImportFails
  <2>1. frames' = <<>> /\ (write = NoWrite \/ write.by # "importer")
    BY <1>18 DEF ImportFails, Importing
  <2>2. write # NoWrite => write.by = "miner"
    BY <2>1 DEF Types, WriteType
  <2> QED BY <1>3, <1>18, <2>1, <2>2 DEF ImportFails
<1>19. CASE ImportEnds
  <2>1. frames # <<>> /\ Top.at > Len(Top.chain)
    BY <1>19 DEF ImportEnds
  <2>2. Top.doing # "process"
    BY <2>1, TopFacts DEF FrameOK, FrameType
  <2>3. write # NoWrite => write.by = "miner"
    BY <2>2 DEF WriteOK, Types, WriteType
  <2>4. \A i \in 1..Len(frames') : i \in 1..Len(frames) /\ frames'[i].chain = frames[i].chain
    BY <1>19, ImportEndsFacts, TopFacts
  <2> QED BY <1>3, <1>19, <2>3, <2>4 DEF ImportEnds, WriteOK
<1>20. ASSUME NEW b \in pending, PostHeadEvent(b) PROVE WriteOK'
  BY <1>2, <1>20 DEF PostHeadEvent
<1>21. ASSUME NEW b \in Own, CommitNewWork(b) PROVE WriteOK'
  BY <1>2, <1>21 DEF CommitNewWork
<1>22. ASSUME NEW b \in Own, Sealed(b) PROVE WriteOK'
  <2>1. b \in Blocks \ {Genesis} /\ b \notin db.blocks /\ HasBlockAndState(Parent(b))
        /\ b # current
    BY <1>22, TreeAssumption DEF Sealed, Stored
  <2>2. \A i \in 1..Len(frames) : \A j \in 1..Len(frames[i].chain) : frames[i].chain[j] # b
    BY <2>1 DEF Nested, FrameOK
  <2> QED BY <1>5, <1>22, <2>1, <2>2 DEF Sealed
<1>23. CASE Stop
  BY <1>1, <1>23 DEF Stop
<1>24. CASE Restart
  BY <1>1, <1>24 DEF Restart, LoadLastState
<1>25. CASE UNCHANGED vars
  BY <1>2, <1>25 DEF vars
<1> QED BY <1>6, <1>7, <1>8, <1>9, <1>10, <1>11, <1>13, <1>14, <1>15, <1>16, <1>17, <1>18,
           <1>19, <1>20, <1>21, <1>22, <1>23, <1>24, <1>25
        DEF Next, WriteStep, ImportStep

-----------------------------------------------------------------------------
(* NotTheHead. *)

\* Inside WriteBlockWithState it is settled what the head will be.
LEMMA FinalHeadSettled ==
    ASSUME Types, WriteOK, WriteStep PROVE FinalHead' = FinalHead
<1>1. CASE InsertCanon
  BY <1>1, InsertCanonFacts DEF FinalHead, WriteOK, InsertCanon
<1>2. CASE InsertHead
  <2>1. write # NoWrite /\ write.wins /\ current' = Head(write.todo)
    BY <1>2, InsertHeadFacts DEF WriteOK
  <2>2. CASE write.batched /\ Return(TRUE)
    <3>1. write' = NoWrite
      BY <2>2 DEF Return
    <3>2. write.todo = <<write.block>>
      BY <2>1, <2>2 DEF WriteOK
    <3>3. current' = write.block
      BY <2>1, <3>2
    <3> QED BY <2>1, <3>1, <3>3 DEF FinalHead
  <2>3. CASE ~write.batched
    BY <1>2, <2>1, <2>3, InsertHeadFacts DEF FinalHead
  <2> QED BY <1>2, <2>2, <2>3, InsertHeadFacts
<1>3. CASE ReorgLookup
  BY <1>3, ReorgLookupFacts DEF FinalHead, WriteOK
<1>4. CASE ReorgDelete
  BY <1>4, ReorgDeleteFacts DEF FinalHead, WriteOK
<1>5. CASE WriteBatch
  BY <1>5, WriteBatchFacts DEF FinalHead, WriteBatch, Return
<1> QED BY <1>1, <1>2, <1>3, <1>4, <1>5 DEF WriteStep

\* While the miner writes, or nobody does, the importer is not at the head.
LEMMA NobodyWritesTheHead ==
    ASSUME StructInv, write = NoWrite \/ write.by # "importer",
           NEW i \in 1..Len(frames), frames[i].doing = "process"
    PROVE  At(frames[i]) # FinalHead
BY DEF StructInv, NotTheHead

\* A batch that is about to process its block is at a block of its own.
LEMMA AtFacts ==
    ASSUME Types, Nested, NEW i \in 1..Len(frames), frames[i].doing = "process"
    PROVE  /\ At(frames[i]) \in Blocks
           /\ \E j \in 1..Len(frames[i].chain) : frames[i].chain[j] = At(frames[i])
<1>1. frames[i] \in FrameType /\ FrameOK(frames[i], db.blocks)
  BY DEF Types, Nested
<1>2. frames[i].at \in 1..Len(frames[i].chain) /\ frames[i].chain \in Seq(Blocks)
  BY <1>1 DEF FrameOK, FrameType
<1> QED BY <1>2 DEF At

LEMMA NotTheHeadStep ==
    ASSUME StructInv, HeadOK, [Next]_vars
    PROVE  NotTheHead'
<1> USE DEF StructInv
<1>1. ASSUME FinalHead' = FinalHead, frames' = frames,
             write # NoWrite /\ write.by = "importer" => write' # NoWrite /\ write'.by = "importer"
      PROVE  NotTheHead'
  BY <1>1 DEF NotTheHead, At
\* The running call is done with its block, or was not processing one.
<1>2. ASSUME FinalHead' = FinalHead, frames # <<>>, NEW f \in FrameType, frames' = SetTop(f),
             f.doing = "process" => At(f) # FinalHead
      PROVE  NotTheHead'
  <2>1. /\ Len(frames') = Len(frames) /\ Len(frames) \in Nat \ {0} /\ frames'[Len(frames)] = f
        /\ \A i \in 1..(Len(frames) - 1) : frames'[i] = frames[i]
    BY <1>2, SetTopFacts, TopFacts
  <2>2. ASSUME NEW i \in 1..Len(frames), frames'[i].doing = "process"
        PROVE  At(frames'[i]) # FinalHead
    <3>1. CASE i = Len(frames)
      BY <1>2, <2>1, <2>2, <3>1
    <3>2. CASE i # Len(frames)
      <4>1. i \in 1..(Len(frames) - 1)
        BY <2>1, <3>2
      <4> QED BY <2>1, <2>2, <3>2, <4>1 DEF NotTheHead
    <3> QED BY <3>1, <3>2
  <2> QED BY <1>2, <2>1, <2>2 DEF NotTheHead, At
<1>3. ASSUME FinalHead' = FinalHead, write # NoWrite, NEW won \in BOOLEAN, Return(won)
      PROVE  NotTheHead'
  <2>1. CASE write.by = "miner" /\ frames' = frames
    BY <1>1, <1>3, <2>1
  <2>2. CASE write.by = "importer"
    <3>1. PICK f \in FrameType : frames # <<>> /\ frames' = SetTop(f) /\ f.doing = "next"
      BY <1>3, <2>2, ReturnFrames
    <3> QED BY <1>2, <1>3, <3>1
  <2> QED BY <1>3, <2>1, <2>2, ReturnFrames
\* A block that has no state, or is above the head, is not the head.
<1>4. ASSUME Importing("next"), ~HasBlockAndState(Block) \/ Number(current) < Number(Block)
      PROVE  Block # FinalHead
  <2>1. frames # <<>> /\ Top.at <= Len(Top.chain) /\ (write = NoWrite \/ write.by # "importer")
    BY <1>4 DEF Importing
  <2>2. Top.at \in 1..Len(Top.chain) /\ Block \in Blocks /\ Len(frames) \in 1..Len(frames)
    BY <2>1, TopFacts DEF FrameOK
  <2>3. CASE write # NoWrite /\ write.wins
    <3>1. write.by = "miner"
      BY <2>1, <2>3 DEF Types, WriteType
    <3> QED BY <2>2, <2>3, <3>1 DEF WriteOK, FinalHead, Block, Top
  <2>4. CASE ~(write # NoWrite /\ write.wins)
    <3>1. HasBlockAndState(current)
      BY <2>4 DEF HeadOK, Stored, HasBlockAndState
    <3>2. Number(Block) \in Nat
      BY <2>2, AncSelf
    <3>3. Block # current
      BY <1>4, <3>1, <3>2
    <3> QED BY <2>4, <3>3 DEF FinalHead
  <2> QED BY <2>3, <2>4
<1>5. CASE InsertCanon
  <2>1. FinalHead' = FinalHead
    BY <1>5, FinalHeadSettled DEF WriteStep
  <2> QED BY <1>1, <1>5, <2>1, InsertCanonFacts DEF InsertCanon
<1>6. CASE InsertHead
  <2>1. FinalHead' = FinalHead
    BY <1>6, FinalHeadSettled DEF WriteStep
  <2> QED BY <1>1, <1>3, <1>6, <2>1, InsertHeadFacts
<1>7. CASE ReorgLookup
  <2>1. FinalHead' = FinalHead
    BY <1>7, FinalHeadSettled DEF WriteStep
  <2> QED BY <1>1, <1>7, <2>1, ReorgLookupFacts DEF ReorgLookup
<1>8. CASE ReorgDelete
  <2>1. FinalHead' = FinalHead
    BY <1>8, FinalHeadSettled DEF WriteStep
  <2> QED BY <1>1, <1>8, <2>1, ReorgDeleteFacts DEF ReorgDelete
<1>9. CASE WriteBatch
  <2>1. FinalHead' = FinalHead
    BY <1>9, FinalHeadSettled DEF WriteStep
  <2> QED BY <1>1, <1>3, <1>9, <2>1, WriteBatchFacts
<1>10. ASSUME NEW chain \in Imports, InsertChain(chain) PROVE NotTheHead'
  <2>1. Len(frames') = 1 /\ frames'[1] = Frame(chain) /\ Frame(chain).doing = "next"
    BY <1>10, ImportsFacts DEF InsertChain
  <2>2. \A i \in 1..1 : i = 1
    OBVIOUS
  <2> QED BY <2>1, <2>2 DEF NotTheHead
<1>11. CASE SkipKnown
  <2>1. Importing("next") /\ frames' = SetTop([Top EXCEPT !.at = @ + 1])
        /\ write' = write /\ current' = current
    BY <1>11 DEF SkipKnown
  <2>2. PICK f \in FrameType : frames # <<>> /\ frames' = SetTop(f) /\ f.doing = "next"
    BY <2>1, SkipFacts
  <2> QED BY <1>2, <2>1, <2>2 DEF FinalHead
<1>12. CASE Accept
  <2> DEFINE f == [Top EXCEPT !.doing = "process"]
  <2>1. frames # <<>> /\ Top.at <= Len(Top.chain) /\ Importing("next")
    BY <1>12 DEF Accept, Importing
  <2>2. f \in FrameType /\ At(f) = Block
    BY <2>1, ProcessFrame DEF At, Block
  <2>3. Block # FinalHead
    BY <1>4, <1>12, <2>1 DEF Accept
  <2>4. frames' = SetTop(f) /\ FinalHead' = FinalHead
    BY <1>12 DEF Accept, FinalHead
  <2> HIDE DEF f
  <2> QED BY <1>2, <2>1, <2>2, <2>3, <2>4
<1>13. CASE WriteBlockWithoutState
  <2>1. Importing("next") /\ frames' = SetTop([Top EXCEPT !.at = @ + 1])
        /\ write' = write /\ current' = current
    BY <1>13 DEF WriteBlockWithoutState, PrunedAncestor
  <2>2. PICK f \in FrameType : frames # <<>> /\ frames' = SetTop(f) /\ f.doing = "next"
    BY <2>1, SkipFacts
  <2> QED BY <1>2, <2>1, <2>2 DEF FinalHead
<1>14. CASE ImportWinner
  <2> DEFINE n == Len(frames)
             f == [Top EXCEPT !.doing = "process"]
  <2>1. PICK chain \in Seq(Blocks) :
            /\ frames' = Append(SetTop(f), Frame(chain))
            /\ \A j \in 1..Len(chain) : chain[j] # Genesis /\ chain[j] \in db.blocks
    BY <1>14, ImportWinnerFacts
  <2>2. frames # <<>> /\ (write = NoWrite \/ write.by # "importer")
        /\ Top.at <= Len(Top.chain) /\ Importing("next") /\ ~HasBlockAndState(Block)
    BY <1>14 DEF ImportWinner, PrunedAncestor, Importing
  <2>3. f \in FrameType /\ At(f) = Block
    BY <2>2, ProcessFrame DEF At, Block
  <2>4. Frame(chain) \in FrameType /\ Frame(chain).doing = "next"
    BY <2>1, NewFrame
  <2>5. n \in Nat \ {0} /\ frames \in Seq(FrameType)
    BY <2>2, TopFacts DEF Types
  <2>6. Block # FinalHead
    BY <1>4, <2>2
  <2> HIDE DEF f
  <2>7. SetTop(f) \in Seq(FrameType) /\ Len(SetTop(f)) = n /\ SetTop(f)[n] = f
        /\ \A i \in 1..(n - 1) : SetTop(f)[i] = frames[i]
    BY <2>2, <2>3, <2>5 DEF SetTop, Top
  <2>8. Len(frames') = n + 1 /\ frames'[n + 1] = Frame(chain)
        /\ \A i \in 1..n : frames'[i] = SetTop(f)[i]
    BY <2>1, <2>4, <2>7, PushFacts
  <2>9. ASSUME NEW i \in 1..Len(frames'), frames'[i].doing = "process"
        PROVE  At(frames'[i]) # FinalHead
    <3>1. CASE i = n + 1
      BY <2>4, <2>8, <2>9, <3>1
    <3>2. CASE i = n
      <4>1. frames'[i] = f
        BY <2>5, <2>7, <2>8, <3>2
      <4> QED BY <2>3, <2>6, <4>1
    <3>3. CASE i # n /\ i # n + 1
      <4>1. i \in 1..(n - 1) /\ i \in 1..n
        BY <2>5, <2>8, <3>3
      <4>2. frames'[i] = frames[i]
        BY <2>7, <2>8, <4>1
      <4> QED BY <2>2, <2>9, <4>1, <4>2, NobodyWritesTheHead
    <3> QED BY <3>1, <3>2, <3>3
  <2>10. FinalHead' = FinalHead
    BY <1>14 DEF ImportWinner, FinalHead
  <2> QED BY <2>9, <2>10 DEF NotTheHead, At
<1>15. CASE Process
  <2>1. frames # <<>> /\ Top.doing = "process" /\ Top.at <= Len(Top.chain) /\ write = NoWrite
        /\ WriteBlock("importer", Block) /\ frames' = frames /\ current' = current
    BY <1>15 DEF Process, Importing, WriteBlock
  <2>2. Block \in Blocks \ {Genesis} /\ Block = At(Top) /\ Len(frames) \in 1..Len(frames)
        /\ Len(frames) \in Nat /\ Top.at \in 1..Len(Top.chain)
    BY <2>1, TopFacts DEF FrameOK
  <2>3. write' # NoWrite /\ write'.by = "importer" /\ write'.block = Block
    BY <2>1, <2>2, WriteBlockFacts
  <2>4. ASSUME NEW i \in 1..Len(frames), frames[i].doing = "process", i # Len(frames)
        PROVE  At(frames[i]) # current /\ At(frames[i]) # Block
    <3>1. i < Len(frames)
      BY <2>2, <2>4
    <3>2. Block # At(frames[i])
      BY <2>2, <3>1 DEF Nested, Block, Top
    <3>3. FinalHead = current
      BY <2>1 DEF FinalHead
    <3> QED BY <2>1, <2>4, <3>2, <3>3, NobodyWritesTheHead
  <2>5. FinalHead' \in {current, Block}
    BY <2>1, <2>3 DEF FinalHead
  <2> QED BY <2>1, <2>3, <2>4, <2>5 DEF NotTheHead, At
<1>16. CASE ImportFails
  BY <1>16 DEF ImportFails, NotTheHead
<1>17. CASE ImportEnds
  <2>1. frames # <<>> /\ Top.at > Len(Top.chain)
    BY <1>17 DEF ImportEnds
  <2>2. Top.doing # "process"
    BY <2>1, TopFacts DEF FrameOK, FrameType
  <2>3. write = NoWrite \/ write.by # "importer"
    BY <2>2 DEF WriteOK
  <2>4. \A i \in 1..Len(frames') : /\ i \in 1..Len(frames) /\ At(frames'[i]) = At(frames[i])
                                  /\ frames'[i].doing = frames[i].doing
    <3>1. TAKE i \in 1..Len(frames')
    <3>2. frames' # <<>>
      OBVIOUS
    <3>3. i \in 1..(Len(frames) - 1) /\ Len(frames) \in Nat
      BY <1>17, <2>1, <3>2, ImportEndsFacts, TopFacts
    <3>4. frames'[i].chain = frames[i].chain /\ frames'[i].at = frames[i].at
          /\ frames'[i].doing = frames[i].doing
      BY <1>17, <3>2, <3>3, ImportEndsFacts
    <3> QED BY <3>3, <3>4 DEF At
  <2>5. FinalHead' = FinalHead
    BY <1>17 DEF ImportEnds, FinalHead
  <2>6. \A i \in 1..Len(frames') : frames'[i].doing = "process" => At(frames'[i]) # FinalHead
    BY <2>3, <2>4, NobodyWritesTheHead
  <2> QED BY <2>5, <2>6 DEF NotTheHead, At
<1>18. ASSUME NEW b \in pending, PostHeadEvent(b) PROVE NotTheHead'
  BY <1>1, <1>18 DEF PostHeadEvent, FinalHead
<1>19. ASSUME NEW b \in Own, CommitNewWork(b) PROVE NotTheHead'
  BY <1>1, <1>19 DEF CommitNewWork, FinalHead
<1>20. ASSUME NEW b \in Own, Sealed(b) PROVE NotTheHead'
  <2>1. b \in Blocks \ {Genesis} /\ b \notin db.blocks /\ WriteBlock("miner", b) /\ write = NoWrite
        /\ frames' = frames /\ current' = current
    BY <1>20, TreeAssumption DEF Sealed, Stored, WriteBlock
  <2>2. write' # NoWrite /\ write'.block = b
    BY <2>1, WriteBlockFacts
  <2>3. ASSUME NEW i \in 1..Len(frames), frames[i].doing = "process"
        PROVE  At(frames[i]) # b /\ At(frames[i]) # current
    <3>1. At(frames[i]) # b
      BY <2>1, <2>3, AtFacts DEF Nested, FrameOK
    <3>2. FinalHead = current
      BY <2>1 DEF FinalHead
    <3> QED BY <2>1, <2>3, <3>1, <3>2, NobodyWritesTheHead
  <2>4. FinalHead' \in {current, b}
    BY <2>1, <2>2 DEF FinalHead
  <2> QED BY <2>1, <2>3, <2>4 DEF NotTheHead, At
<1>21. CASE Stop
  <2>1. frames' = <<>>
    BY <1>21 DEF Stop
  <2> QED BY <2>1 DEF NotTheHead
<1>22. CASE Restart
  BY <1>22 DEF Restart, LoadLastState, NotTheHead
<1>23. CASE UNCHANGED vars
  BY <1>1, <1>23 DEF vars, FinalHead
<1> QED BY <1>5, <1>6, <1>7, <1>8, <1>9, <1>10, <1>11, <1>12, <1>13, <1>14, <1>15, <1>16,
           <1>17, <1>18, <1>19, <1>20, <1>21, <1>22, <1>23
        DEF Next, WriteStep, ImportStep

-----------------------------------------------------------------------------
(* Linked. *)

\* A number up to that of an ancestor: both chains have the same block there.
LEMMA SameBelow ==
    ASSUME NEW a \in Blocks, NEW b \in Blocks, Anc(a, b), NEW n \in 0..Number(a)
    PROVE  Line[a][n + 1] = Line[b][n + 1] /\ n \in 0..Number(b)
<1>1. n + 1 \in 1..Len(Line[a]) /\ Len(Line[a]) \in 1..Len(Line[b])
  BY NumbersBelow, AncFacts
<1>2. Number(a) \in Nat /\ Number(b) \in Nat /\ Len(Line[a]) = Number(a) + 1
      /\ Len(Line[b]) = Number(b) + 1
  BY AncSelf
<1> QED BY <1>1, <1>2, AncFacts

\* When nobody is between the two writes of insert, the number index is the head's.
LEMMA LinkedHead ==
    ASSUME Types, HeadOK, Linked, ~torn, write # NoWrite => write.step # "head",
           NEW n \in 0..Number(current)
    PROVE  db.canon[n] = Line[current][n + 1]
<1>1. db.head \in Blocks /\ current \in Blocks /\ Anc(current, db.head)
  BY DEF Types, DbType, HeadOK
<1>2. n \in 0..Number(db.head) /\ Line[current][n + 1] = Line[db.head][n + 1]
  BY <1>1, SameBelow
<1> QED BY <1>2 DEF Linked, Ahead

LEMMA LinkedStep ==
    ASSUME StructInv, HeadOK, Linked, [Next]_vars
    PROVE  Linked'
<1> USE DEF StructInv
<1>1. db \in DbType /\ db.head \in Blocks /\ current \in Blocks /\ Anc(current, db.head)
  BY DEF Types, DbType, HeadOK
\* Nothing that matters changes.
<1>2. ASSUME db'.canon = db.canon, db'.head = db.head, torn' = torn,
             write' = write
      PROVE  Linked'
  BY <1>2 DEF Linked, Ahead
\* The writer is not between the two writes of insert, before or after.
<1>3. ASSUME db'.canon = db.canon, db'.head = db.head, torn' = torn,
             write # NoWrite => write.step # "head",
             write' # NoWrite => write'.step # "head",
             ~torn /\ write' # NoWrite /\ write'.step = "canon" =>
                \A n \in 0..(Number(Head(write'.todo)) - 1) :
                    db.canon[n] = Line[Head(write'.todo)][n + 1]
      PROVE  Linked'
  BY <1>3 DEF Linked, Ahead
<1>4. CASE InsertCanon
  <2> DEFINE h == Head(write.todo)
             m == Number(h)
  <2>1. write # NoWrite /\ write.step = "canon" /\ Inserting /\ write' # NoWrite
        /\ write'.step = "head" /\ write'.todo = write.todo /\ db'.head = db.head
        /\ \A n \in Numbers : n # m => db'.canon[n] = db.canon[n]
    BY <1>4, InsertCanonFacts
  <2>2. h \in Blocks
    BY <2>1, TodoFacts
  <2>3. m \in Nat /\ \A n \in 0..(m - 1) : n \in Numbers /\ n # m
    BY <2>2, AncSelf, NumbersBelow
  <2>4. torn' = torn /\ h' = h
    BY <1>4, <2>1 DEF InsertCanon
  <2>5. \A n \in 0..Number(db.head) : n \in Numbers
    BY <1>1, NumbersBelow
  <2>6. ASSUME ~torn, NEW n \in 0..Number(db.head)
        PROVE  db'.canon[n] = Line[db.head][n + 1] \/ n = m
    BY <2>1, <2>5, <2>6 DEF Linked, Ahead
  <2>7. ASSUME ~torn, NEW n \in 0..(m - 1) PROVE db'.canon[n] = Line[h][n + 1]
    BY <2>1, <2>3, <2>7 DEF Linked
  <2> QED BY <2>1, <2>4, <2>6, <2>7 DEF Linked, Ahead
<1>5. CASE InsertHead
  <2> DEFINE h == Head(write.todo)
             m == Number(h)
  <2>1. /\ write # NoWrite /\ write.step = "head" /\ Inserting
        /\ db'.canon = db.canon /\ db'.head = h
        /\ write' # NoWrite => write'.step = "lookup"
    BY <1>5, InsertHeadFacts DEF Return
  <2>2. h \in Blocks /\ torn' = torn
    BY <1>5, <2>1, TodoFacts DEF InsertHead
  <2>3. m \in Nat /\ Len(Line[h]) = m + 1 /\ Line[h][m + 1] = h
    BY <2>2, AncSelf, LineFacts
  <2>4. db.canon[m] = h
    BY <2>1 DEF HeadOK
  <2>5. ASSUME ~torn, NEW n \in 0..m PROVE db.canon[n] = Line[h][n + 1]
    <3>1. CASE n = m
      BY <3>1, <2>3, <2>4
    <3>2. CASE n # m
      <4>1. n \in 0..(m - 1)
        BY <2>3, <3>2
      <4> QED BY <2>1, <2>5, <4>1 DEF Linked
    <3> QED BY <3>1, <3>2
  <2>6. write' # NoWrite => write'.step \notin {"canon", "head"}
    BY <2>1
  <2> QED BY <2>1, <2>2, <2>5, <2>6 DEF Linked
<1>6. CASE ReorgLookup
  <2> DEFINE h == Head(write.todo)
             g == Head(Tail(write.todo))
             n0 == Len(Line[write.block])
             k == Len(write.todo)
  <2>1. /\ write # NoWrite /\ write.step = "lookup" /\ Inserting
        /\ db'.canon = db.canon /\ db'.head = db.head
        /\ write'.todo = Tail(write.todo) /\ write'.step = AfterLookup(write.todo)
    BY <1>6, ReorgLookupFacts
  <2>2. h \in Blocks /\ torn' = torn /\ current = h /\ write.block \in Blocks
        /\ Anc(h, write.block) /\ Len(Line[h]) = n0 - k + 1 /\ k \in Nat \ {0} /\ k <= n0
        /\ Tail(write.todo) \in Seq(Blocks) /\ Len(Tail(write.todo)) = k - 1
        /\ \A i \in 1..Len(Tail(write.todo)) : Tail(write.todo)[i] = write.todo[i + 1]
    BY <1>6, <2>1, TodoFacts DEF ReorgLookup, HeadOK
  <2>3. write'.step \in {"canon", "delete"} /\ (write'.step = "canon" => Tail(write.todo) # <<>>)
    BY <2>1 DEF AfterLookup
  <2>4. ASSUME ~torn, Tail(write.todo) # <<>>, NEW n \in 0..(Number(g) - 1)
        PROVE  db.canon[n] = Line[g][n + 1]
    <3>1. n0 \in Nat /\ Len(Line[h]) \in Nat \ {0}
      BY <2>2, LineFacts
    <3>2. k >= 2 /\ g = write.todo[2] /\ 2 \in 1..k
      <4>1. Len(Tail(write.todo)) >= 1 /\ g = Tail(write.todo)[1]
        BY <2>2, <2>4
      <4>2. k >= 2
        BY <2>2, <4>1
      <4>3. 1 \in 1..Len(Tail(write.todo)) /\ 1 + 1 = 2 /\ 2 \in 1..k
        BY <2>2, <4>1, <4>2
      <4> QED BY <2>2, <4>1, <4>2, <4>3
    <3>3. g = Line[write.block][n0 - k + 2]
      BY <2>1, <3>2 DEF WriteOK, TodoOK
    <3>4. n0 - k + 2 \in 1..n0 /\ n0 - k + 2 = Len(Line[h]) + 1
      <4> HIDE DEF n0, k
      <4> QED BY <2>2, <3>1, <3>2
    <3> HIDE DEF g, h, n0, k
    <3>5. g \in Blocks /\ Len(Line[g]) = n0 - k + 2 /\ Anc(g, write.block)
      <4>1. n0 = Len(Line[write.block])
        BY DEF n0
      <4> QED BY <2>2, <3>3, <3>4, <4>1, AncOfLine
    <3>6. Number(g) = Number(h) + 1 /\ Number(h) \in Nat
      BY <2>2, <3>1, <3>4, <3>5, AncSelf DEF Number
    <3>7. n \in 0..Number(h) /\ n \in 0..Number(g)
      BY <2>4, <3>6
    <3>8. Line[h][n + 1] = Line[write.block][n + 1] /\ Line[g][n + 1] = Line[write.block][n + 1]
      BY <2>2, <3>5, <3>7, SameBelow
    <3>9. db.canon[n] = Line[h][n + 1]
      BY <2>1, <2>2, <2>4, <3>7, LinkedHead
    <3> QED BY <3>8, <3>9
  <2> QED BY <1>3, <2>1, <2>2, <2>3, <2>4
<1>7. CASE ReorgDelete
  BY <1>3, <1>7, ReorgDeleteFacts DEF ReorgDelete
<1>8. CASE WriteBatch
  <2>1. /\ write # NoWrite /\ write.step = "batch"
        /\ db'.canon = db.canon /\ db'.head = db.head /\ torn' = torn
    BY <1>8, WriteBatchFacts DEF WriteBatch
  <2>2. CASE ~write.wins
    BY <1>3, <1>8, <2>1, <2>2, WriteBatchFacts DEF Return
  <2>3. CASE write.wins
    <3> DEFINE b == write.block
    <3>1. write'.todo = <<b>> /\ write'.step = "canon" /\ Head(<<b>>) = b
      BY <1>8, <2>3, WriteBatchFacts
    <3>2. b \in Blocks \ {Genesis} /\ (current = b \/ current = Parent(b))
      BY <2>1, <2>3 DEF WriteOK, HeadOK, Types, WriteType
    <3>3. ASSUME ~torn, NEW n \in 0..(Number(b) - 1) PROVE db.canon[n] = Line[b][n + 1]
      <4>1. Anc(current, b) /\ n \in 0..Number(current)
        <5>1. Anc(b, b) /\ Anc(Parent(b), b) /\ Number(Parent(b)) + 1 = Number(b)
              /\ Number(b) \in Nat /\ Number(Parent(b)) \in Nat
          BY <3>2, AncSelf, AncParent, ParentFacts
        <5> QED BY <3>2, <5>1
      <4>2. db.canon[n] = Line[current][n + 1]
        BY <2>1, <3>3, <4>1, LinkedHead
      <4> QED BY <1>1, <3>2, <4>1, <4>2, SameBelow
    <3> QED BY <1>3, <2>1, <3>1, <3>3
  <2> QED BY <2>2, <2>3
\* A writer starts.
<1>9. ASSUME NEW by \in {"miner", "importer"}, NEW b \in Blocks \ {Genesis}, WriteBlock(by, b),
             b # current, torn' = torn
      PROVE  Linked'
  <2>1. write = NoWrite /\ db'.canon = db.canon /\ db'.head = db.head /\ write'.block = b
        /\ write' \in WriteType /\ write'.step \in {"canon", "batch"}
        /\ (write'.step = "canon" => write'.todo = NewChain(current, b))
    BY <1>9, WriteBlockFacts
  <2>2. ASSUME ~torn, write'.step = "canon", NEW n \in 0..(Number(Head(write'.todo)) - 1)
        PROVE  db.canon[n] = Line[Head(write'.todo)][n + 1]
    <3> DEFINE k == CommonBlock(current, b)
               h == Head(write'.todo)
               todo == NewChain(current, b)
    <3>1. ~Anc(b, current)
      BY <1>9, <2>2, WriteStarts
    <3>2. /\ k \in 1..(Len(Line[b]) - 1) /\ todo \in Seq(Blocks) /\ Len(todo) = Len(Line[b]) - k
          /\ \A i \in 1..Len(todo) : todo[i] = Line[b][k + i]
      BY <1>1, <3>1, NewChainFacts
    <3>3. k \in 1..Len(Line[current]) /\ \A j \in 1..k : Line[current][j] = Line[b][j]
      BY <1>1, CommonBlockFacts
    <3>4. Len(Line[b]) \in Nat
      BY LineFacts
    <3>5. h = todo[1] /\ 1 \in 1..Len(todo)
      <4>1. h = Head(todo)
        BY <2>1, <2>2
      <4> HIDE DEF todo, h, k
      <4> QED BY <3>2, <3>4, <4>1
    <3>6. h = Line[b][k + 1] /\ k + 1 \in 1..Len(Line[b])
      <4> HIDE DEF todo, h, k
      <4> QED BY <3>2, <3>4, <3>5
    <3>7. h \in Blocks /\ Len(Line[h]) = k + 1 /\ Anc(h, b)
      <4> HIDE DEF todo, h, k
      <4>1. \A i \in 1..Len(Line[b]) :
                Line[b][i] \in Blocks /\ Len(Line[Line[b][i]]) = i /\ Anc(Line[b][i], b)
        BY AncOfLine
      <4> QED BY <3>6, <4>1
    <3>8. Number(h) = k /\ Number(current) = Len(Line[current]) - 1 /\ Number(current) \in Nat
      <4> HIDE DEF k, h
      <4>1. Number(h) \in Nat /\ Len(Line[h]) = Number(h) + 1
            /\ Number(current) \in Nat /\ Len(Line[current]) = Number(current) + 1
        BY <1>1, <3>7, AncSelf
      <4>2. Len(Line[b]) - 1 \in Nat /\ k \in Nat
        BY <3>2, <3>4
      <4> QED BY <3>7, <4>1, <4>2
    <3> HIDE DEF k, todo
    <3>9. n \in 0..(k - 1) /\ n \in 0..Number(h) /\ n + 1 \in 1..k /\ n \in 0..Number(current)
      BY <2>2, <3>2, <3>3, <3>4, <3>8
    <3>10. Line[h][n + 1] = Line[b][n + 1]
      BY <3>7, <3>9, SameBelow
    <3>11. db.canon[n] = Line[current][n + 1]
      BY <2>1, <2>2, <3>9, LinkedHead
    <3> QED BY <3>3, <3>9, <3>10, <3>11
  <2> QED BY <1>3, <1>9, <2>1, <2>2
<1>10. ASSUME NEW chain \in Imports, InsertChain(chain) PROVE Linked'
  BY <1>2, <1>10 DEF InsertChain
<1>11. CASE SkipKnown
  BY <1>2, <1>11 DEF SkipKnown
<1>12. CASE Accept
  BY <1>2, <1>12 DEF Accept
<1>13. CASE WriteBlockWithoutState
  <2>1. db'.canon = db.canon /\ db'.head = db.head
    BY <1>1, <1>13 DEF WriteBlockWithoutState, DbType
  <2> QED BY <1>2, <1>13, <2>1 DEF WriteBlockWithoutState
<1>14. CASE ImportWinner
  BY <1>2, <1>14 DEF ImportWinner
<1>15. CASE Process
  <2>1. frames # <<>> /\ Top.doing = "process" /\ Top.at <= Len(Top.chain) /\ write = NoWrite
    BY <1>15 DEF Process, Importing, WriteBlock
  <2>2. Block \in Blocks \ {Genesis} /\ Block = At(Top) /\ Len(frames) \in 1..Len(frames)
    BY <2>1, TopFacts
  <2>3. Block # current
    BY <2>1, <2>2 DEF NotTheHead, FinalHead, Top
  <2> QED BY <1>9, <1>15, <2>2, <2>3 DEF Process
<1>16. CASE ImportFails
  BY <1>2, <1>16 DEF ImportFails
<1>17. CASE ImportEnds
  BY <1>2, <1>17 DEF ImportEnds
<1>18. ASSUME NEW b \in pending, PostHeadEvent(b) PROVE Linked'
  BY <1>2, <1>18 DEF PostHeadEvent
<1>19. ASSUME NEW b \in Own, CommitNewWork(b) PROVE Linked'
  BY <1>2, <1>19 DEF CommitNewWork
<1>20. ASSUME NEW b \in Own, Sealed(b) PROVE Linked'
  <2>1. b \in Blocks \ {Genesis} /\ b # current
    BY <1>20, TreeAssumption DEF Sealed, Stored
  <2> QED BY <1>9, <1>20, <2>1 DEF Sealed
<1>21. CASE Stop
  <2>1. db'.canon = db.canon /\ db'.head = db.head /\ write' = NoWrite /\ write = NoWrite
        /\ torn' = torn
    BY <1>21, StopFacts
  <2> QED BY <1>3, <2>1
<1>22. CASE Restart
  <2>1. db' = db /\ write' = NoWrite
        /\ torn' = (torn \/ (/\ write # NoWrite /\ write.step = "head"
                             /\ Number(Head(write.todo)) <= Number(db.head)))
    BY <1>22 DEF Restart, LoadLastState
  <2>2. ASSUME ~torn', NEW n \in 0..Number(db.head) PROVE db.canon[n] = Line[db.head][n + 1]
    <3>1. ~torn /\ (write # NoWrite /\ write.step = "head" =>
                        ~(Number(Head(write.todo)) <= Number(db.head)))
      BY <2>1, <2>2
    <3>2. ~Ahead(n)
      BY <3>1, <1>1, AncSelf DEF Ahead
    <3> QED BY <3>1, <3>2 DEF Linked
  <2> QED BY <2>1, <2>2 DEF Linked
<1>23. CASE UNCHANGED vars
  BY <1>2, <1>23 DEF vars
<1> QED BY <1>4, <1>5, <1>6, <1>7, <1>8, <1>10, <1>11, <1>12, <1>13, <1>14, <1>15, <1>16,
           <1>17, <1>18, <1>19, <1>20, <1>21, <1>22, <1>23
        DEF Next, WriteStep, ImportStep

-----------------------------------------------------------------------------
(* HeadOK. *)

LEMMA HeadOKStep ==
    ASSUME StructInv, HeadOK, Linked, [Next]_vars
    PROVE  HeadOK'
<1> USE DEF StructInv
<1>1. db \in DbType /\ current \in Blocks /\ Anc(current, db.head)
  BY DEF Types, HeadOK
<1>2. ASSUME db'.canon = db.canon, db'.head = db.head, current' = current, write' = write,
             db.states \cup cache \subseteq db'.states \cup cache',
             unclean' = unclean, torn' = torn
      PROVE  HeadOK'
  BY <1>2 DEF HeadOK, HasState
<1>3. CASE InsertCanon
  <2>1. /\ write # NoWrite /\ write.step = "canon" /\ Inserting /\ write' # NoWrite
        /\ write'.step = "head" /\ write'.todo = write.todo /\ db'.head = db.head
        /\ db'.canon[Number(Head(write.todo))] = Head(write.todo)
        /\ write'.wins = write.wins
    BY <1>3, InsertCanonFacts
  <2>2. write.wins
    BY <2>1 DEF WriteOK
  <2>3. current' = current /\ unclean' = unclean /\ torn' = torn
    BY <1>3 DEF InsertCanon
  <2> QED BY <1>1, <2>1, <2>2, <2>3 DEF HeadOK
<1>4. CASE InsertHead
  <2>1. /\ write # NoWrite /\ Inserting /\ db'.head = current' /\ current' = Head(write.todo)
        /\ db'.states = db.states /\ cache' = cache /\ unclean' = unclean /\ torn' = torn
    BY <1>4, InsertHeadFacts DEF InsertHead
  <2>2. current' \in Blocks /\ Anc(current', current')
    BY <2>1, TodoFacts, AncSelf
  <2>3. write.wins
    BY <1>4, InsertHeadFacts DEF WriteOK
  <2>4. CASE write.batched /\ Return(TRUE)
    <3>1. write' = NoWrite /\ write.todo = <<write.block>> /\ HasState(write.block)
      BY <2>1, <2>4 DEF Return, WriteOK
    <3>2. current' = write.block
      BY <2>1, <3>1
    <3>3. HasState(current)'
      BY <2>1, <3>1, <3>2 DEF HasState
    <3> QED BY <2>1, <2>2, <3>1, <3>3 DEF HeadOK
  <2>5. CASE ~write.batched
    <3>1. write' # NoWrite /\ write'.step = "lookup" /\ write'.todo = write.todo /\ write'.wins
      BY <1>4, <2>3, <2>5, InsertHeadFacts
    <3> QED BY <2>1, <2>2, <3>1 DEF HeadOK
  <2> QED BY <1>4, <2>4, <2>5, InsertHeadFacts
<1>5. CASE ReorgLookup
  <2>1. /\ write # NoWrite /\ write.step = "lookup" /\ Inserting
        /\ db'.canon = db.canon /\ db'.head = db.head /\ db'.states = db.states
        /\ write'.todo = Tail(write.todo) /\ write'.step = AfterLookup(write.todo)
        /\ write' # NoWrite /\ write'.wins = write.wins /\ write'.block = write.block
    BY <1>5, ReorgLookupFacts
  <2>2. write.wins /\ current = Head(write.todo) /\ db.head = current
        /\ current' = current /\ cache' = cache /\ unclean' = unclean /\ torn' = torn
    BY <1>5, <2>1 DEF WriteOK, HeadOK, ReorgLookup
  <2>3. CASE Tail(write.todo) # <<>>
    <3>1. write'.step = "canon"
      BY <2>1, <2>3 DEF AfterLookup
    <3> QED BY <1>1, <2>1, <2>2, <3>1 DEF HeadOK
  <2>4. CASE Tail(write.todo) = <<>>
    <3>1. write'.step = "delete"
      BY <2>1, <2>4 DEF AfterLookup
    <3>2. Len(Tail(write.todo)) = 0
      <4>1. Len(<<>>) = 0
        OBVIOUS
      <4> QED BY <2>4, <4>1, Zenon
    <3>3. /\ write.block \in Blocks /\ Anc(current, write.block)
          /\ Len(write.todo) \in Nat /\ Len(Tail(write.todo)) = Len(write.todo) - 1
          /\ Len(Line[current]) = Len(Line[write.block]) - Len(write.todo) + 1
      BY <2>1, <2>2, TodoFacts
    <3>4. Len(Line[write.block]) \in Nat
      BY <3>3, LineFacts
    <3>5. ~(Len(Line[current]) < Len(Line[write.block]))
      <4> DEFINE n == Len(Line[write.block])
                 k == Len(write.todo)
                 c == Len(Line[current])
      <4>1. n \in Nat /\ k \in Nat /\ k - 1 = 0 /\ c = n - k + 1
        BY <3>2, <3>3, <3>4, Zenon
      <4> HIDE DEF n, k, c
      <4>2. ~(c < n)
        BY <4>1
      <4> QED BY <4>2 DEF n, c
    <3>6. current = write.block
      BY <1>1, <3>3, <3>5, AncFacts
    <3> QED BY <1>1, <2>1, <2>2, <3>1, <3>6 DEF HeadOK
  <2> QED BY <2>3, <2>4
<1>6. CASE ReorgDelete
  <2>1. /\ write # NoWrite /\ write.step = "delete" /\ db'.head = db.head
        /\ write' # NoWrite /\ write'.step = "batch" /\ write'.wins = write.wins
        /\ write'.block = write.block
    BY <1>6, ReorgDeleteFacts
  <2>2. write.wins /\ current = write.block /\ db.head = current
        /\ current' = current /\ cache' = cache /\ unclean' = unclean /\ torn' = torn
    BY <1>6, <2>1 DEF WriteOK, HeadOK, ReorgDelete
  <2> QED BY <1>1, <2>1, <2>2 DEF HeadOK
<1>7. CASE WriteBatch
  <2>1. /\ write # NoWrite /\ write.step = "batch" /\ db'.head = db.head /\ db'.states = db.states
        /\ current' = current /\ cache' = cache /\ unclean' = unclean /\ torn' = torn
    BY <1>7, WriteBatchFacts DEF WriteBatch
  <2>2. CASE ~write.wins /\ Return(FALSE)
    <3>1. write' = NoWrite
      BY <2>2 DEF Return
    <3> QED BY <1>1, <2>1, <2>2, <3>1 DEF HeadOK, HasState
  <2>3. CASE write.wins
    <3>1. write' # NoWrite /\ write'.step = "canon" /\ write'.wins
      BY <1>7, <2>3, WriteBatchFacts
    <3> QED BY <1>1, <2>1, <3>1 DEF HeadOK
  <2> QED BY <1>7, <2>2, <2>3, WriteBatchFacts
<1>8. ASSUME NEW by \in {"miner", "importer"}, NEW b \in Blocks \ {Genesis}, WriteBlock(by, b),
             current' = current, unclean' = unclean, torn' = torn
      PROVE  HeadOK'
  <2>1. /\ write = NoWrite /\ write' # NoWrite /\ write'.block = b
        /\ \/ write'.step = "canon" /\ write'.wins
           \/ write'.step = "batch" /\ (write'.wins => Parent(b) = current)
        /\ db'.head = db.head
        /\ db'.states \cup cache' = db.states \cup cache \cup {b}
    BY <1>8, WriteBlockFacts
  <2>2. HasState(current)'
    BY <1>8, <2>1 DEF HeadOK, HasState
  <2>3. CASE write'.step = "canon" /\ write'.wins
    BY <1>1, <1>8, <2>1, <2>2, <2>3 DEF HeadOK
  <2>4. CASE write'.step = "batch" /\ (write'.wins => Parent(b) = current)
    BY <1>1, <1>8, <2>1, <2>2, <2>4 DEF HeadOK
  <2> QED BY <2>1, <2>3, <2>4
<1>9. ASSUME NEW chain \in Imports, InsertChain(chain) PROVE HeadOK'
  BY <1>2, <1>9 DEF InsertChain
<1>10. CASE SkipKnown
  BY <1>2, <1>10 DEF SkipKnown
<1>11. CASE Accept
  BY <1>2, <1>11 DEF Accept
<1>12. CASE WriteBlockWithoutState
  <2>1. db'.canon = db.canon /\ db'.head = db.head /\ db'.states = db.states
    BY <1>1, <1>12 DEF WriteBlockWithoutState, DbType
  <2> QED BY <1>2, <1>12, <2>1 DEF WriteBlockWithoutState
<1>13. CASE ImportWinner
  BY <1>2, <1>13 DEF ImportWinner
<1>14. CASE Process
  <2>1. Block \in Blocks \ {Genesis}
    BY <1>14, TopFacts DEF Process, Importing
  <2> QED BY <1>8, <1>14, <2>1 DEF Process
<1>15. CASE ImportFails
  BY <1>2, <1>15 DEF ImportFails
<1>16. CASE ImportEnds
  BY <1>2, <1>16 DEF ImportEnds
<1>17. ASSUME NEW b \in pending, PostHeadEvent(b) PROVE HeadOK'
  BY <1>2, <1>17 DEF PostHeadEvent
<1>18. ASSUME NEW b \in Own, CommitNewWork(b) PROVE HeadOK'
  BY <1>2, <1>18 DEF CommitNewWork
<1>19. ASSUME NEW b \in Own, Sealed(b) PROVE HeadOK'
  <2>1. b \in Blocks \ {Genesis}
    BY TreeAssumption
  <2> QED BY <1>8, <1>19, <2>1 DEF Sealed
<1>20. CASE Stop
  BY <1>2, <1>20, StopFacts
<1>21. CASE Restart
  <2>1. /\ db' = db /\ write' = NoWrite /\ current' \in db.states /\ Anc(current', db.head)
        /\ ~unclean' => ~unclean /\ write = NoWrite /\ (current = db.head => current' = current)
    BY <1>21, RestartFacts
  <2>2. ~unclean' => current' = db.head /\ ~torn'
    BY <1>21, <2>1 DEF HeadOK, Restart
  <2> QED BY <2>1, <2>2 DEF HeadOK, HasState
<1>22. CASE UNCHANGED vars
  BY <1>2, <1>22 DEF vars
<1> QED BY <1>3, <1>4, <1>5, <1>6, <1>7, <1>9, <1>10, <1>11, <1>12, <1>13, <1>14, <1>15,
           <1>16, <1>17, <1>18, <1>19, <1>20, <1>21, <1>22
        DEF Next, WriteStep, ImportStep

-----------------------------------------------------------------------------
(* Heaviest. *)

LEMMA HeaviestStep ==
    ASSUME ChainInv, [Next]_vars
    PROVE  Heaviest'
<1> USE DEF ChainInv, StructInv
<1>1. db \in DbType /\ current \in Blocks /\ current \in db.blocks /\ db.blocks \in SUBSET Blocks
  BY DEF Types, Stored, DbType
<1>2. FinalHead \in Blocks /\ \A b \in Blocks : Td[b] \in Nat
  BY <1>1, TreeAssumption DEF FinalHead, Types, WriteType
<1>3. ASSUME db'.blocks = db.blocks, FinalHead' = FinalHead, unclean' = unclean PROVE Heaviest'
  BY <1>3 DEF Heaviest
<1>4. CASE WriteStep
  <2>1. FinalHead' = FinalHead
    BY <1>4, FinalHeadSettled
  <2>2. CASE InsertCanon
    BY <1>3, <2>1, <2>2, InsertCanonFacts DEF InsertCanon
  <2>3. CASE InsertHead
    BY <1>3, <2>1, <2>3, InsertHeadFacts DEF InsertHead
  <2>4. CASE ReorgLookup
    BY <1>3, <2>1, <2>4, ReorgLookupFacts DEF ReorgLookup
  <2>5. CASE ReorgDelete
    BY <1>3, <2>1, <2>5, ReorgDeleteFacts DEF ReorgDelete
  <2>6. CASE WriteBatch
    BY <1>3, <2>1, <2>6, WriteBatchFacts DEF WriteBatch
  <2> QED BY <1>4, <2>2, <2>3, <2>4, <2>5, <2>6 DEF WriteStep
<1>5. ASSUME NEW by \in {"miner", "importer"}, NEW b \in Blocks \ {Genesis}, WriteBlock(by, b),
             current' = current, unclean' = unclean
      PROVE  Heaviest'
  <2>1. /\ write = NoWrite /\ write' # NoWrite /\ write'.block = b
        /\ db'.blocks = db.blocks \cup {b}
        /\ write'.wins => Td[b] >= Td[current]
        /\ ~write'.wins => Td[b] <= Td[current]
    BY <1>5, WriteBlockFacts
  <2>2. FinalHead = current
    BY <2>1 DEF FinalHead
  <2>3. CASE write'.wins
    <3>1. FinalHead' = b
      BY <2>1, <2>3 DEF FinalHead
    <3>2. Td[current] <= Td[b] /\ Td[b] \in Nat /\ Td[current] \in Nat
      BY <1>1, <1>2, <2>1, <2>3
    <3> QED BY <1>1, <1>2, <1>5, <2>1, <2>2, <3>1, <3>2 DEF Heaviest
  <2>4. CASE ~write'.wins
    <3>1. FinalHead' = current
      BY <1>5, <2>1, <2>4 DEF FinalHead
    <3> QED BY <1>1, <1>2, <1>5, <2>1, <2>2, <2>4, <3>1 DEF Heaviest
  <2> QED BY <2>3, <2>4
<1>6. ASSUME NEW chain \in Imports, InsertChain(chain) PROVE Heaviest'
  BY <1>3, <1>6 DEF InsertChain, FinalHead
<1>7. CASE SkipKnown
  BY <1>3, <1>7 DEF SkipKnown, FinalHead
<1>8. CASE Accept
  BY <1>3, <1>8 DEF Accept, FinalHead
<1>9. CASE WriteBlockWithoutState
  <2>1. Block \in Blocks
    BY <1>9, TopFacts DEF WriteBlockWithoutState, PrunedAncestor, Importing
  <2>2. db'.blocks = db.blocks \cup {Block} /\ FinalHead' = FinalHead /\ unclean' = unclean
    BY <1>1, <1>9 DEF WriteBlockWithoutState, DbType, FinalHead
  <2>3. Td[current] > Td[Block]
    BY <1>9 DEF WriteBlockWithoutState, LosesToHead
  <2>4. ~unclean => Td[current] <= Td[FinalHead]
    BY <1>1 DEF Heaviest
  <2>5. ~unclean => Td[Block] <= Td[FinalHead]
    BY <1>1, <1>2, <2>1, <2>3, <2>4
  <2> QED BY <2>2, <2>5 DEF Heaviest
<1>10. CASE ImportWinner
  BY <1>3, <1>10 DEF ImportWinner, FinalHead
<1>11. CASE Process
  <2>1. Block \in Blocks \ {Genesis}
    BY <1>11, TopFacts DEF Process, Importing
  <2> QED BY <1>5, <1>11, <2>1 DEF Process
<1>12. CASE ImportFails
  BY <1>3, <1>12 DEF ImportFails, FinalHead
<1>13. CASE ImportEnds
  BY <1>3, <1>13 DEF ImportEnds, FinalHead
<1>14. ASSUME NEW b \in pending, PostHeadEvent(b) PROVE Heaviest'
  BY <1>3, <1>14 DEF PostHeadEvent, FinalHead
<1>15. ASSUME NEW b \in Own, CommitNewWork(b) PROVE Heaviest'
  BY <1>3, <1>15 DEF CommitNewWork, FinalHead
<1>16. ASSUME NEW b \in Own, Sealed(b) PROVE Heaviest'
  <2>1. b \in Blocks \ {Genesis}
    BY TreeAssumption
  <2> QED BY <1>5, <1>16, <2>1 DEF Sealed
<1>17. CASE Stop
  BY <1>3, <1>17, StopFacts DEF FinalHead
<1>18. CASE Restart
  <2>1. /\ db' = db /\ write' = NoWrite
        /\ ~unclean' => ~unclean /\ write = NoWrite /\ (current = db.head => current' = current)
    BY <1>18, RestartFacts
  <2>2. ~unclean' => FinalHead' = FinalHead
    BY <2>1 DEF FinalHead, HeadOK
  <2> QED BY <2>1, <2>2 DEF Heaviest
<1>19. CASE UNCHANGED vars
  BY <1>3, <1>19 DEF vars, FinalHead
<1> QED BY <1>4, <1>6, <1>7, <1>8, <1>9, <1>10, <1>11, <1>12, <1>13, <1>14, <1>15, <1>16,
           <1>17, <1>18, <1>19
        DEF Next, ImportStep

-----------------------------------------------------------------------------
(* Theorems. *)

LEMMA StopIdleStep ==
    ASSUME Types, WriteOK, StopIdle, [Next]_vars
    PROVE  StopIdle'
<1>1. CASE Restart \/ Stop
  BY <1>1 DEF Restart, LoadLastState, Stop, StopIdle
<1>2. ASSUME stopped' = stopped, frames' = frames PROVE StopIdle'
  BY <1>2 DEF StopIdle
<1>3. ASSUME frames # <<>>, stopped' = stopped PROVE StopIdle'
  BY <1>3 DEF StopIdle
<1>4. ASSUME NEW won \in BOOLEAN, Return(won), write # NoWrite, stopped' = stopped
      PROVE  StopIdle'
  <2>1. CASE write.by = "miner"
    BY <1>2, <1>4, <2>1 DEF Return
  <2>2. CASE write.by # "miner"
    BY <1>3, <1>4, <2>2 DEF WriteOK, Types, WriteType
  <2> QED BY <2>1, <2>2
<1>5. CASE InsertHead \/ WriteBatch
  BY <1>2, <1>4, <1>5 DEF InsertHead, WriteBatch
<1>6. ASSUME NEW chain \in Imports, InsertChain(chain) PROVE StopIdle'
  BY <1>6 DEF InsertChain, StopIdle
<1>7. CASE SkipKnown \/ Accept \/ WriteBlockWithoutState \/ ImportWinner \/ Process
           \/ ImportFails \/ ImportEnds
  BY <1>3, <1>7 DEF SkipKnown, Accept, WriteBlockWithoutState, ImportWinner, Process,
                    ImportFails, ImportEnds, PrunedAncestor, Importing
<1> QED BY <1>1, <1>2, <1>5, <1>6, <1>7
        DEF Next, WriteStep, InsertCanon, ReorgLookup, ReorgDelete, ImportStep,
            PostHeadEvent, CommitNewWork, Sealed, vars

LEMMA ChainInvInit == Init => ChainInv
<1> SUFFICES ASSUME Init PROVE ChainInv
  OBVIOUS
<1>1. Genesis \in Blocks /\ Len(Line[Genesis]) = 1 /\ Line[Genesis][1] = Genesis
      /\ Td[Genesis] \in Nat
  BY TreeAssumption
<1>2. Number(Genesis) = 0 /\ 0 \in Numbers /\ Anc(Genesis, Genesis)
  <2>1. Number(Genesis) \in Nat /\ Len(Line[Genesis]) = Number(Genesis) + 1
        /\ Number(Genesis) \in Numbers /\ Anc(Genesis, Genesis)
    BY <1>1, AncSelf
  <2>2. \A n \in Nat : 1 = n + 1 => n = 0
    OBVIOUS
  <2>3. Number(Genesis) = 0
    BY <1>1, <2>1, <2>2, Zenon
  <2> QED BY <2>1, <2>3
<1>3. WriteOK /\ NotTheHead /\ StopIdle
  BY DEF Init, WriteOK, NotTheHead, StopIdle
<1>4. HeadOK
  BY <1>2 DEF Init, HeadOK, HasState
<1>5. \A n \in 0..Number(Genesis) : n = 0
  BY <1>2
<1>6. Linked
  BY <1>1, <1>2, <1>5 DEF Init, Linked
<1>7. Heaviest
  BY <1>1 DEF Init, Heaviest, FinalHead
<1> QED BY <1>3, <1>4, <1>6, <1>7, TypesInit, StoredInit, NestedInit DEF ChainInv, StructInv

LEMMA ChainInvStep == ChainInv /\ [Next]_vars => ChainInv'
<1> SUFFICES ASSUME ChainInv, [Next]_vars PROVE ChainInv'
  OBVIOUS
<1>1. StructInv /\ Types /\ Stored /\ Nested /\ WriteOK /\ NotTheHead /\ StopIdle
      /\ HeadOK /\ Linked
  BY DEF ChainInv, StructInv
<1> QED BY <1>1, TypesStep, StoredStep, NestedStep, WriteOKStep, NotTheHeadStep, HeadOKStep,
           LinkedStep, HeaviestStep, StopIdleStep
        DEF ChainInv, StructInv

LEMMA ChainInvariant == Spec => []ChainInv
BY ChainInvInit, ChainInvStep, PTL DEF Spec

\* The database, the head, the calls of insertChain and the writer keep their
\* types for any tree of chains of up to 128 blocks: in particular reorg never
\* runs with an empty list of blocks to insert, and no sealed block is already
\* known.
THEOREM ChainTypeCorrect == Spec => []ChainTypeOK
<1>1. ChainInv => ChainTypeOK
  <2> SUFFICES ASSUME ChainInv PROVE ChainTypeOK
    OBVIOUS
  <2>1. Types /\ Stored /\ Nested /\ WriteOK
    BY DEF ChainInv, StructInv
  <2>2. /\ db.blocks \subseteq Blocks
        /\ db.canon \in [Numbers -> Blocks \cup {NoBlock}]
        /\ db.lookup \in [Txs -> Blocks \cup {NoBlock}]
    BY <2>1 DEF Types, DbType
  <2>3. \A i \in DOMAIN frames :
            /\ frames[i].at \in 1..(Len(frames[i].chain) + 1)
            /\ frames[i].lastCanon \in db.blocks \cup {NoBlock}
    <3>1. DOMAIN frames = 1..Len(frames)
      BY <2>1 DEF Types
    <3> QED BY <2>1, <3>1 DEF Nested, FrameOK
  <2>4. tasks \subseteq Own \ db.blocks
    BY <2>1 DEF Types, Stored
  <2>5. ASSUME write # NoWrite
        PROVE  /\ write.block \in db.blocks
               /\ (write.todo # <<>>) <=> (write.step \in {"canon", "head", "lookup"})
               /\ write.by = "importer" => frames # <<>> /\ write.block = Block
    <3>1. write.block \in db.blocks /\ (write.by = "importer" => frames # <<>> /\ write.block = Block)
      BY <2>1, <2>5 DEF WriteOK, At, Block
    <3>2. write.step \in {"canon", "head", "lookup"} => write.todo # <<>>
      BY <2>1, <2>5, TodoFacts DEF Inserting
    <3>3. write.step \notin {"canon", "head", "lookup"} => write.todo = <<>>
      BY <2>1, <2>5 DEF WriteOK, Inserting
    <3> QED BY <3>1, <3>2, <3>3
  <2>6. stopped => frames = <<>>
    BY DEF ChainInv, StructInv, StopIdle
  <2> QED BY <2>1, <2>2, <2>3, <2>4, <2>5, <2>6 DEF ChainTypeOK, Stored
<1> QED BY <1>1, ChainInvariant, PTL

\* For any tree of chains of up to 128 blocks, any batches and any times at
\* which the process ends, the number index leads from the genesis block to
\* CurrentBlock, except between the two writes of insert, and the head's state
\* is there whenever no writer is inside.
THEOREM ChainLinked == Spec => []CanonLinked
<1>1. ChainInv => CanonLinked
  BY LinkedHead DEF ChainInv, StructInv, CanonLinked, HeadOK
<1> QED BY <1>1, ChainInvariant, PTL

\* For any tree of chains of up to 128 blocks, until a process ends uncleanly
\* no stored block is heavier than the head, however importer and miner take
\* turns.
THEOREM ChainHeaviest == Spec => []HeadHeaviest
<1>1. ChainInv => HeadHeaviest
  BY DEF ChainInv, Heaviest, FinalHead, HeadHeaviest
<1> QED BY <1>1, ChainInvariant, PTL

-----------------------------------------------------------------------------
(***************************************************************************)
(* Proofs about what the users of the chain see: the lookup entries of     *)
(* transactions and the receipts, which GetTransactionReceipt reads, and   *)
(* the head events, which the pool and the miner follow.                   *)
(*                                                                         *)
(* The argument.  While reorg runs, the entries are those of the inserted  *)
(* blocks and, for every other transaction, those of the old chain; the    *)
(* deletion at its end removes what only the old chain had (LookupOK).     *)
(* Receipts are written after the state that they belong to, so that a     *)
(* block with a state has the receipts of its whole chain, except for the  *)
(* block that is being written (ReceiptsOK).  A call of insertChain that   *)
(* has made a head goes on from a block with a state and never starts a    *)
(* call within it, so that no event gets lost with the outer calls when an *)
(* import fails (BatchesOK, HeadKnown).                                    *)
(***************************************************************************)

\* The block of the chain of c with the transaction t.
Home(t, c) ==
    IF \E b \in ToSet(Line[c]) : t \in Body[b]
    THEN CHOOSE b \in ToSet(Line[c]) : t \in Body[b]
    ELSE NoBlock

\* t is in the chain of c between the positions i and j.
Within(t, c, i, j) == \E k \in i..j : t \in Body[Line[c][k]]

LEMMA InLine ==
    ASSUME NEW c \in Blocks, NEW b
    PROVE  b \in ToSet(Line[c]) <=> \E i \in 1..Len(Line[c]) : b = Line[c][i]
BY LineFacts DEF ToSet

\* A transaction is in one block of a chain only.
LEMMA HomeUnique ==
    ASSUME NEW c \in Blocks, NEW i \in 1..Len(Line[c]), NEW t \in Body[Line[c][i]]
    PROVE  Home(t, c) = Line[c][i]
<1>1. Line[c][i] \in ToSet(Line[c])
  BY InLine
<1> DEFINE h == CHOOSE b \in ToSet(Line[c]) : t \in Body[b]
<1>2. h \in ToSet(Line[c]) /\ t \in Body[h]
  BY <1>1
<1> HIDE DEF h
<1>3. PICK j \in 1..Len(Line[c]) : h = Line[c][j]
  BY <1>2, InLine
<1>4. i = j
  <2>1. DOMAIN Line[c] = 1..Len(Line[c])
    BY LineFacts
  <2> QED BY <1>2, <1>3, <2>1, BodyAssumption
<1>5. Home(t, c) = h
  BY <1>1 DEF Home, h
<1> QED BY <1>3, <1>4, <1>5

LEMMA HomeNowhere ==
    ASSUME NEW c \in Blocks, NEW t, ~Within(t, c, 1, Len(Line[c]))
    PROVE  Home(t, c) = NoBlock
<1>1. \A b \in ToSet(Line[c]) : t \notin Body[b]
  BY InLine DEF Within
<1> QED BY <1>1 DEF Home

\* Two chains that begin alike have the same transactions there.
LEMMA HomeCommon ==
    ASSUME NEW c \in Blocks, NEW d \in Blocks, NEW k \in 0..Len(Line[c]), k <= Len(Line[d]),
           \A j \in 1..k : Line[c][j] = Line[d][j], NEW t,
           ~Within(t, c, k + 1, Len(Line[c])), ~Within(t, d, k + 1, Len(Line[d]))
    PROVE  Home(t, c) = Home(t, d)
<1>1. Len(Line[c]) \in Nat /\ Len(Line[d]) \in Nat
  BY LineFacts
<1>2. CASE \E j \in 1..k : t \in Body[Line[c][j]]
  <2>1. PICK j \in 1..k : t \in Body[Line[c][j]]
    BY <1>2
  <2>2. j \in 1..Len(Line[c]) /\ j \in 1..Len(Line[d]) /\ Line[c][j] = Line[d][j]
    BY <1>1
  <2> QED BY <2>1, <2>2, HomeUnique
<1>3. CASE ~\E j \in 1..k : t \in Body[Line[c][j]]
  <2>1. ~Within(t, c, 1, Len(Line[c]))
    <3>1. \A j \in 1..Len(Line[c]) : j \in 1..k \/ j \in (k + 1)..Len(Line[c])
      BY <1>1
    <3> QED BY <1>3, <3>1 DEF Within
  <2>2. ~Within(t, d, 1, Len(Line[d]))
    <3>1. \A j \in 1..Len(Line[d]) : j \in 1..k \/ j \in (k + 1)..Len(Line[d])
      BY <1>1
    <3> QED BY <1>3, <3>1 DEF Within
  <2> QED BY <2>1, <2>2, HomeNowhere
<1> QED BY <1>2, <1>3

\* The transactions of what reorg inserts.
LEMMA BodiesOfNewChain ==
    ASSUME NEW old \in Blocks, NEW new \in Blocks, NEW t
    PROVE  t \in BodiesOf(ToSet(NewChain(old, new))) <=>
                Within(t, new, CommonBlock(old, new) + 1, Len(Line[new]))
<1> DEFINE k == CommonBlock(old, new)
           n == Len(Line[new])
           todo == NewChain(old, new)
<1>1. k \in 1..n /\ n \in Nat /\ Line[new] \in Seq(Blocks)
  BY CommonBlockFacts, LineFacts
<1> HIDE DEF k
<1>2. todo = SubSeq(Line[new], k + 1, n)
  BY DEF NewChain, k
<1> HIDE DEF todo
<1>3. /\ todo \in Seq(Blocks) /\ Len(todo) = n - k
      /\ \A i \in 1..(n - k) : todo[i] = Line[new][k + i]
  BY <1>1, <1>2, SubSeqFacts
<1>4. DOMAIN todo = 1..(n - k)
  BY <1>1, <1>3
<1> HIDE DEF n
<1>5. t \in BodiesOf(ToSet(todo)) <=> \E i \in 1..(n - k) : t \in Body[todo[i]]
  BY <1>4 DEF BodiesOf, ToSet
<1>6. (\E i \in 1..(n - k) : t \in Body[todo[i]]) => Within(t, new, k + 1, n)
  <2> SUFFICES ASSUME NEW i \in 1..(n - k), t \in Body[todo[i]] PROVE Within(t, new, k + 1, n)
    OBVIOUS
  <2>1. k + i \in (k + 1)..n
    BY <1>1
  <2> QED BY <1>3, <2>1 DEF Within
<1>7. Within(t, new, k + 1, n) => \E i \in 1..(n - k) : t \in Body[todo[i]]
  <2> SUFFICES ASSUME NEW j \in (k + 1)..n, t \in Body[Line[new][j]]
               PROVE  \E i \in 1..(n - k) : t \in Body[todo[i]]
    BY DEF Within
  <2>1. j - k \in 1..(n - k) /\ k + (j - k) = j
    BY <1>1
  <2> QED BY <1>3, <2>1
<1> QED BY <1>5, <1>6, <1>7 DEF k, n, todo

\* The entry of t when reorg from the chain of old to that of new has inserted
\* the blocks up to position m.
Entry(t, old, new, m) ==
    IF Within(t, new, CommonBlock(old, new) + 1, m) THEN Home(t, new) ELSE Home(t, old)

LEMMA EntryStart ==
    ASSUME NEW old \in Blocks, NEW new \in Blocks, NEW t
    PROVE  Entry(t, old, new, CommonBlock(old, new)) = Home(t, old)
<1>1. CommonBlock(old, new) \in Int
  BY CommonBlockFacts
<1>2. \A i \in Int : ~(i \in (CommonBlock(old, new) + 1)..CommonBlock(old, new))
  BY <1>1
<1> QED BY <1>1, <1>2 DEF Entry, Within

\* One more block is inserted.
LEMMA EntryNext ==
    ASSUME NEW old \in Blocks, NEW new \in Blocks, NEW t, NEW m \in Nat,
           CommonBlock(old, new) <= m, m < Len(Line[new])
    PROVE  Entry(t, old, new, m + 1) =
                IF t \in Body[Line[new][m + 1]] THEN Line[new][m + 1] ELSE Entry(t, old, new, m)
<1> DEFINE k == CommonBlock(old, new)
<1>1. k \in Nat /\ Len(Line[new]) \in Nat
  BY CommonBlockFacts, LineFacts
<1>2. m + 1 \in 1..Len(Line[new]) /\ m + 1 \in (k + 1)..(m + 1)
  BY <1>1
<1>3. CASE t \in Body[Line[new][m + 1]]
  BY <1>2, <1>3, HomeUnique DEF Entry, Within
<1>4. CASE t \notin Body[Line[new][m + 1]]
  <2>1. (k + 1)..(m + 1) = ((k + 1)..m) \cup {m + 1}
    BY <1>1
  <2>2. Within(t, new, k + 1, m + 1) <=> Within(t, new, k + 1, m)
    BY <1>4, <2>1 DEF Within
  <2> QED BY <1>4, <2>2 DEF Entry
<1> QED BY <1>3, <1>4

LEMMA CommonBlockSymmetric ==
    ASSUME NEW old \in Blocks, NEW new \in Blocks
    PROVE  CommonBlock(old, new) = CommonBlock(new, old)
<1>1. {i \in DOMAIN Line[new] : i \in DOMAIN Line[old] /\ Line[old][i] = Line[new][i]}
    = {i \in DOMAIN Line[old] : i \in DOMAIN Line[new] /\ Line[new][i] = Line[old][i]}
  OBVIOUS
<1> QED BY <1>1 DEF CommonBlock

\* The end of reorg: what only the old chain had is deleted.
LEMMA EntryDone ==
    ASSUME NEW old \in Blocks, NEW new \in Blocks, NEW t
    PROVE  Home(t, new) = IF t \in TxDifference(old, new) THEN NoBlock
                          ELSE Entry(t, old, new, Len(Line[new]))
<1> DEFINE k == CommonBlock(old, new)
<1>1. /\ k \in 1..Len(Line[new]) /\ k \in 1..Len(Line[old])
      /\ \A j \in 1..k : Line[old][j] = Line[new][j]
      /\ Len(Line[new]) \in Nat /\ Len(Line[old]) \in Nat
  BY CommonBlockFacts, LineFacts
<1>2. t \in TxDifference(old, new) <=>
        /\ Within(t, old, k + 1, Len(Line[old])) /\ ~Within(t, new, k + 1, Len(Line[new]))
  BY BodiesOfNewChain, CommonBlockSymmetric DEF TxDifference
<1>3. CASE Within(t, new, k + 1, Len(Line[new]))
  BY <1>2, <1>3 DEF Entry
<1> HIDE DEF k
<1>4. CASE ~Within(t, new, k + 1, Len(Line[new])) /\ Within(t, old, k + 1, Len(Line[old]))
  <2>1. PICK i \in (k + 1)..Len(Line[old]) : t \in Body[Line[old][i]]
    BY <1>4 DEF Within
  <2>2. ASSUME NEW j \in 1..Len(Line[new]), t \in Body[Line[new][j]] PROVE FALSE
    <3>1. j \in 1..k
      <4>1. j \in 1..k \/ j \in (k + 1)..Len(Line[new])
        BY <1>1
      <4> QED BY <1>4, <2>2, <4>1 DEF Within
    <3>2. j \in DOMAIN Line[old] /\ i \in DOMAIN Line[old] /\ i # j
      BY <1>1, <3>1, LineFacts
    <3>3. t \in Body[Line[old][j]]
      BY <1>1, <2>2, <3>1
    <3> QED BY <2>1, <3>2, <3>3, BodyAssumption
  <2>3. Home(t, new) = NoBlock
    BY <2>2, HomeNowhere DEF Within
  <2> QED BY <1>2, <1>4, <2>3
<1>5. CASE ~Within(t, new, k + 1, Len(Line[new])) /\ ~Within(t, old, k + 1, Len(Line[old]))
  <2>1. Home(t, old) = Home(t, new)
    <3>1. k \in 0..Len(Line[old]) /\ k <= Len(Line[new])
      BY <1>1
    <3> QED BY <1>1, <1>5, <3>1, HomeCommon
  <2>2. Entry(t, old, new, Len(Line[new])) = Home(t, old)
    BY <1>5 DEF Entry, k
  <2> QED BY <1>2, <1>5, <2>1, <2>2
<1> QED BY <1>3, <1>4, <1>5

\* The batch of a block on top of its parent, or of the head again.
LEMMA EntryBatch ==
    ASSUME NEW b \in Blocks \ {Genesis}, NEW c \in {b, Parent(b)}, NEW t
    PROVE  Home(t, b) = IF t \in Body[b] THEN b ELSE Home(t, c)
<1>1. Len(Line[b]) \in 1..Len(Line[b]) /\ Line[b][Len(Line[b])] = b /\ Len(Line[b]) \in Nat
  BY LineFacts
<1>2. CASE t \in Body[b]
  BY <1>1, <1>2, HomeUnique
<1>3. CASE t \notin Body[b] /\ c = b
  BY <1>3
<1>4. CASE t \notin Body[b] /\ c = Parent(b)
  <2> DEFINE k == Len(Line[c])
  <2>1. /\ c \in Blocks /\ k \in Nat /\ Len(Line[b]) = k + 1
        /\ \A j \in 1..k : Line[b][j] = Line[c][j]
    BY <1>4, ParentFacts
  <2> HIDE DEF k
  <2>2. k \in 0..Len(Line[b]) /\ k <= Len(Line[c])
    BY <2>1 DEF k
  <2>3. ~Within(t, b, k + 1, Len(Line[b]))
    <3>1. \A j \in (k + 1)..Len(Line[b]) : j = Len(Line[b])
      BY <2>1
    <3> QED BY <1>1, <1>4, <3>1 DEF Within
  <2>4. ~Within(t, c, k + 1, Len(Line[c]))
    <3>1. \A j \in (k + 1)..k : FALSE
      BY <2>1
    <3> QED BY <3>1 DEF Within, k
  <2>5. Home(t, b) = Home(t, c)
    BY <2>1, <2>2, <2>3, <2>4, HomeCommon
  <2> QED BY <1>4, <2>5
<1> QED BY <1>2, <1>3, <1>4

-----------------------------------------------------------------------------
(* LookupOK. *)

\* reorg runs, in the middle of WriteBlockWithState.
Reorging == write # NoWrite /\ ~write.batched /\ write.step # "batch"
\* How many blocks of the new chain have their entries.
Done == Len(Line[write.block]) - Len(write.todo)
\* The block whose chain the entries are about when reorg does not run.
IndexHead == IF write # NoWrite /\ write.batched THEN write.block ELSE current

\* The lookup entries, at every moment.
LookupOK ==
    /\ Reorging => CommonBlock(write.old, write.block) <= Done
    /\ ~unclean => \A t \in Txs :
        db.lookup[t] = IF Reorging THEN Entry(t, write.old, write.block, Done)
                       ELSE Home(t, IndexHead)

LEMMA LookupStep ==
    ASSUME ChainInv, LookupOK, [Next]_vars
    PROVE  LookupOK'
<1> USE DEF ChainInv, StructInv
<1>1. db \in DbType /\ current \in Blocks /\ current \in db.blocks
      /\ (write # NoWrite => write \in WriteType)
  BY DEF Types, Stored
<1>2. ASSUME db'.lookup = db.lookup, write' = write, current' = current, unclean' = unclean
      PROVE  LookupOK'
  BY <1>2 DEF LookupOK, Reorging, Done, IndexHead
<1>3. ASSUME write' # NoWrite, write'.block = write.block, write'.old = write.old,
             write # NoWrite, write'.batched = write.batched, write'.todo = write.todo,
             write'.step # "batch", write.step # "batch", db'.lookup = db.lookup,
             unclean' = unclean, write.batched \/ ~write.batched,
             Reorging \/ current' = current \/ write.batched
      PROVE  LookupOK'
  <2>1. Reorging' = Reorging /\ Done' = Done
    BY <1>3 DEF Reorging, Done
  <2>2. ~Reorging => IndexHead' = IndexHead
    BY <1>3 DEF Reorging, IndexHead
  <2> QED BY <1>3, <2>1, <2>2 DEF LookupOK
<1>4. CASE InsertCanon
  <2>1. write # NoWrite /\ write \in WriteType /\ write.step = "canon"
    BY <1>1, <1>4, InsertCanonFacts
  <2> QED BY <1>3, <1>4, <2>1, InsertCanonFacts DEF InsertCanon
<1>5. CASE InsertHead
  <2>1. /\ write # NoWrite /\ write \in WriteType /\ write.step = "head" /\ Inserting
        /\ db'.lookup = db.lookup /\ current' = Head(write.todo)
        /\ (\/ write.batched /\ Return(TRUE)
            \/ /\ ~write.batched /\ write' # NoWrite
               /\ write'.block = write.block /\ write'.old = write.old
               /\ write'.batched = write.batched /\ write'.todo = write.todo
               /\ write'.step = "lookup")
    BY <1>1, <1>5, InsertHeadFacts
  <2>2. unclean' = unclean
    BY <1>5 DEF InsertHead
  <2>3. CASE ~write.batched
    <3>1. Reorging
      BY <2>1, <2>3 DEF Reorging
    <3> QED BY <1>3, <2>1, <2>2, <2>3, <3>1
  <2>4. CASE write.batched
    <3>1. write' = NoWrite /\ write.todo = <<write.block>>
      BY <2>1, <2>4 DEF WriteOK, Return
    <3>2. current' = write.block /\ IndexHead = write.block
      BY <2>1, <2>4, <3>1 DEF IndexHead
    <3>3. ~Reorging /\ ~Reorging' /\ IndexHead' = current'
      BY <2>4, <3>1 DEF Reorging, IndexHead
    <3> QED BY <2>1, <2>2, <3>2, <3>3 DEF LookupOK
  <2> QED BY <2>3, <2>4
<1>6. CASE ReorgLookup
  <2> DEFINE m == Done
             old == write.old
             new == write.block
  <2>1. /\ write # NoWrite /\ write.step = "lookup" /\ Inserting /\ write \in WriteType
        /\ write' # NoWrite /\ write'.block = new /\ write'.old = old
        /\ write'.batched = write.batched /\ write'.todo = Tail(write.todo)
        /\ db'.lookup = WriteTxLookupEntries(db.lookup, Head(write.todo))
        /\ write'.step \in {"canon", "delete"}
    BY <1>1, <1>6, ReorgLookupFacts DEF AfterLookup
  <2>2. ~write.batched /\ unclean' = unclean
    BY <1>6, <2>1 DEF WriteOK, ReorgLookup
  <2>3. Reorging /\ Reorging'
    BY <2>1, <2>2 DEF Reorging
  <2>4. /\ new \in Blocks /\ old \in Blocks /\ Len(Line[new]) \in Nat
        /\ Len(write.todo) \in Nat \ {0} /\ Len(write.todo) <= Len(Line[new])
        /\ Len(Tail(write.todo)) = Len(write.todo) - 1
        /\ Head(write.todo) = write.todo[1]
    BY <2>1, TodoFacts, LineFacts DEF WriteType
  <2>5. m \in Nat /\ Done' = m + 1 /\ m < Len(Line[new])
    <3>1. \A a \in Nat : \A k \in Nat \ {0} : k <= a =>
            /\ a - k \in Nat /\ a - (k - 1) = (a - k) + 1 /\ a - k < a
      OBVIOUS
    <3>2. Done' = Len(Line[new]) - (Len(write.todo) - 1)
      BY <2>1, <2>4 DEF Done
    <3> QED BY <2>4, <3>1, <3>2 DEF Done
  <2>6. Head(write.todo) = Line[new][m + 1]
    <3>1. 1 \in 1..Len(write.todo)
      BY <2>4
    <3> QED BY <2>1, <2>4, <3>1 DEF WriteOK, TodoOK, Done
  <2>7. CommonBlock(old, new) <= m /\ CommonBlock(old, new) \in Nat
    BY <2>3, <2>4, CommonBlockFacts DEF LookupOK
  <2> HIDE DEF m, old, new
  <2>8. CommonBlock(old, new) <= m + 1
    BY <2>5, <2>7
  <2>9. ASSUME ~unclean, NEW t \in Txs PROVE db'.lookup[t] = Entry(t, old, new, m + 1)
    <3>1. db'.lookup[t] = IF t \in Body[Line[new][m + 1]] THEN Line[new][m + 1]
                          ELSE db.lookup[t]
      BY <2>1, <2>6 DEF WriteTxLookupEntries
    <3>2. db.lookup[t] = Entry(t, old, new, m)
      BY <2>3, <2>9 DEF LookupOK, m, old, new
    <3> QED BY <2>4, <2>5, <2>7, <3>1, <3>2, EntryNext
  <2>10. write'.old = old /\ write'.block = new
    BY <2>1
  <2> QED BY <2>2, <2>3, <2>5, <2>8, <2>9, <2>10 DEF LookupOK
<1>7. CASE ReorgDelete
  <2> DEFINE old == write.old
             new == write.block
  <2>1. /\ write \in WriteType /\ write # NoWrite /\ write.step = "delete"
        /\ \A t \in Txs : db'.lookup[t] =
                IF t \in TxDifference(old, new) THEN NoBlock ELSE db.lookup[t]
        /\ write' # NoWrite /\ write'.batched = write.batched /\ write'.step = "batch"
    BY <1>7, ReorgDeleteFacts
  <2>2. ~write.batched /\ write.todo = <<>> /\ current = new /\ current' = current
        /\ unclean' = unclean
    BY <1>7, <2>1 DEF WriteOK, HeadOK, Inserting, ReorgDelete
  <2>3. Reorging /\ ~Reorging' /\ IndexHead' = new
    BY <2>1, <2>2 DEF Reorging, IndexHead
  <2>4. old \in Blocks /\ new \in Blocks /\ Done = Len(Line[new])
    <3>1. old \in Blocks /\ new \in Blocks
      BY <2>1 DEF WriteType
    <3>2. Len(write.todo) = 0 /\ Len(Line[new]) \in Nat
      BY <2>2, <3>1, LineFacts
    <3> QED BY <3>1, <3>2 DEF Done
  <2>5. ASSUME ~unclean, NEW t \in Txs PROVE db'.lookup[t] = Home(t, new)
    <3>1. db.lookup[t] = Entry(t, old, new, Len(Line[new]))
      BY <2>3, <2>4, <2>5 DEF LookupOK
    <3> QED BY <2>1, <2>4, <3>1, EntryDone
  <2> QED BY <2>2, <2>3, <2>5 DEF LookupOK
<1>8. CASE WriteBatch
  <2> DEFINE b == write.block
  <2>1. /\ write \in WriteType /\ write # NoWrite /\ write.step = "batch"
        /\ db'.lookup = IF write.wins THEN WriteTxLookupEntries(db.lookup, b) ELSE db.lookup
        /\ \/ ~write.wins /\ Return(FALSE)
           \/ /\ write.wins /\ write' # NoWrite /\ write'.block = b
              /\ write'.batched = TRUE /\ write'.step = "canon"
    BY <1>8, WriteBatchFacts
  <2>2. ~write.batched /\ current' = current /\ unclean' = unclean
    BY <1>8, <2>1 DEF WriteOK, WriteBatch
  <2>3. ~Reorging /\ IndexHead = current
    BY <2>1, <2>2 DEF Reorging, IndexHead
  <2>4. CASE ~write.wins
    <3>1. write' = NoWrite /\ db'.lookup = db.lookup
      BY <2>1, <2>4 DEF Return
    <3>2. ~Reorging' /\ IndexHead' = current
      BY <2>2, <3>1 DEF Reorging, IndexHead
    <3> QED BY <2>2, <2>3, <3>1, <3>2 DEF LookupOK
  <2>5. CASE write.wins
    <3>1. ~Reorging' /\ IndexHead' = b
      BY <2>1, <2>5 DEF Reorging, IndexHead
    <3>2. b \in Blocks \ {Genesis} /\ current \in {b, Parent(b)}
      BY <2>1, <2>5 DEF WriteOK, HeadOK, WriteType
    <3>3. ASSUME ~unclean, NEW t \in Txs PROVE db'.lookup[t] = Home(t, b)
      <4>1. db.lookup[t] = Home(t, current)
        BY <2>3, <3>3 DEF LookupOK
      <4>2. db'.lookup[t] = IF t \in Body[b] THEN b ELSE db.lookup[t]
        BY <2>1, <2>5 DEF WriteTxLookupEntries
      <4> HIDE DEF b
      <4> QED BY <3>2, <4>1, <4>2, EntryBatch
    <3> QED BY <2>2, <3>1, <3>3 DEF LookupOK
  <2> QED BY <2>4, <2>5
\* A writer starts.
<1>9. ASSUME NEW by \in {"miner", "importer"}, NEW b \in Blocks \ {Genesis}, WriteBlock(by, b),
             b # current, current' = current, unclean' = unclean
      PROVE  LookupOK'
  <2>1. /\ write = NoWrite /\ write' # NoWrite /\ write'.block = b /\ write'.old = current
        /\ ~write'.batched /\ db'.lookup = db.lookup
        /\ write'.step \in {"canon", "batch"}
    BY <1>9, WriteBlockFacts
  <2>2. ~Reorging /\ IndexHead = current /\ IndexHead' = current
    BY <1>9, <2>1 DEF Reorging, IndexHead
  <2>3. CASE write'.step = "batch"
    <3>1. ~Reorging'
      BY <2>3 DEF Reorging
    <3> QED BY <1>9, <2>1, <2>2, <3>1 DEF LookupOK
  <2>4. CASE write'.step = "canon"
    <3>1. Reorging'
      BY <2>1, <2>4 DEF Reorging
    <3>2. Done' = CommonBlock(current, b) /\ CommonBlock(current, b) \in Nat
      <4>1. Len(write'.todo) = Len(Line[b]) - CommonBlock(current, b)
        BY <1>9, <2>4, WriteStarts
      <4>2. Len(Line[b]) \in Nat /\ CommonBlock(current, b) \in Nat
        BY <1>1, LineFacts, CommonBlockFacts
      <4>3. Done' = Len(Line[b]) - Len(write'.todo)
        BY <2>1 DEF Done
      <4> QED BY <4>1, <4>2, <4>3
    <3>3. ASSUME ~unclean, NEW t \in Txs
          PROVE  db.lookup[t] = Entry(t, current, b, CommonBlock(current, b))
      <4>1. db.lookup[t] = Home(t, current)
        BY <2>2, <3>3 DEF LookupOK
      <4> QED BY <1>1, <4>1, EntryStart
    <3>4. CommonBlock(current, b) <= Done'
      BY <3>2
    <3> QED BY <1>9, <2>1, <3>1, <3>2, <3>3, <3>4 DEF LookupOK
  <2> QED BY <2>1, <2>3, <2>4
<1>10. ASSUME NEW chain \in Imports, InsertChain(chain) PROVE LookupOK'
  BY <1>2, <1>10 DEF InsertChain
<1>11. CASE SkipKnown
  BY <1>2, <1>11 DEF SkipKnown
<1>12. CASE Accept
  BY <1>2, <1>12 DEF Accept
<1>13. CASE WriteBlockWithoutState
  <2>1. db'.lookup = db.lookup
    BY <1>1, <1>13 DEF WriteBlockWithoutState, DbType
  <2> QED BY <1>2, <1>13, <2>1 DEF WriteBlockWithoutState
<1>14. CASE ImportWinner
  BY <1>2, <1>14 DEF ImportWinner
<1>15. CASE Process
  <2>1. frames # <<>> /\ Top.doing = "process" /\ Top.at <= Len(Top.chain) /\ write = NoWrite
    BY <1>15 DEF Process, Importing, WriteBlock
  <2>2. Block \in Blocks \ {Genesis} /\ Block = At(Top) /\ Len(frames) \in 1..Len(frames)
    BY <2>1, TopFacts
  <2>3. Block # current
    BY <2>1, <2>2 DEF NotTheHead, FinalHead, Top
  <2> QED BY <1>9, <1>15, <2>2, <2>3 DEF Process
<1>16. CASE ImportFails
  BY <1>2, <1>16 DEF ImportFails
<1>17. CASE ImportEnds
  BY <1>2, <1>17 DEF ImportEnds
<1>18. ASSUME NEW b \in pending, PostHeadEvent(b) PROVE LookupOK'
  BY <1>2, <1>18 DEF PostHeadEvent
<1>19. ASSUME NEW b \in Own, CommitNewWork(b) PROVE LookupOK'
  BY <1>2, <1>19 DEF CommitNewWork
<1>20. ASSUME NEW b \in Own, Sealed(b) PROVE LookupOK'
  <2>1. b \in Blocks \ {Genesis} /\ b # current
    BY <1>20, TreeAssumption DEF Sealed, Stored
  <2> QED BY <1>9, <1>20, <2>1 DEF Sealed
<1>21. CASE Stop
  BY <1>2, <1>21, StopFacts
<1>22. CASE Restart
  <2>1. /\ db' = db /\ write' = NoWrite
        /\ ~unclean' => ~unclean /\ write = NoWrite /\ (current = db.head => current' = current)
    BY <1>22, RestartFacts
  <2>2. ~unclean' => current' = current
    BY <2>1 DEF HeadOK
  <2> QED BY <2>1, <2>2 DEF LookupOK, Reorging, IndexHead
<1>23. CASE UNCHANGED vars
  BY <1>2, <1>23 DEF vars
<1> QED BY <1>4, <1>5, <1>6, <1>7, <1>8, <1>10, <1>11, <1>12, <1>13, <1>14, <1>15, <1>16,
           <1>17, <1>18, <1>19, <1>20, <1>21, <1>22, <1>23
        DEF Next, WriteStep, ImportStep

-----------------------------------------------------------------------------
(* ReceiptsOK. *)

\* The receipts of the whole chain of b are stored.
Receipts(b) == \A i \in 1..Len(Line[b]) : Line[b][i] \in db.receipts
\* The writer has not come to its batch yet.
Unwritten(b) == write # NoWrite /\ ~write.batched /\ b = write.block

\* Receipts follow states.  States that are in memory first reach the disk when
\* no writer is inside.
ReceiptsOK ==
    /\ ~Archive => \A b \in db.states : Receipts(b)
    /\ ~unclean \/ ~Archive => \A b \in db.states \cup cache : Unwritten(b) \/ Receipts(b)

LEMMA ReceiptsStep ==
    ASSUME ChainInv, ReceiptsOK, [Next]_vars
    PROVE  ReceiptsOK'
<1> USE DEF ChainInv, StructInv
<1>1. db \in DbType /\ current \in Blocks /\ current \in db.blocks
      /\ (write # NoWrite => write \in WriteType)
  BY DEF Types, Stored
\* No receipt is ever removed.
<1>2. ASSUME NEW b, Receipts(b), db.receipts \subseteq db'.receipts PROVE Receipts(b)'
  BY <1>2 DEF Receipts
<1>3. ASSUME db.receipts \subseteq db'.receipts, db'.states \subseteq db.states,
             db'.states \cup cache' \subseteq db.states \cup cache,
             unclean' = unclean,
             \A b \in db.states \cup cache : Unwritten(b) => Unwritten(b)' \/ Receipts(b)'
      PROVE  ReceiptsOK'
  BY <1>2, <1>3 DEF ReceiptsOK
<1>4. CASE InsertCanon
  <2>1. \A b : Unwritten(b) => Unwritten(b)'
    BY <1>4, InsertCanonFacts DEF Unwritten
  <2>2. db'.receipts = db.receipts /\ db'.states = db.states
    BY <1>4, InsertCanonFacts
  <2> QED BY <1>3, <1>4, <2>1, <2>2 DEF InsertCanon
<1>5. CASE InsertHead
  <2>1. \A b : Unwritten(b) => Unwritten(b)'
    BY <1>5, InsertHeadFacts DEF Unwritten
  <2>2. db'.receipts = db.receipts /\ db'.states = db.states
    BY <1>5, InsertHeadFacts
  <2> QED BY <1>3, <1>5, <2>1, <2>2 DEF InsertHead
<1>6. CASE ReorgLookup
  <2>1. \A b : Unwritten(b) => Unwritten(b)'
    BY <1>6, ReorgLookupFacts DEF Unwritten
  <2>2. db'.receipts = db.receipts /\ db'.states = db.states
    BY <1>6, ReorgLookupFacts
  <2> QED BY <1>3, <1>6, <2>1, <2>2 DEF ReorgLookup
<1>7. CASE ReorgDelete
  <2>1. \A b : Unwritten(b) => Unwritten(b)'
    BY <1>7, ReorgDeleteFacts DEF Unwritten
  <2>2. db'.receipts = db.receipts /\ db'.states = db.states
    BY <1>7, ReorgDeleteFacts
  <2> QED BY <1>3, <1>7, <2>1, <2>2 DEF ReorgDelete
\* The receipts of the block join those of its parent's chain.
<1>8. CASE WriteBatch
  <2> DEFINE b == write.block
  <2>1. write # NoWrite /\ write \in WriteType /\ db'.receipts = db.receipts \cup {b}
        /\ db'.states = db.states /\ cache' = cache /\ unclean' = unclean
    BY <1>8, WriteBatchFacts DEF WriteBatch
  <2>2. b \in Blocks \ {Genesis} /\ HasState(Parent(b))
    BY <2>1 DEF WriteOK, WriteType, HasBlockAndState
  <2>3. ASSUME ~unclean \/ ~Archive, NEW i \in 1..Len(Line[b]) PROVE Line[b][i] \in db'.receipts
    <3>1. Receipts(Parent(b))
      <4>1. Parent(b) # b
        BY <2>2, ParentFacts
      <4>2. ~Unwritten(Parent(b))
        BY <4>1 DEF Unwritten
      <4> QED BY <2>2, <2>3, <4>2 DEF ReceiptsOK, HasState
    <3> HIDE DEF b
    <3>2. /\ Len(Line[b]) = Len(Line[Parent(b)]) + 1 /\ Len(Line[Parent(b)]) \in Nat
          /\ Line[b][Len(Line[b])] = b
          /\ \A j \in 1..Len(Line[Parent(b)]) : Line[b][j] = Line[Parent(b)][j]
      BY <2>2, ParentFacts
    <3>3. i = Len(Line[b]) \/ i \in 1..Len(Line[Parent(b)])
      BY <2>3, <3>2
    <3> QED BY <2>1, <3>1, <3>2, <3>3 DEF Receipts
  <2>4. ASSUME NEW c \in db.states \cup cache, ~unclean \/ ~Archive PROVE Receipts(c)'
    <3>1. CASE c = b
      BY <2>3, <2>4, <3>1 DEF Receipts
    <3>2. CASE c # b
      <4>1. Receipts(c)
        BY <2>4, <3>2 DEF ReceiptsOK, Unwritten
      <4> QED BY <1>2, <2>1, <4>1
    <3> QED BY <3>1, <3>2
  <2> QED BY <2>1, <2>4 DEF ReceiptsOK
\* A writer starts.
<1>9. ASSUME NEW by \in {"miner", "importer"}, NEW b \in Blocks \ {Genesis}, WriteBlock(by, b),
             unclean' = unclean
      PROVE  ReceiptsOK'
  <2>1. /\ write = NoWrite /\ write' # NoWrite /\ write'.block = b /\ ~write'.batched
        /\ db'.receipts = db.receipts
        /\ db'.states \cup cache' = db.states \cup cache \cup {b}
        /\ ~Archive => db'.states = db.states
    BY <1>9, WriteBlockFacts
  <2>2. Unwritten(b)' /\ \A c : ~Unwritten(c)
    BY <2>1 DEF Unwritten
  <2> QED BY <1>2, <1>9, <2>1, <2>2 DEF ReceiptsOK
<1>10. ASSUME db' = db, cache' = cache, write' = write, unclean' = unclean PROVE ReceiptsOK'
  BY <1>10 DEF ReceiptsOK, Receipts, Unwritten
<1>11. ASSUME NEW chain \in Imports, InsertChain(chain) PROVE ReceiptsOK'
  BY <1>10, <1>11 DEF InsertChain
<1>12. CASE SkipKnown
  BY <1>10, <1>12 DEF SkipKnown
<1>13. CASE Accept
  BY <1>10, <1>13 DEF Accept
<1>14. CASE WriteBlockWithoutState
  <2>1. db'.receipts = db.receipts /\ db'.states = db.states
    BY <1>1, <1>14 DEF WriteBlockWithoutState, DbType
  <2>2. \A b : Unwritten(b) => Unwritten(b)'
    BY <1>14 DEF WriteBlockWithoutState, Unwritten
  <2> QED BY <1>3, <1>14, <2>1, <2>2 DEF WriteBlockWithoutState
<1>15. CASE ImportWinner
  BY <1>10, <1>15 DEF ImportWinner
<1>16. CASE Process
  <2>1. Block \in Blocks \ {Genesis}
    BY <1>16, TopFacts DEF Process, Importing
  <2> QED BY <1>9, <1>16, <2>1 DEF Process
<1>17. CASE ImportFails
  BY <1>10, <1>17 DEF ImportFails
<1>18. CASE ImportEnds
  BY <1>10, <1>18 DEF ImportEnds
<1>19. ASSUME NEW b \in pending, PostHeadEvent(b) PROVE ReceiptsOK'
  BY <1>10, <1>19 DEF PostHeadEvent
<1>20. ASSUME NEW b \in Own, CommitNewWork(b) PROVE ReceiptsOK'
  BY <1>10, <1>20 DEF CommitNewWork
<1>21. ASSUME NEW b \in Own, Sealed(b) PROVE ReceiptsOK'
  <2>1. b \in Blocks \ {Genesis}
    BY TreeAssumption
  <2> QED BY <1>9, <1>21, <2>1 DEF Sealed
\* What Stop saves has its receipts, because no writer is inside.
<1>22. CASE Stop
  <2>1. write' = NoWrite /\ write = NoWrite /\ db'.receipts = db.receipts /\ cache' = cache
        /\ db'.states \subseteq db.states \cup cache /\ unclean' = unclean
    BY <1>22, StopFacts
  <2>2. \A b : ~Unwritten(b)
    BY <2>1 DEF Unwritten
  <2> QED BY <1>2, <2>1, <2>2 DEF ReceiptsOK
<1>23. CASE Restart
  <2>1. db' = db /\ cache' = {} /\ (~unclean' => ~unclean /\ write = NoWrite)
    BY <1>23, RestartFacts
  <2> QED BY <2>1 DEF ReceiptsOK, Receipts, Unwritten
<1>24. CASE UNCHANGED vars
  BY <1>10, <1>24 DEF vars
<1> QED BY <1>4, <1>5, <1>6, <1>7, <1>8, <1>11, <1>12, <1>13, <1>14, <1>15, <1>16, <1>17,
           <1>18, <1>19, <1>20, <1>21, <1>22, <1>23, <1>24
        DEF Next, WriteStep, ImportStep

-----------------------------------------------------------------------------
(* The theorem. *)

IndexInv == ChainInv /\ LookupOK /\ ReceiptsOK

LEMMA IndexInvInit == Init => IndexInv
<1> SUFFICES ASSUME Init PROVE IndexInv
  OBVIOUS
<1>1. Genesis \in Blocks /\ Len(Line[Genesis]) = 1 /\ Line[Genesis][1] = Genesis
  BY TreeAssumption
<1>2. \A t : Home(t, Genesis) = NoBlock
  <2>1. \A t : ~Within(t, Genesis, 1, Len(Line[Genesis]))
    <3>1. \A i \in 1..1 : i = 1
      OBVIOUS
    <3> QED BY <1>1, <3>1, BodyAssumption DEF Within
  <2> QED BY <1>1, <2>1, HomeNowhere
<1>3. LookupOK
  BY <1>2 DEF Init, LookupOK, Reorging, IndexHead
<1>4. ReceiptsOK
  <2>1. \A i \in 1..Len(Line[Genesis]) : Line[Genesis][i] = Genesis
    BY <1>1
  <2> QED BY <2>1 DEF Init, ReceiptsOK, Receipts
<1> QED BY <1>3, <1>4, ChainInvInit DEF IndexInv

\* For any tree of chains of up to 128 blocks in which no transaction occurs
\* twice, whatever importer and miner do: whenever no writer is inside, the
\* lookup entries are exactly those of the head's chain until a process ends
\* uncleanly, and the receipts of the head's chain are there, on a node that
\* keeps states in memory even after the process has died at any moment.
THEOREM IndexCorrect == Spec => []IndexExact
<1>1. IndexInv /\ [Next]_vars => IndexInv'
  BY ChainInvStep, LookupStep, ReceiptsStep DEF IndexInv
<1>2. IndexInv => IndexExact
  <2> SUFFICES ASSUME IndexInv, write = NoWrite PROVE
            /\ ~unclean => \A t \in Txs : db.lookup[t] = Home(t, current)
            /\ ~unclean \/ ~Archive => ToSet(Line[current]) \subseteq db.receipts
    BY DEF IndexExact, Home
  <2>1. current \in Blocks /\ HasState(current)
    BY DEF IndexInv, ChainInv, StructInv, Types, HeadOK
  <2>2. ~unclean \/ ~Archive => Receipts(current)
    BY <2>1 DEF IndexInv, ReceiptsOK, Unwritten, HasState
  <2>3. ~unclean => \A t \in Txs : db.lookup[t] = Home(t, current)
    BY DEF IndexInv, LookupOK, Reorging, IndexHead
  <2> QED BY <2>1, <2>2, <2>3, InLine DEF Receipts
<1> QED BY <1>1, <1>2, IndexInvInit, PTL DEF Spec

-----------------------------------------------------------------------------
(* Head events. *)

\* The call has an event to send or will have one.
Progress(f) == f.lastCanon # NoBlock \/ f.heads # {}
\* The block on which the next one of the batch stands, at its end the last.
Before(f) == IF f.at <= Len(f.chain) THEN Parent(At(f)) ELSE f.chain[Len(f.chain)]
\* Batches are linked.
ChainOK(f) ==
    /\ Len(f.chain) \in Nat \ {0}
    /\ \A j \in 2..Len(f.chain) : Parent(f.chain[j]) = f.chain[j - 1]

\* A call that made a head goes on from a block with a state, and therefore
\* never starts a call within it: only the running call has events.
BatchesOK ==
    /\ \A i \in 1..Len(frames) : ChainOK(frames[i])
    /\ \A i \in 1..(Len(frames) - 1) :
        /\ ~Progress(frames[i])
        /\ frames[i + 1].chain[Len(frames[i + 1].chain)] = Parent(At(frames[i]))
    /\ frames # <<>> /\ Progress(Top) => HasState(Before(Top))

\* The events of the running call.
Events == IF frames = <<>> THEN {} ELSE Top.heads \cup {Top.lastCanon}
\* The head is announced, or somebody is about to do it.
HeadKnown ==
    write = NoWrite \/ ~write.wins =>
        current \in announced \cup aborted \cup pending \cup Events

\* States get lost with the process only.
LEMMA BatchesSame ==
    ASSUME BatchesOK, frames' = frames, db.states \cup cache \subseteq db'.states \cup cache'
    PROVE  BatchesOK'
BY DEF BatchesOK, Top, HasState, ChainOK, Progress, Before, At

LEMMA BatchesTop ==
    ASSUME Types, Nested, BatchesOK, frames # <<>>, NEW f \in FrameType, frames' = SetTop(f),
           f.chain = Top.chain, Progress(f) => Before(f) \in db'.states \cup cache'
    PROVE  BatchesOK' /\ frames' # <<>> /\ Top' = f
<1> DEFINE n == Len(frames)
<1>1. /\ frames' \in Seq(FrameType) /\ Len(frames') = n /\ frames'[n] = f
      /\ \A i \in 1..(n - 1) : frames'[i] = frames[i]
      /\ n \in Nat \ {0} /\ Top = frames[n]
  BY SetTopFacts, TopFacts DEF Top
<1>2. frames' # <<>> /\ Top' = f
  BY <1>1 DEF Top
<1> HIDE DEF n
<1>3. \A i \in 1..n : ChainOK(frames'[i])
  <2>1. \A i \in 1..n : i = n \/ i \in 1..(n - 1)
    BY <1>1
  <2>2. \A i \in 1..n : ChainOK(frames[i])
    BY DEF BatchesOK, n
  <2> QED BY <1>1, <2>1, <2>2 DEF ChainOK
<1>4. ASSUME NEW i \in 1..(n - 1)
      PROVE  /\ ~Progress(frames'[i])
             /\ frames'[i + 1].chain[Len(frames'[i + 1].chain)] = Parent(At(frames'[i]))
  <2>1. i + 1 = n \/ i + 1 \in 1..(n - 1)
    BY <1>1
  <2>2. frames'[i + 1].chain = frames[i + 1].chain
    BY <1>1, <2>1
  <2> QED BY <1>1, <2>2 DEF BatchesOK, n
<1> QED BY <1>1, <1>2, <1>3, <1>4 DEF BatchesOK, HasState, ChainOK, Progress, Before, At

\* The next block of a batch stands on this one.
LEMMA Advance ==
    ASSUME NEW f \in FrameType, NEW g \in FrameType, ChainOK(f), g.chain = f.chain,
           f.at \in 1..Len(f.chain), g.at = f.at + 1
    PROVE  Before(g) = At(f)
<1> DEFINE n == Len(f.chain)
<1>1. n \in Nat
  BY DEF FrameType
<1>2. CASE f.at = n
  <2>1. ~(g.at <= n)
    BY <1>1, <1>2
  <2> QED BY <1>2, <2>1 DEF Before, At
<1>3. CASE f.at # n
  <2>1. g.at \in 2..n /\ g.at <= n /\ g.at - 1 = f.at
    BY <1>1, <1>3
  <2> QED BY <2>1 DEF Before, At, ChainOK
<1> QED BY <1>2, <1>3

LEMMA BatchesStep ==
    ASSUME ChainInv, BatchesOK, [Next]_vars
    PROVE  BatchesOK'
<1> USE DEF ChainInv, StructInv
<1>1. db \in DbType /\ current \in Blocks /\ (write # NoWrite => write \in WriteType)
      /\ NoBlock \notin Blocks
  BY TreeAssumption DEF Types
<1>2. ASSUME frames # <<>>
      PROVE  /\ Top \in FrameType /\ ChainOK(Top) /\ Top = frames[Len(frames)]
             /\ Top.at <= Len(Top.chain) => Top.at \in 1..Len(Top.chain) /\ Block = At(Top)
  <2>1. Top \in FrameType /\ FrameOK(Top, db.blocks) /\ Len(frames) \in 1..Len(frames)
        /\ Top = frames[Len(frames)]
    BY <1>2, TopFacts DEF Top
  <2> QED BY <2>1 DEF BatchesOK, FrameOK, Block, At, FrameType
<1>3. ASSUME write # NoWrite, NEW won \in BOOLEAN, Return(won),
             db'.states \cup cache' = db.states \cup cache
      PROVE  BatchesOK'
  <2>1. CASE write.by = "miner"
    <3>1. frames' = frames
      BY <1>3, <2>1, ReturnFrames
    <3> QED BY <1>3, <3>1, BatchesSame
  <2>2. CASE write.by = "importer"
    <3>1. PICK f \in FrameType : frames # <<>> /\ frames' = SetTop(f) /\ f.chain = Top.chain
                                /\ f.at = Top.at + 1
      BY <1>3, <2>2, ReturnFrames
    <3>2. Top.doing = "process" /\ write.block = At(Top) /\ HasState(write.block)
      BY <1>3, <2>2 DEF WriteOK
    <3>3. Top.at <= Len(Top.chain)
      BY <3>1, <3>2, TopFacts DEF FrameOK
    <3>4. Before(f) = write.block
      BY <1>2, <3>1, <3>2, <3>3, Advance
    <3> QED BY <1>3, <3>1, <3>2, <3>4, BatchesTop DEF HasState
  <2> QED BY <1>1, <1>3, <2>1, <2>2 DEF WriteType
<1>4. CASE InsertCanon
  BY <1>4, InsertCanonFacts, BatchesSame DEF InsertCanon
<1>5. CASE InsertHead
  <2>1. db'.states = db.states /\ cache' = cache
        /\ (frames' = frames \/ (write # NoWrite /\ Return(TRUE)))
    BY <1>5, InsertHeadFacts DEF InsertHead
  <2> QED BY <1>3, <2>1, BatchesSame
<1>6. CASE ReorgLookup
  BY <1>6, ReorgLookupFacts, BatchesSame DEF ReorgLookup
<1>7. CASE ReorgDelete
  BY <1>7, ReorgDeleteFacts, BatchesSame DEF ReorgDelete
<1>8. CASE WriteBatch
  <2>1. db'.states = db.states /\ cache' = cache
        /\ (frames' = frames \/ (write # NoWrite /\ Return(FALSE)))
    BY <1>8, WriteBatchFacts DEF WriteBatch
  <2> QED BY <1>3, <2>1, BatchesSame
<1>9. ASSUME NEW chain \in Imports, InsertChain(chain) PROVE BatchesOK'
  <2>1. frames' = <<Frame(chain)>>
    BY <1>9 DEF InsertChain
  <2>2. Frame(chain).chain = chain /\ ~Progress(Frame(chain)) /\ ChainOK(Frame(chain))
    BY ImportsFacts DEF Progress, ChainOK
  <2> DEFINE f == Frame(chain)
  <2> HIDE DEF f
  <2>3. Len(frames') = 1 /\ frames'[1] = f
    BY <2>1 DEF f
  <2>4. ChainOK(f) /\ ~Progress(f)
    BY <2>2 DEF f
  <2>5. \A i \in 1..Len(frames') : frames'[i] = f
    BY <2>3
  <2>6. \A i \in 1..(Len(frames') - 1) : FALSE
    BY <2>3
  <2>7. Top' = f
    BY <2>3 DEF Top
  <2> QED BY <2>4, <2>5, <2>6, <2>7 DEF BatchesOK, ChainOK, Progress
<1>10. CASE SkipKnown
  <2>1. Importing("next") /\ frames # <<>> /\ Top.at <= Len(Top.chain) /\ HasState(Block)
    BY <1>10 DEF SkipKnown, Importing, HasBlockAndState
  <2>2. PICK f \in FrameType : frames' = SetTop(f) /\ f.chain = Top.chain /\ f.at = Top.at + 1
    BY <1>10, <2>1, SkipFacts DEF SkipKnown
  <2>3. Before(f) = Block
    BY <1>2, <2>1, <2>2, Advance
  <2> QED BY <1>10, <2>1, <2>2, <2>3, BatchesTop DEF HasState, SkipKnown
<1>11. CASE Accept
  <2> DEFINE f == [Top EXCEPT !.doing = "process"]
  <2>1. frames # <<>> /\ Top.at <= Len(Top.chain) /\ frames' = SetTop(f)
        /\ db' = db /\ cache' = cache
    BY <1>11 DEF Accept, Importing
  <2>2. f \in FrameType /\ f.chain = Top.chain /\ f.at = Top.at
        /\ f.lastCanon = Top.lastCanon /\ f.heads = Top.heads
    BY <2>1, ProcessFrame
  <2> HIDE DEF f
  <2>3. Progress(f) => Before(f) \in db.states \cup cache
    BY <2>1, <2>2 DEF BatchesOK, Progress, Before, At, HasState
  <2> QED BY <2>1, <2>2, <2>3, BatchesTop
\* Nothing was written in this batch so far: the parent would have its state.
<1>12. ASSUME PrunedAncestor PROVE frames # <<>> /\ Top.at <= Len(Top.chain) /\ ~Progress(Top)
  <2>1. frames # <<>> /\ Top.at <= Len(Top.chain) /\ ~HasState(Parent(Block))
    BY <1>12 DEF PrunedAncestor, Importing
  <2>2. Before(Top) = Parent(Block)
    BY <2>1 DEF Before, Block, At
  <2> QED BY <2>1, <2>2 DEF BatchesOK
<1>13. CASE WriteBlockWithoutState
  <2>1. PrunedAncestor /\ Importing("next")
    BY <1>13 DEF WriteBlockWithoutState, PrunedAncestor
  <2>2. PICK f \in FrameType :
            /\ frames # <<>> /\ frames' = SetTop(f) /\ f.chain = Top.chain
            /\ f.lastCanon = Top.lastCanon /\ f.heads = Top.heads
    BY <1>13, <2>1, SkipFacts DEF WriteBlockWithoutState
  <2>3. ~Progress(f)
    BY <1>12, <2>1, <2>2 DEF Progress
  <2> QED BY <2>2, <2>3, BatchesTop
<1>14. CASE ImportWinner
  <2> DEFINE f == [Top EXCEPT !.doing = "process"]
             n == Len(frames)
  <2>1. PrunedAncestor /\ frames # <<>> /\ Top.at <= Len(Top.chain) /\ ~Progress(Top)
    BY <1>12, <1>14 DEF ImportWinner
  <2>2. PICK chain \in Seq(Blocks) :
            /\ frames' = Append(SetTop(f), Frame(chain))
            /\ Len(chain) \in Nat \ {0}
            /\ \A j \in 1..Len(chain) : chain[j] \in db.blocks /\ chain[j] # Genesis
            /\ chain[Len(chain)] = Parent(Block)
            /\ \A j \in 2..Len(chain) : Parent(chain[j]) = chain[j - 1]
    BY <1>14, ImportWinnerFacts
  <2>3. f \in FrameType /\ f.chain = Top.chain /\ f.at = Top.at
        /\ f.lastCanon = Top.lastCanon /\ f.heads = Top.heads
    BY <2>1, ProcessFrame
  <2> DEFINE g == Frame(chain)
             s == SetTop(f)
  <2>4. /\ g \in FrameType /\ g.chain = chain /\ g.lastCanon = NoBlock /\ g.heads = {}
    BY <2>2, NewFrame
  <2>5. n \in Nat \ {0} /\ Top = frames[n]
    BY <2>1, TopFacts DEF Top
  <2> HIDE DEF f, g
  <2>6. s \in Seq(FrameType) /\ Len(s) = n /\ s[n] = f /\ \A i \in 1..(n - 1) : s[i] = frames[i]
    <3>1. frames \in Seq(FrameType)
      BY DEF Types
    <3> QED BY <2>3, <2>5, <3>1 DEF SetTop
  <2>7. frames' = Append(s, g)
    BY <2>2 DEF g
  <2> HIDE DEF s, n
  <2>8. /\ Len(frames') = n + 1 /\ frames'[n + 1] = g /\ frames'[n] = f
        /\ \A i \in 1..(n - 1) : frames'[i] = frames[i]
    <3>1. Len(Append(s, g)) = n + 1 /\ Append(s, g)[n + 1] = g
          /\ \A i \in 1..n : Append(s, g)[i] = s[i]
      BY <2>4, <2>6, PushFacts
    <3> QED BY <2>5, <2>6, <2>7, <3>1
  <2>9. ChainOK(f) /\ ChainOK(g) /\ ~Progress(f) /\ ~Progress(g) /\ At(f) = Block
    BY <1>2, <2>1, <2>2, <2>3, <2>4 DEF ChainOK, Progress, At, Block
  <2>10. \A i \in 1..(n + 1) : ChainOK(frames'[i])
    <3>1. \A i \in 1..(n + 1) : i \in 1..(n - 1) \/ i = n \/ i = n + 1
      BY <2>5
    <3>2. \A i \in 1..(n - 1) : ChainOK(frames[i])
      BY <2>5 DEF BatchesOK, n
    <3> QED BY <2>8, <2>9, <3>1, <3>2
  <2>11. ASSUME NEW i \in 1..n
         PROVE  /\ ~Progress(frames'[i])
                /\ frames'[i + 1].chain[Len(frames'[i + 1].chain)] = Parent(At(frames'[i]))
    <3>1. CASE i = n
      BY <2>2, <2>4, <2>8, <2>9, <3>1
    <3>2. CASE i # n
      <4>1. i \in 1..(n - 1) /\ (i + 1 = n \/ i + 1 \in 1..(n - 1))
        BY <2>5, <3>2
      <4>2. frames'[i + 1].chain = frames[i + 1].chain
        BY <2>3, <2>5, <2>8, <4>1
      <4> QED BY <2>8, <4>1, <4>2 DEF BatchesOK, n
    <3> QED BY <3>1, <3>2
  <2>12. Top' = g /\ Len(frames') - 1 = n
    BY <2>5, <2>8 DEF Top
  <2> QED BY <2>8, <2>9, <2>10, <2>11, <2>12 DEF BatchesOK, ChainOK, Progress, At
<1>15. CASE Process
  <2>1. Block \in Blocks \ {Genesis}
    BY <1>15, TopFacts DEF Process, Importing
  <2> QED BY <1>15, <2>1, WriteBlockFacts, BatchesSame DEF Process
<1>16. CASE ImportFails
  BY <1>16 DEF ImportFails, BatchesOK
\* The caller goes on from the last block of the call that ended.
<1>17. CASE ImportEnds
  <2> DEFINE n == Len(frames)
             heads == Top.heads \cup ({Top.lastCanon} \cap {current})
  <2>1. frames # <<>> /\ Top.at > Len(Top.chain) /\ db' = db /\ cache' = cache
    BY <1>17 DEF ImportEnds
  <2>2. n \in Nat \ {0} /\ Top = frames[n] /\ Top \in FrameType /\ Len(Top.chain) \in Nat
    BY <2>1, TopFacts DEF Top
  <2>3. CASE frames' = <<>>
    BY <2>3 DEF BatchesOK
  <2>4. CASE frames' # <<>>
    <3>1. /\ n > 1 /\ Len(frames') = n - 1
          /\ \A i \in 1..(n - 1) :
                /\ frames'[i].chain = frames[i].chain /\ frames'[i].at = frames[i].at
                /\ frames'[i].lastCanon = frames[i].lastCanon
                /\ frames'[i].heads = IF i < n - 1 THEN frames[i].heads ELSE heads
      BY <1>17, <2>4, ImportEndsFacts
    <3> DEFINE m == n - 1
               g == frames'[m]
    <3>2. frames[m].doing = "process" /\ FrameOK(frames[m], db.blocks)
      <4>1. m \in 1..n /\ n \in 1..n /\ m < n
        BY <2>2, <3>1
      <4> QED BY <4>1 DEF Nested
    <3> HIDE DEF n
    <3>3. m \in 1..(n - 1) /\ m \in Nat /\ m + 1 = n
      BY <2>2, <3>1
    <3>4. g.chain = frames[m].chain /\ g.at = frames[m].at /\ g.heads = heads
          /\ g.lastCanon = NoBlock /\ Before(g) = Parent(At(frames[m]))
      <4>1. g.chain = frames[m].chain /\ g.at = frames[m].at /\ g.heads = heads
            /\ g.lastCanon = frames[m].lastCanon
        <5>1. ~(m < n - 1)
          BY <3>3
        <5> QED BY <3>1, <3>3, <5>1
      <4>2. frames[m].lastCanon = NoBlock
        BY <3>3 DEF BatchesOK, Progress, n
      <4>3. g.at <= Len(g.chain)
        BY <3>2, <4>1 DEF FrameOK
      <4> QED BY <4>1, <4>2, <4>3 DEF Before, At
    <3>5. Progress(g) => Before(g) \in db.states \cup cache
      <4> SUFFICES ASSUME Progress(g) PROVE Before(g) \in db.states \cup cache
        OBVIOUS
      <4>1. heads # {}
        BY <3>4 DEF Progress
      <4>2. Progress(Top)
        BY <1>1, <4>1 DEF Progress
      <4>3. ~(Top.at <= Len(Top.chain))
        BY <2>1, <2>2 DEF FrameType
      <4>4. HasState(Top.chain[Len(Top.chain)])
        BY <2>1, <4>2, <4>3 DEF BatchesOK, Before
      <4>5. frames[m + 1].chain[Len(frames[m + 1].chain)] = Parent(At(frames[m]))
        BY <3>3 DEF BatchesOK, n
      <4> QED BY <2>2, <3>3, <3>4, <4>4, <4>5 DEF HasState
    <3>6. \A i \in 1..m : ChainOK(frames'[i])
      <4>1. \A i \in 1..m : i \in 1..n
        BY <3>3
      <4>2. \A i \in 1..m : ChainOK(frames[i])
        BY <4>1 DEF BatchesOK, n
      <4> QED BY <3>1, <4>2 DEF ChainOK
    <3>7. ASSUME NEW i \in 1..(m - 1)
          PROVE  /\ ~Progress(frames'[i])
                 /\ frames'[i + 1].chain[Len(frames'[i + 1].chain)] = Parent(At(frames'[i]))
      <4>1. i \in 1..(n - 1) /\ i < n - 1 /\ i + 1 \in 1..(n - 1)
        BY <3>3
      <4>2. /\ ~Progress(frames[i])
            /\ frames[i + 1].chain[Len(frames[i + 1].chain)] = Parent(At(frames[i]))
        BY <4>1 DEF BatchesOK, n
      <4> QED BY <3>1, <4>1, <4>2 DEF Progress, At
    <3>8. Top' = g /\ Len(frames') = m
      BY <3>1 DEF Top
    <3> QED BY <2>1, <3>5, <3>6, <3>7, <3>8 DEF BatchesOK, HasState, ChainOK, Progress, Before, At
  <2> QED BY <2>3, <2>4
<1>18. ASSUME NEW b \in pending, PostHeadEvent(b) PROVE BatchesOK'
  BY <1>18, BatchesSame DEF PostHeadEvent
<1>19. ASSUME NEW b \in Own, CommitNewWork(b) PROVE BatchesOK'
  BY <1>19, BatchesSame DEF CommitNewWork
<1>20. ASSUME NEW b \in Own, Sealed(b) PROVE BatchesOK'
  <2>1. b \in Blocks \ {Genesis}
    BY TreeAssumption
  <2> QED BY <1>20, <2>1, WriteBlockFacts, BatchesSame DEF Sealed
<1>21. CASE Stop
  BY <1>21 DEF Stop, BatchesOK
<1>22. CASE Restart
  BY <1>22 DEF Restart, LoadLastState, BatchesOK
<1>23. CASE UNCHANGED vars
  BY <1>23, BatchesSame DEF vars
<1> QED BY <1>4, <1>5, <1>6, <1>7, <1>8, <1>9, <1>10, <1>11, <1>13, <1>14, <1>15, <1>16,
           <1>17, <1>18, <1>19, <1>20, <1>21, <1>22, <1>23
        DEF Next, WriteStep, ImportStep

LEMMA HeadKnownStep ==
    ASSUME ChainInv, BatchesOK, HeadKnown, ~stopped, [Next]_vars
    PROVE  stopped' \/ HeadKnown'
<1> USE DEF ChainInv, StructInv
<1>1. db \in DbType /\ current \in Blocks /\ (write # NoWrite => write \in WriteType)
      /\ NoBlock \notin Blocks
  BY TreeAssumption DEF Types
\* Nobody writes the head, and no event gets lost.
<1>2. ASSUME current' = current, write' = write,
             announced \cup aborted \cup pending \cup Events
                \subseteq announced' \cup aborted' \cup pending' \cup Events' \cup {NoBlock}
      PROVE  HeadKnown'
  BY <1>1, <1>2 DEF HeadKnown
<1>3. ASSUME frames' = frames PROVE Events' = Events
  BY <1>3 DEF Events, Top
<1>4. CASE InsertCanon
  BY <1>3, <1>4, InsertCanonFacts DEF InsertCanon, HeadKnown
\* The writer is done: the miner posts the event, the importer keeps it.
<1>5. CASE InsertHead
  <2>1. write # NoWrite /\ write \in WriteType /\ write.step = "head"
        /\ current' = Head(write.todo)
        /\ (\/ write.batched /\ Return(TRUE)
            \/ ~write.batched /\ write' # NoWrite /\ write'.wins = write.wins)
    BY <1>1, <1>5, InsertHeadFacts
  <2>2. write.wins
    BY <2>1 DEF WriteOK, WriteType
  <2>3. CASE ~write.batched
    BY <2>1, <2>2, <2>3 DEF HeadKnown
  <2>4. CASE write.batched
    <3>1. current' = write.block /\ Return(TRUE)
      <4>1. write.todo = <<write.block>>
        BY <2>1, <2>4 DEF WriteOK
      <4>2. Return(TRUE)
        BY <2>1, <2>4, Zenon
      <4>3. Head(<<write.block>>) = write.block
        OBVIOUS
      <4> QED BY <2>1, <4>1, <4>2, <4>3, Zenon
    <3>2. CASE write.by = "miner"
      BY <3>1, <3>2 DEF Return, MinedHead, HeadKnown
    <3>3. CASE write.by = "importer"
      <4>1. PICK f \in FrameType : /\ frames # <<>> /\ frames' = SetTop(f)
                                   /\ f.lastCanon = write.block
        BY <2>1, <3>1, <3>3, ReturnFrames
      <4>2. frames' # <<>> /\ Top' = f
        <5>1. Len(frames') = Len(frames) /\ frames'[Len(frames)] = f /\ Len(frames) \in Nat \ {0}
          BY <4>1, SetTopFacts, TopFacts
        <5> QED BY <5>1 DEF Top
      <4>3. write.block \in Events'
        BY <4>1, <4>2 DEF Events
      <4> QED BY <3>1, <4>3 DEF HeadKnown
    <3> QED BY <2>1, <3>2, <3>3 DEF WriteType
  <2> QED BY <2>3, <2>4
<1>6. CASE ReorgLookup
  BY <1>3, <1>6, ReorgLookupFacts DEF ReorgLookup, HeadKnown
<1>7. CASE ReorgDelete
  BY <1>3, <1>7, ReorgDeleteFacts DEF ReorgDelete, HeadKnown
<1>8. CASE WriteBatch
  <2>1. write # NoWrite /\ write \in WriteType /\ current' = current
        /\ announced' = announced /\ aborted' = aborted
        /\ (\/ ~write.wins /\ Return(FALSE)
            \/ write.wins /\ write' # NoWrite /\ write'.wins = write.wins)
    BY <1>8, WriteBatchFacts DEF WriteBatch
  <2>2. CASE write.wins
    BY <2>1, <2>2 DEF HeadKnown
  <2>3. CASE ~write.wins
    <3>1. Return(FALSE) /\ write' = NoWrite
      BY <2>1, <2>3 DEF Return
    <3>2. CASE write.by = "miner"
      <4>1. frames' = frames /\ pending' = pending
        BY <3>1, <3>2 DEF Return, MinedHead
      <4> QED BY <1>3, <2>1, <2>3, <4>1 DEF HeadKnown
    <3>3. CASE write.by = "importer"
      <4>1. PICK f \in FrameType : /\ frames # <<>> /\ frames' = SetTop(f) /\ pending' = pending
                                   /\ f.heads = Top.heads /\ f.lastCanon = Top.lastCanon
        BY <2>1, <3>1, <3>3, ReturnFrames
      <4>2. frames' # <<>> /\ Top' = f
        <5>1. Len(frames') = Len(frames) /\ frames'[Len(frames)] = f /\ Len(frames) \in Nat \ {0}
          BY <4>1, SetTopFacts, TopFacts
        <5> QED BY <5>1 DEF Top
      <4>3. Events' = Events
        BY <4>1, <4>2 DEF Events
      <4> QED BY <2>1, <2>3, <4>1, <4>3 DEF HeadKnown
    <3> QED BY <2>1, <3>2, <3>3 DEF WriteType
  <2> QED BY <2>2, <2>3
\* A writer starts.
<1>9. ASSUME NEW by \in {"miner", "importer"}, NEW b \in Blocks \ {Genesis}, WriteBlock(by, b),
             UNCHANGED <<current, frames, pending, announced, aborted>>
      PROVE  HeadKnown'
  <2>1. write = NoWrite
    BY <1>9, WriteBlockFacts
  <2> QED BY <1>3, <1>9, <2>1 DEF HeadKnown
<1>10. ASSUME NEW chain \in Imports, InsertChain(chain) PROVE HeadKnown'
  <2>1. frames = <<>>
    BY <1>10 DEF InsertChain
  <2>2. Events = {}
    BY <2>1 DEF Events
  <2> QED BY <1>2, <1>10, <2>2 DEF InsertChain
\* The running call goes on with the events that it has.
<1>11. ASSUME NEW f \in FrameType, frames # <<>>, frames' = SetTop(f),
              f.heads = Top.heads, f.lastCanon = Top.lastCanon
       PROVE  Events' = Events
  <2>1. frames' # <<>> /\ Top' = f
    <3>1. Len(frames') = Len(frames) /\ frames'[Len(frames)] = f /\ Len(frames) \in Nat \ {0}
      BY <1>11, SetTopFacts, TopFacts
    <3> QED BY <3>1 DEF Top
  <2> QED BY <1>11, <2>1 DEF Events
<1>12. CASE SkipKnown
  <2>1. Events' = Events
    BY <1>11, <1>12, SkipFacts DEF SkipKnown
  <2> QED BY <1>2, <1>12, <2>1 DEF SkipKnown
<1>13. CASE Accept
  <2>1. frames # <<>> /\ Top.at <= Len(Top.chain)
        /\ frames' = SetTop([Top EXCEPT !.doing = "process"])
    BY <1>13 DEF Accept, Importing
  <2>2. Events' = Events
    BY <1>11, <2>1, ProcessFrame
  <2> QED BY <1>2, <1>13, <2>2 DEF Accept
<1>14. CASE WriteBlockWithoutState
  <2>1. Importing("next") /\ frames' = SetTop([Top EXCEPT !.at = @ + 1])
    BY <1>14 DEF WriteBlockWithoutState, PrunedAncestor
  <2>2. Events' = Events
    BY <1>11, <2>1, SkipFacts
  <2> QED BY <1>2, <1>14, <2>2 DEF WriteBlockWithoutState
\* The call that starts another one has no events.
<1>15. CASE ImportWinner
  <2>1. frames # <<>> /\ Top.at <= Len(Top.chain) /\ ~HasState(Parent(Block))
    BY <1>15 DEF ImportWinner, PrunedAncestor, Importing
  <2>2. Before(Top) = Parent(Block)
    BY <2>1 DEF Before, Block, At
  <2>3. ~Progress(Top)
    BY <2>1, <2>2 DEF BatchesOK
  <2>4. Events \subseteq {NoBlock}
    BY <2>1, <2>3 DEF Events, Progress
  <2> QED BY <1>2, <1>15, <2>4 DEF ImportWinner
<1>16. CASE Process
  <2>1. Block \in Blocks \ {Genesis}
    BY <1>16, TopFacts DEF Process, Importing
  <2> QED BY <1>9, <1>16, <2>1 DEF Process
<1>17. CASE ImportFails
  <2>1. frames # <<>> /\ pending' = pending \cup Top.heads /\ announced' = announced
        /\ aborted' = aborted \cup ({frames[i].lastCanon : i \in DOMAIN frames} \ {NoBlock})
    BY <1>17 DEF ImportFails, Importing
  <2>2. Len(frames) \in DOMAIN frames /\ Top = frames[Len(frames)]
    BY <2>1, TopFacts DEF Top, Types
  <2>3. Top.lastCanon \in aborted' \cup {NoBlock}
    BY <2>1, <2>2
  <2>4. Events \subseteq pending' \cup aborted' \cup {NoBlock}
    BY <2>1, <2>3 DEF Events
  <2> QED BY <1>2, <1>17, <2>1, <2>4 DEF ImportFails
\* The event for the last head of the call, if it is still the head.
<1>18. CASE ImportEnds
  <2> DEFINE heads == Top.heads \cup ({Top.lastCanon} \cap {current})
  <2>1. frames # <<>> /\ announced' = announced /\ aborted' = aborted /\ current' = current
        /\ write' = write
    BY <1>18 DEF ImportEnds
  <2>2. Len(frames) \in Nat \ {0}
    BY <2>1, TopFacts
  <2>3. heads \subseteq pending' \cup Events' /\ pending \subseteq pending'
    <3>1. CASE frames' = <<>>
      <4>1. ~(Len(frames) > 1 /\ Len(frames') = Len(frames) - 1)
        <5>1. Len(frames') = 0
          BY <3>1
        <5>2. \A n \in Nat \ {0} : ~(n > 1 /\ 0 = n - 1)
          OBVIOUS
        <5> QED BY <2>2, <5>1, <5>2
      <4>2. pending' = pending \cup heads
        <5>1. \/ frames' = <<>> /\ pending' = pending \cup heads
              \/ Len(frames) > 1 /\ Len(frames') = Len(frames) - 1
          BY <1>18, ImportEndsFacts
        <5> QED BY <4>1, <5>1
      <4> QED BY <4>2
    <3>2. CASE frames' # <<>>
      <4>1. /\ Len(frames) > 1 /\ Len(frames') = Len(frames) - 1 /\ pending' = pending
            /\ \A i \in 1..(Len(frames) - 1) :
                frames'[i].heads = IF i < Len(frames) - 1 THEN frames[i].heads ELSE heads
        BY <1>18, <3>2, ImportEndsFacts
      <4>2. Len(frames) - 1 \in 1..(Len(frames) - 1) /\ ~(Len(frames) - 1 < Len(frames) - 1)
        BY <2>2, <4>1
      <4>3. Top'.heads = heads
        BY <4>1, <4>2 DEF Top
      <4> QED BY <3>2, <4>1, <4>3 DEF Events
    <3> QED BY <3>1, <3>2
  <2>4. current \in Events => current \in heads
    BY <2>1 DEF Events
  <2> HIDE DEF heads
  <2> QED BY <2>1, <2>3, <2>4 DEF HeadKnown
<1>19. ASSUME NEW b \in pending, PostHeadEvent(b) PROVE HeadKnown'
  BY <1>2, <1>3, <1>19 DEF PostHeadEvent
<1>20. ASSUME NEW b \in Own, CommitNewWork(b) PROVE HeadKnown'
  BY <1>2, <1>3, <1>20 DEF CommitNewWork
<1>21. ASSUME NEW b \in Own, Sealed(b) PROVE HeadKnown'
  <2>1. b \in Blocks \ {Genesis}
    BY TreeAssumption
  <2> QED BY <1>9, <1>21, <2>1 DEF Sealed
<1>22. CASE Stop
  BY <1>22 DEF Stop
<1>23. CASE Restart
  BY <1>23 DEF Restart, LoadLastState, HeadKnown
<1>24. CASE UNCHANGED vars
  BY <1>2, <1>3, <1>24 DEF vars
<1> QED BY <1>4, <1>5, <1>6, <1>7, <1>8, <1>10, <1>12, <1>13, <1>14, <1>15, <1>16, <1>17,
           <1>18, <1>19, <1>20, <1>21, <1>22, <1>23, <1>24
        DEF Next, WriteStep, ImportStep

EventInv == ChainInv /\ BatchesOK /\ (stopped \/ HeadKnown)

\* Only the next start ends what Stop has begun.
LEMMA StoppedStays ==
    ASSUME [Next]_vars, stopped PROVE stopped' \/ HeadKnown'
<1>1. CASE Restart
  BY <1>1 DEF Restart, LoadLastState, HeadKnown
<1>2. CASE Stop
  BY <1>2 DEF Stop
<1> QED BY <1>1, <1>2
        DEF Next, WriteStep, InsertCanon, InsertHead, ReorgLookup, ReorgDelete, WriteBatch,
            ImportStep, InsertChain, SkipKnown, Accept, WriteBlockWithoutState, ImportWinner,
            Process, ImportFails, ImportEnds, PostHeadEvent, CommitNewWork, Sealed, vars

\* For any tree of chains of up to 128 blocks and any batches: when nobody works
\* and no event is on its way, the head was announced to the pool and the
\* miner, or it was made by an import that failed afterwards, unless the node
\* is being stopped.
THEOREM HeadsAreAnnounced == Spec => []HeadAnnounced
<1>1. Init => EventInv
  <2> SUFFICES ASSUME Init PROVE BatchesOK /\ HeadKnown
    BY ChainInvInit DEF EventInv
  <2>1. \A i \in 1..Len(<<>>) : FALSE
    OBVIOUS
  <2>2. \A i \in 1..(Len(<<>>) - 1) : FALSE
    OBVIOUS
  <2> QED BY <2>1, <2>2 DEF Init, BatchesOK, HeadKnown
<1>2. EventInv /\ [Next]_vars => EventInv'
  BY ChainInvStep, BatchesStep, HeadKnownStep, StoppedStays DEF EventInv
<1>3. EventInv => HeadAnnounced
  BY DEF EventInv, HeadKnown, HeadAnnounced, Events
<1> QED BY <1>1, <1>2, <1>3, PTL DEF Spec

=============================================================================
