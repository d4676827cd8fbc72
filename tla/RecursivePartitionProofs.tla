---------------------- MODULE RecursivePartitionProofs ----------------------
(***************************************************************************)
(* For every world size, every plan and whatever steps the ranks start     *)
(* from, the recursive-partition transport never leaves its ranks waiting  *)
(* on each other.                                                          *)
(*                                                                         *)
(* The numbering all ranks follow: chunk, round, direction (batches going  *)
(* up the ranks before batches going down), sender, receiver.  A batch has *)
(* the same length on both its sides only because the ranks have agreed on *)
(* the step and on the number of chunks.                                   *)
(*                                                                         *)
(* When the number of ranks is a power of two, nothing is dropped and      *)
(* nothing is moved twice: two ranks are in one partition until the round  *)
(* that takes them apart, and that is the one round they meet in.          *)
(***************************************************************************)
EXTENDS RecursivePartition, Integers, WellFoundedInduction, TLAPS

Direction(b) == IF Sender(b) < Receiver(b) THEN 1 ELSE 2

\* Chunk, round and direction in one number.
Turn(b) == (ChunkOf(b) * (WorldSize + 1) + RoundOf(b)) * 2 + Direction(b)

BatchKey(b) == (Turn(b) * WorldSize + Sender(b)) * WorldSize + Receiver(b)

Key == [b \in Batch |-> BatchKey(b)]

\* What is left of a program is part of it.
WithinProgram ==
  \A r \in InferRank :
    left[r] \subseteq IF phase = "run" THEN Batches(plan, step[r], chunks[r], r) ELSE {}

\* What the two all_reduce calls establish.
Aligned ==
  /\ phase # "step" => \A r, q \in InferRank : step[r] = step[q]
  /\ phase = "run" => \A r, q \in InferRank : chunks[r] = chunks[q]

\* The all_reduce of the number of chunks leaves no rank with too few.
EnoughChunks == phase = "run" => \A r \in InferRank : NumChunks(plan, step[r], r) <= chunks[r]

IInv == TypeOK /\ Group!Symmetric /\ WithinProgram /\ Aligned /\ EnoughChunks

-----------------------------------------------------------------------------
\* A non-empty set of numbers has a lowest one,
LEMMA LeastNumber ==
  ASSUME NEW T \in SUBSET Nat, T # {}
  PROVE  \E n \in T : \A m \in T : n <= m
<1> DEFINE R == {p \in Nat \X Nat : p[1] < p[2]}
<1>1. IsWellFoundedOn(R, Nat)
  BY NatLessThanWellFounded DEF OpToRel
<1>2. PICK n \in T : \A m \in T : ~ (<<m, n>> \in R)
  BY <1>1, WFMin
<1>3. ASSUME NEW m \in T PROVE n <= m
  <2>1. <<m, n>> \in R <=> m < n
    OBVIOUS
  <2> QED
    BY <1>2, <2>1
<1> QED
  BY <1>3

\* one with a bound a highest one,
LEMMA GreatestNumber ==
  ASSUME NEW N \in Nat, NEW T \in SUBSET (0 .. N), T # {}
  PROVE  \E n \in T : \A m \in T : m <= n
<1> DEFINE U == {i \in 0 .. N : N - i \in T}
<1>1. U \in SUBSET Nat /\ U # {}
  <2>1. PICK m \in T : m \in 0 .. N
    OBVIOUS
  <2>2. N - m \in 0 .. N /\ N - (N - m) = m
    BY <2>1
  <2>3. N - m \in U
    BY <2>2
  <2>4. U \subseteq Nat
    OBVIOUS
  <2> QED
    BY <2>3, <2>4
<1>2. PICK u \in U : \A v \in U : u <= v
  BY <1>1, LeastNumber
<1>3. ASSUME NEW m \in T PROVE m <= N - u
  <2>1. m \in 0 .. N /\ N - m \in 0 .. N /\ N - (N - m) = m
    OBVIOUS
  <2>2. u <= N - m /\ u \in 0 .. N
    BY <1>2, <2>1
  <2> QED
    BY <2>1, <2>2
<1> QED
  BY <1>2, <1>3

\* and a non-empty set of numbered calls has one of lowest number.
LEMMA LowestCall ==
  ASSUME NEW key \in [Batch -> Nat], NEW T \in SUBSET Batch, T # {}
  PROVE  \E o \in T : \A c \in T : key[o] <= key[c]
<1> DEFINE K == {key[o] : o \in T}
<1>1. K \in SUBSET Nat /\ K # {}
  OBVIOUS
<1>2. PICK n \in K : \A m \in K : n <= m
  BY <1>1, LeastNumber
<1> QED
  BY <1>2

\* The argument of the transports: a call that is left has its counterparts
\* left, and a common numbering makes the lowest one next on all its ranks.
LEMMA CommonOrderNeverStuck ==
  ASSUME NEW key \in [Batch -> Nat], Group!TypeOK, Group!Symmetric, Group!CommonOrder(key)
  PROVE  Group!NeverStuck
<1> DEFINE Remaining == UNION {left[r] : r \in InferRank}
<1>1. CASE Remaining = {}
  BY <1>1 DEF Group!NeverStuck, Group!Done
<1>2. CASE Remaining # {}
  <2>1. Remaining \in SUBSET Batch
    BY DEF Group!TypeOK
  <2>2. PICK o \in Remaining : \A c \in Remaining : key[o] <= key[c]
    BY <1>2, <2>1, LowestCall
  <2>3. PICK r \in InferRank : o \in left[r]
    BY <2>2
  <2>4. BatchParts(o) # {} /\ BatchParts(o) \subseteq InferRank
    BY <2>3 DEF Group!Symmetric
  <2>5. ASSUME NEW q \in BatchParts(o) PROVE Group!At(q, o)
    <3>1. q \in InferRank /\ o \in left[q]
      BY <2>3, <2>4 DEF Group!Symmetric
    <3>2. \A c \in left[q] : BatchOrder(q, o) <= BatchOrder(q, c)
      BY <2>2, <3>1 DEF Group!CommonOrder
    <3> QED
      BY <3>1, <3>2 DEF Group!At
  <2> QED
    BY <2>1, <2>4, <2>5 DEF Group!NeverStuck, Group!Ready
<1> QED
  BY <1>1, <1>2

\* A completed call leaves on all its participants at once.
LEMMA StepPreserves ==
  ASSUME Group!TypeOK, Group!Symmetric, Group!Next
  PROVE  Group!TypeOK' /\ Group!Symmetric' /\ \A r \in InferRank : left'[r] \subseteq left[r]
<1>1. CASE Group!Return
  BY <1>1 DEF Group!Return, Group!TypeOK, Group!Symmetric
<1>2. ASSUME NEW o \in Batch, Group!Complete(o)
      PROVE  Group!TypeOK' /\ Group!Symmetric' /\ \A r \in InferRank : left'[r] \subseteq left[r]
  <2>1. \A r \in InferRank :
           left'[r] = IF r \in BatchParts(o) THEN left[r] \ {o} ELSE left[r]
    BY <1>2 DEF Group!Complete
  <2>2. Group!TypeOK'
    BY <1>2 DEF Group!Complete, Group!TypeOK
  <2>3. ASSUME NEW r \in InferRank, NEW c \in left'[r]
        PROVE  r \in BatchParts(c) /\ BatchParts(c) \subseteq InferRank /\ \A q \in BatchParts(c) : c \in left'[q]
    <3>1. c \in left[r]
      BY <2>1, <2>3
    <3>2. r \in BatchParts(c) /\ BatchParts(c) \subseteq InferRank /\ \A q \in BatchParts(c) : c \in left[q]
      BY <3>1 DEF Group!Symmetric
    <3>3. c # o
      BY <2>1, <2>3, <3>2
    <3> QED
      BY <2>1, <3>2, <3>3
  <2> QED
    BY <2>1, <2>2, <2>3 DEF Group!Symmetric
<1> QED
  BY <1>1, <1>2 DEF Group!Next

\* Comparing numbers written in base W compares their digits.
LEMMA Lexicographic ==
  ASSUME NEW W \in Nat, NEW x \in Nat, NEW y \in Nat, NEW u \in 0 .. W - 1, NEW v \in 0 .. W - 1
  PROVE  /\ x * W + u \in Nat
         /\ x * W + u <= y * W + v <=> x < y \/ (x = y /\ u <= v)
<1>1. u \in Nat /\ v \in Nat /\ u < W /\ v < W /\ x * W \in Nat /\ y * W \in Nat
  OBVIOUS
<1>2. ASSUME x < y PROVE x * W + u <= y * W + v
  <2>1. PICK d \in Nat : y = x + 1 + d
    <3>1. y - x - 1 \in Nat /\ y = x + 1 + (y - x - 1)
      BY <1>2
    <3> QED
      BY <3>1
  <2>2. y * W = x * W + W + d * W /\ d * W \in Nat
    BY <2>1
  <2> QED
    BY <1>1, <2>2
<1>3. ASSUME y < x PROVE y * W + v < x * W + u
  <2>1. PICK d \in Nat : x = y + 1 + d
    <3>1. x - y - 1 \in Nat /\ x = y + 1 + (x - y - 1)
      BY <1>3
    <3> QED
      BY <3>1
  <2>2. x * W = y * W + W + d * W /\ d * W \in Nat
    BY <2>1
  <2> QED
    BY <1>1, <2>2
<1>4. CASE x = y
  BY <1>1, <1>4
<1>5. CASE x < y
  BY <1>1, <1>2, <1>5
<1>6. CASE y < x
  BY <1>1, <1>3, <1>6
<1> QED
  BY <1>4, <1>5, <1>6

-----------------------------------------------------------------------------
\* The numbers that describe a partition.
LEMMA PartitionArithmetic ==
  ASSUME NEW k \in Round, NEW r \in InferRank
  PROVE  /\ k \in Nat
         /\ PartitionSize(k) \in Nat /\ PartitionSize(k) >= 2
         /\ Half(k) \in Nat /\ Half(k) < PartitionSize(k)
         /\ r \div PartitionSize(k) \in Nat
         /\ PartitionBase(k, r) \in Nat
         /\ PartitionBase(k, r) <= r
         /\ r < PartitionBase(k, r) + PartitionSize(k)
<1>1. k \in Nat /\ 2^k \in Nat \ {0}
  BY SizeAssumption, PowersOfTwo DEF Round
<1>2. PartitionSize(k) \in Nat /\ PartitionSize(k) >= 2
  BY <1>1, SizeAssumption DEF PartitionSize, Round
<1>3. Half(k) \in Nat /\ Half(k) < PartitionSize(k)
  BY <1>2 DEF Half
<1>4. r \in Nat
  BY SizeAssumption DEF InferRank
<1> HIDE DEF PartitionSize
<1> DEFINE S == PartitionSize(k)
<1>5. S \in Nat \ {0}
  BY <1>2
<1> HIDE DEF S
<1>6. r \div S \in Nat /\ (r \div S) * S \in Nat /\ (r \div S) * S <= r /\ r < (r \div S) * S + S
  BY <1>4, <1>5
<1> QED
  BY <1>1, <1>2, <1>3, <1>6 DEF PartitionBase, S

\* The ranks of a partition agree on where it starts.
LEMMA SamePartition ==
  ASSUME NEW k \in Round, NEW r \in InferRank, NEW q \in InferRank,
         PartitionBase(k, r) <= q, q < PartitionBase(k, r) + PartitionSize(k)
  PROVE  PartitionBase(k, q) = PartitionBase(k, r)
<1> DEFINE S == PartitionSize(k)
<1>1. S \in Nat \ {0} /\ r \in Nat /\ q \in Nat /\ r \div S \in Nat
  BY PartitionArithmetic, SizeAssumption DEF InferRank
<1>2. (r \div S) * S <= q /\ q < (r \div S) * S + S
  BY DEF PartitionBase
<1> HIDE DEF S
<1>3. q \div S = r \div S
  BY <1>1, <1>2
<1> QED
  BY <1>3 DEF PartitionBase, S

\* Being on the other half is mutual.
LEMMA OtherHalfSymmetric ==
  ASSUME NEW k \in Round, NEW r \in InferRank, NEW q \in OtherHalf(k, r)
  PROVE  q \in InferRank /\ r \in OtherHalf(k, q)
<1>1. q \in InferRank
  BY DEF OtherHalf
<1>2. PartitionBase(k, r) <= q /\ q < PartitionBase(k, r) + PartitionSize(k)
  BY <1>1, PartitionArithmetic, SizeAssumption DEF OtherHalf, InferRank
<1>3. PartitionBase(k, q) = PartitionBase(k, r)
  BY <1>1, <1>2, SamePartition
<1> QED
  BY <1>1, <1>3, PartitionArithmetic, SizeAssumption
     DEF OtherHalf, InFirstHalf, InferRank

\* The fields of a batch of rank r.
LEMMA BatchFields ==
  ASSUME NEW p2p, NEW s, NEW n, NEW r \in InferRank, NEW b \in Batches(p2p, s, n, r)
  PROVE  /\ b \in Batch /\ ChunkOf(b) \in Nat
         /\ RoundOf(b) \in Round /\ RoundOf(b) \in 0 .. WorldSize
         /\ Sender(b) \in InferRank /\ Receiver(b) \in InferRank /\ Sender(b) # Receiver(b)
         /\ r \in {Sender(b), Receiver(b)}
         /\ Peer(r, b) \in OtherHalf(RoundOf(b), r)
         /\ Peer(r, b) \in InferRank
         /\ Direction(b) \in {1, 2}
         /\ Turn(b) \in Nat
<1>1. /\ b \in Batch /\ ChunkOf(b) \in 0 .. MaxOps - 1 /\ RoundOf(b) \in Round
      /\ Sender(b) \in InferRank /\ Receiver(b) \in InferRank /\ Sender(b) # Receiver(b)
      /\ r \in {Sender(b), Receiver(b)} /\ Peer(r, b) \in OtherHalf(RoundOf(b), r)
  BY DEF Batches, Batch, BatchParts, ChunkOf, RoundOf, Sender, Receiver
<1>2. ChunkOf(b) \in Nat /\ RoundOf(b) \in 0 .. WorldSize /\ RoundOf(b) \in Nat
  BY <1>1, SizeAssumption DEF Round
<1>3. Peer(r, b) \in InferRank /\ Direction(b) \in {1, 2}
  BY <1>1 DEF Peer, Direction
<1>4. WorldSize + 1 \in Nat /\ ChunkOf(b) * (WorldSize + 1) \in Nat
  BY <1>2, SizeAssumption
<1>5. Turn(b) \in Nat
  BY <1>2, <1>3, <1>4 DEF Turn
<1> QED
  BY <1>1, <1>2, <1>3, <1>5

\* Phase 1 moves batches up the ranks and phase 2 down, on both their sides.
LEMMA PhaseIsDirection ==
  ASSUME NEW p2p, NEW s, NEW n, NEW r \in InferRank, NEW b \in Batches(p2p, s, n, r)
  PROVE  Phase(r, b) = Direction(b)
<1>1. RoundOf(b) \in Round /\ Sender(b) \in InferRank /\ Receiver(b) \in InferRank
  BY BatchFields
<1>2. r \in {Sender(b), Receiver(b)} /\ Sender(b) # Receiver(b) /\ Peer(r, b) \in OtherHalf(RoundOf(b), r)
  BY BatchFields
<1>3. IF InFirstHalf(RoundOf(b), r) THEN r < Peer(r, b) ELSE Peer(r, b) < r
  BY <1>1, <1>2, PartitionArithmetic, SizeAssumption
     DEF OtherHalf, InFirstHalf, InferRank
<1>4. r \in Int /\ Sender(b) \in Int /\ Receiver(b) \in Int
  BY <1>1 DEF InferRank
<1> QED
  BY <1>2, <1>3, <1>4 DEF Phase, Direction, Peer

\* Every rank works through its batches in the common numbering.
LEMMA ProgramsFollowKey ==
  ASSUME NEW p2p, NEW s, NEW n, NEW r \in InferRank,
         NEW a \in Batches(p2p, s, n, r), NEW b \in Batches(p2p, s, n, r), Key[a] <= Key[b]
  PROVE  BatchOrder(r, a) <= BatchOrder(r, b)
<1> DEFINE W == WorldSize
<1>1. \A c \in Batches(p2p, s, n, r) :
        /\ c \in Batch /\ Turn(c) \in Nat
        /\ Sender(c) \in 0 .. W - 1 /\ Receiver(c) \in 0 .. W - 1
        /\ Peer(r, c) \in 0 .. W - 1
        /\ r \in {Sender(c), Receiver(c)} /\ Sender(c) # Receiver(c)
  BY BatchFields DEF InferRank
<1>2. \A c \in Batches(p2p, s, n, r) : BatchOrder(r, c) = Turn(c) * W + Peer(r, c)
  BY PhaseIsDirection DEF BatchOrder, Turn
<1>3. \A c \in Batches(p2p, s, n, r) :
         Turn(c) * W + Sender(c) \in Nat /\ Key[c] = (Turn(c) * W + Sender(c)) * W + Receiver(c)
  <2> TAKE c \in Batches(p2p, s, n, r)
  <2>1. Turn(c) * W + Sender(c) \in Nat
    BY <1>1, SizeAssumption, Lexicographic
  <2> QED
    BY <1>1, <2>1 DEF Key, BatchKey
<1>4. W \in Nat
  BY SizeAssumption
<1> DEFINE Up(c) == Turn(c) * W + Sender(c)
<1>5. Up(a) < Up(b) \/ (Up(a) = Up(b) /\ Receiver(a) <= Receiver(b))
  <2>1. Up(a) \in Nat /\ Up(b) \in Nat
    BY <1>3
  <2>2. Up(a) * W + Receiver(a) <= Up(b) * W + Receiver(b)
    BY <1>3
  <2> HIDE DEF Up
  <2> QED
    BY <1>1, <1>4, <2>1, <2>2, Lexicographic
<1>6. /\ Turn(a) < Turn(b) \/ (Turn(a) = Turn(b) /\ Sender(a) <= Sender(b))
      /\ Turn(a) = Turn(b) /\ Sender(a) = Sender(b) => Receiver(a) <= Receiver(b)
  <2>1. Up(a) <= Up(b)
    BY <1>3, <1>5
  <2>2. Turn(a) \in Nat /\ Turn(b) \in Nat
    BY <1>1
  <2>3. Turn(a) < Turn(b) \/ (Turn(a) = Turn(b) /\ Sender(a) <= Sender(b))
    BY <1>1, <1>4, <2>1, <2>2, Lexicographic
  <2>4. ASSUME Turn(a) = Turn(b), Sender(a) = Sender(b) PROVE Receiver(a) <= Receiver(b)
    BY <1>3, <1>5, <2>4
  <2> QED
    BY <2>3, <2>4
<1>7. Turn(a) < Turn(b) \/ (Turn(a) = Turn(b) /\ Peer(r, a) <= Peer(r, b))
  <2>1. CASE Turn(a) < Turn(b)
    BY <2>1
  <2>2. CASE Turn(a) = Turn(b)
    <3>1. Direction(a) = Direction(b)
      <4>1. /\ ChunkOf(a) * (W + 1) + RoundOf(a) \in Int /\ Direction(a) \in {1, 2}
            /\ ChunkOf(b) * (W + 1) + RoundOf(b) \in Int /\ Direction(b) \in {1, 2}
        BY <1>4, BatchFields
      <4> QED
        BY <2>2, <4>1 DEF Turn
    <3>2. Sender(a) <= Sender(b) /\ (Sender(a) = Sender(b) => Receiver(a) <= Receiver(b))
      BY <1>1, <1>6, <2>2
    \* Where r sends in one and receives in the other, it stands between the two peers.
    <3>3. Peer(r, a) <= Peer(r, b)
      BY <1>1, <3>1, <3>2 DEF Peer, Direction
    <3> QED
      BY <2>2, <3>3
  <2> QED
    BY <1>6, <2>1, <2>2
<1>8. Turn(a) * W + Peer(r, a) <= Turn(b) * W + Peer(r, b)
  BY <1>1, <1>4, <1>7, Lexicographic
<1> QED
  BY <1>2, <1>8

-----------------------------------------------------------------------------
\* With a common step and number of chunks, a batch is in the programs of its
\* two sides, with the same operations, and of nobody else.
LEMMA ProgramSymmetric ==
  ASSUME NEW p2p, NEW s, NEW n, NEW r \in InferRank, NEW b \in Batches(p2p, s, n, r)
  PROVE  /\ r \in BatchParts(b) /\ BatchParts(b) \subseteq InferRank
         /\ \A q \in BatchParts(b) : b \in Batches(p2p, s, n, q)
<1>1. /\ RoundOf(b) \in Round /\ r \in BatchParts(b)
      /\ Sender(b) \in InferRank /\ Receiver(b) \in InferRank
      /\ Peer(r, b) \in OtherHalf(RoundOf(b), r)
  BY BatchFields DEF BatchParts
<1>2. r \in OtherHalf(RoundOf(b), Peer(r, b))
  BY <1>1, OtherHalfSymmetric
<1>3. \A q \in BatchParts(b) : q = r \/ (q = Peer(r, b) /\ Peer(q, b) = r)
  BY <1>1 DEF BatchParts, Peer
<1>4. ASSUME NEW q \in BatchParts(b) PROVE b \in Batches(p2p, s, n, q)
  BY <1>1, <1>2, <1>3, <1>4 DEF Batches
<1> QED
  BY <1>1, <1>4 DEF BatchParts

LEMMA InitIInv == Init => IInv
<1> SUFFICES ASSUME Init PROVE IInv
  OBVIOUS
<1>1. TypeOK
  BY StepsAssumption, SizeAssumption DEF Init, TypeOK, Group!TypeOK
<1>2. Group!Symmetric /\ WithinProgram
  BY DEF Init, Group!Symmetric, WithinProgram
<1>3. Aligned /\ EnoughChunks
  BY DEF Init, Aligned, EnoughChunks
<1> QED
  BY <1>1, <1>2, <1>3 DEF IInv

LEMMA AlignStepIInv == IInv /\ AlignStep => IInv'
<1> SUFFICES ASSUME IInv, AlignStep PROVE IInv'
  OBVIOUS
<1>1. TypeOK'
  BY DEF IInv, TypeOK, AlignStep, Group!TypeOK
<1>2. Group!Symmetric' /\ WithinProgram'
  BY DEF IInv, AlignStep, Group!Symmetric, WithinProgram
<1>3. Aligned' /\ EnoughChunks'
  BY DEF AlignStep, Aligned, EnoughChunks
<1> QED
  BY <1>1, <1>2, <1>3 DEF IInv

LEMMA AlignChunksIInv == IInv /\ AlignChunks => IInv'
<1> SUFFICES ASSUME IInv, AlignChunks PROVE IInv'
  OBVIOUS
<1>1. PICK n \in 1 .. MaxOps : /\ \A r \in InferRank : NumChunks(plan, step[r], r) <= n
                               /\ chunks' = [r \in InferRank |-> n]
  BY DEF AlignChunks
<1>2. /\ phase = "chunks" /\ phase' = "run" /\ plan' = plan /\ step' = step
      /\ \A r \in InferRank : left'[r] = Batches(plan, step[r], chunks'[r], r)
  BY DEF AlignChunks, Program
<1>3. TypeOK'
  <2>1. left' \in [InferRank -> SUBSET Batch]
    BY DEF AlignChunks, Program, Batches
  <2> QED
    BY <1>1, <1>2, <2>1 DEF IInv, TypeOK, Group!TypeOK
<1>4. Aligned'
  BY <1>1, <1>2 DEF IInv, Aligned
<1>5. Group!Symmetric'
  <2> SUFFICES ASSUME NEW r \in InferRank, NEW b \in left'[r]
               PROVE  /\ r \in BatchParts(b) /\ BatchParts(b) \subseteq InferRank
                      /\ \A q \in BatchParts(b) : b \in left'[q]
    BY DEF Group!Symmetric
  <2>1. b \in Batches(plan, step[r], n, r)
    BY <1>1, <1>2
  <2>2. \A q \in InferRank : left'[q] = Batches(plan, step[r], n, q)
    BY <1>1, <1>2 DEF IInv, Aligned
  <2> QED
    BY <2>1, <2>2, ProgramSymmetric
<1>6. WithinProgram' /\ EnoughChunks'
  BY <1>1, <1>2 DEF WithinProgram, EnoughChunks
<1> QED
  BY <1>3, <1>4, <1>5, <1>6 DEF IInv

LEMMA TransferIInv == IInv /\ Transfer => IInv'
<1> SUFFICES ASSUME IInv, Transfer PROVE IInv'
  OBVIOUS
<1>1. Group!TypeOK /\ Group!Symmetric /\ Group!Next
  BY DEF IInv, TypeOK, Transfer, Group!TypeOK, Group!Symmetric, Group!Next, Group!Complete, Group!Ready, Group!At, Group!Return, Group!Done
<1>2. /\ Group!TypeOK' /\ Group!Symmetric'
      /\ \A r \in InferRank : left'[r] \subseteq left[r]
  BY <1>1, StepPreserves
<1>3. UNCHANGED <<plan, phase, step, chunks>>
  BY DEF Transfer
<1>4. TypeOK' /\ Group!Symmetric'
  BY <1>2, <1>3 DEF IInv, TypeOK, Group!TypeOK, Group!Symmetric
<1>5. WithinProgram' /\ Aligned' /\ EnoughChunks'
  BY <1>2, <1>3 DEF IInv, WithinProgram, Aligned, EnoughChunks
<1> QED
  BY <1>4, <1>5 DEF IInv

LEMMA NextIInv == IInv /\ [Next]_vars => IInv'
<1> SUFFICES ASSUME IInv, [Next]_vars PROVE IInv'
  OBVIOUS
<1>1. CASE AlignStep
  BY <1>1, AlignStepIInv
<1>2. CASE AlignChunks
  BY <1>2, AlignChunksIInv
<1>3. CASE Transfer
  BY <1>3, TransferIInv
<1>4. CASE UNCHANGED vars
  BY <1>4 DEF vars, IInv, TypeOK, WithinProgram, Aligned, EnoughChunks, Group!TypeOK, Group!Symmetric
<1> QED
  BY <1>1, <1>2, <1>3, <1>4 DEF Next

LEMMA IInvNeverStuck == IInv => NeverStuck
<1> SUFFICES ASSUME IInv PROVE NeverStuck
  OBVIOUS
<1>1. Key \in [Batch -> Nat]
  <2> SUFFICES ASSUME NEW b \in Batch PROVE BatchKey(b) \in Nat
    BY DEF Key
  <2>1. /\ ChunkOf(b) \in Nat /\ RoundOf(b) \in Nat
        /\ Sender(b) \in Nat /\ Receiver(b) \in Nat /\ Direction(b) \in {1, 2}
    BY SizeAssumption DEF Batch, ChunkOf, RoundOf, Sender, Receiver, Round, InferRank, Direction
  <2>2. WorldSize \in Nat /\ WorldSize + 1 \in Nat
    BY SizeAssumption
  <2>3. ChunkOf(b) * (WorldSize + 1) \in Nat
    BY <2>1, <2>2
  <2>4. Turn(b) \in Nat
    BY <2>1, <2>3 DEF Turn
  <2>5. Turn(b) * WorldSize \in Nat
    BY <2>2, <2>4
  <2>6. Turn(b) * WorldSize + Sender(b) \in Nat
    BY <2>1, <2>5
  <2>7. (Turn(b) * WorldSize + Sender(b)) * WorldSize \in Nat
    BY <2>2, <2>6
  <2> QED
    BY <2>1, <2>7 DEF BatchKey
<1>2. Group!CommonOrder(Key)
  <2>1. ASSUME NEW r \in InferRank, NEW a \in left[r], NEW b \in left[r], Key[a] <= Key[b]
        PROVE  BatchOrder(r, a) <= BatchOrder(r, b)
    <3>1. a \in Batches(plan, step[r], chunks[r], r) /\ b \in Batches(plan, step[r], chunks[r], r)
      BY <2>1 DEF IInv, WithinProgram
    <3> QED
      BY <2>1, <3>1, ProgramsFollowKey
  <2> QED
    BY <2>1 DEF Group!CommonOrder
<1>3. Group!TypeOK /\ Group!Symmetric
  BY DEF IInv, TypeOK, Group!TypeOK, Group!Symmetric
<1>4. Group!NeverStuck
  BY <1>1, <1>2, <1>3, CommonOrderNeverStuck
<1> QED
  BY <1>4 DEF NeverStuck, Group!NeverStuck, Group!Done, Group!Ready, Group!At

-----------------------------------------------------------------------------
(* Which rounds two ranks meet in, when every partition has equal halves.  *)

\* The number of ranks is a power of two: no halving leaves a rank over.
HalvesEvenly == \A k \in Round : PartitionSize(k) % 2 = 0

\* The partition a rank is in.
Block(k, r) == r \div PartitionSize(k)

\* A quotient is what the multiples of the divisor say.
LEMMA Quotient ==
  ASSUME NEW w \in Nat, NEW d \in Nat \ {0}, NEW b \in Nat, b * d <= w, w < b * d + d
  PROVE  w \div d = b
OBVIOUS

LEMMA QuotientBounds ==
  ASSUME NEW w \in Nat, NEW d \in Nat \ {0}
  PROVE  w \div d \in Nat /\ (w \div d) * d <= w /\ w < (w \div d) * d + d
OBVIOUS

\* Halving the size of a partition halves what is left of the ranks.
LEMMA HalvedQuotient ==
  ASSUME NEW w \in Nat, NEW d \in Nat \ {0}
  PROVE  w \div (2 * d) = (w \div d) \div 2
<1> DEFINE a == w \div d
           b == a \div 2
<1>1. a \in Nat /\ a * d <= w /\ w < a * d + d
  BY QuotientBounds
<1> HIDE DEF a
<1>2. b \in Nat /\ (a = 2 * b \/ a = 2 * b + 1)
  BY <1>1
<1> HIDE DEF b
<1>3. b * d \in Nat /\ b * (2 * d) = 2 * (b * d)
  BY <1>2
<1>4. a * d = 2 * (b * d) \/ a * d = 2 * (b * d) + d
  BY <1>2, <1>3
<1>5. b * (2 * d) <= w /\ w < b * (2 * d) + 2 * d
  BY <1>1, <1>3, <1>4
<1>6. w \div (2 * d) = b
  <2> DEFINE e == 2 * d
  <2>1. e \in Nat \ {0} /\ b * e <= w /\ w < b * e + e
    BY <1>5
  <2> HIDE DEF e
  <2>2. w \div e = b
    BY <1>2, <2>1, Quotient
  <2> QED
    BY <2>2 DEF e
<1> QED
  BY <1>6 DEF a, b

\* The partitions of the next round are the halves of those of this round.
LEMMA NextRound ==
  ASSUME NEW k \in Round
  PROVE  /\ k \in Nat /\ k + 1 \in 0 .. WorldSize
         /\ PartitionSize(k + 1) = Half(k)
         /\ PartitionSize(k + 1) \in Nat \ {0}
<1>1. k \in 0 .. WorldSize /\ 2^k \in Nat \ {0} /\ k < 2^k /\ 2^(k + 1) = 2 * 2^k
  BY PowersOfTwo, SizeAssumption DEF Round
<1>2. WorldSize \div 2^k >= 2 /\ WorldSize \in Nat
  BY SizeAssumption DEF Round, PartitionSize
<1> DEFINE D == 2^k
<1>3. D \in Nat \ {0} /\ k < D /\ 2^(k + 1) = 2 * D /\ WorldSize \div D >= 2
  BY <1>1, <1>2
<1> HIDE DEF D
<1>4. 2 * D <= WorldSize
  <2> DEFINE a == WorldSize \div D
  <2>0. a \in Nat /\ a * D <= WorldSize
    BY <1>2, <1>3, QuotientBounds
  <2>1. a \in Nat /\ a * D <= WorldSize /\ a >= 2
    BY <1>3, <2>0
  <2> HIDE DEF a
  <2>2. 2 * D <= a * D
    BY <1>3, <2>1
  <2> QED
    BY <1>2, <1>3, <2>1, <2>2
<1>5. k + 1 \in 0 .. WorldSize
  BY <1>1, <1>2, <1>3, <1>4
<1>6. WorldSize \div (2 * D) = (WorldSize \div D) \div 2
  BY <1>2, <1>3, HalvedQuotient
<1>7. PartitionSize(k + 1) = PartitionSize(k) \div 2
  BY <1>3, <1>6 DEF PartitionSize, D
<1>8. PartitionSize(k) \in Nat /\ PartitionSize(k) >= 2
  BY <1>2, <1>1, QuotientBounds DEF PartitionSize
<1> QED
  BY <1>1, <1>5, <1>7, <1>8 DEF Half

\* The rounds before a round are rounds, and the first is one when there are two ranks.
LEMMA RoundBefore ==
  /\ \A k \in Round : k > 0 => k - 1 \in Round
  /\ WorldSize >= 2 => 0 \in Round
<1>1. ASSUME NEW k \in Round, k > 0 PROVE k - 1 \in Round
  <2> DEFINE D == 2^(k - 1)
  <2>1. k \in Nat /\ k <= WorldSize /\ WorldSize \in Nat
    BY SizeAssumption DEF Round
  <2>2. k - 1 \in 0 .. WorldSize /\ (k - 1) + 1 = k
    BY <1>1, <2>1
  <2>3. D \in Nat \ {0} /\ 2^k = 2 * D
    BY <2>2, PowersOfTwo
  <2>4. WorldSize \div (2 * D) >= 2
    BY <2>3 DEF Round, PartitionSize
  <2> HIDE DEF D
  <2>5. (WorldSize \div D) \div 2 >= 2 /\ WorldSize \div D \in Nat
    BY <2>1, <2>3, <2>4, HalvedQuotient, QuotientBounds
  <2>6. WorldSize \div D >= 2
    BY <2>5
  <2> QED
    BY <2>2, <2>6 DEF Round, PartitionSize, D
<1>2. ASSUME WorldSize >= 2 PROVE 0 \in Round
  <2>1. WorldSize \div 1 = WorldSize
    BY SizeAssumption
  <2> QED
    BY <1>2, <2>1, PowersOfTwo, SizeAssumption DEF Round, PartitionSize
<1> QED
  BY <1>1, <1>2

\* Two ranks meet in the round that takes them apart.
LEMMA Meeting ==
  ASSUME HalvesEvenly, NEW k \in Round, NEW r \in InferRank, NEW q \in InferRank
  PROVE  /\ q \in OtherHalf(k, r) <=> Block(k, r) = Block(k, q) /\ Block(k + 1, r) # Block(k + 1, q)
         /\ Block(k + 1, r) = Block(k + 1, q) => Block(k, r) = Block(k, q)
<1> DEFINE h == Half(k)
           S == PartitionSize(k)
<1>1. /\ h \in Nat \ {0} /\ S = 2 * h /\ PartitionSize(k + 1) = h
      /\ r \in Nat /\ q \in Nat
  BY NextRound, PartitionArithmetic, SizeAssumption DEF HalvesEvenly, Half, InferRank
<1>2. ASSUME NEW x \in InferRank
      PROVE  /\ Block(k, x) \in Nat /\ Block(k + 1, x) \in Nat
             /\ Block(k, x) = Block(k + 1, x) \div 2
             /\ PartitionBase(k, x) = Block(k, x) * S
             /\ Block(k + 1, x) * h <= x /\ x < Block(k + 1, x) * h + h
  <2>1. x \in Nat
    BY SizeAssumption DEF InferRank
  <2> HIDE DEF h, S
  <2>2. x \div (2 * h) = (x \div h) \div 2 /\ x \div h \in Nat
        /\ (x \div h) * h <= x /\ x < (x \div h) * h + h
    BY <1>1, <2>1, HalvedQuotient, QuotientBounds
  <2> QED
    BY <1>1, <2>2 DEF Block, PartitionBase, S
<1> DEFINE a == Block(k + 1, r)
           b == Block(k + 1, q)
           A == Block(k, r)
           B == Block(k, q)
<1>3. /\ a \in Nat /\ b \in Nat /\ A = a \div 2 /\ B = b \div 2 /\ A \in Nat /\ B \in Nat
      /\ a * h <= r /\ r < a * h + h /\ b * h <= q /\ q < b * h + h
      /\ PartitionBase(k, r) = A * (2 * h)
  BY <1>1, <1>2
<1>4. q \in OtherHalf(k, r) <=>
        IF r - A * (2 * h) < h THEN A * (2 * h) + h <= q /\ q < A * (2 * h) + 2 * h
                               ELSE A * (2 * h) <= q /\ q < A * (2 * h) + h
  BY <1>1, <1>3 DEF OtherHalf, InFirstHalf
<1> HIDE DEF a, b, A, B, h, S
<1> DEFINE m == A * h
<1>5. m \in Nat /\ A * (2 * h) = 2 * m
  BY <1>1, <1>3
<1>6. /\ r - 2 * m < h <=> a = 2 * A
      /\ a = 2 * A \/ a = 2 * A + 1
  <2>1. a = 2 * A \/ a = 2 * A + 1
    BY <1>3
  <2>2. CASE a = 2 * A
    BY <1>1, <1>3, <1>5, <2>2
  <2>3. CASE a = 2 * A + 1
    <3>1. a * h = 2 * m + h
      BY <1>1, <1>3, <1>5, <2>3
    <3> QED
      BY <1>1, <1>3, <1>5, <2>3, <3>1
  <2> QED
    BY <2>1, <2>2, <2>3
<1>7. /\ 2 * m <= q /\ q < 2 * m + h <=> b = 2 * A
      /\ 2 * m + h <= q /\ q < 2 * m + 2 * h <=> b = 2 * A + 1
  <2>1. (2 * A) * h = 2 * m /\ (2 * A + 1) * h = 2 * m + h
    BY <1>1, <1>3, <1>5
  <2>2. q \div h = b
    BY <1>1, <1>3, Quotient
  <2>3. 2 * m <= q /\ q < 2 * m + h => b = 2 * A
    BY <1>1, <1>3, <2>1, <2>2, Quotient
  <2>4. 2 * m + h <= q /\ q < 2 * m + 2 * h => b = 2 * A + 1
    BY <1>1, <1>3, <1>5, <2>1, <2>2, Quotient
  <2> QED
    BY <1>1, <1>3, <1>5, <2>1, <2>3, <2>4
<1>8. q \in OtherHalf(k, r) <=> A = B /\ a # b
  BY <1>3, <1>4, <1>5, <1>6, <1>7
<1> QED
  BY <1>3, <1>8 DEF a, b, A, B

\* Any two ranks meet: they are together before the first round, apart after the last.
LEMMA TheyMeet ==
  ASSUME HalvesEvenly, NEW r \in InferRank, NEW q \in InferRank, r # q
  PROVE  \E k \in Round : q \in OtherHalf(k, r)
<1>1. WorldSize \in Nat /\ WorldSize >= 2 /\ r \in Nat /\ q \in Nat /\ r < WorldSize /\ q < WorldSize
  BY SizeAssumption DEF InferRank
<1> DEFINE T == {k \in Round : Block(k + 1, r) # Block(k + 1, q)}
<1>2. T # {}
  <2>1. Round \in SUBSET (0 .. WorldSize) /\ Round # {}
    BY <1>1, RoundBefore DEF Round
  <2>2. PICK k \in Round : \A j \in Round : j <= k
    BY <1>1, <2>1, GreatestNumber
  <2>3. k \in Nat /\ k + 1 \in 0 .. WorldSize /\ k + 1 \notin Round
    BY <2>2, NextRound
  <2>4. PartitionSize(k + 1) = 1
    BY <2>3, NextRound DEF Round
  <2>5. Block(k + 1, r) = r /\ Block(k + 1, q) = q
    BY <1>1, <2>4 DEF Block
  <2> QED
    BY <2>5
<1>3. T \in SUBSET Nat
  BY NextRound
<1>4. PICK k \in T : \A j \in T : k <= j
  BY <1>2, <1>3, LeastNumber
<1>5. Block(k, r) = Block(k, q)
  <2>1. CASE k = 0
    <3>1. PartitionSize(0) = WorldSize
      BY <1>1, PowersOfTwo DEF PartitionSize
    <3>2. r \div WorldSize = 0 /\ q \div WorldSize = 0
      BY <1>1, Quotient
    <3> QED
      BY <2>1, <3>1, <3>2 DEF Block
  <2>2. CASE k # 0
    <3>1. k \in Nat /\ k > 0
      BY <1>3, <2>2
    <3>2. k - 1 \in Round /\ (k - 1) + 1 = k
      BY <3>1, RoundBefore
    <3>3. k - 1 \notin T
      BY <1>4, <3>1
    <3> QED
      BY <3>2, <3>3
  <2> QED
    BY <2>1, <2>2
<1> QED
  BY <1>4, <1>5, Meeting

\* And only once: after the round that takes them apart they are never together.
LEMMA MeetOnce ==
  ASSUME HalvesEvenly, NEW r \in InferRank, NEW q \in InferRank, NEW k \in Round, NEW j \in Round,
         q \in OtherHalf(k, r), q \in OtherHalf(j, r)
  PROVE  k = j
<1>1. ASSUME NEW x \in Round, NEW y \in Round, x < y,
             q \in OtherHalf(x, r), q \in OtherHalf(y, r)
      PROVE  FALSE
  <2> DEFINE T == {i \in Round : x < i /\ Block(i, r) = Block(i, q)}
  <2>1. T \in SUBSET Nat /\ y \in T
    BY <1>1, NextRound, Meeting
  <2>2. PICK i \in T : \A n \in T : i <= n
    BY <2>1, LeastNumber
  <2>3. Block(x + 1, r) # Block(x + 1, q) /\ x \in Nat /\ i \in Nat /\ x < i
    BY <1>1, <2>1, Meeting, NextRound
  <2>4. i # x + 1
    BY <2>2, <2>3
  <2>5. i - 1 \in Round /\ (i - 1) + 1 = i /\ x < i - 1
    BY <2>2, <2>3, <2>4, RoundBefore
  <2>6. Block(i - 1, r) = Block(i - 1, q)
    BY <2>2, <2>5, Meeting
  <2>7. i <= i - 1
    BY <2>2, <2>5, <2>6
  <2> QED
    BY <2>3, <2>7
<1>2. k \in Nat /\ j \in Nat
  BY NextRound
<1> QED
  BY <1>1, <1>2

-----------------------------------------------------------------------------
(* Which chunk an operation is in.                                         *)

\* The longest list of a rank is at least as long as each of its lists.
LEMMA LongestFacts ==
  ASSUME NEW p2p \in [Pairs -> 0 .. MaxOps], NEW r \in InferRank
  PROVE  /\ LongestList(p2p, r) \in 0 .. MaxOps
         /\ \A p \in Pairs : r \in {p[1], p[2]} => p2p[p] <= LongestList(p2p, r)
<1> DEFINE lengths == {p2p[p] : p \in {q \in Pairs : r \in {q[1], q[2]}}} \cup {0}
<1>1. lengths \in SUBSET (0 .. MaxOps) /\ lengths # {}
  BY SizeAssumption
<1>2. \E n \in lengths : \A k \in lengths : k <= n
  BY <1>1, SizeAssumption, GreatestNumber
<1>3. LongestList(p2p, r) \in lengths /\ \A k \in lengths : k <= LongestList(p2p, r)
  BY <1>2 DEF LongestList
<1> QED
  BY <1>1, <1>3

\* The chunk of an operation is one of those its rank runs.
LEMMA ChunkOfOperation ==
  ASSUME NEW p2p \in [Pairs -> 0 .. MaxOps], NEW r \in InferRank, NEW p \in Pairs, r \in {p[1], p[2]},
         NEW s \in 1 .. MaxOps, NEW n \in 1 .. MaxOps, NumChunks(p2p, s, r) <= n,
         NEW k \in 1 .. p2p[p]
  PROVE  \E c \in 0 .. n - 1 :
           /\ SliceLength(p2p[p], s, c) \in 1 .. MaxOps
           /\ c * s + 1 <= k /\ k <= c * s + SliceLength(p2p[p], s, c)
<1> DEFINE c == (k - 1) \div s
           L == LongestList(p2p, r)
           ops == p2p[p]
<1>1. s \in Nat \ {0} /\ k - 1 \in Nat /\ ops \in Nat /\ ops <= MaxOps /\ k <= ops /\ MaxOps \in Nat /\ k \in Nat
  BY SizeAssumption
<1>2. L \in Nat /\ ops <= L
  BY LongestFacts, SizeAssumption
<1>3. c \in Nat /\ c * s <= k - 1 /\ k - 1 < c * s + s
  BY <1>1, QuotientBounds
<1> HIDE DEF L, ops, c
<1>4. c < n
  <2> DEFINE m == (L + s - 1) \div s
  <2>1. m <= n
    BY <1>1, <1>2 DEF NumChunks, L
  <2>2. L + s - 1 \in Nat
    BY <1>1, <1>2
  <2>3. m \in Nat /\ L + s - 1 < m * s + s
    BY <1>1, <2>2, QuotientBounds
  <2> HIDE DEF m
  <2>4. SUFFICES ASSUME m <= c PROVE FALSE
    BY <1>3, <2>1, <2>3
  <2>5. m * s <= c * s
    BY <1>1, <1>3, <2>3, <2>4
  <2> QED
    BY <1>1, <1>2, <1>3, <2>3, <2>5
<1>5. /\ SliceLength(ops, s, c) \in 1 .. MaxOps
      /\ c * s + 1 <= k /\ k <= c * s + SliceLength(ops, s, c)
  <2> DEFINE cs == c * s
  <2>1. cs \in Nat /\ cs <= k - 1 /\ k - 1 < cs + s
    BY <1>1, <1>3
  <2> HIDE DEF cs
  <2>2. SliceLength(ops, s, c) = IF ops <= cs THEN 0 ELSE IF ops - cs < s THEN ops - cs ELSE s
    BY DEF SliceLength, cs
  <2>3. s <= MaxOps
    OBVIOUS
  <2> QED
    BY <1>1, <2>1, <2>2, <2>3 DEF cs
<1>6. c \in 0 .. n - 1
  BY <1>3, <1>4
<1> QED
  BY <1>5, <1>6 DEF ops

\* Chunks do not overlap.
LEMMA ChunksApart ==
  ASSUME NEW s \in 1 .. MaxOps, NEW c \in Nat, NEW d \in Nat, c < d,
         NEW x \in Nat, x <= c * s + s
  PROVE  x < d * s + 1
<1>1. s \in Nat /\ c + 1 <= d
  BY SizeAssumption
<1>2. (c + 1) * s <= d * s /\ (c + 1) * s = c * s + s
  BY <1>1
<1>3. c * s \in Nat /\ d * s \in Nat
  BY <1>1
<1> QED
  BY <1>1, <1>2, <1>3

\* When all ranks have returned, the chunk of an operation of a pair, in the round
\* its two ranks meet in, has been moved on both.
LEMMA AllMoved == HalvesEvenly /\ IInv => EveryPairMoved
<1> SUFFICES ASSUME HalvesEvenly, IInv, Finished,
                    NEW p \in Pairs, NEW k \in 1 .. plan[p], NEW r \in {p[1], p[2]}
             PROVE  \E b \in Returned(r) : Sender(b) = p[1] /\ Receiver(b) = p[2] /\ k \in OpsIn(r, b)
  BY DEF EveryPairMoved
<1>1. p[1] \in InferRank /\ p[2] \in InferRank /\ p[1] # p[2] /\ p = <<p[1], p[2]>> /\ r \in InferRank
  BY DEF Pairs
<1>2. /\ plan \in [Pairs -> 0 .. MaxOps]
      /\ step[r] \in 1 .. MaxOps /\ chunks[r] \in 1 .. MaxOps
      /\ NumChunks(plan, step[r], r) <= chunks[r] /\ left[r] = {}
  BY <1>1, PlansAssumption DEF IInv, TypeOK, EnoughChunks, Finished, Group!Done
<1> DEFINE s == step[r]
           size(c) == SliceLength(plan[p], s, c)
<1>3. PICK c \in 0 .. chunks[r] - 1 :
        size(c) \in 1 .. MaxOps /\ c * s + 1 <= k /\ k <= c * s + size(c)
  BY <1>1, <1>2, ChunkOfOperation
<1>4. PICK i \in Round : p[2] \in OtherHalf(i, p[1])
  BY <1>1, TheyMeet
<1> DEFINE b == <<c, i, p[1], p[2], size(c)>>
<1>5. b \in Batch
  <2>1. c \in 0 .. MaxOps - 1
    BY <1>2, SizeAssumption
  <2> QED
    BY <1>1, <1>3, <1>4, <2>1 DEF Batch
<1>6. Peer(r, b) \in OtherHalf(i, r)
  BY <1>1, <1>4, OtherHalfSymmetric DEF Peer, Sender, Receiver
<1>7. b \in Batches(plan, s, chunks[r], r)
  BY <1>1, <1>2, <1>3, <1>5, <1>6
     DEF Batches, BatchParts, ChunkOf, RoundOf, Sender, Receiver, Size
<1>8. k \in OpsIn(r, b)
  BY <1>2, <1>3 DEF OpsIn, ChunkOf, Size
<1> QED
  BY <1>2, <1>7, <1>8 DEF Returned, Sender, Receiver

\* Batches of a pair with an operation in common are of the same chunk, of the same
\* round, and so the same.
LEMMA NoneTwice == HalvesEvenly /\ IInv => MovedOnce
<1> SUFFICES ASSUME HalvesEvenly, IInv, NEW r \in InferRank, NEW a \in Returned(r), NEW b \in Returned(r),
                    Sender(a) = Sender(b), Receiver(a) = Receiver(b),
                    NEW x \in OpsIn(r, a), x \in OpsIn(r, b)
             PROVE  a = b
  BY DEF MovedOnce
<1> DEFINE s == step[r]
           B == Batches(plan, s, chunks[r], r)
<1>1. a \in B /\ b \in B /\ s \in 1 .. MaxOps /\ plan \in [Pairs -> 0 .. MaxOps]
  BY PlansAssumption DEF Returned, IInv, TypeOK
<1>2. ASSUME NEW e \in B
      PROVE  /\ e \in Batch /\ ChunkOf(e) \in Nat /\ RoundOf(e) \in Round
             /\ Peer(r, e) \in OtherHalf(RoundOf(e), r) /\ Peer(r, e) \in InferRank
             /\ e = <<ChunkOf(e), RoundOf(e), Sender(e), Receiver(e), Size(e)>>
             /\ Size(e) \in Nat /\ Size(e) <= s
             /\ Size(e) = SliceLength(plan[<<Sender(e), Receiver(e)>>], s, ChunkOf(e))
  <2>1. /\ e \in Batch /\ ChunkOf(e) \in Nat /\ RoundOf(e) \in Round
        /\ Peer(r, e) \in OtherHalf(RoundOf(e), r) /\ Peer(r, e) \in InferRank
        /\ Sender(e) \in InferRank /\ Receiver(e) \in InferRank /\ Sender(e) # Receiver(e)
    BY <1>2, BatchFields
  <2>2. Size(e) = SliceLength(plan[<<Sender(e), Receiver(e)>>], s, ChunkOf(e))
    BY <1>2 DEF Batches
  <2>3. e = <<ChunkOf(e), RoundOf(e), Sender(e), Receiver(e), Size(e)>> /\ Size(e) \in 1 .. MaxOps
    BY <2>1 DEF Batch, ChunkOf, RoundOf, Sender, Receiver, Size
  <2>4. plan[<<Sender(e), Receiver(e)>>] \in Nat
    BY <1>1, <2>1, SizeAssumption DEF Pairs
  <2>5. ChunkOf(e) * s \in Nat /\ s \in Nat
    BY <1>1, <2>1, SizeAssumption
  <2>6. Size(e) <= s
    BY <2>2, <2>4, <2>5 DEF SliceLength
  <2> QED
    BY <2>1, <2>2, <2>3, <2>6, SizeAssumption
<1> HIDE DEF B, s
<1>3. s \in Nat /\ \A e \in {a, b} : ChunkOf(e) \in Nat /\ ChunkOf(e) * s \in Nat
  <2>1. s \in Nat
    BY <1>1, SizeAssumption
  <2>2. ChunkOf(a) \in Nat /\ ChunkOf(b) \in Nat
    BY <1>1, <1>2
  <2> QED
    BY <2>1, <2>2
<1>4. /\ x \in Nat
      /\ \A e \in {a, b} : ChunkOf(e) * s + 1 <= x /\ x <= ChunkOf(e) * s + s
  <2>1. ASSUME NEW e \in {a, b} PROVE x \in Nat /\ ChunkOf(e) * s + 1 <= x /\ x <= ChunkOf(e) * s + s
    <3>1. x \in (ChunkOf(e) * s + 1) .. (ChunkOf(e) * s + Size(e))
      BY DEF OpsIn, s
    <3>2. ChunkOf(e) * s \in Nat /\ Size(e) \in Nat /\ Size(e) <= s /\ s \in Nat
      BY <1>1, <1>2, <1>3, <2>1
    <3> QED
      BY <3>1, <3>2
  <2> QED
    BY <2>1
<1>5. ChunkOf(a) = ChunkOf(b)
  <2>1. ~ ChunkOf(a) < ChunkOf(b)
    BY <1>1, <1>3, <1>4, ChunksApart
  <2>2. ~ ChunkOf(b) < ChunkOf(a)
    BY <1>1, <1>3, <1>4, ChunksApart
  <2>3. ChunkOf(a) \in Nat /\ ChunkOf(b) \in Nat
    BY <1>3
  <2> QED
    BY <2>1, <2>2, <2>3
<1>6. RoundOf(a) = RoundOf(b)
  <2>1. Peer(r, a) = Peer(r, b)
    BY DEF Peer
  <2> QED
    BY <1>1, <1>2, <2>1, MeetOnce
<1> QED
  BY <1>1, <1>2, <1>5, <1>6

-----------------------------------------------------------------------------
\* Every reachable state is well typed.
THEOREM TypeCorrect == Spec => []TypeOK
<1>1. IInv => TypeOK
  BY DEF IInv
<1> QED
  BY <1>1, InitIInv, NextIInv, PTL DEF Spec

\* For every world size, plan and choice of the ranks' own steps: while a rank
\* has batches left, some batch has both its sides issued (the claims of
\* nccl_stream_batch.py:345-356 and 415-423).
THEOREM NeverStuckTheorem == Spec => []NeverStuck
  BY InitIInv, NextIInv, IInvNeverStuck, PTL DEF Spec

\* For a power of two of ranks, every plan and choice of the ranks' own steps: when
\* all ranks have returned, every operation of the plan was carried out on both sides.
THEOREM EveryPairMovedTheorem ==
  ASSUME HalvesEvenly
  PROVE  Spec => []EveryPairMoved
<1>1. IInv => EveryPairMoved
  BY AllMoved
<1> QED
  BY <1>1, InitIInv, NextIInv, PTL DEF Spec

\* And none was handed to the backend twice.
THEOREM MovedOnceTheorem ==
  ASSUME HalvesEvenly
  PROVE  Spec => []MovedOnce
<1>1. IInv => MovedOnce
  BY NoneTwice
<1> QED
  BY <1>1, InitIInv, NextIInv, PTL DEF Spec
=============================================================================
