--------------------------- MODULE OneByOneProofs ---------------------------
(***************************************************************************)
(* For every number of writers and readers and every number of operations, *)
(* the one-by-one update never leaves a rank waiting in a cycle, and its   *)
(* barrier comes last.                                                     *)
(*                                                                         *)
(* The numbering all ranks follow: round, then sender, then receiver.      *)
(***************************************************************************)
EXTENDS OneByOne, Integers, WellFoundedInduction, TLAPS

CallKey(o) == (o[1] * WorldSize + o[2]) * WorldSize + o[3]

Key == [o \in Call |-> CallKey(o)]

\* What is left of a program is part of it.
WithinProgram == \A r \in TransferRank : left[r] \subseteq Calls(count, r)

IInv == TypeOK /\ Group!Symmetric /\ WithinProgram /\ BarrierIsLast

-----------------------------------------------------------------------------
\* A non-empty set of numbers has a lowest one,
LEMMA LeastNumber ==
  ASSUME NEW T \in SUBSET Nat, T # {}
  PROVE  \E n \in T : \A m \in T : n <= m
<1> DEFINE R == {p \in Nat \X Nat : p[1] < p[2]}
<1>1. IsWellFoundedOn(R, Nat)
  BY NatLessThanWellFounded DEF OpToRel
<1>2. PICK n \in T : \A m \in T : ~ (<<m, n>> \in R)
  BY <1>1, WFMin
<1>3. ASSUME NEW m \in T PROVE n <= m
  <2>1. <<m, n>> \in R <=> m < n
    OBVIOUS
  <2> QED
    BY <1>2, <2>1
<1> QED
  BY <1>3

\* and a non-empty set of numbered calls has one of lowest number.
LEMMA LowestCall ==
  ASSUME NEW key \in [Call -> Nat], NEW T \in SUBSET Call, T # {}
  PROVE  \E o \in T : \A c \in T : key[o] <= key[c]
<1> DEFINE K == {key[o] : o \in T}
<1>1. K \in SUBSET Nat /\ K # {}
  OBVIOUS
<1>2. PICK n \in K : \A m \in K : n <= m
  BY <1>1, LeastNumber
<1> QED
  BY <1>2

\* The argument of the transports: a call that is left has its counterparts
\* left, and a common numbering makes the lowest one next on all its ranks.
LEMMA CommonOrderNeverStuck ==
  ASSUME NEW key \in [Call -> Nat], Group!TypeOK, Group!Symmetric, Group!CommonOrder(key)
  PROVE  Group!NeverStuck
<1> DEFINE Remaining == UNION {left[r] : r \in TransferRank}
<1>1. CASE Remaining = {}
  BY <1>1 DEF Group!NeverStuck, Group!Done
<1>2. CASE Remaining # {}
  <2>1. Remaining \in SUBSET Call
    BY DEF Group!TypeOK
  <2>2. PICK o \in Remaining : \A c \in Remaining : key[o] <= key[c]
    BY <1>2, <2>1, LowestCall
  <2>3. PICK r \in TransferRank : o \in left[r]
    BY <2>2
  <2>4. CallParts(o) # {} /\ CallParts(o) \subseteq TransferRank
    BY <2>3 DEF Group!Symmetric
  <2>5. ASSUME NEW q \in CallParts(o) PROVE Group!At(q, o)
    <3>1. q \in TransferRank /\ o \in left[q]
      BY <2>3, <2>4 DEF Group!Symmetric
    <3>2. \A c \in left[q] : CallOrder(q, o) <= CallOrder(q, c)
      BY <2>2, <3>1 DEF Group!CommonOrder
    <3> QED
      BY <3>1, <3>2 DEF Group!At
  <2> QED
    BY <2>1, <2>4, <2>5 DEF Group!NeverStuck, Group!Ready
<1> QED
  BY <1>1, <1>2

\* A completed call leaves on all its participants at once.
LEMMA StepPreserves ==
  ASSUME Group!TypeOK, Group!Symmetric, Group!Next
  PROVE  Group!TypeOK' /\ Group!Symmetric' /\ \A r \in TransferRank : left'[r] \subseteq left[r]
<1>1. CASE Group!Return
  BY <1>1 DEF Group!Return, Group!TypeOK, Group!Symmetric
<1>2. ASSUME NEW o \in Call, Group!Complete(o)
      PROVE  Group!TypeOK' /\ Group!Symmetric' /\ \A r \in TransferRank : left'[r] \subseteq left[r]
  <2>1. \A r \in TransferRank :
           left'[r] = IF r \in CallParts(o) THEN left[r] \ {o} ELSE left[r]
    BY <1>2 DEF Group!Complete
  <2>2. Group!TypeOK'
    BY <1>2 DEF Group!Complete, Group!TypeOK
  <2>3. ASSUME NEW r \in TransferRank, NEW c \in left'[r]
        PROVE  r \in CallParts(c) /\ CallParts(c) \subseteq TransferRank /\ \A q \in CallParts(c) : c \in left'[q]
    <3>1. c \in left[r]
      BY <2>1, <2>3
    <3>2. r \in CallParts(c) /\ CallParts(c) \subseteq TransferRank /\ \A q \in CallParts(c) : c \in left[q]
      BY <3>1 DEF Group!Symmetric
    <3>3. c # o
      BY <2>1, <2>3, <3>2
    <3> QED
      BY <2>1, <3>2, <3>3
  <2> QED
    BY <2>1, <2>2, <2>3 DEF Group!Symmetric
<1> QED
  BY <1>1, <1>2 DEF Group!Next

\* Comparing numbers written in base W compares their digits.
LEMMA Lexicographic ==
  ASSUME NEW W \in Nat, NEW x \in Nat, NEW y \in Nat, NEW u \in 0 .. W - 1, NEW v \in 0 .. W - 1
  PROVE  /\ x * W + u \in Nat
         /\ x * W + u <= y * W + v <=> x < y \/ (x = y /\ u <= v)
<1>1. u \in Nat /\ v \in Nat /\ u < W /\ v < W /\ x * W \in Nat /\ y * W \in Nat
  OBVIOUS
<1>2. ASSUME x < y PROVE x * W + u <= y * W + v
  <2>1. PICK d \in Nat : y = x + 1 + d
    <3>1. y - x - 1 \in Nat /\ y = x + 1 + (y - x - 1)
      BY <1>2
    <3> QED
      BY <3>1
  <2>2. y * W = x * W + W + d * W /\ d * W \in Nat
    BY <2>1
  <2> QED
    BY <1>1, <2>2
<1>3. ASSUME y < x PROVE y * W + v < x * W + u
  <2>1. PICK d \in Nat : x = y + 1 + d
    <3>1. x - y - 1 \in Nat /\ x = y + 1 + (x - y - 1)
      BY <1>3
    <3> QED
      BY <3>1
  <2>2. x * W = y * W + W + d * W /\ d * W \in Nat
    BY <2>1
  <2> QED
    BY <1>1, <2>2
<1>4. CASE x = y
  BY <1>1, <1>4
<1>5. CASE x < y
  BY <1>1, <1>2, <1>5
<1>6. CASE y < x
  BY <1>1, <1>3, <1>6
<1> QED
  BY <1>4, <1>5, <1>6

-----------------------------------------------------------------------------
LEMMA CallFields ==
  ASSUME NEW o \in Call
  PROVE  /\ o[1] \in 0 .. MaxOps
         /\ o[2] \in Writer /\ o[3] \in Reader
         /\ o = Barrier \/ o[1] < MaxOps
         /\ o[1] < MaxOps => CallParts(o) = {o[2], o[3]}
         /\ Barrier[1] = MaxOps
  BY OneByOneAssumption DEF Call, Transfer, Barrier, Writer, Reader, CallParts

\* A writer sends and a reader receives: the peer tells a rank's operations of
\* one round apart.
LEMMA PeerIsOtherSide ==
  ASSUME NEW r \in TransferRank, NEW o \in Call, r \in CallParts(o)
  PROVE  /\ Peer(r, o) \in 0 .. WorldSize - 1
         /\ r \in Reader => Peer(r, o) = o[2]
         /\ r \notin Reader => Peer(r, o) = o[3]
         /\ o # Barrier /\ r \in Reader => o[3] = r
         /\ o # Barrier /\ r \notin Reader => o[2] = r
  BY CallFields, OneByOneAssumption DEF Peer, TransferRank, Writer, Reader, CallParts

\* Every rank works through its operations in the common numbering.
LEMMA ProgramsFollowKey ==
  ASSUME NEW n \in Counts, NEW r \in TransferRank,
         NEW a \in Calls(n, r), NEW b \in Calls(n, r), Key[a] <= Key[b]
  PROVE  CallOrder(r, a) <= CallOrder(r, b)
<1> DEFINE W == WorldSize
           Up(c) == c[1] * W + c[2]
<1>1. W \in Nat
  BY OneByOneAssumption
<1>2. \A c \in Calls(n, r) :
        /\ c \in Call /\ r \in CallParts(c)
        /\ c[1] \in Nat /\ c[2] \in 0 .. W - 1 /\ c[3] \in 0 .. W - 1
        /\ Peer(r, c) \in 0 .. W - 1
  <2> TAKE c \in Calls(n, r)
  <2>1. c \in Call /\ r \in CallParts(c)
    BY DEF Calls, Call, CallParts
  <2> QED
    BY <2>1, CallFields, PeerIsOtherSide, OneByOneAssumption DEF Writer, Reader
<1>3. Up(a) \in Nat /\ Up(b) \in Nat
  BY <1>1, <1>2, Lexicographic
<1>4. Key[a] = Up(a) * W + a[3] /\ Key[b] = Up(b) * W + b[3]
  BY <1>2 DEF Key, CallKey
<1> HIDE DEF Up
<1>5. Up(a) < Up(b) \/ (Up(a) = Up(b) /\ a[3] <= b[3])
  BY <1>1, <1>2, <1>3, <1>4, Lexicographic
<1>6. Up(a) <= Up(b)
  BY <1>3, <1>5
<1>7. a[1] < b[1] \/ (a[1] = b[1] /\ a[2] <= b[2])
  BY <1>1, <1>2, <1>6, Lexicographic DEF Up
<1>8. a[1] = b[1] /\ a[2] = b[2] => a[3] <= b[3]
  BY <1>3, <1>5 DEF Up
<1>9. a[1] < b[1] \/ (a[1] = b[1] /\ Peer(r, a) <= Peer(r, b))
  <2>1. CASE a[1] < b[1]
    BY <2>1
  <2>2. CASE a[1] = b[1] /\ (a = Barrier \/ b = Barrier)
    <3>1. a = b
      BY <1>2, <2>2, CallFields
    <3> QED
      BY <1>2, <3>1
  <2>3. CASE a[1] = b[1] /\ a # Barrier /\ b # Barrier
    <3>1. CASE r \in Reader
      BY <1>2, <1>7, <2>3, <3>1, PeerIsOtherSide
    <3>2. CASE r \notin Reader
      BY <1>2, <1>8, <2>3, <3>2, PeerIsOtherSide
    <3> QED
      BY <3>1, <3>2
  <2> QED
    BY <1>7, <2>1, <2>2, <2>3
<1> QED
  BY <1>1, <1>2, <1>9, Lexicographic DEF CallOrder

-----------------------------------------------------------------------------
LEMMA ProgramSymmetric ==
  ASSUME NEW n \in Counts, NEW r \in TransferRank, NEW o \in Calls(n, r)
  PROVE  /\ r \in CallParts(o) /\ CallParts(o) \subseteq TransferRank
         /\ \A q \in CallParts(o) : o \in Calls(n, q)
<1>1. CASE o = Barrier
  BY <1>1 DEF Calls, CallParts
<1>2. CASE o # Barrier
  BY <1>2, OneByOneAssumption
     DEF Calls, CallParts, Transfer, TransferRank, Writer, Reader
<1> QED
  BY <1>1, <1>2

LEMMA InitIInv == Init => IInv
<1> SUFFICES ASSUME Init PROVE IInv
  OBVIOUS
<1>1. count \in Counts /\ \A r \in TransferRank : left[r] = Calls(count, r)
  BY DEF Init, Program
<1>2. TypeOK
  BY DEF Init, TypeOK, Group!TypeOK, Program, Calls, Call
<1>3. Group!Symmetric
  BY <1>1, ProgramSymmetric DEF Group!Symmetric
<1>4. BarrierIsLast
  BY <1>1 DEF BarrierIsLast, Calls
<1> QED
  BY <1>1, <1>2, <1>3, <1>4 DEF IInv, WithinProgram

\* When all ranks wait in the barrier they have nothing else left: it has the
\* highest place in every program.
LEMMA BarrierReady ==
  ASSUME IInv, Group!Ready(Barrier), NEW r \in TransferRank
  PROVE  left[r] = {Barrier}
<1>1. Barrier \in left[r] /\ \A c \in left[r] : CallOrder(r, Barrier) <= CallOrder(r, c)
  BY DEF Group!Ready, Group!At, CallParts
<1>2. ASSUME NEW c \in left[r], c # Barrier PROVE FALSE
  <2>1. c \in Transfer /\ c \in Call /\ r \in CallParts(c) /\ c[1] \in Nat /\ c[1] < MaxOps
    <3>1. c \in Transfer /\ r \in {c[2], c[3]}
      BY <1>2 DEF IInv, WithinProgram, Calls
    <3>2. c \in Call
      BY <3>1 DEF Call
    <3> QED
      BY <1>2, <3>1, <3>2, CallFields, OneByOneAssumption DEF CallParts, Transfer
  <2>2. Peer(r, c) \in 0 .. WorldSize - 1 /\ Peer(r, Barrier) \in 0 .. WorldSize - 1
    BY <2>1, PeerIsOtherSide DEF Call, CallParts
  <2>3. ~ (CallOrder(r, Barrier) <= CallOrder(r, c))
    <3>1. Barrier[1] = MaxOps /\ MaxOps \in Nat /\ WorldSize \in Nat
      BY OneByOneAssumption DEF Barrier
    <3>2. ~ (Barrier[1] * WorldSize + Peer(r, Barrier) <= c[1] * WorldSize + Peer(r, c))
      BY <2>1, <2>2, <3>1, Lexicographic
    <3> QED
      BY <3>2 DEF CallOrder
  <2> QED
    BY <1>1, <2>3
<1> QED
  BY <1>1, <1>2

LEMMA NextIInv == IInv /\ [Next]_vars => IInv'
<1> SUFFICES ASSUME IInv, [Next]_vars PROVE IInv'
  OBVIOUS
<1>1. CASE Next
  <2>1. Group!TypeOK /\ Group!Symmetric /\ Group!Next
    BY <1>1 DEF IInv, TypeOK, Next, Group!TypeOK, Group!Symmetric, Group!Next, Group!Complete, Group!Ready, Group!At, Group!Return, Group!Done
  <2>2. /\ Group!TypeOK' /\ Group!Symmetric'
        /\ \A r \in TransferRank : left'[r] \subseteq left[r]
    BY <2>1, StepPreserves
  <2>3. count' = count
    BY <1>1 DEF Next
  <2>4. BarrierIsLast'
    <3>1. CASE \E r \in TransferRank : Barrier \notin left[r]
      BY <2>2, <3>1 DEF IInv, BarrierIsLast
    <3>2. CASE \A r \in TransferRank : Barrier \in left[r]
      <4>1. CASE Group!Return
        BY <3>2, <4>1 DEF Group!Return, BarrierIsLast
      <4>2. ASSUME NEW o \in Call, Group!Complete(o), o # Barrier
            PROVE  BarrierIsLast'
        BY <3>2, <4>2 DEF Group!Complete, BarrierIsLast
      <4>3. CASE Group!Complete(Barrier)
        <5>1. \A r \in TransferRank : left[r] = {Barrier}
          BY <4>3, BarrierReady DEF Group!Complete
        <5> QED
          BY <4>3, <5>1 DEF Group!Complete, BarrierIsLast, CallParts
      <4> QED
        BY <2>1, <4>1, <4>2, <4>3 DEF Group!Next
    <3> QED
      BY <3>1, <3>2
  <2> QED
    BY <2>2, <2>3, <2>4 DEF IInv, TypeOK, WithinProgram, Group!TypeOK, Group!Symmetric
<1>2. CASE UNCHANGED vars
  BY <1>2 DEF vars, IInv, TypeOK, WithinProgram, BarrierIsLast, Group!TypeOK, Group!Symmetric
<1> QED
  BY <1>1, <1>2

LEMMA IInvNeverStuck == IInv => NeverStuck
<1> SUFFICES ASSUME IInv PROVE NeverStuck
  OBVIOUS
<1>1. Key \in [Call -> Nat]
  <2>1. ASSUME NEW o \in Call PROVE CallKey(o) \in Nat
    BY CallFields, OneByOneAssumption DEF CallKey, Writer, Reader
  <2> QED
    BY <2>1 DEF Key
<1>2. Group!CommonOrder(Key)
  <2>1. ASSUME NEW r \in TransferRank, NEW a \in left[r], NEW b \in left[r], Key[a] <= Key[b]
        PROVE  CallOrder(r, a) <= CallOrder(r, b)
    BY <2>1, ProgramsFollowKey DEF IInv, TypeOK, WithinProgram
  <2> QED
    BY <2>1 DEF Group!CommonOrder
<1>3. Group!TypeOK /\ Group!Symmetric
  BY DEF IInv, TypeOK, Group!TypeOK, Group!Symmetric
<1>4. Group!NeverStuck
  BY <1>1, <1>2, <1>3, CommonOrderNeverStuck
<1> QED
  BY <1>4 DEF NeverStuck, Group!NeverStuck, Group!Done, Group!Ready, Group!At

\* Every reachable state is well typed.
THEOREM TypeCorrect == Spec => []TypeOK
<1>1. IInv => TypeOK
  BY DEF IInv
<1> QED
  BY <1>1, InitIInv, NextIInv, PTL DEF Spec

\* For every number of ranks and operations: while a rank has operations left,
\* some operation has both its sides issued.
THEOREM NeverStuckTheorem == Spec => []NeverStuck
  BY InitIInv, NextIInv, IInvNeverStuck, PTL DEF Spec

\* For every number of ranks and operations: no rank leaves the update before
\* every operation has completed.
THEOREM BarrierIsLastTheorem == Spec => []BarrierIsLast
<1>1. IInv => BarrierIsLast
  BY DEF IInv
<1> QED
  BY <1>1, InitIInv, NextIInv, PTL DEF Spec
=============================================================================
