---------------------------- MODULE CircleShift ----------------------------
(***************************************************************************)
(* NcclColocateTransport (transfer/nccl_comm.py): in stage s every rank    *)
(* sends to the rank s above it and receives from the rank s below it,     *)
(* modulo the world size.  A stage has two phases; the ranks that          *)
(* compute_two_phase_partition colours 0 send in the first and receive in  *)
(* the second, the others the converse, and a barrier of all ranks closes  *)
(* each phase.                                                             *)
(*                                                                         *)
(* A call of Rendezvous is <<stage, sender, receiver>> for a transfer and  *)
(* <<stage, phase, phase>> for the barrier that closes a phase.            *)
(***************************************************************************)
EXTENDS Naturals

CONSTANTS
  WorldSize,   \* number of inference ranks
  Plans        \* sets of pairs <<sender, receiver>> with tensors to move

InferRank == 0 .. WorldSize - 1

Pairs == {p \in InferRank \X InferRank : p[1] # p[2]}

ASSUME CircleAssumption == WorldSize \in Nat /\ WorldSize >= 2 /\ Plans \subseteq SUBSET Pairs

VARIABLES plan, left

vars == <<plan, left>>

\* Stage 0 copies locally and has no calls.
Stage == 1 .. WorldSize - 1

Gcd(m, n) == CHOOSE d \in 1 .. m : /\ m % d = 0 /\ n % d = 0
                                   /\ \A e \in 1 .. m : m % e = 0 /\ n % e = 0 => e <= d

\* pow(a, -1, m)
InverseMod(a, m) == CHOOSE i \in 0 .. m - 1 : (a * i) % m = 1 % m

\* Mutant: every rank gets the same colour.
PartitionConstant(r, stage) == 0

\* compute_two_phase_partition: the parity of the rank's position on its cycle
\* of the graph with edges r -> r + stage.
Partition(r, stage) ==
  LET gcd == Gcd(WorldSize, stage)
      reducedWorld == WorldSize \div gcd
      cycleIndex == r \div gcd
  IN ((cycleIndex * InverseMod(stage \div gcd, reducedWorld)) % reducedWorld) % 2

Transfer == {<<s, r, (r + s) % WorldSize>> : s \in Stage, r \in InferRank}
Barrier == {<<s, phase, phase>> : s \in Stage, phase \in {0, 1}}
Call == Transfer \cup Barrier

CallParts(o) == IF o \in Barrier THEN InferRank ELSE {o[2], o[3]}

\* Mutant: both barriers of a stage follow the first phase.
SlotEarlyBarrier(r, o) ==
  IF o \in Barrier THEN 1
  ELSE IF (r = o[2]) <=> (Partition(r, o[1]) = 0) THEN 0 ELSE 2

\* Within a stage: phase 1, its barrier, phase 2, its barrier.
Slot(r, o) ==
  IF o \in Barrier THEN o[2] * 2 + 1
  ELSE IF r = o[2] THEN IF Partition(r, o[1]) = 0 THEN 0 ELSE 2
  ELSE IF Partition(r, o[1]) = 0 THEN 2 ELSE 0

CallOrder(r, o) == o[1] * 4 + Slot(r, o)

Calls(p2p, r) == {o \in Transfer : r \in {o[2], o[3]} /\ <<o[2], o[3]>> \in p2p} \cup Barrier

Program(p2p) == [r \in InferRank |-> Calls(p2p, r)]

Group == INSTANCE Rendezvous WITH
           Rank <- InferRank, Op <- Call, Parts <- CallParts,
           Order <- CallOrder, Programs <- {Program(p) : p \in Plans}

Init == plan \in Plans /\ left = Program(plan)

Next == Group!Next /\ UNCHANGED plan

Spec == Init /\ [][Next]_vars

FairSpec == Spec /\ WF_vars(\E o \in Call : Group!Complete(o) /\ UNCHANGED plan)

-----------------------------------------------------------------------------
\* The update ends on every rank: in every stage the sender and the receiver of
\* a transfer are in opposite phases, so that no ranks wait on each other in a
\* cycle.
Terminates == Group!Terminates

\* A transfer is over on both its ranks before any rank leaves the stage.
StageClosed ==
  \A s \in Stage : (\E r \in InferRank : <<s, 1, 1>> \notin left[r]) =>
    \A q \in InferRank : \A o \in left[q] : o[1] > s
=============================================================================
