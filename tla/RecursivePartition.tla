------------------------- MODULE RecursivePartition -------------------------
(***************************************************************************)
(* NcclColocateStreamBatchTransport on the inference ranks in colocate     *)
(* mode (transfer/nccl_stream_batch.py).  _run_chunked cuts the operations *)
(* of every pair of ranks into chunks of step operations, after the ranks  *)
(* have agreed on the step and on the number of chunks; for every chunk    *)
(* execute_recursive_partition_stream_transfer halves the rank range in    *)
(* every round; in a phase one half sends and the other receives; and      *)
(* _execute_ops_concurrent issues one blocking batch per peer of the other *)
(* half, peers in ascending order.                                         *)
(*                                                                         *)
(* A plan gives the number of operations of each pair <<sender, receiver>>;*)
(* self copies are done locally before the rounds and are not part of it.  *)
(* The batch between two ranks is one call of Rendezvous, <<chunk, round,  *)
(* sender, receiver, number of operations>>: batches of different length   *)
(* do not belong together.                                                 *)
(***************************************************************************)
EXTENDS Naturals

CONSTANTS
  WorldSize,   \* number of inference ranks in the weights update group
  MaxOps,      \* bound on the operations of a pair
  Plans,       \* the transfer plans to run
  LocalSteps   \* the steps the ranks compute from their sample operations

InferRank == 0 .. WorldSize - 1

Pairs == {p \in InferRank \X InferRank : p[1] # p[2]}

ASSUME SizeAssumption == WorldSize \in Nat \ {0} /\ MaxOps \in Nat \ {0}
ASSUME PlansAssumption == Plans \subseteq [Pairs -> 0 .. MaxOps]
ASSUME StepsAssumption == LocalSteps \subseteq [InferRank -> 1 .. MaxOps]
ASSUME PowersOfTwo ==
  2^0 = 1 /\ \A k \in 0 .. WorldSize : 2^k \in Nat /\ k < 2^k /\ 2^(k + 1) = 2 * 2^k

VARIABLES
  plan,        \* the transfer plan of this update
  phase,       \* "step", "chunks": in the all_reduce of that value; "run"
  step,        \* step[r]: operations of a pair in a chunk, as rank r has it
  chunks,      \* chunks[r]: how many chunks rank r runs
  left         \* see Rendezvous

vars == <<plan, phase, step, chunks, left>>

-----------------------------------------------------------------------------
(* Rounds and phases.                                                      *)

\* Mutant: the partition keeps its size in every round.
PartitionSizeKept(round) == WorldSize

PartitionSize(round) == WorldSize \div 2^round

\* range(int(math.log2(world_size))): a round for every halving that starts
\* from at least two ranks.
Round == {k \in 0 .. WorldSize : PartitionSize(k) >= 2}

Half(round) == PartitionSize(round) \div 2
PartitionBase(round, r) == (r \div PartitionSize(round)) * PartitionSize(round)
InFirstHalf(round, r) == r - PartitionBase(round, r) < Half(round)

\* The ranks r talks to in a round.
OtherHalf(round, r) ==
  LET base == PartitionBase(round, r) IN
  IF InFirstHalf(round, r)
    THEN {q \in InferRank : base + Half(round) <= q /\ q < base + PartitionSize(round)}
    ELSE {q \in InferRank : base <= q /\ q < base + Half(round)}

Batch == (0 .. MaxOps - 1) \X Round \X InferRank \X InferRank \X (1 .. MaxOps)

ChunkOf(b) == b[1]
RoundOf(b) == b[2]
Sender(b) == b[3]
Receiver(b) == b[4]
Size(b) == b[5]
BatchParts(b) == {Sender(b), Receiver(b)}
Peer(r, b) == IF r = Sender(b) THEN Receiver(b) ELSE Sender(b)

\* Mutant: every rank sends in phase 1, whichever half it is in.
PhaseBySide(r, b) == IF r = Sender(b) THEN 1 ELSE 2

\* Phase 1: the first half sends, the second receives; phase 2 the converse.
Phase(r, b) == IF (r = Sender(b)) <=> InFirstHalf(RoundOf(b), r) THEN 1 ELSE 2

\* The loops of rank r: chunks, rounds, two phases in each, peers in ascending
\* order.
BatchOrder(r, b) ==
  ((ChunkOf(b) * (WorldSize + 1) + RoundOf(b)) * 2 + Phase(r, b)) * WorldSize + Peer(r, b)

-----------------------------------------------------------------------------
(* Chunks.                                                                 *)

\* len(ops[chunk * step : (chunk + 1) * step])
SliceLength(ops, s, chunk) ==
  IF ops <= chunk * s THEN 0 ELSE IF ops - chunk * s < s THEN ops - chunk * s ELSE s

\* max(max_send_len, max_recv_len) of a rank
LongestList(p2p, r) ==
  LET lengths == {p2p[p] : p \in {q \in Pairs : r \in {q[1], q[2]}}} \cup {0}
  IN CHOOSE n \in lengths : \A k \in lengths : k <= n

\* Mutant: the last chunk is dropped when it is not full.
FullChunks(p2p, s, r) ==
  IF LongestList(p2p, r) \div s = 0 THEN 1 ELSE LongestList(p2p, r) \div s

\* n_chunks of a rank before the all_reduce
NumChunks(p2p, s, r) ==
  IF LongestList(p2p, r) = 0 THEN 1 ELSE (LongestList(p2p, r) + s - 1) \div s

\* The batches rank r issues; a peer without operations in the chunk is
\* skipped.
Batches(p2p, s, n, r) ==
  {b \in Batch : /\ r \in BatchParts(b)
                 /\ Peer(r, b) \in OtherHalf(RoundOf(b), r)
                 /\ Sender(b) # Receiver(b)
                 /\ ChunkOf(b) < n
                 /\ Size(b) = SliceLength(p2p[<<Sender(b), Receiver(b)>>], s, ChunkOf(b))}

Program(p2p, s, n) == [r \in InferRank |-> Batches(p2p, s[r], n[r], r)]

Group == INSTANCE Rendezvous WITH
           Rank <- InferRank, Op <- Batch, Parts <- BatchParts, Order <- BatchOrder, Programs <- {}

-----------------------------------------------------------------------------
\* AWEX_CHUNK_OPS gives every rank the same step, and the first all_reduce is
\* left out.  A step of MaxOps is the unchunked path (AWEX_CHUNK_MB = 0).
Init ==
  /\ plan \in Plans
  /\ step \in LocalSteps
  /\ phase \in {"step", "chunks"}
  /\ phase = "chunks" => \A r, q \in InferRank : step[r] = step[q]
  /\ chunks = [r \in InferRank |-> 1]
  /\ left = [r \in InferRank |-> {}]

\* Mutant: every rank goes on with the step of its own sample operation.
KeepLocalStep ==
  /\ phase = "step"
  /\ phase' = "chunks"
  /\ UNCHANGED <<plan, step, chunks, left>>

\* all_reduce(step_size, MIN)
AlignStep ==
  /\ phase = "step"
  /\ \E m \in InferRank :
       /\ \A r \in InferRank : step[m] <= step[r]
       /\ step' = [r \in InferRank |-> step[m]]
  /\ phase' = "chunks"
  /\ UNCHANGED <<plan, chunks, left>>

\* all_reduce(n_chunks, MAX), and the programs that follow from it
AlignChunks ==
  /\ phase = "chunks"
  /\ \E n \in 1 .. MaxOps :
       /\ \E r \in InferRank : NumChunks(plan, step[r], r) = n
       /\ \A r \in InferRank : NumChunks(plan, step[r], r) <= n
       /\ chunks' = [r \in InferRank |-> n]
  /\ left' = Program(plan, step, chunks')
  /\ phase' = "run"
  /\ UNCHANGED <<plan, step>>

Transfer == phase = "run" /\ Group!Next /\ UNCHANGED <<plan, phase, step, chunks>>

Next == AlignStep \/ AlignChunks \/ Transfer

Spec == Init /\ [][Next]_vars

\* Each rank runs its straight-line program, a collective of all ranks ends,
\* and a batch whose two sides have been issued is completed by the backend.
FairSpec == Spec /\ WF_vars(Next)

-----------------------------------------------------------------------------
TypeOK ==
  /\ plan \in Plans
  /\ phase \in {"step", "chunks", "run"}
  /\ step \in [InferRank -> 1 .. MaxOps]
  /\ chunks \in [InferRank -> 1 .. MaxOps]
  /\ Group!TypeOK

\* Whatever the plan and the steps the ranks start from, they never wait on
\* each other in a cycle: while a rank has batches left, some batch has both
\* its sides issued with the same operations (nccl_stream_batch.py:345-356
\* argues this from the single direction of a phase and the common peer order,
\* 415-423 from the common step).
NeverStuck == Group!NeverStuck

Finished == phase = "run" /\ Group!Done

\* The update ends on every rank.
Terminates == <>Finished

\* The operations of its pair that rank r passes in a batch.
OpsIn(r, b) == (ChunkOf(b) * step[r] + 1) .. (ChunkOf(b) * step[r] + Size(b))

\* The batches rank r has returned from.
Returned(r) == Batches(plan, step[r], chunks[r], r) \ left[r]

\* When every rank has returned, every operation of every pair of the plan has
\* been carried out on both sides, also those of a last chunk that is not full.
EveryPairMoved ==
  Finished => \A p \in Pairs : \A k \in 1 .. plan[p] : \A r \in {p[1], p[2]} :
    \E b \in Returned(r) : Sender(b) = p[1] /\ Receiver(b) = p[2] /\ k \in OpsIn(r, b)

\* No operation has been handed to the backend in two batches, be it in two
\* rounds or in two chunks.
MovedOnce ==
  Finished => \A r \in InferRank : \A b, c \in Returned(r) :
    Sender(b) = Sender(c) /\ Receiver(b) = Receiver(c) /\ b # c => OpsIn(r, b) \cap OpsIn(r, c) = {}
=============================================================================
