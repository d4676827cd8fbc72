------------------------------ MODULE OneByOne ------------------------------
(***************************************************************************)
(* One weights update in separate mode with use_batch_send_recv off: every *)
(* training rank sends, and every inference rank receives, its tensors one *)
(* blocking operation at a time, and all of them meet in a barrier         *)
(* (NCCLWeightsWriter._write_weights, NCCLWeightsReader._update_weights,   *)
(* _send_recv_one_by_one of both).                                         *)
(*                                                                         *)
(* The order of a rank's operations is what nccl_build_send_ops and        *)
(* nccl_build_recv_ops build: round robin over the peers in ascending      *)
(* order, one operation per peer and round, peers that have none left      *)
(* skipped.  A call of Rendezvous is <<round, sender, receiver>>.          *)
(***************************************************************************)
EXTENDS Naturals

CONSTANTS
  InferWorldSize,   \* ranks 0 .. InferWorldSize - 1 receive
  WorldSize,        \* ranks InferWorldSize .. WorldSize - 1 send
  MaxOps            \* bound on the operations between two ranks

ASSUME OneByOneAssumption ==
  /\ InferWorldSize \in Nat \ {0} /\ WorldSize \in Nat /\ InferWorldSize < WorldSize
  /\ MaxOps \in Nat

TransferRank == 0 .. WorldSize - 1
Reader == 0 .. InferWorldSize - 1
Writer == InferWorldSize .. WorldSize - 1

VARIABLES
  count,   \* count[<<s, r>>]: operations of the transfer plan from s to r
  left     \* see Rendezvous

vars == <<count, left>>

Transfer == (0 .. MaxOps - 1) \X Writer \X Reader

\* The dist.barrier that ends the update on both sides.
Barrier == <<MaxOps, InferWorldSize, 0>>

Call == Transfer \cup {Barrier}

\* Mutant: the barrier is only among the training ranks.
CallPartsWriters(o) == IF o = Barrier THEN Writer ELSE {o[2], o[3]}

CallParts(o) == IF o = Barrier THEN TransferRank ELSE {o[2], o[3]}

Peer(r, o) == IF r \in Reader THEN o[2] ELSE o[3]

\* Mutant: the inference ranks take their operations from the end of the lists.
CallOrderReversed(r, o) ==
  (IF r \in Reader /\ o # Barrier THEN MaxOps - 1 - o[1] ELSE o[1]) * WorldSize + Peer(r, o)

\* while unfinished_ranks: for peer in sorted(unfinished_ranks): one operation
CallOrder(r, o) == o[1] * WorldSize + Peer(r, o)

Calls(n, r) == {o \in Transfer : r \in {o[2], o[3]} /\ o[1] < n[<<o[2], o[3]>>]} \cup {Barrier}

Program(n) == [r \in TransferRank |-> Calls(n, r)]

Counts == [Writer \X Reader -> 0 .. MaxOps]

Group == INSTANCE Rendezvous WITH
           Rank <- TransferRank, Op <- Call, Parts <- CallParts,
           Order <- CallOrder, Programs <- {Program(n) : n \in Counts}

Init == count \in Counts /\ left = Program(count)

Next == Group!Next /\ UNCHANGED count

Spec == Init /\ [][Next]_vars

\* Each rank runs its straight-line program, and an operation whose two sides
\* have been issued completes.
FairSpec == Spec /\ WF_vars(\E o \in Call : Group!Complete(o) /\ UNCHANGED count)

-----------------------------------------------------------------------------
TypeOK == count \in Counts /\ Group!TypeOK

\* Writers and readers interleave their peers so that they never wait on each
\* other in a cycle, whatever the number of operations of each pair.
NeverStuck == Group!NeverStuck

\* The update ends on every rank.
Terminates == Group!Terminates

\* A rank that has passed the barrier may release its tensors and go on to
\* the next step: by then every operation of every pair has completed.
BarrierIsLast ==
  (\E r \in TransferRank : Barrier \notin left[r]) => \A q \in TransferRank : left[q] = {}
=============================================================================
