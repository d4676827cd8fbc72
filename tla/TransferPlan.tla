----------------------------- MODULE TransferPlan -----------------------------
(***************************************************************************)
(* The transfer plan (transfer/transfer_plan.py) and what it achieves: out *)
(* of the metadata of both sides every rank builds its own half of the     *)
(* plan, and an update carries out the halves of two ranks operation by    *)
(* operation, the first send with the first receive.                       *)
(*                                                                         *)
(* Ranks of the update: inference ranks first, engine after engine, then   *)
(* the training ranks.  A received element is <<parameter, index>> of the  *)
(* model, where the parameter is the one the tensor is really of.          *)
(***************************************************************************)
EXTENDS ParamMeta, Sequences

CONSTANTS
  NumEngines,    \* inference engines, all with the same layout
  TrainLayouts,  \* layouts of the training job
  InferLayouts   \* layouts of an engine

ASSUME TransferPlanAssumption ==
  NumEngines \in Nat \ {0} /\ \A l \in TrainLayouts \cup InferLayouts : Regular(l)

VARIABLES
  train, infer,        \* the layouts of this exchange
  sendPlan, recvPlan,  \* the halves: sendPlan[t][q], recvPlan[q][t]
  exchanged,           \* pairs <<t, q>> whose operations are over
  received             \* received[q][<<p, i>>]: element i of p on rank q

vars == <<train, infer, sendPlan, recvPlan, exchanged, received>>

NoData == <<>>

InferWorldSize(i) == NumEngines * WorldSize(i)
InferRank(i) == 0 .. InferWorldSize(i) - 1
TrainRank(t, i) == InferWorldSize(i) .. InferWorldSize(i) + WorldSize(t) - 1

\* _compute_shard_transfer_rank
InferTransferRank(i, e, r) == r + e * WorldSize(i)
TrainTransferRank(i, r) == r + InferWorldSize(i)

\* Mutant: the inference replicas follow the training replicas one by one,
\* also when there are fewer of these.
AssignedReplicaUnbounded(sent, held, e, replica) == e * NumReplicas(held) + replica

\* Round robin: inference replicas, engine after engine, over training ones.
AssignedReplica(sent, held, e, replica) == (e * NumReplicas(held) + replica) % NumReplicas(sent)

\* The elements that two shards have in common (_find_overlapping_regions).
Region(s, h) == (s.start .. s.start + s.size - 1) \cap (h.start .. h.start + h.size - 1)
First(region) == CHOOSE n \in region : \A m \in region : n <= m

\* Mutant: the offset in the sent tensor is the one in the parameter.
OperationGlobalOffset(i, p, e, s, h) ==
  [send |-> TrainTransferRank(i, s.rank), recv |-> InferTransferRank(i, e, h.rank), name |-> p,
   sendOffset |-> First(Region(s, h)), recvOffset |-> First(Region(s, h)) - h.start,
   size |-> Cardinality(Region(s, h))]

\* _build_region_communication_plan, of training shard s and shard h of engine e
Operation(i, p, e, s, h) ==
  [send |-> TrainTransferRank(i, s.rank), recv |-> InferTransferRank(i, e, h.rank), name |-> p,
   sendOffset |-> First(Region(s, h)) - s.start, recvOffset |-> First(Region(s, h)) - h.start,
   size |-> Cardinality(Region(s, h))]

\* Mutant: every training replica sends its shard.
AssignedToAny(sent, held, e, s, h) == Region(s, h) # {}

\* _build_parameter_communication_plan: the pairs of shards that exchange.
Assigned(sent, held, e, s, h) ==
  /\ s.replica = AssignedReplica(sent, held, e, h.replica)
  /\ Region(s, h) # {}

\* build_weights_mapping_operations.  Leaving out the shards of other ranks
\* beforehand (prune_threshold) leaves the operations of a rank the same.
Operations(i, sent, held) ==
  UNION {UNION {{Operation(i, p, e, s, h) : h \in {x \in held[p] : Assigned(sent[p], held[p], e, s, x)}} :
                s \in sent[p]} :
         p \in Param, e \in 0 .. NumEngines - 1}

NameOrder(p) == p[1] * Cardinality(Kind) + KindIndex[p[2]]

\* The sort key (name, send_offset, recv_offset).
OperationBefore(a, b) ==
  \/ NameOrder(a.name) < NameOrder(b.name)
  \/ a.name = b.name /\ (\/ a.sendOffset < b.sendOffset
                         \/ a.sendOffset = b.sendOffset /\ a.recvOffset < b.recvOffset)

\* The operations of a set from first to last.
Sorted(ops) ==
  [k \in 1 .. Cardinality(ops) |->
     CHOOSE o \in ops : Cardinality({x \in ops : OperationBefore(x, o)}) = k - 1]

\* build_local_transfer_plan, _group_operations_by_rank
SendHalf(ops, t, q) == Sorted({o \in ops : o.send = t /\ o.recv = q})

\* Mutant: a receiver sorts by the offset in its own tensor first.
RecvHalfByOffset(ops, q, t) ==
  LET mine == {o \in ops : o.recv = q /\ o.send = t}
      Before(a, b) == a.recvOffset < b.recvOffset \/ (a.recvOffset = b.recvOffset /\ OperationBefore(a, b))
  IN [k \in 1 .. Cardinality(mine) |-> CHOOSE o \in mine : Cardinality({x \in mine : Before(x, o)}) = k - 1]

RecvHalf(ops, q, t) == Sorted({o \in ops : o.recv = q /\ o.send = t})

-----------------------------------------------------------------------------
Init ==
  /\ train \in TrainLayouts /\ infer \in InferLayouts
  /\ \E sent \in {ParamsMeta(train)}, held \in {ParamsMeta(infer)} :
       \E ops \in {Operations(infer, sent, held)} :
         /\ sendPlan = [t \in TrainRank(train, infer) |-> [q \in InferRank(infer) |-> SendHalf(ops, t, q)]]
         /\ recvPlan = [q \in InferRank(infer) |-> [t \in TrainRank(train, infer) |-> RecvHalf(ops, q, t)]]
  /\ exchanged = {}
  /\ received = [q \in InferRank(infer) |->
       [x \in UNION {{p} \X (0 .. Shape(infer, p) - 1) : p \in RankParams(infer, q % WorldSize(infer))} |->
          NoData]]

\* Element n of what training rank t has under the name p.
Element(t, p, n) ==
  LET r == t - InferWorldSize(infer)
  IN <<<<TensorLayer(train, r, p), p[2]>>, TensorOffset(train, p, r) + n>>

\* slice_tensor of both sides: the elements of a send are written to the
\* slice of its receive.
Deliver(t, q, k, x) ==
  LET s == sendPlan[t][q][k]
      o == recvPlan[q][t][k]
  IN IF x[1] = o.name /\ x[2] >= o.recvOffset /\ x[2] < o.recvOffset + o.size
       THEN <<Element(t, s.name, s.sendOffset + x[2] - o.recvOffset)>> ELSE <<>>

Finished(q) == \A t \in TrainRank(train, infer) : recvPlan[q][t] = <<>> \/ <<t, q>> \in exchanged
Done == \A q \in InferRank(infer) : Finished(q)

\* The operations between two ranks, in the order of the lists of both.  The
\* senders of a receiver come in any order; receivers only write to tensors of
\* their own, and are taken one after the other.
Exchange(t, q) ==
  /\ <<t, q>> \notin exchanged
  /\ \A p \in 0 .. q - 1 : Finished(p)
  /\ recvPlan[q][t] # <<>>
  /\ exchanged' = exchanged \cup {<<t, q>>}
  /\ received' = [received EXCEPT ![q] = [x \in DOMAIN @ |->
       LET written == {Deliver(t, q, k, x) : k \in DOMAIN recvPlan[q][t]} \ {<<>>}
       IN IF written = {} THEN @[x] ELSE CHOOSE y \in written : TRUE]]
  /\ UNCHANGED <<train, infer, sendPlan, recvPlan>>

Next ==
  \/ \E q \in InferRank(infer) : \E t \in TrainRank(train, infer) : Exchange(t, q)
  \/ Done /\ UNCHANGED vars

Spec == Init /\ [][Next]_vars

-----------------------------------------------------------------------------
\* Every operation lies within the tensors of its two ranks, and goes from a
\* training rank to an inference rank.
TypeOK ==
  /\ train \in TrainLayouts /\ infer \in InferLayouts
  /\ exchanged \subseteq TrainRank(train, infer) \X InferRank(infer)
  /\ \A q \in InferRank(infer) : \A t \in TrainRank(train, infer) : \A k \in DOMAIN recvPlan[q][t] :
       LET o == recvPlan[q][t][k] IN
       /\ o.name \in RankParams(infer, q % WorldSize(infer))
       /\ o.name \in RankParams(train, t - InferWorldSize(infer))
       /\ o.sendOffset + o.size <= Shape(train, o.name)
       /\ o.recvOffset + o.size <= Shape(infer, o.name)

\* Both sides of every pair have the same operations in the same order, and
\* the tensors they pass have the same size: the k-th send and the k-th
\* receive belong together (nothing but their order tells them apart).
PairsAgree ==
  \A q \in InferRank(infer) : \A t \in TrainRank(train, infer) :
    /\ Len(sendPlan[t][q]) = Len(recvPlan[q][t])
    /\ \A k \in DOMAIN recvPlan[q][t] :
         /\ sendPlan[t][q][k].name = recvPlan[q][t][k].name
         /\ sendPlan[t][q][k].size = recvPlan[q][t][k].size

\* What arrives at an element of an inference tensor is that element of the
\* model: same layer, same parameter, same place in it, whatever the layouts
\* of the two sides.
ReceivedRight ==
  \A q \in InferRank(infer) : \A x \in DOMAIN received[q] :
    received[q][x] # NoData =>
      received[q][x] = <<<<x[1], TensorOffset(infer, x[1], q % WorldSize(infer)) + x[2]>>>>

\* After the update no element of any inference tensor keeps an old value
\* (ling.py:38-46 tells of ranks whose tensors stayed zero).
EveryElementReceived ==
  Done => \A q \in InferRank(infer) : \A x \in DOMAIN received[q] : received[q][x] # NoData

\* No element of an inference tensor is written by two operations: of several
\* training replicas that have it one sends it, so that the result does not
\* depend on the order of the senders.
WrittenOnce ==
  \A q \in InferRank(infer) : \A t1, t2 \in TrainRank(train, infer) :
    \A j \in DOMAIN recvPlan[q][t1], k \in DOMAIN recvPlan[q][t2] :
      LET a == recvPlan[q][t1][j]
          b == recvPlan[q][t2][k]
      IN <<t1, j>> = <<t2, k>> \/ a.name # b.name
         \/ a.recvOffset + a.size <= b.recvOffset \/ b.recvOffset + b.size <= a.recvOffset
=============================================================================
