# Verification of the Awex weight exchange

Awex moves the weights of a training job (Megatron ranks) into inference
engines (SGLang, vLLM) after every training step.  This directory holds TLA+
modules of the parts of Awex where ordering, blocking and shared keys decide
whether an exchange is right, the TLC configurations that check them on small
instances, and TLAPS proofs for every size of the instance.

Paths below are relative to the repository (`src/` is its root).

## 1. The system

### Components and their state

| component | code | state | operations |
|---|---|---|---|
| MetaServer and client | `awex/meta/meta_server.py` | one dictionary (objects, sets, counters); in the client a retry loop | put, get, add to set, delete, allocate an id; `wait_set_until_size`, `barrier`, `get_object_then_delete` |
| Writer (each training rank) | `awex/writer/weights_writer.py`, `nccl_writer.py` | initialized, step, `validated_steps`, process group, shared buffer | `initialize`, `write_weights` |
| Reader (each engine) | `awex/reader/weights_reader.py` | initialized, step, `validated_steps`, snapshot of the parameters | `initialize`, `update_weights` |
| Model worker (each inference rank) | `awex/reader/nccl_reader.py` | process group, transfer plan, mapped IPC handle, parameters | `_init_in_tp_worker`, `_update_parameters_in_tp_worker` |
| Transports | `awex/transfer/nccl_comm.py`, `nccl_stream_batch.py` | a straight line of blocking calls per rank and update | one-by-one, batched, circle shift, recursive partition |
| Transfer plan | `awex/transfer/transfer_plan.py` | none (pure) | assignment of replicas, overlaps of shards, order of operations |
| Metadata | `awex/meta/*_meta_resolver.py`, `weight_meta.py`, `awex/sharding` | none (pure, after a gather) | layer numbers of pipeline stages, merge of shards |
| Converters | `awex/converter`, `awex/models` | in the training converter the halves of fused projections (`qkv_a_proj_cache`) | a parameter of Megatron, or of an engine, under the names and in the row order of the checkpoint; some conversions are collectives |
| Tensor groups | `awex/util/tensor_util.py` | none (pure) | grouping for IPC and reconstruction |
| Engines | `awex/engine/*.py` | resident memory, released tags | release and resume of memory, dispatch of tasks |
| SGLang plugin and adapter | `awex/sglang_plugin.py`, `awex/sglang_awex_adapter.py` | per scheduler process: released tags, attributes of the update | HTTP endpoints that broadcast to the processes: release and resume memory, parallelism; report metadata, initialize and execute an update, which always raise (section 6) |
| vLLM plugin and adapter | `awex/vllm_plugin.py`, `awex/vllm_awex_adapter.py` | initialization flags | global ranks, metadata of all engine cores, HTTP routes |
| File and Astate backends, configuration, logging | `awex/reader/astate_reader.py`, ... | none that outlives a call | I/O |

### How they interact

* The training job and the engines share no memory and no process group
  until the first exchange.  They meet through keys of the MetaServer
  (`infer_conf`, `infer_params_meta`, `training_params_meta`, `master_info`,
  `num_infer_engines`), which each side publishes and polls.
* *Separate mode*: training ranks and inference ranks join one process group;
  an update is a batch of sends and receives and a barrier.
* *Colocate mode*: training rank d and worker d share device d.  The writer
  packs its weights into a buffer shared through CUDA IPC, offloads the
  weights, and the workers alone exchange the tensors out of the mapped
  buffers.  Counting sets (`all_training_offloaded_weights`, ...) and signals
  per device and step hand the device memory back and forth.
* An engine hands tasks to its workers and waits for all of them.
* Every training rank converts its parameters twice: once to describe them
  (all ranks gather the descriptions, and only then know the global numbers of
  their layers), once per update to hand them over, packed into few buffers.
* With the SGLang plugin there is no reader: a training framework drives the
  scheduler processes through `/awex/*` endpoints.  As the code stands, only the
  requests about memory and parallelism can succeed.
* A driver (RL loop) calls `write_weights` and `update_weights` and joins
  them before the next step (`awex/tests/weights_exchange_it.py:225-248`).

### What is hard about it

* blocking two-sided calls whose order every rank computes on its own, from
  its own half of the transfer plan: a different order is a deadlock;
* keys polled by one process and deleted by another, with and without the
  step in their name: a stale key is taken for a signal of the next step, a
  key deleted early is missed;
* requests repeated after a lost reply, applied by the server again later;
* device memory that two processes may use only in turns;
* mappings of memory that its owner frees;
* barriers in the middle of all this, some of one side, some of both;
* row orders: tensors that pass through a cut by the training ranks, a gather,
  a permutation for the inference ranks, another cut, a concatenation with
  others and a reconstruction, with sizes that agree whatever the order;
* requests that succeed on one rank and fail on another, and are repeated.

### What makes each part correct

* Transports: whatever the plan, the ranks never wait on each other in a cycle
  (`NeverStuck`, `Terminates`), every pair of the plan is exchanged and only
  once (`EveryPairMoved`, `MovedOnce`), and no barrier is passed while a call
  it closes is left (`BarrierIsLast`, `StageClosed`).
* Metadata and transfer plan: both halves of the plan agree (`PairsAgree`),
  every element of an inference tensor is written by one operation
  (`EveryElementReceived`, `WrittenOnce`) and with the element of the model
  that belongs there (`ReceivedRight`).
* Writer, reader and worker, separate mode: initialization and every step end
  (`Completes`), an engine that serves a step knows that all engines have it
  (`UpdateIsGlobal`) and is not written to (`ServesUndisturbed`), a validation
  loads the checkpoint of its own step (`LoadsCurrentCheckpoint`,
  `AllEnginesLoaded`).
* Writer, reader, worker and engine memory, colocate mode: the two sides never
  need more than the device has (`NoOversubscription`), no mapping outlives
  its buffer (`MappingIsLive`), an engine serves one step (`ServesOneStep`),
  no signal is left for the next step (`SignalsConsumed`), all steps end.
* Both modes keep one promise: a step reaches all engines at once while none of
  them serves, and an engine serves again with that step and no other
  (`ImplementsExchange`).
* MetaServer: ids are unique, adds are not lost, and a barrier is passed only
  by members that all have entered it, although requests are repeated
  (`UniqueIds`, `AddsAccumulate`, `BarrierSafe`).
* Converters and tensor groups: both sides mean the same tensor by a name, row
  by row (`CanonicalTensors`), what a rank announces is what it hands over
  (`MetaTruthful`), the collectives of the conversion do not block
  (`NeverStuck`), and no half of a fused projection is left for the next update
  (`CacheDrained`).
* SGLang plugin: an answer "ok" about memory is true on every rank, whatever
  failed before it (`AnswersAreTrue`), and a request about memory that is repeated
  is answered "ok" in the end (`RetriesEnd`).

`PROJECT.json` lists every hard place with its line and the property that
would notice it going wrong.

## 2. Modules

| module | models | composed with |
|---|---|---|
| `Rendezvous` | blocking calls of several ranks: a call returns when every participant is in it | instantiated by the transports |
| `RecursivePartition` | `NcclColocateStreamBatchTransport`: rounds, halves, phases, one batch per peer | `Rendezvous` |
| `OneByOne` | `nccl_build_send_ops`/`recv_ops` with `_send_recv_one_by_one` and the final barrier | `Rendezvous` |
| `CircleShift` | `NcclColocateTransport`, the older transport of colocate mode, which the readers have replaced by the stream batch class: stages, two-colouring, a barrier per phase | `Rendezvous` |
| `HybridModel` | what Megatron and SGLang hold of a linear-attention model (external to the repository, stated apart) | used by the converters |
| `McoreConverter` | `mcore_converter.py` with `models/ling_linear.py`: one parameter of a training rank | extends `HybridModel` |
| `SglangConverter` | `sglang_converter.py` with `models/ling_linear.py`: one parameter of a worker | extends `HybridModel` |
| `TensorGroups` | `tensor_util.py`: packing into buffers, offsets, reconstruction | used by `WeightConversion` |
| `WeightConversion` | the two passes over the parameters of all training ranks, the gathered metadata, the buffers and the workers that unpack them | extends both converters and `TensorGroups` |
| `SglangAdapter` | endpoints, bridge and adapter of the SGLang plugin as far as the code runs, with engine calls that raise | nothing: no update gets as far as the exchange |
| `ParamMeta` | what both sides derive of the place of every shard: layer numbers of pipeline stages, sharding, replicas, offsets | used by `TransferPlan` |
| `TransferPlan` | both halves of the transfer plan, and the slices an update copies by them | extends `ParamMeta` |
| `SeparateExchange` | both protocol sides and the MetaServer keys in separate mode, with validation and a lost reply | the transport is one transfer per pair of ranks |
| `ColocateExchange` | both sides in colocate mode, memory occupation, buffers and mappings, the driver | likewise |
| `MetaServer` | handlers, retry loop, late copies of requests, `barrier` | its atomic handlers are the `Put`/`Add`/`Delete` of the exchange modules |
| `WeightExchange` | what an exchange promises, in three actions: an engine stops serving, the weights of a step reach all engines, an engine serves again | implemented by `SeparateExchange` and `ColocateExchange` |
| `*Proofs` | theorems about `RecursivePartition`, `OneByOne`, `MetaServer`, `SeparateExchange`, `ColocateExchange`, `SglangAdapter`, `TransferPlan`, `WeightConversion` | extend the module they are about |
| `MC*` | definitions TLC needs for the constants | extend the module they check |

### Correspondence to the code

**Rendezvous.** `left[r]` is the set of calls rank r has not returned from;
the order in the code is the operator `Order(r, _)`, computed by each
transport exactly as the code builds its lists.  A send and the receive that
must take its data are *one* element, so two ranks at calls that do not
belong together are stuck in the model, where NCCL would hang or deliver the
wrong tensor.  Nothing is buffered; that is what blocking mode (`work.wait`
and `synchronize` per call) means, and it is also the strictest reading.

**RecursivePartition, OneByOne, CircleShift.** The transfer plan is chosen in
the initial state: any set of pairs of ranks (recursive partition, circle
shift), or any number of operations per pair (one by one).  The programs are
then fixed; the only step is the completion of a call.

**ParamMeta, TransferPlan.** A layout gives the sizes of the groups of one
side (tensor, attention, expert, data and pipeline parallel).  A parameter is
a layer and a kind (attention, two experts, MLP, norm), and of its dimensions
only the one it is sharded in is kept.  `GlobalLayer` counts the layers of the
stages in the order of the nested loops of `_build_pp_stage_layer_id_map`;
`ReplicaOf` and `GlobalOffset` say in one expression what `_build_params_meta`
collects in lists.  What a rank *really* holds (`HeldLayer`, `TensorOffset`)
is the business of the engines and is stated apart, so that
`ReceivedRight` compares what the metadata says with what the tensors hold.
With vLLM an engine may have several cores, which are data parallel and
number their workers from 0 or through all cores; `GlobalRank` is what
`_awex_rank_info` makes of either, `CollectedRanks` what the adapter collects.
`TransferPlan` assumes that its layouts are `Regular`: groups, layers and
elements are dealt out evenly, as Megatron and the engines demand, every slice of
every expert has a rank, and expert tensor parallelism is no wider than tensor
parallelism (section 6, *Metadata*, says why).
`sendPlan` and `recvPlan` are built by each rank from the same metadata, and
`Exchange` carries out the k-th send with the k-th receive, as the transports
do.

**HybridModel, McoreConverter, SglangConverter.** A *row* is a unit of a
parameter in the dimension in which it is cut, named by layer, expert, part and
index; a tensor is a sequence of rows.  So every split, chunk, concatenation,
gather and permutation of the code is an operation on sequences, and two
tensors are equal when the code would make them equal element by element.
`McoreTensor` and `SglangTensor` say what the engines hold (grouped queries
interleaved with their keys and values, experts spread over ranks, virtual
pipeline stages); `ConvertParam` and `SglangConvertParam` are the two
`convert_param`.  A converter's matching of names by substrings becomes sets of
kinds, tried in the order of the code.

**TensorGroups, WeightConversion.** `pending` is what is left of the loop over
`get_mcore_model_parameters`, in its order; `ConvertLocal` is one pass through
its body, `ConvertGathered` one pass on all ranks of a tensor parallel group at
once, because `all_gather` returns only when all are in it.  `ShareMeta` is the
`all_gather_object` of the descriptions, after which every rank knows
`layerMap`.  The second pass runs with a new converter, as in the code.
`Assembled` puts the shards of a replica together in the order in which
`_build_params_meta` gives them offsets.

**SglangAdapter.** `request` and `answer` are the endpoint; `pc` is the method
every scheduler process was sent into, and `raised` are the processes that have
raised in it.  `Release` and `Resume` are the two methods of memory, `released` is
`_released_tags`, `resident` what the process really holds.  `Report` and
`InitUpdate` say why these methods raise: the keys they read and have, the
parameters a constructor needs and is given.  `known` holds no state of the code:
it is what the answers so far tell the driver, so that `AnswersAreTrue` can compare
it with `resident`.

Assumed of what is not in the repository: the broadcast waits for all processes;
an engine call that raises may have done any part of its work, and doing a tag
again is nothing to the engine; and the driver repeats a request about a tag until
it is answered "ok" before it asks for the opposite (`Allowed`).  Without the last,
`AnswersAreTrue` fails: a tag that the engine had released before it raised is not
booked, so the adapter skips it when it is to be resumed
(`sglang_awex_adapter.py:386`).  No document says what a driver may do after an
error.  Bodies that are no JSON and tags given twice are left out.

**SeparateExchange, ColocateExchange.** `wpc`, `epc` and `rpc` are the places
of each training rank, engine and model worker; every request to the
MetaServer is a step of its own, because any other process may run between
two requests.  A collective (gather, barrier, joining of the group, handshake,
warm-up) is one step of all its members.  What a tensor holds is the step
whose weights it is, so that "the right weights" is a comparison of numbers.
Polling is a guard.  Reads whose result is *used later* are kept apart from
their use (`GetReadyForSend` and `SeeOthersReady`).  In colocate mode the sets
`trainWeights`, `optimizer`, `inferWeights`, `kvCache` and the function
`buffer` say what is resident on a device.

**WeightExchange.** The abstract specification of both: `step[e]` counts the
updates of an engine, `serves[e]` is the set of versions in the parameters it
serves with (empty while it does not serve), `exchanged` the last step that has
reached all.  The mappings are at the end of the two modules.  In separate mode an
engine stops serving when `update_weights` is called and serves again when it
returns; in colocate mode from the release of its memory (after the
initialization, or by the driver) until its KV cache is back.  In both, the
barrier that closes the transport is `Exchange`, and everything else is hidden.

**MetaServer.** A request is `<<client, kind, attempt>>`.  A timeout sends a
new copy while the old one may still be on its way; the server applies every
copy, and only the reply to the current attempt is seen by the client.
Handlers are atomic: the server is one `asyncio` loop, and no handler awaits
between reading and writing the storage.

## 3. Runs

A run that is expected to pass has no error for its bounds; a run marked
*violation* shows a disagreement between the code and what the repository
says of it (section 6).

| run | instance | shows |
|---|---|---|
| `recursive_partition` | 8 ranks (three rounds); every plan over ten pairs that cover all rounds and phases, and seven plans with many pairs (all, one silent rank, one busy rank, ...) | no deadlock, termination, every pair moved, and moved once |
| `recursive_partition_three` | 3 ranks | *violation*: pairs silently dropped |
| `one_by_one` | 2+2 ranks with up to 3 operations per pair | operations pair up, the barrier is last, the exchange ends |
| `circle_shift` | 4 ranks, all plans | the stages end without a circular wait and are closed by their barriers |
| `transfer_plan` | 4 layers of 5 parameters, 7 layouts of the training job, 7 layouts of two engines, three of them vLLM with two or more cores | both halves of the plan agree; every element of every tensor is received once, and is the right one |
| `weight_conversion` | 15 models and parallelisms: tensor parallel 1, 2, 4 to 1, 2, 4 workers, repeated key heads, pipelines with virtual stages, expert parallelism, the other formats of fused queries | both sides mean the same tensors; the metadata is true; conversions never block; nothing is left in the cache |
| `weight_conversion_fused` | 2 training ranks, 2 workers, fused down projections | *violation*: the projection is interleaved and then handed over whole |
| `separate_exchange` | 2 engines of 2 workers, 2 training ranks, 3 steps, 2 of them validated, one lost reply | initialization and updates always complete; an engine serves new weights only when all have them, and is not written to while it serves; each step is validated against its own checkpoint, by all engines; the whole implements `WeightExchange` |
| `separate_ready_set` | 2 engines, one validated step | *violation*: the set is deleted before it is read |
| `colocate_exchange` | 2 devices, 2 engines, 2 steps | memory never oversubscribed, mappings live, signals consumed, all steps complete; the whole implements `WeightExchange` |
| `sglang_adapter` | 3 ranks, 2 tags, 2 engine calls that raise, requests of all kinds in any order | answers about memory are true on every rank, and repeated requests are answered "ok" in the end |
| `meta_server` | 3 clients, 2 attempts, 2 timeouts | unique ids, adds accumulate, the barrier is safe with repeated and late copies |

**Why the bounds are enough to be interesting.** Four ranks give two cycle
lengths of the circle shift, eight give three rounds of the recursive
partition.  For the recursive partition, one by one, both exchanges, the
MetaServer, the transfer plan, the SGLang adapter and the conversion of the
weights the theorems cover every other size.  Two engines are needed for a set to be partly full, two
steps for a key to be stale, two workers for an engine to be partly updated.  One lost reply is enough for a repeated
request to arrive after a delete.  In `MetaServer`, two attempts and two
timeouts let two clients repeat, or one client give up.  The layouts of
`transfer_plan` have shards of one side that straddle those of the other
(three against two and four), several replicas on both sides, more inference
than training replicas and the opposite, experts that are whole or cut, and
stages of one rank that are not neighbours; twelve elements are divisible by
all of these.  In `weight_conversion`, `MaxTensorSize` of five rows puts one, two
or several tensors into a buffer and lets single ones exceed it; a head has one
or two rows; layers come in groups of two and three, so that both kinds of
attention are first, last and in the middle of a stage.  In `sglang_adapter`, three
ranks let some fail and others succeed, two failures let a repetition fail too,
and two tags let a repetition ask for other tags than the first request.

**Deadlock** is checked except where the system really may stop, and those
cfgs say `CHECK_DEADLOCK FALSE`: `separate_ready_set`, which ends in an
exception; and `separate_exchange`, where an engine whose repeated `add` recreates the
deleted set polls a set that never fills, until its timeout, which ends the job
(`Completes` is about the behaviours without a lost reply).

### Fairness

* Transports: weak fairness of "some call with all its participants in it
  completes".  Each rank runs straight-line code, and the backend completes a
  matched pair.
* Exchanges: weak fairness of `Next` as a whole, the weakest that gives any
  progress: some process that can take a step takes one.  Every process is a
  straight line of waits that end when their condition holds, so no fairness
  between processes is needed.  Polling loops have timeouts of many minutes in
  the code; the model lets them wait forever, so `Completes` says that no
  timeout is ever *needed*.
* `SglangAdapter`: weak fairness of each rank (a call that was broadcast is
  carried out) and of the answer; strong fairness of the driver's repetition of a
  tag that is underway, strong because its other requests come in between.  The
  engine raises only `MaxFailures` times: against an engine that always raises no
  repetition helps.
* `MetaServer`, `TransferPlan` and `WeightConversion` have no liveness property
  and no fairness.  In `WeightConversion` every step brings a rank nearer to its
  end, so `NeverStuck` is all there is to progress.

## 4. Proofs

| theorems of | statement |
|---|---|
| `RecursivePartitionProofs` | for every world size, every set of plans, and whatever steps the ranks start from: `TypeOK`, `NeverStuck`; for every power of two of ranks `EveryPairMoved`, `MovedOnce`; of blocking calls in general `CommonOrderNeverStuck`: programs that follow one numbering of the calls are never stuck |
| `OneByOneProofs` | for every number of ranks and operations: `TypeOK`, `NeverStuck`, `BarrierIsLast` |
| `TransferPlanProofs` | for every model, every number of engines and any two regular layouts: `TypeOK`, `PairsAgree`, `ReceivedRight`, `EveryElementReceived`, `WrittenOnce`; of the metadata `TensorIsNamed`, `OffsetIsSlice` |
| `SeparateExchangeProofs` | for every number of engines, workers, training ranks, steps and lost replies, with and without validation: `TypeOK`, `UpdateIsGlobal`, `ServesUndisturbed`, `LoadsCurrentCheckpoint`, and that the module implements `WeightExchange`; `AllEnginesLoaded` if fewer replies are lost than there are engines |
| `ColocateExchangeProofs` | for every number of engines, workers and steps: `TypeOK`, `NoOversubscription`, `MappingIsLive`, `ServesOneStep`, `SignalsConsumed`, and that the module implements `WeightExchange` |
| `MetaServerProofs` | for every number of clients, attempts and timeouts: `TypeOK`, `UniqueIds`, `AddsAccumulate`, `BarrierSafe` |
| `SglangAdapterProofs` | for every number of ranks, tags and failures: `TypeOK`, `AnswersAreTrue` |
| `WeightConversionProofs` | for all layouts that the converters accept and every limit of a buffer: `TypeOK`, `NeverStuck`, `CacheDrained`, `MetaTruthful`, and `CanonicalTensors` where the layout is `Matching`; of `tensor_util.py` `PackingLossless`: reconstruction returns what was packed, in order |

A property of a run is never inductive by itself.  Each module has its inductive
invariant `IInv`, a conjunction of named parts, with one lemma per action that
keeps it; the properties follow from it without another induction.  Type
invariants of the exchange modules list the places of the processes as unions of
the phases they belong to, and the proofs speak of phases.

**Transports, deadlock.** `IInv` adds to `NeverStuck` that a call is left on all
its participants or on none (`Symmetric`), and that what is left is part of the
program of the plan, which fixes the order.
If there is a numbering `Key` of all calls that the order of every rank follows,
take the remaining call of lowest number: it is left on all its participants
(`Symmetric`) and no participant has an earlier one, so it can complete
(`CommonOrderNeverStuck`).  Such a numbering is what each transport needs:

* recursive partition: chunk, round, direction, sender, receiver.  Within a
  phase a rank only sends or only receives (`PhaseIsDirection`), so its peer
  in ascending order and the numbering agree (`ProgramsFollowKey`).  That a
  phase of the sender is the same phase of the receiver rests on both being in
  one partition (`SamePartition`, `OtherHalfSymmetric`); that a chunk is, on the
  two `all_reduce` calls, by which the ranks agree on the step and on the number
  of chunks before they send anything (`Aligned`).
* one by one: `(round, sender, receiver)` up to the encoding, and the barrier
  above all of them.  For `BarrierIsLast`, `IInv` also keeps that the barrier
  completes last (`BarrierReady`).

**Recursive partition, completeness.** `EveryPairMoved` and `MovedOnce` hold for
a world size `2^k` and, by run `recursive_partition_three`, not for every other
(for 11 ranks it is `MovedOnce` that fails too: ranks 4 and 5 meet in rounds 0
and 2).  Each halving of a partition of `2^m` ranks is exact (`HalvesEvenly`), so
two ranks are in the same partition up to the round that separates them and in
none after it: there is one round in which they are opposite.

**Transfer plan.** Metadata first.  The layers a rank holds come in the order of
the nested loops that count them, so the number counted for a layer is the layer
(`GlobalLayer` = `HeldLayer`, `TensorIsNamed`).  The holders of a parameter fall
into blocks of as many consecutive ranks as it has slices; the replica of a shard
is the number of blocks before its own and its offset that of its slice
(`OffsetIsSlice`).  So the shards of a replica tile the parameter without
overlap.  Then the plan: an operation between two ranks is determined by its
name, so sorting by name gives both halves the same order (`PlansFollow`); the
overlaps of one inference shard with a tiling of the training side tile that
shard; and what has been exchanged so far is what stands in the tensors
(`TensorsFollow`, `ExchangedFollow`).

**Separate exchange.** Whatever the interleaving, both sides have been through the
same number of updates, counted from the barrier that ends the transport
(`Lockstep`); workers are where their engine sent them (`WorkersFollow`); a pair
that has moved is of the current step on both sides (`TransportFollows`).  Hence
an engine outside an update has the weights of the last one (`VersionsFollow`).
`validated_steps` are counted separately on every rank and engine, at different
places; that all agree on which steps are validated is `ValidatedFollow`, and only
with it does the announced checkpoint belong to the step of the engine that loads
it (`CheckpointFollows`).  `AllEnginesLoaded` needs more: an engine whose `add` is
repeated after the writer has deleted the ready set brings it back, so it holds
stale members.  They stay fewer than the engines, and wait in it
(`ReadyFollows`, `ResentCounted`), as long as fewer replies are lost than there
are engines (`FewLost`).  The bound is needed: with as many lost replies as engines the
set fills again, and TLC finds `AllEnginesLoaded` violated for 2 engines,
2 lost replies and 2 steps.

**Colocate exchange.** What is resident on a device, the content of its buffer and
its mapping follow from the places of its two processes (`MemoryFollows`), and the
sets that count from the places of those they count (`CountsFollow`).  What remains
is which places exclude each other: `SidesFollow` for what one side has waited for
of all of the other, `Handshake` and `SignalsFollow` for the two processes of one
device, `TransportFollows` for the workers among themselves.

**Refinement.** In both modules an engine that serves has the weights of its last
update (`ServesItsStep`), so steps that move no engine between serving and
updating and end no exchange change none of the abstract variables (`Unseen`).
The others are three or four actions of each module, with one lemma each.  The
lemma for the barrier is the essential one: when all workers are at it, every
engine is in the step after `exchanged`.

**MetaServer.** A client's ids are fixed by the server when a copy of its request
arrives, and a late copy takes another one.  `IdsCounted` says that every id taken,
or still to be taken by a copy on its way, is for one client or one timeout, which
bounds the counter.  `EntriesFollow` says that the set of the barrier, the adds on
their way and the answers that report the set have no client that has not entered
the barrier, `SetFollows` that only rank 0 deletes the set, so that until then
whoever has been told that it is in the set is.

**SglangAdapter.** An answer covers all ranks at once, while ranks succeed and
fail one by one and a request may be repeated any number of times.  `IInv`
therefore says how a rank's bookkeeping and its memory may differ *between* two
answers.  A tag that is underway may be done and not booked, when the engine has
raised, but never booked and not done (`BooksFollow`); so what a repetition skips is
done.  A rank that has left the request without raising has booked all its tags
(`LeftIsBooked`), and an answer "ok" means that all ranks have.  That the driver
takes the tags of its request for underway (`TagsUnderway`) excludes that a request
disturbs what an earlier answer was about.

**Weight conversion.** A property of one step is hard here only because a step
is a composition: names are matched, tensors gathered, cut and packed by folds
over sequences, and the conversion is made twice, with the number of a layer
within its stage and with its number in the model.  The proof therefore first
says what is computed, once for all steps:

* the parameters of a rank, as a set (`ParamOK`), are in its list once each, and the
  halves of a fused projection in their order (`AllFacts`);
* a conversion of one of them answers the entries `EntriesOf` and leaves the cache
  `CacheAfter`, under either number of its layer, and never fails (`ResultIs`);
  no two entries of a rank have one name (`NamesApart`);
* the map that the ranks make of the stages they report is the numbering of the
  model (`NamesAreLayers`, `MapIsHeld`);
* grouping takes every tensor once and no two to one place, so reconstruction
  returns what was packed (`PackingLossless`).

Folds and flattenings are reasoned about through their intermediate values
(`PutFold`, `TakeFold`, `FlattenDef`), and over these by induction on numbers
(`Induction`, from well-founded induction).

`Core` is the inductive invariant for control: pending parameters are the rest of
the list (`Progress`), the cache is a function of the place in it
(`CacheIsDue`), a rank that is behind another one of its group has no gather to
catch up with (`Lockstep`), the map is the numbering of the model
(`MapIsGlobal`), and what was reported is what the parameters so far announce
(`ReportedSoFar`).  `CacheDrained` is the end of `CacheIsDue`; for `NeverStuck`,
take a rank that waits in a gather, and of its group one that is furthest behind:
by `Lockstep` it waits at the same parameter or can go on.  `Truth` adds the
contents: what is converted so far is what is due so far, once each
(`ConvertedSoFar`), the metadata describe what will be due in the end
(`MetaIsDue`), and what is packed and unpacked is all of it (`HandedOver`).
`MetaTruthful` follows, because tensors that are sequences of rows keep their
lengths through both conversions (`EntriesListed`, `TransformIs`).

`CanonicalTensors` compares two programs that know nothing of each other, so the
proof says what a name stands for: `IsName` are the names of the model, `Canon`
is the tensor of a name.  Of the training side, the rows that a rank hands over
under a name are that tensor, or the rank's slice of it (`TrainRows`,
`TrainWeights`); every name is made by some rank (`TrainHolds`), and all ranks
that make it are in one stage (`OneStage`).  Of the workers, what the SGLang
converter makes of its parameters is the same tensor or the worker's slice of
it, under the same names (`ServedAll`, `ServedNamed`).  The slices of one
replica, in the order of their ranks, are the tensor (`SliceCuts`,
`AssembledOne`).  The heart is the projection of queries, keys and values: the
gathered `linear_qkv` is taken apart into all queries, keys and values in their
order, for each of its formats (`TransformFull`); what is put together from these
for worker i, with key-value heads repeated or not, is what the worker has
(`WorkerQkv`); so the tensor that the name stands for is what all workers have,
and a training rank packs its slice of that (`ConvertQkvFull`).

**Assumptions.** The sizes are positive naturals, the plans are pairs of distinct
ranks, heads are dealt out evenly, the layouts of the transfer plan are
`Regular`.  `PowersOfTwo` in `RecursivePartition` says of the `2^k` in use that
`2^0 = 1`, `k < 2^k` and `2^(k+1) = 2 * 2^k`; these are facts of arithmetic,
stated because the provers do not know exponentiation, and TLC evaluates them,
as all assumptions, in every run.  `McoreConverterAssumption` says of a layout
what the converter needs in order not to raise: heads that divide evenly
(`divide`, `mcore_converter.py:1131-1147`), a size of linear_qkv that is one of its
formats (`1099-1126`), fused projections that `pack_fused_qkv_a_proj_for_tp` can
cut (`75-84`), and stages in which a lightning layer is one by its number
within the stage too (`960-965`; section 6 says what happens otherwise).  Three
hypotheses are in theorems and not in assumptions: a power of two of ranks, `FewLost`, and `Matching` for
`CanonicalTensors`.  `Matching` asks that the ranks of each side share the experts
evenly, as both engines demand; that the size of linear_qkv, by which alone
`transform_mcore_qkv_weight` tells its formats apart, tells the right one; and that
no fused down projection has both several training ranks and several workers.
The last is needed: `weight_conversion_fused` is a layout without it (section 6).
All layouts of `weight_conversion` are `Matching` (`MCLayoutsMatch`, which TLC
evaluates), and the one of `weight_conversion_fused` is not.

**Checked and proved.** Whatever a theorem says of a run's property the run checks
as well, the refinements included, with one exception: `TypeOK` of
`RecursivePartition` and of `OneByOne`, and the parts of the `IInv`s, which were
checked before they were proved, are no properties of a run any more.

**Only model-checked.** Liveness (`Terminates`, `Completes`, `RetriesEnd`), because the prover has
no rule for fairness.  `StageClosed` of `CircleShift`, which no reader uses any
more.

## 5. What is not modelled

* Of the training converter: biases (`mcore_converter.py:1229-1350`), the
  quantisation to fp8, the transposed layouts of NPUs, word embeddings tied to
  the head.  `mcore_converter.py:127-370` (layer counts of stages) is called by
  nothing.
* The vLLM converter, `mbridge_loader`, and the model families other than
  linear attention with `models/ling_linear.py`, which uses every branch of the
  converters that is modelled.
* vLLM: the HTTP routes and the initialization flags of its adapter.
* SGLang adapter: the code behind the lines that always raise (section 6), which
  nothing reaches: gathering and publishing the metadata, the transfer plan, the
  process group and the update; `teardown`, which nothing calls.
* `_select_canonical_rank0_meta`.
* File and Astate backends: thin calls of external libraries.
  Configuration, logging, device helpers: no state of the exchange.
* The values of tensors, and in the exchange modules also their number and
  shapes; numerics of the validation (`allclose`).
* Crashes of processes: nothing is persisted and the code has no restart; an
  exception ends the job.  Where the code itself raises, the model has a
  place `"crashed"`, or a rank in `raised`.
* MetaServer start-up, shutdown, JSON encoding, `list_keys`.
* Colocate mode with validation, or with lost replies.
* The switch `AWEX_DESTROY_PG_AFTER_UPDATE` (off by default).  The embedding
  is taken to provide `asystem_train_config` where the colocated writer reads it.
* Debug switches (dumps, extra logging).

## 6. Findings

1. `recursive_partition_three`: for a number of inference ranks that is not a
   power of two some pairs are in no round and their tensors are dropped
   without an error (`nccl_stream_batch.py:245`).
2. `separate_ready_set`: `len(None)` when the writer deletes
   `weights_ready_for_send` between an engine's add and its first read
   (`weights_reader.py:412`).
3. `weight_conversion_fused`: a fused down projection is interleaved by the
   converter for tensor parallel shards, as its comments say
   (`mcore_converter.py:58-59`, `892-893`), but `param_sharding.py:294` declares
   it not sharded, so each worker gets the interleaved tensor whole.

Observations made while modelling, which no run shows:

* Transports.  The parity colouring of the older circle-shift transport gives
  neighbours of an odd cycle the same colour (`nccl_comm.py:279`), where the
  docstring says opposite.  A chunk may exceed
  `chunk_bytes`, against `nccl_stream_batch.py:425-427`: its length is derived
  from the size of one operation.  A rank
  that times out before the transport leaves the others waiting in it.
* MetaServer keys.  When the reply to an engine's add is lost and the writer
  deletes the set before the repetition arrives, the repetition recreates it and
  the next step counts it (`weights_writer.py:493-500`).  Lost often enough, such
  members make rank 0 log that all engines have read the checkpoint when one has
  not (`AllEnginesLoaded` with as many lost replies as engines).
  `colocate_weights_*` and `colocate_done_*` are never deleted.
  `MetaServerClient.barrier` (`meta_server.py:678`): rank 0 deletes the set while
  others still poll it; neither `barrier` nor the allocation of ids is called by
  the package itself.
* Writer.  `nccl_writer.py:175` reads `self.backend`, which the writer never
  sets, when `AWEX_DESTROY_PG_AFTER_UPDATE` is on; `nccl_writer.py:182` reads
  `self.asystem_train_config`, which nothing in the package sets.
* Metadata.  `meta_resolver.py:168` orders the shards of a replica by `tp_rank`
  also when they are expert shards: with expert tensor parallelism wider than
  tensor parallelism the offsets are wrong (`ReceivedRight` fails for the layout
  tp = 2, ep = 2, epTp = 4).  `WeightsReader` computes the number of inference
  ranks without prefill context parallelism.
* Converters.  `transform_mcore_qkv_bias` asks for the replicated size before it
  compacts the bias, so that a bias of plain multi-head attention is permuted;
  the comment on the weight (`mcore_converter.py:1111-1112`) says it must not be.
  With three layers per stage and groups of two, the layer a rank announces is
  not the one it hands over (`MetaTruthful`), against
  `mcore_converter.py:960-962`.
* SGLang adapter.  Three of its endpoints can only answer 500, on every rank:
  the metadata report, because `get_sglang_rank_info` reads `attn_dp_rank` and
  `local_rank` (`sglang_sharding.py:96,100`), which `_get_model_context`
  (`sglang_awex_adapter.py:87-101`) does not have; the initialization, because
  `MetaServerClient` is called without its port (`sglang_awex_adapter.py:279`,
  `meta_server.py:499`); and the update, for the same reason at line 333 if it got
  there, but line 329 subscripts a mapping that the initialization no longer sets.
  Behind these lines more would fail: `sglang_awex_adapter.py:308` imports
  `init_weights_update_group` from `awex.transfer.nccl_comm`, while it is in
  `awex/util/process_group.py:199`; `get_object` (280-281) is called without a
  timeout and so answers None at once for a key that is not there
  (`meta_server.py:596-597`); and `_unfuse_params` (116-132) cuts a fused projection
  in proportion to the heads, which is wrong when workers share key-value heads.
  The docstring (10-13) promises the metadata and the update.
* Tests.  The comments of `awex/tests/test_attn_tp_sharding_cp_bug.py:12-18,87-93`
  say that training with an attention tensor parallel size of one and inference
  with more leaves the workers other than the first without operations.  The
  assertions check the sharding strategy only.  In the code a parameter that is
  not sharded in training is one shard, which overlaps those of all workers, and
  `EveryElementReceived` holds for such layouts (`transfer_plan` has them).
* Buffers.  `group_tensors` appends before it checks the maximal size, so a group
  may exceed it, against its docstring (`tensor_util.py:190-191`).
* Engines.  `engine/vllm.py:123-136` releases everything whatever the tags;
  `engine/sglang.py:110` adds to `released_tags` before the call that may raise
  (and 132 removes from it before), so that a call that is repeated returns at once
  with the memory as it was.  The plugin adapter changes its tags after the call;
  the mutant `ReleaseRaisesTooLate` of `SglangAdapter` has the order of
  `engine/sglang.py`, and breaks `AnswersAreTrue`.

## 7. Plan

Of the first plan, `ChunkedTransport` is now part of `RecursivePartition`,
`TensorGroups` and the SGLang half of `EngineAdapter` are modules,
`SglangAdapter` has the tags of released memory, and `WeightExchange` is the
abstract specification of both exchanges.  What is left, in this order:

1. `engine/sglang.py`: its tags and calls that raise, composed with `ColocateExchange`.
2. Biases and tied embeddings in `McoreConverter`; the vLLM converter.
3. Lost replies and validation in `ColocateExchange`; the ring warm-up.
4. The update of `SglangAdapter`, once its endpoints work: an implementation of
   `WeightExchange` with the buffers of `ColocateExchange`.
5. Theorems about `CircleShift`: `StageClosed`, and by a numbering of its calls
   (`CommonOrderNeverStuck`) that it is never stuck.
