-------------------------- MODULE ColocateExchange --------------------------
(***************************************************************************)
(* Weights exchange between training ranks and inference workers that      *)
(* share their devices (enable_colocate_mode): WeightsReader with its      *)
(* worker-side NCCLWeightsReader, NCCLWeightsWriter, the keys they         *)
(* exchange through the MetaServer, and what is resident on a device.      *)
(*                                                                         *)
(* Training rank d and inference worker d are the two processes of device  *)
(* d.  A training rank packs its weights into a shared buffer (CUDA IPC),  *)
(* offloads the weights and hands the buffer to the worker of its device;  *)
(* the workers exchange the tensors among themselves, out of the mapped    *)
(* buffers.  The training job and the engines are called by a driver that  *)
(* waits for both before it goes on (weights_exchange_it.py), and moves    *)
(* the memory between them around training and serving.                    *)
(*                                                                         *)
(* A collective is one step of all its members; the tensors between two    *)
(* workers move as one transfer (RecursivePartition has the transport);    *)
(* what they hold is the step whose weights they are.  The validation of   *)
(* weights is off.                                                         *)
(***************************************************************************)
EXTENDS Naturals, FiniteSets

CONSTANTS
  NumEngines,          \* inference engines
  WorkersPerEngine,    \* model workers, and devices, of an engine
  MaxStep              \* bound: steps exchanged

ASSUME ColocateAssumption ==
  /\ NumEngines \in Nat \ {0} /\ WorkersPerEngine \in Nat \ {0}
  /\ MaxStep \in Nat \ {0}

NumDevices == NumEngines * WorkersPerEngine   \* infer_world_size, training_world_size
Engine == 0 .. NumEngines - 1
Device == 0 .. NumDevices - 1
LastDevice == NumDevices - 1
EngineOf(d) == d \div WorkersPerEngine
WorkersOf(e) == {d \in Device : EngineOf(d) = e}

Key == {"num_infer_engines", "num_inited_inference_engines", "infer_conf",
        "infer_params_meta", "training_params_meta", "master_info",
        "inference_device_rank_entries", "training_device_rank_entries",
        "all_training_offloaded_optimizers", "all_training_offloaded_weights",
        "finished_weights_update_engines"}

\* Keys with the device and the step in their name.
SignalName == {"training_serialized_weights", "weights_update_finished", "write_finished"}

NoVersion == 0   \* no weights, or a freed buffer; versions are steps

VARIABLES
  store,        \* the MetaServer: the objects under a key, {} if it has none
  signal,       \* the MetaServer: the <<name, device, step>> keys it has
  step,         \* the driver: the step being exchanged, or last exchanged
  wpc,          \* where a training rank is
  trainWeights, \* devices with the training weights resident
  optimizer,    \* devices with the optimizer states resident
  buffer,       \* buffer[d]: version in the shared buffer of device d
  epc,          \* where an engine is
  inferWeights, \* engines with their weights resident
  kvCache,      \* engines with their KV cache resident
  rpc,          \* where a model worker is
  mapped,       \* workers that have the buffer of their device open
  param,        \* param[r][s]: version of the tensors r gets from device s
  moved         \* pairs <<s, r>> whose transfer of this update is over

writerVars == <<wpc, trainWeights, optimizer, buffer>>
engineVars == <<epc, inferWeights, kvCache>>
workerVars == <<rpc, mapped, param, moved>>
serverVars == <<store, signal>>
vars == <<serverVars, step, writerVars, engineVars, workerVars>>

\* mcore.initialize has released the training memory; then the engines start.
Init ==
  /\ store = [k \in Key |-> {}] /\ signal = {} /\ step = 1
  /\ wpc = [d \in Device |-> "wait_num"]
  /\ trainWeights = {} /\ optimizer = {}
  /\ buffer = [d \in Device |-> NoVersion]
  /\ epc = [e \in Engine |-> "put_num"]
  /\ inferWeights = Engine /\ kvCache = Engine
  /\ rpc = [d \in Device |-> "off"] /\ mapped = {}
  /\ param = [r \in Device |-> [s \in Device |-> NoVersion]]
  /\ moved = {}

-----------------------------------------------------------------------------
\* Requests to the MetaServer, as its handlers apply them.
Has(k) == store[k] # {}
Put(k) == store' = [store EXCEPT ![k] = {0}] /\ UNCHANGED signal
Add(k, x) == store' = [store EXCEPT ![k] = @ \cup {x}] /\ UNCHANGED signal
Delete(k) == store' = [store EXCEPT ![k] = {}] /\ UNCHANGED signal
HasSize(k, n) == Cardinality(store[k]) >= n
PutSignal(name, d) == signal' = signal \cup {<<name, d, step>>} /\ UNCHANGED store
DeleteSignal(name, d) == signal' = signal \ {<<name, d, step>>} /\ UNCHANGED store
HasSignal(name, d) == <<name, d, step>> \in signal

\* A training rank, an engine or a worker goes on, changing nothing else.
WriterGoes(d, from, to) == wpc[d] = from /\ wpc' = [wpc EXCEPT ![d] = to]
EngineGoes(e, from, to) == epc[e] = from /\ epc' = [epc EXCEPT ![e] = to]
WorkerGoes(d, from, to) == rpc[d] = from /\ rpc' = [rpc EXCEPT ![d] = to]
WriterMemory == <<trainWeights, optimizer, buffer>>
EngineMemory == <<inferWeights, kvCache>>
WorkerMemory == <<mapped, param, moved>>
OnlyWriters == UNCHANGED <<step, engineVars, workerVars>>
OnlyEngines == UNCHANGED <<step, writerVars, workerVars>>
OnlyWorkers == UNCHANGED <<step, writerVars, engineVars>>

-----------------------------------------------------------------------------
\* The training side: _release_memory_for_weights_exchange and _initialize.

WriterWaits(d, condition, from, to) ==
  condition /\ WriterGoes(d, from, to) /\ UNCHANGED <<serverVars, WriterMemory>> /\ OnlyWriters

GetNumEngines(d) == WriterWaits(d, Has("num_infer_engines"), "wait_num", "wait_inited")

\* Mutant: the first engine to be initialized is enough.
SeeOneEngineInited(d) ==
  WriterWaits(d, HasSize("num_inited_inference_engines", 1), "wait_inited", "release")

SeeEnginesInited(d) ==
  WriterWaits(d, HasSize("num_inited_inference_engines", NumEngines), "wait_inited", "release")

\* Release the optimizer, resume the weights.
ReleaseOptimizer(d) ==
  /\ WriterGoes(d, "release", "offloaded")
  /\ optimizer' = optimizer \ {d} /\ trainWeights' = trainWeights \cup {d}
  /\ UNCHANGED <<serverVars, buffer>> /\ OnlyWriters

AfterRelease == IF step = 1 THEN "wait_conf" ELSE "pack"

\* dist.barrier, after which rank 0 announces the offload.
ReleaseBarrier ==
  /\ \A d \in Device : wpc[d] = "offloaded"
  /\ wpc' = [d \in Device |-> IF d = 0 THEN "add_optimizers" ELSE AfterRelease]
  /\ UNCHANGED <<serverVars, WriterMemory>> /\ OnlyWriters

AddOptimizers ==
  /\ WriterGoes(0, "add_optimizers", AfterRelease)
  /\ Add("all_training_offloaded_optimizers", 0)
  /\ UNCHANGED WriterMemory /\ OnlyWriters

GetInferConf(d) == WriterWaits(d, Has("infer_conf"), "wait_conf", "gather")

\* get_parameters_meta gathers the metadata of all training ranks.
GatherMeta ==
  /\ \A d \in Device : wpc[d] = "gather"
  /\ wpc' = [d \in Device |-> IF d = 0 THEN "put_meta" ELSE "broadcast"]
  /\ UNCHANGED <<serverVars, WriterMemory>> /\ OnlyWriters

PutTrainingMeta ==
  /\ WriterGoes(0, "put_meta", "wait_meta")
  /\ Put("training_params_meta")
  /\ UNCHANGED WriterMemory /\ OnlyWriters

GetInferMeta == WriterWaits(0, Has("infer_params_meta"), "wait_meta", "broadcast")

BroadcastMeta ==
  /\ \A d \in Device : wpc[d] = "broadcast"
  /\ wpc' = [d \in Device |-> "init_colocate"]
  /\ UNCHANGED <<serverVars, WriterMemory>> /\ OnlyWriters

\* Mutant: the devices are published once per host, not per rank.
AddTrainingDeviceShared(d) ==
  /\ WriterGoes(d, "init_colocate", "pack")
  /\ Add("training_device_rank_entries", 0)
  /\ UNCHANGED WriterMemory /\ OnlyWriters

\* _init_writer_in_colocate_mode; asystem_train_config, which it reads first
\* and nothing in the package sets, is taken as given by the embedding.
AddTrainingDevice(d) ==
  /\ WriterGoes(d, "init_colocate", "pack")
  /\ Add("training_device_rank_entries", d)
  /\ UNCHANGED WriterMemory /\ OnlyWriters

-----------------------------------------------------------------------------
\* The training side: _write_weights_in_colocate_mode, _finish_weights_update.

\* The converted tensors are concatenated into the groups to be shared.
GroupTensors(d) ==
  /\ d \in trainWeights
  /\ WriterGoes(d, "pack", "offload")
  /\ buffer' = [buffer EXCEPT ![d] = step]
  /\ UNCHANGED <<serverVars, trainWeights, optimizer>> /\ OnlyWriters

OffloadWeights(d) ==
  /\ WriterGoes(d, "offload", "add_offloaded")
  /\ trainWeights' = trainWeights \ {d}
  /\ UNCHANGED <<serverVars, optimizer, buffer>> /\ OnlyWriters

\* Mutant: a training rank signs with a rank that counts from one.
AddOffloadedFromOne(d) ==
  /\ WriterGoes(d, "add_offloaded", "put_serialized")
  /\ Add("all_training_offloaded_weights", d + 1)
  /\ UNCHANGED WriterMemory /\ OnlyWriters

AddOffloaded(d) ==
  /\ WriterGoes(d, "add_offloaded", "put_serialized")
  /\ Add("all_training_offloaded_weights", d)
  /\ UNCHANGED WriterMemory /\ OnlyWriters

PutSerialized(d) ==
  /\ WriterGoes(d, "put_serialized", "wait_updated")
  /\ PutSignal("training_serialized_weights", d)
  /\ UNCHANGED WriterMemory /\ OnlyWriters

\* Mutant: the buffer is freed without waiting for the worker.
GetUpdateFinishedNoWait(d) == WriterWaits(d, TRUE, "wait_updated", "delete_updated")

GetUpdateFinished(d) ==
  WriterWaits(d, HasSignal("weights_update_finished", d), "wait_updated", "delete_updated")

DeleteUpdateFinished(d) ==
  /\ WriterGoes(d, "delete_updated", "free")
  /\ DeleteSignal("weights_update_finished", d)
  /\ UNCHANGED WriterMemory /\ OnlyWriters

FreeBuffer(d) ==
  /\ WriterGoes(d, "free", "put_finished")
  /\ buffer' = [buffer EXCEPT ![d] = NoVersion]
  /\ UNCHANGED <<serverVars, trainWeights, optimizer>> /\ OnlyWriters

PutWriteFinished(d) ==
  /\ WriterGoes(d, "put_finished", "wait_engines")
  /\ PutSignal("write_finished", d)
  /\ UNCHANGED WriterMemory /\ OnlyWriters

SeeEnginesFinished(d) ==
  WriterWaits(d, HasSize("finished_weights_update_engines", NumEngines), "wait_engines", "finished")

FinishBarrier ==
  /\ \A d \in Device : wpc[d] = "finished"
  /\ wpc' = [d \in Device |-> IF d = 0 THEN "delete_finished" ELSE "release_all"]
  /\ UNCHANGED <<serverVars, WriterMemory>> /\ OnlyWriters

DeleteFinished ==
  /\ WriterGoes(0, "delete_finished", "delete_optimizers")
  /\ Delete("finished_weights_update_engines")
  /\ UNCHANGED WriterMemory /\ OnlyWriters

DeleteOptimizers ==
  /\ WriterGoes(0, "delete_optimizers", "delete_weights")
  /\ Delete("all_training_offloaded_optimizers")
  /\ UNCHANGED WriterMemory /\ OnlyWriters

\* Mutant: the set of offloaded ranks is kept.
KeepWeights ==
  /\ WriterGoes(0, "delete_weights", "release_all")
  /\ UNCHANGED <<serverVars, WriterMemory>> /\ OnlyWriters

DeleteWeights ==
  /\ WriterGoes(0, "delete_weights", "release_all")
  /\ Delete("all_training_offloaded_weights")
  /\ UNCHANGED WriterMemory /\ OnlyWriters

\* MegatronEngine.write_weights releases everything before it returns.
ReleaseAll(d) ==
  /\ WriterGoes(d, "release_all", "returned")
  /\ trainWeights' = trainWeights \ {d} /\ optimizer' = optimizer \ {d}
  /\ UNCHANGED <<serverVars, buffer>> /\ OnlyWriters

-----------------------------------------------------------------------------
\* The engine side: initialize and update_weights.

EngineWaits(e, condition, from, to) ==
  condition /\ EngineGoes(e, from, to) /\ UNCHANGED <<serverVars, EngineMemory>> /\ OnlyEngines

PutNumEngines(e) ==
  /\ EngineGoes(e, "put_num", "release_init")
  /\ Put("num_infer_engines")
  /\ UNCHANGED EngineMemory /\ OnlyEngines

\* release_memory_occupation with no tags.
ReleaseMemory(e, from, to) ==
  /\ EngineGoes(e, from, to)
  /\ inferWeights' = inferWeights \ {e} /\ kvCache' = kvCache \ {e}
  /\ UNCHANGED serverVars /\ OnlyEngines

ReleaseAfterInit(e) == ReleaseMemory(e, "release_init", "add_inited")

AddInited(e) ==
  /\ EngineGoes(e, "add_inited", "put_conf")
  /\ Add("num_inited_inference_engines", e)
  /\ UNCHANGED EngineMemory /\ OnlyEngines

PutInferConf(e) ==
  /\ EngineGoes(e, "put_conf", IF e = 0 THEN "put_meta" ELSE "wait_meta")
  /\ Put("infer_conf")
  /\ UNCHANGED EngineMemory /\ OnlyEngines

PutInferMeta(e) ==
  /\ EngineGoes(e, "put_meta", "wait_meta")
  /\ Put("infer_params_meta")
  /\ UNCHANGED EngineMemory /\ OnlyEngines

\* execute_task_in_model_worker: the workers of e start a task.
StartTask(e, place) == rpc' = [d \in Device |-> IF d \in WorkersOf(e) THEN place[d] ELSE rpc[d]]

WorkersBack(e) == \A d \in WorkersOf(e) : rpc[d] = "ready"

GetTrainingMeta(e) ==
  /\ Has("training_params_meta")
  /\ EngineGoes(e, "wait_meta", "init_workers")
  /\ StartTask(e, [d \in Device |-> IF d = 0 THEN "put_master" ELSE "wait_master"])
  /\ UNCHANGED <<serverVars, step, EngineMemory, writerVars, WorkerMemory>>

WorkersInitialized(e) == EngineWaits(e, WorkersBack(e), "init_workers", "release")

ReleaseForUpdate(e) == ReleaseMemory(e, "release", "wait_offloaded")

\* Mutant: one offloaded device is enough.
SeeOneOffloaded(e) ==
  EngineWaits(e, HasSize("all_training_offloaded_weights", 1),
              "wait_offloaded", "resume_weights")

\* _pre_update_weights
SeeWeightsOffloaded(e) ==
  EngineWaits(e, HasSize("all_training_offloaded_weights", NumDevices),
              "wait_offloaded", "resume_weights")

ResumeWeights(e) ==
  /\ EngineGoes(e, "resume_weights", "update")
  /\ inferWeights' = inferWeights \cup {e}
  /\ UNCHANGED <<serverVars, kvCache>> /\ OnlyEngines

StartUpdate(e) ==
  /\ EngineGoes(e, "update", "wait_workers")
  /\ StartTask(e, [d \in Device |-> "collect"])
  /\ UNCHANGED <<serverVars, step, EngineMemory, writerVars, WorkerMemory>>

WorkersUpdated(e) == EngineWaits(e, WorkersBack(e), "wait_workers", "add_finished")

AddFinished(e) ==
  /\ EngineGoes(e, "add_finished", "resume_kv")
  /\ Add("finished_weights_update_engines", e)
  /\ UNCHANGED EngineMemory /\ OnlyEngines

ResumeKvCache(e) ==
  /\ EngineGoes(e, "resume_kv", "serving")
  /\ kvCache' = kvCache \cup {e}
  /\ UNCHANGED <<serverVars, inferWeights>> /\ OnlyEngines

-----------------------------------------------------------------------------
\* The model workers: initialize.

WorkerWaits(d, condition, from, to) ==
  condition /\ WorkerGoes(d, from, to) /\ UNCHANGED <<serverVars, WorkerMemory>> /\ OnlyWorkers

PutMaster ==
  /\ WorkerGoes(0, "put_master", "group")
  /\ Put("master_info")
  /\ UNCHANGED WorkerMemory /\ OnlyWorkers

GetMaster(d) == WorkerWaits(d, Has("master_info"), "wait_master", "group")

\* init_weights_update_group and its barrier: the inference ranks only.
JoinGroup ==
  /\ \A d \in Device : rpc[d] = "group"
  /\ rpc' = [d \in Device |-> IF d \in {0, LastDevice} THEN "shake" ELSE "warm_up"]
  /\ UNCHANGED <<serverVars, WorkerMemory>> /\ OnlyWorkers

\* Rank 0 receives from the last rank, before it would send itself: a group of
\* one rank waits for itself.
ShakeHands ==
  /\ LastDevice # 0 /\ rpc[0] = "shake" /\ rpc[LastDevice] = "shake"
  /\ rpc' = [rpc EXCEPT ![0] = "warm_up", ![LastDevice] = "warm_up"]
  /\ UNCHANGED <<serverVars, WorkerMemory>> /\ OnlyWorkers

\* setup_batch_isend_irecv
WarmUp ==
  /\ \A d \in Device : rpc[d] = "warm_up"
  /\ rpc' = [d \in Device |-> "add_device"]
  /\ UNCHANGED <<serverVars, WorkerMemory>> /\ OnlyWorkers

AddInferDevice(d) ==
  /\ WorkerGoes(d, "add_device", "wait_infer_devices")
  /\ Add("inference_device_rank_entries", d)
  /\ UNCHANGED WorkerMemory /\ OnlyWorkers

SeeInferDevices(d) ==
  WorkerWaits(d, HasSize("inference_device_rank_entries", NumDevices),
              "wait_infer_devices", "wait_train_devices")

SeeTrainDevices(d) ==
  WorkerWaits(d, HasSize("training_device_rank_entries", NumDevices),
              "wait_train_devices", "ready")

-----------------------------------------------------------------------------
\* The model workers: _update_weights_in_colocate_mode.

\* collect_training_weights: open the buffer the training rank has announced.
CollectWeights(d) ==
  /\ HasSignal("training_serialized_weights", d)
  /\ WorkerGoes(d, "collect", "transport")
  /\ mapped' = mapped \cup {d}
  /\ UNCHANGED <<serverVars, param, moved>> /\ OnlyWorkers

\* Mutant: the received tensors are not written into the parameters.
MoveLost(s, r) ==
  /\ rpc[s] = "transport" /\ rpc[r] = "transport" /\ <<s, r>> \notin moved
  /\ moved' = moved \cup {<<s, r>>}
  /\ UNCHANGED <<serverVars, rpc, mapped, param>> /\ OnlyWorkers

\* The tensors of device s move to worker r, itself or another one; what r
\* gets is what the buffer holds by then.
Move(s, r) ==
  /\ rpc[s] = "transport" /\ rpc[r] = "transport" /\ <<s, r>> \notin moved
  /\ param' = [param EXCEPT ![r][s] = buffer[s]]
  /\ moved' = moved \cup {<<s, r>>}
  /\ UNCHANGED <<serverVars, rpc, mapped>> /\ OnlyWorkers

TransportDone(d) ==
  WorkerWaits(d, \A q \in Device : <<d, q>> \in moved /\ <<q, d>> \in moved, "transport", "close")

\* Mutant: the handle is closed after the training rank has been told.
CloseBufferLate(d) ==
  \/ /\ WorkerGoes(d, "close", "put_updated")
     /\ UNCHANGED <<serverVars, mapped, param, moved>> /\ OnlyWorkers
  \/ /\ rpc[d] = "barrier" /\ d \in mapped /\ mapped' = mapped \ {d}
     /\ UNCHANGED <<serverVars, rpc, param, moved>> /\ OnlyWorkers

\* Drop the tensors, gc.collect, synchronize: the IPC handle is closed.
CloseBuffer(d) ==
  /\ WorkerGoes(d, "close", "put_updated")
  /\ mapped' = mapped \ {d}
  /\ UNCHANGED <<serverVars, param, moved>> /\ OnlyWorkers

PutUpdateFinished(d) ==
  /\ WorkerGoes(d, "put_updated", "barrier")
  /\ PutSignal("weights_update_finished", d)
  /\ UNCHANGED WorkerMemory /\ OnlyWorkers

UpdateBarrier ==
  /\ \A d \in Device : rpc[d] = "barrier"
  /\ rpc' = [d \in Device |-> "wait_written"]
  /\ moved' = {}
  /\ UNCHANGED <<serverVars, mapped, param>> /\ OnlyWorkers

\* get_object_then_delete
SeeWriteFinished(d) ==
  WorkerWaits(d, HasSignal("write_finished", d), "wait_written", "delete_written")

DeleteWriteFinished(d) ==
  /\ WorkerGoes(d, "delete_written", "ready")
  /\ DeleteSignal("write_finished", d)
  /\ UNCHANGED WorkerMemory /\ OnlyWorkers

-----------------------------------------------------------------------------
\* The driver: it has joined write_weights and update_weights of a step.
Joined ==
  /\ \A d \in Device : wpc[d] = "returned"
  /\ \A e \in Engine : epc[e] \in {"serving", "offloaded"}

OffloadInference(e) ==
  /\ Joined /\ step < MaxStep
  /\ ReleaseMemory(e, "serving", "offloaded")

OnloadTraining(d) ==
  /\ \A e \in Engine : epc[e] = "offloaded"
  /\ WriterGoes(d, "returned", "training")
  /\ trainWeights' = trainWeights \cup {d} /\ optimizer' = optimizer \cup {d}
  /\ UNCHANGED <<serverVars, buffer>> /\ OnlyWriters

\* The training step is over: write_weights and update_weights are called.
BeginStep ==
  /\ \A d \in Device : wpc[d] = "training"
  /\ step' = step + 1
  /\ wpc' = [d \in Device |-> "release"]
  /\ epc' = [e \in Engine |-> "release"]
  /\ UNCHANGED <<serverVars, WriterMemory, EngineMemory, workerVars>>

AllDone == Joined /\ step = MaxStep

Stop == AllDone /\ UNCHANGED vars

-----------------------------------------------------------------------------
Writer(d) ==
  \/ GetNumEngines(d) \/ SeeEnginesInited(d) \/ ReleaseOptimizer(d) \/ GetInferConf(d)
  \/ AddTrainingDevice(d) \/ GroupTensors(d) \/ OffloadWeights(d)
  \/ AddOffloaded(d) \/ PutSerialized(d) \/ GetUpdateFinished(d) \/ DeleteUpdateFinished(d)
  \/ FreeBuffer(d) \/ PutWriteFinished(d) \/ SeeEnginesFinished(d) \/ ReleaseAll(d)

Rank0Writer ==
  AddOptimizers \/ PutTrainingMeta \/ GetInferMeta \/ DeleteFinished \/ DeleteOptimizers \/ DeleteWeights

Reader(e) ==
  \/ PutNumEngines(e) \/ ReleaseAfterInit(e) \/ AddInited(e) \/ PutInferConf(e)
  \/ PutInferMeta(e) \/ GetTrainingMeta(e) \/ WorkersInitialized(e) \/ ReleaseForUpdate(e)
  \/ SeeWeightsOffloaded(e) \/ ResumeWeights(e) \/ StartUpdate(e) \/ WorkersUpdated(e)
  \/ AddFinished(e) \/ ResumeKvCache(e)

Worker(d) ==
  \/ GetMaster(d) \/ AddInferDevice(d) \/ SeeInferDevices(d) \/ SeeTrainDevices(d)
  \/ CollectWeights(d) \/ TransportDone(d) \/ CloseBuffer(d) \/ PutUpdateFinished(d)
  \/ SeeWriteFinished(d) \/ DeleteWriteFinished(d)

Collective ==
  \/ ReleaseBarrier \/ GatherMeta \/ BroadcastMeta \/ FinishBarrier
  \/ JoinGroup \/ ShakeHands \/ WarmUp \/ UpdateBarrier

Driver == (\E e \in Engine : OffloadInference(e)) \/ (\E d \in Device : OnloadTraining(d)) \/ BeginStep

Next ==
  \/ \E d \in Device : Writer(d) \/ Worker(d)
  \/ \E e \in Engine : Reader(e)
  \/ Rank0Writer \/ PutMaster \/ Collective
  \/ \E s, r \in Device : Move(s, r)
  \/ Driver
  \/ Stop

Spec == Init /\ [][Next]_vars

\* Some process that can take a step takes one.
FairSpec == Spec /\ WF_vars(Next)

-----------------------------------------------------------------------------
\* The places of a training rank, in the order of write_weights.  The training
\* ranks leave each part together, by a barrier or by the driver.
Preparing == {"wait_num", "wait_inited", "release", "offloaded"}
Describing == {"add_optimizers", "wait_conf", "gather", "put_meta", "wait_meta", "broadcast",
               "init_colocate"}
Packing == {"pack", "offload", "add_offloaded"}
Sharing == {"put_serialized", "wait_updated", "delete_updated", "free"}
Freed == {"put_finished", "wait_engines", "finished"}
Cleaning == {"delete_finished", "delete_optimizers", "delete_weights", "release_all"}
AtRest == {"returned", "training"}
WriterPlace == Preparing \cup Describing \cup Packing \cup Sharing \cup Freed \cup Cleaning \cup AtRest

\* The places of an engine: its initialization, before, in and after the update
\* of its workers.
Starting == {"put_num", "release_init", "add_inited", "put_conf", "put_meta", "wait_meta", "init_workers"}
Waiting == {"release", "wait_offloaded", "resume_weights", "update"}
Serving == {"add_finished", "resume_kv", "serving", "offloaded"}
EnginePlace == Starting \cup Waiting \cup {"wait_workers"} \cup Serving

\* The places of a worker: its initialization, the transport of an update, the
\* wait for its training rank.
Joining == {"put_master", "wait_master", "group", "shake", "warm_up", "add_device",
            "wait_infer_devices", "wait_train_devices"}
Receiving == {"transport", "close", "put_updated", "barrier"}
Confirming == {"wait_written", "delete_written"}
WorkerPlace == {"off", "ready", "collect"} \cup Joining \cup Receiving \cup Confirming

TypeOK ==
  /\ store \in [Key -> SUBSET Device]
  /\ signal \subseteq SignalName \X Device \X (1 .. MaxStep) /\ step \in 1 .. MaxStep
  /\ wpc \in [Device -> WriterPlace] /\ epc \in [Engine -> EnginePlace]
  /\ rpc \in [Device -> WorkerPlace]
  /\ trainWeights \subseteq Device /\ optimizer \subseteq Device
  /\ buffer \in [Device -> 0 .. MaxStep]
  /\ inferWeights \subseteq Engine /\ kvCache \subseteq Engine
  /\ mapped \subseteq Device /\ param \in [Device -> [Device -> 0 .. MaxStep]]
  /\ moved \subseteq Device \X Device

\* A device never holds both sides: no training weights or optimizer states
\* next to the inference weights, and next to the KV cache not even the
\* exchange buffer.  This is what the offload signals are for
\* (all_training_offloaded_weights, num_inited_inference_engines, write_finished).
NoOversubscription ==
  \A d \in Device :
    /\ EngineOf(d) \in inferWeights => d \notin trainWeights /\ d \notin optimizer
    /\ EngineOf(d) \in kvCache =>
         d \notin trainWeights /\ d \notin optimizer /\ buffer[d] = NoVersion /\ d \notin mapped

\* A worker never has a buffer open that its training rank has freed, or that
\* holds another step: nccl_reader.py:466-473 closes the handle before it
\* signals weights_update_finished for this reason.
MappingIsLive == \A d \in mapped : buffer[d] = step

\* Once an engine is about to serve, every worker of every engine holds the
\* weights of this step from every device (the barrier after the transport):
\* engines never serve different steps.
ServesOneStep ==
  \A e \in Engine : epc[e] \in {"add_finished", "resume_kv", "serving"} =>
    \A r, s \in Device : param[r][s] = step

\* A worker has left the barrier of this step's update.
Updated(d) ==
  \/ rpc[d] \in Confirming
  \/ rpc[d] = "ready" /\ epc[EngineOf(d)] \in {"wait_workers"} \cup Serving

Exchanged == IF Updated(0) THEN step ELSE step - 1

\* The updates an engine has begun, or given up its memory for: from the release
\* after its initialization, then from that of the driver on.
EngineStep(e) ==
  CASE epc[e] \in {"put_num", "release_init"} -> step - 1
    [] epc[e] = "offloaded" -> step + 1
    [] OTHER -> step

\* The versions in the parameters of an engine that has its KV cache.
Serves(e) ==
  IF epc[e] \in {"put_num", "release_init", "serving"}
  THEN {param[r][s] : r \in WorkersOf(e), s \in Device} ELSE {}

WeightExchange == INSTANCE WeightExchange WITH
  exchanged <- Exchanged,
  step <- [e \in Engine |-> EngineStep(e)],
  serves <- [e \in Engine |-> Serves(e)]

\* The exchange on shared devices is a weight exchange: every engine serves one
\* version, and a new one only after an update of all engines.
ImplementsExchange == WeightExchange!Spec

\* What a step leaves on the MetaServer cannot be taken for a signal of a
\* later step: when the driver has joined both sides, the sets that count
\* offloads and finished engines are gone, and so are the per-step signals the
\* two processes of a device exchange (the serialized weights are left behind).
SignalsConsumed ==
  Joined =>
    /\ \A k \in {"all_training_offloaded_optimizers", "all_training_offloaded_weights",
                 "finished_weights_update_engines"} : store[k] = {}
    /\ \A x \in signal : x[1] = "training_serialized_weights"

\* All steps are exchanged: the two sides, which wait for each other eight
\* times in a step, never wait in a cycle.
Completes == <>AllDone
=============================================================================
