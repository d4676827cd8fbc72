-------------------------- MODULE SeparateExchange --------------------------
(***************************************************************************)
(* Weights exchange between a training job and inference engines on        *)
(* separate devices: WeightsReader with its worker-side NCCLWeightsReader, *)
(* NCCLWeightsWriter, and the keys they exchange through the MetaServer.   *)
(*                                                                         *)
(* A training rank runs write_weights, an engine runs update_weights and   *)
(* hands tasks to its model workers; each keeps the step it is in.  A      *)
(* collective (a training-side gather or barrier, the joint process group, *)
(* the barrier of an update) is one step of all its members.  The tensors  *)
(* between two ranks are moved as one transfer once both have posted their *)
(* batch; what they hold is the step whose weights they are.               *)
(***************************************************************************)
EXTENDS Naturals, FiniteSets

CONSTANTS
  NumEngines,        \* inference engines
  WorkersPerEngine,  \* model workers of an engine
  TrainWorldSize,    \* training ranks
  MaxStep,           \* bound: steps exchanged
  ValidationSteps,   \* weights_validation_steps (0: no validation)
  ValidateEvery,     \* validate_weights_every_n_steps
  MaxLostReplies     \* bound: MetaServer replies lost after the request ran

ASSUME SeparateAssumption ==
  /\ NumEngines \in Nat \ {0} /\ WorkersPerEngine \in Nat \ {0}
  /\ TrainWorldSize \in Nat \ {0} /\ MaxStep \in Nat \ {0}
  /\ ValidationSteps \in Nat /\ ValidateEvery \in Nat \ {0}
  /\ MaxLostReplies \in Nat

Engine == 0 .. NumEngines - 1
InferRank == 0 .. NumEngines * WorkersPerEngine - 1
TrainRank == 0 .. TrainWorldSize - 1
LastTrainRank == TrainWorldSize - 1
EngineOf(r) == r \div WorkersPerEngine
WorkersOf(e) == {r \in InferRank : EngineOf(r) = e}

Key == {"num_infer_engines", "num_inited_inference_engines", "infer_conf",
        "infer_params_meta", "training_params_meta", "master_info",
        "weights_ready_for_load", "weights_ready_for_send"}

NoVersion == 0   \* a zeroed parameter; versions are steps

VARIABLES
  store,       \* the MetaServer: the objects under a key, {} if it has none
  lost,        \* number of replies lost so far
  disk,        \* version of the checkpoint at the validation path
  wpc, wstep,  \* where a training rank is, in which step
  wvalidated,  \* validated_steps of a training rank
  epc, estep,  \* where an engine is, in which step
  evalidated,  \* validated_steps of an engine
  ready,       \* ready_engines an engine has read
  loaded,      \* version an engine snapshot before zeroing its parameters
  rpc,         \* where a model worker is
  param,       \* param[r][t]: version of the tensors r gets from rank t
  moved        \* pairs <<t, r>> whose transfer of this update is over

writerVars == <<wpc, wstep, wvalidated>>
engineVars == <<epc, estep, evalidated, ready, loaded>>
workerVars == <<rpc, param, moved>>
vars == <<store, lost, disk, writerVars, engineVars, workerVars>>

Init ==
  /\ store = [k \in Key |-> {}] /\ lost = 0 /\ disk = NoVersion
  /\ wpc = [t \in TrainRank |-> "idle"] /\ wstep = [t \in TrainRank |-> 0]
  /\ wvalidated = [t \in TrainRank |-> 0]
  /\ epc = [e \in Engine |-> "put_num"] /\ estep = [e \in Engine |-> 0]
  /\ evalidated = [e \in Engine |-> 0]
  /\ ready = [e \in Engine |-> {}] /\ loaded = [e \in Engine |-> NoVersion]
  /\ rpc = [r \in InferRank |-> "off"]
  /\ param = [r \in InferRank |-> [t \in TrainRank |-> NoVersion]]
  /\ moved = {}

-----------------------------------------------------------------------------
\* Requests to the MetaServer, as its handlers apply them.
Has(k) == store[k] # {}
Put(k) == store' = [store EXCEPT ![k] = {0}]
Add(k, x) == store' = [store EXCEPT ![k] = @ \cup {x}]
Delete(k) == store' = [store EXCEPT ![k] = {}]

\* One training rank, one engine, one worker moves from a place to the next.
WriterGoes(t, from, to) == wpc[t] = from /\ wpc' = [wpc EXCEPT ![t] = to]
EngineGoes(e, from, to) == epc[e] = from /\ epc' = [epc EXCEPT ![e] = to]
WorkerGoes(r, from, to) == rpc[r] = from /\ rpc' = [rpc EXCEPT ![r] = to]

\* if validated_steps >= weights_validation_steps: return
\* if (step_id - start_step) % validate_weights_every_n_steps != 0: return
\* (step_id counts from 1, and the first step is start_step)
Validates(count, step) == count < ValidationSteps /\ (step - 1) % ValidateEvery = 0

-----------------------------------------------------------------------------
\* The training side: write_weights.

AfterInit(t, step) == IF Validates(wvalidated[t], step) THEN "save" ELSE "send"

BeginWrite(t) ==
  /\ wstep[t] < MaxStep
  /\ wstep' = [wstep EXCEPT ![t] = @ + 1]
  /\ WriterGoes(t, "idle", IF wstep[t] = 0 THEN "wait_conf" ELSE AfterInit(t, wstep[t] + 1))
  /\ UNCHANGED <<store, lost, disk, wvalidated, engineVars, workerVars>>

WaitKey(t, key, from, to) ==
  /\ WriterGoes(t, from, to) /\ Has(key)
  /\ UNCHANGED <<store, lost, disk, wstep, wvalidated, engineVars, workerVars>>

\* Mutant: the training ranks wait for the master address before they publish
\* their metadata.
WriterGetsMasterFirst(t) == WaitKey(t, "master_info", "wait_conf", "gather")

WriterGetsConf(t) == WaitKey(t, "infer_conf", "wait_conf", "gather")

\* get_parameters_meta gathers the metadata of all training ranks.
GatherMeta ==
  /\ \A t \in TrainRank : wpc[t] = "gather"
  /\ wpc' = [t \in TrainRank |-> IF t = 0 THEN "put_meta" ELSE "broadcast"]
  /\ UNCHANGED <<store, lost, disk, wstep, wvalidated, engineVars, workerVars>>

WriterPutsMeta ==
  /\ WriterGoes(0, "put_meta", "wait_meta")
  /\ Put("training_params_meta")
  /\ UNCHANGED <<lost, disk, wstep, wvalidated, engineVars, workerVars>>

WriterGetsMeta == WaitKey(0, "infer_params_meta", "wait_meta", "broadcast")

BroadcastMeta ==
  /\ \A t \in TrainRank : wpc[t] = "broadcast"
  /\ wpc' = [t \in TrainRank |-> "wait_num"]
  /\ UNCHANGED <<store, lost, disk, wstep, wvalidated, engineVars, workerVars>>

WriterGetsNumEngines(t) == WaitKey(t, "num_infer_engines", "wait_num", "wait_master")
WriterGetsMaster(t) == WaitKey(t, "master_info", "wait_master", "group")

\* _validate_weights with a checkpoint path: every rank saves, then a barrier.
SaveCheckpoint ==
  /\ \A t \in TrainRank : wpc[t] = "save"
  /\ disk' = wstep[0]
  /\ wvalidated' = [t \in TrainRank |-> wvalidated[t] + 1]
  /\ wpc' = [t \in TrainRank |-> IF t = 0 THEN "put_load" ELSE "checked"]
  /\ UNCHANGED <<store, lost, wstep, engineVars, workerVars>>

PutReadyForLoad ==
  /\ WriterGoes(0, "put_load", "poll_send")
  /\ Put("weights_ready_for_load")
  /\ UNCHANGED <<lost, disk, wstep, wvalidated, engineVars, workerVars>>

\* Mutant: one engine is enough.
SeeOneReady ==
  /\ Cardinality(store["weights_ready_for_send"]) >= 1
  /\ WriterGoes(0, "poll_send", "delete_send")
  /\ UNCHANGED <<store, lost, disk, wstep, wvalidated, engineVars, workerVars>>

\* while len(ready_engines) != num_infer_engines
SeeAllReady ==
  /\ Cardinality(store["weights_ready_for_send"]) = NumEngines
  /\ WriterGoes(0, "poll_send", "delete_send")
  /\ UNCHANGED <<store, lost, disk, wstep, wvalidated, engineVars, workerVars>>

DeleteReadyForSend ==
  /\ WriterGoes(0, "delete_send", "delete_load")
  /\ Delete("weights_ready_for_send")
  /\ UNCHANGED <<lost, disk, wstep, wvalidated, engineVars, workerVars>>

\* Mutant: the announcement of the checkpoint is kept.
KeepReadyForLoad ==
  /\ WriterGoes(0, "delete_load", "checked")
  /\ UNCHANGED <<store, lost, disk, wstep, wvalidated, engineVars, workerVars>>

DeleteReadyForLoad ==
  /\ WriterGoes(0, "delete_load", "checked")
  /\ Delete("weights_ready_for_load")
  /\ UNCHANGED <<lost, disk, wstep, wvalidated, engineVars, workerVars>>

\* The dist.barrier after which every rank logs "All inference engine
\* instances has read weights for step".
LeaveValidation ==
  /\ \A t \in TrainRank : wpc[t] = "checked"
  /\ wpc' = [t \in TrainRank |-> "send"]
  /\ UNCHANGED <<store, lost, disk, wstep, wvalidated, engineVars, workerVars>>

\* write_weights returns (AWEX_DESTROY_PG_AFTER_UPDATE is not set).
FinishWrite(t) ==
  /\ WriterGoes(t, "finish", "idle")
  /\ UNCHANGED <<store, lost, disk, wstep, wvalidated, engineVars, workerVars>>

-----------------------------------------------------------------------------
\* The engine side: initialize and update_weights.

PutNumEngines(e) ==
  /\ EngineGoes(e, "put_num", "add_inited")
  /\ Put("num_infer_engines")
  /\ UNCHANGED <<lost, disk, writerVars, estep, evalidated, ready, loaded, workerVars>>

\* Mutant: engines count from one.
AddInitedFromOne(e) ==
  /\ EngineGoes(e, "add_inited", "idle")
  /\ Add("num_inited_inference_engines", e + 1)
  /\ UNCHANGED <<lost, disk, writerVars, estep, evalidated, ready, loaded, workerVars>>

AddInited(e) ==
  /\ EngineGoes(e, "add_inited", "idle")
  /\ Add("num_inited_inference_engines", e)
  /\ UNCHANGED <<lost, disk, writerVars, estep, evalidated, ready, loaded, workerVars>>

AfterReaderInit(e, step) == IF Validates(evalidated[e], step) THEN "wait_load" ELSE "update"

BeginUpdate(e) ==
  /\ estep[e] < MaxStep
  /\ estep' = [estep EXCEPT ![e] = @ + 1]
  /\ EngineGoes(e, "idle", IF estep[e] = 0 THEN "put_conf" ELSE AfterReaderInit(e, estep[e] + 1))
  /\ UNCHANGED <<store, lost, disk, writerVars, evalidated, ready, loaded, workerVars>>

PutInferConf(e) ==
  /\ EngineGoes(e, "put_conf", IF e = 0 THEN "put_meta" ELSE "wait_meta")
  /\ Put("infer_conf")
  /\ UNCHANGED <<lost, disk, writerVars, estep, evalidated, ready, loaded, workerVars>>

PutInferMeta(e) ==
  /\ EngineGoes(e, "put_meta", "wait_meta")
  /\ Put("infer_params_meta")
  /\ UNCHANGED <<lost, disk, writerVars, estep, evalidated, ready, loaded, workerVars>>

\* The training metadata is there: the workers start _init_in_tp_worker.
GetTrainingMeta(e) ==
  /\ Has("training_params_meta")
  /\ EngineGoes(e, "wait_meta", "init_workers")
  /\ rpc' = [r \in InferRank |->
               IF r \in WorkersOf(e) THEN IF r = 0 THEN "put_master" ELSE "wait_master"
               ELSE rpc[r]]
  /\ UNCHANGED <<store, lost, disk, writerVars, estep, evalidated, ready, loaded, param, moved>>

WorkersInitialized(e) ==
  /\ \A r \in WorkersOf(e) : rpc[r] = "ready"
  /\ EngineGoes(e, "init_workers", AfterReaderInit(e, estep[e]))
  /\ UNCHANGED <<store, lost, disk, writerVars, estep, evalidated, ready, loaded, workerVars>>

\* update_weights_from_disk once the checkpoint is announced, snapshot of the
\* parameters, zeroing of the parameters.
LoadCheckpoint(e) ==
  /\ Has("weights_ready_for_load")
  /\ EngineGoes(e, "wait_load", "add_send")
  /\ loaded' = [loaded EXCEPT ![e] = disk]
  /\ param' = [r \in InferRank |->
                 IF r \in WorkersOf(e) THEN [t \in TrainRank |-> NoVersion] ELSE param[r]]
  /\ UNCHANGED <<store, lost, disk, writerVars, estep, evalidated, ready, rpc, moved>>

AddReadyForSend(e) ==
  /\ EngineGoes(e, "add_send", "get_send")
  /\ Add("weights_ready_for_send", e)
  /\ UNCHANGED <<lost, disk, writerVars, estep, evalidated, ready, loaded, workerVars>>

\* The request is carried out but its reply is lost: the client's retry loop
\* sends it again.
AddReadyForSendLost(e) ==
  /\ epc[e] = "add_send" /\ lost < MaxLostReplies
  /\ lost' = lost + 1
  /\ Add("weights_ready_for_send", e)
  /\ UNCHANGED <<disk, writerVars, engineVars, workerVars>>

\* The first read after the add: a deleted key reads as None, and len(None)
\* raises.
GetReadyForSend(e) ==
  /\ EngineGoes(e, "get_send", IF Has("weights_ready_for_send") THEN "loop_send" ELSE "crashed")
  /\ ready' = [ready EXCEPT ![e] = store["weights_ready_for_send"]]
  /\ UNCHANGED <<store, lost, disk, writerVars, estep, evalidated, loaded, workerVars>>

\* while len(ready_engines) != num_engines, with the break on a deleted key.
SeeOthersReady(e) ==
  /\ Cardinality(ready[e]) # NumEngines /\ Has("weights_ready_for_send")
  /\ epc[e] = "loop_send"
  /\ ready' = [ready EXCEPT ![e] = store["weights_ready_for_send"]]
  /\ UNCHANGED <<store, lost, disk, writerVars, epc, estep, evalidated, loaded, workerVars>>

LeaveReadyLoop(e) ==
  /\ Cardinality(ready[e]) = NumEngines \/ ~ Has("weights_ready_for_send")
  /\ EngineGoes(e, "loop_send", "update")
  /\ UNCHANGED <<store, lost, disk, writerVars, estep, evalidated, ready, loaded, workerVars>>

\* Mutant: the task is handed to the workers without waiting for its result.
StartWorkersNoWait(e) ==
  /\ EngineGoes(e, "update", "idle")
  /\ rpc' = [r \in InferRank |-> IF r \in WorkersOf(e) THEN "recv" ELSE rpc[r]]
  /\ UNCHANGED <<store, lost, disk, writerVars, estep, evalidated, ready, loaded, param, moved>>

\* execute_task_in_model_worker(_update_parameters_in_tp_worker)
StartWorkers(e) ==
  /\ EngineGoes(e, "update", "wait_workers")
  /\ rpc' = [r \in InferRank |-> IF r \in WorkersOf(e) THEN "recv" ELSE rpc[r]]
  /\ UNCHANGED <<store, lost, disk, writerVars, estep, evalidated, ready, loaded, param, moved>>

\* The workers are back; _validate_weights compares with the snapshot.
FinishUpdate(e) ==
  /\ \A r \in WorkersOf(e) : rpc[r] = "ready"
  /\ EngineGoes(e, "wait_workers", "idle")
  /\ evalidated' = [evalidated EXCEPT
       ![e] = IF Validates(evalidated[e], estep[e]) THEN @ + 1 ELSE @]
  /\ UNCHANGED <<store, lost, disk, writerVars, estep, ready, loaded, workerVars>>

-----------------------------------------------------------------------------
\* The model workers, and the collectives of both sides.

WorkerPutsMaster ==
  /\ WorkerGoes(0, "put_master", "group")
  /\ Put("master_info")
  /\ UNCHANGED <<lost, disk, writerVars, engineVars, param, moved>>

WorkerGetsMaster(r) ==
  /\ Has("master_info")
  /\ WorkerGoes(r, "wait_master", "group")
  /\ UNCHANGED <<store, lost, disk, writerVars, engineVars, param, moved>>

\* init_weights_update_group and its barrier: all ranks of both sides.
JoinGroup ==
  /\ \A t \in TrainRank : wpc[t] = "group"
  /\ \A r \in InferRank : rpc[r] = "group"
  /\ wpc' = [t \in TrainRank |-> IF t = LastTrainRank THEN "shake" ELSE "warm_up"]
  /\ rpc' = [r \in InferRank |-> IF r = 0 THEN "shake" ELSE "warm_up"]
  /\ UNCHANGED <<store, lost, disk, wstep, wvalidated, engineVars, param, moved>>

\* The last training rank sends, the first inference rank receives.
ShakeHands ==
  /\ wpc[LastTrainRank] = "shake" /\ rpc[0] = "shake"
  /\ wpc' = [wpc EXCEPT ![LastTrainRank] = "warm_up"]
  /\ rpc' = [rpc EXCEPT ![0] = "warm_up"]
  /\ UNCHANGED <<store, lost, disk, wstep, wvalidated, engineVars, param, moved>>

\* setup_batch_isend_irecv
WarmUp ==
  /\ \A t \in TrainRank : wpc[t] = "warm_up"
  /\ \A r \in InferRank : rpc[r] = "warm_up"
  /\ wpc' = [t \in TrainRank |-> AfterInit(t, wstep[t])]
  /\ rpc' = [r \in InferRank |-> "ready"]
  /\ UNCHANGED <<store, lost, disk, wstep, wvalidated, engineVars, param, moved>>

\* Mutant: the received tensors are not written into the parameters.
MoveLost(t, r) ==
  /\ wpc[t] = "send" /\ rpc[r] = "recv" /\ <<t, r>> \notin moved
  /\ moved' = moved \cup {<<t, r>>}
  /\ UNCHANGED <<store, lost, disk, writerVars, engineVars, rpc, param>>

\* The tensors from t to r move once both have posted their batch.
Move(t, r) ==
  /\ wpc[t] = "send" /\ rpc[r] = "recv" /\ <<t, r>> \notin moved
  /\ param' = [param EXCEPT ![r][t] = wstep[t]]
  /\ moved' = moved \cup {<<t, r>>}
  /\ UNCHANGED <<store, lost, disk, writerVars, engineVars, rpc>>

WriterBatchDone(t) ==
  /\ \A r \in InferRank : <<t, r>> \in moved
  /\ WriterGoes(t, "send", "barrier")
  /\ UNCHANGED <<store, lost, disk, wstep, wvalidated, engineVars, workerVars>>

WorkerBatchDone(r) ==
  /\ \A t \in TrainRank : <<t, r>> \in moved
  /\ WorkerGoes(r, "recv", "barrier")
  /\ UNCHANGED <<store, lost, disk, writerVars, engineVars, param, moved>>

\* Mutant: the barrier is only among the training ranks, each worker goes on
\* when it has its tensors.
UpdateBarrierOneSided ==
  \/ /\ \A t \in TrainRank : wpc[t] = "barrier"
     /\ wpc' = [t \in TrainRank |-> "finish"]
     /\ moved' = {}
     /\ UNCHANGED <<store, lost, disk, wstep, wvalidated, engineVars, rpc, param>>
  \/ \E r \in InferRank :
       /\ WorkerGoes(r, "barrier", "ready")
       /\ UNCHANGED <<store, lost, disk, writerVars, engineVars, param, moved>>

\* The dist.barrier that ends an update.
UpdateBarrier ==
  /\ \A t \in TrainRank : wpc[t] = "barrier"
  /\ \A r \in InferRank : rpc[r] = "barrier"
  /\ wpc' = [t \in TrainRank |-> "finish"]
  /\ rpc' = [r \in InferRank |-> "ready"]
  /\ moved' = {}
  /\ UNCHANGED <<store, lost, disk, wstep, wvalidated, engineVars, param>>

-----------------------------------------------------------------------------
Writer(t) ==
  \/ BeginWrite(t) \/ WriterGetsConf(t) \/ WriterGetsNumEngines(t)
  \/ WriterGetsMaster(t) \/ WriterBatchDone(t) \/ FinishWrite(t)

Rank0Writer ==
  \/ WriterPutsMeta \/ WriterGetsMeta \/ PutReadyForLoad \/ SeeAllReady
  \/ DeleteReadyForSend \/ DeleteReadyForLoad

Reader(e) ==
  \/ PutNumEngines(e) \/ AddInited(e) \/ BeginUpdate(e) \/ PutInferConf(e)
  \/ PutInferMeta(e) \/ GetTrainingMeta(e) \/ WorkersInitialized(e)
  \/ LoadCheckpoint(e) \/ AddReadyForSend(e) \/ AddReadyForSendLost(e)
  \/ GetReadyForSend(e) \/ SeeOthersReady(e) \/ LeaveReadyLoop(e)
  \/ StartWorkers(e) \/ FinishUpdate(e)

Worker(r) == WorkerGetsMaster(r) \/ WorkerBatchDone(r)

Collective ==
  \/ GatherMeta \/ BroadcastMeta \/ SaveCheckpoint \/ LeaveValidation
  \/ JoinGroup \/ ShakeHands \/ WarmUp \/ UpdateBarrier

\* All steps are exchanged: nothing more to do.
AllDone ==
  /\ \A t \in TrainRank : wpc[t] = "idle" /\ wstep[t] = MaxStep
  /\ \A e \in Engine : epc[e] = "idle" /\ estep[e] = MaxStep

Stop == AllDone /\ UNCHANGED vars

Next ==
  \/ \E t \in TrainRank : Writer(t)
  \/ Rank0Writer
  \/ \E e \in Engine : Reader(e)
  \/ WorkerPutsMaster \/ \E r \in InferRank : Worker(r)
  \/ \E t \in TrainRank, r \in InferRank : Move(t, r)
  \/ Collective
  \/ Stop

Spec == Init /\ [][Next]_vars

\* Some process that can take a step takes one: no process is required to be
\* faster than another, and nothing is required of a process that waits.
FairSpec == Spec /\ WF_vars(Next)

-----------------------------------------------------------------------------
\* The places of a training rank: between two updates, in the initialization, in
\* the validation, in the transport.
WriterPlace ==
  {"idle", "finish"}
  \cup {"wait_conf", "gather", "put_meta", "wait_meta", "broadcast", "wait_num", "wait_master",
        "group", "shake", "warm_up"}
  \cup {"save", "put_load", "poll_send", "delete_send", "delete_load", "checked"}
  \cup {"send", "barrier"}

\* The places of an engine, and of a model worker, likewise.
EnginePlace ==
  {"put_num", "add_inited", "idle"}
  \cup {"put_conf", "put_meta", "wait_meta", "init_workers"}
  \cup {"wait_load", "add_send", "get_send", "loop_send", "crashed"}
  \cup {"update", "wait_workers"}

WorkerPlace ==
  {"off", "put_master", "wait_master", "group", "shake", "warm_up", "ready", "recv", "barrier"}

TypeOK ==
  /\ store \in [Key -> SUBSET (Engine \cup {0})] /\ lost \in 0 .. MaxLostReplies
  /\ disk \in 0 .. MaxStep
  /\ wpc \in [TrainRank -> WriterPlace] /\ wstep \in [TrainRank -> 0 .. MaxStep]
  /\ wvalidated \in [TrainRank -> 0 .. MaxStep]
  /\ epc \in [Engine -> EnginePlace] /\ estep \in [Engine -> 0 .. MaxStep]
  /\ evalidated \in [Engine -> 0 .. MaxStep]
  /\ ready \in [Engine -> SUBSET Engine] /\ loaded \in [Engine -> 0 .. MaxStep]
  /\ rpc \in [InferRank -> WorkerPlace]
  /\ param \in [InferRank -> [TrainRank -> 0 .. MaxStep]]
  /\ moved \in SUBSET (TrainRank \X InferRank)

\* The workers of an engine have finished its update.
Updated(e) == epc[e] = "wait_workers" /\ \A r \in WorkersOf(e) : rpc[r] = "ready"

\* When an engine returns from update_weights, every inference rank of every
\* engine holds that step's weights from every training rank, unless its
\* engine is already in a later step: no engine serves new weights while a
\* peer is left with old ones (the barrier that ends _update_weights).
UpdateIsGlobal ==
  \A e \in Engine : Updated(e) =>
    \A r \in InferRank :
      estep[EngineOf(r)] > estep[e] \/ \A t \in TrainRank : param[r][t] = estep[e]

\* The parameters of an engine change only inside its update_weights: a worker
\* is never still receiving when the engine has gone back to serving.
ServesUndisturbed ==
  [][\A r \in InferRank :
       param'[r] # param[r] => epc[EngineOf(r)] \in {"wait_load", "wait_workers"}]_vars

\* A validated engine has loaded the checkpoint of the step it is in, not one
\* announced for an earlier step.
LoadsCurrentCheckpoint ==
  \A e \in Engine :
    epc[e] \in {"add_send", "get_send", "loop_send"} => loaded[e] = estep[e]

\* When training rank 0 has seen all engines ready, and logs "All inference
\* engine instances has read weights for step" (weights_writer.py:498), every
\* engine has loaded that step's checkpoint.
AllEnginesLoaded ==
  wpc[0] \in {"delete_send", "delete_load", "checked"} =>
    \A e \in Engine : loaded[e] = wstep[0]

\* The number of updates that are over for a training rank: a step counts from
\* the barrier that ends its transport.
WriterDone(t) == IF wpc[t] \in {"idle", "finish"} THEN wstep[t] ELSE wstep[t] - 1

\* The versions in the parameters of an engine that is not in update_weights.
Serves(e) ==
  IF epc[e] \in {"put_num", "add_inited", "idle"}
  THEN {param[r][t] : r \in WorkersOf(e), t \in TrainRank} ELSE {}

WeightExchange == INSTANCE WeightExchange WITH
  exchanged <- WriterDone(0), step <- estep, serves <- [e \in Engine |-> Serves(e)]

\* The exchange over separate devices is a weight exchange: every engine serves one
\* version, and a new one only after an update of all engines.
ImplementsExchange == WeightExchange!Spec

\* Every engine reads the ready set without failing, also when the writer has
\* deleted it in the meantime (weights_reader.py:421-423 means to break then).
NoReaderCrash == \A e \in Engine : epc[e] # "crashed"

\* All steps are exchanged: initialization has no circular wait and no update
\* waits forever, with and without validation - unless a reader has crashed, or
\* a reply was lost: the repeated request may bring the deleted ready set back
\* behind the writer, and the engine then waits for the others in it.
Completes == <>(AllDone \/ lost > 0 \/ \E e \in Engine : epc[e] = "crashed")
=============================================================================
