----------------------- MODULE ColocateExchangeProofs -----------------------
(***************************************************************************)
(* For any number of engines, workers and steps: no device ever holds both *)
(* sides, no worker has a buffer open that its training rank has freed,    *)
(* engines serve one step, and no signal is left for a later one.          *)
(***************************************************************************)
EXTENDS ColocateExchange, FiniteSetTheorems, TLAPS

\* Only rank 0 deletes the sets that count.
OnlyRank0 ==
  \A d \in Device : wpc[d] \in {"delete_finished", "delete_optimizers", "delete_weights"} => d = 0

\* A worker has got what its training rank had to announce when it was done.
Confirmed(d) ==
  \/ rpc[d] = "delete_written"
  \/ rpc[d] = "ready" /\ epc[EngineOf(d)] \in {"wait_workers"} \cup Serving

\* Workers work only when their engine has given them a task.
WorkersFollow ==
  \A d \in Device :
    LET at == epc[EngineOf(d)] IN
    /\ at \in Starting \ {"init_workers"} => rpc[d] = "off"
    /\ at = "init_workers" => rpc[d] \in Joining \cup {"ready"}
    /\ at \in Waiting \cup Serving => rpc[d] = "ready"
    /\ at = "wait_workers" => rpc[d] \in {"collect", "ready"} \cup Receiving \cup Confirming

\* What is resident follows from the places.
MemoryFollows ==
  /\ \A d \in Device :
       /\ d \in optimizer <=> wpc[d] = "training" \/ (wpc[d] = "release" /\ step > 1)
       /\ d \in trainWeights <=>
            \/ wpc[d] \in {"training", "offloaded", "pack", "offload"} \cup Describing
            \/ wpc[d] = "release" /\ step > 1
       /\ buffer[d] = IF wpc[d] \in {"offload", "add_offloaded"} \cup Sharing THEN step ELSE NoVersion
       /\ d \in mapped <=> rpc[d] \in {"transport", "close"}
  /\ \A e \in Engine :
       /\ e \in inferWeights <=>
            epc[e] \in {"put_num", "release_init", "update", "wait_workers"} \cup (Serving \ {"offloaded"})
       /\ e \in kvCache <=> epc[e] \in {"put_num", "release_init", "serving"}

\* The sets that count, and where those are whom they count.
CountsFollow ==
  /\ store["num_inited_inference_engines"]
       = {e \in Engine : epc[e] \notin {"put_num", "release_init", "add_inited"}}
  /\ \A d \in store["all_training_offloaded_weights"] :
       wpc[d] \in Sharing \cup Freed \cup Cleaning \cup {"returned"}
  /\ wpc[0] \in {"release_all"} \cup AtRest \cup Preparing => store["all_training_offloaded_weights"] = {}
  /\ wpc[0] \in {"delete_weights", "release_all"} \cup AtRest \cup Preparing
       => store["all_training_offloaded_optimizers"] = {}
  /\ store["finished_weights_update_engines"] \subseteq Engine
  /\ \A e \in store["finished_weights_update_engines"] : epc[e] \in {"resume_kv", "serving"}
  /\ wpc[0] \in {"delete_optimizers", "delete_weights", "release_all"} \cup AtRest
       => store["finished_weights_update_engines"] = {}

\* What a training rank, an engine has waited for.
SidesFollow ==
  /\ \A d \in Device : wpc[d] \notin {"wait_num", "wait_inited"} =>
       \A e \in Engine : epc[e] \notin {"put_num", "release_init", "add_inited"}
  /\ \A e \in Engine : epc[e] \in {"resume_weights", "update", "wait_workers"} \cup Serving =>
       \A d \in Device : wpc[d] \in Sharing \cup Freed \cup Cleaning \cup AtRest
  /\ \A d \in Device : wpc[d] \in {"finished"} \cup Cleaning \cup AtRest =>
       \A e \in Engine : epc[e] \in Serving \ {"add_finished"}
  /\ (\E d \in Device : wpc[d] \in Preparing) => \A d \in Device : wpc[d] \in Preparing
  /\ (\E d \in Device : wpc[d] \in Cleaning \cup AtRest) =>
       \A d \in Device : wpc[d] \in Cleaning \cup AtRest
  /\ (\E e \in Engine : epc[e] = "offloaded") => step < MaxStep /\ \A d \in Device : wpc[d] \in AtRest
  /\ (\E d \in Device : wpc[d] = "training") => \A e \in Engine : epc[e] = "offloaded"
  /\ step > 1 => \A d \in Device : wpc[d] \notin {"wait_num", "wait_inited"}

\* The two processes of a device: which signal is there follows from where both are.
SignalsFollow ==
  /\ \A x \in signal : x[3] <= step
  /\ \A x \in signal : x[1] # "training_serialized_weights" => x[3] = step
  /\ \A d \in Device :
       /\ HasSignal("training_serialized_weights", d) =>
            wpc[d] \in (Sharing \ {"put_serialized"}) \cup Freed \cup Cleaning \cup AtRest
       /\ HasSignal("weights_update_finished", d) => wpc[d] \in {"wait_updated", "delete_updated"}
       /\ HasSignal("write_finished", d) => ~ (rpc[d] = "ready" /\ epc[EngineOf(d)] \in Serving)
       /\ HasSignal("write_finished", d) =>
            wpc[d] \in {"wait_engines", "finished"} \cup Cleaning \cup AtRest

Handshake ==
  \A d \in Device :
    /\ rpc[d] \in Receiving \/ Updated(d) =>
         wpc[d] \in (Sharing \ {"put_serialized"}) \cup Freed \cup Cleaning \cup AtRest
    /\ HasSignal("weights_update_finished", d)
         \/ wpc[d] \in {"delete_updated", "free"} \cup Freed \cup Cleaning \cup AtRest
       => rpc[d] = "barrier" \/ Updated(d)
    /\ Confirmed(d) => wpc[d] \in {"wait_engines", "finished"} \cup Cleaning \cup AtRest
    /\ HasSignal("write_finished", d) => rpc[d] \in {"barrier"} \cup Confirming

\* The transfers of an update, and its barrier.
TransportFollows ==
  /\ \A s, r \in Device : <<s, r>> \in moved =>
       /\ rpc[s] \in Receiving /\ rpc[r] \in Receiving
       /\ param[r][s] = step
  /\ \A d \in Device : rpc[d] \in Receiving \ {"transport"} =>
       \A q \in Device : <<d, q>> \in moved /\ <<q, d>> \in moved
  /\ (\E d \in Device : Updated(d)) =>
       /\ \A d \in Device : Updated(d)
       /\ \A s, r \in Device : param[r][s] = step

\* The inductive invariant.
IInv ==
  /\ TypeOK
  /\ OnlyRank0
  /\ WorkersFollow
  /\ MemoryFollows
  /\ CountsFollow
  /\ SidesFollow
  /\ SignalsFollow
  /\ Handshake
  /\ TransportFollows

\* The places are sets of names, always seen through.
USE DEF Preparing, Describing, Packing, Sharing, Freed, Cleaning, AtRest, WriterPlace,
        Starting, Waiting, Serving, EnginePlace, Joining, Receiving, Confirming, WorkerPlace

-----------------------------------------------------------------------------
\* Engines are devices, every device has an engine, and every engine a worker.
LEMMA DeviceFacts ==
  /\ NumDevices \in Nat \ {0} /\ NumEngines \in Nat \ {0} /\ MaxStep \in Nat \ {0}
  /\ 0 \in Device /\ LastDevice \in Device /\ Engine \subseteq Device /\ 0 \in Engine
  /\ \A d \in Device : EngineOf(d) \in Engine
  /\ \A e \in Engine : \E d \in Device : EngineOf(d) = e
<1> DEFINE W == WorkersPerEngine
<1>1. NumEngines \in Nat \ {0} /\ W \in Nat \ {0} /\ MaxStep \in Nat \ {0}
  BY ColocateAssumption
<1>2. NumDevices \in Nat \ {0} /\ NumEngines <= NumDevices
  <2>1. NumEngines * W >= NumEngines * 1
    BY <1>1
  <2> QED
    BY <1>1, <2>1 DEF NumDevices
<1>3. 0 \in Device /\ LastDevice \in Device /\ Engine \subseteq Device /\ 0 \in Engine
  BY <1>1, <1>2 DEF Device, LastDevice, Engine
<1>4. ASSUME NEW d \in Device PROVE EngineOf(d) \in Engine
  <2> DEFINE q == d \div W
  <2>1. d \in Nat /\ d < NumEngines * W
    BY <1>1, <1>2 DEF Device, NumDevices
  <2>2. q \in Nat /\ q * W <= d
    BY <1>1, <2>1, Z3
  <2>3. q < NumEngines
    <3> SUFFICES ASSUME NumEngines <= q PROVE FALSE
      BY <1>1, <2>2
    <3> HIDE DEF q
    <3>1. NumEngines * W <= q * W
      BY <1>1, <2>2
    <3> QED
      BY <1>1, <2>1, <2>2, <3>1
  <2> QED
    BY <1>1, <2>2, <2>3 DEF EngineOf, Engine
<1>5. ASSUME NEW e \in Engine PROVE \E d \in Device : EngineOf(d) = e
  <2>1. e \in Nat /\ e + 1 <= NumEngines
    BY <1>1 DEF Engine
  <2>2. (e * W) \div W = e
    BY <1>1, <2>1, Z3
  <2>3. e * W \in Device
    <3>1. (e + 1) * W <= NumEngines * W
      BY <1>1, <2>1
    <3>2. (e + 1) * W = e * W + W /\ e * W \in Nat
      BY <1>1, <2>1
    <3> QED
      BY <1>1, <1>2, <3>1, <3>2 DEF Device, NumDevices
  <2> QED
    BY <2>2, <2>3 DEF EngineOf
<1> QED
  BY <1>1, <1>2, <1>3, <1>4, <1>5

\* A set of engines, or of devices, that has their number has them all.
LEMMA AllCounted ==
  ASSUME NEW S
  PROVE  /\ S \subseteq Engine /\ Cardinality(S) >= NumEngines => S = Engine
         /\ S \subseteq Device /\ Cardinality(S) >= NumDevices => S = Device
<1>1. /\ IsFiniteSet(Engine) /\ Cardinality(Engine) = NumEngines
      /\ IsFiniteSet(Device) /\ Cardinality(Device) = NumDevices
  BY FS_Interval, DeviceFacts DEF Engine, Device
<1>2. S \subseteq Engine /\ Cardinality(S) >= NumEngines => S = Engine
  BY <1>1, FS_Subset, FS_CardinalityType, DeviceFacts
<1>3. S \subseteq Device /\ Cardinality(S) >= NumDevices => S = Device
  BY <1>1, FS_Subset, FS_CardinalityType, DeviceFacts
<1> QED
  BY <1>2, <1>3

-----------------------------------------------------------------------------
\* At the start only the inference side is resident, and nothing is announced.
LEMMA InitIInv == Init => IInv
<1> SUFFICES ASSUME Init PROVE IInv
  OBVIOUS
<1>1. TypeOK
  BY DeviceFacts DEF Init, TypeOK, Key, NoVersion
<1>2. OnlyRank0
  BY DEF Init, OnlyRank0
<1>3. WorkersFollow
  BY DeviceFacts DEF Init, WorkersFollow
<1>4. MemoryFollows
  BY DeviceFacts DEF Init, MemoryFollows, NoVersion
<1>5. CountsFollow
  BY DeviceFacts DEF Init, CountsFollow, Key
<1>6. SidesFollow
  BY DEF Init, SidesFollow
<1>7. SignalsFollow
  BY DEF Init, SignalsFollow, HasSignal
<1>8. Handshake
  BY DEF Init, Handshake, HasSignal, Updated, Confirmed
<1>9. TransportFollows
  BY DEF Init, TransportFollows, Updated
<1> QED
  BY <1>1, <1>2, <1>3, <1>4, <1>5, <1>6, <1>7, <1>8, <1>9 DEF IInv

-----------------------------------------------------------------------------
\* The training side.

\* A training rank that reads the number of engines changes its place only.
LEMMA GetNumEnginesKeeps ==
  ASSUME IInv, NEW d \in Device, GetNumEngines(d)
  PROVE  IInv'
<1>1. /\ TypeOK' /\ OnlyRank0' /\ WorkersFollow' /\ MemoryFollows'
      /\ CountsFollow' /\ SidesFollow' /\ SignalsFollow' /\ Handshake' /\ TransportFollows'
  BY DEF IInv, TypeOK, OnlyRank0, WorkersFollow, MemoryFollows, CountsFollow,
     SidesFollow, SignalsFollow, Handshake, TransportFollows, HasSignal, Updated,
     Confirmed, GetNumEngines, WriterWaits, WriterGoes, serverVars, WriterMemory,
     OnlyWriters, engineVars, workerVars
<1> QED
  BY <1>1 DEF IInv

\* A training rank goes on when every engine has released its memory.
LEMMA SeeEnginesInitedKeeps ==
  ASSUME IInv, NEW d \in Device, SeeEnginesInited(d)
  PROVE  IInv'
<1>1. /\ TypeOK' /\ OnlyRank0' /\ WorkersFollow' /\ CountsFollow'
      /\ SignalsFollow' /\ Handshake' /\ TransportFollows'
  BY DEF IInv, TypeOK, OnlyRank0, WorkersFollow, CountsFollow, SignalsFollow,
     Handshake, TransportFollows, HasSignal, Updated, Confirmed, SeeEnginesInited,
     WriterWaits, WriterGoes, serverVars, WriterMemory, OnlyWriters, engineVars,
     workerVars
<1>2. MemoryFollows'
  BY DEF IInv, MemoryFollows, SidesFollow, SeeEnginesInited, WriterWaits, WriterGoes,
     WriterMemory, OnlyWriters, engineVars, workerVars
<1>3. SidesFollow'
  <2>1. store["num_inited_inference_engines"] = Engine
    BY AllCounted DEF IInv, CountsFollow, SeeEnginesInited, WriterWaits, HasSize
  <2>2. \A e \in Engine : epc[e] \notin {"put_num", "release_init", "add_inited"}
    BY <2>1 DEF IInv, CountsFollow
  <2> QED
    BY <2>2 DEF IInv, TypeOK, SidesFollow, SeeEnginesInited, WriterWaits, HasSize,
       WriterGoes, serverVars, WriterMemory, OnlyWriters, engineVars, workerVars
<1> QED
  BY <1>1, <1>2, <1>3 DEF IInv

\* The optimizer states go, the weights are resident.
LEMMA ReleaseOptimizerKeeps ==
  ASSUME IInv, NEW d \in Device, ReleaseOptimizer(d)
  PROVE  IInv'
<1>1. /\ TypeOK' /\ OnlyRank0' /\ WorkersFollow' /\ CountsFollow'
      /\ SidesFollow' /\ SignalsFollow' /\ Handshake' /\ TransportFollows'
  BY DEF IInv, TypeOK, OnlyRank0, WorkersFollow, CountsFollow, SidesFollow,
     SignalsFollow, Handshake, TransportFollows, HasSignal, Updated, Confirmed,
     ReleaseOptimizer, WriterGoes, serverVars, OnlyWriters, engineVars, workerVars
<1>2. MemoryFollows'
  BY DEF IInv, TypeOK, MemoryFollows, ReleaseOptimizer, WriterGoes, OnlyWriters,
     engineVars, workerVars
<1> QED
  BY <1>1, <1>2 DEF IInv

\* Reading a key changes the place only.
LEMMA GetInferConfKeeps ==
  ASSUME IInv, NEW d \in Device, GetInferConf(d)
  PROVE  IInv'
<1>1. /\ TypeOK' /\ OnlyRank0' /\ WorkersFollow' /\ MemoryFollows'
      /\ CountsFollow' /\ SidesFollow' /\ SignalsFollow' /\ Handshake' /\ TransportFollows'
  BY DEF IInv, TypeOK, OnlyRank0, WorkersFollow, MemoryFollows, CountsFollow,
     SidesFollow, SignalsFollow, Handshake, TransportFollows, HasSignal, Updated,
     Confirmed, GetInferConf, WriterWaits, WriterGoes, serverVars, WriterMemory,
     OnlyWriters, engineVars, workerVars
<1> QED
  BY <1>1 DEF IInv

\* The devices are announced before the first buffer.
LEMMA AddTrainingDeviceKeeps ==
  ASSUME IInv, NEW d \in Device, AddTrainingDevice(d)
  PROVE  IInv'
<1>1. /\ TypeOK' /\ OnlyRank0' /\ WorkersFollow' /\ MemoryFollows'
      /\ CountsFollow' /\ SidesFollow' /\ SignalsFollow' /\ Handshake' /\ TransportFollows'
  BY DEF IInv, TypeOK, OnlyRank0, WorkersFollow, MemoryFollows, CountsFollow,
     SidesFollow, SignalsFollow, Handshake, TransportFollows, Key, HasSignal, Updated,
     Confirmed, AddTrainingDevice, WriterGoes, Add, WriterMemory, OnlyWriters,
     engineVars, workerVars
<1> QED
  BY <1>1 DEF IInv

\* The buffer is filled with the weights of the step.
LEMMA GroupTensorsKeeps ==
  ASSUME IInv, NEW d \in Device, GroupTensors(d)
  PROVE  IInv'
<1>1. /\ TypeOK' /\ OnlyRank0' /\ WorkersFollow' /\ CountsFollow'
      /\ SidesFollow' /\ SignalsFollow' /\ Handshake' /\ TransportFollows'
  BY DEF IInv, TypeOK, OnlyRank0, WorkersFollow, CountsFollow, SidesFollow,
     SignalsFollow, Handshake, TransportFollows, HasSignal, Updated, Confirmed,
     GroupTensors, WriterGoes, serverVars, OnlyWriters, engineVars, workerVars
<1>2. MemoryFollows'
  BY DEF IInv, TypeOK, MemoryFollows, GroupTensors, WriterGoes, OnlyWriters,
     engineVars, workerVars
<1> QED
  BY <1>1, <1>2 DEF IInv

\* The weights go, the buffer stays.
LEMMA OffloadWeightsKeeps ==
  ASSUME IInv, NEW d \in Device, OffloadWeights(d)
  PROVE  IInv'
<1>1. /\ TypeOK' /\ OnlyRank0' /\ WorkersFollow' /\ CountsFollow'
      /\ SidesFollow' /\ SignalsFollow' /\ Handshake' /\ TransportFollows'
  BY DEF IInv, TypeOK, OnlyRank0, WorkersFollow, CountsFollow, SidesFollow,
     SignalsFollow, Handshake, TransportFollows, HasSignal, Updated, Confirmed,
     OffloadWeights, WriterGoes, serverVars, OnlyWriters, engineVars, workerVars
<1>2. MemoryFollows'
  BY DEF IInv, TypeOK, MemoryFollows, OffloadWeights, WriterGoes, OnlyWriters,
     engineVars, workerVars
<1> QED
  BY <1>1, <1>2 DEF IInv

\* A rank counts itself only after its offload, and rank 0 is not in another step.
LEMMA AddOffloadedKeeps ==
  ASSUME IInv, NEW d \in Device, AddOffloaded(d)
  PROVE  IInv'
<1>1. /\ TypeOK' /\ OnlyRank0' /\ WorkersFollow' /\ MemoryFollows'
      /\ SidesFollow' /\ SignalsFollow' /\ Handshake' /\ TransportFollows'
  BY DEF IInv, TypeOK, OnlyRank0, WorkersFollow, MemoryFollows, SidesFollow,
     SignalsFollow, Handshake, TransportFollows, Key, HasSignal, Updated, Confirmed,
     AddOffloaded, WriterGoes, Add, WriterMemory, OnlyWriters, engineVars, workerVars
<1>2. CountsFollow'
  <2>1. wpc[d] = "add_offloaded" /\ wpc' = [wpc EXCEPT ![d] = "put_serialized"]
    BY DEF AddOffloaded, WriterGoes
  <2>2. \A k \in Key : store'[k] = IF k = "all_training_offloaded_weights" THEN store[k] \cup {d} ELSE store[k]
    BY DEF AddOffloaded, Add, IInv, TypeOK
  <2>3. wpc[0] \notin Preparing \cup AtRest \cup {"release_all"}
    BY <2>1, DeviceFacts DEF IInv, SidesFollow
  <2>4. epc' = epc
    BY DEF AddOffloaded, OnlyWriters, engineVars
  <2> QED
    BY <2>1, <2>2, <2>3, <2>4, DeviceFacts DEF IInv, TypeOK, CountsFollow, Key
<1> QED
  BY <1>1, <1>2 DEF IInv

\* A buffer is announced while it is there.
LEMMA PutSerializedKeeps ==
  ASSUME IInv, NEW d \in Device, PutSerialized(d)
  PROVE  IInv'
<1>1. /\ TypeOK' /\ OnlyRank0' /\ WorkersFollow' /\ MemoryFollows'
      /\ CountsFollow' /\ SidesFollow' /\ Handshake' /\ TransportFollows'
  BY DEF IInv, TypeOK, OnlyRank0, WorkersFollow, MemoryFollows, CountsFollow,
     SidesFollow, Handshake, TransportFollows, SignalName, HasSignal, Updated,
     Confirmed, PutSerialized, WriterGoes, PutSignal, WriterMemory, OnlyWriters,
     engineVars, workerVars
<1>2. SignalsFollow'
  BY DEF IInv, TypeOK, SignalsFollow, HasSignal, PutSerialized, WriterGoes, PutSignal,
     OnlyWriters, engineVars, workerVars
<1> QED
  BY <1>1, <1>2 DEF IInv

\* A training rank goes on when its worker is past the transport.
LEMMA GetUpdateFinishedKeeps ==
  ASSUME IInv, NEW d \in Device, GetUpdateFinished(d)
  PROVE  IInv'
<1>1. /\ TypeOK' /\ OnlyRank0' /\ WorkersFollow' /\ MemoryFollows'
      /\ CountsFollow' /\ SidesFollow' /\ SignalsFollow' /\ Handshake' /\ TransportFollows'
  BY DEF IInv, TypeOK, OnlyRank0, WorkersFollow, MemoryFollows, CountsFollow,
     SidesFollow, SignalsFollow, Handshake, TransportFollows, HasSignal, Updated,
     Confirmed, GetUpdateFinished, WriterWaits, WriterGoes, serverVars, WriterMemory,
     OnlyWriters, engineVars, workerVars
<1> QED
  BY <1>1 DEF IInv

\* The signal of the worker is taken.
LEMMA DeleteUpdateFinishedKeeps ==
  ASSUME IInv, NEW d \in Device, DeleteUpdateFinished(d)
  PROVE  IInv'
<1>1. /\ TypeOK' /\ OnlyRank0' /\ WorkersFollow' /\ MemoryFollows'
      /\ CountsFollow' /\ SidesFollow' /\ SignalsFollow' /\ Handshake' /\ TransportFollows'
  BY DEF IInv, TypeOK, OnlyRank0, WorkersFollow, MemoryFollows, CountsFollow,
     SidesFollow, SignalsFollow, Handshake, TransportFollows, NoVersion, HasSignal,
     Updated, Confirmed, DeleteUpdateFinished, WriterGoes, DeleteSignal, WriterMemory,
     OnlyWriters, engineVars, workerVars
<1> QED
  BY <1>1 DEF IInv

\* The buffer goes when its worker is past the transport.
LEMMA FreeBufferKeeps ==
  ASSUME IInv, NEW d \in Device, FreeBuffer(d)
  PROVE  IInv'
<1>1. /\ OnlyRank0' /\ WorkersFollow' /\ CountsFollow' /\ SidesFollow'
      /\ SignalsFollow' /\ Handshake' /\ TransportFollows'
  BY DEF IInv, OnlyRank0, WorkersFollow, CountsFollow, SidesFollow, SignalsFollow,
     Handshake, TransportFollows, HasSignal, Updated, Confirmed, FreeBuffer,
     WriterGoes, serverVars, OnlyWriters, engineVars, workerVars
<1>2. TypeOK'
  BY DeviceFacts DEF IInv, TypeOK, NoVersion, FreeBuffer, WriterGoes, serverVars,
     OnlyWriters, engineVars, workerVars
<1>3. MemoryFollows'
  BY DEF IInv, TypeOK, MemoryFollows, FreeBuffer, WriterGoes, OnlyWriters, engineVars,
     workerVars
<1> QED
  BY <1>1, <1>2, <1>3 DEF IInv

\* The buffer is gone when the training rank says so.
LEMMA PutWriteFinishedKeeps ==
  ASSUME IInv, NEW d \in Device, PutWriteFinished(d)
  PROVE  IInv'
<1>1. /\ TypeOK' /\ OnlyRank0' /\ WorkersFollow' /\ MemoryFollows'
      /\ CountsFollow' /\ SidesFollow' /\ Handshake' /\ TransportFollows'
  BY DEF IInv, TypeOK, OnlyRank0, WorkersFollow, MemoryFollows, CountsFollow,
     SidesFollow, Handshake, TransportFollows, SignalName, HasSignal, Updated,
     Confirmed, PutWriteFinished, WriterGoes, PutSignal, WriterMemory, OnlyWriters,
     engineVars, workerVars
<1>2. SignalsFollow'
  BY DEF IInv, TypeOK, SignalsFollow, Handshake, TransportFollows, HasSignal,
     Confirmed, PutWriteFinished, WriterGoes, PutSignal, OnlyWriters, engineVars,
     workerVars
<1> QED
  BY <1>1, <1>2 DEF IInv

\* A training rank goes on when every engine has finished the update.
LEMMA SeeEnginesFinishedKeeps ==
  ASSUME IInv, NEW d \in Device, SeeEnginesFinished(d)
  PROVE  IInv'
<1>1. /\ TypeOK' /\ OnlyRank0' /\ WorkersFollow' /\ MemoryFollows'
      /\ CountsFollow' /\ SignalsFollow' /\ Handshake' /\ TransportFollows'
  BY DEF IInv, TypeOK, OnlyRank0, WorkersFollow, MemoryFollows, CountsFollow,
     SignalsFollow, Handshake, TransportFollows, HasSignal, Updated, Confirmed,
     SeeEnginesFinished, WriterWaits, WriterGoes, serverVars, WriterMemory,
     OnlyWriters, engineVars, workerVars
<1>2. SidesFollow'
  <2>1. store["finished_weights_update_engines"] = Engine
    BY AllCounted DEF IInv, CountsFollow, SeeEnginesFinished, WriterWaits, HasSize
  <2>2. \A e \in Engine : epc[e] \in {"resume_kv", "serving"}
    BY <2>1 DEF IInv, CountsFollow
  <2> QED
    BY <2>2 DEF IInv, TypeOK, SidesFollow, SeeEnginesFinished, WriterWaits, HasSize,
       WriterGoes, serverVars, WriterMemory, OnlyWriters, engineVars, workerVars
<1> QED
  BY <1>1, <1>2 DEF IInv

\* All training memory goes.
LEMMA ReleaseAllKeeps ==
  ASSUME IInv, NEW d \in Device, ReleaseAll(d)
  PROVE  IInv'
<1>1. /\ TypeOK' /\ OnlyRank0' /\ WorkersFollow' /\ MemoryFollows'
      /\ CountsFollow' /\ SidesFollow' /\ SignalsFollow' /\ Handshake' /\ TransportFollows'
  BY DEF IInv, TypeOK, OnlyRank0, WorkersFollow, MemoryFollows, CountsFollow,
     SidesFollow, SignalsFollow, Handshake, TransportFollows, HasSignal, Updated,
     ReleaseAll, WriterGoes, serverVars, OnlyWriters, engineVars, workerVars
<1> QED
  BY <1>1 DEF IInv

\* The optimizers are counted by rank 0 alone.
LEMMA AddOptimizersKeeps ==
  ASSUME IInv, AddOptimizers
  PROVE  IInv'
<1>1. /\ OnlyRank0' /\ WorkersFollow' /\ MemoryFollows' /\ CountsFollow'
      /\ SidesFollow' /\ SignalsFollow' /\ Handshake' /\ TransportFollows'
  BY DEF IInv, OnlyRank0, WorkersFollow, MemoryFollows, CountsFollow, SidesFollow,
     SignalsFollow, Handshake, TransportFollows, HasSignal, Updated, Confirmed,
     AddOptimizers, WriterGoes, AfterRelease, Add, WriterMemory, OnlyWriters,
     engineVars, workerVars
<1>2. TypeOK'
  BY DeviceFacts DEF IInv, TypeOK, Key, AddOptimizers, WriterGoes, AfterRelease, Add,
     WriterMemory, OnlyWriters, engineVars, workerVars
<1> QED
  BY <1>1, <1>2 DEF IInv

\* The metadata counts nothing.
LEMMA PutTrainingMetaKeeps ==
  ASSUME IInv, PutTrainingMeta
  PROVE  IInv'
<1>1. /\ OnlyRank0' /\ WorkersFollow' /\ MemoryFollows' /\ CountsFollow'
      /\ SidesFollow' /\ SignalsFollow' /\ Handshake' /\ TransportFollows'
  BY DEF IInv, OnlyRank0, WorkersFollow, MemoryFollows, CountsFollow, SidesFollow,
     SignalsFollow, Handshake, TransportFollows, HasSignal, Updated, Confirmed,
     PutTrainingMeta, WriterGoes, Put, WriterMemory, OnlyWriters, engineVars,
     workerVars
<1>2. TypeOK'
  BY DeviceFacts DEF IInv, TypeOK, Key, PutTrainingMeta, WriterGoes, Put, WriterMemory,
     OnlyWriters, engineVars, workerVars
<1> QED
  BY <1>1, <1>2 DEF IInv

\* Reading it changes the place only.
LEMMA GetInferMetaKeeps ==
  ASSUME IInv, GetInferMeta
  PROVE  IInv'
<1>1. /\ OnlyRank0' /\ WorkersFollow' /\ MemoryFollows' /\ CountsFollow'
      /\ SidesFollow' /\ SignalsFollow' /\ Handshake' /\ TransportFollows'
  BY DEF IInv, OnlyRank0, WorkersFollow, MemoryFollows, CountsFollow, SidesFollow,
     SignalsFollow, Handshake, TransportFollows, HasSignal, Updated, Confirmed,
     GetInferMeta, WriterWaits, WriterGoes, serverVars, WriterMemory, OnlyWriters,
     engineVars, workerVars
<1>2. TypeOK'
  BY DeviceFacts DEF IInv, TypeOK, GetInferMeta, WriterWaits, WriterGoes, serverVars,
     WriterMemory, OnlyWriters, engineVars, workerVars
<1> QED
  BY <1>1, <1>2 DEF IInv

\* The set of finished engines goes, when all are in it.
LEMMA DeleteFinishedKeeps ==
  ASSUME IInv, DeleteFinished
  PROVE  IInv'
<1>1. /\ OnlyRank0' /\ WorkersFollow' /\ MemoryFollows' /\ SidesFollow'
      /\ SignalsFollow' /\ Handshake' /\ TransportFollows'
  BY DEF IInv, OnlyRank0, WorkersFollow, MemoryFollows, SidesFollow, SignalsFollow,
     Handshake, TransportFollows, HasSignal, Updated, Confirmed, DeleteFinished,
     WriterGoes, Delete, WriterMemory, OnlyWriters, engineVars, workerVars
<1>2. TypeOK'
  BY DeviceFacts DEF IInv, TypeOK, Key, DeleteFinished, WriterGoes, Delete,
     WriterMemory, OnlyWriters, engineVars, workerVars
<1>3. CountsFollow'
  BY DEF IInv, TypeOK, CountsFollow, Key, DeleteFinished, WriterGoes, Delete,
     OnlyWriters, engineVars
<1> QED
  BY <1>1, <1>2, <1>3 DEF IInv

\* The set of offloaded optimizers goes.
LEMMA DeleteOptimizersKeeps ==
  ASSUME IInv, DeleteOptimizers
  PROVE  IInv'
<1>1. /\ OnlyRank0' /\ WorkersFollow' /\ MemoryFollows' /\ SidesFollow'
      /\ SignalsFollow' /\ Handshake' /\ TransportFollows'
  BY DEF IInv, OnlyRank0, WorkersFollow, MemoryFollows, SidesFollow, SignalsFollow,
     Handshake, TransportFollows, HasSignal, Updated, Confirmed, DeleteOptimizers,
     WriterGoes, Delete, WriterMemory, OnlyWriters, engineVars, workerVars
<1>2. TypeOK'
  BY DeviceFacts DEF IInv, TypeOK, Key, DeleteOptimizers, WriterGoes, Delete,
     WriterMemory, OnlyWriters, engineVars, workerVars
<1>3. CountsFollow'
  BY DEF IInv, TypeOK, CountsFollow, Key, DeleteOptimizers, WriterGoes, Delete,
     OnlyWriters, engineVars
<1> QED
  BY <1>1, <1>2, <1>3 DEF IInv

\* The set of offloaded weights goes, before any rank returns to training.
LEMMA DeleteWeightsKeeps ==
  ASSUME IInv, DeleteWeights
  PROVE  IInv'
<1>1. /\ OnlyRank0' /\ WorkersFollow' /\ MemoryFollows' /\ SidesFollow'
      /\ SignalsFollow' /\ Handshake' /\ TransportFollows'
  BY DEF IInv, OnlyRank0, WorkersFollow, MemoryFollows, SidesFollow, SignalsFollow,
     Handshake, TransportFollows, HasSignal, Updated, Confirmed, DeleteWeights,
     WriterGoes, Delete, WriterMemory, OnlyWriters, engineVars, workerVars
<1>2. TypeOK'
  BY DeviceFacts DEF IInv, TypeOK, Key, DeleteWeights, WriterGoes, Delete,
     WriterMemory, OnlyWriters, engineVars, workerVars
<1>3. CountsFollow'
  BY DEF IInv, TypeOK, CountsFollow, Key, DeleteWeights, WriterGoes, Delete,
     OnlyWriters, engineVars
<1> QED
  BY <1>1, <1>2, <1>3 DEF IInv

-----------------------------------------------------------------------------
\* The engines.

\* An engine starts with its memory resident.
LEMMA PutNumEnginesKeeps ==
  ASSUME IInv, NEW e \in Engine, PutNumEngines(e)
  PROVE  IInv'
<1>1. /\ OnlyRank0' /\ WorkersFollow' /\ MemoryFollows' /\ CountsFollow'
      /\ SidesFollow' /\ SignalsFollow' /\ Handshake' /\ TransportFollows'
  BY DEF IInv, OnlyRank0, WorkersFollow, MemoryFollows, CountsFollow, SidesFollow,
     SignalsFollow, Handshake, TransportFollows, HasSignal, Updated, Confirmed,
     PutNumEngines, EngineGoes, Put, EngineMemory, OnlyEngines, writerVars, workerVars
<1>2. TypeOK'
  BY DeviceFacts DEF IInv, TypeOK, Key, PutNumEngines, EngineGoes, Put, EngineMemory,
     OnlyEngines, writerVars, workerVars
<1> QED
  BY <1>1, <1>2 DEF IInv

\* It releases all of it,
LEMMA ReleaseAfterInitKeeps ==
  ASSUME IInv, NEW e \in Engine, ReleaseAfterInit(e)
  PROVE  IInv'
<1>1. /\ TypeOK' /\ OnlyRank0' /\ WorkersFollow' /\ CountsFollow'
      /\ SidesFollow' /\ SignalsFollow' /\ Handshake' /\ TransportFollows'
  BY DEF IInv, TypeOK, OnlyRank0, WorkersFollow, CountsFollow, SidesFollow,
     SignalsFollow, Handshake, TransportFollows, HasSignal, Updated, Confirmed,
     ReleaseAfterInit, ReleaseMemory, EngineGoes, serverVars, OnlyEngines, writerVars,
     workerVars
<1>2. MemoryFollows'
  BY DEF IInv, TypeOK, MemoryFollows, ReleaseAfterInit, ReleaseMemory, EngineGoes,
     OnlyEngines, writerVars, workerVars
<1> QED
  BY <1>1, <1>2 DEF IInv

\* and only then counts itself.
LEMMA AddInitedKeeps ==
  ASSUME IInv, NEW e \in Engine, AddInited(e)
  PROVE  IInv'
<1>1. /\ OnlyRank0' /\ WorkersFollow' /\ MemoryFollows' /\ SidesFollow'
      /\ SignalsFollow' /\ Handshake' /\ TransportFollows'
  BY DEF IInv, OnlyRank0, WorkersFollow, MemoryFollows, SidesFollow, SignalsFollow,
     Handshake, TransportFollows, HasSignal, Updated, Confirmed, AddInited, EngineGoes,
     Add, EngineMemory, OnlyEngines, writerVars, workerVars
<1>2. TypeOK'
  BY DeviceFacts DEF IInv, TypeOK, Key, AddInited, EngineGoes, Add, EngineMemory,
     OnlyEngines, writerVars, workerVars
<1>3. CountsFollow'
  BY DEF IInv, TypeOK, CountsFollow, Key, AddInited, EngineGoes, Add, OnlyEngines,
     writerVars
<1> QED
  BY <1>1, <1>2, <1>3 DEF IInv

\* The configuration counts nothing,
LEMMA PutInferConfKeeps ==
  ASSUME IInv, NEW e \in Engine, PutInferConf(e)
  PROVE  IInv'
<1>1. /\ OnlyRank0' /\ WorkersFollow' /\ MemoryFollows' /\ CountsFollow'
      /\ SidesFollow' /\ SignalsFollow' /\ Handshake' /\ TransportFollows'
  BY DEF IInv, OnlyRank0, WorkersFollow, MemoryFollows, CountsFollow, SidesFollow,
     SignalsFollow, Handshake, TransportFollows, HasSignal, Updated, Confirmed,
     PutInferConf, EngineGoes, Put, EngineMemory, OnlyEngines, writerVars, workerVars
<1>2. TypeOK'
  BY DeviceFacts DEF IInv, TypeOK, Key, PutInferConf, EngineGoes, Put, EngineMemory,
     OnlyEngines, writerVars, workerVars
<1> QED
  BY <1>1, <1>2 DEF IInv

\* nor does the metadata.
LEMMA PutInferMetaKeeps ==
  ASSUME IInv, NEW e \in Engine, PutInferMeta(e)
  PROVE  IInv'
<1>1. /\ OnlyRank0' /\ WorkersFollow' /\ MemoryFollows' /\ CountsFollow'
      /\ SidesFollow' /\ SignalsFollow' /\ Handshake' /\ TransportFollows'
  BY DEF IInv, OnlyRank0, WorkersFollow, MemoryFollows, CountsFollow, SidesFollow,
     SignalsFollow, Handshake, TransportFollows, HasSignal, Updated, Confirmed,
     PutInferMeta, EngineGoes, Put, EngineMemory, OnlyEngines, writerVars, workerVars
<1>2. TypeOK'
  BY DeviceFacts DEF IInv, TypeOK, Key, PutInferMeta, EngineGoes, Put, EngineMemory,
     OnlyEngines, writerVars, workerVars
<1> QED
  BY <1>1, <1>2 DEF IInv

\* The workers of an engine start, from rest.
LEMMA GetTrainingMetaKeeps ==
  ASSUME IInv, NEW e \in Engine, GetTrainingMeta(e)
  PROVE  IInv'
<1>1. TypeOK' /\ OnlyRank0' /\ CountsFollow' /\ SidesFollow' /\ SignalsFollow'
  BY DEF IInv, TypeOK, OnlyRank0, CountsFollow, SidesFollow, SignalsFollow, HasSignal,
     GetTrainingMeta, EngineGoes, StartTask, serverVars, EngineMemory, writerVars,
     WorkerMemory
<1>2. WorkersFollow'
  BY DEF IInv, TypeOK, WorkersFollow, GetTrainingMeta, EngineGoes, StartTask, WorkersOf
<1>3. MemoryFollows'
  <2>1. \A q \in Device : rpc'[q] = rpc[q] \/ (rpc[q] = "off" /\ rpc'[q] \in Joining)
    <3>1. \A q \in Device : EngineOf(q) = e => rpc[q] = "off"
      BY DeviceFacts DEF GetTrainingMeta, EngineGoes, IInv, WorkersFollow
    <3>2. \A q \in Device :
            rpc'[q] = IF EngineOf(q) = e THEN (IF q = 0 THEN "put_master" ELSE "wait_master") ELSE rpc[q]
      BY DEF GetTrainingMeta, StartTask, WorkersOf
    <3> QED
      BY <3>1, <3>2
  <2>2. /\ epc[e] = "wait_meta" /\ epc' = [epc EXCEPT ![e] = "init_workers"]
        /\ UNCHANGED <<step, writerVars, EngineMemory, WorkerMemory>>
    BY DEF GetTrainingMeta, EngineGoes
  <2>3. \A f \in Engine : epc'[f] = epc[f] \/ (epc[f] = "wait_meta" /\ epc'[f] = "init_workers")
    BY <2>2 DEF IInv, TypeOK
  <2> QED
    BY <2>1, <2>2, <2>3 DEF IInv, MemoryFollows, writerVars, EngineMemory, WorkerMemory
<1>4. Handshake'
  <2>1. \A q \in Device : rpc'[q] = rpc[q] \/ (rpc[q] = "off" /\ rpc'[q] \in Joining)
    <3>1. \A q \in Device : EngineOf(q) = e => rpc[q] = "off"
      BY DeviceFacts DEF GetTrainingMeta, EngineGoes, IInv, WorkersFollow
    <3>2. \A q \in Device :
            rpc'[q] = IF EngineOf(q) = e THEN (IF q = 0 THEN "put_master" ELSE "wait_master") ELSE rpc[q]
      BY DEF GetTrainingMeta, StartTask, WorkersOf
    <3> QED
      BY <3>1, <3>2
  <2>2. /\ epc[e] = "wait_meta" /\ epc' = [epc EXCEPT ![e] = "init_workers"]
        /\ wpc' = wpc /\ signal' = signal /\ step' = step
    BY DEF GetTrainingMeta, EngineGoes, serverVars, writerVars
  <2>3. \A f \in Engine : epc'[f] \in {"wait_workers"} \cup Serving <=> epc[f] \in {"wait_workers"} \cup Serving
    BY <2>2 DEF IInv, TypeOK
  <2>4. \A q \in Device : (Updated(q)' <=> Updated(q)) /\ (Confirmed(q)' <=> Confirmed(q))
    BY <2>1, <2>3, DeviceFacts DEF Updated, Confirmed
  <2> QED
    BY <2>1, <2>2, <2>4 DEF IInv, Handshake, HasSignal
<1>5. TransportFollows'
  <2>1. \A q \in Device : rpc'[q] = rpc[q] \/ (rpc[q] = "off" /\ rpc'[q] \in Joining)
    <3>1. \A q \in Device : EngineOf(q) = e => rpc[q] = "off"
      BY DeviceFacts DEF GetTrainingMeta, EngineGoes, IInv, WorkersFollow
    <3>2. \A q \in Device :
            rpc'[q] = IF EngineOf(q) = e THEN (IF q = 0 THEN "put_master" ELSE "wait_master") ELSE rpc[q]
      BY DEF GetTrainingMeta, StartTask, WorkersOf
    <3> QED
      BY <3>1, <3>2
  <2>2. /\ epc[e] = "wait_meta" /\ epc' = [epc EXCEPT ![e] = "init_workers"]
        /\ moved' = moved /\ param' = param /\ step' = step
    BY DEF GetTrainingMeta, EngineGoes, WorkerMemory
  <2>3. \A f \in Engine : epc'[f] \in {"wait_workers"} \cup Serving <=> epc[f] \in {"wait_workers"} \cup Serving
    BY <2>2 DEF IInv, TypeOK
  <2>4. \A q \in Device : Updated(q)' <=> Updated(q)
    BY <2>1, <2>3, DeviceFacts DEF Updated
  <2> QED
    BY <2>1, <2>2, <2>4 DEF IInv, TransportFollows
<1> QED
  BY <1>1, <1>2, <1>3, <1>4, <1>5 DEF IInv

\* They are at rest again.
LEMMA WorkersInitializedKeeps ==
  ASSUME IInv, NEW e \in Engine, WorkersInitialized(e)
  PROVE  IInv'
<1>1. /\ TypeOK' /\ OnlyRank0' /\ WorkersFollow' /\ MemoryFollows'
      /\ CountsFollow' /\ SidesFollow' /\ SignalsFollow' /\ Handshake' /\ TransportFollows'
  BY DEF IInv, TypeOK, OnlyRank0, WorkersFollow, MemoryFollows, CountsFollow,
     SidesFollow, SignalsFollow, Handshake, TransportFollows, HasSignal, Updated,
     Confirmed, WorkersInitialized, EngineWaits, WorkersBack, EngineGoes, serverVars,
     EngineMemory, OnlyEngines, WorkersOf, writerVars, workerVars
<1> QED
  BY <1>1 DEF IInv

\* An engine has released its memory before it waits.
LEMMA ReleaseForUpdateKeeps ==
  ASSUME IInv, NEW e \in Engine, ReleaseForUpdate(e)
  PROVE  IInv'
<1>1. /\ TypeOK' /\ OnlyRank0' /\ WorkersFollow' /\ MemoryFollows'
      /\ CountsFollow' /\ SidesFollow' /\ SignalsFollow' /\ Handshake' /\ TransportFollows'
  BY DEF IInv, TypeOK, OnlyRank0, WorkersFollow, MemoryFollows, CountsFollow,
     SidesFollow, SignalsFollow, Handshake, TransportFollows, HasSignal, Updated,
     Confirmed, ReleaseForUpdate, ReleaseMemory, EngineGoes, serverVars, OnlyEngines,
     writerVars, workerVars
<1> QED
  BY <1>1 DEF IInv

\* An engine goes on when every training rank has offloaded its weights.
LEMMA SeeWeightsOffloadedKeeps ==
  ASSUME IInv, NEW e \in Engine, SeeWeightsOffloaded(e)
  PROVE  IInv'
<1>1. /\ TypeOK' /\ OnlyRank0' /\ WorkersFollow' /\ MemoryFollows'
      /\ CountsFollow' /\ SignalsFollow' /\ Handshake' /\ TransportFollows'
  BY DEF IInv, TypeOK, OnlyRank0, WorkersFollow, MemoryFollows, CountsFollow,
     SignalsFollow, Handshake, TransportFollows, HasSignal, Updated, Confirmed,
     SeeWeightsOffloaded, EngineWaits, EngineGoes, serverVars, EngineMemory,
     OnlyEngines, writerVars, workerVars
<1>2. SidesFollow'
  <2>1. store["all_training_offloaded_weights"] = Device
    <3>1. store["all_training_offloaded_weights"] \subseteq Device
      BY DEF IInv, TypeOK, Key
    <3> QED
      BY <3>1, AllCounted DEF SeeWeightsOffloaded, EngineWaits, HasSize
  <2>2. \A q \in Device : wpc[q] \in Sharing \cup Freed \cup Cleaning \cup {"returned"}
    BY <2>1 DEF IInv, CountsFollow
  <2> QED
    BY <2>2 DEF IInv, TypeOK, SidesFollow, SeeWeightsOffloaded, EngineWaits, HasSize,
       EngineGoes, serverVars, EngineMemory, OnlyEngines, writerVars, workerVars
<1> QED
  BY <1>1, <1>2 DEF IInv

\* The inference weights are resident only then.
LEMMA ResumeWeightsKeeps ==
  ASSUME IInv, NEW e \in Engine, ResumeWeights(e)
  PROVE  IInv'
<1>1. /\ TypeOK' /\ OnlyRank0' /\ WorkersFollow' /\ CountsFollow'
      /\ SidesFollow' /\ SignalsFollow' /\ Handshake' /\ TransportFollows'
  BY DEF IInv, TypeOK, OnlyRank0, WorkersFollow, CountsFollow, SidesFollow,
     SignalsFollow, Handshake, TransportFollows, HasSignal, Updated, Confirmed,
     ResumeWeights, EngineGoes, serverVars, OnlyEngines, writerVars, workerVars
<1>2. MemoryFollows'
  BY DEF IInv, TypeOK, MemoryFollows, ResumeWeights, EngineGoes, OnlyEngines,
     writerVars, workerVars
<1> QED
  BY <1>1, <1>2 DEF IInv

\* The workers start an update, from rest.
LEMMA StartUpdateKeeps ==
  ASSUME IInv, NEW e \in Engine, StartUpdate(e)
  PROVE  IInv'
<1>1. TypeOK' /\ OnlyRank0' /\ CountsFollow' /\ SidesFollow' /\ SignalsFollow'
  BY DEF IInv, TypeOK, OnlyRank0, CountsFollow, SidesFollow, SignalsFollow, HasSignal,
     StartUpdate, EngineGoes, StartTask, serverVars, EngineMemory, writerVars,
     WorkerMemory
<1>2. WorkersFollow'
  BY DEF IInv, TypeOK, WorkersFollow, StartUpdate, EngineGoes, StartTask, WorkersOf
<1>3. MemoryFollows'
  BY DEF IInv, WorkersFollow, MemoryFollows, CountsFollow, SignalName, Key,
     StartUpdate, EngineGoes, StartTask, EngineMemory, writerVars, WorkerMemory,
     WorkersOf
<1>4. Handshake'
  BY DEF IInv, WorkersFollow, Handshake, HasSignal, Updated, Confirmed, StartUpdate,
     EngineGoes, StartTask, serverVars, writerVars, WorkersOf
<1>5. TransportFollows'
  BY DEF IInv, WorkersFollow, TransportFollows, Updated, StartUpdate, EngineGoes,
     StartTask, WorkerMemory, WorkersOf
<1> QED
  BY <1>1, <1>2, <1>3, <1>4, <1>5 DEF IInv

\* When the workers of an engine are back, all signals to them have been taken.
LEMMA WorkersUpdatedKeeps ==
  ASSUME IInv, NEW e \in Engine, WorkersUpdated(e)
  PROVE  IInv'
<1>1. /\ TypeOK' /\ OnlyRank0' /\ WorkersFollow' /\ MemoryFollows'
      /\ CountsFollow' /\ SidesFollow' /\ Handshake' /\ TransportFollows'
  BY DEF IInv, TypeOK, OnlyRank0, WorkersFollow, MemoryFollows, CountsFollow,
     SidesFollow, Handshake, TransportFollows, HasSignal, Updated, Confirmed,
     WorkersUpdated, EngineWaits, WorkersBack, EngineGoes, serverVars, EngineMemory,
     OnlyEngines, WorkersOf, writerVars, workerVars
<1>2. SignalsFollow'
  <2>1. /\ epc[e] = "wait_workers" /\ epc' = [epc EXCEPT ![e] = "add_finished"]
        /\ wpc' = wpc /\ rpc' = rpc /\ signal' = signal /\ step' = step
    BY DEF WorkersUpdated, EngineWaits, EngineGoes, serverVars, OnlyEngines,
       writerVars, workerVars
  <2>2. ASSUME NEW q \in Device, HasSignal("write_finished", q), EngineOf(q) = e
        PROVE  FALSE
    BY <2>2 DEF IInv, Handshake, WorkersUpdated, EngineWaits, WorkersBack, WorkersOf
  <2> QED
    BY <2>1, <2>2, DeviceFacts DEF IInv, TypeOK, SignalsFollow, HasSignal
<1> QED
  BY <1>1, <1>2 DEF IInv

\* An engine counts itself after the update of its workers,
LEMMA AddFinishedKeeps ==
  ASSUME IInv, NEW e \in Engine, AddFinished(e)
  PROVE  IInv'
<1>1. /\ OnlyRank0' /\ WorkersFollow' /\ MemoryFollows' /\ SidesFollow'
      /\ SignalsFollow' /\ Handshake' /\ TransportFollows'
  BY DEF IInv, OnlyRank0, WorkersFollow, MemoryFollows, SidesFollow, SignalsFollow,
     Handshake, TransportFollows, HasSignal, Updated, Confirmed, AddFinished,
     EngineGoes, Add, EngineMemory, OnlyEngines, writerVars, workerVars
<1>2. TypeOK'
  BY DeviceFacts DEF IInv, TypeOK, Key, AddFinished, EngineGoes, Add, EngineMemory,
     OnlyEngines, writerVars, workerVars
<1>3. CountsFollow'
  BY DeviceFacts DEF IInv, TypeOK, CountsFollow, SidesFollow, AddFinished, EngineGoes,
     Add, OnlyEngines, writerVars
<1> QED
  BY <1>1, <1>2, <1>3 DEF IInv

\* and has its cache when all buffers are gone.
LEMMA ResumeKvCacheKeeps ==
  ASSUME IInv, NEW e \in Engine, ResumeKvCache(e)
  PROVE  IInv'
<1>1. /\ TypeOK' /\ OnlyRank0' /\ WorkersFollow' /\ CountsFollow'
      /\ SidesFollow' /\ SignalsFollow' /\ Handshake' /\ TransportFollows'
  BY DEF IInv, TypeOK, OnlyRank0, WorkersFollow, CountsFollow, SidesFollow,
     SignalsFollow, Handshake, TransportFollows, HasSignal, Updated, Confirmed,
     ResumeKvCache, EngineGoes, serverVars, OnlyEngines, writerVars, workerVars
<1>2. MemoryFollows'
  BY DEF IInv, TypeOK, MemoryFollows, ResumeKvCache, EngineGoes, OnlyEngines,
     writerVars, workerVars
<1> QED
  BY <1>1, <1>2 DEF IInv

-----------------------------------------------------------------------------
\* The workers.

\* The initialization of the workers touches no memory:
LEMMA PutMasterKeeps ==
  ASSUME IInv, PutMaster
  PROVE  IInv'
<1>1. /\ OnlyRank0' /\ WorkersFollow' /\ MemoryFollows' /\ CountsFollow'
      /\ SidesFollow' /\ SignalsFollow' /\ Handshake' /\ TransportFollows'
  BY DEF IInv, OnlyRank0, WorkersFollow, MemoryFollows, CountsFollow, SidesFollow,
     SignalsFollow, Handshake, TransportFollows, HasSignal, Updated, Confirmed,
     PutMaster, WorkerGoes, Put, WorkerMemory, OnlyWorkers, writerVars, engineVars
<1>2. TypeOK'
  BY DeviceFacts DEF IInv, TypeOK, Key, PutMaster, WorkerGoes, Put, WorkerMemory,
     OnlyWorkers, writerVars, engineVars
<1> QED
  BY <1>1, <1>2 DEF IInv

\* they read the address of the group,
LEMMA GetMasterKeeps ==
  ASSUME IInv, NEW d \in Device, GetMaster(d)
  PROVE  IInv'
<1>1. /\ TypeOK' /\ OnlyRank0' /\ WorkersFollow' /\ MemoryFollows'
      /\ CountsFollow' /\ SidesFollow' /\ SignalsFollow' /\ Handshake' /\ TransportFollows'
  BY DEF IInv, TypeOK, OnlyRank0, WorkersFollow, MemoryFollows, CountsFollow,
     SidesFollow, SignalsFollow, Handshake, TransportFollows, NoVersion, HasSignal,
     Updated, Confirmed, GetMaster, WorkerWaits, WorkerGoes, serverVars, WorkerMemory,
     OnlyWorkers, writerVars, engineVars
<1> QED
  BY <1>1 DEF IInv

\* announce their devices,
LEMMA AddInferDeviceKeeps ==
  ASSUME IInv, NEW d \in Device, AddInferDevice(d)
  PROVE  IInv'
<1>1. /\ TypeOK' /\ OnlyRank0' /\ WorkersFollow' /\ MemoryFollows'
      /\ CountsFollow' /\ SidesFollow' /\ SignalsFollow' /\ Handshake' /\ TransportFollows'
  BY DEF IInv, TypeOK, OnlyRank0, WorkersFollow, MemoryFollows, CountsFollow,
     SidesFollow, SignalsFollow, Handshake, TransportFollows, Key, HasSignal, Updated,
     Confirmed, AddInferDevice, WorkerGoes, Add, WorkerMemory, OnlyWorkers, writerVars,
     engineVars
<1> QED
  BY <1>1 DEF IInv

\* wait for those of the other workers
LEMMA SeeInferDevicesKeeps ==
  ASSUME IInv, NEW d \in Device, SeeInferDevices(d)
  PROVE  IInv'
<1>1. /\ TypeOK' /\ OnlyRank0' /\ WorkersFollow' /\ MemoryFollows'
      /\ CountsFollow' /\ SidesFollow' /\ SignalsFollow' /\ Handshake' /\ TransportFollows'
  BY DEF IInv, TypeOK, OnlyRank0, WorkersFollow, MemoryFollows, CountsFollow,
     SidesFollow, SignalsFollow, Handshake, TransportFollows, HasSignal, Updated,
     Confirmed, SeeInferDevices, WorkerWaits, WorkerGoes, serverVars, WorkerMemory,
     OnlyWorkers, writerVars, engineVars
<1> QED
  BY <1>1 DEF IInv

\* and for those of the training ranks.
LEMMA SeeTrainDevicesKeeps ==
  ASSUME IInv, NEW d \in Device, SeeTrainDevices(d)
  PROVE  IInv'
<1>1. /\ TypeOK' /\ OnlyRank0' /\ WorkersFollow' /\ MemoryFollows'
      /\ CountsFollow' /\ SidesFollow'
  BY DEF IInv, TypeOK, OnlyRank0, WorkersFollow, MemoryFollows, CountsFollow,
     SidesFollow, SeeTrainDevices, WorkerWaits, WorkerGoes, serverVars, WorkerMemory,
     OnlyWorkers, writerVars, engineVars
<1>2. SignalsFollow'
  BY DEF IInv, WorkersFollow, SignalsFollow, HasSignal, SeeTrainDevices, WorkerWaits,
     serverVars, OnlyWorkers, writerVars, engineVars
<1>3. Handshake'
  BY DEF IInv, WorkersFollow, Handshake, HasSignal, Updated, Confirmed,
     SeeTrainDevices, WorkerWaits, WorkerGoes, serverVars, OnlyWorkers, writerVars,
     engineVars
<1>4. TransportFollows'
  BY DEF IInv, WorkersFollow, TransportFollows, SignalName, Updated, SeeTrainDevices,
     WorkerWaits, WorkerGoes, WorkerMemory, OnlyWorkers, engineVars
<1> QED
  BY <1>1, <1>2, <1>3, <1>4 DEF IInv

\* A worker opens the buffer of its device while it is there.
LEMMA CollectWeightsKeeps ==
  ASSUME IInv, NEW d \in Device, CollectWeights(d)
  PROVE  IInv'
<1>1. /\ TypeOK' /\ OnlyRank0' /\ WorkersFollow' /\ CountsFollow'
      /\ SidesFollow' /\ SignalsFollow' /\ TransportFollows'
  BY DEF IInv, TypeOK, OnlyRank0, WorkersFollow, CountsFollow, SidesFollow,
     SignalsFollow, TransportFollows, HasSignal, Updated, CollectWeights, WorkerGoes,
     serverVars, OnlyWorkers, writerVars, engineVars
<1>2. MemoryFollows'
  BY DEF IInv, TypeOK, MemoryFollows, CollectWeights, WorkerGoes, OnlyWorkers,
     writerVars, engineVars
<1>3. Handshake'
  BY DEF IInv, SignalsFollow, Handshake, HasSignal, Updated, Confirmed, CollectWeights,
     WorkerGoes, serverVars, OnlyWorkers, writerVars, engineVars
<1> QED
  BY <1>1, <1>2, <1>3 DEF IInv

\* A worker leaves the transport when all its transfers are over.
LEMMA TransportDoneKeeps ==
  ASSUME IInv, NEW d \in Device, TransportDone(d)
  PROVE  IInv'
<1>1. TypeOK'
  BY DEF IInv, TypeOK, TransportDone, WorkerWaits, WorkerGoes, serverVars,
     WorkerMemory, OnlyWorkers, writerVars, engineVars
<1>2. OnlyRank0'
  BY DEF IInv, OnlyRank0, TransportDone, WorkerWaits, OnlyWorkers, writerVars
<1>3. WorkersFollow'
  BY DEF IInv, WorkersFollow, TransportDone, WorkerWaits, WorkerGoes, OnlyWorkers,
     engineVars
<1>4. MemoryFollows'
  BY DEF IInv, MemoryFollows, TransportDone, WorkerWaits, WorkerGoes, WorkerMemory,
     OnlyWorkers, writerVars, engineVars
<1>5. CountsFollow'
  BY DEF IInv, CountsFollow, TransportDone, WorkerWaits, serverVars, OnlyWorkers,
     writerVars, engineVars
<1>6. SidesFollow'
  BY DEF IInv, SidesFollow, TransportDone, WorkerWaits, OnlyWorkers, writerVars,
     engineVars
<1>7. SignalsFollow'
  BY DEF IInv, SignalsFollow, HasSignal, TransportDone, WorkerWaits, WorkerGoes,
     serverVars, OnlyWorkers, writerVars, engineVars
<1>8. Handshake'
  BY DEF IInv, Handshake, HasSignal, Updated, Confirmed, TransportDone, WorkerWaits,
     WorkerGoes, serverVars, OnlyWorkers, writerVars, engineVars
<1>9. TransportFollows'
  BY DEF IInv, TransportFollows, Updated, TransportDone, WorkerWaits, WorkerGoes,
     WorkerMemory, OnlyWorkers, engineVars
<1> QED
  BY <1>1, <1>2, <1>3, <1>4, <1>5, <1>6, <1>7, <1>8, <1>9 DEF IInv

\* It closes the buffer,
LEMMA CloseBufferKeeps ==
  ASSUME IInv, NEW d \in Device, CloseBuffer(d)
  PROVE  IInv'
<1>1. /\ TypeOK' /\ OnlyRank0' /\ WorkersFollow' /\ CountsFollow'
      /\ SidesFollow' /\ SignalsFollow' /\ Handshake' /\ TransportFollows'
  BY DEF IInv, TypeOK, OnlyRank0, WorkersFollow, CountsFollow, SidesFollow,
     SignalsFollow, Handshake, TransportFollows, HasSignal, Updated, Confirmed,
     CloseBuffer, WorkerGoes, serverVars, OnlyWorkers, writerVars, engineVars
<1>2. MemoryFollows'
  BY DEF IInv, TypeOK, MemoryFollows, CloseBuffer, WorkerGoes, OnlyWorkers, writerVars,
     engineVars
<1> QED
  BY <1>1, <1>2 DEF IInv

\* and only then signals that it may be freed.
LEMMA PutUpdateFinishedKeeps ==
  ASSUME IInv, NEW d \in Device, PutUpdateFinished(d)
  PROVE  IInv'
<1>1. /\ TypeOK' /\ OnlyRank0' /\ WorkersFollow' /\ MemoryFollows'
      /\ CountsFollow' /\ SidesFollow' /\ TransportFollows'
  BY DEF IInv, TypeOK, OnlyRank0, WorkersFollow, MemoryFollows, CountsFollow,
     SidesFollow, TransportFollows, SignalName, Updated, PutUpdateFinished, WorkerGoes,
     PutSignal, WorkerMemory, OnlyWorkers, writerVars, engineVars
<1>2. SignalsFollow'
  BY DEF IInv, TypeOK, SignalsFollow, Handshake, TransportFollows, Key, HasSignal,
     Updated, PutUpdateFinished, WorkerGoes, PutSignal, OnlyWorkers, writerVars
<1>3. Handshake'
  BY DEF IInv, TypeOK, Handshake, HasSignal, Updated, Confirmed, PutUpdateFinished,
     WorkerGoes, PutSignal, OnlyWorkers, writerVars, engineVars
<1> QED
  BY <1>1, <1>2, <1>3 DEF IInv

\* A worker goes on when the buffer of its device is gone.
LEMMA SeeWriteFinishedKeeps ==
  ASSUME IInv, NEW d \in Device, SeeWriteFinished(d)
  PROVE  IInv'
<1>1. /\ TypeOK' /\ OnlyRank0' /\ WorkersFollow' /\ MemoryFollows'
      /\ CountsFollow' /\ SidesFollow' /\ SignalsFollow' /\ TransportFollows'
  BY DEF IInv, TypeOK, OnlyRank0, WorkersFollow, MemoryFollows, CountsFollow,
     SidesFollow, SignalsFollow, TransportFollows, SignalName, HasSignal, Updated,
     SeeWriteFinished, WorkerWaits, WorkerGoes, serverVars, WorkerMemory, OnlyWorkers,
     writerVars, engineVars
<1>2. Handshake'
  <2>1. HasSignal("write_finished", d) /\ rpc[d] = "wait_written" /\ rpc' = [rpc EXCEPT ![d] = "delete_written"]
    BY DEF SeeWriteFinished, WorkerWaits, WorkerGoes
  <2>2. wpc' = wpc /\ epc' = epc /\ signal' = signal /\ step' = step
    BY DEF SeeWriteFinished, WorkerWaits, serverVars, OnlyWorkers, writerVars, engineVars
  <2>3. \A q \in Device : (Updated(q)' <=> Updated(q)) /\ (Confirmed(q)' <=> (Confirmed(q) \/ q = d))
    BY <2>1, <2>2 DEF IInv, TypeOK, Updated, Confirmed
  <2>4. wpc[d] \in {"wait_engines", "finished"} \cup Cleaning \cup AtRest
    BY <2>1 DEF IInv, SignalsFollow
  <2> QED
    BY <2>1, <2>2, <2>3, <2>4 DEF IInv, TypeOK, Handshake, HasSignal
<1> QED
  BY <1>1, <1>2 DEF IInv

\* The signal of the training rank is taken.
LEMMA DeleteWriteFinishedKeeps ==
  ASSUME IInv, NEW d \in Device, DeleteWriteFinished(d)
  PROVE  IInv'
<1>1. /\ TypeOK' /\ OnlyRank0' /\ WorkersFollow' /\ MemoryFollows'
      /\ CountsFollow' /\ SidesFollow' /\ SignalsFollow'
  BY DEF IInv, TypeOK, OnlyRank0, WorkersFollow, MemoryFollows, CountsFollow,
     SidesFollow, SignalsFollow, NoVersion, Key, HasSignal, DeleteWriteFinished,
     WorkerGoes, DeleteSignal, WorkerMemory, OnlyWorkers, writerVars, engineVars
<1>2. Handshake'
  <2>1. rpc[d] = "delete_written" /\ rpc' = [rpc EXCEPT ![d] = "ready"]
    BY DEF DeleteWriteFinished, WorkerGoes
  <2>2. /\ wpc' = wpc /\ epc' = epc /\ step' = step
        /\ signal' = signal \ {<<"write_finished", d, step>>}
    BY DEF DeleteWriteFinished, DeleteSignal, OnlyWorkers, writerVars, engineVars
  <2>3. epc[EngineOf(d)] = "wait_workers"
    BY <2>1, DeviceFacts DEF IInv, TypeOK, WorkersFollow
  <2>4. \A q \in Device : (Updated(q)' <=> Updated(q)) /\ (Confirmed(q)' <=> Confirmed(q))
    BY <2>1, <2>2, <2>3 DEF IInv, TypeOK, Updated, Confirmed
  <2>5. \A q \in Device : HasSignal("weights_update_finished", q)' <=> HasSignal("weights_update_finished", q)
    BY <2>2 DEF HasSignal
  <2>6. \A q \in Device : HasSignal("write_finished", q)' <=> (HasSignal("write_finished", q) /\ q # d)
    BY <2>2 DEF HasSignal
  <2> QED
    BY <2>1, <2>2, <2>4, <2>5, <2>6 DEF IInv, TypeOK, Handshake
<1>3. TransportFollows'
  <2>1. rpc[d] = "delete_written" /\ rpc' = [rpc EXCEPT ![d] = "ready"]
    BY DEF DeleteWriteFinished, WorkerGoes
  <2>2. epc' = epc /\ step' = step /\ moved' = moved /\ param' = param
    BY DEF DeleteWriteFinished, WorkerMemory, OnlyWorkers, engineVars
  <2>3. epc[EngineOf(d)] = "wait_workers"
    BY <2>1, DeviceFacts DEF IInv, TypeOK, WorkersFollow
  <2>4. \A q \in Device : Updated(q)' <=> Updated(q)
    BY <2>1, <2>2, <2>3 DEF IInv, TypeOK, Updated
  <2> QED
    BY <2>1, <2>2, <2>4 DEF IInv, TypeOK, TransportFollows
<1> QED
  BY <1>1, <1>2, <1>3 DEF IInv

-----------------------------------------------------------------------------
\* The collectives, the transfers, the driver.

\* The training ranks leave the release together.
LEMMA ReleaseBarrierKeeps ==
  ASSUME IInv, ReleaseBarrier
  PROVE  IInv'
<1>1. TypeOK'
  BY DEF IInv, TypeOK, ReleaseBarrier, AfterRelease, serverVars, WriterMemory,
     OnlyWriters, engineVars, workerVars
<1>2. OnlyRank0'
  BY DEF IInv, OnlyRank0, ReleaseBarrier, AfterRelease
<1>3. WorkersFollow'
  BY DEF IInv, WorkersFollow, ReleaseBarrier, OnlyWriters, engineVars, workerVars
<1>4. MemoryFollows'
  BY DEF IInv, MemoryFollows, ReleaseBarrier, AfterRelease, WriterMemory, OnlyWriters,
     engineVars, workerVars
<1>5. CountsFollow'
  BY DeviceFacts DEF IInv, CountsFollow, ReleaseBarrier, serverVars, OnlyWriters,
     engineVars
<1>6. SidesFollow'
  BY DEF IInv, SidesFollow, ReleaseBarrier, AfterRelease, OnlyWriters, engineVars
<1>7. SignalsFollow'
  BY DEF IInv, SignalsFollow, HasSignal, ReleaseBarrier, serverVars, OnlyWriters
<1>8. Handshake'
  BY DEF IInv, Handshake, HasSignal, Updated, Confirmed, ReleaseBarrier, AfterRelease,
     serverVars, OnlyWriters, engineVars, workerVars
<1>9. TransportFollows'
  BY DEF IInv, TransportFollows, Updated, ReleaseBarrier, OnlyWriters, engineVars,
     workerVars
<1> QED
  BY <1>1, <1>2, <1>3, <1>4, <1>5, <1>6, <1>7, <1>8, <1>9 DEF IInv

\* They describe their parameters together,
LEMMA GatherMetaKeeps ==
  ASSUME IInv, GatherMeta
  PROVE  IInv'
<1>1. TypeOK'
  BY DEF IInv, TypeOK, GatherMeta, serverVars, WriterMemory, OnlyWriters, engineVars,
     workerVars
<1>2. OnlyRank0'
  BY DEF IInv, OnlyRank0, GatherMeta
<1>3. WorkersFollow'
  BY DEF IInv, WorkersFollow, GatherMeta, OnlyWriters, engineVars, workerVars
<1>4. MemoryFollows'
  BY DEF IInv, MemoryFollows, GatherMeta, WriterMemory, OnlyWriters, engineVars,
     workerVars
<1>5. CountsFollow'
  <2>1. /\ \A q \in Device : wpc[q] = "gather"
        /\ wpc' = [q \in Device |-> IF q = 0 THEN "put_meta" ELSE "broadcast"]
        /\ store' = store /\ epc' = epc
    BY DEF GatherMeta, serverVars, OnlyWriters, engineVars
  <2>2. store["all_training_offloaded_weights"] = {}
    BY <2>1 DEF IInv, TypeOK, Key, CountsFollow
  <2> QED
    BY <2>1, <2>2, DeviceFacts DEF IInv, CountsFollow
<1>6. SidesFollow'
  BY DEF IInv, SidesFollow, GatherMeta, OnlyWriters, engineVars
<1>7. SignalsFollow'
  BY DEF IInv, SignalsFollow, HasSignal, GatherMeta, serverVars, OnlyWriters
<1>8. Handshake'
  BY DEF IInv, Handshake, HasSignal, Updated, Confirmed, GatherMeta, serverVars,
     OnlyWriters, engineVars, workerVars
<1>9. TransportFollows'
  BY DEF IInv, TransportFollows, Updated, GatherMeta, OnlyWriters, engineVars,
     workerVars
<1> QED
  BY <1>1, <1>2, <1>3, <1>4, <1>5, <1>6, <1>7, <1>8, <1>9 DEF IInv

\* and learn those of the engines together.
LEMMA BroadcastMetaKeeps ==
  ASSUME IInv, BroadcastMeta
  PROVE  IInv'
<1>1. TypeOK'
  BY DEF IInv, TypeOK, BroadcastMeta, serverVars, WriterMemory, OnlyWriters,
     engineVars, workerVars
<1>2. OnlyRank0'
  BY DEF IInv, OnlyRank0, BroadcastMeta
<1>3. WorkersFollow'
  BY DEF IInv, WorkersFollow, BroadcastMeta, OnlyWriters, engineVars, workerVars
<1>4. MemoryFollows'
  BY DEF IInv, MemoryFollows, BroadcastMeta, WriterMemory, OnlyWriters, engineVars,
     workerVars
<1>5. CountsFollow'
  <2>1. /\ \A q \in Device : wpc[q] = "broadcast"
        /\ wpc' = [q \in Device |-> "init_colocate"]
        /\ store' = store /\ epc' = epc
    BY DEF BroadcastMeta, serverVars, OnlyWriters, engineVars
  <2>2. store["all_training_offloaded_weights"] = {}
    BY <2>1 DEF IInv, TypeOK, Key, CountsFollow
  <2> QED
    BY <2>1, <2>2, DeviceFacts DEF IInv, CountsFollow
<1>6. SidesFollow'
  BY DEF IInv, SidesFollow, BroadcastMeta, OnlyWriters, engineVars
<1>7. SignalsFollow'
  BY DEF IInv, SignalsFollow, HasSignal, BroadcastMeta, serverVars, OnlyWriters
<1>8. Handshake'
  BY DEF IInv, Handshake, HasSignal, Updated, Confirmed, BroadcastMeta, serverVars,
     OnlyWriters, engineVars, workerVars
<1>9. TransportFollows'
  BY DEF IInv, TransportFollows, Updated, BroadcastMeta, OnlyWriters, engineVars,
     workerVars
<1> QED
  BY <1>1, <1>2, <1>3, <1>4, <1>5, <1>6, <1>7, <1>8, <1>9 DEF IInv

\* They leave the exchange together.
LEMMA FinishBarrierKeeps ==
  ASSUME IInv, FinishBarrier
  PROVE  IInv'
<1>1. TypeOK'
  BY DEF IInv, TypeOK, FinishBarrier, serverVars, WriterMemory, OnlyWriters,
     engineVars, workerVars
<1>2. OnlyRank0'
  BY DEF IInv, OnlyRank0, FinishBarrier
<1>3. WorkersFollow'
  BY DEF IInv, WorkersFollow, FinishBarrier, OnlyWriters, engineVars, workerVars
<1>4. MemoryFollows'
  BY DEF IInv, MemoryFollows, FinishBarrier, WriterMemory, OnlyWriters, engineVars,
     workerVars
<1>5. CountsFollow'
  BY DeviceFacts DEF IInv, TypeOK, CountsFollow, Key, FinishBarrier, serverVars,
     OnlyWriters, engineVars
<1>6. SidesFollow'
  BY DEF IInv, SidesFollow, FinishBarrier, OnlyWriters, engineVars
<1>7. SignalsFollow'
  <2>1. /\ \A q \in Device : wpc[q] = "finished" /\ wpc'[q] \in {"delete_finished", "release_all"}
        /\ epc' = epc /\ rpc' = rpc /\ signal' = signal /\ step' = step
    BY DEF FinishBarrier, serverVars, OnlyWriters, engineVars, workerVars
  <2>2. \A q \in Device : ~ HasSignal("weights_update_finished", q)
    BY <2>1 DEF IInv, SignalsFollow
  <2> QED
    BY <2>1, <2>2 DEF IInv, SignalsFollow, HasSignal
<1>8. Handshake'
  <2>1. /\ \A q \in Device : wpc[q] = "finished" /\ wpc'[q] \in Cleaning
        /\ epc' = epc /\ rpc' = rpc /\ signal' = signal /\ step' = step
    BY DEF FinishBarrier, serverVars, OnlyWriters, engineVars, workerVars
  <2>2. \A q \in Device : (Updated(q)' <=> Updated(q)) /\ (Confirmed(q)' <=> Confirmed(q))
    BY <2>1 DEF Updated, Confirmed
  <2> QED
    BY <2>1, <2>2 DEF IInv, Handshake, HasSignal
<1>9. TransportFollows'
  BY DEF IInv, TransportFollows, Updated, FinishBarrier, OnlyWriters, engineVars,
     workerVars
<1> QED
  BY <1>1, <1>2, <1>3, <1>4, <1>5, <1>6, <1>7, <1>8, <1>9 DEF IInv

\* The workers join the group together.
LEMMA JoinGroupKeeps ==
  ASSUME IInv, JoinGroup
  PROVE  IInv'
<1>1. TypeOK'
  BY DEF IInv, TypeOK, JoinGroup, serverVars, WorkerMemory, OnlyWorkers, writerVars,
     engineVars
<1>2. OnlyRank0'
  BY DEF IInv, OnlyRank0, JoinGroup, OnlyWorkers, writerVars
<1>3. WorkersFollow'
  BY DEF IInv, WorkersFollow, JoinGroup, OnlyWorkers, engineVars
<1>4. MemoryFollows'
  BY DEF IInv, MemoryFollows, JoinGroup, WorkerMemory, OnlyWorkers, writerVars,
     engineVars
<1>5. CountsFollow'
  BY DEF IInv, CountsFollow, JoinGroup, serverVars, OnlyWorkers, writerVars, engineVars
<1>6. SidesFollow'
  BY DEF IInv, SidesFollow, JoinGroup, OnlyWorkers, writerVars, engineVars
<1>7. SignalsFollow'
  BY DEF IInv, SignalsFollow, HasSignal, JoinGroup, serverVars, OnlyWorkers, writerVars
<1>8. Handshake'
  BY DEF IInv, Handshake, HasSignal, Updated, Confirmed, JoinGroup, serverVars,
     OnlyWorkers, writerVars
<1>9. TransportFollows'
  BY DEF IInv, TransportFollows, Updated, JoinGroup, WorkerMemory
<1> QED
  BY <1>1, <1>2, <1>3, <1>4, <1>5, <1>6, <1>7, <1>8, <1>9 DEF IInv

\* The first and the last worker exchange a tensor.
LEMMA ShakeHandsKeeps ==
  ASSUME IInv, ShakeHands
  PROVE  IInv'
<1>1. OnlyRank0' /\ CountsFollow' /\ SidesFollow'
  BY DEF IInv, OnlyRank0, CountsFollow, SidesFollow, ShakeHands, serverVars,
     OnlyWorkers, writerVars, engineVars
<1>2. TypeOK'
  <2>1. \A q \in Device : rpc'[q] = IF q \in {0, LastDevice} THEN "warm_up" ELSE rpc[q]
    BY DEF ShakeHands, IInv, TypeOK
  <2>2. rpc' \in [Device -> WorkerPlace]
    BY <2>1 DEF ShakeHands, IInv, TypeOK
  <2> QED
    BY <2>2 DEF IInv, TypeOK, ShakeHands, serverVars, WorkerMemory, OnlyWorkers,
       writerVars, engineVars
<1>3. WorkersFollow'
  <2>1. \A q \in Device : rpc'[q] = rpc[q] \/ (rpc[q] = "shake" /\ rpc'[q] = "warm_up")
    <3>1. \A q \in Device : rpc'[q] = IF q \in {0, LastDevice} THEN "warm_up" ELSE rpc[q]
      BY DEF ShakeHands, IInv, TypeOK
    <3>2. rpc[0] = "shake" /\ rpc[LastDevice] = "shake"
      BY DEF ShakeHands
    <3> QED
      BY <3>1, <3>2
  <2>2. epc' = epc
    BY DEF ShakeHands, OnlyWorkers, engineVars
  <2> QED
    BY <2>1, <2>2 DEF IInv, WorkersFollow
<1>4. MemoryFollows'
  BY DEF IInv, TypeOK, WorkersFollow, MemoryFollows, CountsFollow, SignalName, Key,
     ShakeHands, WorkerMemory, OnlyWorkers, writerVars, engineVars
<1>5. SignalsFollow'
  BY DEF IInv, TypeOK, SignalsFollow, HasSignal, ShakeHands, serverVars, OnlyWorkers,
     writerVars, engineVars
<1>6. Handshake'
  BY DEF IInv, TypeOK, WorkersFollow, Handshake, HasSignal, Updated, Confirmed,
     ShakeHands, serverVars, OnlyWorkers, writerVars, engineVars
<1>7. TransportFollows'
  <2>1. \A q \in Device : rpc'[q] = rpc[q] \/ (rpc[q] = "shake" /\ rpc'[q] = "warm_up")
    <3>1. \A q \in Device : rpc'[q] = IF q \in {0, LastDevice} THEN "warm_up" ELSE rpc[q]
      BY DEF ShakeHands, IInv, TypeOK
    <3>2. rpc[0] = "shake" /\ rpc[LastDevice] = "shake"
      BY DEF ShakeHands
    <3> QED
      BY <3>1, <3>2
  <2>2. epc' = epc /\ step' = step /\ moved' = moved /\ param' = param
    BY DEF ShakeHands, WorkerMemory, OnlyWorkers, engineVars
  <2>3. \A q \in Device : Updated(q)' <=> Updated(q)
    BY <2>1, <2>2 DEF Updated
  <2> QED
    BY <2>1, <2>2, <2>3 DEF IInv, TransportFollows
<1> QED
  BY <1>1, <1>2, <1>3, <1>4, <1>5, <1>6, <1>7 DEF IInv

\* The workers warm up together.
LEMMA WarmUpKeeps ==
  ASSUME IInv, WarmUp
  PROVE  IInv'
<1>1. TypeOK'
  BY DEF IInv, TypeOK, WarmUp, serverVars, WorkerMemory, OnlyWorkers, writerVars,
     engineVars
<1>2. OnlyRank0'
  BY DEF IInv, OnlyRank0, WarmUp, OnlyWorkers, writerVars
<1>3. WorkersFollow'
  BY DEF IInv, WorkersFollow, WarmUp, OnlyWorkers, engineVars
<1>4. MemoryFollows'
  BY DEF IInv, MemoryFollows, WarmUp, WorkerMemory, OnlyWorkers, writerVars, engineVars
<1>5. CountsFollow'
  BY DEF IInv, CountsFollow, WarmUp, serverVars, OnlyWorkers, writerVars, engineVars
<1>6. SidesFollow'
  BY DEF IInv, SidesFollow, WarmUp, OnlyWorkers, writerVars, engineVars
<1>7. SignalsFollow'
  BY DEF IInv, SignalsFollow, HasSignal, WarmUp, serverVars, OnlyWorkers, writerVars
<1>8. Handshake'
  BY DEF IInv, Handshake, HasSignal, Updated, Confirmed, WarmUp, serverVars,
     OnlyWorkers, writerVars
<1>9. TransportFollows'
  BY DEF IInv, TransportFollows, Updated, WarmUp, WorkerMemory
<1> QED
  BY <1>1, <1>2, <1>3, <1>4, <1>5, <1>6, <1>7, <1>8, <1>9 DEF IInv

\* The workers leave the transport together, each with the weights of the step.
LEMMA UpdateBarrierKeeps ==
  ASSUME IInv, UpdateBarrier
  PROVE  IInv'
<1>1. TypeOK'
  BY DEF IInv, TypeOK, UpdateBarrier, serverVars, OnlyWorkers, writerVars, engineVars
<1>2. OnlyRank0'
  BY DEF IInv, OnlyRank0, UpdateBarrier, OnlyWorkers, writerVars
<1>3. WorkersFollow'
  BY DEF IInv, WorkersFollow, UpdateBarrier, OnlyWorkers, engineVars
<1>4. MemoryFollows'
  BY DEF IInv, MemoryFollows, UpdateBarrier, OnlyWorkers, writerVars, engineVars
<1>5. CountsFollow'
  BY DEF IInv, CountsFollow, UpdateBarrier, serverVars, OnlyWorkers, writerVars,
     engineVars
<1>6. SidesFollow'
  BY DEF IInv, SidesFollow, UpdateBarrier, OnlyWorkers, writerVars, engineVars
<1>7. SignalsFollow'
  BY DEF IInv, SignalsFollow, HasSignal, UpdateBarrier, serverVars, OnlyWorkers,
     writerVars
<1>8. Handshake'
  <2>1. /\ \A q \in Device : rpc[q] = "barrier" /\ rpc'[q] = "wait_written"
        /\ wpc' = wpc /\ epc' = epc /\ signal' = signal /\ step' = step
    BY DEF UpdateBarrier, serverVars, OnlyWorkers, writerVars, engineVars
  <2>2. \A q \in Device : Updated(q)' /\ ~ Confirmed(q)'
    BY <2>1 DEF Updated, Confirmed
  <2> QED
    BY <2>1, <2>2 DEF IInv, Handshake, HasSignal
<1>9. TransportFollows'
  <2>1. /\ \A q \in Device : rpc[q] = "barrier" /\ rpc'[q] = "wait_written"
        /\ moved' = {} /\ param' = param /\ step' = step
    BY DEF UpdateBarrier, OnlyWorkers
  <2>2. \A q \in Device : Updated(q)'
    BY <2>1 DEF Updated
  <2>3. \A s, r \in Device : param[r][s] = step
    BY <2>1 DEF IInv, TransportFollows
  <2> QED
    BY <2>1, <2>2, <2>3 DEF TransportFollows
<1> QED
  BY <1>1, <1>2, <1>3, <1>4, <1>5, <1>6, <1>7, <1>8, <1>9 DEF IInv

\* A transfer brings the weights of the step: the buffer it reads is there.
LEMMA MoveKeeps ==
  ASSUME IInv, NEW s \in Device, NEW r \in Device, Move(s, r)
  PROVE  IInv'
<1>1. /\ TypeOK' /\ OnlyRank0' /\ WorkersFollow' /\ MemoryFollows'
      /\ CountsFollow' /\ SidesFollow' /\ SignalsFollow' /\ Handshake'
  BY DEF IInv, TypeOK, OnlyRank0, WorkersFollow, MemoryFollows, CountsFollow,
     SidesFollow, SignalsFollow, Handshake, HasSignal, Updated, Confirmed, Move,
     serverVars, OnlyWorkers, writerVars, engineVars
<1>2. TransportFollows'
  <2>1. /\ rpc[s] = "transport" /\ rpc[r] = "transport" /\ moved' = moved \cup {<<s, r>>}
        /\ param' = [param EXCEPT ![r][s] = buffer[s]]
        /\ rpc' = rpc /\ epc' = epc /\ step' = step
    BY DEF Move, OnlyWorkers, engineVars
  <2>2. buffer[s] = step
    <3>1. wpc[s] \in Sharing
      BY <2>1 DEF IInv, Handshake, Updated
    <3> QED
      BY <3>1 DEF IInv, MemoryFollows
  <2>3. \A p, q \in Device : param'[q][p] = IF p = s /\ q = r THEN step ELSE param[q][p]
    BY <2>1, <2>2 DEF IInv, TypeOK
  <2>4. \A q \in Device : ~ Updated(q)' /\ ~ Updated(q)
    <3>1. ~ Updated(s)
      BY <2>1 DEF Updated
    <3>2. \A q \in Device : ~ Updated(q)
      BY <3>1 DEF IInv, TransportFollows
    <3> QED
      BY <2>1, <3>2 DEF Updated
  <2> QED
    BY <2>1, <2>3, <2>4 DEF IInv, TransportFollows
<1> QED
  BY <1>1, <1>2 DEF IInv

\* An engine gives its memory back to the training.
LEMMA OffloadInferenceKeeps ==
  ASSUME IInv, NEW e \in Engine, OffloadInference(e)
  PROVE  IInv'
<1>1. /\ TypeOK' /\ OnlyRank0' /\ WorkersFollow' /\ SidesFollow'
      /\ SignalsFollow' /\ Handshake' /\ TransportFollows'
  BY DEF IInv, TypeOK, OnlyRank0, WorkersFollow, SidesFollow, SignalsFollow, Handshake,
     TransportFollows, HasSignal, Updated, OffloadInference, Joined, ReleaseMemory,
     EngineGoes, serverVars, OnlyEngines, writerVars, workerVars
<1>2. MemoryFollows'
  BY DEF IInv, TypeOK, MemoryFollows, OffloadInference, ReleaseMemory, EngineGoes,
     OnlyEngines, writerVars, workerVars
<1>3. CountsFollow'
  BY DeviceFacts DEF IInv, CountsFollow, OffloadInference, Joined, ReleaseMemory,
     EngineGoes, serverVars
<1> QED
  BY <1>1, <1>2, <1>3 DEF IInv

\* The training memory comes back when every engine has given up its own.
LEMMA OnloadTrainingKeeps ==
  ASSUME IInv, NEW d \in Device, OnloadTraining(d)
  PROVE  IInv'
<1>1. /\ TypeOK' /\ OnlyRank0' /\ WorkersFollow' /\ SidesFollow'
      /\ SignalsFollow' /\ Handshake' /\ TransportFollows'
  BY DEF IInv, TypeOK, OnlyRank0, WorkersFollow, SidesFollow, SignalsFollow, Handshake,
     TransportFollows, HasSignal, Updated, OnloadTraining, WriterGoes, serverVars,
     OnlyWriters, engineVars, workerVars
<1>2. MemoryFollows'
  BY DEF IInv, TypeOK, MemoryFollows, OnloadTraining, WriterGoes, OnlyWriters,
     engineVars, workerVars
<1>3. CountsFollow'
  BY DeviceFacts DEF IInv, CountsFollow, SidesFollow, OnloadTraining, serverVars,
     OnlyWriters, engineVars
<1> QED
  BY <1>1, <1>2, <1>3 DEF IInv

\* A new step begins with no signal of an earlier one but the announced buffers.
LEMMA BeginStepKeeps ==
  ASSUME IInv, BeginStep
  PROVE  IInv'
<1>1. OnlyRank0' /\ SidesFollow'
  BY DEF IInv, OnlyRank0, SidesFollow, BeginStep
<1>2. TypeOK'
  BY DeviceFacts DEF IInv, TypeOK, SidesFollow, BeginStep, serverVars, WriterMemory,
     EngineMemory, workerVars
<1>3. WorkersFollow'
  BY DeviceFacts DEF IInv, WorkersFollow, SidesFollow, BeginStep, workerVars
<1>4. MemoryFollows'
  <2>1. /\ \A q \in Device : wpc[q] = "training" /\ wpc'[q] = "release"
        /\ step' = step + 1 /\ step \in Nat /\ step > 0
        /\ UNCHANGED <<WriterMemory, EngineMemory, workerVars>>
    BY DEF BeginStep, IInv, TypeOK
  <2>2. \A e \in Engine : epc[e] = "offloaded" /\ epc'[e] = "release"
    BY <2>1, DeviceFacts DEF BeginStep, IInv, SidesFollow
  <2>3. \A q \in Device : q \in optimizer /\ q \in trainWeights /\ buffer[q] = NoVersion
    BY <2>1 DEF IInv, MemoryFollows
  <2> QED
    BY <2>1, <2>2, <2>3 DEF IInv, MemoryFollows, WriterMemory, EngineMemory, workerVars
<1>5. CountsFollow'
  BY DeviceFacts DEF IInv, CountsFollow, SidesFollow, BeginStep, serverVars
<1>6. SignalsFollow'
  <2>1. /\ \A q \in Device : wpc[q] = "training"
        /\ step' = step + 1 /\ step \in Nat /\ signal' = signal
        /\ epc' = [e \in Engine |-> "release"]
    BY DEF BeginStep, serverVars, IInv, TypeOK
  <2>2. \A q \in Device : epc[EngineOf(q)] = "offloaded" /\ rpc[q] = "ready"
    BY <2>1, DeviceFacts DEF IInv, SidesFollow, WorkersFollow
  <2>3. \A x \in signal : /\ x[1] \in SignalName /\ x[2] \in Device /\ x[3] \in Nat /\ x[3] <= step
                          /\ x = <<x[1], x[2], x[3]>>
    BY DEF IInv, TypeOK, SignalsFollow
  <2>4. \A x \in signal : x[1] = "training_serialized_weights"
    <3> SUFFICES ASSUME NEW x \in signal, x[1] # "training_serialized_weights" PROVE FALSE
      OBVIOUS
    <3>1. x[3] = step
      BY DEF IInv, SignalsFollow
    <3>2. HasSignal(x[1], x[2])
      BY <2>3, <3>1 DEF HasSignal
    <3> QED
      BY <2>1, <2>2, <2>3, <3>2 DEF IInv, SignalsFollow, SignalName
  <2>5. \A name \in SignalName, q \in Device : ~ HasSignal(name, q)'
    BY <2>1, <2>3 DEF HasSignal
  <2> QED
    BY <2>1, <2>3, <2>4, <2>5 DEF SignalsFollow, SignalName
<1>7. Handshake'
  <2>1. /\ \A q \in Device : wpc[q] = "training"
        /\ epc' = [e \in Engine |-> "release"] /\ rpc' = rpc /\ signal' = signal
        /\ step' = step + 1 /\ step \in Nat
    BY DEF BeginStep, serverVars, workerVars, IInv, TypeOK
  <2>2. \A q \in Device : rpc[q] = "ready"
    BY <2>1, DeviceFacts DEF IInv, SidesFollow, WorkersFollow
  <2>3. \A q \in Device : ~ Updated(q)' /\ ~ Confirmed(q)'
    BY <2>1, <2>2, DeviceFacts DEF Updated, Confirmed
  <2>4. \A q \in Device : ~ HasSignal("weights_update_finished", q)' /\ ~ HasSignal("write_finished", q)'
    BY <2>1 DEF IInv, SignalsFollow, HasSignal
  <2>5. \A q \in Device : wpc'[q] = "release"
    BY DEF BeginStep
  <2> QED
    BY <2>1, <2>2, <2>3, <2>4, <2>5 DEF Handshake
<1>8. TransportFollows'
  BY DeviceFacts DEF IInv, WorkersFollow, SidesFollow, TransportFollows, Updated,
     BeginStep, workerVars
<1> QED
  BY <1>1, <1>2, <1>3, <1>4, <1>5, <1>6, <1>7, <1>8 DEF IInv

-----------------------------------------------------------------------------
\* Every step keeps the inductive invariant.
LEMMA NextIInv == IInv /\ [Next]_vars => IInv'
<1> SUFFICES ASSUME IInv, [Next]_vars PROVE IInv'
  OBVIOUS
<1>1. CASE UNCHANGED vars
  BY <1>1 DEF vars, serverVars, writerVars, engineVars, workerVars, IInv, TypeOK, OnlyRank0, WorkersFollow,
     MemoryFollows, CountsFollow, SidesFollow, SignalsFollow, Handshake, TransportFollows, HasSignal,
     Updated, Confirmed
<1>2. ASSUME NEW d \in Device, Writer(d) PROVE IInv'
  BY <1>2, GetNumEnginesKeeps, SeeEnginesInitedKeeps, ReleaseOptimizerKeeps,
     GetInferConfKeeps, AddTrainingDeviceKeeps, GroupTensorsKeeps, OffloadWeightsKeeps,
     AddOffloadedKeeps, PutSerializedKeeps, GetUpdateFinishedKeeps,
     DeleteUpdateFinishedKeeps, FreeBufferKeeps, PutWriteFinishedKeeps,
     SeeEnginesFinishedKeeps, ReleaseAllKeeps DEF Writer
<1>3. ASSUME NEW d \in Device, Worker(d) PROVE IInv'
  BY <1>3, GetMasterKeeps, AddInferDeviceKeeps, SeeInferDevicesKeeps,
     SeeTrainDevicesKeeps, CollectWeightsKeeps, TransportDoneKeeps, CloseBufferKeeps,
     PutUpdateFinishedKeeps, SeeWriteFinishedKeeps, DeleteWriteFinishedKeeps DEF Worker
<1>4. ASSUME NEW e \in Engine, Reader(e) PROVE IInv'
  BY <1>4, PutNumEnginesKeeps, ReleaseAfterInitKeeps, AddInitedKeeps,
     PutInferConfKeeps, PutInferMetaKeeps, GetTrainingMetaKeeps,
     WorkersInitializedKeeps, ReleaseForUpdateKeeps, SeeWeightsOffloadedKeeps,
     ResumeWeightsKeeps, StartUpdateKeeps, WorkersUpdatedKeeps, AddFinishedKeeps,
     ResumeKvCacheKeeps DEF Reader
<1>5. CASE Rank0Writer
  BY <1>5, AddOptimizersKeeps, PutTrainingMetaKeeps, GetInferMetaKeeps,
     DeleteFinishedKeeps, DeleteOptimizersKeeps, DeleteWeightsKeeps DEF Rank0Writer
<1>6. CASE Collective
  BY <1>6, ReleaseBarrierKeeps, GatherMetaKeeps, BroadcastMetaKeeps,
     FinishBarrierKeeps, JoinGroupKeeps, ShakeHandsKeeps, WarmUpKeeps,
     UpdateBarrierKeeps DEF Collective
<1>7. ASSUME NEW s \in Device, NEW r \in Device, Move(s, r) PROVE IInv'
  BY <1>7, MoveKeeps
<1>8. CASE Driver
  BY <1>8, OffloadInferenceKeeps, OnloadTrainingKeeps, BeginStepKeeps DEF Driver
<1>9. CASE PutMaster
  BY <1>9, PutMasterKeeps
<1>10. CASE Stop
  BY <1>10, <1>1 DEF Stop
<1> QED
  BY <1>1, <1>2, <1>3, <1>4, <1>5, <1>6, <1>7, <1>8, <1>9, <1>10 DEF Next

\* It holds in every state of every behaviour.
LEMMA Invariance == Spec => []IInv
  BY InitIInv, NextIInv, PTL DEF Spec

-----------------------------------------------------------------------------
\* The training memory of a device and that of its engine follow from where the
\* two are, and they are never in such places together.
LEMMA NotBoth == IInv => NoOversubscription
<1> SUFFICES ASSUME IInv, NEW d \in Device
             PROVE  /\ EngineOf(d) \in inferWeights => d \notin trainWeights /\ d \notin optimizer
                    /\ EngineOf(d) \in kvCache =>
                         /\ d \notin trainWeights /\ d \notin optimizer
                         /\ buffer[d] = NoVersion /\ d \notin mapped
  BY DEF NoOversubscription
<1> DEFINE e == EngineOf(d)
<1>1. e \in Engine /\ wpc[d] \in WriterPlace /\ epc[e] \in EnginePlace
  BY DeviceFacts DEF IInv, TypeOK
<1>2. d \in trainWeights \/ d \in optimizer =>
        wpc[d] \in {"training", "offloaded", "pack", "offload", "release"} \cup Describing
  BY DEF IInv, MemoryFollows
<1>3. wpc[d] \notin {"wait_num", "wait_inited"} => epc[e] \notin {"put_num", "release_init"}
  BY <1>1 DEF IInv, SidesFollow
<1>4. epc[e] \in {"update", "wait_workers"} \cup (Serving \ {"offloaded"}) =>
        wpc[d] \in (Sharing \cup Freed \cup Cleaning \cup AtRest) \ {"training"}
  <2>1. epc[e] \in {"update", "wait_workers"} \cup Serving =>
          wpc[d] \in Sharing \cup Freed \cup Cleaning \cup AtRest
    BY <1>1 DEF IInv, SidesFollow
  <2>2. wpc[d] = "training" => epc[e] = "offloaded"
    BY <1>1 DEF IInv, SidesFollow
  <2> QED
    BY <2>1, <2>2 DEF Serving
<1>5. ASSUME e \in inferWeights PROVE d \notin trainWeights /\ d \notin optimizer
  <2>1. epc[e] \in {"put_num", "release_init", "update", "wait_workers"} \cup (Serving \ {"offloaded"})
    BY <1>1, <1>5 DEF IInv, MemoryFollows
  <2> QED
    BY <1>2, <1>3, <1>4, <2>1
<1>6. ASSUME e \in kvCache
      PROVE  /\ d \notin trainWeights /\ d \notin optimizer
             /\ buffer[d] = NoVersion /\ d \notin mapped
  <2>1. epc[e] \in {"put_num", "release_init", "serving"}
    BY <1>1, <1>6 DEF IInv, MemoryFollows
  <2>2. CASE epc[e] = "serving"
    <3>1. rpc[d] = "ready"
      BY <1>1, <2>2 DEF IInv, WorkersFollow
    <3>2. wpc[d] \in {"wait_engines", "finished"} \cup Cleaning \cup AtRest
      BY <2>2, <3>1 DEF IInv, Handshake, Confirmed
    <3> QED
      BY <1>2, <1>4, <2>2, <3>1, <3>2 DEF IInv, MemoryFollows
  <2>3. CASE epc[e] \in {"put_num", "release_init"}
    <3>1. wpc[d] \in {"wait_num", "wait_inited"} /\ rpc[d] = "off"
      BY <1>1, <1>3, <2>3 DEF IInv, WorkersFollow
    <3> QED
      BY <1>2, <3>1 DEF IInv, MemoryFollows
  <2> QED
    BY <2>1, <2>2, <2>3
<1> QED
  BY <1>5, <1>6

\* A worker with the buffer open has not signalled yet, so its training rank waits.
LEMMA BufferIsThere == IInv => MappingIsLive
<1> SUFFICES ASSUME IInv, NEW d \in mapped PROVE buffer[d] = step
  BY DEF MappingIsLive
<1>1. d \in Device /\ rpc[d] \in {"transport", "close"}
  BY DEF IInv, TypeOK, MemoryFollows
<1>2. wpc[d] \in Sharing
  BY <1>1 DEF IInv, Handshake, Updated
<1> QED
  BY <1>1, <1>2 DEF IInv, MemoryFollows

\* The workers of an engine that serves are past the barrier of the update.
LEMMA OneStep == IInv => ServesOneStep
<1> SUFFICES ASSUME IInv, NEW e \in Engine, epc[e] \in {"add_finished", "resume_kv", "serving"}
             PROVE  \A r, s \in Device : param[r][s] = step
  BY DEF ServesOneStep
<1>1. PICK d \in Device : EngineOf(d) = e
  BY DeviceFacts
<1>2. Updated(d)
  BY <1>1 DEF IInv, WorkersFollow, Updated
<1> QED
  BY <1>2 DEF IInv, TransportFollows

\* When both sides have returned, what they counted and signalled has been deleted.
LEMMA NothingLeft == IInv => SignalsConsumed
<1> SUFFICES ASSUME IInv, Joined
             PROVE  /\ \A k \in {"all_training_offloaded_optimizers", "all_training_offloaded_weights",
                                 "finished_weights_update_engines"} : store[k] = {}
                    /\ \A x \in signal : x[1] = "training_serialized_weights"
  BY DEF SignalsConsumed
<1>1. \A k \in {"all_training_offloaded_optimizers", "all_training_offloaded_weights",
                "finished_weights_update_engines"} : store[k] = {}
  BY DeviceFacts DEF IInv, CountsFollow, Joined
<1>2. ASSUME NEW x \in signal, x[1] # "training_serialized_weights" PROVE FALSE
  <2>1. /\ x[1] \in {"weights_update_finished", "write_finished"} /\ x[2] \in Device /\ x[3] = step
        /\ x = <<x[1], x[2], x[3]>>
    BY <1>2 DEF IInv, TypeOK, SignalName, SignalsFollow
  <2>2. HasSignal(x[1], x[2])
    BY <2>1 DEF HasSignal
  <2>3. wpc[x[2]] = "returned" /\ epc[EngineOf(x[2])] \in Serving /\ rpc[x[2]] = "ready"
    BY <2>1, DeviceFacts DEF Joined, IInv, WorkersFollow
  <2> QED
    BY <2>1, <2>2, <2>3 DEF IInv, SignalsFollow
<1> QED
  BY <1>1, <1>2

-----------------------------------------------------------------------------
\* The refinement.  The places in which an engine may serve.
MayServe(e) == epc[e] \in {"put_num", "release_init", "serving"}

\* Nothing has been moved to the workers of an engine that is not initialized.
Fresh ==
  \A d \in Device : epc[EngineOf(d)] \in {"put_num", "release_init"} =>
    \A s \in Device : param[d][s] = NoVersion

\* Only a transfer changes parameters, and only in an update.
LEMMA NextFresh == IInv /\ Fresh /\ [Next]_vars => Fresh'
<1> SUFFICES ASSUME IInv, Fresh, [Next]_vars, NEW d \in Device,
                    epc'[EngineOf(d)] \in {"put_num", "release_init"}
             PROVE  param'[d] = param[d] /\ epc[EngineOf(d)] \in {"put_num", "release_init"}
  BY DEF Fresh
<1>1. EngineOf(d) \in Engine /\ epc \in [Engine -> EnginePlace]
  BY DeviceFacts DEF IInv, TypeOK
<1>2. CASE UNCHANGED vars
  BY <1>2 DEF vars, engineVars, workerVars
<1>3. ASSUME NEW q \in Device, Writer(q) PROVE UNCHANGED <<epc, param>>
  BY <1>3 DEF Writer, GetNumEngines, SeeEnginesInited, WriterWaits, ReleaseOptimizer, GetInferConf,
     AddTrainingDevice, GroupTensors, OffloadWeights, AddOffloaded, PutSerialized, GetUpdateFinished,
     DeleteUpdateFinished, FreeBuffer, PutWriteFinished, SeeEnginesFinished, ReleaseAll, OnlyWriters,
     engineVars, workerVars
<1>4. ASSUME NEW q \in Device, Worker(q) PROVE UNCHANGED <<epc, param>>
  BY <1>4 DEF Worker, GetMaster, AddInferDevice, SeeInferDevices, SeeTrainDevices, WorkerWaits,
     CollectWeights, TransportDone, CloseBuffer, PutUpdateFinished, SeeWriteFinished,
     DeleteWriteFinished, OnlyWorkers, WorkerMemory, engineVars
<1>5. ASSUME NEW e \in Engine, Reader(e)
      PROVE  UNCHANGED param /\ epc[EngineOf(d)] \in {"put_num", "release_init"}
  BY <1>1, <1>5 DEF Reader, PutNumEngines, ReleaseAfterInit, ReleaseMemory, AddInited, PutInferConf,
     PutInferMeta, GetTrainingMeta, WorkersInitialized, EngineWaits, ReleaseForUpdate,
     SeeWeightsOffloaded, ResumeWeights, StartUpdate, WorkersUpdated, AddFinished, ResumeKvCache,
     EngineGoes, OnlyEngines, WorkerMemory, workerVars
<1>6. CASE Rank0Writer
  BY <1>6 DEF Rank0Writer, AddOptimizers, PutTrainingMeta, GetInferMeta, WriterWaits, DeleteFinished,
     DeleteOptimizers, DeleteWeights, OnlyWriters, engineVars, workerVars
<1>7. CASE Collective
  BY <1>7 DEF Collective, ReleaseBarrier, GatherMeta, BroadcastMeta, FinishBarrier, JoinGroup, ShakeHands,
     WarmUp, UpdateBarrier, OnlyWriters, OnlyWorkers, WorkerMemory, engineVars, workerVars
<1>8. ASSUME NEW s \in Device, NEW r \in Device, Move(s, r)
      PROVE  UNCHANGED epc /\ (epc[EngineOf(d)] \in {"put_num", "release_init"} => param'[d] = param[d])
  <2>1. UNCHANGED epc /\ rpc[r] = "transport"
    BY <1>8 DEF Move, OnlyWorkers, engineVars
  <2>2. epc[EngineOf(d)] \in {"put_num", "release_init"} => rpc[d] = "off"
    BY DEF IInv, WorkersFollow
  <2>3. d # r => param'[d] = param[d]
    BY <1>8 DEF Move, IInv, TypeOK
  <2> QED
    BY <2>1, <2>2, <2>3
<1>9. CASE Driver
  BY <1>1, <1>9 DEF Driver, OffloadInference, ReleaseMemory, EngineGoes, OnloadTraining, BeginStep,
     OnlyEngines, OnlyWriters, engineVars, workerVars
<1>10. CASE PutMaster
  BY <1>10 DEF PutMaster, WorkerMemory, OnlyWorkers, engineVars
<1>11. CASE Stop
  BY <1>2, <1>11 DEF Stop
<1> QED
  BY <1>2, <1>3, <1>4, <1>5, <1>6, <1>7, <1>8, <1>9, <1>10, <1>11 DEF Next

LEMMA FreshInvariance == Spec => []Fresh
<1>1. Init => Fresh
  BY DEF Init, Fresh
<1> QED
  BY <1>1, NextFresh, Invariance, PTL DEF Spec

\* An engine serves with the weights of its last update.
ServesLast == \A e \in Engine : Serves(e) = IF MayServe(e) THEN {EngineStep(e)} ELSE {}

LEMMA ServesItsStep == IInv /\ Fresh => ServesLast
<1> SUFFICES ASSUME IInv, Fresh, NEW e \in Engine
             PROVE  Serves(e) = IF MayServe(e) THEN {EngineStep(e)} ELSE {}
  BY DEF ServesLast
<1>1. PICK q \in Device : EngineOf(q) = e
  BY DeviceFacts
<1>2. q \in WorkersOf(e) /\ 0 \in Device /\ step \in Nat \ {0}
  BY <1>1, DeviceFacts DEF WorkersOf, IInv, TypeOK
<1>3. CASE epc[e] \in {"put_num", "release_init"}
  <2>1. step = 1 /\ EngineStep(e) = 0
    BY <1>2, <1>3 DEF IInv, SidesFollow, EngineStep
  <2>2. \A r \in WorkersOf(e), s \in Device : param[r][s] = 0
    BY <1>3 DEF Fresh, WorkersOf, NoVersion
  <2> QED
    BY <1>2, <1>3, <2>1, <2>2 DEF Serves, MayServe
<1>4. CASE epc[e] = "serving"
  <2>1. EngineStep(e) = step
    BY <1>4 DEF EngineStep
  <2>2. Updated(q)
    BY <1>1, <1>4 DEF IInv, WorkersFollow, Updated
  <2>3. \A r \in WorkersOf(e), s \in Device : param[r][s] = step
    BY <2>2 DEF WorkersOf, IInv, TransportFollows
  <2> QED
    BY <1>2, <1>4, <2>1, <2>3 DEF Serves, MayServe
<1> QED
  BY <1>3, <1>4 DEF Serves, MayServe

\* The abstract specification starts where this one does.
LEMMA InitImplements == Init => WeightExchange!Init
<1> SUFFICES ASSUME Init PROVE WeightExchange!Init
  OBVIOUS
<1>1. Exchanged = 0 /\ \A e \in Engine : EngineStep(e) = 0
  BY DeviceFacts DEF Init, Exchanged, Updated, EngineStep
<1>2. Fresh
  BY DEF Init, Fresh
<1>3. \A e \in Engine : Serves(e) = {0}
  BY <1>1, <1>2, InitIInv, ServesItsStep DEF ServesLast, Init, MayServe
<1> QED
  BY <1>1, <1>3 DEF WeightExchange!Init

\* A step that neither ends an exchange nor moves an engine between serving and
\* updating is none of the abstract specification.
LEMMA Unseen ==
  ASSUME ServesLast, ServesLast', Exchanged' = Exchanged,
         \A e \in Engine : EngineStep(e)' = EngineStep(e) /\ (MayServe(e)' <=> MayServe(e))
  PROVE  UNCHANGED WeightExchange!vars
<1>1. \A e \in Engine : Serves(e)' = Serves(e)
  BY DEF ServesLast
<1> QED
  BY <1>1 DEF WeightExchange!vars

\* The place of one engine: what the others do is the same.
LEMMA OneEngineGoes ==
  ASSUME IInv, NEW e \in Engine, NEW from, NEW to \in EnginePlace, EngineGoes(e, from, to), step' = step
  PROVE  /\ epc[e] = from /\ epc'[e] = to
         /\ \A f \in Engine \ {e} : /\ EngineStep(f)' = EngineStep(f)
                                    /\ MayServe(f)' <=> MayServe(f)
  BY DEF EngineGoes, EngineStep, MayServe, IInv, TypeOK

\* Both releases of the memory of an engine that serves end its serving.
LEMMA StopServingImplements ==
  ASSUME IInv, ServesLast, ServesLast', NEW e \in Engine, ReleaseAfterInit(e) \/ OffloadInference(e)
  PROVE  WeightExchange!StopServing(e)
<1>1. step \in 1 .. MaxStep /\ MaxStep \in Nat /\ step' = step /\ rpc' = rpc
  BY DeviceFacts DEF IInv, TypeOK, ReleaseAfterInit, OffloadInference, ReleaseMemory, OnlyEngines, workerVars
<1>2. /\ MayServe(e) /\ ~ MayServe(e)'
      /\ \A f \in Engine \ {e} : EngineStep(f)' = EngineStep(f) /\ (MayServe(f)' <=> MayServe(f))
      /\ EngineStep(e) \in Nat /\ EngineStep(e) < MaxStep /\ EngineStep(e)' = EngineStep(e) + 1
  <2>1. CASE ReleaseAfterInit(e)
    <3>1. EngineGoes(e, "release_init", "add_inited")
      BY <2>1 DEF ReleaseAfterInit, ReleaseMemory
    <3> QED
      BY <1>1, <3>1, OneEngineGoes DEF MayServe, EngineStep
  <2>2. CASE OffloadInference(e)
    <3>1. EngineGoes(e, "serving", "offloaded") /\ step < MaxStep
      BY <2>2 DEF OffloadInference, ReleaseMemory
    <3> QED
      BY <1>1, <3>1, OneEngineGoes DEF MayServe, EngineStep
  <2> QED
    BY <2>1, <2>2
<1>3. Exchanged' = Exchanged
  <2>1. epc' = [epc EXCEPT ![e] = epc'[e]] /\ epc \in [Engine -> EnginePlace]
    BY DEF ReleaseAfterInit, OffloadInference, ReleaseMemory, EngineGoes, IInv, TypeOK
  <2>2. \/ epc[e] = "release_init" /\ epc'[e] = "add_inited"
        \/ epc[e] = "serving" /\ epc'[e] = "offloaded"
    BY <2>1 DEF ReleaseAfterInit, OffloadInference, ReleaseMemory, EngineGoes
  <2> QED
    BY <1>1, <2>1, <2>2, DeviceFacts DEF Exchanged, Updated
<1>4. Serves(e) # {} /\ Serves(e)' = {} /\ \A f \in Engine \ {e} : Serves(f)' = Serves(f)
  BY <1>2 DEF ServesLast
<1>5. /\ [f \in Engine |-> Serves(f)]' = [[f \in Engine |-> Serves(f)] EXCEPT ![e] = {}]
      /\ [f \in Engine |-> EngineStep(f)]' = [[f \in Engine |-> EngineStep(f)] EXCEPT ![e] = @ + 1]
  BY <1>2, <1>4
<1> QED
  BY <1>2, <1>3, <1>4, <1>5 DEF WeightExchange!StopServing

\* The KV cache is back: the engine serves again.
LEMMA ResumeKvCacheImplements ==
  ASSUME IInv, ServesLast, ServesLast', NEW e \in Engine, ResumeKvCache(e)
  PROVE  WeightExchange!ServeAgain(e)
<1>1. step' = step /\ rpc' = rpc /\ EngineGoes(e, "resume_kv", "serving")
  BY DEF ResumeKvCache, OnlyEngines, workerVars
<1>2. /\ ~ MayServe(e) /\ MayServe(e)' /\ EngineStep(e) = step /\ EngineStep(e)' = step
      /\ \A f \in Engine \ {e} : EngineStep(f)' = EngineStep(f) /\ (MayServe(f)' <=> MayServe(f))
  BY <1>1, OneEngineGoes DEF MayServe, EngineStep
<1>3. Exchanged = step
  <2>1. PICK q \in Device : EngineOf(q) = e
    BY DeviceFacts
  <2>2. Updated(q)
    BY <1>1, <2>1 DEF EngineGoes, IInv, WorkersFollow, Updated
  <2> QED
    BY <2>2, DeviceFacts DEF IInv, TransportFollows, Exchanged
<1>4. Exchanged' = Exchanged
  BY <1>1, DeviceFacts DEF EngineGoes, IInv, TypeOK, Exchanged, Updated
<1>5. Serves(e) = {} /\ Serves(e)' = {Exchanged} /\ \A f \in Engine \ {e} : Serves(f)' = Serves(f)
  BY <1>2, <1>3 DEF ServesLast
<1>6. /\ [f \in Engine |-> Serves(f)]' = [[f \in Engine |-> Serves(f)] EXCEPT ![e] = {Exchanged}]
      /\ [f \in Engine |-> EngineStep(f)]' = [f \in Engine |-> EngineStep(f)]
  BY <1>2, <1>5
<1> QED
  BY <1>2, <1>3, <1>4, <1>5, <1>6 DEF WeightExchange!ServeAgain

\* The barrier of the transport is the exchange.
LEMMA UpdateBarrierImplements ==
  ASSUME IInv, UpdateBarrier
  PROVE  WeightExchange!Exchange
<1>1. \A f \in Engine : epc[f] = "wait_workers"
  <2>1. ASSUME NEW f \in Engine PROVE epc[f] = "wait_workers"
    <3>1. PICK q \in Device : EngineOf(q) = f
      BY DeviceFacts
    <3> QED
      BY <3>1 DEF UpdateBarrier, IInv, TypeOK, WorkersFollow
  <2> QED
    BY <2>1
<1>2. /\ epc' = epc /\ step' = step /\ step \in Nat
      /\ rpc[0] = "barrier" /\ rpc'[0] = "wait_written"
  BY DeviceFacts DEF UpdateBarrier, OnlyWorkers, engineVars, IInv, TypeOK
<1>3. Exchanged = step - 1 /\ Exchanged' = step
  BY <1>2 DEF Exchanged, Updated
<1>4. \A f \in Engine : /\ EngineStep(f) = step /\ EngineStep(f)' = step
                        /\ Serves(f) = {} /\ Serves(f)' = {}
  BY <1>1, <1>2 DEF EngineStep, Serves
<1>5. /\ [f \in Engine |-> Serves(f)]' = [f \in Engine |-> Serves(f)]
      /\ [f \in Engine |-> EngineStep(f)]' = [f \in Engine |-> EngineStep(f)]
  BY <1>4
<1> QED
  BY <1>2, <1>3, <1>4, <1>5 DEF WeightExchange!Exchange

\* All engines are offloaded for the next step already when it begins.
LEMMA BeginStepUnseen ==
  ASSUME IInv, BeginStep
  PROVE  /\ Exchanged' = Exchanged
         /\ \A e \in Engine : EngineStep(e)' = EngineStep(e) /\ (MayServe(e)' <=> MayServe(e))
<1>1. \A d \in Device : wpc[d] = "training"
  BY DEF BeginStep
<1>2. /\ \A e \in Engine : epc[e] = "offloaded" /\ epc'[e] = "release"
      /\ step' = step + 1 /\ step \in Nat /\ rpc' = rpc
  BY <1>1, DeviceFacts DEF BeginStep, IInv, SidesFollow, TypeOK, workerVars
<1>3. rpc[0] = "ready" /\ EngineOf(0) \in Engine
  BY <1>2, DeviceFacts DEF IInv, WorkersFollow
<1> QED
  BY <1>2, <1>3 DEF Exchanged, Updated, EngineStep, MayServe

\* Every step is one of the abstract specification, or none.
LEMMA NextImplements ==
  ASSUME IInv, ServesLast, ServesLast', [Next]_vars
  PROVE  [WeightExchange!Next]_(WeightExchange!vars)
<1> DEFINE Quiet == /\ Exchanged' = Exchanged
                    /\ \A e \in Engine : EngineStep(e)' = EngineStep(e) /\ (MayServe(e)' <=> MayServe(e))
<1>1. SUFFICES ASSUME ~ WeightExchange!Next PROVE Quiet
  BY Unseen
<1>2. /\ 0 \in Device /\ EngineOf(0) \in Engine
      /\ epc \in [Engine -> EnginePlace] /\ rpc \in [Device -> WorkerPlace]
  BY DeviceFacts DEF IInv, TypeOK
<1>3. SUFFICES ASSUME ~ BeginStep
               PROVE  /\ step' = step /\ (Updated(0)' <=> Updated(0))
                      /\ \A e \in Engine : /\ epc'[e] = "offloaded" <=> epc[e] = "offloaded"
                                           /\ epc'[e] \in {"put_num", "release_init"} <=>
                                                epc[e] \in {"put_num", "release_init"}
                                           /\ MayServe(e)' <=> MayServe(e)
  BY BeginStepUnseen DEF Exchanged, EngineStep
<1> DEFINE Same == step' = step /\ epc' = epc
<1>4. CASE UNCHANGED vars
  BY <1>4 DEF vars, engineVars, workerVars, Updated, MayServe
<1>5. ASSUME NEW d \in Device, Writer(d) PROVE Same /\ rpc' = rpc
  BY <1>5 DEF Writer, GetNumEngines, SeeEnginesInited, WriterWaits, ReleaseOptimizer, GetInferConf,
     AddTrainingDevice, GroupTensors, OffloadWeights, AddOffloaded, PutSerialized, GetUpdateFinished,
     DeleteUpdateFinished, FreeBuffer, PutWriteFinished, SeeEnginesFinished, ReleaseAll, OnlyWriters,
     engineVars, workerVars
<1>6. ASSUME NEW d \in Device, Worker(d) PROVE Same /\ (Updated(0)' <=> Updated(0))
  <2>1. Same
    BY <1>6 DEF Worker, GetMaster, AddInferDevice, SeeInferDevices, SeeTrainDevices, WorkerWaits,
       CollectWeights, TransportDone, CloseBuffer, PutUpdateFinished, SeeWriteFinished,
       DeleteWriteFinished, OnlyWorkers, WorkerMemory, engineVars
  <2>2. \/ rpc'[0] = rpc[0]
        \/ rpc[0] \notin {"ready"} \cup Confirming /\ rpc'[0] \notin {"ready"} \cup Confirming
        \/ rpc[0] = "wait_train_devices" /\ rpc'[0] = "ready"
        \/ rpc[0] = "wait_written" /\ rpc'[0] = "delete_written"
        \/ rpc[0] = "delete_written" /\ rpc'[0] = "ready"
    BY <1>2, <1>6 DEF Worker, GetMaster, AddInferDevice, SeeInferDevices, SeeTrainDevices, WorkerWaits,
       CollectWeights, TransportDone, CloseBuffer, PutUpdateFinished, SeeWriteFinished,
       DeleteWriteFinished, WorkerGoes
  <2>3. /\ rpc[0] = "wait_train_devices" => epc[EngineOf(0)] = "init_workers"
        /\ rpc[0] = "delete_written" => epc[EngineOf(0)] = "wait_workers"
    BY <1>2 DEF IInv, WorkersFollow
  <2> QED
    BY <2>1, <2>2, <2>3 DEF Updated
<1>7. ASSUME NEW e \in Engine, Reader(e), ~ ReleaseAfterInit(e), ~ ResumeKvCache(e), NEW f \in Engine
      PROVE  /\ step' = step
             /\ f # e => epc'[f] = epc[f]
             /\ epc'[f] = "offloaded" <=> epc[f] = "offloaded"
             /\ epc'[f] \in {"put_num", "release_init"} <=> epc[f] \in {"put_num", "release_init"}
             /\ MayServe(f)' <=> MayServe(f)
  BY <1>2, <1>7 DEF Reader, PutNumEngines, AddInited, PutInferConf, PutInferMeta, GetTrainingMeta,
     WorkersInitialized, EngineWaits, ReleaseForUpdate, ReleaseMemory, SeeWeightsOffloaded, ResumeWeights,
     StartUpdate, WorkersUpdated, AddFinished, EngineGoes, OnlyEngines, MayServe
<1>8. ASSUME NEW e \in Engine, Reader(e), ~ ReleaseAfterInit(e), ~ ResumeKvCache(e)
      PROVE  Updated(0)' <=> Updated(0)
  <2>1. CASE GetTrainingMeta(e)
    <3>1. e # EngineOf(0) => rpc'[0] = rpc[0] /\ epc'[EngineOf(0)] = epc[EngineOf(0)]
      BY <1>2, <2>1 DEF GetTrainingMeta, StartTask, EngineGoes, WorkersOf
    <3>2. e = EngineOf(0) =>
            /\ rpc[0] \notin Confirming /\ epc[EngineOf(0)] = "wait_meta"
            /\ rpc'[0] \in {"put_master", "wait_master"} /\ epc'[EngineOf(0)] = "init_workers"
      BY <1>2, <2>1 DEF GetTrainingMeta, StartTask, EngineGoes, WorkersOf, IInv, WorkersFollow
    <3> QED
      BY <3>1, <3>2 DEF Updated
  <2>2. CASE StartUpdate(e)
    <3>1. e # EngineOf(0) => rpc'[0] = rpc[0] /\ epc'[EngineOf(0)] = epc[EngineOf(0)]
      BY <1>2, <2>2 DEF StartUpdate, StartTask, EngineGoes, WorkersOf
    <3>2. e = EngineOf(0) =>
            /\ rpc[0] \notin Confirming /\ epc[EngineOf(0)] = "update"
            /\ rpc'[0] = "collect" /\ epc'[EngineOf(0)] = "wait_workers"
      BY <1>2, <2>2 DEF StartUpdate, StartTask, EngineGoes, WorkersOf, IInv, WorkersFollow
    <3> QED
      BY <3>1, <3>2 DEF Updated
  <2>3. CASE ~ GetTrainingMeta(e) /\ ~ StartUpdate(e)
    BY <1>2, <1>8, <2>3 DEF Reader, PutNumEngines, AddInited, PutInferConf, PutInferMeta,
       WorkersInitialized, EngineWaits, ReleaseForUpdate, ReleaseMemory, SeeWeightsOffloaded,
       ResumeWeights, WorkersUpdated, AddFinished, EngineGoes, OnlyEngines, workerVars, Updated
  <2> QED
    BY <2>1, <2>2, <2>3
<1>9. ASSUME NEW e \in Engine, ReleaseAfterInit(e) \/ ResumeKvCache(e) \/ OffloadInference(e) PROVE FALSE
  BY <1>1, <1>9, StopServingImplements, ResumeKvCacheImplements DEF WeightExchange!Next
<1>10. CASE Rank0Writer
  <2>1. Same /\ rpc' = rpc
    BY <1>10 DEF Rank0Writer, AddOptimizers, PutTrainingMeta, GetInferMeta, WriterWaits, DeleteFinished,
       DeleteOptimizers, DeleteWeights, OnlyWriters, engineVars, workerVars
  <2> QED
    BY <2>1 DEF Updated, MayServe
<1>11. CASE Collective
  <2>1. ~ UpdateBarrier
    BY <1>1, UpdateBarrierImplements DEF WeightExchange!Next
  <2>2. /\ Same
        /\ rpc'[0] = rpc[0] \/ {rpc[0], rpc'[0]} \subseteq {"group", "shake", "warm_up", "add_device"}
    BY <1>2, <1>11, <2>1 DEF Collective, ReleaseBarrier, GatherMeta, BroadcastMeta, FinishBarrier, JoinGroup,
       ShakeHands, WarmUp, OnlyWriters, OnlyWorkers, engineVars, workerVars
  <2> QED
    BY <2>2 DEF Updated, MayServe
<1>12. ASSUME NEW s \in Device, NEW r \in Device, Move(s, r) PROVE Same /\ rpc' = rpc
  BY <1>12 DEF Move, OnlyWorkers, engineVars
<1>13. CASE Driver
  <2>1. PICK d \in Device : OnloadTraining(d)
    BY <1>3, <1>9, <1>13 DEF Driver
  <2>2. Same /\ rpc' = rpc
    BY <2>1 DEF OnloadTraining, OnlyWriters, engineVars, workerVars
  <2> QED
    BY <2>2 DEF Updated, MayServe
<1>14. CASE PutMaster
  <2>1. Same /\ (rpc'[0] = rpc[0] \/ (rpc[0] = "put_master" /\ rpc'[0] = "group"))
    BY <1>2, <1>14 DEF PutMaster, WorkerGoes, OnlyWorkers, engineVars
  <2> QED
    BY <2>1 DEF Updated, MayServe
<1>15. CASE Stop
  BY <1>4, <1>15 DEF Stop
<1>16. ASSUME NEW d \in Device, Writer(d) \/ Worker(d)
       PROVE  Same /\ (Updated(0)' <=> Updated(0)) /\ \A e \in Engine : MayServe(e)' <=> MayServe(e)
  BY <1>5, <1>6, <1>16 DEF Updated, MayServe
<1>17. ASSUME NEW s \in Device, NEW r \in Device, Move(s, r)
       PROVE  Same /\ (Updated(0)' <=> Updated(0)) /\ \A e \in Engine : MayServe(e)' <=> MayServe(e)
  BY <1>12, <1>17 DEF Updated, MayServe
<1> HIDE DEF Quiet
<1> QED
  BY <1>4, <1>7, <1>8, <1>9, <1>10, <1>11, <1>13, <1>14, <1>15, <1>16, <1>17, DeviceFacts DEF Next, Reader

-----------------------------------------------------------------------------
\* The keys, the memory and the places of all processes keep their type.
THEOREM TypeCorrect == Spec => []TypeOK
  BY Invariance, PTL DEF IInv

\* No device ever holds the memory of both sides.
THEOREM NoOversubscriptionTheorem == Spec => []NoOversubscription
  BY Invariance, NotBoth, PTL

\* No worker has a buffer open that was freed or filled again.
THEOREM MappingIsLiveTheorem == Spec => []MappingIsLive
  BY Invariance, BufferIsThere, PTL

\* All engines that serve have the weights of the same step, from all devices.
THEOREM ServesOneStepTheorem == Spec => []ServesOneStep
  BY Invariance, OneStep, PTL

\* No step leaves a signal that a later step could take for its own.
THEOREM SignalsConsumedTheorem == Spec => []SignalsConsumed
  BY Invariance, NothingLeft, PTL

\* The exchange on shared devices implements the abstract one.
THEOREM ImplementsExchangeTheorem == Spec => ImplementsExchange
<1>1. IInv /\ ServesLast /\ ServesLast' /\ [Next]_vars => [WeightExchange!Next]_(WeightExchange!vars)
  BY NextImplements
<1> QED
  BY <1>1, InitImplements, Invariance, FreshInvariance, ServesItsStep, PTL
     DEF Spec, ImplementsExchange, WeightExchange!Spec
=============================================================================
