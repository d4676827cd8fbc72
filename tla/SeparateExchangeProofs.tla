----------------------- MODULE SeparateExchangeProofs -----------------------
(***************************************************************************)
(* For any number of engines, workers, training ranks and steps, with and  *)
(* without validation: no engine returns with new weights while another    *)
(* has old ones, parameters change only inside an update, and an engine    *)
(* validates with the checkpoint of its step.  If fewer replies are lost   *)
(* than there are engines, rank 0 sees all engines ready only when all     *)
(* have loaded the checkpoint of the step.                                 *)
(***************************************************************************)
EXTENDS SeparateExchange, Integers, FiniteSetTheorems, TLAPS

\* The number of updates that are over for an engine, counted from the barrier that
\* ends the transport.
EngineDone(e) ==
  IF epc[e] \in {"put_num", "add_inited", "idle"} \/ Updated(e) THEN estep[e] ELSE estep[e] - 1

\* An engine counts a validated step when its update is over, a training rank
\* when it has saved the checkpoint.
CountAfter(count, step) == IF Validates(count, step) THEN count + 1 ELSE count
Validated(e) == IF Updated(e) THEN CountAfter(evalidated[e], estep[e]) ELSE evalidated[e]
Saved == {"put_load", "poll_send", "delete_send", "delete_load", "checked", "send", "barrier"}

\* The engines that have announced that they are ready, and whether rank 0 has
\* deleted the set of them in this step, or does not use it.
ReadyEngines == store["weights_ready_for_send"]
Dismissed == wpc[0] \in {"delete_load", "checked", "send", "barrier"}
Announcing == {"add_send", "get_send", "loop_send"}

\* The engines that are in the set, or will be, by a repeated request.
Resent ==
  IF Dismissed THEN ReadyEngines \cup {e \in Engine : epc[e] = "add_send"}
               ELSE {e \in ReadyEngines : epc[e] = "add_send"}

\* Workers work only when their engine has given them a task; those of an engine
\* are told of the end of an update together.
WorkersFollow ==
  /\ \A r \in InferRank :
       LET at == epc[EngineOf(r)] IN
       /\ at \in {"put_num", "add_inited", "put_conf", "put_meta", "wait_meta"} => rpc[r] = "off"
       /\ at = "idle" => rpc[r] = IF estep[EngineOf(r)] = 0 THEN "off" ELSE "ready"
       /\ at = "init_workers" => rpc[r] \notin {"off", "recv", "barrier"}
       /\ at \in {"wait_load", "crashed", "update"} \cup Announcing => rpc[r] = "ready"
       /\ at = "wait_workers" => rpc[r] \in {"ready", "recv", "barrier"}
  /\ \A r \in InferRank :
       epc[EngineOf(r)] = "wait_workers" /\ rpc[r] = "ready" => Updated(EngineOf(r))

\* Both sides have been through the same number of updates.
Lockstep ==
  /\ \A t \in TrainRank, e \in Engine : WriterDone(t) = EngineDone(e)
  /\ \A t \in TrainRank : wpc[t] # "idle" => wstep[t] > 0
  /\ \A e \in Engine : epc[e] \notin {"put_num", "add_inited", "idle"} => estep[e] > 0
  /\ \A e \in Engine : epc[e] \in {"put_num", "add_inited"} => estep[e] = 0

\* The transfers of an update, and its barrier.
TransportFollows ==
  /\ \A t \in TrainRank, r \in InferRank : <<t, r>> \in moved =>
       /\ wpc[t] \in {"send", "barrier"} /\ rpc[r] \in {"recv", "barrier"}
       /\ param[r][t] = wstep[t]
  /\ \A t \in TrainRank, r \in InferRank :
       wpc[t] = "barrier" \/ rpc[r] = "barrier" => <<t, r>> \in moved

\* Outside its step an engine has the weights of the last one.
VersionsFollow ==
  \A r \in InferRank, t \in TrainRank :
    EngineDone(EngineOf(r)) = estep[EngineOf(r)] => param[r][t] = estep[EngineOf(r)]

\* Both sides agree on which steps are validated.
ValidatedFollow ==
  /\ \A t \in TrainRank, e \in Engine :
       wvalidated[t] = IF wpc[t] \in Saved THEN CountAfter(Validated(e), wstep[t]) ELSE Validated(e)
  /\ \A e \in Engine : Validated(e) <= EngineDone(e)
  /\ \A t \in TrainRank : wpc[t] = "save" => Validates(wvalidated[t], wstep[t])
  /\ \A t \in TrainRank, e \in Engine :
       wpc[t] \in Saved \ {"send", "barrier"} => Validates(Validated(e), wstep[t])
  /\ \A e \in Engine :
       epc[e] \in {"wait_load", "crashed"} \cup Announcing => Validates(evalidated[e], estep[e])

\* The checkpoint on disk is that of the step while it is announced, and is
\* loaded only then.
CheckpointFollows ==
  /\ wpc[0] \in {"put_load", "poll_send", "delete_send", "delete_load", "checked"} => disk = wstep[0]
  /\ Has("weights_ready_for_load") => wpc[0] \in {"poll_send", "delete_send", "delete_load"}
  /\ \A e \in Engine : epc[e] \in Announcing => loaded[e] = estep[e]
  /\ \A e \in Engine : epc[e] \in {"crashed"} \cup Announcing =>
       wpc[0] \in {"poll_send", "delete_send"} \/ Dismissed

\* The inductive invariant.
IInv ==
  /\ TypeOK
  /\ WorkersFollow
  /\ Lockstep
  /\ TransportFollows
  /\ VersionsFollow
  /\ ValidatedFollow
  /\ CheckpointFollows

\* With fewer lost replies than engines: the set fills only with engines that have
\* loaded this checkpoint, and an engine that brings the deleted set back waits in it.
ReadyFollows ==
  /\ ~ Dismissed => \A e \in ReadyEngines :
       /\ wpc[0] \in {"poll_send", "delete_send"}
       /\ epc[e] \in {"update", "wait_workers"} \cup Announcing
       /\ ~ Updated(e) /\ loaded[e] = estep[e]
  /\ wpc[0] = "delete_send" => ReadyEngines = Engine
  /\ Dismissed => \A e \in Engine : Validates(Validated(e), wstep[0]) =>
       /\ epc[e] \in {"crashed", "update", "wait_workers"} \cup Announcing
       /\ ~ Updated(e) /\ loaded[e] = estep[e]
  /\ Dismissed => \A e \in ReadyEngines :
       /\ epc[e] \in Announcing
       /\ epc[e] = "loop_send" => ready[e] # Engine

\* A request is repeated only when its reply was lost.
ResentCounted == Cardinality(Resent) <= lost

\* The bound the two need: when as many replies are lost as there are engines, the
\* deleted set fills again, in a step that has not loaded its checkpoint.
FewLost == MaxLostReplies < NumEngines

RInv == IInv /\ FewLost /\ ReadyFollows /\ ResentCounted

\* The places are sets of names, always seen through.
USE DEF WriterPlace, EnginePlace, WorkerPlace

-----------------------------------------------------------------------------
\* Rank 0 is a rank on both sides, every worker has an engine, every engine a worker.
LEMMA RankFacts ==
  /\ NumEngines \in Nat \ {0} /\ MaxStep \in Nat \ {0}
  /\ 0 \in TrainRank /\ LastTrainRank \in TrainRank /\ 0 \in InferRank /\ 0 \in Engine
  /\ \A r \in InferRank : EngineOf(r) \in Engine
  /\ \A e \in Engine : \E r \in InferRank : EngineOf(r) = e
<1> DEFINE W == WorkersPerEngine
<1>1. NumEngines \in Nat \ {0} /\ W \in Nat \ {0} /\ MaxStep \in Nat \ {0} /\ TrainWorldSize \in Nat \ {0}
  BY SeparateAssumption
<1>2. NumEngines * W \in Nat \ {0}
  BY <1>1
<1>3. 0 \in TrainRank /\ LastTrainRank \in TrainRank /\ 0 \in InferRank /\ 0 \in Engine
  BY <1>1, <1>2 DEF TrainRank, LastTrainRank, InferRank, Engine
<1>4. ASSUME NEW r \in InferRank PROVE EngineOf(r) \in Engine
  <2> DEFINE q == r \div W
  <2>1. r \in Nat /\ r < NumEngines * W
    BY <1>1, <1>2 DEF InferRank
  <2>2. q \in Nat /\ q * W <= r
    BY <1>1, <2>1, Z3
  <2>3. q < NumEngines
    <3> SUFFICES ASSUME NumEngines <= q PROVE FALSE
      BY <1>1, <2>2
    <3> HIDE DEF q
    <3>1. NumEngines * W <= q * W
      BY <1>1, <2>2
    <3> QED
      BY <1>1, <2>1, <2>2, <3>1
  <2> QED
    BY <1>1, <2>2, <2>3 DEF EngineOf, Engine
<1>5. ASSUME NEW e \in Engine PROVE \E r \in InferRank : EngineOf(r) = e
  <2>1. e \in Nat /\ e + 1 <= NumEngines
    BY <1>1 DEF Engine
  <2>2. (e * W) \div W = e
    BY <1>1, <2>1, Z3
  <2>3. e * W \in InferRank
    <3>1. (e + 1) * W <= NumEngines * W
      BY <1>1, <2>1
    <3>2. (e + 1) * W = e * W + W /\ e * W \in Nat
      BY <1>1, <2>1
    <3> QED
      BY <1>1, <1>2, <3>1, <3>2 DEF InferRank
  <2> QED
    BY <2>2, <2>3 DEF EngineOf
<1> QED
  BY <1>1, <1>3, <1>4, <1>5

\* Engines are counted; a set of engines that has their number has them all.
LEMMA EnginesCounted ==
  ASSUME NEW S \in SUBSET Engine
  PROVE  /\ IsFiniteSet(S) /\ Cardinality(S) \in Nat
         /\ Cardinality(S) = NumEngines <=> S = Engine
<1>1. IsFiniteSet(Engine) /\ Cardinality(Engine) = NumEngines
  BY FS_Interval, RankFacts DEF Engine
<1> QED
  BY <1>1, FS_Subset, FS_CardinalityType


\* A part of a set of engines has no more of them.
LEMMA FewerEngines ==
  ASSUME NEW S \in SUBSET Engine, NEW T \in SUBSET S
  PROVE  Cardinality(T) \in Nat /\ Cardinality(S) \in Nat /\ Cardinality(T) <= Cardinality(S)
BY EnginesCounted, FS_Subset

-----------------------------------------------------------------------------
\* At the start nobody is in a step, and nothing is announced.
LEMMA InitIInv == Init => IInv
<1> SUFFICES ASSUME Init PROVE IInv
  OBVIOUS
<1>1. TypeOK
  BY RankFacts, SeparateAssumption DEF Init, TypeOK, Key, NoVersion
<1>2. WorkersFollow
  BY RankFacts DEF Init, WorkersFollow, Announcing, Updated
<1>3. Lockstep
  BY DEF Init, Lockstep, WriterDone, EngineDone
<1>4. TransportFollows
  BY DEF Init, TransportFollows
<1>5. VersionsFollow
  BY RankFacts DEF Init, VersionsFollow, NoVersion
<1>6. ValidatedFollow
  BY DEF Init, ValidatedFollow, Validated, Saved, Announcing, Updated, EngineDone
<1>7. CheckpointFollows
  BY RankFacts DEF Init, CheckpointFollows, Has, Key, Announcing
<1> QED
  BY <1>1, <1>2, <1>3, <1>4, <1>5, <1>6, <1>7 DEF IInv

-----------------------------------------------------------------------------
\* The training side.

\* A training rank begins a step when it has finished the one before.
LEMMA BeginWriteKeeps ==
  ASSUME IInv, NEW t \in TrainRank, BeginWrite(t)
  PROVE  IInv'
<1>1. WorkersFollow' /\ TransportFollows' /\ VersionsFollow' /\ CheckpointFollows'
  BY DEF IInv, WorkersFollow, TransportFollows, VersionsFollow, CheckpointFollows,
     Updated, EngineDone, Dismissed, Has, BeginWrite, WriterGoes, AfterInit,
     engineVars, workerVars
<1>2. TypeOK'
  BY RankFacts DEF IInv, TypeOK, BeginWrite, WriterGoes, AfterInit, engineVars,
     workerVars
<1>3. Lockstep'
  BY RankFacts DEF IInv, TypeOK, Lockstep, WriterDone, EngineDone, Updated, BeginWrite,
     WriterGoes, AfterInit, engineVars, workerVars
<1>4. ValidatedFollow'
  BY RankFacts DEF IInv, TypeOK, ValidatedFollow, EngineDone, Updated, Validated,
     CountAfter, Saved, Announcing, BeginWrite, WriterGoes, AfterInit, engineVars,
     workerVars
<1> QED
  BY <1>1, <1>2, <1>3, <1>4 DEF IInv

\* A training rank that reads a key changes its place only:
LEMMA WriterGetsConfKeeps ==
  ASSUME IInv, NEW t \in TrainRank, WriterGetsConf(t)
  PROVE  IInv'
<1>1. /\ TypeOK' /\ WorkersFollow' /\ Lockstep' /\ TransportFollows'
      /\ VersionsFollow' /\ ValidatedFollow' /\ CheckpointFollows'
  BY DEF IInv, TypeOK, WorkersFollow, Lockstep, TransportFollows, VersionsFollow,
     ValidatedFollow, CheckpointFollows, NoVersion, Updated, WorkersOf, Announcing,
     WriterDone, EngineDone, Validated, Saved, Dismissed, Has, WriterGetsConf, WaitKey,
     WriterGoes, engineVars, workerVars
<1> QED
  BY <1>1 DEF IInv

\* the number of engines,
LEMMA WriterGetsNumEnginesKeeps ==
  ASSUME IInv, NEW t \in TrainRank, WriterGetsNumEngines(t)
  PROVE  IInv'
<1>1. TypeOK'
  BY DEF IInv, TypeOK, WriterGetsNumEngines, WaitKey, WriterGoes, engineVars,
     workerVars
<1>2. WorkersFollow'
  BY DEF IInv, WorkersFollow, Updated, WriterGetsNumEngines, WaitKey, engineVars,
     workerVars
<1>3. Lockstep'
  BY DEF IInv, Lockstep, WriterDone, EngineDone, Updated, WriterGetsNumEngines,
     WaitKey, WriterGoes, engineVars, workerVars
<1>4. TransportFollows'
  BY DEF IInv, TransportFollows, WriterGetsNumEngines, WaitKey, WriterGoes, workerVars
<1>5. VersionsFollow'
  BY DEF IInv, VersionsFollow, EngineDone, Updated, WriterGetsNumEngines, WaitKey,
     engineVars, workerVars
<1>6. ValidatedFollow'
  BY DEF IInv, ValidatedFollow, Validated, Saved, EngineDone, Updated,
     WriterGetsNumEngines, WaitKey, WriterGoes, engineVars, workerVars
<1>7. CheckpointFollows'
  BY DEF IInv, CheckpointFollows, Dismissed, Has, WriterGetsNumEngines, WaitKey,
     WriterGoes, engineVars
<1> QED
  BY <1>1, <1>2, <1>3, <1>4, <1>5, <1>6, <1>7 DEF IInv

\* the address of the group.
LEMMA WriterGetsMasterKeeps ==
  ASSUME IInv, NEW t \in TrainRank, WriterGetsMaster(t)
  PROVE  IInv'
<1>1. TypeOK'
  BY DEF IInv, TypeOK, WriterGetsMaster, WaitKey, WriterGoes, engineVars, workerVars
<1>2. WorkersFollow'
  BY DEF IInv, WorkersFollow, Updated, WriterGetsMaster, WaitKey, engineVars,
     workerVars
<1>3. Lockstep'
  BY DEF IInv, Lockstep, WriterDone, EngineDone, Updated, WriterGetsMaster, WaitKey,
     WriterGoes, engineVars, workerVars
<1>4. TransportFollows'
  BY DEF IInv, TransportFollows, WriterGetsMaster, WaitKey, WriterGoes, workerVars
<1>5. VersionsFollow'
  BY DEF IInv, VersionsFollow, EngineDone, Updated, WriterGetsMaster, WaitKey,
     engineVars, workerVars
<1>6. ValidatedFollow'
  BY DEF IInv, ValidatedFollow, Validated, Saved, EngineDone, Updated,
     WriterGetsMaster, WaitKey, WriterGoes, engineVars, workerVars
<1>7. CheckpointFollows'
  BY DEF IInv, CheckpointFollows, Dismissed, Has, WriterGetsMaster, WaitKey,
     WriterGoes, engineVars
<1> QED
  BY <1>1, <1>2, <1>3, <1>4, <1>5, <1>6, <1>7 DEF IInv

\* A training rank leaves its transport when all its transfers are over.
LEMMA WriterBatchDoneKeeps ==
  ASSUME IInv, NEW t \in TrainRank, WriterBatchDone(t)
  PROVE  IInv'
<1>1. /\ TypeOK' /\ WorkersFollow' /\ Lockstep' /\ TransportFollows'
      /\ VersionsFollow' /\ ValidatedFollow' /\ CheckpointFollows'
  BY DEF IInv, TypeOK, WorkersFollow, Lockstep, TransportFollows, VersionsFollow,
     ValidatedFollow, CheckpointFollows, Updated, WorkersOf, Announcing, WriterDone,
     EngineDone, Validated, CountAfter, Saved, Dismissed, Has, WriterBatchDone,
     WriterGoes, engineVars, workerVars
<1> QED
  BY <1>1 DEF IInv

\* It returns after the barrier.
LEMMA FinishWriteKeeps ==
  ASSUME IInv, NEW t \in TrainRank, FinishWrite(t)
  PROVE  IInv'
<1>1. /\ TypeOK' /\ WorkersFollow' /\ Lockstep' /\ TransportFollows'
      /\ VersionsFollow' /\ ValidatedFollow' /\ CheckpointFollows'
  BY DEF IInv, TypeOK, WorkersFollow, Lockstep, TransportFollows, VersionsFollow,
     ValidatedFollow, CheckpointFollows, Updated, Announcing, WriterDone, EngineDone,
     Validated, CountAfter, Saved, Dismissed, Has, FinishWrite, WriterGoes, engineVars,
     workerVars
<1> QED
  BY <1>1 DEF IInv

\* The metadata of the training side is no part of a validation,
LEMMA WriterPutsMetaKeeps ==
  ASSUME IInv, WriterPutsMeta
  PROVE  IInv'
<1>1. /\ WorkersFollow' /\ Lockstep' /\ TransportFollows' /\ VersionsFollow'
      /\ ValidatedFollow' /\ CheckpointFollows'
  BY DEF IInv, WorkersFollow, Lockstep, TransportFollows, VersionsFollow,
     ValidatedFollow, CheckpointFollows, Updated, WriterDone, EngineDone, Validated,
     Saved, Dismissed, Has, WriterPutsMeta, WriterGoes, Put, engineVars, workerVars
<1>2. TypeOK'
  BY RankFacts DEF IInv, TypeOK, Key, WriterPutsMeta, WriterGoes, Put, engineVars,
     workerVars
<1> QED
  BY <1>1, <1>2 DEF IInv

\* nor is that of the engines.
LEMMA WriterGetsMetaKeeps ==
  ASSUME IInv, WriterGetsMeta
  PROVE  IInv'
<1>1. /\ WorkersFollow' /\ Lockstep' /\ TransportFollows' /\ VersionsFollow'
      /\ ValidatedFollow' /\ CheckpointFollows'
  BY DEF IInv, WorkersFollow, Lockstep, TransportFollows, VersionsFollow,
     ValidatedFollow, CheckpointFollows, Updated, WriterDone, EngineDone, Validated,
     Saved, Dismissed, Has, WriterGetsMeta, WaitKey, WriterGoes, engineVars, workerVars
<1>2. TypeOK'
  BY RankFacts DEF IInv, TypeOK, WriterGetsMeta, WaitKey, WriterGoes, engineVars,
     workerVars
<1> QED
  BY <1>1, <1>2 DEF IInv

\* The checkpoint on disk is that of the step when it is announced.
LEMMA PutReadyForLoadKeeps ==
  ASSUME IInv, PutReadyForLoad
  PROVE  IInv'
<1>1. /\ WorkersFollow' /\ Lockstep' /\ TransportFollows' /\ VersionsFollow'
      /\ ValidatedFollow'
  BY DEF IInv, WorkersFollow, Lockstep, TransportFollows, VersionsFollow,
     ValidatedFollow, Updated, WriterDone, EngineDone, Validated, Saved,
     PutReadyForLoad, WriterGoes, engineVars, workerVars
<1>2. TypeOK'
  BY RankFacts DEF IInv, TypeOK, Key, PutReadyForLoad, WriterGoes, Put, engineVars,
     workerVars
<1>3. CheckpointFollows'
  BY RankFacts DEF IInv, TypeOK, CheckpointFollows, PutReadyForLoad, WriterGoes,
     engineVars
<1> QED
  BY <1>1, <1>2, <1>3 DEF IInv

\* Rank 0 goes on when the set is full.
LEMMA SeeAllReadyKeeps ==
  ASSUME IInv, SeeAllReady
  PROVE  IInv'
<1>1. /\ WorkersFollow' /\ Lockstep' /\ TransportFollows' /\ VersionsFollow'
      /\ ValidatedFollow' /\ CheckpointFollows'
  BY DEF IInv, WorkersFollow, Lockstep, TransportFollows, VersionsFollow,
     ValidatedFollow, CheckpointFollows, Updated, WriterDone, EngineDone, Validated,
     Saved, SeeAllReady, WriterGoes, engineVars, workerVars
<1>2. TypeOK'
  BY RankFacts DEF IInv, TypeOK, SeeAllReady, WriterGoes, engineVars, workerVars
<1> QED
  BY <1>1, <1>2 DEF IInv

\* The set of ready engines goes,
LEMMA DeleteReadyForSendKeeps ==
  ASSUME IInv, DeleteReadyForSend
  PROVE  IInv'
<1>1. /\ WorkersFollow' /\ Lockstep' /\ TransportFollows' /\ VersionsFollow'
      /\ ValidatedFollow' /\ CheckpointFollows'
  BY DEF IInv, WorkersFollow, Lockstep, TransportFollows, VersionsFollow,
     ValidatedFollow, CheckpointFollows, Updated, WriterDone, EngineDone, Validated,
     Saved, Dismissed, DeleteReadyForSend, WriterGoes, engineVars, workerVars
<1>2. TypeOK'
  BY RankFacts DEF IInv, TypeOK, Key, DeleteReadyForSend, WriterGoes, Delete,
     engineVars, workerVars
<1> QED
  BY <1>1, <1>2 DEF IInv

\* then the announcement of the checkpoint.
LEMMA DeleteReadyForLoadKeeps ==
  ASSUME IInv, DeleteReadyForLoad
  PROVE  IInv'
<1>1. /\ WorkersFollow' /\ Lockstep' /\ TransportFollows' /\ VersionsFollow'
      /\ ValidatedFollow'
  BY DEF IInv, WorkersFollow, Lockstep, TransportFollows, VersionsFollow,
     ValidatedFollow, Updated, WriterDone, EngineDone, Validated, Saved,
     DeleteReadyForLoad, WriterGoes, engineVars, workerVars
<1>2. TypeOK'
  BY RankFacts DEF IInv, TypeOK, Key, DeleteReadyForLoad, WriterGoes, Delete,
     engineVars, workerVars
<1>3. CheckpointFollows'
  BY RankFacts DEF IInv, TypeOK, CheckpointFollows, Key, Dismissed, Has,
     DeleteReadyForLoad, WriterGoes, Delete, engineVars
<1> QED
  BY <1>1, <1>2, <1>3 DEF IInv

-----------------------------------------------------------------------------
\* The engines.

\* The initialization of an engine is before its first step:
LEMMA PutNumEnginesKeeps ==
  ASSUME IInv, NEW e \in Engine, PutNumEngines(e)
  PROVE  IInv'
<1>1. TypeOK'
  BY DEF IInv, TypeOK, Key, PutNumEngines, EngineGoes, Put, writerVars, workerVars
<1>2. WorkersFollow'
  BY DEF IInv, WorkersFollow, Updated, Announcing, PutNumEngines, EngineGoes,
     writerVars, workerVars
<1>3. Lockstep'
  BY DEF IInv, Lockstep, WriterDone, EngineDone, Updated, PutNumEngines, EngineGoes,
     writerVars, workerVars
<1>4. TransportFollows'
  BY DEF IInv, TransportFollows, PutNumEngines, writerVars, workerVars
<1>5. VersionsFollow'
  BY DEF IInv, VersionsFollow, EngineDone, Updated, PutNumEngines, EngineGoes,
     writerVars, workerVars
<1>6. ValidatedFollow'
  BY DEF IInv, ValidatedFollow, Validated, Announcing, EngineDone, Updated,
     PutNumEngines, EngineGoes, writerVars, workerVars
<1>7. CheckpointFollows'
  BY DEF IInv, CheckpointFollows, Announcing, Dismissed, Has, PutNumEngines,
     EngineGoes, Put, writerVars
<1> QED
  BY <1>1, <1>2, <1>3, <1>4, <1>5, <1>6, <1>7 DEF IInv

\* it counts itself, and rests.
LEMMA AddInitedKeeps ==
  ASSUME IInv, NEW e \in Engine, AddInited(e)
  PROVE  IInv'
<1>1. TypeOK'
  BY DEF IInv, TypeOK, Key, AddInited, EngineGoes, Add, writerVars, workerVars
<1>2. WorkersFollow'
  BY RankFacts DEF IInv, WorkersFollow, Lockstep, Updated, Announcing, AddInited,
     EngineGoes, Add, writerVars, workerVars
<1>3. Lockstep'
  BY DEF IInv, Lockstep, WriterDone, EngineDone, Updated, AddInited, EngineGoes, Add,
     writerVars, workerVars
<1>4. TransportFollows'
  BY DEF IInv, TransportFollows, AddInited, Add, writerVars, workerVars
<1>5. VersionsFollow'
  BY DEF IInv, VersionsFollow, EngineDone, Updated, AddInited, EngineGoes, Add,
     writerVars, workerVars
<1>6. ValidatedFollow'
  BY DEF IInv, ValidatedFollow, Validated, Announcing, EngineDone, Updated, AddInited,
     EngineGoes, Add, writerVars, workerVars
<1>7. CheckpointFollows'
  BY DEF IInv, CheckpointFollows, Announcing, Dismissed, Has, AddInited, EngineGoes,
     Add, writerVars
<1> QED
  BY <1>1, <1>2, <1>3, <1>4, <1>5, <1>6, <1>7 DEF IInv

\* An engine begins a step when it has finished the one before.
LEMMA BeginUpdateKeeps ==
  ASSUME IInv, NEW e \in Engine, BeginUpdate(e)
  PROVE  IInv'
<1>1. TransportFollows' /\ CheckpointFollows'
  BY DEF IInv, TransportFollows, CheckpointFollows, Announcing, Dismissed, Has,
     BeginUpdate, EngineGoes, AfterReaderInit, writerVars, workerVars
<1>2. TypeOK'
  BY RankFacts DEF IInv, TypeOK, BeginUpdate, EngineGoes, AfterReaderInit, writerVars,
     workerVars
<1>3. WorkersFollow'
  BY RankFacts DEF IInv, TypeOK, WorkersFollow, Updated, Announcing, BeginUpdate,
     EngineGoes, AfterReaderInit, writerVars, workerVars
<1>4. Lockstep'
  BY RankFacts DEF IInv, TypeOK, Lockstep, WriterDone, EngineDone, Updated,
     BeginUpdate, EngineGoes, AfterReaderInit, writerVars, workerVars
<1>5. VersionsFollow'
  <2>1. /\ epc[e] = "idle" /\ \E p \in {"put_conf", "wait_load", "update"} : epc' = [epc EXCEPT ![e] = p]
        /\ estep' = [estep EXCEPT ![e] = @ + 1] /\ rpc' = rpc /\ param' = param
    BY DEF BeginUpdate, EngineGoes, AfterReaderInit, workerVars
  <2>2. EngineDone(e)' # estep'[e]
    BY <2>1 DEF EngineDone, Updated, IInv, TypeOK
  <2>3. \A f \in Engine : f # e => EngineDone(f)' = EngineDone(f) /\ estep'[f] = estep[f]
    BY <2>1 DEF EngineDone, Updated, IInv, TypeOK
  <2> QED
    BY <2>1, <2>2, <2>3, RankFacts DEF IInv, VersionsFollow
<1>6. ValidatedFollow'
  BY RankFacts DEF IInv, TypeOK, ValidatedFollow, Validated, CountAfter, Saved,
     Announcing, EngineDone, Updated, BeginUpdate, EngineGoes, AfterReaderInit,
     writerVars, workerVars
<1> QED
  BY <1>1, <1>2, <1>3, <1>4, <1>5, <1>6 DEF IInv

\* The configuration is no part of a validation,
LEMMA PutInferConfKeeps ==
  ASSUME IInv, NEW e \in Engine, PutInferConf(e)
  PROVE  IInv'
<1>1. TypeOK'
  BY DEF IInv, TypeOK, Key, PutInferConf, EngineGoes, Put, writerVars, workerVars
<1>2. WorkersFollow'
  BY DEF IInv, WorkersFollow, Updated, Announcing, PutInferConf, EngineGoes,
     writerVars, workerVars
<1>3. Lockstep'
  BY DEF IInv, Lockstep, WriterDone, EngineDone, Updated, PutInferConf, EngineGoes,
     writerVars, workerVars
<1>4. TransportFollows'
  BY DEF IInv, TransportFollows, PutInferConf, writerVars, workerVars
<1>5. VersionsFollow'
  BY DEF IInv, VersionsFollow, EngineDone, Updated, PutInferConf, EngineGoes,
     writerVars, workerVars
<1>6. ValidatedFollow'
  BY DEF IInv, ValidatedFollow, Validated, Announcing, EngineDone, Updated,
     PutInferConf, EngineGoes, writerVars, workerVars
<1>7. CheckpointFollows'
  BY DEF IInv, CheckpointFollows, Announcing, Dismissed, Has, PutInferConf, EngineGoes,
     Put, writerVars
<1> QED
  BY <1>1, <1>2, <1>3, <1>4, <1>5, <1>6, <1>7 DEF IInv

\* nor is the metadata.
LEMMA PutInferMetaKeeps ==
  ASSUME IInv, NEW e \in Engine, PutInferMeta(e)
  PROVE  IInv'
<1>1. TypeOK'
  BY DEF IInv, TypeOK, Key, PutInferMeta, EngineGoes, Put, writerVars, workerVars
<1>2. WorkersFollow'
  BY DEF IInv, WorkersFollow, Updated, Announcing, PutInferMeta, EngineGoes,
     writerVars, workerVars
<1>3. Lockstep'
  BY DEF IInv, Lockstep, WriterDone, EngineDone, Updated, PutInferMeta, EngineGoes,
     writerVars, workerVars
<1>4. TransportFollows'
  BY DEF IInv, TransportFollows, PutInferMeta, writerVars, workerVars
<1>5. VersionsFollow'
  BY DEF IInv, VersionsFollow, EngineDone, Updated, PutInferMeta, EngineGoes,
     writerVars, workerVars
<1>6. ValidatedFollow'
  BY DEF IInv, ValidatedFollow, Validated, Announcing, EngineDone, Updated,
     PutInferMeta, EngineGoes, writerVars, workerVars
<1>7. CheckpointFollows'
  BY DEF IInv, CheckpointFollows, Announcing, Dismissed, Has, PutInferMeta, EngineGoes,
     Put, writerVars
<1> QED
  BY <1>1, <1>2, <1>3, <1>4, <1>5, <1>6, <1>7 DEF IInv

\* The workers of the engine start, from rest.
LEMMA GetTrainingMetaKeeps ==
  ASSUME IInv, NEW e \in Engine, GetTrainingMeta(e)
  PROVE  IInv'
<1>1. TypeOK'
  BY DEF IInv, TypeOK, GetTrainingMeta, EngineGoes, writerVars
<1>2. WorkersFollow'
  BY RankFacts DEF IInv, TypeOK, WorkersFollow, Updated, WorkersOf, Announcing,
     GetTrainingMeta, EngineGoes, writerVars
<1>3. Lockstep'
  BY DEF IInv, Lockstep, WriterDone, EngineDone, Updated, WorkersOf, GetTrainingMeta,
     EngineGoes, writerVars
<1>4. TransportFollows'
  BY RankFacts DEF IInv, WorkersFollow, TransportFollows, WorkersOf, GetTrainingMeta,
     EngineGoes, writerVars
<1>5. VersionsFollow'
  BY DEF IInv, VersionsFollow, EngineDone, Updated, WorkersOf, GetTrainingMeta,
     EngineGoes, writerVars
<1>6. ValidatedFollow'
  BY DEF IInv, ValidatedFollow, Validated, Announcing, EngineDone, Updated, WorkersOf,
     GetTrainingMeta, EngineGoes, writerVars
<1>7. CheckpointFollows'
  BY DEF IInv, CheckpointFollows, Announcing, Dismissed, Has, GetTrainingMeta,
     EngineGoes, writerVars
<1> QED
  BY <1>1, <1>2, <1>3, <1>4, <1>5, <1>6, <1>7 DEF IInv

\* They are at rest again; the engine validates when the training ranks do.
LEMMA WorkersInitializedKeeps ==
  ASSUME IInv, NEW e \in Engine, WorkersInitialized(e)
  PROVE  IInv'
<1>1. TypeOK'
  BY DEF IInv, TypeOK, WorkersInitialized, EngineGoes, AfterReaderInit, writerVars,
     workerVars
<1>2. WorkersFollow'
  BY DEF IInv, WorkersFollow, Updated, WorkersOf, WorkersInitialized, EngineGoes,
     AfterReaderInit, writerVars, workerVars
<1>3. Lockstep'
  BY DEF IInv, Lockstep, WriterDone, EngineDone, Updated, WorkersInitialized,
     EngineGoes, AfterReaderInit, writerVars, workerVars
<1>4. TransportFollows'
  BY DEF IInv, TransportFollows, WorkersInitialized, AfterReaderInit, writerVars,
     workerVars
<1>5. VersionsFollow'
  BY DEF IInv, VersionsFollow, EngineDone, Updated, WorkersInitialized, EngineGoes,
     AfterReaderInit, writerVars, workerVars
<1>6. ValidatedFollow'
  BY DEF IInv, ValidatedFollow, Validated, Announcing, EngineDone, Updated,
     WorkersInitialized, EngineGoes, AfterReaderInit, writerVars, workerVars
<1>7. CheckpointFollows'
  BY DEF IInv, CheckpointFollows, Announcing, Dismissed, Has, WorkersInitialized,
     EngineGoes, AfterReaderInit, writerVars
<1> QED
  BY <1>1, <1>2, <1>3, <1>4, <1>5, <1>6, <1>7 DEF IInv

\* What an engine loads while the checkpoint is announced is that of its step.
LEMMA LoadCheckpointKeeps ==
  ASSUME IInv, NEW e \in Engine, LoadCheckpoint(e)
  PROVE  IInv'
<1>1. WorkersFollow' /\ Lockstep' /\ ValidatedFollow'
  BY DEF IInv, WorkersFollow, Lockstep, ValidatedFollow, Updated, WriterDone,
     EngineDone, Validated, LoadCheckpoint, EngineGoes, writerVars
<1>2. TypeOK'
  BY RankFacts DEF IInv, TypeOK, NoVersion, LoadCheckpoint, EngineGoes, writerVars
<1>3. TransportFollows'
  BY RankFacts DEF IInv, WorkersFollow, TransportFollows, WorkersOf, LoadCheckpoint,
     EngineGoes, writerVars
<1>4. VersionsFollow'
  <2>1. /\ epc[e] = "wait_load" /\ epc' = [epc EXCEPT ![e] = "add_send"]
        /\ estep' = estep /\ rpc' = rpc
        /\ \A q \in InferRank : EngineOf(q) # e => param'[q] = param[q]
    BY DEF LoadCheckpoint, EngineGoes, WorkersOf
  <2>2. \A f \in Engine : f # e => EngineDone(f)' = EngineDone(f)
    BY <2>1 DEF EngineDone, Updated, IInv, TypeOK
  <2>3. EngineDone(e)' # estep'[e]
    <3>1. epc'[e] = "add_send" /\ estep[e] \in Nat
      BY <2>1 DEF IInv, TypeOK
    <3> QED
      BY <2>1, <3>1 DEF EngineDone, Updated
  <2> QED
    BY <2>1, <2>2, <2>3, RankFacts DEF IInv, VersionsFollow
<1>5. CheckpointFollows'
  <2>1. /\ Has("weights_ready_for_load") /\ epc[e] = "wait_load" /\ epc' = [epc EXCEPT ![e] = "add_send"]
        /\ loaded' = [loaded EXCEPT ![e] = disk]
        /\ store' = store /\ disk' = disk /\ wpc' = wpc /\ wstep' = wstep /\ estep' = estep
    BY DEF LoadCheckpoint, EngineGoes, writerVars
  <2>2. wpc[0] \in {"poll_send", "delete_send", "delete_load"} /\ disk = wstep[0]
    BY <2>1 DEF IInv, CheckpointFollows
  <2>3. wstep[0] = estep[e]
    <3>1. WriterDone(0) = wstep[0] - 1 /\ EngineDone(e) = estep[e] - 1
      BY <2>1, <2>2 DEF WriterDone, EngineDone, Updated
    <3>2. wstep[0] \in Nat /\ estep[e] \in Nat
      BY RankFacts DEF IInv, TypeOK
    <3>3. WriterDone(0) = EngineDone(e)
      BY RankFacts DEF IInv, Lockstep
    <3> QED
      BY <3>1, <3>2, <3>3
  <2> QED
    BY <2>1, <2>2, <2>3 DEF IInv, TypeOK, CheckpointFollows, Has, Dismissed, Announcing
<1> QED
  BY <1>1, <1>2, <1>3, <1>4, <1>5 DEF IInv

\* An engine announces itself with the checkpoint loaded,
LEMMA AddReadyForSendKeeps ==
  ASSUME IInv, NEW e \in Engine, AddReadyForSend(e)
  PROVE  IInv'
<1>1. TypeOK'
  BY DEF IInv, TypeOK, Key, AddReadyForSend, EngineGoes, Add, writerVars, workerVars
<1>2. WorkersFollow'
  BY DEF IInv, WorkersFollow, Updated, Announcing, AddReadyForSend, EngineGoes, Add,
     writerVars, workerVars
<1>3. Lockstep'
  BY DEF IInv, Lockstep, WriterDone, EngineDone, Updated, AddReadyForSend, EngineGoes,
     Add, writerVars, workerVars
<1>4. TransportFollows'
  BY DEF IInv, TransportFollows, AddReadyForSend, Add, writerVars, workerVars
<1>5. VersionsFollow'
  BY DEF IInv, VersionsFollow, EngineDone, Updated, AddReadyForSend, EngineGoes, Add,
     writerVars, workerVars
<1>6. ValidatedFollow'
  BY DEF IInv, ValidatedFollow, Validated, Announcing, EngineDone, Updated,
     AddReadyForSend, EngineGoes, Add, writerVars, workerVars
<1>7. CheckpointFollows'
  BY DEF IInv, CheckpointFollows, Announcing, Dismissed, Has, AddReadyForSend,
     EngineGoes, Add, writerVars
<1> QED
  BY <1>1, <1>2, <1>3, <1>4, <1>5, <1>6, <1>7 DEF IInv

\* also when it has to repeat that.
LEMMA AddReadyForSendLostKeeps ==
  ASSUME IInv, NEW e \in Engine, AddReadyForSendLost(e)
  PROVE  IInv'
<1>1. /\ WorkersFollow' /\ Lockstep' /\ TransportFollows' /\ VersionsFollow'
      /\ ValidatedFollow' /\ CheckpointFollows'
  BY DEF IInv, WorkersFollow, Lockstep, TransportFollows, VersionsFollow,
     ValidatedFollow, CheckpointFollows, Updated, WriterDone, EngineDone, Validated,
     Dismissed, Has, AddReadyForSendLost, Add, writerVars, engineVars, workerVars
<1>2. TypeOK'
  <2>1. lost + 1 \in 0 .. MaxLostReplies
    BY SeparateAssumption DEF AddReadyForSendLost, IInv, TypeOK
  <2> QED
    BY <2>1 DEF IInv, TypeOK, AddReadyForSendLost, Add, writerVars, engineVars, workerVars
<1> QED
  BY <1>1, <1>2 DEF IInv

\* It reads the set,
LEMMA GetReadyForSendKeeps ==
  ASSUME IInv, NEW e \in Engine, GetReadyForSend(e)
  PROVE  IInv'
<1>1. /\ WorkersFollow' /\ Lockstep' /\ TransportFollows' /\ VersionsFollow'
      /\ ValidatedFollow' /\ CheckpointFollows'
  BY DEF IInv, WorkersFollow, Lockstep, TransportFollows, VersionsFollow,
     ValidatedFollow, CheckpointFollows, Updated, Announcing, WriterDone, EngineDone,
     Validated, Dismissed, Has, GetReadyForSend, EngineGoes, writerVars, workerVars
<1>2. TypeOK'
  BY RankFacts DEF IInv, TypeOK, Key, GetReadyForSend, EngineGoes, writerVars,
     workerVars
<1> QED
  BY <1>1, <1>2 DEF IInv

\* reads it again,
LEMMA SeeOthersReadyKeeps ==
  ASSUME IInv, NEW e \in Engine, SeeOthersReady(e)
  PROVE  IInv'
<1>1. /\ WorkersFollow' /\ Lockstep' /\ TransportFollows' /\ VersionsFollow'
      /\ ValidatedFollow' /\ CheckpointFollows'
  BY DEF IInv, WorkersFollow, Lockstep, TransportFollows, VersionsFollow,
     ValidatedFollow, CheckpointFollows, Updated, WriterDone, EngineDone, Validated,
     Dismissed, Has, SeeOthersReady, writerVars, workerVars
<1>2. TypeOK'
  BY RankFacts DEF IInv, TypeOK, Key, SeeOthersReady, writerVars, workerVars
<1> QED
  BY <1>1, <1>2 DEF IInv

\* and goes on to its update.
LEMMA LeaveReadyLoopKeeps ==
  ASSUME IInv, NEW e \in Engine, LeaveReadyLoop(e)
  PROVE  IInv'
<1>1. /\ TypeOK' /\ WorkersFollow' /\ Lockstep' /\ TransportFollows'
      /\ VersionsFollow' /\ ValidatedFollow' /\ CheckpointFollows'
  BY DEF IInv, TypeOK, WorkersFollow, Lockstep, TransportFollows, VersionsFollow,
     ValidatedFollow, CheckpointFollows, Key, Updated, Announcing, WriterDone,
     EngineDone, Validated, Saved, Dismissed, Has, LeaveReadyLoop, EngineGoes,
     writerVars, workerVars
<1> QED
  BY <1>1 DEF IInv

\* The workers start to receive.
LEMMA StartWorkersKeeps ==
  ASSUME IInv, NEW e \in Engine, StartWorkers(e)
  PROVE  IInv'
<1>1. TypeOK' /\ TransportFollows' /\ VersionsFollow' /\ CheckpointFollows'
  BY DEF IInv, TypeOK, TransportFollows, VersionsFollow, CheckpointFollows, EngineDone,
     Updated, WorkersOf, Announcing, Dismissed, Has, StartWorkers, EngineGoes,
     writerVars
<1>2. WorkersFollow'
  BY RankFacts DEF IInv, TypeOK, WorkersFollow, Updated, WorkersOf, Announcing,
     StartWorkers, EngineGoes, writerVars
<1>3. Lockstep'
  BY RankFacts DEF IInv, Lockstep, WriterDone, EngineDone, Updated, WorkersOf,
     StartWorkers, EngineGoes, writerVars
<1>4. ValidatedFollow'
  BY RankFacts DEF IInv, ValidatedFollow, Validated, Announcing, EngineDone, Updated,
     WorkersOf, StartWorkers, EngineGoes, writerVars
<1> QED
  BY <1>1, <1>2, <1>3, <1>4 DEF IInv

\* The workers are back: the engine returns after the barrier of the step.
LEMMA FinishUpdateKeeps ==
  ASSUME IInv, NEW e \in Engine, FinishUpdate(e)
  PROVE  IInv'
<1>1. Lockstep' /\ TransportFollows' /\ VersionsFollow' /\ CheckpointFollows'
  BY DEF IInv, Lockstep, TransportFollows, VersionsFollow, CheckpointFollows,
     WriterDone, EngineDone, Updated, Announcing, Dismissed, Has, FinishUpdate,
     EngineGoes, writerVars, workerVars
<1>2. TypeOK'
  <2>1. CountAfter(evalidated[e], estep[e]) \in 0 .. MaxStep
    <3>1. Updated(e)
      BY DEF FinishUpdate, EngineGoes, Updated
    <3>2. CountAfter(evalidated[e], estep[e]) <= estep[e]
      BY <3>1 DEF IInv, ValidatedFollow, Validated, EngineDone
    <3> QED
      BY <3>2, RankFacts DEF IInv, TypeOK, CountAfter
  <2>2. evalidated' = [evalidated EXCEPT ![e] = CountAfter(evalidated[e], estep[e])]
    BY DEF FinishUpdate, CountAfter, IInv, TypeOK
  <2> HIDE DEF CountAfter
  <2>3. evalidated' \in [Engine -> 0 .. MaxStep]
    BY <2>1, <2>2 DEF IInv, TypeOK
  <2>4. epc' \in [Engine -> EnginePlace]
    BY DEF FinishUpdate, EngineGoes, IInv, TypeOK
  <2> QED
    BY <2>3, <2>4 DEF IInv, TypeOK, FinishUpdate, writerVars, workerVars
<1>3. WorkersFollow'
  BY RankFacts DEF IInv, WorkersFollow, Lockstep, Updated, WorkersOf, FinishUpdate,
     EngineGoes, writerVars, workerVars
<1>4. ValidatedFollow'
  <2>1. /\ epc[e] = "wait_workers" /\ Updated(e) /\ epc' = [epc EXCEPT ![e] = "idle"]
        /\ estep' = estep /\ rpc' = rpc /\ UNCHANGED writerVars
    BY DEF FinishUpdate, EngineGoes, Updated, workerVars
  <2>2. evalidated' = [evalidated EXCEPT ![e] = CountAfter(evalidated[e], estep[e])]
    BY DEF FinishUpdate, CountAfter, IInv, TypeOK
  <2>3. \A f \in Engine : Updated(f)' <=> (Updated(f) /\ f # e)
    BY <2>1 DEF Updated, IInv, TypeOK
  <2>4. \A f \in Engine : Validated(f)' = Validated(f)
    BY <2>1, <2>2, <2>3 DEF Validated, IInv, TypeOK
  <2>5. \A f \in Engine : EngineDone(f)' = EngineDone(f)
    BY <2>1, <2>3 DEF EngineDone, IInv, TypeOK
  <2>6. \A f \in Engine : f # e => epc'[f] = epc[f] /\ evalidated'[f] = evalidated[f]
    BY <2>1, <2>2 DEF IInv, TypeOK
  <2>7. epc'[e] = "idle"
    BY <2>1 DEF IInv, TypeOK
  <2> QED
    BY <2>1, <2>4, <2>5, <2>6, <2>7 DEF IInv, ValidatedFollow, Announcing, writerVars,
       CountAfter
<1> QED
  BY <1>1, <1>2, <1>3, <1>4 DEF IInv

-----------------------------------------------------------------------------
\* The workers and the transfers.

\* The workers initialize:
LEMMA WorkerPutsMasterKeeps ==
  ASSUME IInv, WorkerPutsMaster
  PROVE  IInv'
<1>1. /\ WorkersFollow' /\ Lockstep' /\ TransportFollows' /\ VersionsFollow'
      /\ ValidatedFollow' /\ CheckpointFollows'
  BY DEF IInv, WorkersFollow, Lockstep, TransportFollows, VersionsFollow,
     ValidatedFollow, CheckpointFollows, Updated, WriterDone, EngineDone, Validated,
     Dismissed, Has, WorkerPutsMaster, WorkerGoes, Put, writerVars, engineVars
<1>2. TypeOK'
  BY RankFacts DEF IInv, TypeOK, Key, WorkerPutsMaster, WorkerGoes, Put, writerVars,
     engineVars
<1> QED
  BY <1>1, <1>2 DEF IInv

\* they read the address of the group.
LEMMA WorkerGetsMasterKeeps ==
  ASSUME IInv, NEW r \in InferRank, WorkerGetsMaster(r)
  PROVE  IInv'
<1>1. TypeOK'
  BY DEF IInv, TypeOK, WorkerGetsMaster, WorkerGoes, writerVars, engineVars
<1>2. WorkersFollow'
  BY DEF IInv, WorkersFollow, Updated, WorkerGetsMaster, WorkerGoes, writerVars,
     engineVars
<1>3. Lockstep'
  BY DEF IInv, Lockstep, WriterDone, EngineDone, Updated, WorkerGetsMaster, WorkerGoes,
     writerVars, engineVars
<1>4. TransportFollows'
  BY DEF IInv, TransportFollows, WorkerGetsMaster, WorkerGoes, writerVars
<1>5. VersionsFollow'
  BY DEF IInv, VersionsFollow, EngineDone, Updated, WorkerGetsMaster, WorkerGoes,
     writerVars, engineVars
<1>6. ValidatedFollow'
  BY DEF IInv, ValidatedFollow, Validated, EngineDone, Updated, WorkerGetsMaster,
     WorkerGoes, writerVars, engineVars
<1>7. CheckpointFollows'
  BY DEF IInv, CheckpointFollows, Dismissed, Has, WorkerGetsMaster, WorkerGoes,
     writerVars, engineVars
<1> QED
  BY <1>1, <1>2, <1>3, <1>4, <1>5, <1>6, <1>7 DEF IInv

\* A worker leaves its transport when all its transfers are over.
LEMMA WorkerBatchDoneKeeps ==
  ASSUME IInv, NEW r \in InferRank, WorkerBatchDone(r)
  PROVE  IInv'
<1>1. TypeOK'
  BY DEF IInv, TypeOK, WorkerBatchDone, WorkerGoes, writerVars, engineVars
<1>2. WorkersFollow'
  BY DEF IInv, WorkersFollow, Updated, WorkerBatchDone, WorkerGoes, writerVars,
     engineVars
<1>3. Lockstep'
  BY DEF IInv, Lockstep, WriterDone, EngineDone, Updated, WorkerBatchDone, WorkerGoes,
     writerVars, engineVars
<1>4. TransportFollows'
  BY DEF IInv, TransportFollows, WorkerBatchDone, WorkerGoes, writerVars
<1>5. VersionsFollow'
  BY DEF IInv, VersionsFollow, EngineDone, Updated, WorkerBatchDone, WorkerGoes,
     writerVars, engineVars
<1>6. ValidatedFollow'
  BY DEF IInv, ValidatedFollow, Validated, EngineDone, Updated, WorkerBatchDone,
     WorkerGoes, writerVars, engineVars
<1>7. CheckpointFollows'
  BY DEF IInv, CheckpointFollows, Dismissed, Has, WorkerBatchDone, WorkerGoes,
     writerVars, engineVars
<1> QED
  BY <1>1, <1>2, <1>3, <1>4, <1>5, <1>6, <1>7 DEF IInv

\* A transfer brings the weights of the step of its training rank.
LEMMA MoveKeeps ==
  ASSUME IInv, NEW t \in TrainRank, NEW r \in InferRank, Move(t, r)
  PROVE  IInv'
<1>1. TypeOK'
  BY DEF IInv, TypeOK, Move, writerVars, engineVars
<1>2. WorkersFollow'
  BY DEF IInv, WorkersFollow, Updated, Move, writerVars, engineVars
<1>3. Lockstep'
  BY DEF IInv, Lockstep, WriterDone, EngineDone, Updated, Move, writerVars, engineVars
<1>4. TransportFollows'
  BY RankFacts DEF IInv, TypeOK, TransportFollows, Move, writerVars
<1>5. VersionsFollow'
  <2> DEFINE e == EngineOf(r)
  <2>1. epc[e] = "wait_workers" /\ ~ Updated(e) /\ estep[e] \in Nat
    <3>1. rpc[r] = "recv" /\ e \in Engine
      BY RankFacts DEF Move
    <3>2. epc[e] = "wait_workers"
      BY <3>1 DEF IInv, TypeOK, WorkersFollow, Announcing
    <3>3. ~ Updated(e)
      BY <3>1 DEF Updated, WorkersOf
    <3> QED
      BY <3>1, <3>2, <3>3 DEF IInv, TypeOK
  <2>2. EngineDone(e) # estep[e]
    BY <2>1 DEF EngineDone
  <2>3. /\ epc' = epc /\ estep' = estep /\ rpc' = rpc
        /\ \A q \in InferRank : q # r => param'[q] = param[q]
    BY DEF Move, engineVars, IInv, TypeOK
  <2>4. \A f \in Engine : EngineDone(f)' = EngineDone(f)
    BY <2>3 DEF EngineDone, Updated
  <2> QED
    BY <2>2, <2>3, <2>4, RankFacts DEF IInv, VersionsFollow
<1>6. ValidatedFollow'
  BY DEF IInv, ValidatedFollow, Validated, EngineDone, Updated, Move, writerVars,
     engineVars
<1>7. CheckpointFollows'
  BY DEF IInv, CheckpointFollows, Dismissed, Has, Move, writerVars, engineVars
<1> QED
  BY <1>1, <1>2, <1>3, <1>4, <1>5, <1>6, <1>7 DEF IInv

-----------------------------------------------------------------------------
\* The collectives.

\* The training ranks describe their parameters together,
LEMMA GatherMetaKeeps ==
  ASSUME IInv, GatherMeta
  PROVE  IInv'
<1>1. TypeOK'
  BY DEF IInv, TypeOK, GatherMeta, engineVars, workerVars
<1>2. WorkersFollow'
  BY DEF IInv, WorkersFollow, Updated, GatherMeta, engineVars, workerVars
<1>3. Lockstep'
  BY DEF IInv, Lockstep, WriterDone, EngineDone, Updated, GatherMeta, engineVars,
     workerVars
<1>4. TransportFollows'
  BY DEF IInv, TransportFollows, GatherMeta, workerVars
<1>5. VersionsFollow'
  BY DEF IInv, VersionsFollow, EngineDone, Updated, GatherMeta, engineVars, workerVars
<1>6. ValidatedFollow'
  BY DEF IInv, ValidatedFollow, Validated, Saved, EngineDone, Updated, GatherMeta,
     engineVars, workerVars
<1>7. CheckpointFollows'
  BY RankFacts DEF IInv, CheckpointFollows, Dismissed, Has, GatherMeta, engineVars
<1> QED
  BY <1>1, <1>2, <1>3, <1>4, <1>5, <1>6, <1>7 DEF IInv

\* and learn those of the engines together.
LEMMA BroadcastMetaKeeps ==
  ASSUME IInv, BroadcastMeta
  PROVE  IInv'
<1>1. TypeOK'
  BY DEF IInv, TypeOK, BroadcastMeta, engineVars, workerVars
<1>2. WorkersFollow'
  BY DEF IInv, WorkersFollow, Updated, BroadcastMeta, engineVars, workerVars
<1>3. Lockstep'
  BY DEF IInv, Lockstep, WriterDone, EngineDone, Updated, BroadcastMeta, engineVars,
     workerVars
<1>4. TransportFollows'
  BY DEF IInv, TransportFollows, BroadcastMeta, workerVars
<1>5. VersionsFollow'
  BY DEF IInv, VersionsFollow, EngineDone, Updated, BroadcastMeta, engineVars,
     workerVars
<1>6. ValidatedFollow'
  BY DEF IInv, ValidatedFollow, Validated, Saved, EngineDone, Updated, BroadcastMeta,
     engineVars, workerVars
<1>7. CheckpointFollows'
  BY RankFacts DEF IInv, CheckpointFollows, Dismissed, Has, BroadcastMeta, engineVars
<1> QED
  BY <1>1, <1>2, <1>3, <1>4, <1>5, <1>6, <1>7 DEF IInv

\* They save the checkpoint of the step together, when no engine loads one,
LEMMA SaveCheckpointKeeps ==
  ASSUME IInv, SaveCheckpoint
  PROVE  IInv'
<1>1. /\ WorkersFollow' /\ Lockstep' /\ TransportFollows' /\ VersionsFollow'
      /\ ValidatedFollow'
  BY DEF IInv, WorkersFollow, Lockstep, TransportFollows, VersionsFollow,
     ValidatedFollow, Updated, WriterDone, EngineDone, Validated, CountAfter, Saved,
     SaveCheckpoint, engineVars, workerVars
<1>2. TypeOK'
  <2>1. /\ \A t \in TrainRank : wpc[t] = "save"
        /\ disk' = wstep[0] /\ wvalidated' = [t \in TrainRank |-> wvalidated[t] + 1]
        /\ wpc' = [t \in TrainRank |-> IF t = 0 THEN "put_load" ELSE "checked"]
        /\ UNCHANGED <<store, lost, wstep, engineVars, workerVars>>
    BY DEF SaveCheckpoint
  <2>2. ASSUME NEW t \in TrainRank PROVE wvalidated[t] + 1 \in 0 .. MaxStep
    <3>1. wvalidated[t] = Validated(0) /\ Validated(0) <= EngineDone(0) /\ WriterDone(t) = EngineDone(0)
      BY <2>1, RankFacts DEF IInv, ValidatedFollow, Lockstep, Saved
    <3>2. WriterDone(t) = wstep[t] - 1
      BY <2>1 DEF WriterDone
    <3>3. wvalidated[t] \in 0 .. MaxStep /\ wstep[t] \in 0 .. MaxStep /\ MaxStep \in Nat
      BY RankFacts DEF IInv, TypeOK
    <3> QED
      BY <3>1, <3>2, <3>3
  <2> QED
    BY <2>1, <2>2, RankFacts DEF IInv, TypeOK, engineVars, workerVars
<1>3. CheckpointFollows'
  BY RankFacts DEF IInv, CheckpointFollows, Dismissed, Has, SaveCheckpoint, engineVars
<1> QED
  BY <1>1, <1>2, <1>3 DEF IInv

\* and leave the validation together.
LEMMA LeaveValidationKeeps ==
  ASSUME IInv, LeaveValidation
  PROVE  IInv'
<1>1. TypeOK'
  BY DEF IInv, TypeOK, LeaveValidation, engineVars, workerVars
<1>2. WorkersFollow'
  BY DEF IInv, WorkersFollow, Updated, LeaveValidation, engineVars, workerVars
<1>3. Lockstep'
  BY DEF IInv, Lockstep, WriterDone, EngineDone, Updated, LeaveValidation, engineVars,
     workerVars
<1>4. TransportFollows'
  BY DEF IInv, TransportFollows, LeaveValidation, workerVars
<1>5. VersionsFollow'
  BY DEF IInv, VersionsFollow, EngineDone, Updated, LeaveValidation, engineVars,
     workerVars
<1>6. ValidatedFollow'
  BY DEF IInv, ValidatedFollow, Validated, Saved, EngineDone, Updated, LeaveValidation,
     engineVars, workerVars
<1>7. CheckpointFollows'
  BY RankFacts DEF IInv, CheckpointFollows, Dismissed, Has, LeaveValidation, engineVars
<1> QED
  BY <1>1, <1>2, <1>3, <1>4, <1>5, <1>6, <1>7 DEF IInv

\* All ranks join the group together.
LEMMA JoinGroupKeeps ==
  ASSUME IInv, JoinGroup
  PROVE  IInv'
<1>1. TypeOK'
  BY DEF IInv, TypeOK, JoinGroup, engineVars
<1>2. WorkersFollow'
  BY DEF IInv, WorkersFollow, JoinGroup, engineVars
<1>3. Lockstep'
  BY DEF IInv, Lockstep, WriterDone, EngineDone, Updated, WorkersOf, JoinGroup,
     engineVars
<1>4. TransportFollows'
  BY DEF IInv, TransportFollows, JoinGroup
<1>5. VersionsFollow'
  BY DEF IInv, VersionsFollow, EngineDone, Updated, WorkersOf, JoinGroup, engineVars
<1>6. ValidatedFollow'
  BY DEF IInv, ValidatedFollow, Validated, Saved, EngineDone, Updated, WorkersOf,
     JoinGroup, engineVars
<1>7. CheckpointFollows'
  BY RankFacts DEF IInv, CheckpointFollows, Dismissed, Has, JoinGroup, engineVars
<1> QED
  BY <1>1, <1>2, <1>3, <1>4, <1>5, <1>6, <1>7 DEF IInv

\* The last training rank and the first worker exchange a tensor.
LEMMA ShakeHandsKeeps ==
  ASSUME IInv, ShakeHands
  PROVE  IInv'
<1>1. /\ WorkersFollow' /\ Lockstep' /\ TransportFollows' /\ VersionsFollow'
      /\ ValidatedFollow' /\ CheckpointFollows'
  BY DEF IInv, WorkersFollow, Lockstep, TransportFollows, VersionsFollow,
     ValidatedFollow, CheckpointFollows, Updated, WriterDone, EngineDone, Validated,
     Saved, Dismissed, Has, ShakeHands, engineVars
<1>2. TypeOK'
  BY RankFacts DEF IInv, TypeOK, ShakeHands, engineVars
<1> QED
  BY <1>1, <1>2 DEF IInv

\* All ranks warm up together; none has transferred anything yet.
LEMMA WarmUpKeeps ==
  ASSUME IInv, WarmUp
  PROVE  IInv'
<1>1. TypeOK' /\ WorkersFollow' /\ TransportFollows'
  BY DEF IInv, TypeOK, WorkersFollow, TransportFollows, WarmUp, AfterInit, engineVars
<1>2. Lockstep'
  BY RankFacts DEF IInv, WorkersFollow, Lockstep, Updated, WriterDone, EngineDone,
     WarmUp, AfterInit, engineVars
<1>3. VersionsFollow'
  BY RankFacts DEF IInv, WorkersFollow, VersionsFollow, Updated, WorkersOf, EngineDone,
     WarmUp, engineVars
<1>4. ValidatedFollow'
  BY RankFacts DEF IInv, WorkersFollow, ValidatedFollow, Updated, EngineDone,
     Validated, CountAfter, Saved, WarmUp, AfterInit, engineVars
<1>5. CheckpointFollows'
  BY RankFacts DEF IInv, CheckpointFollows, Dismissed, Has, WarmUp, AfterInit,
     engineVars
<1> QED
  BY <1>1, <1>2, <1>3, <1>4, <1>5 DEF IInv

\* When all workers are at the barrier of the update, all engines wait for them.
LEMMA AllWait ==
  ASSUME IInv, UpdateBarrier
  PROVE  \A f \in Engine : epc[f] = "wait_workers" /\ ~ Updated(f)
<1>1. ASSUME NEW f \in Engine PROVE epc[f] = "wait_workers" /\ ~ Updated(f)
  <2>1. PICK q \in InferRank : EngineOf(q) = f
    BY RankFacts
  <2>2. rpc[q] = "barrier" /\ epc[f] \in EnginePlace
    BY DEF UpdateBarrier, IInv, TypeOK
  <2>3. epc[f] = "wait_workers"
    BY <2>1, <2>2 DEF IInv, WorkersFollow, Announcing
  <2> QED
    BY <2>1, <2>2, <2>3 DEF Updated, WorkersOf
<1> QED
  BY <1>1

\* All ranks leave the transport together, the workers with the weights of the step.
LEMMA UpdateBarrierKeeps ==
  ASSUME IInv, UpdateBarrier
  PROVE  IInv'
<1>1. TypeOK' /\ WorkersFollow' /\ TransportFollows'
  BY DEF IInv, TypeOK, WorkersFollow, TransportFollows, Updated, WorkersOf,
     UpdateBarrier, engineVars
<1>2. Lockstep'
  <2>1. \A f \in Engine : epc[f] = "wait_workers" /\ ~ Updated(f)
    BY AllWait
  <2>2. /\ epc' = epc /\ estep' = estep /\ wstep' = wstep
        /\ \A q \in InferRank : rpc'[q] = "ready"
        /\ \A t \in TrainRank : wpc[t] = "barrier" /\ wpc'[t] = "finish"
    BY DEF UpdateBarrier, engineVars
  <2>3. \A f \in Engine : Updated(f)'
    BY <2>1, <2>2 DEF Updated, WorkersOf
  <2>4. \A f \in Engine : EngineDone(f) = estep[f] - 1 /\ EngineDone(f)' = estep[f]
    BY <2>1, <2>2, <2>3 DEF EngineDone
  <2>5. \A t \in TrainRank : WriterDone(t) = wstep[t] - 1 /\ WriterDone(t)' = wstep[t]
    BY <2>2 DEF WriterDone
  <2>6. \A t \in TrainRank, f \in Engine : wstep[t] = estep[f]
    <3>1. \A t \in TrainRank, f \in Engine : WriterDone(t) = EngineDone(f)
      BY DEF IInv, Lockstep
    <3>2. \A t \in TrainRank, f \in Engine : wstep[t] \in Nat /\ estep[f] \in Nat
      BY DEF IInv, TypeOK
    <3> QED
      BY <2>4, <2>5, <3>1, <3>2
  <2> QED
    BY <2>1, <2>2, <2>4, <2>5, <2>6 DEF IInv, Lockstep
<1>3. VersionsFollow'
  <2>1. \A f \in Engine : epc[f] = "wait_workers" /\ ~ Updated(f)
    BY AllWait
  <2>2. /\ \A t \in TrainRank : wpc[t] = "barrier"
        /\ param' = param /\ estep' = estep
    BY DEF UpdateBarrier, engineVars
  <2>3. \A q \in InferRank, t \in TrainRank : param[q][t] = wstep[t]
    BY <2>2 DEF IInv, TransportFollows
  <2>4. \A t \in TrainRank, f \in Engine : wstep[t] = estep[f]
    BY <2>1, <2>2 DEF IInv, TypeOK, Lockstep, WriterDone, EngineDone
  <2> QED
    BY <2>2, <2>3, <2>4, RankFacts DEF VersionsFollow
<1>4. ValidatedFollow'
  <2>1. \A f \in Engine : epc[f] = "wait_workers" /\ ~ Updated(f)
    BY AllWait
  <2>2. /\ epc' = epc /\ estep' = estep /\ evalidated' = evalidated /\ wvalidated' = wvalidated
        /\ \A q \in InferRank : rpc'[q] = "ready"
        /\ \A t \in TrainRank : wpc[t] = "barrier" /\ wpc'[t] = "finish"
    BY DEF UpdateBarrier, engineVars
  <2>3. \A f \in Engine : Updated(f)'
    BY <2>1, <2>2 DEF Updated, WorkersOf
  <2>4. \A f \in Engine : /\ Validated(f) = evalidated[f] /\ Validated(f)' = CountAfter(evalidated[f], estep[f])
                          /\ EngineDone(f) = estep[f] - 1 /\ EngineDone(f)' = estep[f]
    BY <2>1, <2>2, <2>3 DEF Validated, EngineDone, CountAfter
  <2>5. \A t \in TrainRank, f \in Engine : wstep[t] = estep[f]
    <3>1. \A t \in TrainRank, f \in Engine : WriterDone(t) = EngineDone(f)
      BY DEF IInv, Lockstep
    <3>2. \A t \in TrainRank, f \in Engine : wstep[t] \in Nat /\ estep[f] \in Nat
      BY DEF IInv, TypeOK
    <3>3. \A t \in TrainRank : WriterDone(t) = wstep[t] - 1
      BY <2>2 DEF WriterDone
    <3> QED
      BY <2>4, <3>1, <3>2, <3>3
  <2>6. \A f \in Engine : CountAfter(evalidated[f], estep[f]) <= estep[f]
    BY <2>4 DEF CountAfter, IInv, TypeOK, ValidatedFollow
  <2> QED
    BY <2>1, <2>2, <2>4, <2>5, <2>6 DEF IInv, ValidatedFollow, Saved, Announcing
<1>5. CheckpointFollows'
  BY RankFacts DEF IInv, WorkersFollow, CheckpointFollows, Has, UpdateBarrier,
     engineVars
<1> QED
  BY <1>1, <1>2, <1>3, <1>4, <1>5 DEF IInv

-----------------------------------------------------------------------------
\* Every step keeps the inductive invariant.
LEMMA NextIInv == IInv /\ [Next]_vars => IInv'
<1> SUFFICES ASSUME IInv, [Next]_vars PROVE IInv'
  OBVIOUS
<1>1. CASE UNCHANGED vars
  <2>1. TypeOK' /\ WorkersFollow' /\ Lockstep'
    BY <1>1 DEF vars, writerVars, engineVars, workerVars, IInv, TypeOK, WorkersFollow, Lockstep,
       WriterDone, EngineDone, Updated
  <2>2. TransportFollows' /\ VersionsFollow'
    BY <1>1 DEF vars, writerVars, engineVars, workerVars, IInv, TransportFollows, VersionsFollow,
       EngineDone, Updated
  <2>3. ValidatedFollow' /\ CheckpointFollows'
    BY <1>1 DEF vars, writerVars, engineVars, workerVars, IInv, ValidatedFollow, Validated,
       EngineDone, Updated, CheckpointFollows, Has, Dismissed
  <2> QED
    BY <2>1, <2>2, <2>3 DEF IInv
<1>2. ASSUME NEW t \in TrainRank, Writer(t) PROVE IInv'
  BY <1>2, BeginWriteKeeps, WriterGetsConfKeeps, WriterGetsNumEnginesKeeps,
     WriterGetsMasterKeeps, WriterBatchDoneKeeps, FinishWriteKeeps DEF Writer
<1>3. CASE Rank0Writer
  BY <1>3, WriterPutsMetaKeeps, WriterGetsMetaKeeps, PutReadyForLoadKeeps,
     SeeAllReadyKeeps, DeleteReadyForSendKeeps, DeleteReadyForLoadKeeps DEF Rank0Writer
<1>4. ASSUME NEW e \in Engine, Reader(e) PROVE IInv'
  BY <1>4, PutNumEnginesKeeps, AddInitedKeeps, BeginUpdateKeeps, PutInferConfKeeps,
     PutInferMetaKeeps, GetTrainingMetaKeeps, WorkersInitializedKeeps,
     LoadCheckpointKeeps, AddReadyForSendKeeps, AddReadyForSendLostKeeps,
     GetReadyForSendKeeps, SeeOthersReadyKeeps, LeaveReadyLoopKeeps, StartWorkersKeeps,
     FinishUpdateKeeps DEF Reader
<1>5. CASE WorkerPutsMaster
  BY <1>5, WorkerPutsMasterKeeps
<1>6. ASSUME NEW r \in InferRank, Worker(r) PROVE IInv'
  BY <1>6, WorkerGetsMasterKeeps, WorkerBatchDoneKeeps DEF Worker
<1>7. ASSUME NEW t \in TrainRank, NEW r \in InferRank, Move(t, r) PROVE IInv'
  BY <1>7, MoveKeeps
<1>8. CASE Collective
  BY <1>8, GatherMetaKeeps, BroadcastMetaKeeps, SaveCheckpointKeeps,
     LeaveValidationKeeps, JoinGroupKeeps, ShakeHandsKeeps, WarmUpKeeps,
     UpdateBarrierKeeps DEF Collective
<1>9. CASE Stop
  BY <1>9, <1>1 DEF Stop
<1> QED
  BY <1>1, <1>2, <1>3, <1>4, <1>5, <1>6, <1>7, <1>8, <1>9 DEF Next

\* It holds in every state of every behaviour.
LEMMA Invariance == Spec => []IInv
  BY InitIInv, NextIInv, PTL DEF Spec

\* An engine whose update is over has done as many as any other: the others are in
\* that step, or between it and the next, or in the next.
LEMMA OverForAll == IInv => UpdateIsGlobal
<1> SUFFICES ASSUME IInv, NEW e \in Engine, Updated(e), NEW r \in InferRank
             PROVE  estep[EngineOf(r)] > estep[e] \/ \A t \in TrainRank : param[r][t] = estep[e]
  BY DEF UpdateIsGlobal
<1> DEFINE f == EngineOf(r)
<1>1. f \in Engine /\ 0 \in TrainRank
  BY RankFacts
<1>2. EngineDone(e) = estep[e] /\ EngineDone(f) = EngineDone(e)
  <2>1. WriterDone(0) = EngineDone(e) /\ WriterDone(0) = EngineDone(f)
    BY <1>1 DEF IInv, Lockstep
  <2> QED
    BY <2>1 DEF EngineDone
<1>3. EngineDone(f) = estep[f] \/ estep[f] > EngineDone(f)
  BY <1>1 DEF EngineDone, IInv, TypeOK
<1>4. CASE EngineDone(f) = estep[f]
  BY <1>2, <1>4 DEF IInv, VersionsFollow
<1> QED
  BY <1>2, <1>3, <1>4

\* Only the load of a checkpoint and a transfer write parameters.
LEMMA OnlyTwoWrite ==
  ASSUME IInv, [Next]_vars, NEW r \in InferRank, param'[r] # param[r]
  PROVE  epc[EngineOf(r)] \in {"wait_load", "wait_workers"}
<1>1. CASE UNCHANGED vars
  BY <1>1 DEF vars, workerVars
<1>2. ASSUME NEW t \in TrainRank, Writer(t) PROVE UNCHANGED param
  BY <1>2 DEF Writer, BeginWrite, WriterGetsConf, WriterGetsNumEngines, WriterGetsMaster, WaitKey,
     WriterBatchDone, FinishWrite, workerVars
<1>3. CASE Rank0Writer
  BY <1>3 DEF Rank0Writer, WriterPutsMeta, WriterGetsMeta, WaitKey, PutReadyForLoad, SeeAllReady,
     DeleteReadyForSend, DeleteReadyForLoad, workerVars
<1>4. ASSUME NEW e \in Engine, Reader(e), ~ LoadCheckpoint(e) PROVE UNCHANGED param
  BY <1>4 DEF Reader, PutNumEngines, AddInited, BeginUpdate, PutInferConf, PutInferMeta, GetTrainingMeta,
     WorkersInitialized, AddReadyForSend, AddReadyForSendLost, GetReadyForSend, SeeOthersReady,
     LeaveReadyLoop, StartWorkers, FinishUpdate, workerVars
<1>5. ASSUME NEW e \in Engine, LoadCheckpoint(e) PROVE EngineOf(r) = e /\ epc[e] = "wait_load"
  BY <1>5 DEF LoadCheckpoint, EngineGoes, WorkersOf
<1>6. CASE WorkerPutsMaster
  BY <1>6 DEF WorkerPutsMaster
<1>7. ASSUME NEW q \in InferRank, Worker(q) PROVE UNCHANGED param
  BY <1>7 DEF Worker, WorkerGetsMaster, WorkerBatchDone
<1>8. ASSUME NEW t \in TrainRank, NEW q \in InferRank, Move(t, q)
      PROVE  epc[EngineOf(r)] = "wait_workers"
  <2>1. q = r /\ rpc[r] = "recv"
    BY <1>8 DEF Move, IInv, TypeOK
  <2>2. EngineOf(r) \in Engine
    BY RankFacts
  <2> QED
    BY <2>1, <2>2 DEF IInv, TypeOK, WorkersFollow, Announcing
<1>9. CASE Collective
  BY <1>9 DEF Collective, GatherMeta, BroadcastMeta, SaveCheckpoint, LeaveValidation, JoinGroup,
     ShakeHands, WarmUp, UpdateBarrier, workerVars
<1>10. CASE Stop
  BY <1>10 DEF Stop, vars, workerVars
<1> QED
  BY <1>1, <1>2, <1>3, <1>4, <1>5, <1>6, <1>7, <1>8, <1>9, <1>10 DEF Next

\* An engine that has announced itself loaded the step it is in.
LEMMA LoadsCurrent == IInv => LoadsCurrentCheckpoint
  BY DEF IInv, CheckpointFollows, Announcing, LoadsCurrentCheckpoint

-----------------------------------------------------------------------------
\* While few replies are lost, the set that was brought back does not fill.
LEMMA NeverFull ==
  ASSUME RInv, Dismissed
  PROVE  ReadyEngines # Engine
<1>1. ReadyEngines \subseteq Resent /\ Resent \in SUBSET (Engine \cup {0})
  BY DEF Resent, ReadyEngines, RInv, IInv, TypeOK, Key
<1>2. Engine \cup {0} = Engine /\ MaxLostReplies \in Nat /\ NumEngines \in Nat
  BY RankFacts, SeparateAssumption
<1>3. Cardinality(ReadyEngines) <= lost /\ lost < NumEngines
  <2>1. Cardinality(Resent) <= lost /\ lost \in 0 .. MaxLostReplies /\ MaxLostReplies < NumEngines
    BY DEF RInv, ResentCounted, FewLost, IInv, TypeOK
  <2>2. Cardinality(ReadyEngines) \in Nat /\ Cardinality(Resent) \in Nat
        /\ Cardinality(ReadyEngines) <= Cardinality(Resent)
    BY <1>1, <1>2, FewerEngines
  <2> QED
    BY <1>2, <2>1, <2>2
<1>4. ReadyEngines \in SUBSET Engine /\ lost \in Nat /\ Cardinality(ReadyEngines) \in Nat
  BY <1>1, <1>2, EnginesCounted DEF RInv, IInv, TypeOK
<1>5. Cardinality(ReadyEngines) # NumEngines
  BY <1>2, <1>3, <1>4
<1> QED
  BY <1>4, <1>5, EnginesCounted

\* What is left of the set costs nothing.
LEMMA CountedStill ==
  ASSUME RInv, TypeOK', Resent' \subseteq Resent, lost' = lost
  PROVE  ResentCounted'
<1>1. Resent \in SUBSET Engine
  BY RankFacts DEF Resent, ReadyEngines, RInv, IInv, TypeOK, Key
<1>2. Cardinality(Resent') \in Nat /\ Cardinality(Resent) \in Nat
      /\ Cardinality(Resent') <= Cardinality(Resent)
  BY <1>1, FewerEngines
<1> QED
  BY <1>2 DEF RInv, ResentCounted, IInv, TypeOK

\* At the start the set is empty.
LEMMA InitRInv == Init /\ FewLost => RInv
<1> SUFFICES ASSUME Init, FewLost PROVE RInv
  OBVIOUS
<1>1. ReadyFollows
  BY RankFacts DEF Init, ReadyFollows, ReadyEngines, Dismissed, Key
<1>2. ResentCounted
  <2>1. Resent = {} /\ lost = 0
    BY RankFacts DEF Init, Resent, ReadyEngines, Dismissed, Key
  <2> QED
    BY <2>1, FS_EmptySet DEF ResentCounted
<1> QED
  BY <1>1, <1>2, InitIInv DEF RInv

\* The step of each process, again with its part in the set of ready engines.
\* A training rank enters a step with the set empty.
LEMMA BeginWriteKeepsReady ==
  ASSUME RInv, NEW t \in TrainRank, BeginWrite(t)
  PROVE  RInv'
<1>1. IInv'
  BY BeginWriteKeeps DEF RInv
<1>2. ReadyFollows'
  BY RankFacts DEF RInv, IInv, TypeOK, ValidatedFollow, CheckpointFollows,
     ReadyFollows, ReadyEngines, Dismissed, Updated, WorkersOf, Validated, Key, Saved,
     CountAfter, BeginWrite, WriterGoes, AfterInit, engineVars, workerVars
<1>3. ResentCounted'
  BY <1>1, CountedStill, RankFacts DEF RInv, IInv, TypeOK, CheckpointFollows,
     ReadyFollows, ReadyEngines, Dismissed, Announcing, Resent, Key, BeginWrite,
     WriterGoes, AfterInit, engineVars
<1> QED
  BY <1>1, <1>2, <1>3 DEF RInv

\* A training rank that reads a key changes its place only:
LEMMA WriterGetsConfKeepsReady ==
  ASSUME RInv, NEW t \in TrainRank, WriterGetsConf(t)
  PROVE  RInv'
<1>1. IInv'
  BY WriterGetsConfKeeps DEF RInv
<1>2. ReadyFollows'
  BY DEF RInv, ReadyFollows, ReadyEngines, Dismissed, Updated, Validated,
     WriterGetsConf, WaitKey, WriterGoes, engineVars, workerVars
<1>3. ResentCounted'
  BY <1>1, CountedStill DEF RInv, IInv, Resent, ReadyEngines, Dismissed,
     WriterGetsConf, WaitKey, WriterGoes, engineVars
<1> QED
  BY <1>1, <1>2, <1>3 DEF RInv

\* the number of engines,
LEMMA WriterGetsNumEnginesKeepsReady ==
  ASSUME RInv, NEW t \in TrainRank, WriterGetsNumEngines(t)
  PROVE  RInv'
<1>1. IInv'
  BY WriterGetsNumEnginesKeeps DEF RInv
<1>2. ReadyFollows'
  BY DEF RInv, ReadyFollows, ReadyEngines, Dismissed, Updated, Validated,
     WriterGetsNumEngines, WaitKey, WriterGoes, engineVars, workerVars
<1>3. ResentCounted'
  BY <1>1, CountedStill DEF RInv, IInv, Resent, ReadyEngines, Dismissed,
     WriterGetsNumEngines, WaitKey, WriterGoes, engineVars
<1> QED
  BY <1>1, <1>2, <1>3 DEF RInv

\* the address of the group.
LEMMA WriterGetsMasterKeepsReady ==
  ASSUME RInv, NEW t \in TrainRank, WriterGetsMaster(t)
  PROVE  RInv'
<1>1. IInv'
  BY WriterGetsMasterKeeps DEF RInv
<1>2. ReadyFollows'
  BY DEF RInv, ReadyFollows, ReadyEngines, Dismissed, Updated, Validated,
     WriterGetsMaster, WaitKey, WriterGoes, engineVars, workerVars
<1>3. ResentCounted'
  BY <1>1, CountedStill DEF RInv, IInv, Resent, ReadyEngines, Dismissed,
     WriterGetsMaster, WaitKey, WriterGoes, engineVars
<1> QED
  BY <1>1, <1>2, <1>3 DEF RInv

\* A training rank leaves its transport when all its transfers are over.
LEMMA WriterBatchDoneKeepsReady ==
  ASSUME RInv, NEW t \in TrainRank, WriterBatchDone(t)
  PROVE  RInv'
<1>1. IInv'
  BY WriterBatchDoneKeeps DEF RInv
<1>2. ReadyFollows'
  BY DEF RInv, ReadyFollows, ReadyEngines, Dismissed, Updated, Validated,
     WriterBatchDone, WriterGoes, engineVars, workerVars
<1>3. ResentCounted'
  BY <1>1, CountedStill DEF RInv, IInv, Resent, ReadyEngines, Dismissed,
     WriterBatchDone, WriterGoes, engineVars
<1> QED
  BY <1>1, <1>2, <1>3 DEF RInv

\* It returns after the barrier.
LEMMA FinishWriteKeepsReady ==
  ASSUME RInv, NEW t \in TrainRank, FinishWrite(t)
  PROVE  RInv'
<1>1. IInv'
  BY FinishWriteKeeps DEF RInv
<1>2. ReadyFollows'
  BY DEF RInv, ReadyFollows, ReadyEngines, Dismissed, Updated, Validated, FinishWrite,
     WriterGoes, engineVars, workerVars
<1>3. ResentCounted'
  BY <1>1, CountedStill DEF RInv, IInv, Resent, ReadyEngines, Dismissed, FinishWrite,
     WriterGoes, engineVars
<1> QED
  BY <1>1, <1>2, <1>3 DEF RInv

\* The metadata of the training side is no part of a validation,
LEMMA WriterPutsMetaKeepsReady ==
  ASSUME RInv, WriterPutsMeta
  PROVE  RInv'
<1>1. IInv'
  BY WriterPutsMetaKeeps DEF RInv
<1>2. ReadyFollows'
  BY DEF RInv, ReadyFollows, ReadyEngines, Dismissed, WriterPutsMeta, WriterGoes, Put
<1>3. ResentCounted'
  BY <1>1, CountedStill DEF RInv, IInv, Resent, ReadyEngines, Dismissed,
     WriterPutsMeta, WriterGoes, Put, engineVars
<1> QED
  BY <1>1, <1>2, <1>3 DEF RInv

\* nor is that of the engines.
LEMMA WriterGetsMetaKeepsReady ==
  ASSUME RInv, WriterGetsMeta
  PROVE  RInv'
<1>1. IInv'
  BY WriterGetsMetaKeeps DEF RInv
<1>2. ReadyFollows'
  BY DEF RInv, ReadyFollows, ReadyEngines, Dismissed, WriterGetsMeta, WaitKey,
     WriterGoes
<1>3. ResentCounted'
  BY <1>1, CountedStill DEF RInv, IInv, Resent, ReadyEngines, Dismissed,
     WriterGetsMeta, WaitKey, WriterGoes, engineVars
<1> QED
  BY <1>1, <1>2, <1>3 DEF RInv

\* The checkpoint on disk is that of the step when it is announced.
LEMMA PutReadyForLoadKeepsReady ==
  ASSUME RInv, PutReadyForLoad
  PROVE  RInv'
<1>1. IInv'
  BY PutReadyForLoadKeeps DEF RInv
<1>2. ReadyFollows'
  BY DEF RInv, ReadyFollows, ReadyEngines, Dismissed, PutReadyForLoad, WriterGoes, Put
<1>3. ResentCounted'
  BY <1>1, CountedStill DEF RInv, IInv, Resent, ReadyEngines, Dismissed,
     PutReadyForLoad, WriterGoes, Put, engineVars
<1> QED
  BY <1>1, <1>2, <1>3 DEF RInv

\* Rank 0 has seen the set full.
LEMMA SeeAllReadyKeepsReady ==
  ASSUME RInv, SeeAllReady
  PROVE  RInv'
<1>1. IInv'
  BY SeeAllReadyKeeps DEF RInv
<1>2. ReadyFollows'
  <2>1. Cardinality(ReadyEngines) = NumEngines /\ ReadyEngines \in SUBSET Engine
    BY RankFacts DEF SeeAllReady, ReadyEngines, RInv, IInv, TypeOK, Key
  <2>2. ReadyEngines = Engine
    BY <2>1, EnginesCounted
  <2>3. /\ wpc[0] = "poll_send" /\ wpc'[0] = "delete_send" /\ store' = store
        /\ epc' = epc /\ estep' = estep /\ loaded' = loaded /\ rpc' = rpc
    BY RankFacts DEF SeeAllReady, WriterGoes, workerVars, engineVars, RInv, IInv, TypeOK
  <2> QED
    BY <2>2, <2>3 DEF RInv, ReadyFollows, ReadyEngines, Dismissed, Updated
<1>3. ResentCounted'
  BY <1>1, CountedStill DEF RInv, IInv, Resent, ReadyEngines, Dismissed, SeeAllReady,
     WriterGoes, engineVars
<1> QED
  BY <1>1, <1>2, <1>3 DEF RInv

\* Only requests that were repeated can bring the set back,
LEMMA DeleteReadyForSendKeepsReady ==
  ASSUME RInv, DeleteReadyForSend
  PROVE  RInv'
<1>1. IInv'
  BY DeleteReadyForSendKeeps DEF RInv
<1>2. ReadyFollows'
  BY RankFacts DEF RInv, IInv, TypeOK, ReadyFollows, ReadyEngines, Updated, Validated,
     Key, DeleteReadyForSend, WriterGoes, Delete, engineVars, workerVars
<1>3. ResentCounted'
  BY <1>1, CountedStill, RankFacts DEF RInv, IInv, TypeOK, ReadyFollows, ReadyEngines,
     Resent, Key, DeleteReadyForSend, WriterGoes, Delete, engineVars
<1> QED
  BY <1>1, <1>2, <1>3 DEF RInv

\* then the announcement of the checkpoint.
LEMMA DeleteReadyForLoadKeepsReady ==
  ASSUME RInv, DeleteReadyForLoad
  PROVE  RInv'
<1>1. IInv'
  BY DeleteReadyForLoadKeeps DEF RInv
<1>2. ReadyFollows'
  BY DEF RInv, ReadyFollows, ReadyEngines, Dismissed, Updated, Validated,
     DeleteReadyForLoad, WriterGoes, Delete, engineVars, workerVars
<1>3. ResentCounted'
  BY <1>1, CountedStill DEF RInv, IInv, Resent, ReadyEngines, Dismissed,
     DeleteReadyForLoad, WriterGoes, Delete, engineVars
<1> QED
  BY <1>1, <1>2, <1>3 DEF RInv

\* The initialization of an engine is before its first step:
LEMMA PutNumEnginesKeepsReady ==
  ASSUME RInv, NEW e \in Engine, PutNumEngines(e)
  PROVE  RInv'
<1>1. IInv'
  BY PutNumEnginesKeeps DEF RInv
<1>2. ReadyFollows'
  BY DEF RInv, ReadyFollows, ReadyEngines, Dismissed, Announcing, Updated, Validated,
     PutNumEngines, EngineGoes, Put, writerVars, workerVars
<1>3. ResentCounted'
  BY <1>1, CountedStill DEF RInv, IInv, Resent, ReadyEngines, Dismissed, PutNumEngines,
     EngineGoes, Put, writerVars
<1> QED
  BY <1>1, <1>2, <1>3 DEF RInv

\* it counts itself, and rests.
LEMMA AddInitedKeepsReady ==
  ASSUME RInv, NEW e \in Engine, AddInited(e)
  PROVE  RInv'
<1>1. IInv'
  BY AddInitedKeeps DEF RInv
<1>2. ReadyFollows'
  BY DEF RInv, ReadyFollows, ReadyEngines, Dismissed, Announcing, Updated, Validated,
     AddInited, EngineGoes, Add, writerVars, workerVars
<1>3. ResentCounted'
  BY <1>1, CountedStill DEF RInv, IInv, Resent, ReadyEngines, Dismissed, AddInited,
     EngineGoes, Add, writerVars
<1> QED
  BY <1>1, <1>2, <1>3 DEF RInv

\* An engine begins a step when it has finished the one before.
LEMMA BeginUpdateKeepsReady ==
  ASSUME RInv, NEW e \in Engine, BeginUpdate(e)
  PROVE  RInv'
<1>1. IInv'
  BY BeginUpdateKeeps DEF RInv
<1>2. ReadyFollows'
  BY DEF RInv, ReadyFollows, ReadyEngines, Dismissed, Announcing, Updated, Validated,
     BeginUpdate, EngineGoes, AfterReaderInit, writerVars, workerVars
<1>3. ResentCounted'
  BY <1>1, CountedStill DEF RInv, IInv, Resent, ReadyEngines, Dismissed, BeginUpdate,
     EngineGoes, AfterReaderInit, writerVars
<1> QED
  BY <1>1, <1>2, <1>3 DEF RInv

\* The configuration is no part of a validation,
LEMMA PutInferConfKeepsReady ==
  ASSUME RInv, NEW e \in Engine, PutInferConf(e)
  PROVE  RInv'
<1>1. IInv'
  BY PutInferConfKeeps DEF RInv
<1>2. ReadyFollows'
  BY DEF RInv, ReadyFollows, ReadyEngines, Dismissed, Announcing, Updated, Validated,
     PutInferConf, EngineGoes, Put, writerVars, workerVars
<1>3. ResentCounted'
  BY <1>1, CountedStill DEF RInv, IInv, Resent, ReadyEngines, Dismissed, PutInferConf,
     EngineGoes, Put, writerVars
<1> QED
  BY <1>1, <1>2, <1>3 DEF RInv

\* nor is the metadata.
LEMMA PutInferMetaKeepsReady ==
  ASSUME RInv, NEW e \in Engine, PutInferMeta(e)
  PROVE  RInv'
<1>1. IInv'
  BY PutInferMetaKeeps DEF RInv
<1>2. ReadyFollows'
  BY DEF RInv, ReadyFollows, ReadyEngines, Dismissed, Announcing, Updated, Validated,
     PutInferMeta, EngineGoes, Put, writerVars, workerVars
<1>3. ResentCounted'
  BY <1>1, CountedStill DEF RInv, IInv, Resent, ReadyEngines, Dismissed, PutInferMeta,
     EngineGoes, Put, writerVars
<1> QED
  BY <1>1, <1>2, <1>3 DEF RInv

\* The workers of the engine start, from rest.
LEMMA GetTrainingMetaKeepsReady ==
  ASSUME RInv, NEW e \in Engine, GetTrainingMeta(e)
  PROVE  RInv'
<1>1. IInv'
  BY GetTrainingMetaKeeps DEF RInv
<1>2. ReadyFollows'
  BY DEF RInv, ReadyFollows, ReadyEngines, Dismissed, Announcing, Updated, WorkersOf,
     Validated, GetTrainingMeta, EngineGoes, writerVars
<1>3. ResentCounted'
  BY <1>1, CountedStill DEF RInv, IInv, Resent, ReadyEngines, Dismissed,
     GetTrainingMeta, EngineGoes, writerVars
<1> QED
  BY <1>1, <1>2, <1>3 DEF RInv

\* They are at rest again; the engine validates when the training ranks do.
LEMMA WorkersInitializedKeepsReady ==
  ASSUME RInv, NEW e \in Engine, WorkersInitialized(e)
  PROVE  RInv'
<1>1. IInv'
  BY WorkersInitializedKeeps DEF RInv
<1>2. ReadyFollows'
  BY DEF RInv, ReadyFollows, ReadyEngines, Dismissed, Announcing, Updated, Validated,
     WorkersInitialized, EngineGoes, AfterReaderInit, writerVars, workerVars
<1>3. ResentCounted'
  BY <1>1, CountedStill DEF RInv, IInv, Resent, ReadyEngines, Dismissed,
     WorkersInitialized, EngineGoes, AfterReaderInit, writerVars
<1> QED
  BY <1>1, <1>2, <1>3 DEF RInv

\* No engine loads a checkpoint behind rank 0.
LEMMA LoadCheckpointKeepsReady ==
  ASSUME RInv, NEW e \in Engine, LoadCheckpoint(e)
  PROVE  RInv'
<1>1. IInv'
  BY LoadCheckpointKeeps DEF RInv
<1>2. ReadyFollows'
  BY DEF RInv, ReadyFollows, ReadyEngines, Dismissed, Announcing, Updated, Validated,
     LoadCheckpoint, EngineGoes, writerVars
<1>3. ResentCounted'
  <2>1. /\ epc[e] = "wait_load" /\ epc' = [epc EXCEPT ![e] = "add_send"]
        /\ store' = store /\ lost' = lost /\ wpc' = wpc /\ Has("weights_ready_for_load")
    BY DEF LoadCheckpoint, EngineGoes, writerVars
  <2>2. ~ Updated(e) /\ Validates(Validated(e), estep[e])
    BY <2>1 DEF Updated, Validated, RInv, IInv, ValidatedFollow
  <2>3. wpc[0] = "delete_load" => wstep[0] = estep[e]
    <3>1. WriterDone(0) = EngineDone(e) /\ wstep[0] \in Nat /\ estep[e] \in Nat
      BY RankFacts DEF RInv, IInv, TypeOK, Lockstep
    <3> QED
      BY <2>1, <2>2, <3>1 DEF WriterDone, EngineDone
  <2>4. ~ Dismissed
    BY <2>1, <2>2, <2>3 DEF RInv, IInv, ReadyFollows, CheckpointFollows, Dismissed, Announcing
  <2>5. e \notin ReadyEngines
    BY <2>1, <2>4 DEF RInv, ReadyFollows, Announcing
  <2>6. Resent' \subseteq Resent
    BY <2>1, <2>4, <2>5 DEF Resent, ReadyEngines, Dismissed, RInv, IInv, TypeOK
  <2> QED
    BY <2>1, <2>6, <1>1, CountedStill DEF IInv
<1> QED
  BY <1>1, <1>2, <1>3 DEF RInv

\* an engine is in the set,
LEMMA AddReadyForSendKeepsReady ==
  ASSUME RInv, NEW e \in Engine, AddReadyForSend(e)
  PROVE  RInv'
<1>1. IInv'
  BY AddReadyForSendKeeps DEF RInv
<1>2. ReadyFollows'
  BY RankFacts DEF RInv, IInv, TypeOK, WorkersFollow, CheckpointFollows, ReadyFollows,
     ReadyEngines, Dismissed, Announcing, Updated, WorkersOf, Validated, Key,
     AddReadyForSend, EngineGoes, Add, writerVars, workerVars
<1>3. ResentCounted'
  BY <1>1, CountedStill DEF RInv, IInv, TypeOK, Resent, ReadyEngines, Dismissed, Key,
     AddReadyForSend, EngineGoes, Add, writerVars
<1> QED
  BY <1>1, <1>2, <1>3 DEF RInv

\* in it again, at the price of a reply,
LEMMA AddReadyForSendLostKeepsReady ==
  ASSUME RInv, NEW e \in Engine, AddReadyForSendLost(e)
  PROVE  RInv'
<1>1. IInv'
  BY AddReadyForSendLostKeeps DEF RInv
<1>2. ReadyFollows'
  BY RankFacts DEF RInv, IInv, TypeOK, WorkersFollow, CheckpointFollows, ReadyFollows,
     ReadyEngines, Dismissed, Announcing, Updated, Validated, Key, AddReadyForSendLost,
     Add, writerVars, engineVars, workerVars
<1>3. ResentCounted'
  <2>1. /\ epc[e] = "add_send" /\ epc' = epc /\ wpc' = wpc /\ lost' = lost + 1
        /\ ReadyEngines' = ReadyEngines \cup {e}
    BY DEF AddReadyForSendLost, Add, ReadyEngines, writerVars, engineVars, RInv, IInv,
       TypeOK, Key
  <2>2. Resent' = Resent \cup {e}
    BY <2>1 DEF Resent, Dismissed
  <2>3. IsFiniteSet(Resent) /\ Cardinality(Resent) \in Nat
    <3>1. Resent \in SUBSET Engine
      BY RankFacts DEF Resent, ReadyEngines, RInv, IInv, TypeOK, Key
    <3> QED
      BY <3>1, EnginesCounted
  <2>4. Cardinality(Resent \cup {e}) = Cardinality(Resent)
        \/ Cardinality(Resent \cup {e}) = Cardinality(Resent) + 1
    BY <2>3, FS_AddElement
  <2> QED
    BY <2>1, <2>2, <2>3, <2>4 DEF ResentCounted, RInv, IInv, TypeOK
<1> QED
  BY <1>1, <1>2, <1>3 DEF RInv

\* reads it, and is in what it reads,
LEMMA GetReadyForSendKeepsReady ==
  ASSUME RInv, NEW e \in Engine, GetReadyForSend(e)
  PROVE  RInv'
<1>1. IInv'
  BY GetReadyForSendKeeps DEF RInv
<1>2. ReadyFollows'
  <2>1. /\ epc[e] = "get_send" /\ store' = store /\ wpc' = wpc /\ wstep' = wstep /\ estep' = estep
        /\ loaded' = loaded /\ rpc' = rpc /\ evalidated' = evalidated
        /\ epc' = [epc EXCEPT ![e] = IF ReadyEngines # {} THEN "loop_send" ELSE "crashed"]
        /\ ready' = [ready EXCEPT ![e] = ReadyEngines]
    BY DEF GetReadyForSend, EngineGoes, Has, ReadyEngines, writerVars, workerVars
  <2>2. \A f \in Engine : ~ Updated(e) /\ ~ Updated(e)' /\ Updated(f)' = Updated(f) /\ Validated(f)' = Validated(f)
    BY <2>1 DEF Updated, Validated, RInv, IInv, TypeOK
  <2>3. e \in ReadyEngines => epc'[e] = "loop_send"
    BY <2>1 DEF RInv, IInv, TypeOK
  <2>4. Dismissed => ReadyEngines # Engine
    BY NeverFull
  <2>5. Dismissed' = Dismissed /\ ReadyEngines' = ReadyEngines
    BY <2>1 DEF Dismissed, ReadyEngines
  <2>6. \A f \in Engine :
          /\ f # e => epc'[f] = epc[f] /\ ready'[f] = ready[f]
          /\ epc'[e] \in {"loop_send", "crashed"} /\ ready'[e] = ReadyEngines
    BY <2>1 DEF RInv, IInv, TypeOK
  <2>7. Dismissed => \A f \in ReadyEngines : epc'[f] \in Announcing /\ (epc'[f] = "loop_send" => ready'[f] # Engine)
    <3> SUFFICES ASSUME Dismissed, NEW f \in ReadyEngines
                 PROVE  epc'[f] \in Announcing /\ (epc'[f] = "loop_send" => ready'[f] # Engine)
      OBVIOUS
    <3>1. f \in Engine
      BY RankFacts DEF ReadyEngines, RInv, IInv, TypeOK, Key
    <3> QED
      BY <2>3, <2>4, <2>6, <3>1 DEF RInv, ReadyFollows, Announcing
  <2>8. ~ Dismissed => \A f \in ReadyEngines :
          /\ wpc[0] \in {"poll_send", "delete_send"}
          /\ epc'[f] \in {"update", "wait_workers"} \cup Announcing
          /\ ~ Updated(f)' /\ loaded'[f] = estep'[f]
    <3> SUFFICES ASSUME ~ Dismissed, NEW f \in ReadyEngines
                 PROVE  /\ wpc[0] \in {"poll_send", "delete_send"}
                        /\ epc'[f] \in {"update", "wait_workers"} \cup Announcing
                        /\ ~ Updated(f)' /\ loaded'[f] = estep'[f]
      OBVIOUS
    <3>1. f \in Engine
      BY RankFacts DEF ReadyEngines, RInv, IInv, TypeOK, Key
    <3> QED
      BY <2>1, <2>2, <2>3, <2>6, <3>1 DEF RInv, ReadyFollows, Announcing
  <2>9. Dismissed => \A f \in Engine : Validates(Validated(f)', wstep'[0]) =>
          /\ epc'[f] \in {"crashed", "update", "wait_workers"} \cup Announcing
          /\ ~ Updated(f)' /\ loaded'[f] = estep'[f]
    BY <2>1, <2>2, <2>6 DEF RInv, ReadyFollows, Announcing
  <2>10. wpc[0] = "delete_send" => ReadyEngines = Engine
    BY DEF RInv, ReadyFollows
  <2> QED
    BY <2>1, <2>5, <2>7, <2>8, <2>9, <2>10 DEF ReadyFollows, Validates, Announcing
<1>3. ResentCounted'
  BY <1>1, CountedStill DEF RInv, IInv, Resent, ReadyEngines, Dismissed,
     GetReadyForSend, EngineGoes, writerVars
<1> QED
  BY <1>1, <1>2, <1>3 DEF RInv

\* reads it again,
LEMMA SeeOthersReadyKeepsReady ==
  ASSUME RInv, NEW e \in Engine, SeeOthersReady(e)
  PROVE  RInv'
<1>1. IInv'
  BY SeeOthersReadyKeeps DEF RInv
<1>2. ReadyFollows'
  <2>1. /\ epc[e] = "loop_send" /\ store' = store /\ wpc' = wpc /\ wstep' = wstep /\ estep' = estep
        /\ loaded' = loaded /\ rpc' = rpc /\ evalidated' = evalidated /\ epc' = epc
        /\ ready' = [ready EXCEPT ![e] = ReadyEngines]
    BY DEF SeeOthersReady, Has, ReadyEngines, writerVars, workerVars
  <2>2. Dismissed => ReadyEngines # Engine
    BY NeverFull
  <2> QED
    BY <2>1, <2>2 DEF RInv, ReadyFollows, Announcing, Dismissed, ReadyEngines, Updated,
       Validated, IInv, TypeOK
<1>3. ResentCounted'
  BY <1>1, CountedStill DEF RInv, IInv, Resent, ReadyEngines, Dismissed,
     SeeOthersReady, writerVars
<1> QED
  BY <1>1, <1>2, <1>3 DEF RInv

\* and waits in a set that was brought back, as it never fills.
LEMMA LeaveReadyLoopKeepsReady ==
  ASSUME RInv, NEW e \in Engine, LeaveReadyLoop(e)
  PROVE  RInv'
<1>1. IInv'
  BY LeaveReadyLoopKeeps DEF RInv
<1>2. ReadyFollows'
  <2>1. /\ epc[e] = "loop_send" /\ store' = store /\ wpc' = wpc /\ wstep' = wstep /\ estep' = estep
        /\ loaded' = loaded /\ rpc' = rpc /\ evalidated' = evalidated /\ ready' = ready
        /\ epc' = [epc EXCEPT ![e] = "update"]
        /\ Cardinality(ready[e]) = NumEngines \/ ReadyEngines = {}
    BY DEF LeaveReadyLoop, EngineGoes, Has, ReadyEngines, writerVars, workerVars
  <2>2. Dismissed => e \notin ReadyEngines
    <3> SUFFICES ASSUME Dismissed, e \in ReadyEngines PROVE FALSE
      OBVIOUS
    <3>1. ready[e] # Engine /\ ready[e] \in SUBSET Engine
      BY <2>1 DEF RInv, ReadyFollows, IInv, TypeOK
    <3> QED
      BY <2>1, <3>1, EnginesCounted
  <2>3. \A f \in Engine : ~ Updated(e) /\ ~ Updated(e)' /\ Updated(f)' = Updated(f) /\ Validated(f)' = Validated(f)
    BY <2>1 DEF Updated, Validated, RInv, IInv, TypeOK
  <2>4. Dismissed' = Dismissed /\ ReadyEngines' = ReadyEngines
    BY <2>1 DEF Dismissed, ReadyEngines
  <2>5. /\ epc'[e] = "update"
        /\ \A f \in Engine : f # e => epc'[f] = epc[f]
    BY <2>1 DEF RInv, IInv, TypeOK
  <2>6. ReadyEngines \subseteq Engine
    BY RankFacts DEF ReadyEngines, RInv, IInv, TypeOK, Key
  <2> QED
    BY <2>1, <2>2, <2>3, <2>4, <2>5, <2>6 DEF RInv, ReadyFollows, Announcing
<1>3. ResentCounted'
  BY <1>1, CountedStill DEF RInv, IInv, Resent, ReadyEngines, Dismissed,
     LeaveReadyLoop, EngineGoes, writerVars
<1> QED
  BY <1>1, <1>2, <1>3 DEF RInv

\* The workers start to receive.
LEMMA StartWorkersKeepsReady ==
  ASSUME RInv, NEW e \in Engine, StartWorkers(e)
  PROVE  RInv'
<1>1. IInv'
  BY StartWorkersKeeps DEF RInv
<1>2. ReadyFollows'
  BY RankFacts DEF RInv, IInv, TypeOK, ValidatedFollow, CheckpointFollows,
     ReadyFollows, ReadyEngines, Dismissed, Announcing, Updated, WorkersOf, Validated,
     Key, Saved, CountAfter, StartWorkers, EngineGoes, writerVars
<1>3. ResentCounted'
  BY <1>1, CountedStill DEF RInv, IInv, Resent, ReadyEngines, Dismissed, StartWorkers,
     EngineGoes, writerVars
<1> QED
  BY <1>1, <1>2, <1>3 DEF RInv

\* The workers are back: the engine returns after the barrier of the step.
LEMMA FinishUpdateKeepsReady ==
  ASSUME RInv, NEW e \in Engine, FinishUpdate(e)
  PROVE  RInv'
<1>1. IInv'
  BY FinishUpdateKeeps DEF RInv
<1>2. ReadyFollows'
  BY RankFacts DEF RInv, IInv, TypeOK, ValidatedFollow, CheckpointFollows,
     ReadyFollows, ReadyEngines, Dismissed, Announcing, Updated, WorkersOf, Validated,
     Key, Saved, CountAfter, FinishUpdate, EngineGoes, writerVars, workerVars
<1>3. ResentCounted'
  BY <1>1, CountedStill DEF RInv, IInv, Resent, ReadyEngines, Dismissed, FinishUpdate,
     EngineGoes, writerVars
<1> QED
  BY <1>1, <1>2, <1>3 DEF RInv

\* The workers initialize:
LEMMA WorkerPutsMasterKeepsReady ==
  ASSUME RInv, WorkerPutsMaster
  PROVE  RInv'
<1>1. IInv'
  BY WorkerPutsMasterKeeps DEF RInv
<1>2. ReadyFollows'
  BY DEF RInv, ReadyFollows, ReadyEngines, Dismissed, Updated, Validated,
     WorkerPutsMaster, WorkerGoes, Put, writerVars, engineVars
<1>3. ResentCounted'
  BY <1>1, CountedStill DEF RInv, IInv, Resent, ReadyEngines, Dismissed,
     WorkerPutsMaster, WorkerGoes, Put, writerVars, engineVars
<1> QED
  BY <1>1, <1>2, <1>3 DEF RInv

\* they read the address of the group.
LEMMA WorkerGetsMasterKeepsReady ==
  ASSUME RInv, NEW r \in InferRank, WorkerGetsMaster(r)
  PROVE  RInv'
<1>1. IInv'
  BY WorkerGetsMasterKeeps DEF RInv
<1>2. ReadyFollows'
  BY DEF RInv, ReadyFollows, ReadyEngines, Dismissed, Updated, Validated,
     WorkerGetsMaster, WorkerGoes, writerVars, engineVars
<1>3. ResentCounted'
  BY <1>1, CountedStill DEF RInv, IInv, Resent, ReadyEngines, Dismissed,
     WorkerGetsMaster, WorkerGoes, writerVars, engineVars
<1> QED
  BY <1>1, <1>2, <1>3 DEF RInv

\* A worker leaves its transport when all its transfers are over.
LEMMA WorkerBatchDoneKeepsReady ==
  ASSUME RInv, NEW r \in InferRank, WorkerBatchDone(r)
  PROVE  RInv'
<1>1. IInv'
  BY WorkerBatchDoneKeeps DEF RInv
<1>2. ReadyFollows'
  BY DEF RInv, ReadyFollows, ReadyEngines, Dismissed, Updated, Validated,
     WorkerBatchDone, WorkerGoes, writerVars, engineVars
<1>3. ResentCounted'
  BY <1>1, CountedStill DEF RInv, IInv, Resent, ReadyEngines, Dismissed,
     WorkerBatchDone, WorkerGoes, writerVars, engineVars
<1> QED
  BY <1>1, <1>2, <1>3 DEF RInv

\* A transfer brings the weights of the step of its training rank.
LEMMA MoveKeepsReady ==
  ASSUME RInv, NEW t \in TrainRank, NEW r \in InferRank, Move(t, r)
  PROVE  RInv'
<1>1. IInv'
  BY MoveKeeps DEF RInv
<1>2. ReadyFollows'
  BY DEF RInv, ReadyFollows, ReadyEngines, Dismissed, Updated, Validated, Move,
     writerVars, engineVars
<1>3. ResentCounted'
  BY <1>1, CountedStill DEF RInv, IInv, Resent, ReadyEngines, Dismissed, Move,
     writerVars, engineVars
<1> QED
  BY <1>1, <1>2, <1>3 DEF RInv

\* The training ranks describe their parameters together,
LEMMA GatherMetaKeepsReady ==
  ASSUME RInv, GatherMeta
  PROVE  RInv'
<1>1. IInv'
  BY GatherMetaKeeps DEF RInv
<1>2. ReadyFollows'
  BY RankFacts DEF RInv, IInv, TypeOK, ReadyFollows, ReadyEngines, Dismissed, Key,
     GatherMeta
<1>3. ResentCounted'
  BY <1>1, CountedStill, RankFacts DEF RInv, IInv, TypeOK, ReadyEngines, Dismissed,
     Resent, Key, GatherMeta, engineVars
<1> QED
  BY <1>1, <1>2, <1>3 DEF RInv

\* and learn those of the engines together.
LEMMA BroadcastMetaKeepsReady ==
  ASSUME RInv, BroadcastMeta
  PROVE  RInv'
<1>1. IInv'
  BY BroadcastMetaKeeps DEF RInv
<1>2. ReadyFollows'
  BY RankFacts DEF RInv, IInv, TypeOK, ReadyFollows, ReadyEngines, Dismissed, Key,
     BroadcastMeta
<1>3. ResentCounted'
  BY <1>1, CountedStill, RankFacts DEF RInv, IInv, TypeOK, ReadyEngines, Dismissed,
     Resent, Key, BroadcastMeta, engineVars
<1> QED
  BY <1>1, <1>2, <1>3 DEF RInv

\* They save the checkpoint of the step together, when no engine loads one,
LEMMA SaveCheckpointKeepsReady ==
  ASSUME RInv, SaveCheckpoint
  PROVE  RInv'
<1>1. IInv'
  BY SaveCheckpointKeeps DEF RInv
<1>2. ReadyFollows'
  BY RankFacts DEF RInv, IInv, TypeOK, ReadyFollows, ReadyEngines, Dismissed, Key,
     SaveCheckpoint
<1>3. ResentCounted'
  BY <1>1, CountedStill, RankFacts DEF RInv, IInv, TypeOK, ReadyEngines, Dismissed,
     Resent, Key, SaveCheckpoint, engineVars
<1> QED
  BY <1>1, <1>2, <1>3 DEF RInv

\* and leave the validation together.
LEMMA LeaveValidationKeepsReady ==
  ASSUME RInv, LeaveValidation
  PROVE  RInv'
<1>1. IInv'
  BY LeaveValidationKeeps DEF RInv
<1>2. ReadyFollows'
  BY RankFacts DEF RInv, IInv, TypeOK, ReadyFollows, ReadyEngines, Dismissed, Updated,
     Validated, Key, LeaveValidation, engineVars, workerVars
<1>3. ResentCounted'
  BY <1>1, CountedStill, RankFacts DEF RInv, IInv, TypeOK, ReadyEngines, Dismissed,
     Resent, Key, LeaveValidation, engineVars
<1> QED
  BY <1>1, <1>2, <1>3 DEF RInv

\* All ranks join the group together.
LEMMA JoinGroupKeepsReady ==
  ASSUME RInv, JoinGroup
  PROVE  RInv'
<1>1. IInv'
  BY JoinGroupKeeps DEF RInv
<1>2. ReadyFollows'
  BY RankFacts DEF RInv, IInv, TypeOK, ReadyFollows, ReadyEngines, Dismissed, Key,
     JoinGroup
<1>3. ResentCounted'
  BY <1>1, CountedStill, RankFacts DEF RInv, IInv, TypeOK, ReadyEngines, Dismissed,
     Resent, Key, JoinGroup, engineVars
<1> QED
  BY <1>1, <1>2, <1>3 DEF RInv

\* The last training rank and the first worker exchange a tensor.
LEMMA ShakeHandsKeepsReady ==
  ASSUME RInv, ShakeHands
  PROVE  RInv'
<1>1. IInv'
  BY ShakeHandsKeeps DEF RInv
<1>2. ReadyFollows'
  BY DEF RInv, ReadyFollows, ReadyEngines, Dismissed, Updated, Validated, ShakeHands,
     engineVars
<1>3. ResentCounted'
  BY <1>1, CountedStill DEF RInv, IInv, Resent, ReadyEngines, Dismissed, ShakeHands,
     engineVars
<1> QED
  BY <1>1, <1>2, <1>3 DEF RInv

\* The first step is entered with the set empty.
LEMMA WarmUpKeepsReady ==
  ASSUME RInv, WarmUp
  PROVE  RInv'
<1>1. IInv'
  BY WarmUpKeeps DEF RInv
<1>2. ReadyFollows'
  <2>1. /\ wpc[0] = "warm_up" /\ wpc'[0] = AfterInit(0, wstep[0]) /\ wstep' = wstep
        /\ \A r \in InferRank : rpc[r] = "warm_up"
        /\ store' = store /\ epc' = epc /\ evalidated' = evalidated
    BY RankFacts DEF WarmUp, engineVars
  <2>2. ReadyEngines' = {} /\ ~ Dismissed
    BY <2>1, RankFacts DEF RInv, ReadyFollows, ReadyEngines, Dismissed, IInv, TypeOK, Key
  <2>3. \A f \in Engine : epc[f] # "wait_workers"
    BY <2>1, RankFacts DEF RInv, IInv, WorkersFollow
  <2>4. \A f \in Engine : Validated(f) = evalidated[f] /\ Validated(f)' = evalidated[f]
    BY <2>1, <2>3 DEF Validated, Updated
  <2>5. \A f \in Engine : wvalidated[0] = evalidated[f]
    BY <2>1, <2>4, RankFacts DEF RInv, IInv, ValidatedFollow, Saved
  <2>6. wpc'[0] = "send" => \A f \in Engine : ~ Validates(Validated(f), wstep[0])'
    BY <2>1, <2>4, <2>5 DEF AfterInit, Validates
  <2>7. wpc'[0] \in {"save", "send"}
    BY <2>1 DEF AfterInit
  <2> QED
    BY <2>1, <2>2, <2>6, <2>7 DEF ReadyFollows, Dismissed, Validates
<1>3. ResentCounted'
  BY <1>1, CountedStill, RankFacts DEF RInv, IInv, TypeOK, CheckpointFollows,
     ReadyFollows, ReadyEngines, Announcing, Resent, Key, WarmUp, AfterInit, engineVars
<1> QED
  BY <1>1, <1>2, <1>3 DEF RInv

\* No engine is in the set when the transport ends.
LEMMA UpdateBarrierKeepsReady ==
  ASSUME RInv, UpdateBarrier
  PROVE  RInv'
<1>1. IInv'
  BY UpdateBarrierKeeps DEF RInv
<1>2. ReadyFollows'
  BY RankFacts DEF RInv, IInv, TypeOK, WorkersFollow, Lockstep, ReadyFollows,
     ReadyEngines, Dismissed, Key, WriterDone, EngineDone, UpdateBarrier
<1>3. ResentCounted'
  BY <1>1, CountedStill, RankFacts DEF RInv, IInv, TypeOK, ReadyEngines, Dismissed,
     Resent, Key, UpdateBarrier
<1> QED
  BY <1>1, <1>2, <1>3 DEF RInv

\* Every step keeps it.
LEMMA NextRInv == RInv /\ [Next]_vars => RInv'
<1> SUFFICES ASSUME RInv, [Next]_vars PROVE RInv'
  OBVIOUS
<1>1. CASE UNCHANGED vars
  <2>1. IInv'
    BY <1>1, NextIInv DEF RInv
  <2>2. Resent' = Resent /\ lost' = lost /\ ReadyFollows'
    BY <1>1 DEF vars, writerVars, engineVars, workerVars, RInv, ReadyFollows, Resent, ReadyEngines,
       Dismissed, Updated, WorkersOf, Validated, CountAfter, Validates
  <2> QED
    BY <2>1, <2>2 DEF RInv, ResentCounted
<1>2. ASSUME NEW t \in TrainRank, Writer(t) PROVE RInv'
  BY <1>2, BeginWriteKeepsReady, WriterGetsConfKeepsReady,
     WriterGetsNumEnginesKeepsReady, WriterGetsMasterKeepsReady,
     WriterBatchDoneKeepsReady, FinishWriteKeepsReady DEF Writer
<1>3. CASE Rank0Writer
  BY <1>3, WriterPutsMetaKeepsReady, WriterGetsMetaKeepsReady,
     PutReadyForLoadKeepsReady, SeeAllReadyKeepsReady, DeleteReadyForSendKeepsReady,
     DeleteReadyForLoadKeepsReady DEF Rank0Writer
<1>4. ASSUME NEW e \in Engine, Reader(e) PROVE RInv'
  BY <1>4, PutNumEnginesKeepsReady, AddInitedKeepsReady, BeginUpdateKeepsReady,
     PutInferConfKeepsReady, PutInferMetaKeepsReady, GetTrainingMetaKeepsReady,
     WorkersInitializedKeepsReady, LoadCheckpointKeepsReady, AddReadyForSendKeepsReady,
     AddReadyForSendLostKeepsReady, GetReadyForSendKeepsReady,
     SeeOthersReadyKeepsReady, LeaveReadyLoopKeepsReady, StartWorkersKeepsReady,
     FinishUpdateKeepsReady DEF Reader
<1>5. CASE WorkerPutsMaster
  BY <1>5, WorkerPutsMasterKeepsReady
<1>6. ASSUME NEW r \in InferRank, Worker(r) PROVE RInv'
  BY <1>6, WorkerGetsMasterKeepsReady, WorkerBatchDoneKeepsReady DEF Worker
<1>7. ASSUME NEW t \in TrainRank, NEW r \in InferRank, Move(t, r) PROVE RInv'
  BY <1>7, MoveKeepsReady
<1>8. CASE Collective
  BY <1>8, GatherMetaKeepsReady, BroadcastMetaKeepsReady, SaveCheckpointKeepsReady,
     LeaveValidationKeepsReady, JoinGroupKeepsReady, ShakeHandsKeepsReady,
     WarmUpKeepsReady, UpdateBarrierKeepsReady DEF Collective
<1>9. CASE Stop
  BY <1>9, <1>1 DEF Stop
<1> QED
  BY <1>1, <1>2, <1>3, <1>4, <1>5, <1>6, <1>7, <1>8, <1>9 DEF Next

\* Rank 0 has seen the set full, or has deleted it; both sides are in the same step.
LEMMA AllLoaded == RInv => AllEnginesLoaded
<1> SUFFICES ASSUME RInv, wpc[0] \in {"delete_send", "delete_load", "checked"}, NEW e \in Engine
             PROVE  loaded[e] = wstep[0]
  BY DEF AllEnginesLoaded
<1>1. 0 \in TrainRank
  BY RankFacts
<1>2. /\ epc[e] \in {"crashed", "update", "wait_workers"} \cup Announcing
      /\ ~ Updated(e) /\ loaded[e] = estep[e]
  <2>1. CASE wpc[0] = "delete_send"
    BY <2>1 DEF RInv, ReadyFollows, Dismissed
  <2>2. CASE wpc[0] \in {"delete_load", "checked"}
    <3>1. Validates(Validated(e), wstep[0])
      BY <1>1, <2>2 DEF RInv, IInv, ValidatedFollow, Saved
    <3> QED
      BY <2>2, <3>1 DEF RInv, ReadyFollows, Dismissed
  <2> QED
    BY <2>1, <2>2
<1>3. WriterDone(0) = wstep[0] - 1 /\ EngineDone(e) = estep[e] - 1
  BY <1>2 DEF WriterDone, EngineDone, Announcing
<1>4. WriterDone(0) = EngineDone(e) /\ wstep[0] \in Nat /\ estep[e] \in Nat
  BY <1>1 DEF RInv, IInv, TypeOK, Lockstep
<1> QED
  BY <1>2, <1>3, <1>4

-----------------------------------------------------------------------------
\* The refinement.  The places in which an engine may serve.
MayServe(e) == epc[e] \in {"put_num", "add_inited", "idle"}

\* An engine serves with the weights of its last update.
ServesLast == \A e \in Engine : Serves(e) = IF MayServe(e) THEN {estep[e]} ELSE {}

LEMMA ServesItsStep == IInv => ServesLast
<1> SUFFICES ASSUME IInv, NEW e \in Engine
             PROVE  Serves(e) = IF MayServe(e) THEN {estep[e]} ELSE {}
  BY DEF ServesLast
<1>1. CASE MayServe(e)
  <2>1. PICK q \in InferRank : EngineOf(q) = e
    BY RankFacts
  <2>2. q \in WorkersOf(e) /\ 0 \in TrainRank
    BY <2>1, RankFacts DEF WorkersOf
  <2>3. \A r \in WorkersOf(e), t \in TrainRank : param[r][t] = estep[e]
    BY <1>1 DEF MayServe, EngineDone, WorkersOf, IInv, VersionsFollow
  <2> QED
    BY <1>1, <2>2, <2>3 DEF Serves, MayServe
<1>2. CASE ~ MayServe(e)
  BY <1>2 DEF Serves, MayServe
<1> QED
  BY <1>1, <1>2

\* A step that neither ends an exchange nor moves an engine between serving and
\* updating is none of the abstract specification.
LEMMA Unseen ==
  ASSUME IInv, IInv', WriterDone(0)' = WriterDone(0), estep' = estep,
         \A e \in Engine : MayServe(e)' <=> MayServe(e)
  PROVE  UNCHANGED WeightExchange!vars
<1>1. ServesLast /\ ServesLast'
  BY ServesItsStep, PTL
<1>2. \A e \in Engine : Serves(e)' = Serves(e)
  BY <1>1 DEF ServesLast
<1> QED
  BY <1>2 DEF WeightExchange!vars

\* The abstract specification starts where this one does.
LEMMA InitImplements == Init => WeightExchange!Init
<1> SUFFICES ASSUME Init PROVE WeightExchange!Init
  OBVIOUS
<1>1. WriterDone(0) = 0 /\ estep = [e \in Engine |-> 0]
  BY RankFacts DEF Init, WriterDone
<1>2. \A e \in Engine : Serves(e) = {0}
  BY InitIInv, ServesItsStep DEF ServesLast, Init, MayServe
<1> QED
  BY <1>1, <1>2 DEF WeightExchange!Init

\* update_weights is called: the engine stops serving.
LEMMA BeginUpdateImplements ==
  ASSUME IInv, IInv', NEW e \in Engine, BeginUpdate(e)
  PROVE  WeightExchange!StopServing(e)
<1>1. MayServe(e) /\ ~ MayServe(e)' /\ \A f \in Engine \ {e} : MayServe(f)' <=> MayServe(f)
  BY DEF BeginUpdate, EngineGoes, AfterReaderInit, MayServe, IInv, TypeOK
<1>2. /\ WriterDone(0)' = WriterDone(0)
      /\ estep[e] < MaxStep /\ estep' = [estep EXCEPT ![e] = @ + 1]
  BY DEF BeginUpdate, WriterDone, writerVars
<1>3. estep \in [Engine -> Nat]
  BY DEF IInv, TypeOK
<1>4. Serves(e) # {} /\ Serves(e)' = {} /\ \A f \in Engine \ {e} : Serves(f)' = Serves(f)
  <2>1. ServesLast /\ ServesLast'
    BY ServesItsStep, PTL
  <2> QED
    BY <1>1, <1>2, <1>3, <2>1 DEF ServesLast
<1>5. [f \in Engine |-> Serves(f)]' = [[f \in Engine |-> Serves(f)] EXCEPT ![e] = {}]
  BY <1>4
<1> QED
  BY <1>2, <1>4, <1>5 DEF WeightExchange!StopServing

\* update_weights returns: the engine serves again.
LEMMA FinishUpdateImplements ==
  ASSUME IInv, IInv', NEW e \in Engine, FinishUpdate(e)
  PROVE  WeightExchange!ServeAgain(e)
<1>1. ~ MayServe(e) /\ MayServe(e)' /\ \A f \in Engine \ {e} : MayServe(f)' <=> MayServe(f)
  BY DEF FinishUpdate, EngineGoes, MayServe, IInv, TypeOK
<1>2. WriterDone(0)' = WriterDone(0) /\ estep' = estep
  BY DEF FinishUpdate, WriterDone, writerVars
<1>3. estep[e] = WriterDone(0)
  BY RankFacts DEF FinishUpdate, EngineGoes, Updated, EngineDone, IInv, Lockstep
<1>4. Serves(e) = {} /\ Serves(e)' = {WriterDone(0)} /\ \A f \in Engine \ {e} : Serves(f)' = Serves(f)
  <2>1. ServesLast /\ ServesLast'
    BY ServesItsStep, PTL
  <2> QED
    BY <1>1, <1>2, <1>3, <2>1 DEF ServesLast
<1>5. [f \in Engine |-> Serves(f)]' = [[f \in Engine |-> Serves(f)] EXCEPT ![e] = {WriterDone(0)}]
  BY <1>4
<1> QED
  BY <1>2, <1>3, <1>4, <1>5 DEF WeightExchange!ServeAgain

\* The barrier of the transport is the exchange.
LEMMA UpdateBarrierImplements ==
  ASSUME IInv, IInv', UpdateBarrier
  PROVE  WeightExchange!Exchange
<1>1. \A f \in Engine : epc[f] = "wait_workers" /\ ~ Updated(f)
  BY AllWait
<1>2. /\ epc' = epc /\ estep' = estep /\ wstep' = wstep
      /\ wpc[0] = "barrier" /\ wpc'[0] = "finish"
  BY RankFacts DEF UpdateBarrier, engineVars
<1>3. WriterDone(0) = wstep[0] - 1 /\ WriterDone(0)' = wstep[0] /\ wstep[0] \in Nat
  BY <1>2, RankFacts DEF WriterDone, IInv, TypeOK
<1>4. \A f \in Engine : estep[f] = WriterDone(0) + 1
  <2>1. \A f \in Engine : WriterDone(0) = EngineDone(f)
    BY RankFacts DEF IInv, Lockstep
  <2>2. \A f \in Engine : EngineDone(f) = estep[f] - 1
    BY <1>1 DEF EngineDone
  <2>3. \A f \in Engine : estep[f] \in Nat
    BY DEF IInv, TypeOK
  <2> QED
    BY <1>3, <2>1, <2>2, <2>3
<1>5. \A f \in Engine : Serves(f) = {} /\ Serves(f)' = {}
  BY <1>1, <1>2 DEF Serves
<1>6. [f \in Engine |-> Serves(f)]' = [f \in Engine |-> Serves(f)]
  BY <1>5
<1> QED
  BY <1>2, <1>3, <1>4, <1>5, <1>6 DEF WeightExchange!Exchange

\* Every step is one of the abstract specification, or none.
LEMMA NextImplements ==
  ASSUME IInv, [Next]_vars, IInv'
  PROVE  [WeightExchange!Next]_WeightExchange!vars
<1> DEFINE Quiet == /\ WriterDone(0)' = WriterDone(0) /\ estep' = estep
                    /\ \A e \in Engine : MayServe(e)' <=> MayServe(e)
<1>1. SUFFICES ASSUME ~ WeightExchange!Next PROVE Quiet
  BY Unseen
<1>2. 0 \in TrainRank /\ wpc \in [TrainRank -> WriterPlace] /\ wstep \in [TrainRank -> Nat]
      /\ epc \in [Engine -> EnginePlace]
  BY RankFacts DEF IInv, TypeOK
<1>3. CASE UNCHANGED vars
  BY <1>3 DEF vars, writerVars, engineVars, WriterDone, MayServe
<1>4. ASSUME NEW t \in TrainRank, Writer(t) PROVE Quiet
  BY <1>2, <1>4 DEF Writer, BeginWrite, AfterInit, WriterGetsConf, WriterGetsNumEngines, WriterGetsMaster,
     WaitKey, WriterBatchDone, FinishWrite, WriterGoes, engineVars, WriterDone, MayServe
<1>5. CASE Rank0Writer
  BY <1>2, <1>5 DEF Rank0Writer, WriterPutsMeta, WriterGetsMeta, WaitKey, PutReadyForLoad, SeeAllReady,
     DeleteReadyForSend, DeleteReadyForLoad, WriterGoes, engineVars, WriterDone, MayServe
<1>6. ASSUME NEW e \in Engine, Reader(e) PROVE Quiet
  <2>1. ~ BeginUpdate(e) /\ ~ FinishUpdate(e)
    BY <1>1, BeginUpdateImplements, FinishUpdateImplements DEF WeightExchange!Next
  <2> QED
    BY <1>2, <1>6, <2>1 DEF Reader, PutNumEngines, AddInited, PutInferConf, PutInferMeta, GetTrainingMeta,
       WorkersInitialized, AfterReaderInit, LoadCheckpoint, AddReadyForSend, AddReadyForSendLost,
       GetReadyForSend, SeeOthersReady, LeaveReadyLoop, StartWorkers, EngineGoes, writerVars, engineVars,
       WriterDone, MayServe
<1>7. CASE WorkerPutsMaster
  BY <1>7 DEF WorkerPutsMaster, writerVars, engineVars, WriterDone, MayServe
<1>8. ASSUME NEW r \in InferRank, Worker(r) PROVE Quiet
  BY <1>8 DEF Worker, WorkerGetsMaster, WorkerBatchDone, writerVars, engineVars, WriterDone, MayServe
<1>9. ASSUME NEW t \in TrainRank, NEW r \in InferRank, Move(t, r) PROVE Quiet
  BY <1>9 DEF Move, writerVars, engineVars, WriterDone, MayServe
<1>10. CASE Collective
  <2>1. ~ UpdateBarrier
    BY <1>1, UpdateBarrierImplements DEF WeightExchange!Next
  <2> QED
    BY <1>2, <1>10, <2>1 DEF Collective, GatherMeta, BroadcastMeta, SaveCheckpoint, LeaveValidation,
       JoinGroup, ShakeHands, WarmUp, AfterInit, engineVars, WriterDone, MayServe
<1>11. CASE Stop
  BY <1>3, <1>11 DEF Stop
<1> QED
  BY <1>3, <1>4, <1>5, <1>6, <1>7, <1>8, <1>9, <1>10, <1>11 DEF Next

-----------------------------------------------------------------------------
\* Keys, places, steps, counts and versions keep their type.
THEOREM TypeCorrect == Spec => []TypeOK
  BY Invariance, PTL DEF IInv

\* No engine returns from an update while another is left with older weights.
THEOREM UpdateIsGlobalTheorem == Spec => []UpdateIsGlobal
  BY Invariance, OverForAll, PTL

\* The parameters of an engine change only inside its update_weights.
THEOREM ServesUndisturbedTheorem == Spec => ServesUndisturbed
<1>1. IInv /\ [Next]_vars =>
        [\A r \in InferRank :
           param'[r] # param[r] => epc[EngineOf(r)] \in {"wait_load", "wait_workers"}]_vars
  BY OnlyTwoWrite
<1> QED
  BY <1>1, Invariance, PTL DEF Spec, ServesUndisturbed

\* An engine that validates has loaded the checkpoint of the step it is in.
THEOREM LoadsCurrentCheckpointTheorem == Spec => []LoadsCurrentCheckpoint
  BY Invariance, LoadsCurrent, PTL

\* When rank 0 has seen all engines ready, all have loaded the checkpoint of its
\* step, if fewer replies are lost than there are engines.
THEOREM AllEnginesLoadedTheorem == Spec /\ FewLost => []AllEnginesLoaded
  BY InitRInv, NextRInv, AllLoaded, PTL DEF Spec

\* The exchange over separate devices implements the abstract one.
THEOREM ImplementsExchangeTheorem == Spec => ImplementsExchange
<1>1. IInv /\ IInv' /\ [Next]_vars => [WeightExchange!Next]_(WeightExchange!vars)
  BY NextImplements
<1> QED
  BY <1>1, InitImplements, Invariance, PTL DEF Spec, ImplementsExchange, WeightExchange!Spec
=============================================================================
