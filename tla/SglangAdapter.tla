--------------------------- MODULE SglangAdapter ---------------------------
(***************************************************************************)
(* The SGLang plugin: the /awex/* endpoints, and AwexSchedulerBridge with  *)
(* AwexSGLangAdapter in every scheduler process (a rank).                  *)
(*                                                                         *)
(* An endpoint broadcasts its call to the ranks and answers "ok" when none *)
(* of them has raised.  Releasing and resuming memory work: the adapter of *)
(* a rank remembers the tags it has released, and asks the engine only for *)
(* the others.  Reporting the metadata, initializing and executing an      *)
(* update always raise: the model has them as far as the code gets.        *)
(*                                                                         *)
(* External are the engine (SGLang's scheduler), which may raise when some *)
(* of the tags are done already and for which doing a tag again is         *)
(* nothing, the broadcast, which waits for all ranks, and the driver.      *)
(***************************************************************************)
EXTENDS Naturals

CONSTANTS
  Rank,         \* the scheduler processes
  Tags,         \* the parts of the memory that can be released
  MaxFailures   \* bound: engine calls that raise

ASSUME SglangAdapterAssumption == "kv_cache" \in Tags /\ MaxFailures \in Nat

MemoryOps == {"release", "resume"}
Ops == MemoryOps \cup {"report", "parallelism", "init", "execute"}

VARIABLES
  request,      \* the last request of the driver
  answer,       \* the answer to it, "none" before
  known,        \* known[t]: what the answers tell the driver about the memory
  pc,           \* pc[r]: the call a rank works on
  raised,       \* ranks that have raised in this request
  failures,     \* failures of the engine so far
  configured,   \* ranks whose _kv_store_url is set
  released,     \* released[r]: _released_tags
  resident      \* resident[r]: the tags whose memory the rank really has

driverVars == <<request, answer, known>>
memoryVars == <<released, resident>>
vars == <<driverVars, pc, raised, failures, configured, memoryVars>>

DefaultTags(tags) == IF tags = {} THEN {"kv_cache"} ELSE tags

Init ==
  /\ request = [op |-> "none", tags |-> {}, equal_sizes |-> TRUE] /\ answer = "ok"
  /\ known = [t \in Tags |-> "resident"]
  /\ pc = [r \in Rank |-> "idle"] /\ raised = {} /\ failures = 0 /\ configured = {}
  /\ released = [r \in Rank |-> {}] /\ resident = [r \in Rank |-> Tags]

-----------------------------------------------------------------------------
\* The driver and the endpoints.

Idle == answer # "none"

\* A driver that has begun to release or to resume a tag repeats that until it is
\* answered "ok", and does not ask for the opposite before.
Underway(op) == IF op = "release" THEN "releasing" ELSE "resuming"
Done(op) == IF op = "release" THEN "released" ELSE "resident"
Allowed(op, tags) ==
  \A t \in DefaultTags(tags) : known[t] \in {Underway(op), "released", "resident"}

\* Mutant: the exceptions of the last request are kept.
BroadcastKeepsRaised(op, tags, equal_sizes) ==
  /\ Idle
  /\ request' = [op |-> op, tags |-> tags, equal_sizes |-> equal_sizes] /\ answer' = "none"
  /\ pc' = [r \in Rank |-> op] /\ raised' = raised
  /\ UNCHANGED <<failures, configured, memoryVars>>

\* A request is broadcast to all ranks; the bridge of each calls its adapter.
Broadcast(op, tags, equal_sizes) ==
  /\ Idle
  /\ request' = [op |-> op, tags |-> tags, equal_sizes |-> equal_sizes] /\ answer' = "none"
  /\ pc' = [r \in Rank |-> op] /\ raised' = {}
  /\ UNCHANGED <<failures, configured, memoryVars>>

RequestMemory(op, tags) ==
  /\ Allowed(op, tags) /\ Broadcast(op, tags, TRUE)
  /\ known' = [t \in Tags |-> IF t \in DefaultTags(tags) THEN Underway(op) ELSE known[t]]

\* Other requests; init is told whether the two sides have equal world sizes.
RequestOther(op, equal_sizes) == Broadcast(op, {}, equal_sizes) /\ UNCHANGED known

\* What an "ok" tells the driver.
KnownAfter ==
  [t \in Tags |-> IF request.op \in MemoryOps /\ t \in DefaultTags(request.tags)
                  THEN Done(request.op)
                  ELSE known[t]]

\* All ranks have returned or raised: the endpoint answers.
Answer ==
  /\ ~ Idle /\ \A r \in Rank : pc[r] = "idle"
  /\ answer' = IF raised = {} THEN "ok" ELSE "error"
  /\ known' = IF raised = {} THEN KnownAfter ELSE known
  /\ UNCHANGED <<request, pc, raised, failures, configured, memoryVars>>

-----------------------------------------------------------------------------
\* The ranks: the methods of the adapter.

Ends(r, op) == pc[r] = op /\ pc' = [pc EXCEPT ![r] = "idle"]

Parallelism(r) ==
  /\ Ends(r, "parallelism")
  /\ UNCHANGED <<driverVars, raised, failures, configured, memoryVars>>

\* get_weight_metadata starts with the rank info: _get_model_context does not have
\* all the keys that get_sglang_rank_info reads, which is a KeyError.
ModelContext == {"scheduler", "tp_rank", "tp_size", "pp_rank", "pp_size", "dp_size",
                 "world_size", "global_rank", "attn_tp_rank", "attn_tp_size"}
RankInfoKeys == {"scheduler", "tp_rank", "tp_size", "pp_rank", "pp_size", "dp_size",
                 "attn_tp_rank", "attn_tp_size", "attn_dp_rank", "world_size",
                 "global_rank", "local_rank"}

Report(r) ==
  /\ Ends(r, "report")
  /\ raised' = IF RankInfoKeys \subseteq ModelContext THEN raised ELSE raised \cup {r}
  /\ UNCHANGED <<driverVars, failures, configured, memoryVars>>

\* init_colocate_weight_update: a ValueError for unequal sizes; otherwise the
\* attributes are set, and the constructor of the client is called without its
\* port, which is a TypeError.  The code gets no further.
ClientParameters == {"address", "port"}
ClientArguments == {"address"}

InitUpdate(r) ==
  /\ Ends(r, "init")
  /\ configured' = IF request.equal_sizes THEN configured \cup {r} ELSE configured
  /\ raised' = IF request.equal_sizes /\ ClientParameters \subseteq ClientArguments
               THEN raised ELSE raised \cup {r}
  /\ UNCHANGED <<driverVars, failures, memoryVars>>

\* execute_colocate_weight_update: the assertion when init has not come so far, a
\* TypeError otherwise, as the device mapping that init sets later is still None.
ExecuteUpdate(r) ==
  /\ Ends(r, "execute") /\ raised' = raised \cup {r}
  /\ UNCHANGED <<driverVars, failures, configured, memoryVars>>

\* release_memory: the tags that are not released yet; they count as released once
\* the engine has returned.
NativeTags(r) == DefaultTags(request.tags) \ released[r]

\* Mutant: a rank that has nothing left to release raises.
ReleaseOnce(r) ==
  /\ Ends(r, "release")
  /\ released' = [released EXCEPT ![r] = @ \cup NativeTags(r)]
  /\ resident' = [resident EXCEPT ![r] = @ \ NativeTags(r)]
  /\ raised' = IF NativeTags(r) = {} THEN raised \cup {r} ELSE raised
  /\ UNCHANGED <<driverVars, failures, configured>>

Release(r) ==
  /\ Ends(r, "release")
  /\ released' = [released EXCEPT ![r] = @ \cup NativeTags(r)]
  /\ resident' = [resident EXCEPT ![r] = @ \ NativeTags(r)]
  /\ UNCHANGED <<driverVars, raised, failures, configured>>

\* resume_memory: the tags that are released, likewise.
ResumeTags(r) == DefaultTags(request.tags) \cap released[r]

Resume(r) ==
  /\ Ends(r, "resume")
  /\ released' = [released EXCEPT ![r] = @ \ ResumeTags(r)]
  /\ resident' = [resident EXCEPT ![r] = @ \cup ResumeTags(r)]
  /\ UNCHANGED <<driverVars, raised, failures, configured>>

EngineRaises(r) ==
  /\ failures < MaxFailures /\ failures' = failures + 1 /\ raised' = raised \cup {r}

\* Mutant: the tags count as released before the engine is called.
ReleaseRaisesTooLate(r) ==
  /\ Ends(r, "release") /\ NativeTags(r) # {} /\ EngineRaises(r)
  /\ released' = [released EXCEPT ![r] = @ \cup NativeTags(r)]
  /\ \E done \in SUBSET NativeTags(r) : resident' = [resident EXCEPT ![r] = @ \ done]
  /\ UNCHANGED <<driverVars, configured>>

ReleaseRaises(r) ==
  /\ Ends(r, "release") /\ NativeTags(r) # {} /\ EngineRaises(r)
  /\ \E done \in SUBSET NativeTags(r) : resident' = [resident EXCEPT ![r] = @ \ done]
  /\ UNCHANGED <<driverVars, configured, released>>

ResumeRaises(r) ==
  /\ Ends(r, "resume") /\ ResumeTags(r) # {} /\ EngineRaises(r)
  /\ \E done \in SUBSET ResumeTags(r) : resident' = [resident EXCEPT ![r] = @ \cup done]
  /\ UNCHANGED <<driverVars, configured, released>>

-----------------------------------------------------------------------------
DriverNext ==
  \/ \E op \in MemoryOps, tags \in SUBSET Tags : RequestMemory(op, tags)
  \/ \E op \in {"report", "parallelism", "execute"} : RequestOther(op, TRUE)
  \/ \E equal_sizes \in BOOLEAN : RequestOther("init", equal_sizes)

RankNext(r) ==
  \/ Parallelism(r) \/ Report(r) \/ InitUpdate(r) \/ ExecuteUpdate(r)
  \/ Release(r) \/ ReleaseRaises(r) \/ Resume(r) \/ ResumeRaises(r)

Next == DriverNext \/ Answer \/ \E r \in Rank : RankNext(r)

Spec == Init /\ [][Next]_vars

\* A rank works on the calls it gets, the endpoint answers, and the driver repeats,
\* among its other requests, what was not answered "ok".
Repeat(t) ==
  \E op \in MemoryOps, tags \in SUBSET Tags :
    t \in DefaultTags(tags) /\ known[t] = Underway(op) /\ RequestMemory(op, tags)
Fairness ==
  /\ \A r \in Rank : WF_vars(RankNext(r))
  /\ WF_vars(Answer)
  /\ \A t \in Tags : SF_vars(Repeat(t))
FairSpec == Spec /\ Fairness

-----------------------------------------------------------------------------
\* Types; a rank that has raised has left the call.
Knowledge == {"resident", "released", "releasing", "resuming"}
TypeOK ==
  /\ request \in [op : Ops \cup {"none"}, tags : SUBSET Tags, equal_sizes : BOOLEAN]
  /\ answer \in {"none", "ok", "error"} /\ known \in [Tags -> Knowledge]
  /\ pc \in [Rank -> Ops \cup {"idle"}] /\ raised \subseteq Rank
  /\ failures \in 0 .. MaxFailures /\ configured \subseteq Rank
  /\ released \in [Rank -> SUBSET Tags] /\ resident \in [Rank -> SUBSET Tags]
  /\ \A r \in raised : pc[r] = "idle"

\* What the answers "ok" have told the driver about the memory is true on every
\* rank, whatever failed, was half done and was repeated before (release_memory and
\* resume_memory with _released_tags, the endpoints).
AnswersAreTrue ==
  \A t \in Tags, r \in Rank :
    /\ known[t] = "released" => t \notin resident[r]
    /\ known[t] = "resident" => t \in resident[r]

\* A release or a resumption that is repeated is answered "ok" in the end: the ranks
\* that were done at the first attempt do not stand in its way.
RetriesEnd ==
  \A t \in Tags :
    /\ known[t] = "releasing" ~> known[t] = "released"
    /\ known[t] = "resuming" ~> known[t] = "resident"

=============================================================================
