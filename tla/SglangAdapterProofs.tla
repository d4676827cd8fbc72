------------------------ MODULE SglangAdapterProofs ------------------------
(***************************************************************************)
(* For every set of ranks, finite or not, every set of tags and every      *)
(* number of failures: what the answers of the memory endpoints have told  *)
(* the driver is true on every rank.                                       *)
(***************************************************************************)
EXTENDS SglangAdapter, TLAPS

\* Ranks work on the request, or have left it.
Places ==
  /\ \A r \in Rank : pc[r] \in {request.op, "idle"}
  /\ Idle => \A r \in Rank : pc[r] = "idle"

\* The driver takes the tags of its request for underway.
TagsUnderway ==
  ~ Idle /\ request.op \in MemoryOps
    => \A t \in DefaultTags(request.tags) : known[t] = Underway(request.op)

\* The bookkeeping of a rank and its memory, between the answers as well: what is
\* booked is done, though more may be done when the engine has raised.
BooksFollow ==
  \A t \in Tags, r \in Rank :
    /\ known[t] = "released" => t \in released[r] /\ t \notin resident[r]
    /\ known[t] = "resident" => t \notin released[r] /\ t \in resident[r]
    /\ known[t] = "releasing" => (t \in released[r] => t \notin resident[r])
    /\ known[t] = "resuming" => (t \notin released[r] => t \in resident[r])

\* A rank that has left the request without an exception has booked all its tags.
Left(r) == ~ Idle /\ pc[r] = "idle" /\ r \notin raised
LeftIsBooked ==
  \A r \in Rank : Left(r) =>
    /\ request.op = "release" => DefaultTags(request.tags) \subseteq released[r]
    /\ request.op = "resume" => DefaultTags(request.tags) \cap released[r] = {}

IInv == TypeOK /\ Places /\ TagsUnderway /\ BooksFollow /\ LeftIsBooked

\* The methods of a rank that leave its memory alone.
OtherStep(r) == Parallelism(r) \/ Report(r) \/ InitUpdate(r) \/ ExecuteUpdate(r)

-----------------------------------------------------------------------------
\* A request without tags is about the key-value cache (release_memory).
LEMMA DefaultTagsType ==
  ASSUME NEW tags \in SUBSET Tags
  PROVE  DefaultTags(tags) \in SUBSET Tags
BY SglangAdapterAssumption DEF DefaultTags

\* At the start nothing is released and nothing is underway.
LEMMA InitIInv == Init => IInv
BY SglangAdapterAssumption
   DEF Init, IInv, TypeOK, Ops, MemoryOps, Knowledge, Places, Idle, TagsUnderway, BooksFollow,
       LeftIsBooked, Left

\* A new request is broadcast after an answer: no rank has left it, and its tags are
\* those whose state the driver knows, or which it has begun on in the same way.
LEMMA RequestMemoryKeeps ==
  ASSUME IInv, NEW op \in MemoryOps, NEW tags \in SUBSET Tags, RequestMemory(op, tags)
  PROVE  IInv'
<1> DEFINE T == DefaultTags(tags)
<1>1. T \in SUBSET Tags
  BY DefaultTagsType
<1>2. /\ Idle /\ op \in Ops /\ op # "idle"
      /\ request' = [op |-> op, tags |-> tags, equal_sizes |-> TRUE] /\ answer' = "none"
      /\ pc' = [r \in Rank |-> op] /\ raised' = {}
      /\ UNCHANGED <<failures, configured, released, resident>>
      /\ known' = [t \in Tags |-> IF t \in T THEN Underway(op) ELSE known[t]]
      /\ \A t \in T : known[t] \in {Underway(op), "released", "resident"}
  BY DEF RequestMemory, Broadcast, Allowed, memoryVars, Ops, MemoryOps
<1>3. Underway(op) \in Knowledge /\ Underway(op) = IF op = "release" THEN "releasing" ELSE "resuming"
  BY DEF Underway, Knowledge
<1>4. TypeOK'
  BY <1>2, <1>3 DEF IInv, TypeOK
<1>5. Places' /\ LeftIsBooked'
  BY <1>2 DEF Places, LeftIsBooked, Left, Idle
<1>6. TagsUnderway'
  BY <1>1, <1>2 DEF TagsUnderway
<1>7. BooksFollow'
  <2> SUFFICES ASSUME NEW t \in Tags, NEW r \in Rank
               PROVE  /\ known'[t] = "released" => t \in released[r] /\ t \notin resident[r]
                      /\ known'[t] = "resident" => t \notin released[r] /\ t \in resident[r]
                      /\ known'[t] = "releasing" => (t \in released[r] => t \notin resident[r])
                      /\ known'[t] = "resuming" => (t \notin released[r] => t \in resident[r])
    BY <1>2 DEF BooksFollow
  <2>1. CASE t \notin T
    BY <2>1, <1>2 DEF IInv, BooksFollow
  <2>2. CASE t \in T
    <3>1. known'[t] = Underway(op) /\ known[t] \in {Underway(op), "released", "resident"}
      BY <2>2, <1>2
    <3> QED
      BY <3>1, <1>3 DEF IInv, BooksFollow, MemoryOps
  <2> QED
    BY <2>1, <2>2
<1> QED
  BY <1>4, <1>5, <1>6, <1>7 DEF IInv

\* Requests about weights say nothing of the memory.
LEMMA RequestOtherKeeps ==
  ASSUME IInv, NEW op \in Ops \ MemoryOps, NEW equal_sizes \in BOOLEAN,
         RequestOther(op, equal_sizes)
  PROVE  IInv'
<1>1. /\ op # "idle" /\ op \notin MemoryOps
      /\ request' = [op |-> op, tags |-> {}, equal_sizes |-> equal_sizes] /\ answer' = "none"
      /\ pc' = [r \in Rank |-> op] /\ raised' = {}
      /\ UNCHANGED <<known, failures, configured, released, resident>>
  BY DEF RequestOther, Broadcast, memoryVars, Ops, MemoryOps
<1>2. TypeOK'
  BY <1>1 DEF IInv, TypeOK
<1>3. Places' /\ TagsUnderway' /\ LeftIsBooked'
  BY <1>1 DEF Places, TagsUnderway, LeftIsBooked, Left, Idle
<1>4. BooksFollow'
  BY <1>1 DEF IInv, BooksFollow
<1> QED
  BY <1>2, <1>3, <1>4 DEF IInv

\* An "ok" means that all ranks have left without an exception, so that all have
\* booked the tags; and what is booked is done.
LEMMA AnswerKeeps ==
  ASSUME IInv, Answer
  PROVE  IInv'
<1>1. /\ ~ Idle /\ \A r \in Rank : pc[r] = "idle"
      /\ answer' = IF raised = {} THEN "ok" ELSE "error"
      /\ known' = IF raised = {} THEN KnownAfter ELSE known
      /\ UNCHANGED <<request, pc, raised, failures, configured, released, resident>>
  BY DEF Answer, memoryVars
<1>2. TypeOK'
  <2>1. KnownAfter \in [Tags -> Knowledge]
    BY DEF IInv, TypeOK, KnownAfter, Done, Knowledge
  <2> QED
    BY <2>1, <1>1 DEF IInv, TypeOK
<1>3. Idle' /\ Places' /\ TagsUnderway' /\ LeftIsBooked'
  BY <1>1 DEF IInv, Idle, Places, TagsUnderway, LeftIsBooked, Left
<1>4. BooksFollow'
  <2>1. CASE raised # {}
    BY <2>1, <1>1 DEF IInv, BooksFollow
  <2>2. CASE raised = {}
    <3> SUFFICES ASSUME NEW t \in Tags, NEW r \in Rank
                 PROVE  /\ known'[t] = "released" => t \in released[r] /\ t \notin resident[r]
                        /\ known'[t] = "resident" => t \notin released[r] /\ t \in resident[r]
                        /\ known'[t] = "releasing" => (t \in released[r] => t \notin resident[r])
                        /\ known'[t] = "resuming" => (t \notin released[r] => t \in resident[r])
      BY <1>1 DEF BooksFollow
    <3>1. CASE ~ (request.op \in MemoryOps /\ t \in DefaultTags(request.tags))
      <4>1. known'[t] = known[t]
        BY <3>1, <2>2, <1>1 DEF KnownAfter
      <4> QED
        BY <4>1 DEF IInv, BooksFollow
    <3>2. CASE request.op \in MemoryOps /\ t \in DefaultTags(request.tags)
      <4>1. known'[t] = Done(request.op) /\ known[t] = Underway(request.op)
        BY <3>2, <2>2, <1>1 DEF KnownAfter, IInv, TagsUnderway
      <4>2. Left(r)
        BY <2>2, <1>1 DEF Left
      <4>3. CASE request.op = "release"
        BY <4>1, <4>2, <4>3, <3>2 DEF IInv, BooksFollow, LeftIsBooked, Done, Underway
      <4>4. CASE request.op = "resume"
        BY <4>1, <4>2, <4>4, <3>2 DEF IInv, BooksFollow, LeftIsBooked, Done, Underway
      <4> QED
        BY <4>3, <4>4, <3>2 DEF MemoryOps
    <3> QED
      BY <3>1, <3>2
  <2> QED
    BY <2>1, <2>2
<1> QED
  BY <1>2, <1>3, <1>4 DEF IInv

\* A rank that reports, initializes or executes leaves its memory alone.
LEMMA OtherStepKeeps ==
  ASSUME IInv, NEW r \in Rank, OtherStep(r)
  PROVE  IInv'
<1>1. /\ pc[r] \in Ops \ MemoryOps /\ pc' = [pc EXCEPT ![r] = "idle"]
      /\ raised' \in {raised, raised \cup {r}} /\ configured' \in {configured, configured \cup {r}}
      /\ UNCHANGED <<request, answer, known, failures, released, resident>>
  BY DEF OtherStep, Parallelism, Report, InitUpdate, ExecuteUpdate, Ends, driverVars, memoryVars,
         Ops, MemoryOps
<1>2. ~ Idle /\ request.op \notin MemoryOps
  BY <1>1 DEF IInv, Places, Ops, MemoryOps
<1>3. TypeOK'
  BY <1>1 DEF IInv, TypeOK
<1>4. Places' /\ TagsUnderway' /\ LeftIsBooked' /\ BooksFollow'
  BY <1>1, <1>2 DEF IInv, TypeOK, Places, TagsUnderway, LeftIsBooked, Left, BooksFollow, Idle,
                    MemoryOps
<1> QED
  BY <1>3, <1>4 DEF IInv

\* Rank r leaves a release or resumption, with these tags booked and this memory:
\* tags of others are as before, what is booked is done, and without an exception
\* all tags are booked.
Leaves(r, op, booked, memory) ==
  /\ Ends(r, op) /\ UNCHANGED <<request, answer, known, configured>>
  /\ raised' \in {raised, raised \cup {r}} /\ failures' \in 0 .. MaxFailures
  /\ released' = [released EXCEPT ![r] = booked] /\ booked \in SUBSET Tags
  /\ resident' = [resident EXCEPT ![r] = memory] /\ memory \in SUBSET Tags
  /\ \A t \in Tags \ DefaultTags(request.tags) :
       (t \in booked <=> t \in released[r]) /\ (t \in memory <=> t \in resident[r])
  /\ \A t \in DefaultTags(request.tags) :
       IF op = "release"
         THEN (t \in booked => t \notin memory) /\ (r \notin raised' => t \in booked)
         ELSE (t \notin booked => t \in memory) /\ (r \notin raised' => t \notin booked)

\* A rank that leaves: the other ranks keep their state, and its own follows.
LEMMA LeavingKeeps ==
  ASSUME IInv, NEW r \in Rank, NEW op \in MemoryOps, NEW booked, NEW memory,
         Leaves(r, op, booked, memory)
  PROVE  IInv'
<1>1. /\ ~ Idle /\ request.op = op
      /\ pc' = [pc EXCEPT ![r] = "idle"] /\ pc[r] = op
      /\ UNCHANGED <<request, answer, known, configured>>
      /\ raised' \in {raised, raised \cup {r}} /\ failures' \in 0 .. MaxFailures
      /\ released' = [released EXCEPT ![r] = booked] /\ booked \in SUBSET Tags
      /\ resident' = [resident EXCEPT ![r] = memory] /\ memory \in SUBSET Tags
  BY DEF IInv, Places, Ends, MemoryOps, Leaves
<1>2. TypeOK'
  BY <1>1 DEF IInv, TypeOK
<1>3. Places' /\ TagsUnderway'
  BY <1>1 DEF IInv, TypeOK, Places, TagsUnderway, Idle
<1>4. BooksFollow'
  <2> SUFFICES ASSUME NEW t \in Tags, NEW q \in Rank
               PROVE  /\ known[t] = "released" => t \in released'[q] /\ t \notin resident'[q]
                      /\ known[t] = "resident" => t \notin released'[q] /\ t \in resident'[q]
                      /\ known[t] = "releasing" => (t \in released'[q] => t \notin resident'[q])
                      /\ known[t] = "resuming" => (t \notin released'[q] => t \in resident'[q])
    BY <1>1 DEF BooksFollow
  <2>1. CASE q # r
    <3>1. released'[q] = released[q] /\ resident'[q] = resident[q]
      BY <2>1, <1>1 DEF IInv, TypeOK
    <3> QED
      BY <3>1 DEF IInv, BooksFollow
  <2>2. CASE q = r
    <3>1. released'[q] = booked /\ resident'[q] = memory
      BY <2>2, <1>1 DEF IInv, TypeOK
    <3>2. CASE t \notin DefaultTags(request.tags)
      BY <3>1, <3>2, <2>2 DEF IInv, BooksFollow, Leaves
    <3>3. CASE t \in DefaultTags(request.tags)
      <4>1. known[t] = Underway(op)
        BY <3>3, <1>1 DEF IInv, TagsUnderway
      <4> QED
        BY <4>1, <3>1, <3>3 DEF Underway, MemoryOps, Leaves
    <3> QED
      BY <3>2, <3>3
  <2> QED
    BY <2>1, <2>2
<1>5. LeftIsBooked'
  <2> SUFFICES ASSUME NEW q \in Rank, pc'[q] = "idle", q \notin raised'
               PROVE  /\ op = "release" => DefaultTags(request.tags) \subseteq released'[q]
                      /\ op = "resume" => DefaultTags(request.tags) \cap released'[q] = {}
    BY <1>1 DEF LeftIsBooked, Left, Idle
  <2>1. CASE q # r
    <3>1. released'[q] = released[q] /\ pc[q] = "idle" /\ q \notin raised
      BY <2>1, <1>1 DEF IInv, TypeOK
    <3> QED
      BY <3>1, <1>1 DEF IInv, LeftIsBooked, Left
  <2>2. CASE q = r
    <3>1. released'[q] = booked
      BY <2>2, <1>1 DEF IInv, TypeOK
    <3> QED
      BY <3>1, <2>2 DEF Leaves
  <2> QED
    BY <2>1, <2>2
<1> QED
  BY <1>2, <1>3, <1>4, <1>5 DEF IInv

\* Before a rank leaves a release or resumption, its tags are underway, and what is
\* booked of them is done.
LEMMA BeforeLeaving ==
  ASSUME IInv, NEW r \in Rank, NEW op \in MemoryOps, pc[r] = op
  PROVE  /\ DefaultTags(request.tags) \in SUBSET Tags
         /\ released[r] \in SUBSET Tags /\ resident[r] \in SUBSET Tags
         /\ \A t \in DefaultTags(request.tags) :
              /\ op = "release" => (t \in released[r] => t \notin resident[r])
              /\ op = "resume" => (t \notin released[r] => t \in resident[r])
<1>1. ~ Idle /\ request.op = op
  BY DEF IInv, Places, MemoryOps
<1>2. DefaultTags(request.tags) \in SUBSET Tags
  BY DefaultTagsType DEF IInv, TypeOK
<1>3. \A t \in DefaultTags(request.tags) : known[t] = Underway(op)
  BY <1>1 DEF IInv, TagsUnderway
<1> QED
  BY <1>2, <1>3 DEF IInv, TypeOK, BooksFollow, Underway

\* release_memory, returned or raised.
LEMMA ReleaseKeeps ==
  ASSUME IInv, NEW r \in Rank, Release(r) \/ ReleaseRaises(r)
  PROVE  IInv'
<1> DEFINE T == DefaultTags(request.tags)
<1>1. /\ Ends(r, "release") /\ pc[r] = "release" /\ "release" \in MemoryOps
      /\ UNCHANGED <<request, answer, known, configured>>
  BY DEF Release, ReleaseRaises, Ends, driverVars, MemoryOps
<1>2. /\ T \in SUBSET Tags /\ released[r] \in SUBSET Tags /\ resident[r] \in SUBSET Tags
      /\ \A t \in T : t \in released[r] => t \notin resident[r]
  BY <1>1, BeforeLeaving
<1>3. released \in [Rank -> SUBSET Tags] /\ failures \in 0 .. MaxFailures /\ MaxFailures \in Nat
  BY SglangAdapterAssumption DEF IInv, TypeOK
<1>4. CASE Release(r)
  <2> DEFINE booked == released[r] \cup NativeTags(r)
             memory == resident[r] \ NativeTags(r)
  <2>1. Leaves(r, "release", booked, memory)
    BY <1>1, <1>2, <1>3, <1>4 DEF Leaves, Release, NativeTags
  <2> QED
    BY <2>1, <1>1, LeavingKeeps
<1>5. CASE ReleaseRaises(r)
  <2>1. PICK done \in SUBSET NativeTags(r) : resident' = [resident EXCEPT ![r] = @ \ done]
    BY <1>5 DEF ReleaseRaises
  <2> DEFINE memory == resident[r] \ done
  <2>2. /\ released' = [released EXCEPT ![r] = released[r]]
        /\ raised' = raised \cup {r} /\ failures' \in 0 .. MaxFailures
    BY <1>3, <1>5 DEF ReleaseRaises, EngineRaises
  <2>3. Leaves(r, "release", released[r], memory)
    BY <1>1, <1>2, <2>1, <2>2 DEF Leaves, NativeTags
  <2> QED
    BY <2>3, <1>1, LeavingKeeps
<1> QED
  BY <1>4, <1>5

\* resume_memory, likewise.
LEMMA ResumeKeeps ==
  ASSUME IInv, NEW r \in Rank, Resume(r) \/ ResumeRaises(r)
  PROVE  IInv'
<1> DEFINE T == DefaultTags(request.tags)
<1>1. /\ Ends(r, "resume") /\ pc[r] = "resume" /\ "resume" \in MemoryOps
      /\ UNCHANGED <<request, answer, known, configured>>
  BY DEF Resume, ResumeRaises, Ends, driverVars, MemoryOps
<1>2. /\ T \in SUBSET Tags /\ released[r] \in SUBSET Tags /\ resident[r] \in SUBSET Tags
      /\ \A t \in T : t \notin released[r] => t \in resident[r]
  BY <1>1, BeforeLeaving
<1>3. released \in [Rank -> SUBSET Tags] /\ failures \in 0 .. MaxFailures /\ MaxFailures \in Nat
  BY SglangAdapterAssumption DEF IInv, TypeOK
<1>4. CASE Resume(r)
  <2> DEFINE booked == released[r] \ ResumeTags(r)
             memory == resident[r] \cup ResumeTags(r)
  <2>1. Leaves(r, "resume", booked, memory)
    BY <1>1, <1>2, <1>3, <1>4 DEF Leaves, Resume, ResumeTags
  <2> QED
    BY <2>1, <1>1, LeavingKeeps
<1>5. CASE ResumeRaises(r)
  <2>1. PICK done \in SUBSET ResumeTags(r) : resident' = [resident EXCEPT ![r] = @ \cup done]
    BY <1>5 DEF ResumeRaises
  <2> DEFINE memory == resident[r] \cup done
  <2>2. /\ released' = [released EXCEPT ![r] = released[r]]
        /\ raised' = raised \cup {r} /\ failures' \in 0 .. MaxFailures
    BY <1>3, <1>5 DEF ResumeRaises, EngineRaises
  <2>3. Leaves(r, "resume", released[r], memory)
    BY <1>1, <1>2, <2>1, <2>2 DEF Leaves, ResumeTags
  <2> QED
    BY <2>3, <1>1, LeavingKeeps
<1> QED
  BY <1>4, <1>5

\* Every step keeps the invariant.
LEMMA NextKeeps ==
  ASSUME IInv, [Next]_vars
  PROVE  IInv'
<1>1. CASE UNCHANGED vars
  BY <1>1 DEF vars, driverVars, memoryVars, IInv, TypeOK, Places, TagsUnderway, BooksFollow,
              LeftIsBooked, Left, Idle
<1>2. CASE DriverNext
  <2>1. ASSUME NEW op \in MemoryOps, NEW tags \in SUBSET Tags, RequestMemory(op, tags)
        PROVE  IInv'
    BY <2>1, RequestMemoryKeeps
  <2>2. ASSUME NEW op \in {"report", "parallelism", "execute", "init"},
               NEW equal_sizes \in BOOLEAN, RequestOther(op, equal_sizes)
        PROVE  IInv'
    <3>1. op \in Ops \ MemoryOps
      BY DEF Ops, MemoryOps
    <3> QED
      BY <2>2, <3>1, RequestOtherKeeps
  <2> QED
    BY <1>2, <2>1, <2>2 DEF DriverNext
<1>3. CASE Answer
  BY <1>3, AnswerKeeps
<1>4. CASE \E r \in Rank : RankNext(r)
  <2>1. PICK r \in Rank : RankNext(r)
    BY <1>4
  <2>2. OtherStep(r) \/ (Release(r) \/ ReleaseRaises(r)) \/ (Resume(r) \/ ResumeRaises(r))
    BY <2>1 DEF RankNext, OtherStep
  <2> QED
    BY <2>2, OtherStepKeeps, ReleaseKeeps, ResumeKeeps
<1> QED
  BY <1>1, <1>2, <1>3, <1>4 DEF Next

\* The invariant holds in every reachable state.
THEOREM Invariance == Spec => []IInv
<1>1. IInv /\ [Next]_vars => IInv'
  BY NextKeeps
<1> QED
  BY <1>1, InitIInv, PTL DEF Spec

\* For every set of ranks and tags the state of endpoints and ranks keeps its type,
\* and a rank that has raised has left the call.
THEOREM TypeCorrect == Spec => []TypeOK
<1>1. IInv => TypeOK
  BY DEF IInv
<1> QED
  BY <1>1, Invariance, PTL

\* Whatever the engine fails at or half does, on whatever ranks, and however the
\* driver mixes repeated requests with others: a tag that was answered "ok" is in
\* that state on every rank (release_memory, resume_memory, the endpoints).
THEOREM AnswersAreTrueTheorem == Spec => []AnswersAreTrue
<1>1. IInv => AnswersAreTrue
  BY DEF IInv, BooksFollow, AnswersAreTrue
<1> QED
  BY <1>1, Invariance, PTL

=============================================================================
