-------------------------- MODULE MetaServerProofs --------------------------
(***************************************************************************)
(* For any number of clients, attempts and timeouts: ids are unique, the   *)
(* set under the key of a barrier keeps whoever was told to be in it, and  *)
(* nobody passes the barrier before all have entered it.                   *)
(***************************************************************************)
EXTENDS MetaServer, Integers, FiniteSetTheorems, TLAPS

\* The requests for an id that are on their way, and the clients that have not sent theirs.
Pending == {m \in copies : m[2] = "allocate"}
Unsent == {c \in Client : pc[c] = "allocate" /\ attempt[c] = 0}

\* What a client was given as its id, whether it has read the reply or not.
Given(c) == IF pc[c] = "allocate" THEN reply[c] ELSE allocated[c]

\* Those that have sent their add: before rank 0 is past the barrier, nobody else
\* can be in the set.
EnteredClients == {d \in Client : Entered(d)}

\* A reply is there only while its client waits; a reply to get is a set.
RepliesFollow ==
  /\ DOMAIN reply = Client /\ DOMAIN allocated = Client
  /\ \A c \in Client : reply[c] = <<>> \/ \E v : reply[c] = <<v>>
  /\ \A c \in Client : reply[c] # <<>> => pc[c] \in Request /\ attempt[c] \in 1 .. MaxRetries
  /\ \A c \in Client : pc[c] = "allocate" => allocated[c] = <<>>

\* Every id taken, and every id still to be taken, is for a client or for a timeout.
IdsCounted == idCounter + Cardinality(Pending) + Cardinality(Unsent) <= NumClients + timeouts

\* An id given is below the counter, and nobody else's.
IdsFollow ==
  /\ \A c \in Client : Given(c) \in {<<>>} \cup {<<i>> : i \in 0 .. idCounter - 1}
  /\ \A c, d \in Client : Given(c) = Given(d) /\ Given(c) # <<>> => c = d

\* Only rank 0 deletes the set, at the end; until then it has whoever was told so.
SetFollows ==
  /\ \A c \in Client : pc[c] = "delete" => c = 0
  /\ \A m \in copies : m[2] = "delete" => pc[0] \in {"delete", "passed"}
  /\ pc[0] \in {"allocate", "add", "get"} =>
       \A c \in Client :
         pc[c] \in {"get", "passed"} \/ (pc[c] = "add" /\ reply[c] # <<>>) => c \in storage

\* The set, the requests that add to it and the replies that report it have no
\* client that has not entered the barrier.
EntriesFollow ==
  /\ storage \subseteq EnteredClients
  /\ \A m \in copies : m[2] = "add" => m[1] \in EnteredClients
  /\ \A c \in Client : pc[c] = "get" /\ reply[c] # <<>> => reply[c][1] \subseteq EnteredClients
  /\ (\E c \in Client : pc[c] \in {"delete", "passed"}) => EnteredClients = Client

\* The inductive invariant.
IInv ==
  /\ TypeOK
  /\ RepliesFollow
  /\ IdsCounted
  /\ IdsFollow
  /\ SetFollows
  /\ EntriesFollow

-----------------------------------------------------------------------------
\* What is counted is finite.
LEMMA CountsFinite ==
  ASSUME TypeOK
  PROVE  /\ IsFiniteSet(Pending) /\ Cardinality(Pending) \in Nat
         /\ IsFiniteSet(Unsent) /\ Cardinality(Unsent) \in Nat
         /\ IsFiniteSet(Client) /\ Cardinality(Client) = NumClients
<1>1. IsFiniteSet(Client) /\ Cardinality(Client) = NumClients
  BY FS_Interval, MetaServerAssumption DEF Client
<1>2. IsFiniteSet(Unsent)
  BY <1>1, FS_Subset DEF Unsent
<1>3. IsFiniteSet(Pending)
  <2> DEFINE Attempts == Client \X (1 .. MaxRetries)
             f == [m \in Pending |-> <<m[1], m[3]>>]
  <2>1. IsFiniteSet(Attempts)
    <3>1. IsFiniteSet(1 .. MaxRetries)
      BY FS_Interval, MetaServerAssumption
    <3> QED
      BY <1>1, <3>1, FS_Product
  <2>2. \A m \in Pending : m = <<m[1], "allocate", m[3]>> /\ <<m[1], m[3]>> \in Attempts
    BY DEF Pending, TypeOK
  <2>3. f \in Injection(Pending, Attempts)
    BY <2>2 DEF Injection, IsInjective
  <2> QED
    BY <2>1, <2>3, FS_Injection
<1> QED
  BY <1>1, <1>2, <1>3, FS_CardinalityType

-----------------------------------------------------------------------------
\* At the start nothing has been sent, and every client has an id to come.
LEMMA InitIInv == Init => IInv
<1> SUFFICES ASSUME Init PROVE IInv
  OBVIOUS
<1>1. TypeOK
  BY MetaServerAssumption DEF Init, TypeOK, Request
<1>2. RepliesFollow
  BY DEF Init, RepliesFollow
<1>3. IdsCounted
  <2>1. Pending = {} /\ Unsent = Client
    BY DEF Init, Pending, Unsent
  <2>2. Cardinality(Pending) = 0 /\ Cardinality(Unsent) = NumClients
    BY <1>1, <2>1, CountsFinite, FS_EmptySet
  <2> QED
    BY <2>2, MetaServerAssumption DEF Init, IdsCounted
<1>4. IdsFollow
  BY DEF Init, IdsFollow, Given
<1>5. SetFollows
  BY DEF Init, SetFollows
<1>6. EntriesFollow
  BY DEF Init, EntriesFollow, EnteredClients, Entered
<1> QED
  BY <1>1, <1>2, <1>3, <1>4, <1>5, <1>6 DEF IInv

\* The server gives out the counter: one request less on its way, one id more.
LEMMA AllocateHandlerKeeps ==
  ASSUME IInv, NEW m \in copies, AllocateHandler(m)
  PROVE  IInv'
<1>1. SetFollows' /\ EntriesFollow'
  BY DEF IInv, SetFollows, EntriesFollow, EnteredClients, Entered, AllocateHandler,
     Handles, Reply
<1>2. TypeOK'
  <2>1. m \in Pending
    BY DEF AllocateHandler, Handles, Pending
  <2>2. Cardinality(Pending) >= 1
    BY <2>1, CountsFinite, FS_EmptySet DEF IInv
  <2>3. idCounter + 1 <= NumClients + MaxTimeouts
    BY <2>2, CountsFinite, MetaServerAssumption DEF IInv, TypeOK, IdsCounted
  <2>4. \A c \in Client : Len(reply'[c]) <= 1
    BY DEF AllocateHandler, Handles, Reply, IInv, TypeOK, RepliesFollow
  <2> QED
    BY <2>3, <2>4, MetaServerAssumption DEF IInv, TypeOK, AllocateHandler, Handles
<1>3. RepliesFollow'
  BY DEF IInv, TypeOK, RepliesFollow, AllocateHandler, Handles, Reply
<1>4. IdsCounted'
  <2>1. m \in Pending /\ Pending' = Pending \ {m} /\ Unsent' = Unsent
    BY DEF AllocateHandler, Handles, Pending, Unsent
  <2>2. Cardinality(Pending') = Cardinality(Pending) - 1
    BY <2>1, CountsFinite, FS_RemoveElement DEF IInv
  <2>3. idCounter' = idCounter + 1 /\ timeouts' = timeouts
    BY DEF AllocateHandler, Handles
  <2>4. /\ Cardinality(Pending) \in Nat
        /\ Cardinality(Unsent) \in Nat
        /\ idCounter \in Nat
        /\ timeouts \in Nat
    BY CountsFinite, MetaServerAssumption DEF IInv, TypeOK
  <2> QED
    BY <2>1, <2>2, <2>3, <2>4, MetaServerAssumption DEF IInv, IdsCounted
<1>5. IdsFollow'
  <2>1. /\ idCounter \in Nat /\ idCounter' = idCounter + 1
        /\ pc' = pc /\ allocated' = allocated
    BY MetaServerAssumption DEF AllocateHandler, Handles, IInv, TypeOK
  <2>2. CASE m # <<m[1], pc[m[1]], attempt[m[1]]>>
    <3>1. \A c \in Client : Given(c)' = Given(c)
      BY <2>1, <2>2 DEF AllocateHandler, Reply, Given
    <3> QED
      BY <2>1, <3>1 DEF IInv, IdsFollow
  <2>3. CASE m = <<m[1], pc[m[1]], attempt[m[1]]>>
    <3> DEFINE d == m[1]
    <3>1. d \in Client /\ pc[d] = "allocate"
      BY <2>3 DEF AllocateHandler, Handles, IInv, TypeOK
    <3>2. \A c \in Client : Given(c)' = IF c = d THEN <<idCounter>> ELSE Given(c)
      BY <2>1, <2>3, <3>1 DEF AllocateHandler, Reply, Given, IInv, RepliesFollow
    <3>3. ASSUME NEW c \in Client PROVE Given(c) # <<idCounter>>
      <4>1. CASE Given(c) = <<>>
        BY <4>1
      <4>2. CASE Given(c) # <<>>
        <5>1. PICK i \in 0 .. idCounter - 1 : Given(c) = <<i>>
          BY <4>2 DEF IInv, IdsFollow
        <5>2. i # idCounter
          BY <2>1
        <5> QED
          BY <5>1, <5>2
      <4> QED
        BY <4>1, <4>2
    <3> HIDE DEF d
    <3>4. \A c \in Client : Given(c)' \in {<<>>} \cup {<<i>> : i \in 0 .. idCounter}
      BY <2>1, <3>2 DEF IInv, IdsFollow
    <3>5. \A b, c \in Client : Given(b)' = Given(c)' /\ Given(b)' # <<>> => b = c
      BY <3>2, <3>3 DEF IInv, IdsFollow
    <3> QED
      BY <2>1, <3>4, <3>5 DEF IdsFollow
  <2> QED
    BY <2>2, <2>3
<1> QED
  BY <1>1, <1>2, <1>3, <1>4, <1>5 DEF IInv

\* The set gets a client that has entered, and whoever is told so is in it.
LEMMA AddHandlerKeeps ==
  ASSUME IInv, NEW m \in copies, AddHandler(m)
  PROVE  IInv'
<1>1. TypeOK' /\ IdsFollow' /\ SetFollows' /\ EntriesFollow'
  BY DEF IInv, TypeOK, IdsFollow, SetFollows, EntriesFollow, Given, EnteredClients,
     Entered, AddHandler, Handles, Reply
<1>2. RepliesFollow'
  BY DEF IInv, TypeOK, RepliesFollow, AddHandler, Handles, Reply
<1>3. IdsCounted'
  <2>1. Pending' = Pending /\ Unsent' = Unsent
    BY DEF AddHandler, Handles, Pending, Unsent
  <2> QED
    BY <2>1 DEF IInv, IdsCounted, AddHandler, Handles
<1> QED
  BY <1>1, <1>2, <1>3 DEF IInv

\* The set that is reported has only clients that have entered.
LEMMA GetHandlerKeeps ==
  ASSUME IInv, NEW m \in copies, GetHandler(m)
  PROVE  IInv'
<1>1. TypeOK' /\ IdsFollow' /\ SetFollows' /\ EntriesFollow'
  BY DEF IInv, TypeOK, IdsFollow, SetFollows, EntriesFollow, Given, EnteredClients,
     Entered, GetHandler, Handles, Reply
<1>2. RepliesFollow'
  BY DEF IInv, TypeOK, RepliesFollow, GetHandler, Handles, Reply
<1>3. IdsCounted'
  <2>1. Pending' = Pending /\ Unsent' = Unsent
    BY DEF GetHandler, Handles, Pending, Unsent
  <2> QED
    BY <2>1 DEF IInv, IdsCounted, GetHandler, Handles
<1> QED
  BY <1>1, <1>2, <1>3 DEF IInv

\* The set is deleted only when rank 0 is past the barrier.
LEMMA DeleteHandlerKeeps ==
  ASSUME IInv, NEW m \in copies, DeleteHandler(m)
  PROVE  IInv'
<1>1. TypeOK' /\ IdsFollow' /\ SetFollows' /\ EntriesFollow'
  BY DEF IInv, TypeOK, IdsFollow, SetFollows, EntriesFollow, Given, EnteredClients,
     Entered, DeleteHandler, Handles, Reply
<1>2. RepliesFollow'
  <2>1. m[1] \in Client /\ m[3] \in 1 .. MaxRetries /\ m[2] \in Request
    BY DEF IInv, TypeOK
  <2>2. PICK v : Reply(m, v)
    BY DEF DeleteHandler
  <2>3. \A c \in Client :
          reply'[c] = reply[c] \/ (reply'[c] = <<v>> /\ pc[c] = m[2] /\ attempt[c] = m[3])
    BY <2>1, <2>2 DEF Reply, IInv, RepliesFollow
  <2>4. DOMAIN reply' = Client
    BY <2>2 DEF Reply, IInv, RepliesFollow
  <2> QED
    BY <2>1, <2>3, <2>4 DEF DeleteHandler, Handles, IInv, RepliesFollow
<1>3. IdsCounted'
  <2>1. Pending' = Pending /\ Unsent' = Unsent
    BY DEF DeleteHandler, Handles, Pending, Unsent
  <2> QED
    BY <2>1 DEF IInv, IdsCounted, DeleteHandler, Handles
<1> QED
  BY <1>1, <1>2, <1>3 DEF IInv

\* The first attempt of a request; that of an add enters the barrier.
LEMMA SendKeeps ==
  ASSUME IInv, NEW c \in Client, Send(c)
  PROVE  IInv'
<1>1. RepliesFollow' /\ IdsFollow' /\ SetFollows'
  BY DEF IInv, RepliesFollow, IdsFollow, SetFollows, Given, Send
<1>2. TypeOK'
  BY MetaServerAssumption DEF IInv, TypeOK, Send
<1>3. IdsCounted'
  <2>1. CASE pc[c] = "allocate"
    <3> DEFINE m == <<c, "allocate", 1>>
    <3>1. Pending' = Pending \cup {m} /\ c \in Unsent /\ Unsent' = Unsent \ {c}
      BY <2>1 DEF Send, Pending, Unsent, IInv, TypeOK
    <3> HIDE DEF m
    <3>2. Cardinality(Pending') \in Nat /\ Cardinality(Pending') <= Cardinality(Pending) + 1
      <4>1. IsFiniteSet(Pending) /\ Cardinality(Pending) \in Nat
        BY CountsFinite DEF IInv
      <4>2. Cardinality(Pending \cup {m}) \in {Cardinality(Pending), Cardinality(Pending) + 1}
        BY <4>1, FS_AddElement
      <4> QED
        BY <3>1, <4>1, <4>2
    <3>3. Cardinality(Unsent') = Cardinality(Unsent) - 1
      BY <3>1, CountsFinite, FS_RemoveElement DEF IInv
    <3>4. UNCHANGED <<idCounter, timeouts>>
      BY DEF Send
    <3>5. /\ Cardinality(Pending) \in Nat
          /\ Cardinality(Unsent) \in Nat
          /\ idCounter \in Nat
          /\ timeouts \in Nat
      BY CountsFinite, MetaServerAssumption DEF IInv, TypeOK
    <3> QED
      BY <3>2, <3>3, <3>4, <3>5, MetaServerAssumption DEF IInv, IdsCounted
  <2>2. CASE pc[c] # "allocate"
    <3>1. Pending' = Pending /\ Unsent' = Unsent
      BY <2>2 DEF Send, Pending, Unsent, IInv, TypeOK
    <3> QED
      BY <3>1 DEF IInv, IdsCounted, Send
  <2> QED
    BY <2>1, <2>2
<1>4. EntriesFollow'
  BY DEF IInv, TypeOK, EntriesFollow, EnteredClients, Entered, Send
<1> QED
  BY <1>1, <1>2, <1>3, <1>4 DEF IInv

\* A repeated request for an id is paid for by the timeout before it.
LEMMA RetryKeeps ==
  ASSUME IInv, NEW c \in Client, Retry(c)
  PROVE  IInv'
<1>1. RepliesFollow' /\ IdsFollow' /\ SetFollows' /\ EntriesFollow'
  BY DEF IInv, RepliesFollow, IdsFollow, SetFollows, EntriesFollow, Given,
     EnteredClients, Entered, Retry, Waiting
<1>2. TypeOK'
  BY MetaServerAssumption DEF IInv, TypeOK, Retry, Waiting
<1>3. IdsCounted'
  <2> DEFINE m == <<c, pc[c], attempt[c] + 1>>
  <2>1. Pending' = Pending \/ Pending' = Pending \cup {m}
    BY DEF Retry, Pending
  <2>2. Unsent' = Unsent
    BY DEF Retry, Waiting, Unsent, IInv, TypeOK
  <2> HIDE DEF m
  <2>3. Cardinality(Pending') \in Nat /\ Cardinality(Pending') <= Cardinality(Pending) + 1
    <3>1. IsFiniteSet(Pending) /\ Cardinality(Pending) \in Nat
      BY CountsFinite DEF IInv
    <3>2. Cardinality(Pending \cup {m}) \in {Cardinality(Pending), Cardinality(Pending) + 1}
      BY <3>1, FS_AddElement
    <3>3. Cardinality(Pending') \in {Cardinality(Pending), Cardinality(Pending) + 1}
      <4>1. CASE Pending' = Pending
        BY <4>1
      <4>2. CASE Pending' = Pending \cup {m}
        BY <4>2, <3>2
      <4> QED
        BY <2>1, <4>1, <4>2
    <3> QED
      BY <3>1, <3>3
  <2> QED
    BY <2>2, <2>3, CountsFinite, MetaServerAssumption DEF IInv, TypeOK, IdsCounted, Retry
<1> QED
  BY <1>1, <1>2, <1>3 DEF IInv

\* A client that gives up a delete is past the barrier already.
LEMMA GiveUpKeeps ==
  ASSUME IInv, NEW c \in Client, GiveUp(c)
  PROVE  IInv'
<1>1. RepliesFollow' /\ IdsFollow' /\ SetFollows' /\ EntriesFollow'
  BY DEF IInv, RepliesFollow, IdsFollow, SetFollows, EntriesFollow, Given,
     EnteredClients, Entered, GiveUp, Waiting
<1>2. TypeOK'
  BY MetaServerAssumption DEF IInv, TypeOK, GiveUp
<1>3. IdsCounted'
  <2>1. Pending' = Pending /\ Unsent' = Unsent
    BY MetaServerAssumption DEF GiveUp, Waiting, Pending, Unsent, IInv, TypeOK
  <2>2. idCounter' = idCounter /\ timeouts' = timeouts + 1
    BY DEF GiveUp
  <2>3. /\ Cardinality(Pending) \in Nat
        /\ Cardinality(Unsent) \in Nat
        /\ idCounter \in Nat
        /\ timeouts \in Nat
    BY CountsFinite, MetaServerAssumption DEF IInv, TypeOK
  <2> QED
    BY <2>1, <2>2, <2>3, MetaServerAssumption DEF IInv, IdsCounted
<1> QED
  BY <1>1, <1>2, <1>3 DEF IInv

\* A client keeps the id it was told.
LEMMA AllocatedKeeps ==
  ASSUME IInv, NEW c \in Client, Allocated(c)
  PROVE  IInv'
<1>1. TypeOK'
  BY MetaServerAssumption DEF IInv, TypeOK, Request, Allocated, Receives
<1>2. RepliesFollow'
  BY DEF IInv, TypeOK, RepliesFollow, Allocated, Receives
<1>3. IdsCounted'
  <2>1. Pending' = Pending /\ Unsent' = Unsent
    BY DEF Allocated, Receives, Waiting, Pending, Unsent, IInv, TypeOK
  <2> QED
    BY <2>1 DEF IInv, IdsCounted, Allocated, Receives
<1>4. IdsFollow'
  BY DEF IInv, RepliesFollow, IdsFollow, Given, Allocated, Receives
<1>5. SetFollows'
  BY DEF IInv, RepliesFollow, SetFollows, Allocated, Receives
<1>6. EntriesFollow'
  BY DEF IInv, EntriesFollow, EnteredClients, Entered, Allocated, Receives
<1> QED
  BY <1>1, <1>2, <1>3, <1>4, <1>5, <1>6 DEF IInv

\* A client that waits for the set to fill is in it.
LEMMA AddedKeeps ==
  ASSUME IInv, NEW c \in Client, Added(c)
  PROVE  IInv'
<1>1. RepliesFollow' /\ IdsFollow' /\ SetFollows'
  BY DEF IInv, RepliesFollow, IdsFollow, SetFollows, Given, Added, Receives
<1>2. TypeOK'
  BY MetaServerAssumption DEF IInv, TypeOK, Request, Added, Receives
<1>3. IdsCounted'
  <2>1. Pending' = Pending /\ Unsent' = Unsent
    BY DEF Added, Receives, Waiting, Pending, Unsent, IInv, TypeOK
  <2> QED
    BY <2>1 DEF IInv, IdsCounted, Added, Receives
<1>4. EntriesFollow'
  BY DEF IInv, TypeOK, RepliesFollow, EntriesFollow, EnteredClients, Entered, Added,
     Receives
<1> QED
  BY <1>1, <1>2, <1>3, <1>4 DEF IInv

\* Reading the set again changes nothing.
LEMMA NotFullKeeps ==
  ASSUME IInv, NEW c \in Client, NotFull(c)
  PROVE  IInv'
<1>1. RepliesFollow' /\ IdsFollow' /\ SetFollows' /\ EntriesFollow'
  BY DEF IInv, RepliesFollow, IdsFollow, SetFollows, EntriesFollow, Given,
     EnteredClients, Entered, NotFull, Receives
<1>2. TypeOK'
  BY MetaServerAssumption DEF IInv, TypeOK, NotFull, Receives
<1>3. IdsCounted'
  <2>1. Pending' = Pending /\ Unsent' = Unsent
    BY DEF NotFull, Receives, Waiting, Pending, Unsent, IInv, TypeOK
  <2> QED
    BY <2>1 DEF IInv, IdsCounted, NotFull, Receives
<1> QED
  BY <1>1, <1>2, <1>3 DEF IInv

\* A full set is the set of all clients, so all have entered.
LEMMA FullKeeps ==
  ASSUME IInv, NEW c \in Client, Full(c)
  PROVE  IInv'
<1>1. RepliesFollow' /\ IdsFollow' /\ SetFollows'
  BY DEF IInv, RepliesFollow, IdsFollow, SetFollows, Given, Full, Receives
<1>2. TypeOK'
  BY MetaServerAssumption DEF IInv, TypeOK, Request, Full, Receives
<1>3. IdsCounted'
  <2>1. Pending' = Pending /\ Unsent' = Unsent
    BY DEF Full, Receives, Waiting, Pending, Unsent, IInv, TypeOK
  <2> QED
    BY <2>1 DEF IInv, IdsCounted, Full, Receives
<1>4. EntriesFollow'
  <2> DEFINE seen == reply[c][1]
  <2>1. seen \subseteq EnteredClients /\ EnteredClients \subseteq Client
    BY DEF Full, Receives, IInv, EntriesFollow, EnteredClients
  <2>2. Cardinality(seen) >= Cardinality(Client)
    BY CountsFinite DEF Full, IInv
  <2> HIDE DEF seen
  <2>3. EnteredClients = Client
    <3>1. seen = Client
      BY <2>1, <2>2, CountsFinite, FS_Subset, FS_CardinalityType DEF IInv
    <3> QED
      BY <2>1, <3>1
  <2>4. EnteredClients' = Client
    BY <2>3 DEF EnteredClients, Entered, Full, Receives, IInv, TypeOK
  <2> QED
    <3>1. \A d \in Client : pc'[d] = "get" => pc[d] = "get" /\ reply'[d] = reply[d]
      BY DEF Full, Receives, IInv, TypeOK, RepliesFollow
    <3>2. storage' = storage /\ copies' = copies /\ copies \subseteq Client \X Request \X (1 .. MaxRetries)
      BY DEF Full, Receives, IInv, TypeOK
    <3>3. \A d \in Client : reply[d] # <<>> /\ pc[d] = "get" => reply[d][1] \subseteq Client
      BY DEF IInv, EntriesFollow, EnteredClients
    <3>4. storage \subseteq Client
      BY DEF IInv, TypeOK
    <3> QED
      BY <2>4, <3>1, <3>2, <3>3, <3>4 DEF EntriesFollow
<1> QED
  BY <1>1, <1>2, <1>3, <1>4 DEF IInv

\* After the delete rank 0 has passed.
LEMMA DeletedKeeps ==
  ASSUME IInv, NEW c \in Client, Deleted(c)
  PROVE  IInv'
<1>1. RepliesFollow' /\ IdsFollow' /\ SetFollows' /\ EntriesFollow'
  BY DEF IInv, RepliesFollow, IdsFollow, SetFollows, EntriesFollow, Given,
     EnteredClients, Entered, Deleted, Receives
<1>2. TypeOK'
  BY MetaServerAssumption DEF IInv, TypeOK, Deleted, Receives
<1>3. IdsCounted'
  <2>1. Pending' = Pending /\ Unsent' = Unsent
    BY DEF Deleted, Receives, Waiting, Pending, Unsent, IInv, TypeOK
  <2> QED
    BY <2>1 DEF IInv, IdsCounted, Deleted, Receives
<1> QED
  BY <1>1, <1>2, <1>3 DEF IInv

-----------------------------------------------------------------------------
\* Every step keeps the inductive invariant.
LEMMA NextIInv == IInv /\ [Next]_vars => IInv'
<1> SUFFICES ASSUME IInv, [Next]_vars PROVE IInv'
  OBVIOUS
<1>1. CASE UNCHANGED vars
  BY <1>1 DEF vars, clientVars, IInv, TypeOK, RepliesFollow, IdsCounted, Pending, Unsent,
     IdsFollow, Given, SetFollows, EntriesFollow, EnteredClients, Entered
<1>2. ASSUME NEW m \in copies, Handle(m) PROVE IInv'
  BY <1>2, AllocateHandlerKeeps, AddHandlerKeeps, GetHandlerKeeps, DeleteHandlerKeeps DEF Handle
<1>3. ASSUME NEW c \in Client, Advance(c) PROVE IInv'
  BY <1>3, SendKeeps, AllocatedKeeps, AddedKeeps, NotFullKeeps, FullKeeps, DeletedKeeps DEF Advance
<1>4. ASSUME NEW c \in Client, Retry(c) \/ GiveUp(c) PROVE IInv'
  BY <1>4, RetryKeeps, GiveUpKeeps
<1> QED
  BY <1>1, <1>2, <1>3, <1>4 DEF Next

\* The inductive invariant says all that the run checks.
LEMMA IInvImplies == IInv => TypeOK /\ UniqueIds /\ AddsAccumulate /\ BarrierSafe
<1> SUFFICES ASSUME IInv PROVE TypeOK /\ UniqueIds /\ AddsAccumulate /\ BarrierSafe
  OBVIOUS
<1>1. UniqueIds
  BY DEF IInv, RepliesFollow, IdsFollow, Given, UniqueIds
<1>2. AddsAccumulate
  BY DEF IInv, SetFollows, AddsAccumulate
<1>3. BarrierSafe
  BY DEF IInv, EntriesFollow, EnteredClients, BarrierSafe
<1> QED
  BY <1>1, <1>2, <1>3 DEF IInv

\* It holds in every state of every behaviour.
LEMMA Invariance == Spec => []IInv
  BY InitIInv, NextIInv, PTL DEF Spec

-----------------------------------------------------------------------------
\* The state of server, clients and network keeps its type; the counter of ids
\* grows only for clients and timeouts.
THEOREM TypeCorrect == Spec => []TypeOK
  BY Invariance, IInvImplies, PTL

\* No two clients are ever given the same id, however often the requests are
\* repeated (allocate_auto_grow_id).
THEOREM UniqueIdsTheorem == Spec => []UniqueIds
  BY Invariance, IInvImplies, PTL

\* Until rank 0 deletes the set, whoever was told to be in it is in it
\* (add_object_to_set_handler).
THEOREM AddsAccumulateTheorem == Spec => []AddsAccumulate
  BY Invariance, IInvImplies, PTL

\* Nobody passes the barrier before everybody has entered it.
THEOREM BarrierSafeTheorem == Spec => []BarrierSafe
  BY Invariance, IInvImplies, PTL
=============================================================================
