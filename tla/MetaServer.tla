----------------------------- MODULE MetaServer -----------------------------
(***************************************************************************)
(* The MetaServer and its clients (meta/meta_server.py): requests that the *)
(* client's retry loop repeats when no reply comes in time, and the server *)
(* that applies every copy it gets, also late ones.                        *)
(*                                                                         *)
(* Each client allocates an id and then calls barrier(key, rank,           *)
(* world_size): it adds its rank to a set, reads the set until it is full, *)
(* and rank 0 deletes it.  Ten seconds or a day are the same to the model: *)
(* a request may time out at any moment, and the wait for the set to fill  *)
(* has no limit of its own.                                                *)
(***************************************************************************)
EXTENDS Naturals, FiniteSets, Sequences

CONSTANTS
  NumClients,    \* world_size of the barrier
  MaxRetries,    \* attempts of the retry loop
  MaxTimeouts    \* bound: requests that get no reply in time

ASSUME MetaServerAssumption ==
  NumClients \in Nat \ {0} /\ MaxRetries \in Nat \ {0} /\ MaxTimeouts \in Nat

Client == 0 .. NumClients - 1

Request == {"allocate", "add", "get", "delete"}

VARIABLES
  storage,     \* the set under the key, {} if the server has no such key
  idCounter,   \* the next id
  copies,      \* requests on their way: <<client, request, attempt>>
  pc,          \* the request a client is at, or "passed"
  attempt,     \* 0: not sent yet; MaxRetries + 1: the retry loop has raised
  reply,       \* <<>>, or the reply that has arrived for the current attempt
  allocated,   \* <<>>, or the id a client was given
  timeouts     \* number of timeouts so far

clientVars == <<pc, attempt, reply, allocated, timeouts>>
vars == <<storage, idCounter, copies, clientVars>>

Init ==
  /\ storage = {} /\ idCounter = 0 /\ copies = {}
  /\ pc = [c \in Client |-> "allocate"] /\ attempt = [c \in Client |-> 0]
  /\ reply = [c \in Client |-> <<>>] /\ allocated = [c \in Client |-> <<>>]
  /\ timeouts = 0

-----------------------------------------------------------------------------
\* The server: each handler runs without giving way between its reading and
\* its writing of the storage.

\* A copy that is not the client's current attempt is answered on a session
\* the client has closed.
Reply(m, value) ==
  reply' = IF m = <<m[1], pc[m[1]], attempt[m[1]]>>
             THEN [reply EXCEPT ![m[1]] = <<value>>] ELSE reply

Handles(m, request) ==
  /\ m \in copies /\ m[2] = request
  /\ copies' = copies \ {m}
  /\ UNCHANGED <<pc, attempt, allocated, timeouts>>

\* Mutant: the counter is advanced only for a client still waiting.
AllocateHandlerStale(m) ==
  /\ Handles(m, "allocate") /\ Reply(m, idCounter)
  /\ idCounter' = IF attempt[m[1]] = 1 THEN idCounter + 1 ELSE idCounter
  /\ UNCHANGED storage

AllocateHandler(m) ==
  /\ Handles(m, "allocate") /\ Reply(m, idCounter)
  /\ idCounter' = idCounter + 1 /\ UNCHANGED storage

\* Mutant: the handler starts a new set every time.
AddHandlerFresh(m) ==
  /\ Handles(m, "add") /\ Reply(m, "stored")
  /\ storage' = {m[1]} /\ UNCHANGED idCounter

\* Mutant: ranks count from one.
AddHandlerFromOne(m) ==
  /\ Handles(m, "add") /\ Reply(m, "stored")
  /\ storage' = storage \cup {m[1] + 1} /\ UNCHANGED idCounter

AddHandler(m) ==
  /\ Handles(m, "add") /\ Reply(m, "stored")
  /\ storage' = storage \cup {m[1]} /\ UNCHANGED idCounter

\* A missing key is a 404, which get_object turns into the default value, the
\* empty set.
GetHandler(m) ==
  /\ Handles(m, "get") /\ Reply(m, storage)
  /\ UNCHANGED <<storage, idCounter>>

\* A missing key is a 404, which the client raises as an error.
DeleteHandler(m) ==
  /\ Handles(m, "delete") /\ Reply(m, IF storage = {} THEN "error" ELSE "deleted")
  /\ storage' = {} /\ UNCHANGED idCounter

-----------------------------------------------------------------------------
\* The client: one request at a time.

Send(c) ==
  /\ pc[c] \in Request /\ attempt[c] = 0
  /\ attempt' = [attempt EXCEPT ![c] = 1]
  /\ copies' = copies \cup {<<c, pc[c], 1>>}
  /\ UNCHANGED <<storage, idCounter, pc, reply, allocated, timeouts>>

Waiting(c) == pc[c] \in Request /\ attempt[c] \in 1 .. MaxRetries

\* The retry loop: a new session and the same request again.
Retry(c) ==
  /\ Waiting(c) /\ attempt[c] < MaxRetries /\ timeouts < MaxTimeouts
  /\ timeouts' = timeouts + 1
  /\ attempt' = [attempt EXCEPT ![c] = @ + 1]
  /\ copies' = copies \cup {<<c, pc[c], attempt[c] + 1>>}
  /\ reply' = [reply EXCEPT ![c] = <<>>]
  /\ UNCHANGED <<storage, idCounter, pc, allocated>>

\* The last attempt fails: the loop raises, which only delete_if_exists
\* swallows.
GiveUp(c) ==
  /\ Waiting(c) /\ attempt[c] = MaxRetries /\ timeouts < MaxTimeouts
  /\ timeouts' = timeouts + 1
  /\ pc' = [pc EXCEPT ![c] = IF @ = "delete" THEN "passed" ELSE @]
  /\ attempt' = [attempt EXCEPT ![c] = MaxRetries + 1]
  /\ reply' = [reply EXCEPT ![c] = <<>>]
  /\ UNCHANGED <<storage, idCounter, copies, allocated>>

\* Client c takes its reply and goes on with the next request.
Receives(c, request, next) ==
  /\ Waiting(c) /\ pc[c] = request /\ reply[c] # <<>>
  /\ pc' = [pc EXCEPT ![c] = next]
  /\ attempt' = [attempt EXCEPT ![c] = 0]
  /\ reply' = [reply EXCEPT ![c] = <<>>]
  /\ UNCHANGED <<storage, idCounter, copies, timeouts>>

Allocated(c) ==
  /\ Receives(c, "allocate", "add")
  /\ allocated' = [allocated EXCEPT ![c] = reply[c]]

Added(c) == Receives(c, "add", "get") /\ UNCHANGED allocated

\* wait_set_until_size: read again, or go on; rank 0 deletes the set.
NotFull(c) ==
  Receives(c, "get", "get") /\ Cardinality(reply[c][1]) < NumClients /\ UNCHANGED allocated

\* Mutant: one rank may be missing.
FullButOne(c) ==
  /\ Receives(c, "get", IF c = 0 THEN "delete" ELSE "passed")
  /\ Cardinality(reply[c][1]) >= NumClients - 1 /\ UNCHANGED allocated

Full(c) ==
  /\ Receives(c, "get", IF c = 0 THEN "delete" ELSE "passed")
  /\ Cardinality(reply[c][1]) >= NumClients /\ UNCHANGED allocated

\* delete_if_exists returns also when the delete is an error.
Deleted(c) == Receives(c, "delete", "passed") /\ UNCHANGED allocated

Handle(m) == AllocateHandler(m) \/ AddHandler(m) \/ GetHandler(m) \/ DeleteHandler(m)

Advance(c) ==
  Send(c) \/ Allocated(c) \/ Added(c) \/ NotFull(c) \/ Full(c) \/ Deleted(c)

Finished == copies = {} /\ \A c \in Client : pc[c] = "passed" \/ attempt[c] > MaxRetries

Next ==
  \/ \E m \in copies : Handle(m)
  \/ \E c \in Client : Advance(c) \/ Retry(c) \/ GiveUp(c)
  \/ Finished /\ UNCHANGED vars

Spec == Init /\ [][Next]_vars

\* Every client goes on, and the server handles every copy.
FairSpec ==
  /\ Spec
  /\ \A c \in Client : WF_vars(Advance(c))
  /\ \A m \in Client \X Request \X (1 .. MaxRetries) : WF_vars(Handle(m))

-----------------------------------------------------------------------------
TypeOK ==
  /\ storage \subseteq Client /\ idCounter \in 0 .. NumClients + MaxTimeouts
  /\ copies \subseteq Client \X Request \X (1 .. MaxRetries)
  /\ pc \in [Client -> Request \cup {"passed"}] /\ attempt \in [Client -> 0 .. MaxRetries + 1]
  /\ \A c \in Client : Len(reply[c]) <= 1 /\ Len(allocated[c]) <= 1
  /\ timeouts \in 0 .. MaxTimeouts

\* No two clients are given the same id, although a repeated request takes an
\* id nobody gets (allocate_auto_grow_id).
UniqueIds ==
  \A c, d \in Client : allocated[c] = allocated[d] /\ allocated[c] # <<>> => c = d

\* An add that has been acknowledged stays in the set until the set is
\* deleted, whoever else adds or repeats an add (add_object_to_set_handler).
AddsAccumulate ==
  pc[0] \in {"allocate", "add", "get"} =>
    \A c \in Client : pc[c] \in {"get", "passed"} => c \in storage

Entered(c) == pc[c] \in {"get", "delete", "passed"} \/ (pc[c] = "add" /\ attempt[c] > 0)

\* Nobody passes the barrier before everybody has entered it, with any number
\* of repeated and late copies of the requests.
BarrierSafe ==
  (\E c \in Client : pc[c] \in {"delete", "passed"}) => \A d \in Client : Entered(d)
=============================================================================
