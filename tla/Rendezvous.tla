----------------------------- MODULE Rendezvous -----------------------------
(***************************************************************************)
(* Blocking two-sided execution of per-rank programs.                      *)
(*                                                                         *)
(* Every transport of the weight exchange runs, on each rank, a straight   *)
(* line of blocking calls: a send or a batch of sends to one peer, a       *)
(* receive or a batch of receives from one peer, a dist.barrier.  A call   *)
(* returns once every rank that takes part in it has issued it             *)
(* (nccl_stream_batch.py: batch_isend_irecv, work.wait, synchronize per    *)
(* peer; nccl_writer.py / nccl_reader.py: _send_recv_one_by_one;           *)
(* nccl_comm.py: execute_p2p_op_list and dist.barrier).                    *)
(*                                                                         *)
(* An element of Op stands for one such call together with its             *)
(* counterpart on the other ranks: a send is the same element as the       *)
(* receive that must take its data.  Two ranks that are at calls which do  *)
(* not belong together are therefore stuck, whether the library would hang *)
(* or deliver the wrong tensor.                                            *)
(***************************************************************************)
EXTENDS Naturals

CONSTANTS
  Rank,          \* the ranks of the weights update group
  Op,            \* the calls
  Parts(_),      \* the ranks that take part in a call
  Order(_, _),   \* Order(r, o): where call o stands in the program of rank r
  Programs       \* the programs to run: functions [Rank -> SUBSET Op]

VARIABLE
  left           \* left[r]: the calls rank r has not returned from

TypeOK == left \in [Rank -> SUBSET Op]

Init == left \in Programs

\* Rank r has issued call o and waits in it.
At(r, o) == o \in left[r] /\ \A c \in left[r] : Order(r, o) <= Order(r, c)

\* Every participant of o waits in it.
Ready(o) == Parts(o) # {} /\ \A r \in Parts(o) : At(r, o)

Done == \A r \in Rank : left[r] = {}

\* The call returns on all its participants.
Complete(o) ==
  /\ Ready(o)
  /\ left' = [r \in Rank |-> IF r \in Parts(o) THEN left[r] \ {o} ELSE left[r]]

\* All ranks have returned; the state is kept so that only a rank stuck in
\* the middle of its program is a deadlock.
Return == Done /\ UNCHANGED left

Next == (\E o \in Op : Complete(o)) \/ Return

Spec == Init /\ [][Next]_left

FairSpec == Spec /\ WF_left(\E o \in Op : Complete(o))

-----------------------------------------------------------------------------
\* The ranks never wait on each other in a cycle: whenever some rank has calls
\* left, some call has all its participants waiting in it.
NeverStuck == Done \/ \E o \in Op : Ready(o)

\* Every rank eventually returns from its last call.
Terminates == <>Done

-----------------------------------------------------------------------------
\* A call is left on all its participants or on none, and only participants
\* have it.
Symmetric ==
  \A r \in Rank : \A o \in left[r] :
    r \in Parts(o) /\ Parts(o) \subseteq Rank /\ \A q \in Parts(o) : o \in left[q]

\* One numbering of all calls that every rank's program follows.
CommonOrder(key) ==
  \A r \in Rank : \A a, b \in left[r] : key[a] <= key[b] => Order(r, a) <= Order(r, b)
=============================================================================
