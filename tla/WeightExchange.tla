--------------------------- MODULE WeightExchange ---------------------------
(***************************************************************************)
(* What an exchange of weights promises to whoever uses the engines,       *)
(* however it is carried out: an engine serves one version at a time, it   *)
(* stops serving to be updated, and it serves again only when the weights  *)
(* of the step have reached all engines.                                   *)
(*                                                                         *)
(* SeparateExchange and ColocateExchange implement it.  There an exchange  *)
(* is a batch of transfers between many ranks, closed by a barrier.        *)
(***************************************************************************)
EXTENDS Naturals

CONSTANTS
  Engine,   \* inference engines
  MaxStep   \* bound: steps exchanged

VARIABLES
  exchanged,  \* the last step whose weights have reached all engines
  step,       \* step[e]: the step engine e is updated to, or last was
  serves      \* serves[e]: the versions in the parameters that e serves with,
              \* {} while it does not serve

vars == <<exchanged, step, serves>>

Init ==
  /\ exchanged = 0
  /\ step = [e \in Engine |-> 0]
  /\ serves = [e \in Engine |-> {0}]

StopServing(e) ==
  /\ serves[e] # {} /\ step[e] < MaxStep
  /\ step' = [step EXCEPT ![e] = @ + 1]
  /\ serves' = [serves EXCEPT ![e] = {}]
  /\ UNCHANGED exchanged

\* Nobody serves: the weights of the next step reach everybody.
Exchange ==
  /\ \A e \in Engine : serves[e] = {} /\ step[e] = exchanged + 1
  /\ exchanged' = exchanged + 1
  /\ UNCHANGED <<step, serves>>

\* With the weights of that step, and no others.
ServeAgain(e) ==
  /\ serves[e] = {} /\ step[e] = exchanged
  /\ serves' = [serves EXCEPT ![e] = {exchanged}]
  /\ UNCHANGED <<exchanged, step>>

Next == Exchange \/ \E e \in Engine : StopServing(e) \/ ServeAgain(e)

Spec == Init /\ [][Next]_vars
=============================================================================
