----------------------- MODULE MCRecursivePartition -----------------------
\* The recursive-partition transport on small groups.
EXTENDS RecursivePartition

\* Numbers of operations from one to MaxOps, unequal for the two directions
\* of a pair.
OpsOf(p) == 1 + ((p[1] + 2 * p[2]) % MaxOps)

PlanOf(S) == [p \in Pairs |-> IF p \in S THEN OpsOf(p) ELSE 0]

\* Every set of pairs that may have tensors to move.
AllPlans == {PlanOf(S) : S \in SUBSET Pairs}

\* Pairs that meet in the first, the second and the third round of a group of
\* eight, and three ranks that all exchange with each other.
SomePairs == {<<0, 1>>, <<1, 2>>, <<2, 1>>, <<0, 2>>, <<2, 4>>, <<4, 0>>}

\* All pairs; all but those one rank sends; the traffic of one rank only (a
\* single replica holding all the shards).
FewPlans ==
  {Pairs} \cup {{p \in Pairs : p[1] # r} : r \in {0, 7}}
    \cup {{p \in Pairs : r \in {p[1], p[2]}} : r \in {0, WorldSize \div 2}}

EightPlans == {PlanOf(S) : S \in (SUBSET SomePairs) \cup FewPlans}

\* All ranks at one, at two and at the largest step, and two mixtures.
FewSteps ==
  {[r \in InferRank |-> s] : s \in 1 .. MaxOps}
    \cup {[r \in InferRank |-> 1 + (r % MaxOps)],
          [r \in InferRank |-> IF r = 2 THEN MaxOps ELSE MaxOps - 1]}
=============================================================================
