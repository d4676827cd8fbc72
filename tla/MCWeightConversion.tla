-------------------------- MODULE MCWeightConversion --------------------------
\* Small models of every kind, cut by the training job and by an engine.
EXTENDS WeightConversion

Model(heads, kvHeads, group, layers, dense, experts, qLora) ==
  [heads |-> heads, kvHeads |-> kvHeads, headRows |-> 1, kvChannels |-> 0, hidden |-> heads,
   replicated |-> FALSE, group |-> group, layers |-> layers, dense |-> dense, experts |-> experts,
   qLora |-> qLora, width |-> 4]

On(model, tp, ep, pp, vp, infTp, infEp) ==
  model @@ [tp |-> tp, ep |-> ep, pp |-> pp, vp |-> vp, infTp |-> infTp, infEp |-> infEp]

\* Grouped queries over tensor parallel ranks: for as many workers, for more
\* workers than key heads, over four ranks.  One head per key: both sides cut
\* between heads.  Both kinds of attention, fused and not; fused ones with
\* tensor parallel training are for single workers.  Virtual stages of one
\* layer each, over a pipeline; stages of whole groups.  Expert parallelism of
\* training and of the workers, also over a pipeline.  The other formats of
\* linear_qkv.
MCLayouts ==
  {On(Model(4, 2, 3, 2, 1, 2, TRUE), 2, 1, 1, 1, 2, 1),
   On(Model(4, 2, 2, 1, 1, 2, TRUE), 2, 1, 1, 1, 4, 1),
   On(Model(8, 4, 2, 1, 1, 2, TRUE), 4, 1, 1, 1, 2, 1),
   On(Model(4, 4, 2, 2, 2, 2, TRUE), 1, 1, 1, 1, 2, 1),
   On(Model(4, 2, 2, 2, 2, 2, FALSE), 1, 1, 1, 1, 4, 1),
   On(Model(4, 2, 2, 2, 2, 2, FALSE), 2, 1, 1, 1, 4, 1),
   On(Model(4, 2, 2, 2, 2, 2, TRUE), 2, 1, 1, 1, 1, 1),
   On(Model(4, 2, 2, 4, 4, 2, TRUE), 1, 1, 2, 2, 2, 1),
   On(Model(4, 2, 2, 4, 2, 2, TRUE), 1, 1, 2, 1, 2, 1),
   On(Model(4, 2, 3, 2, 2, 2, TRUE), 2, 1, 2, 1, 2, 1),
   On(Model(2, 2, 2, 1, 0, 4, TRUE), 1, 2, 1, 1, 2, 2),
   On(Model(2, 2, 2, 2, 0, 4, TRUE), 1, 2, 1, 1, 2, 1),
   On(Model(2, 2, 2, 2, 1, 2, TRUE), 1, 2, 2, 1, 2, 2),
   [On(Model(4, 2, 2, 1, 1, 2, TRUE), 1, 1, 1, 1, 2, 1) EXCEPT !.replicated = TRUE],
   [On(Model(4, 2, 2, 1, 1, 2, TRUE), 2, 1, 1, 1, 2, 1) EXCEPT !.headRows = 2]}

ASSUME MCLayoutsMatch == \A l \in MCLayouts : Matching(l)

\* Fused projections with tensor parallel training and tensor parallel workers.
MCFusedLayouts == {On(Model(4, 2, 2, 2, 2, 2, TRUE), 2, 1, 1, 1, 2, 1)}

ASSUME MCFusedLayoutsDoNot == \A l \in MCFusedLayouts : ~Matching(l)
=============================================================================
