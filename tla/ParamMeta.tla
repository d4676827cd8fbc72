------------------------------ MODULE ParamMeta ------------------------------
(***************************************************************************)
(* Where the shards of every parameter are, as both sides of the exchange  *)
(* derive it from what the ranks report: the global layer numbers of       *)
(* pipeline stages (train_meta_resolver.py), the kind of sharding          *)
(* (param_sharding.py), and the replicas and offsets that                  *)
(* MetaResolver._build_params_meta makes of the shards of all ranks.       *)
(*                                                                         *)
(* A layout is the parallelism of one side: the sizes tp, attnTp (of the   *)
(* attention), ep and epTp (of the experts), dp, pp and vp (virtual        *)
(* stages), the number of cores (the engine cores of vLLM's internal data  *)
(* parallelism, else 1), and whether the workers of a core are numbered    *)
(* from 0 or through all cores (numbering "local" or "global").            *)
(* A parameter is <<layer, kind>>.  Only the sharding dimension is kept,   *)
(* with Length elements; in the others every shard is whole.               *)
(***************************************************************************)
EXTENDS Naturals, FiniteSets

CONSTANTS
  NumLayers,   \* layers of the model
  Length       \* size of every parameter in its sharding dimension

ASSUME ParamMetaAssumption == NumLayers \in Nat \ {0} /\ Length \in Nat \ {0}

\* In the order in which their names sort.
Kind == {"attention", "expert0", "expert1", "mlp", "norm"}
KindIndex == [k \in Kind |->
  CASE k = "attention" -> 0 [] k = "expert0" -> 1 [] k = "expert1" -> 2 [] k = "mlp" -> 3 [] k = "norm" -> 4]
Expert == {"expert0", "expert1"}

Layer == 0 .. NumLayers - 1
Param == Layer \X Kind

\* A layout that divides evenly: cores, attention and experts deal out the data
\* and tensor parallel ranks, stages the layers, tensor parallel ranks the
\* parameters, and there is a rank for every slice of every expert.  Tensor
\* parallelism of experts is no wider than the other: MetaResolver does not order
\* the shards of an expert for more (meta_resolver.py:168).
Regular(l) ==
  /\ {l.tp, l.attnTp, l.ep, l.epTp, l.dp, l.pp, l.vp, l.cores} \subseteq Nat \ {0}
  /\ l.dp % l.cores = 0
  /\ l.tp % l.attnTp = 0 /\ (l.ep > 1 => l.tp % l.epTp = 0)
  /\ NumLayers % (l.pp * l.vp) = 0
  /\ Length % l.tp = 0
  /\ l.ep > 1 => l.ep * l.epTp <= IF l.cores > 1 THEN l.cores * l.tp ELSE l.tp * l.dp

WorldSize(l) == l.tp * l.dp * l.pp
Ranks(l) == 0 .. WorldSize(l) - 1
CoreSize(l) == WorldSize(l) \div l.cores
Core(l) == 0 .. l.cores - 1

\* parallel_config.rank of a worker.
WorkerRank(l, core, local) == IF l.numbering = "local" THEN local ELSE core * CoreSize(l) + local

\* The global rank a worker reports (_awex_rank_info).
GlobalRank(l, core, local) ==
  LET rank == WorkerRank(l, core, local)
  IN IF rank < CoreSize(l) THEN core * CoreSize(l) + rank ELSE rank

\* The ranks whose metadata is collected, core by core (_collective_rpc_all_dp_cores).
CollectedRanks(l) ==
  {GlobalRank(l, core, local) : core \in Core(l), local \in 0 .. CoreSize(l) - 1}

-----------------------------------------------------------------------------
\* The place of a rank in each group, as the engine reports it.
TpRank(l, r) == r % l.tp
AttnTpRank(l, r) == r % l.attnTp
PpRank(l, r) == (r % CoreSize(l)) \div (l.tp * (l.dp \div l.cores))
EpIndex(l, r) == IF l.cores > 1 THEN (r \div CoreSize(l)) * l.tp + (r % l.tp) ELSE r
EpRank(l, r) == IF l.ep > 1 THEN (EpIndex(l, r) \div l.epTp) % l.ep ELSE 0
EpTpRank(l, r) == IF l.ep > 1 THEN r % l.epTp ELSE 0

\* Layers of a stage, by their number within the stage.
LocalLayer(l) == 0 .. (NumLayers \div (l.pp * l.vp)) - 1

\* The layer a stage really holds (the layer offset of the training engine:
\* virtual stages are spread over the pipeline).
HeldLayer(l, pp, vp, id) ==
  vp * (NumLayers \div l.vp) + pp * (NumLayers \div (l.pp * l.vp)) + id

\* Mutant: the stages of a pipeline rank are numbered one after the other.
LayerBeforeByRank(a, b) ==
  \/ a[1] < b[1]
  \/ a[1] = b[1] /\ (a[2] < b[2] \/ (a[2] = b[2] /\ a[3] < b[3]))

\* for vp_stage ..: for pp_rank ..: the sorted local ids of the stage
LayerBefore(a, b) ==
  \/ a[2] < b[2]
  \/ a[2] = b[2] /\ (a[1] < b[1] \/ (a[1] = b[1] /\ a[3] < b[3]))

StageLayers(l) == (0 .. l.pp - 1) \X (0 .. l.vp - 1) \X LocalLayer(l)

\* The global number given to a layer of a stage.
GlobalLayer(l, pp, vp, id) ==
  Cardinality({x \in StageLayers(l) : LayerBefore(x, <<pp, vp, id>>)})

\* Expert parallelism gives every rank the same share of the two experts.
HeldKinds(l, r) ==
  {k \in Kind : (k \in Expert /\ l.ep > 1) =>
                  ((KindIndex[k] - 1) * l.ep) \div Cardinality(Expert) = EpRank(l, r)}

\* Parameters a rank reports, under their global names.
RankParams(l, r) ==
  {GlobalLayer(l, PpRank(l, r), vp, id) : vp \in 0 .. l.vp - 1, id \in LocalLayer(l)} \X HeldKinds(l, r)

\* The layer whose tensor a rank has under a name.
TensorLayer(l, r, p) ==
  CHOOSE n \in Layer : \E vp \in 0 .. l.vp - 1, id \in LocalLayer(l) :
    /\ GlobalLayer(l, PpRank(l, r), vp, id) = p[1]
    /\ n = HeldLayer(l, PpRank(l, r), vp, id)

\* How the engine has cut a parameter: into how many slices, and which of
\* them a rank has.
Slices(l, p) ==
  IF p[2] = "norm" THEN 1
  ELSE IF p[2] = "attention" THEN l.attnTp
  ELSE IF p[2] \in Expert /\ l.ep > 1 THEN l.epTp ELSE l.tp

Slice(l, p, r) == r % Slices(l, p)
Shape(l, p) == Length \div Slices(l, p)

\* The first element of the parameter that is in the tensor of rank r.
TensorOffset(l, p, r) == Slice(l, p, r) * Shape(l, p)

-----------------------------------------------------------------------------
\* ShardingStrategy.get_sharding_strategy
Sharding(l, p) ==
  IF l.tp = 1 \/ p[2] = "norm" THEN "NO"
  ELSE IF p[2] = "attention" /\ l.attnTp # l.tp THEN IF l.attnTp > 1 THEN "DP_TP" ELSE "NO"
  ELSE IF p[2] \in Expert /\ l.ep > 1 THEN IF l.epTp > 1 THEN "EP_TP" ELSE "EP"
  ELSE "TP"

\* The rank that orders the shards within a replica.
RankKey(l, p, r) ==
  LET s == Sharding(l, p) IN
  IF s = "TP" THEN TpRank(l, r)
  ELSE IF s = "DP_TP" THEN AttnTpRank(l, r)
  ELSE IF s = "EP_TP" THEN EpTpRank(l, r) ELSE EpRank(l, r)

Holders(l, p) == {r \in CollectedRanks(l) : p \in RankParams(l, r)}

\* The replica the shard of rank r belongs to: each rank its own if there is
\* no sharding, else the i-th of those with the same key are in the i-th.
ReplicaOf(l, p, r) ==
  Cardinality({q \in Holders(l, p) :
                 q < r /\ (Sharding(l, p) = "NO" \/ RankKey(l, p, q) = RankKey(l, p, r))})

\* replica.sort(key=tp_rank), stable on the sorted keys
ShardBefore(l, p, q, r) ==
  \/ TpRank(l, q) < TpRank(l, r)
  \/ TpRank(l, q) = TpRank(l, r) /\ RankKey(l, p, q) < RankKey(l, p, r)

\* prev_offsets: the shapes of the shards before it in the replica.
GlobalOffset(l, p, r) ==
  Shape(l, p) * Cardinality({q \in Holders(l, p) :
    ReplicaOf(l, p, q) = ReplicaOf(l, p, r) /\ ShardBefore(l, p, q, r)})

\* The shards of every parameter.
ParamsMeta(l) ==
  [p \in Param |->
     {[rank |-> r, replica |-> ReplicaOf(l, p, r), start |-> GlobalOffset(l, p, r), size |-> Shape(l, p)] :
        r \in Holders(l, p)}]

\* Number of the replicas that shards belong to.
NumReplicas(shards) == Cardinality({s.replica : s \in shards})
=============================================================================
