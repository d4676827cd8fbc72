--------------------------- MODULE WeightConversion ---------------------------
(***************************************************************************)
(* The way of the weights out of the training job (weights_writer.py,      *)
(* train_meta_resolver.py, nccl_writer.py): every rank converts its        *)
(* parameters once to describe them, when the number of a layer is only    *)
(* known within its stage, and again to hand them over, under the global   *)
(* numbers; it packs the result into few buffers, and the worker on its    *)
(* device takes them out (nccl_reader.py).  Conversions that gather a      *)
(* parameter are steps of the whole tensor parallel group.                 *)
(***************************************************************************)
EXTENDS McoreConverter, SglangConverter, TensorGroups

VARIABLES
  layout,     \* of this job
  phase,      \* of every rank
  pending,    \* the parameters it has yet to convert
  cache,      \* qkv_a_proj_cache of its converter
  converted,  \* what it has converted so far
  meta,       \* the parameters of every rank, as the metadata describes them
  layerMap,   \* pp_stage_layer_id_map
  buffer,     \* what it has packed for the worker on its device
  weights     \* deserialized_weights of that worker

vars == <<layout, phase, pending, cache, converted, meta, layerMap, buffer, weights>>

NoBuffer == [groups |-> <<>>, metadata |-> {}, names |-> <<>>]
Name(e) == <<e.layer, e.expert, e.part>>

Init ==
  /\ layout \in Layouts
  /\ phase = [r \in Ranks(layout) |-> "meta"]
  /\ pending = [r \in Ranks(layout) |-> McoreModelParameters(layout, r)]
  /\ cache = [r \in Ranks(layout) |-> {}]
  /\ converted = [r \in Ranks(layout) |-> <<>>]
  /\ meta = [r \in Ranks(layout) |-> {}]
  /\ layerMap = <<>>
  /\ buffer = [r \in Ranks(layout) |-> NoBuffer]
  /\ weights = [r \in Ranks(layout) |-> <<>>]

-----------------------------------------------------------------------------
Param(r) == Head(pending[r])
Converting(r) == phase[r] \in {"meta", "convert"} /\ pending[r] # <<>>
Finished(r, p) == phase[r] = p /\ pending[r] = <<>>

\* converted[hf_name] = hf_param
Put(entries, e) ==
  IF \E i \in DOMAIN entries : Name(entries[i]) = Name(e)
    THEN [i \in DOMAIN entries |-> IF Name(entries[i]) = Name(e) THEN e ELSE entries[i]]
    ELSE Append(entries, e)

\* What a rank reports of its entries: the metadata is a list, with the stage.
Reported(r, entries) ==
  [i \in DOMAIN entries |->
     [layer |-> entries[i].layer, expert |-> entries[i].expert, part |-> entries[i].part,
      dtype |-> entries[i].dtype, rows |-> entries[i].rows, vp |-> Param(r).vp]]

\* The loop body of convert_parameters and of _collect_model_param_raw_info,
\* of all ranks of the domain of tensors.
Convert(tensors) ==
  LET result == [q \in DOMAIN tensors |->
        ConvertParam(layout, q, IF phase[q] = "meta" THEN <<>> ELSE layerMap, cache[q], Param(q), tensors[q])]
      Done(q) == q \in DOMAIN tensors
  IN /\ converted' = [q \in Ranks(layout) |->
          IF ~Done(q) THEN converted[q]
          ELSE IF phase[q] = "meta" THEN converted[q] \o Reported(q, result[q].entries)
          ELSE FoldLeft(Put, converted[q], result[q].entries)]
     /\ cache' = [q \in Ranks(layout) |-> IF Done(q) THEN result[q].cache ELSE cache[q]]
     /\ pending' = [q \in Ranks(layout) |-> IF Done(q) THEN Tail(pending[q]) ELSE pending[q]]
     /\ phase' = [q \in Ranks(layout) |-> IF Done(q) /\ ~result[q].ok THEN "failed" ELSE phase[q]]
     /\ UNCHANGED <<layout, meta, layerMap, buffer, weights>>

ConvertLocal(r) ==
  /\ Converting(r) /\ ~Gathers(layout, r, Param(r))
  /\ Convert([q \in {r} |-> McoreTensor(layout, q, Param(q))])

\* get_full_tensor: the ranks of a group gather when all of them call it.
ConvertGathered(r) ==
  /\ TpRank(layout, r) = 0
  /\ \A q \in TpGroup(layout, r) : Converting(q) /\ Gathers(layout, q, Param(q))
  /\ LET gathered == FlattenSeq([i \in 1 .. layout.tp |-> McoreTensor(layout, r + i - 1, Param(r + i - 1))])
     IN Convert([q \in TpGroup(layout, r) |-> gathered])

-----------------------------------------------------------------------------
\* The layers of the stages, as <<pp, vp, number>>, that the ranks report.
StageLayers(reported) ==
  UNION {{<<PpRank(layout, r), reported[r][i].vp, reported[r][i].layer>> :
            i \in {k \in DOMAIN reported[r] : reported[r][k].layer # None}} : r \in Ranks(layout)}

\* for vp_stage ..: for pp_rank ..: the sorted numbers of the stage
StageBefore(a, b) ==
  \/ a[2] < b[2]
  \/ a[2] = b[2] /\ (a[1] < b[1] \/ (a[1] = b[1] /\ a[3] < b[3]))

\* _build_pp_stage_layer_id_map
PpStageLayerIdMap(reported) ==
  LET held == StageLayers(reported)
  IN [s \in {<<x[1], x[2]>> : x \in held} |->
        [n \in {x[3] : x \in {y \in held : <<y[1], y[2]>> = s}} |->
           Cardinality({x \in held : StageBefore(x, <<s[1], s[2], n>>)})]]

\* all_gather_object and _canonicalize_pp_layer_names_in_global_meta.  The
\* writer then converts with another converter, which knows the map.
ShareMeta ==
  /\ \A r \in Ranks(layout) : Finished(r, "meta")
  /\ layerMap' = PpStageLayerIdMap(converted)
  /\ meta' = [r \in Ranks(layout) |->
       {[name |-> <<IF e.layer = None THEN None ELSE layerMap'[<<PpRank(layout, r), e.vp>>][e.layer],
                    e.expert, e.part>>,
         size |-> Len(e.rows), dtype |-> e.dtype] : e \in {converted[r][i] : i \in DOMAIN converted[r]}}]
  /\ phase' = [r \in Ranks(layout) |-> "convert"]
  /\ pending' = [r \in Ranks(layout) |-> McoreModelParameters(layout, r)]
  /\ cache' = [r \in Ranks(layout) |-> {}]
  /\ converted' = [r \in Ranks(layout) |-> <<>>]
  /\ UNCHANGED <<layout, buffer, weights>>

\* _write_weights_in_colocate_mode: pack, and release what was converted.
GroupTensors(r) ==
  /\ Finished(r, "convert")
  /\ buffer' = [buffer EXCEPT ![r] =
       [groups |-> Groups(converted[r]), metadata |-> Metadata(converted[r]),
        names |-> [i \in DOMAIN converted[r] |-> Name(converted[r][i])]]]
  /\ converted' = [converted EXCEPT ![r] = <<>>]
  /\ phase' = [phase EXCEPT ![r] = "grouped"]
  /\ UNCHANGED <<layout, pending, cache, meta, layerMap, weights>>

\* collect_training_weights of the worker: dict(zip(names, tensors))
CollectTrainingWeights(r) ==
  /\ phase[r] = "grouped"
  /\ LET tensors == Reconstruct(buffer[r].groups, buffer[r].metadata)
         IndexOf(n) == CHOOSE i \in DOMAIN buffer[r].names : buffer[r].names[i] = n
     IN weights' = [weights EXCEPT ![r] =
          [n \in {buffer[r].names[i] : i \in DOMAIN buffer[r].names} |-> tensors[IndexOf(n)]]]
  /\ buffer' = [buffer EXCEPT ![r] = NoBuffer]
  /\ phase' = [phase EXCEPT ![r] = "done"]
  /\ UNCHANGED <<layout, pending, cache, converted, meta, layerMap>>

AllDone == \A r \in Ranks(layout) : phase[r] = "done"

Next ==
  \/ \E r \in Ranks(layout) :
       ConvertLocal(r) \/ ConvertGathered(r) \/ GroupTensors(r) \/ CollectTrainingWeights(r)
  \/ ShareMeta
  \/ AllDone /\ UNCHANGED vars

Spec == Init /\ [][Next]_vars

-----------------------------------------------------------------------------
\* get_sharding_strategy of BailingLinearMoeShardingStrategy, for a rank with
\* these sizes.
Sharding(engine, tp, ep, name) ==
  LET part == name[3]
      shared == part \in {"shared_gate_proj", "shared_up_proj", "shared_down_proj"}
  IN IF part \in {"kv_a_proj_with_mqa", "q_a_proj", "fused_qkv_a_proj_with_mqa"} \/ tp = 1 THEN "NO"
     ELSE IF part \in WholeParts THEN "NO"
     ELSE IF (name[2] # None \/ (shared /\ engine # "mcore")) /\ ep > 1 THEN "EP"
     ELSE "TP"

\* _build_params_meta: the tensor that the shards of a replica make up, of
\* every replica.  Its shards are in the order of their keys, then sorted by tp.
Assembled(sharding, shards) ==
  LET Key(s) == IF sharding = "TP" THEN s.tp ELSE s.ep
      Replica(s) == Cardinality({q \in shards : q.rank < s.rank /\ Key(q) = Key(s)})
      Before(a, b) == a.tp < b.tp \/ (a.tp = b.tp /\ Key(a) < Key(b))
      Nth(replica, i) == CHOOSE s \in replica : Cardinality({q \in replica : Before(q, s)}) = i - 1
      Rows(replica) == FlattenSeq([i \in 1 .. Cardinality(replica) |-> Nth(replica, i).rows])
  IN IF sharding = "NO" THEN {s.rows : s \in shards}
     ELSE {Rows({s \in shards : Replica(s) = n}) : n \in {Replica(s) : s \in shards}}

\* The shards of the parameters of the training job, and of an engine.
TrainShards ==
  UNION {{[name |-> n, rank |-> r, tp |-> TpRank(layout, r), ep |-> EpRank(layout, r), rows |-> weights[r][n]] :
            n \in DOMAIN weights[r]} : r \in Ranks(layout)}

InferShards ==
  UNION {{[name |-> Name(v), rank |-> i, tp |-> i, ep |-> IF layout.infEp = 1 THEN 0 ELSE i, rows |-> v.rows] :
            v \in SglangViews(layout, i)} : i \in Workers(layout)}

-----------------------------------------------------------------------------
\* The parameters of a rank are of its stages, and the halves of fused projections
\* are the only thing a converter keeps.
TypeOK ==
  /\ layout \in Layouts
  /\ DOMAIN phase = Ranks(layout)
  /\ \A r \in Ranks(layout) :
       /\ phase[r] \in {"meta", "convert", "grouped", "done", "failed"}
       /\ \A i \in DOMAIN pending[r] : pending[r][i].vp \in 0 .. layout.vp - 1
       /\ {h.part : h \in cache[r]} \subseteq {"q_a_proj", "kv_a_proj_with_mqa"}
       /\ Len(buffer[r].names) = Cardinality(buffer[r].metadata)
       /\ buffer[r] = NoBuffer \/ phase[r] = "grouped"

\* What a rank hands over is what it has announced: the names, the sizes and
\* the types of the second conversion, with the numbers of the layers in the
\* whole model, are those of the metadata that both sides build their transfer
\* plan from, which come from the first one, with the numbers of the stage.
\* No conversion meets a name it does not support.
MetaTruthful ==
  \A r \in Ranks(layout) :
    /\ phase[r] # "failed"
    /\ Finished(r, "convert") =>
         {[name |-> Name(e), size |-> Len(e.rows), dtype |-> e.dtype] :
            e \in {converted[r][i] : i \in DOMAIN converted[r]}} = meta[r]
    /\ phase[r] = "done" =>
         {[name |-> n, size |-> Len(weights[r][n])] : n \in DOMAIN weights[r]}
           = {[name |-> m.name, size |-> m.size] : m \in meta[r]}

\* The size of linear_qkv, which is all that transform_mcore_qkv_weight goes by,
\* says how its rows are laid out.
QkvMatches(l) ==
  LET format == QkvFormat(l, QkvSize(l))
  IN (l.replicated <=> format = "replicated") /\ (format = "qwen3" => l.hidden = l.kvHeads * l.headRows)

\* A model and a parallelism that the conversion is made for: the ranks of each
\* side share the experts evenly, and no fused down projection, which is handed
\* over whole, comes from several training ranks and goes to several workers.
Matching(l) ==
  /\ l.experts % l.ep = 0 /\ l.experts % l.infEp = 0
  /\ l.qLora /\ (\E n \in 0 .. l.layers - 1 : ~Lightning(l, n)) => l.tp = 1 \/ l.infTp = 1
  /\ QkvMatches(l)

\* When all workers have the weights of their training ranks, both sides mean
\* the same by every parameter: its shards, put together as the metadata says,
\* are one tensor, the same in every replica of the training job and in every
\* engine, row by row - also the keys and values repeated for inference ranks,
\* the fused projections, and the experts and layers of other ranks.
CanonicalTensors ==
  AllDone =>
    LET trained == TrainShards
        served == InferShards
        Named(shards, n) == {s \in shards : s.name = n}
        Tensors(engine, tp, ep, shards, n) == Assembled(Sharding(engine, tp, ep, n), Named(shards, n))
    IN /\ {s.name : s \in trained} = {s.name : s \in served}
       /\ \A n \in {s.name : s \in trained} :
            LET sent == Tensors("mcore", layout.tp, layout.ep, trained, n)
            IN /\ Cardinality(sent) = 1
               /\ sent = Tensors("sglang", layout.infTp, layout.infEp, served, n)

\* No half of a fused projection is left behind: when a rank has gone through
\* its model, its converter holds no tensor, which it would keep until the next
\* update and fuse with a half of that one.
CacheDrained ==
  \A r \in Ranks(layout) :
    Finished(r, "meta") \/ phase[r] \in {"grouped", "done"} => cache[r] = {}

\* Nobody waits for ever in a collective: until all weights are handed over
\* some rank can go on, so the ranks of a tensor parallel group gather the same
\* parameters, and all ranks reach the exchange of the metadata.  Every step
\* brings a rank nearer to its end.
NeverStuck ==
  \/ AllDone
  \/ \A r \in Ranks(layout) : Finished(r, "meta")
  \/ \E r \in Ranks(layout) :
       \/ Converting(r) /\ ~Gathers(layout, r, Param(r))
       \/ \A q \in TpGroup(layout, r) : Converting(q) /\ Gathers(layout, q, Param(q))
       \/ Finished(r, "convert") \/ phase[r] = "grouped"
=============================================================================
