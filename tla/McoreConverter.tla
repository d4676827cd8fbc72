---------------------------- MODULE McoreConverter ----------------------------
(***************************************************************************)
(* converter/mcore_converter.py with models/ling_linear.py: a parameter of *)
(* Megatron under the names, and in the row order, of the Hugging Face     *)
(* checkpoint that SGLang loads.  McoreToHFWeightConverterBailingMoeLinear *)
(* is LinearMLAMcoreConverterMixin over the general converter.  Models     *)
(* without quantization, on GPUs.                                          *)
(*                                                                         *)
(* A result has the entries [layer, expert, part, dtype, rows], the cache  *)
(* of the converter after the call, and whether the name was supported.    *)
(***************************************************************************)
EXTENDS HybridModel, FiniteSets, FiniteSetsExt

Entry(layer, expert, part, dtype, rows) ==
  [layer |-> layer, expert |-> expert, part |-> part, dtype |-> dtype, rows |-> rows]

Converted(entries, cache) == [ok |-> TRUE, entries |-> entries, cache |-> cache]
Unsupported(cache) == [ok |-> FALSE, entries |-> <<>>, cache |-> cache]

-----------------------------------------------------------------------------
\* torch.chunk: pieces of the rounded up size, fewer if they run out.
Chunk(rows, n) ==
  LET size == (Len(rows) + n - 1) \div n
  IN [i \in 1 .. (Len(rows) + size - 1) \div size |->
        SubSeq(rows, (i - 1) * size + 1, Min({i * size, Len(rows)}))]

\* _get_head_size
HeadSize(l) == IF l.kvChannels = 0 THEN l.hidden \div l.heads ELSE l.kvChannels

\* The formats of a gathered linear_qkv, told apart by its size.
QkvFormat(l, size) ==
  IF size = (l.heads \div l.kvHeads + 2) * HeadSize(l) * l.kvHeads THEN "compact"
  ELSE IF size = 3 * l.hidden THEN "replicated"
  ELSE IF size = 4 * l.hidden THEN "qwen3" ELSE "unsupported"

\* The size of linear_qkv in the training job.
QkvSize(l) ==
  IF l.replicated THEN 3 * l.heads * l.headRows ELSE (l.heads \div l.kvHeads + 2) * l.kvHeads * l.headRows

\* Queries, keys and values out of their groups.
Deinterleaved(l, rows, headSize) ==
  LET querySize == headSize * (l.heads \div l.kvHeads)
      groups == Chunk(rows, l.kvHeads)
      Each(first, last) == FlattenSeq([g \in DOMAIN groups |-> SubSeq(groups[g], first, last)])
  IN [query |-> Each(1, querySize),
      key |-> Each(querySize + 1, querySize + headSize),
      value |-> Each(querySize + headSize + 1, querySize + 2 * headSize)]

\* One key and one value of every group of repeated ones.
Deduplicated(l, rows) ==
  LET OfGroups(first) == FlattenSeq([g \in 1 .. l.kvHeads |->
        LET head == (g - 1) * (l.heads \div l.kvHeads)
        IN SubSeq(rows, first + head * HeadSize(l) + 1, first + (head + 1) * HeadSize(l))])
  IN [query |-> SubSeq(rows, 1, l.hidden), key |-> OfGroups(l.hidden), value |-> OfGroups(2 * l.hidden)]

\* transform_mcore_qkv_weight
TransformMcoreQkv(l, rows) ==
  CASE QkvFormat(l, Len(rows)) = "compact" -> Deinterleaved(l, rows, HeadSize(l))
    [] QkvFormat(l, Len(rows)) = "replicated" -> Deduplicated(l, rows)
    [] QkvFormat(l, Len(rows)) = "qwen3" -> Deinterleaved(l, rows, l.hidden \div l.kvHeads)

\* Mutant: keys and values are repeated head by head in turns.
KvShardsInTurns(l, rows) ==
  IF l.infTp >= l.kvHeads
    THEN [i \in 1 .. l.infTp |-> Chunk(rows, l.kvHeads)[((i - 1) % l.kvHeads) + 1]]
    ELSE Chunk(rows, l.infTp)

\* The keys (or values) of every inference rank.
KvShards(l, rows) ==
  IF l.infTp >= l.kvHeads
    THEN [i \in 1 .. l.infTp |-> Chunk(rows, l.kvHeads)[(i - 1) \div (l.infTp \div l.kvHeads) + 1]]
    ELSE Chunk(rows, l.infTp)

\* convert_qkv_weight_along_tp_attention, of the gathered tensor: queries, keys
\* and values of inference rank after rank, of which the rank has its share.
ConvertQkv(l, r, rows) ==
  LET qkv == TransformMcoreQkv(l, rows)
      query == Chunk(qkv.query, l.infTp)
      key == KvShards(l, qkv.key)
      value == KvShards(l, qkv.value)
      merged == FlattenSeq([i \in 1 .. Min({Len(query), Len(key), Len(value)}) |->
                              query[i] \o key[i] \o value[i]])
  IN IF l.tp > 1 THEN Chunk(merged, l.tp)[TpRank(l, r) + 1] ELSE merged

\* pack_fused_qkv_a_proj_for_tp
PackFused(q, kv, n) ==
  LET qShards == Chunk(q, n)
      kvShards == Chunk(kv, n)
  IN FlattenSeq([i \in 1 .. n |-> qShards[i] \o kvShards[i]])

-----------------------------------------------------------------------------
\* _process_mcore_pp_name.  Without a map the name keeps its number.
McorePpName(l, r, layerMap, p) ==
  IF p.layer = None \/ layerMap = <<>> THEN p.layer ELSE layerMap[<<PpRank(l, r), p.vp>>][p.layer]

\* McoreToHFWeightConverter._convert_attention_param, _normalize_attn_name
BaseAttentionName ==
  [linear_qkv_layer_norm |-> "input_layernorm", linear_proj |-> "dense",
   q_layernorm |-> "query_layernorm", k_layernorm |-> "key_layernorm"]

ConvertBaseAttention(l, r, cache, layer, kind, rows) ==
  IF kind = "linear_qkv"
    THEN Converted(<<Entry(layer, None, "query_key_value_proj", "bf16", ConvertQkv(l, r, rows))>>, cache)
  ELSE IF kind \in DOMAIN BaseAttentionName
    THEN Converted(<<Entry(layer, None, BaseAttentionName[kind], "bf16", rows)>>, cache)
  ELSE Unsupported(cache)

\* _is_linear_layer
IsLinearLayer(l, layer) == l.group > 1 /\ (layer + 1) % l.group # 0

\* _convert_lightning_attention_param
LightningName ==
  [gate_norm |-> "g_norm", attn_input_layernorm |-> "input_layernorm", linear_gate |-> "g_proj",
   linear_proj |-> "dense", q_layernorm |-> "query_layernorm", k_layernorm |-> "key_layernorm"]

ConvertLightning(l, r, cache, layer, kind, rows) ==
  IF kind \in DOMAIN LightningName
    THEN Converted(<<Entry(layer, None, LightningName[kind], "bf16", rows)>>, cache)
  ELSE IF kind = "linear_qkv"
    THEN Converted(<<Entry(layer, None, "query_key_value", "bf16", ConvertQkv(l, r, rows))>>, cache)
  ELSE ConvertBaseAttention(l, r, cache, layer, kind, rows)

\* Mutant: the halves stay in the cache when they are fused.
TryFuseKept(l, cache, layer, part, rows) ==
  LET halves == {h \in cache : ~(h.layer = layer /\ h.part = part)}
                \cup {[layer |-> layer, part |-> part, rows |-> rows]}
      mine == {h \in halves : h.layer = layer}
      Half(x) == (CHOOSE h \in mine : h.part = x).rows
  IN IF Cardinality(mine) < 2 THEN Converted(<<>>, halves)
     ELSE Converted(<<Entry(layer, None, "fused_qkv_a_proj_with_mqa", "bf16",
                            Half("q_a_proj") \o Half("kv_a_proj_with_mqa"))>>, halves)

\* _try_fuse_qkv_a_proj: the half that comes first waits in the cache of its
\* layer number for the other.
TryFuse(l, cache, layer, part, rows) ==
  LET halves == {h \in cache : ~(h.layer = layer /\ h.part = part)}
                \cup {[layer |-> layer, part |-> part, rows |-> rows]}
      mine == {h \in halves : h.layer = layer}
      Half(x) == (CHOOSE h \in mine : h.part = x).rows
      fused == IF l.tp = 1 THEN Half("q_a_proj") \o Half("kv_a_proj_with_mqa")
               ELSE PackFused(Half("q_a_proj"), Half("kv_a_proj_with_mqa"), l.infTp)
  IN IF Cardinality(mine) < 2 THEN Converted(<<>>, halves)
     ELSE Converted(<<Entry(layer, None, "fused_qkv_a_proj_with_mqa", "bf16", fused)>>, halves \ mine)

\* _convert_mla_attention_param.  The name of the input layernorm is matched
\* as a substring.
MlaName ==
  [attn_input_layernorm |-> "input_layernorm", linear_proj |-> "dense", linear_q_proj |-> "q_proj",
   linear_kv_down_proj |-> "kv_a_proj_with_mqa", linear_q_down_proj |-> "q_a_proj",
   linear_kv_up_proj |-> "kv_b_proj", linear_kv_up_layer_norm |-> "kv_a_layernorm",
   linear_q_up_proj |-> "q_b_proj", linear_q_up_layer_norm |-> "q_a_layernorm"]

DownProjections == {"linear_kv_down_proj", "linear_q_down_proj"}

ConvertMla(l, r, cache, layer, kind, rows) ==
  IF kind \notin DOMAIN MlaName THEN ConvertBaseAttention(l, r, cache, layer, kind, rows)
  ELSE IF kind \in DownProjections /\ TpRank(l, r) # 0 THEN Converted(<<>>, cache)
  ELSE IF kind \in DownProjections /\ l.qLora THEN TryFuse(l, cache, layer, MlaName[kind], rows)
  ELSE Converted(<<Entry(layer, None, MlaName[kind], "bf16", rows)>>, cache)

\* _MLA_PARAM_MARKERS
MlaParams ==
  DownProjections \cup {"linear_q_proj", "linear_q_up_proj", "linear_q_up_layer_norm",
                        "linear_kv_up_proj", "linear_kv_up_layer_norm"}

\* Mutant: the number of the layer alone decides, local or not.
ConvertAttentionByNumber(l, r, cache, layer, kind, rows) ==
  IF IsLinearLayer(l, layer) THEN ConvertLightning(l, r, cache, layer, kind, rows)
  ELSE ConvertMla(l, r, cache, layer, kind, rows)

\* LinearMLAMcoreConverterMixin._convert_attention_param
ConvertAttention(l, r, cache, layer, kind, rows) ==
  IF kind \notin MlaParams /\ IsLinearLayer(l, layer)
    THEN ConvertLightning(l, r, cache, layer, kind, rows)
    ELSE ConvertMla(l, r, cache, layer, kind, rows)

AttentionParams ==
  MlaParams \cup {"attn_input_layernorm", "linear_qkv", "linear_gate", "gate_norm", "linear_proj",
                  "q_layernorm", "k_layernorm", "linear_qkv_layer_norm"}

\* Mutant: the ranks that do not hand over a down projection return first.
GathersAfterReturn(l, r, p) ==
  l.tp > 1 /\ (p.kind = "linear_qkv" \/ (p.kind \in DownProjections /\ TpRank(l, r) = 0))

\* Whether the conversion of a parameter gathers it over the tensor parallel
\* group (get_full_tensor): fused queries, keys and values, and the MLA down
\* projections, also on the ranks that do not hand these over.
Gathers(l, r, p) == l.tp > 1 /\ p.kind \in DownProjections \cup {"linear_qkv"}

\* What the engines demand or the conversions raise without: heads dealt out
\* evenly to both sides, a known format of linear_qkv with whole heads, fused
\* projections that can be cut for either side, and stages in which every
\* lightning layer also counts as one under its number within the stage.
ASSUME McoreConverterAssumption ==
  \A l \in Layouts :
    /\ {l.heads, l.kvHeads, l.headRows, l.hidden, l.group} \subseteq Nat \ {0}
    /\ {l.kvChannels, l.layers, l.dense, l.experts, l.width} \subseteq Nat
    /\ {l.replicated, l.qLora} \subseteq BOOLEAN
    /\ l.heads % l.kvHeads = 0 /\ l.kvHeads % l.tp = 0 /\ (l.replicated => l.tp = 1)
    /\ l.heads % l.infTp = 0 /\ (l.infTp % l.kvHeads = 0 \/ l.kvHeads % l.infTp = 0)
    /\ QkvFormat(l, QkvSize(l)) # "unsupported"
    /\ QkvFormat(l, QkvSize(l)) = "replicated" => l.hidden = l.heads * HeadSize(l)
    /\ QkvFormat(l, QkvSize(l)) = "qwen3" => l.hidden % l.kvHeads = 0
    /\ l.qLora /\ l.tp > 1 => l.width # 0 /\ l.width % l.tp = 0 /\ l.width % l.infTp = 0
    /\ \A pp \in 0 .. l.pp - 1, vp \in 0 .. l.vp - 1, id \in 0 .. StageSize(l) - 1 :
         Lightning(l, HeldLayer(l, pp, vp, id)) => IsLinearLayer(l, id)

-----------------------------------------------------------------------------
\* _convert_linear: fc1 is split into the gate and the up projection.
Projections == <<"gate_proj", "up_proj", "down_proj">>
SharedProjections == <<"shared_gate_proj", "shared_up_proj", "shared_down_proj">>

ConvertLinear(layer, expert, names, isFc1, rows) ==
  LET half == Len(rows) \div 2 IN
  IF isFc1 THEN <<Entry(layer, expert, names[1], "bf16", SubSeq(rows, 1, half)),
                  Entry(layer, expert, names[2], "bf16", SubSeq(rows, half + 1, 2 * half))>>
  ELSE <<Entry(layer, expert, names[3], "bf16", rows)>>

\* The number of an expert over all expert parallel ranks.
ExpertId(l, r, expert) == expert + EpRank(l, r) * (l.experts \div l.ep)

\* _convert_mlp_param, _convert_gate, _convert_expert_bias_param
ConvertMlp(l, r, layer, p, rows) ==
  CASE p.kind = "router" -> <<Entry(layer, None, "gate", "bf16", rows)>>
    [] p.kind = "expert_bias" -> <<Entry(layer, None, "expert_bias", "fp32", rows)>>
    [] p.kind = "pre_mlp_layernorm" -> <<Entry(layer, None, "post_attention_layernorm", "bf16", rows)>>
    [] p.kind \in {"shared_fc1", "shared_fc2"} ->
         ConvertLinear(layer, None, SharedProjections, p.kind = "shared_fc1", rows)
    [] p.kind \in {"expert_fc1", "expert_fc2"} ->
         ConvertLinear(layer, ExpertId(l, r, p.expert), Projections, p.kind = "expert_fc1", rows)
    [] p.kind \in {"fc1", "fc2"} -> ConvertLinear(layer, None, Projections, p.kind = "fc1", rows)

\* convert_param of the mixin.  rows is the tensor of the parameter, the
\* gathered one if the conversion gathers it.
ConvertParam(l, r, layerMap, cache, p, rows) ==
  LET layer == McorePpName(l, r, layerMap, p) IN
  IF p.kind = "word_embeddings" THEN Converted(<<Entry(None, None, "embed_tokens", "bf16", rows)>>, cache)
  ELSE IF p.kind = "final_layernorm" THEN Converted(<<Entry(None, None, "norm", "bf16", rows)>>, cache)
  ELSE IF p.kind = "output_layer" THEN Converted(<<Entry(None, None, "lm_head", "fp32", rows)>>, cache)
  ELSE IF p.kind \in AttentionParams THEN
    IF p.kind = "linear_qkv" /\ QkvFormat(l, Len(rows)) = "unsupported" THEN Unsupported(cache)
    ELSE ConvertAttention(l, r, cache, layer, p.kind, rows)
  ELSE IF p.kind = "input_layernorm" THEN Converted(<<Entry(layer, None, "input_layernorm", "bf16", rows)>>, cache)
  ELSE Converted(ConvertMlp(l, r, layer, p, rows), cache)

-----------------------------------------------------------------------------
\* get_mcore_model_parameters of the model of every virtual stage: the named
\* parameters, then the expert biases that are only in the state_dict().
McoreModelParameters(l, r) ==
  FlattenSeq([vp \in 1 .. l.vp |->
    NamedParameters(l, PpRank(l, r), vp - 1) \o ExpertBiases(l, PpRank(l, r), vp - 1)])
=============================================================================
