--------------------------- MODULE SglangConverter ---------------------------
(***************************************************************************)
(* converter/sglang_converter.py with models/ling_linear.py: a parameter   *)
(* of SGLang under the names of the Hugging Face checkpoint.  A worker     *)
(* describes and receives its weights under these names, as views of its   *)
(* own tensors, so that they stay cut the way SGLang cuts them.            *)
(* SGlangToHFWeightConverterBailingMoeLinear is                            *)
(* LinearMLASGlangConverterMixin over the general converter.               *)
(*                                                                         *)
(* Results are sets of entries [layer, expert, part, rows].                *)
(***************************************************************************)
EXTENDS HybridModel

View(layer, expert, part, rows) == [layer |-> layer, expert |-> expert, part |-> part, rows |-> rows]

\* _split_gate_up
SplitGateUp(layer, expert, gate, up, rows) ==
  LET stride == Len(rows) \div 2
  IN {View(layer, expert, gate, SubSeq(rows, 1, stride)),
      View(layer, expert, up, SubSeq(rows, stride + 1, 2 * stride))}

\* _convert_mlp_param; the shared experts are a part of their own here.
ConvertMlpView(layer, expert, kind, rows) ==
  CASE kind \in {"gate_up_proj", "w13_weight"} -> SplitGateUp(layer, expert, "gate_proj", "up_proj", rows)
    [] kind = "shared_gate_up_proj" ->
         SplitGateUp(layer, expert, "shared_gate_proj", "shared_up_proj", rows)
    [] kind \in {"down_proj", "w2_weight"} -> {View(layer, expert, "down_proj", rows)}
    [] kind = "shared_down_proj" -> {View(layer, expert, "shared_down_proj", rows)}

\* _convert_expert_tp_param: the worker has all experts.
ConvertExpertTp(layer, kind, tensors) ==
  UNION {ConvertMlpView(layer, e - 1, kind, tensors[e]) : e \in DOMAIN tensors}

\* _convert_expert_moe_param: the worker has its own ones.
ConvertExpertMoe(l, i, layer, kind, tensors) ==
  UNION {ConvertMlpView(layer, e - 1 + (IF l.infEp = 1 THEN 0 ELSE i) * Len(tensors), kind, tensors[e]) :
           e \in DOMAIN tensors}

\* _convert_layer_norm_param and _convert_attention_param of the mixin keep
\* the names of the attention, fused or not, and of the norms.
AttentionViews ==
  {"dense", "query_key_value", "query_layernorm", "key_layernorm", "g_proj", "g_norm", "q_proj",
   "kv_a_proj_with_mqa", "fused_qkv_a_proj_with_mqa", "kv_a_layernorm", "kv_b_proj", "q_a_layernorm",
   "q_b_proj", "input_layernorm", "post_attention_layernorm"}

\* convert_param on worker i.
SglangConvertParam(l, i, name, tensor) ==
  LET layer == name[1]
      kind == name[2]
  IN CASE kind = "word_embeddings" -> {View(None, None, "embed_tokens", tensor)}
       [] kind \in {"norm", "lm_head"} -> {View(None, None, kind, tensor)}
       [] kind \in AttentionViews \cup {"gate", "expert_bias"} -> {View(layer, None, kind, tensor)}
       [] kind \in {"w13_weight", "w2_weight"} ->
            IF l.infEp = 1 THEN ConvertExpertTp(layer, kind, tensor)
            ELSE ConvertExpertMoe(l, i, layer, kind, tensor)
       [] kind \in {"gate_up_proj", "down_proj", "shared_gate_up_proj", "shared_down_proj"} ->
            ConvertMlpView(layer, None, kind, tensor)

\* All views of a worker.
SglangViews(l, i) ==
  UNION {SglangConvertParam(l, i, name, SglangTensor(l, i, name)) : name \in SglangNames(l)}
=============================================================================
