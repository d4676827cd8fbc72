----------------------------- MODULE HybridModel -----------------------------
(***************************************************************************)
(* What the two engines hold of a Bailing linear-attention model: layers   *)
(* with lightning attention, every group-th one with latent attention      *)
(* (MLA), dense and expert MLPs.  None of this is code of the repository:  *)
(* it is the layout of Megatron and of SGLang as the converters use it.    *)
(*                                                                         *)
(* A row is a unit of a parameter along the dimension in which it is cut,  *)
(* named by the layer, the expert (None outside of experts), the part of   *)
(* the model and its index.  A tensor is a sequence of rows.               *)
(***************************************************************************)
EXTENDS Integers, Sequences, SequencesExt

CONSTANTS
  Layouts   \* the model and the parallelism of both sides, as records

\* The converters do not tell expert tensor parallelism from tensor
\* parallelism, so training uses one of tp and ep; a worker with expert
\* parallelism has whole experts.
ASSUME HybridModelAssumption ==
  \A l \in Layouts :
    /\ {l.tp, l.pp, l.vp, l.ep, l.infTp, l.infEp} \subseteq Nat \ {0}
    /\ l.tp = 1 \/ l.ep = 1
    /\ l.infEp \in {1, l.infTp}
    /\ l.layers % (l.pp * l.vp) = 0

None == -1

Ranks(l) == 0 .. l.tp * l.ep * l.pp - 1
TpRank(l, r) == r % l.tp
EpRank(l, r) == (r \div l.tp) % l.ep
PpRank(l, r) == r \div (l.tp * l.ep)
TpGroup(l, r) == {q \in Ranks(l) : q \div l.tp = r \div l.tp}

\* The layer of a virtual stage, which are spread over the pipeline.
StageSize(l) == l.layers \div (l.pp * l.vp)
HeldLayer(l, pp, vp, id) == vp * (l.layers \div l.vp) + pp * StageSize(l) + id
LocalExperts(l) == l.experts \div l.ep

Lightning(l, layer) == (layer + 1) % l.group # 0
Dense(l, layer) == layer < l.dense

-----------------------------------------------------------------------------
\* Parts that every rank has whole, and the size of all of them.
WholeParts ==
  {"input_layernorm", "post_attention_layernorm", "query_layernorm", "key_layernorm",
   "q_a_layernorm", "kv_a_layernorm", "norm", "gate", "expert_bias"}

Size(l, part) ==
  IF part = "q" THEN l.heads * l.headRows
  ELSE IF part \in {"k", "v"} THEN l.kvHeads * l.headRows
  ELSE IF part \in WholeParts THEN 1 ELSE l.width

Full(l, layer, expert, part) == [i \in 1 .. Size(l, part) |-> <<layer, expert, part, i>>]
Slice(s, i, n) == SubSeq(s, (i * Len(s)) \div n + 1, ((i + 1) * Len(s)) \div n)

-----------------------------------------------------------------------------
\* Megatron: the parts in a parameter, one after the other.
McoreParts ==
  [word_embeddings |-> <<"embed_tokens">>, final_layernorm |-> <<"norm">>, output_layer |-> <<"lm_head">>,
   input_layernorm |-> <<"input_layernorm">>, attn_input_layernorm |-> <<"input_layernorm">>,
   linear_gate |-> <<"g_proj">>, gate_norm |-> <<"g_norm">>, linear_proj |-> <<"dense">>,
   q_layernorm |-> <<"query_layernorm">>, k_layernorm |-> <<"key_layernorm">>,
   linear_q_proj |-> <<"q_proj">>, linear_q_down_proj |-> <<"q_a_proj">>,
   linear_q_up_layer_norm |-> <<"q_a_layernorm">>, linear_q_up_proj |-> <<"q_b_proj">>,
   linear_kv_down_proj |-> <<"kv_a_proj">>, linear_kv_up_layer_norm |-> <<"kv_a_layernorm">>,
   linear_kv_up_proj |-> <<"kv_b_proj">>,
   pre_mlp_layernorm |-> <<"post_attention_layernorm">>, router |-> <<"gate">>,
   expert_bias |-> <<"expert_bias">>, fc1 |-> <<"gate_proj", "up_proj">>, fc2 |-> <<"down_proj">>,
   expert_fc1 |-> <<"gate_proj", "up_proj">>, expert_fc2 |-> <<"down_proj">>,
   shared_fc1 |-> <<"shared_gate_proj", "shared_up_proj">>, shared_fc2 |-> <<"shared_down_proj">>]

\* The names of a layer: the expert, and the kind of parameter.
McoreLayer(l, layer) ==
  LET Each(kinds) == [i \in DOMAIN kinds |-> <<None, kinds[i]>>]
      attention ==
        IF Lightning(l, layer)
          THEN <<"attn_input_layernorm", "linear_qkv", "q_layernorm", "k_layernorm",
                 "linear_gate", "gate_norm">>
          ELSE <<"input_layernorm">>
               \o (IF l.qLora THEN <<"linear_q_down_proj", "linear_q_up_layer_norm", "linear_q_up_proj">>
                              ELSE <<"linear_q_proj">>)
               \o <<"linear_kv_down_proj", "linear_kv_up_layer_norm", "linear_kv_up_proj">>
      ofExperts(kind) == [e \in 1 .. LocalExperts(l) |-> <<e - 1, kind>>]
      mlp == IF Dense(l, layer) THEN Each(<<"fc1", "fc2">>)
             ELSE Each(<<"router">>) \o ofExperts("expert_fc1") \o ofExperts("expert_fc2")
                  \o Each(<<"shared_fc1", "shared_fc2">>)
  IN Each(attention \o <<"linear_proj", "pre_mlp_layernorm">>) \o mlp

\* The names of a stage in the order of named_parameters(), which leaves the
\* expert bias out, and the expert biases of its state_dict().
NamedParameters(l, pp, vp) ==
  LET Names(layer, names) == [i \in DOMAIN names |->
        [vp |-> vp, layer |-> layer, expert |-> names[i][1], kind |-> names[i][2]]]
  IN (IF pp = 0 /\ vp = 0 THEN Names(None, <<<<None, "word_embeddings">>>>) ELSE <<>>)
     \o FlattenSeq([id \in 1 .. StageSize(l) |->
          Names(id - 1, McoreLayer(l, HeldLayer(l, pp, vp, id - 1)))])
     \o (IF pp = l.pp - 1 /\ vp = l.vp - 1
           THEN Names(None, <<<<None, "final_layernorm">>, <<None, "output_layer">>>>) ELSE <<>>)

ExpertBiases(l, pp, vp) ==
  FlattenSeq([id \in 1 .. StageSize(l) |->
    IF Dense(l, HeldLayer(l, pp, vp, id - 1)) THEN <<>>
    ELSE <<[vp |-> vp, layer |-> id - 1, expert |-> None, kind |-> "expert_bias"]>>])

\* linear_qkv has the query heads of a group and its key and value head, group
\* after group; the replicated format has as many keys and values as queries.
LinearQkv(l, layer, tpRank) ==
  LET perKv == l.heads \div l.kvHeads
      HeadOf(part, h) == SubSeq(Full(l, layer, None, part), h * l.headRows + 1, (h + 1) * l.headRows)
      Group(g) == FlattenSeq([h \in 1 .. perKv |-> HeadOf("q", g * perKv + h - 1)]) \o HeadOf("k", g) \o HeadOf("v", g)
      Repeated(part) == FlattenSeq([h \in 1 .. l.heads |-> HeadOf(part, (h - 1) \div perKv)])
      groups == l.kvHeads \div l.tp
  IN IF l.replicated THEN Full(l, layer, None, "q") \o Repeated("k") \o Repeated("v")
     ELSE FlattenSeq([g \in 1 .. groups |-> Group(tpRank * groups + g - 1)])

\* The tensor of a parameter on rank r.
McoreTensor(l, r, p) ==
  LET layer == IF p.layer = None THEN None ELSE HeldLayer(l, PpRank(l, r), p.vp, p.layer)
      expert == IF p.expert = None THEN None ELSE EpRank(l, r) * LocalExperts(l) + p.expert
      Held(part) == IF part \in WholeParts THEN Full(l, layer, expert, part)
                    ELSE Slice(Full(l, layer, expert, part), TpRank(l, r), l.tp)
      parts == McoreParts[p.kind]
  IN IF p.kind = "linear_qkv" THEN LinearQkv(l, layer, TpRank(l, r))
     ELSE FlattenSeq([i \in DOMAIN parts |-> Held(parts[i])])

-----------------------------------------------------------------------------
\* SGLang: tensor parallel over infTp workers, or expert parallel over them.
Workers(l) == 0 .. l.infTp - 1
WorkerExperts(l) == l.experts \div l.infEp

\* The kinds of parameter of a layer.
SglangLayer(l, layer) ==
  {"input_layernorm", "post_attention_layernorm", "dense"}
  \cup (IF Lightning(l, layer)
          THEN {"query_key_value", "query_layernorm", "key_layernorm", "g_proj", "g_norm"}
          ELSE {"kv_a_layernorm", "kv_b_proj"}
               \cup IF l.qLora THEN {"fused_qkv_a_proj_with_mqa", "q_a_layernorm", "q_b_proj"}
                               ELSE {"q_proj", "kv_a_proj_with_mqa"})
  \cup (IF Dense(l, layer) THEN {"gate_up_proj", "down_proj"}
          ELSE {"gate", "expert_bias", "w13_weight", "w2_weight", "shared_gate_up_proj", "shared_down_proj"})

SglangNames(l) ==
  {<<None, k>> : k \in {"word_embeddings", "norm", "lm_head"}}
  \cup UNION {{<<layer, k>> : k \in SglangLayer(l, layer)} : layer \in 0 .. l.layers - 1}

\* Rank i has queries [Q_i], and keys and values cut likewise, or the one head
\* its queries use if there are more workers than heads.
QueryKeyValue(l, i, layer) ==
  LET shards == IF l.infTp >= l.kvHeads THEN l.kvHeads ELSE l.infTp
      KvOf(part) == Slice(Full(l, layer, None, part), (i * shards) \div l.infTp, shards)
  IN Slice(Full(l, layer, None, "q"), i, l.infTp) \o KvOf("k") \o KvOf("v")

\* The tensor of a name on worker i; of the stacked experts, their tensors.
SglangTensor(l, i, name) ==
  LET layer == name[1]
      Cut(expert, part) == Slice(Full(l, layer, expert, part), i, l.infTp)
      CutExpert(e, part) == IF l.infEp = 1 THEN Cut(e, part) ELSE Full(l, layer, e, part)
      Stacked(parts) == [n \in 1 .. WorkerExperts(l) |->
        LET e == (IF l.infEp = 1 THEN 0 ELSE i) * WorkerExperts(l) + n - 1
        IN FlattenSeq([k \in DOMAIN parts |-> CutExpert(e, parts[k])])]
      Whole(part) == Full(l, layer, None, part)
  IN CASE name[2] = "query_key_value" -> QueryKeyValue(l, i, layer)
       [] name[2] = "fused_qkv_a_proj_with_mqa" -> Whole("q_a_proj") \o Whole("kv_a_proj")
       [] name[2] = "kv_a_proj_with_mqa" -> Whole("kv_a_proj")
       [] name[2] = "gate_up_proj" -> Cut(None, "gate_proj") \o Cut(None, "up_proj")
       [] name[2] = "shared_gate_up_proj" -> Cut(None, "shared_gate_proj") \o Cut(None, "shared_up_proj")
       [] name[2] = "w13_weight" -> Stacked(<<"gate_proj", "up_proj">>)
       [] name[2] = "w2_weight" -> Stacked(<<"down_proj">>)
       [] name[2] = "word_embeddings" -> Cut(None, "embed_tokens")
       [] name[2] \in WholeParts -> Whole(name[2])
       [] OTHER -> Cut(None, name[2])
=============================================================================
