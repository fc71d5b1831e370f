---------------------------- MODULE Architectures ----------------------------
(***************************************************************************)
(* What src/nunspark/architectures.py and archspec.py say of a model: the  *)
(* registry _ARCH as operators on a configuration.                         *)
(*                                                                         *)
(* A configuration c is a record: type (model_type), n                     *)
(* (num_hidden_layers), experts, and the fields its type reads: types      *)
(* (layer_types, as "sliding" or "full"), window (sliding_window), pattern *)
(* (sliding_window_pattern), shared (num_kv_shared_layers), blockMoe       *)
(* (enable_moe_block), step (decoder_sparse_step or moe_layer_freq) and    *)
(* dense (the layers of mlp_only_layers, or below first_k_dense_replace).  *)
(* Layers count from 0, as in the code.                                    *)
(***************************************************************************)
EXTENDS Integers, Sequences, FiniteSets

Layers(c) == 0 .. c.n - 1

Deepseek == {"deepseek_v32", "glm_moe_dsa"}
Gemma3   == {"gemma3", "gemma3_text"}
Gemma4   == {"gemma4", "gemma4_text"}
Sliding  == Gemma3 \cup Gemma4 \cup {"gpt_oss"}

\* supported_model_types(); "llama" stands for the dense types of one block class.
Supported == {"llama", "qwen3_moe", "gemma4_assistant"} \cup Deepseek \cup Sliding

\* ArchSpec.selective_moe
SelectiveMoe(c) == c.type \in Deepseek \cup {"qwen3_moe", "gpt_oss"}

------------------------------------------------------------------------------
(* The kinds of attention. *)

\* gpt_oss falls back to an alternation when layer_types is unset.
GptOssType(c, l) ==
  IF c.types # <<>> THEN c.types[l + 1]
  ELSE IF l % 2 = 0 THEN "sliding" ELSE "full"

\* gemma3 counts: every pattern-th layer is global.
Gemma3Type(c, l) == IF (l + 1) % c.pattern = 0 THEN "full" ELSE "sliding"

LayerType(c, l) ==
  IF c.type \in Gemma3 THEN Gemma3Type(c, l)
  ELSE IF c.type = "gpt_oss" THEN GptOssType(c, l)
  ELSE c.types[l + 1]

\* The mask kind of a layer: global, or sliding with the size of its window.
Kind(c, l) ==
  IF c.type \in Sliding /\ LayerType(c, l) = "sliding"
    THEN <<"sliding", c.window>> ELSE <<"global">>

\* Its cache kind, which make_cache builds its cache for: KV, Paired or Rotating.
CacheKind(c, l) ==
  IF c.type \in Deepseek THEN <<"paired">>
  ELSE IF Kind(c, l) = <<"global">> THEN <<"kv">> ELSE <<"rotating", c.window>>

Rotating(c, l) == Head(CacheKind(c, l)) = "rotating"

------------------------------------------------------------------------------
(* The structural variants of a layer. *)

FirstShared(c) == c.n - c.shared

QwenSparse(c, l)     == l \notin c.dense /\ c.experts > 0 /\ (l + 1) % c.step = 0
DeepseekSparse(c, l) == c.experts > 0 /\ l \notin c.dense /\ l % c.step = 0

\* By the kind of attention, whether the layer has keys of its own, and the router.
Gemma4Key(c, l) ==
  <<LayerType(c, l), l < FirstShared(c), c.blockMoe /\ LayerType(c, l) = "full">>

\* layer_key_fn: a slot built for one layer serves every layer of the same key.
LayerKey(c, l) ==
  IF c.type \in Gemma4 THEN Gemma4Key(c, l)
  ELSE IF c.type \in Gemma3
    THEN IF LayerType(c, l) = "full" THEN <<"global">> ELSE <<"sliding">>
  ELSE IF \/ c.type = "gpt_oss"
          \/ c.type = "qwen3_moe" /\ QwenSparse(c, l)
          \/ c.type \in Deepseek /\ DeepseekSparse(c, l) THEN <<"moe">>
  ELSE IF c.type \in Deepseek \cup {"qwen3_moe"} THEN <<"dense">>
  ELSE <<>>

------------------------------------------------------------------------------
(* Gemma 4's shared keys and values. *)

Consumer(c, l) == c.type \in Gemma4 /\ l >= FirstShared(c)

\* _gemma4_kv_sharing: the layer whose keys and values consumer l reads.
Producer(c, l) == l - c.shared

Producers(c) == {Producer(c, l) : l \in {l \in Layers(c) : Consumer(c, l)}}

\* _gemma4_store_full_length_kv: the last layer of each type that is not shared
\* keeps its keys and values for the MTP drafter.
StoresFull(c, l) ==
  /\ c.type \in Gemma4 /\ l < FirstShared(c)
  /\ \A j \in l + 1 .. FirstShared(c) - 1 : LayerType(c, j) # LayerType(c, l)
=============================================================================
