---------------------------- MODULE DsparkChain ----------------------------
(***************************************************************************)
(* The steps of the command of docker-compose.dspark.yml, with all opt-in  *)
(* steps on.  A program that reads and writes one file several times, or   *)
(* files one after the other, is a step for each of them.                  *)
(***************************************************************************)
EXTENDS Sequences

Anchored(name, how, files) ==
    [name |-> name, how |-> how, files |-> files, pinned |-> FALSE,
     stock |-> {}, patched |-> {}, undo |-> "none"]

\* Compares whole contents.
Pinned(name, files, stock, patched, undo) ==
    [name |-> name, how |-> "publish", files |-> files, pinned |-> TRUE,
     stock |-> stock, patched |-> patched, undo |-> undo]

InPlace(name, files) == Anchored(name, "inplace", files)

\* The six transactions of one design: hunks are counted, all files staged,
\* published in the order of their paths, undone in reverse.
Transaction(name, files) == [Anchored(name, "publish", files) EXCEPT !.undo = "replace"]

\* cp of the encoder of the checkpoint, then the mapping of the efforts, which
\* is written on every boot.
Encoding == << Anchored("encoder_copy", "copy", <<"encoding">>),
               Anchored("effort_mapping", "overwrite", <<"tokenizer">>) >>

Issue21 == << InPlace("issue21", <<"encoding">>) >>

\* A module that is always written anew, and its uses; one for each file,
\* where the program has several.
Issue31 == << Anchored("issue31_module", "copy", <<"thinking_budget">>),
              InPlace("issue31_input", <<"input_processor">>),
              InPlace("issue31_config", <<"vllm_config">>),
              InPlace("issue31_sampler", <<"sampler">>),
              InPlace("issue31_runner", <<"model_runner">>) >>

\* Three hunks of one file, each read, recognised and written on its own.
Issue55 == << InPlace("issue55_helper", <<"chat_serving">>),
              InPlace("issue55_streaming", <<"chat_serving">>),
              InPlace("issue55_final", <<"chat_serving">>) >>

After55 == {"issue55_helper", "issue55_streaming", "issue55_final"}

Issue22 == << InPlace("issue22", <<"flashmla_sparse">>) >>

SpinWait == << InPlace("spin_wait", <<"shm_broadcast">>) >>

\* Knows the stock file and the one with the spin wait.
Issue117 == << Pinned("issue117", <<"shm_broadcast">>, {{}, {"spin_wait"}},
                      {{"issue117"}, {"spin_wait", "issue117"}}, "replace") >>

MtpBuffer == << Transaction("mtp_buffer", <<"model", "model_runner">>) >>

SkipTopk == << Transaction("skip_topk", <<"attention">>) >>

DensePrefill == << Transaction("dense_prefill", <<"indexer", "attention", "sparse_mla">>) >>

SkipEmptyC128 == << Transaction("skip_empty_c128", <<"compressor">>) >>

FlashmlaWorkspace == << Transaction("flashmla_workspace", <<"cache_utils", "flashmla">>) >>

GrammarAdvance == << Transaction("grammar_advance", <<"scheduler", "structured_output">>) >>

\* Only with API keys.
RedactApiKey == << InPlace("redact_api_key", <<"api_utils">>) >>

StorePatch == << Pinned("responses_store", <<"responses_serving">>, {{}},
                        {{"responses_store"}}, "replace") >>

\* Knows its own result with and without the next step's change of it.
Issue138 == << Pinned("issue138", <<"protocol">>, {{}},
                      {{"issue138"}, {"issue138", "agent_message"}}, "replace") >>

AgentMessage == << Pinned("agent_message", <<"protocol">>, {{}, {"issue138"}},
                          {{"agent_message"}, {"issue138", "agent_message"}}, "replace") >>

\* Three files, each recognised and written before the next.
VisionExp == << InPlace("vision_model", <<"model">>),
                InPlace("vision_encoding", <<"encoding">>),
                InPlace("vision_dspark", <<"dspark">>) >>

\* One method of one file; two more files are only looked at.
Issue141 == << Transaction("issue141", <<"flashinfer_sparse">>) >>

SpIndexer == << InPlace("sp_indexer", <<"indexer">>) >>

\* Headers that the image lacks; one that exists is left alone.
DeepGemmAlias == << Anchored("deepgemm_alias", "publish",
                             <<"fp8_logits", "fp8_paged", "fp4_logits", "fp4_paged">>) >>

EmptyEncoder == << InPlace("empty_encoder", <<"outputs", "scheduler">>) >>

Issue27 == << InPlace("issue27", <<"scheduler">>) >>
AdaptiveChunk == << InPlace("adaptive_chunk", <<"scheduler">>) >>
ReplicateMarkov == << InPlace("replicate_markov", <<"qwen3_dspark">>) >>
Issue43 == << InPlace("issue43", <<"scheduler">>) >>

Issue26 == << InPlace("issue26", <<"kv_cache_coordinator">>) >>

Issue133 == << InPlace("issue133", <<"cache_utils">>) >>

Ablation == << Anchored("ablation", "ablate", <<"model">>) >>

SuppressStops == << InPlace("suppress_stops", <<"detokenizer">>) >>

\* Written in place; when the written file fails its check, the text read
\* before is written over it.
AssistantFinal == << [InPlace("assistant_final", <<"encoding">>) EXCEPT !.undo = "inplace"] >>

\* Replaced atomically; when the published file fails its check, the bytes read
\* before are written over it in place.
EffortAlign == << [Anchored("effort_align", "publish", <<"encoding">>) EXCEPT !.undo = "inplace"] >>

\* Two files, recognised with and without the grammar advance.
Issue136 == << Pinned("issue136", <<"backend_xgrammar", "structured_output">>,
                      {{}, {"grammar_advance"}},
                      {{"issue136"}, {"grammar_advance", "issue136"}}, "replace") >>

\* Only after issue 55.
Issue191 == << Pinned("issue191", <<"chat_serving">>, {After55}, {After55 \cup {"issue191"}}, "none") >>

\* Three of one design: one file, its digest, nothing undone.
BlockK == << Pinned("block_k", <<"speculative_config">>, {{}}, {{"block_k"}}, "none") >>
RopeSwaFix == << Pinned("rope_swa_fix", <<"rope">>, {{}}, {{"rope_swa_fix"}}, "none") >>
Mxfp4Indexer == << Pinned("mxfp4_indexer", <<"mla_indexer">>, {{}}, {{"mxfp4_indexer"}}, "none") >>

\* The first file by its digest, but it has no other step; the scheduler by
\* the regions of this step.  Nothing is undone.
SwaPrefix == << Anchored("swa_prefix", "publish", <<"kv_cache_manager", "scheduler">>) >>

\* Six files, all inspected first; two stand for them.
DsmlRecovery == << Pinned("dsml_recovery", <<"parser_engine", "adapters">>, {{}},
                          {{"dsml_recovery"}}, "replace") >>

\* Both files are looked at first, each is replaced atomically, none restored.
C128aPrefill == << Anchored("c128a_prefill", "publish", <<"sparse_mla", "flashinfer_sparse">>) >>

(* Only with three ranks: the pad module is written anew, then every edit   *)
(* is made, or found, on its own.                                           *)
Edit(name, file) == Anchored(name, "edit", <<file>>)

Tp3 == << Anchored("tp3_module", "copy", <<"dsv4_tp_pad">>),
          Edit("tp3_heads", "attention"),
          Edit("tp3_heads_mtp", "attention"),
          Edit("tp3_head_check", "model_config"),
          Edit("tp3_loaders", "parameter"),
          Edit("tp3_moe", "fused_moe_config"),
          Edit("tp3_experts", "model"),
          Edit("tp3_wo", "attention"),
          Edit("tp3_vocab", "vocab_embedding"),
          Edit("tp3_sink", "model"),
          Edit("tp3_sink_mtp", "mtp"),
          Edit("tp3_sink_dspark", "dspark"),
          Anchored("tp3_verdict", "verdict",
                   <<"attention", "model_config", "parameter", "fused_moe_config", "model",
                     "vocab_embedding", "mtp", "dspark">>) >>

\* The order of the command.
DsparkSteps ==
    Encoding \o Issue21 \o Issue31 \o Issue55 \o Issue22 \o SpinWait \o Issue117 \o MtpBuffer
    \o SkipTopk \o DensePrefill \o SkipEmptyC128 \o FlashmlaWorkspace \o GrammarAdvance
    \o RedactApiKey \o StorePatch \o Issue138 \o AgentMessage \o VisionExp \o Issue141
    \o SpIndexer \o DeepGemmAlias \o EmptyEncoder \o Issue27 \o AdaptiveChunk
    \o ReplicateMarkov \o Issue43 \o Issue26 \o Issue133 \o Ablation \o SuppressStops
    \o AssistantFinal \o EffortAlign \o Issue136 \o Issue191 \o BlockK \o RopeSwaFix
    \o SwaPrefix \o DsmlRecovery \o Mxfp4Indexer \o C128aPrefill \o Tp3

DsparkFiles ==
    UNION {{DsparkSteps[i].files[n] : n \in DOMAIN DsparkSteps[i].files} :
              i \in DOMAIN DsparkSteps}

=============================================================================
