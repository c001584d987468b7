----------------------------- MODULE MCRegistry -----------------------------
(* Instances of Registry for TLC: two models on two GPUs, and an upstream. *)
EXTENDS Registry, TLC

CONSTANTS c1, c2

\* One model alone on GPU 0 and a big one split across both, as in the profiles
\* of config.example.json, with automatic ports; the slot that the config file
\* starts with, whose port applyDefaults has filled in; and an external slot.
Qwen == [name |-> "qwen", model |-> "qwen",     gpus |-> {0},    port |-> 0, ext |-> FALSE]
Big  == [name |-> "big",  model |-> "qwen-big", gpus |-> {0, 1}, port |-> 0, ext |-> FALSE]
Configured == [Qwen EXCEPT !.port = 9100]
Vllm == [name |-> "vllm", model |-> "", gpus |-> {}, port |-> 9100, ext |-> TRUE]

Slots == {Qwen, Big, Configured}
SlotsAndVllm == {Configured, Vllm}

\* an ID contains its own handle and the empty one; "qwen" is a substring of
\* "qwen-big"
Matching == {<<"qwen", "qwen">>, <<"qwen-big", "qwen-big">>, <<"qwen-big", "qwen">>,
             <<"vllm", "vllm">>, <<"qwen", "">>, <<"qwen-big", "">>, <<"vllm", "">>}

\* The model of the configured slot may be gone by the time it is loaded again.
Doubtful == {Configured}

\* One layout begins with a slot that may be refused, one has a slot in the
\* middle whose name is taken, or which is refused.
Layouts == [mixed |-> <<Configured, Big>>, twice |-> <<Qwen, Configured, Big>>]
Served  == [solo |-> <<Configured>>, both |-> <<Vllm, Configured>>]
BootOne  == <<Configured>>
BootBoth == <<Configured, Vllm>>
=============================================================================
