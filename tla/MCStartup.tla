----------------------------- MODULE MCStartup ------------------------------
(* Values for TLC: a Windows host, where a build is two archives, two        *)
(* releases, and configurations with static slots and with a default profile. *)
EXTENDS Startup, TLC

CONSTANTS p1, p2

Pulls == Permutations(Pull)

Archives == <<"bin", "cudart">>
InArchive == [bin |-> {"llama-server"}, cudart |-> {"cudart"}]
OfRelease == [t \in Tag |-> {"bin", "cudart", "ubuntu"}]

Dir(tokens, version, server, core) ==
  [tokens |-> tokens, version |-> version, server |-> server, core |-> core]
Cuda12(version, server, core) == Dir({"cuda12", "cuda"}, version, server, core)
Scans ==
  { {Cuda12(<<2, 8, 0>>, "file", TRUE), Cuda12(<<2, 22>>, "file", TRUE),
     Cuda12(<<2, 22, 1>>, "file", TRUE), Cuda12(<<2, 30, 0>>, "stub", TRUE),
     Dir({"cuda"}, <<3, 0, 0>>, "file", TRUE)},
    {Cuda12(<<2, 18, 0>>, "file", FALSE), Dir({}, <<2, 13, 0>>, "file", TRUE)} }

Files == {[id |-> "q/qwen.gguf", mmproj |-> FALSE, shard |-> 1],
          [id |-> "q/qwen-2.gguf", mmproj |-> FALSE, shard |-> 2],
          [id |-> "g/gemma.gguf", mmproj |-> FALSE, shard |-> 0],
          [id |-> "g/mmproj.gguf", mmproj |-> TRUE, shard |-> 0]}
Handles == {<<f.id, "gguf">> : f \in Files}
             \cup {<<"q/qwen.gguf", "qwen">>, <<"q/qwen-2.gguf", "qwen">>}

Ggml(ref) == [kind |-> "ggml", ref |-> ref]
Dirs(has) == [kind |-> "dir", hasServer |-> has]

Own(name, model, backend, port) ==
  [name |-> name, alias |-> TRUE, model |-> model, backend |-> backend,
   port |-> port, external |-> "no"]
Vllm(alias, url) ==
  [name |-> "vllm", alias |-> alias, model |-> NoModel, backend |-> NoSpec,
   port |-> 0, external |-> url]

Conf(backend, base, slots, profile) ==
  [backend |-> backend, basePort |-> base, slots |-> slots, profile |-> profile]

Qwen(b, p)  == Own("qwen", "qwen", b, p)
Gemma(b, p) == Own("gemma", "g/gemma.gguf", b, p)

Confs ==
  { Conf(NoSpec, 0, <<Qwen(NoSpec, 0), Gemma(NoSpec, 0)>>, <<>>),
    Conf(Dirs(TRUE), 9000, <<Qwen(Ggml(LatestRef), 9001), Vllm(TRUE, "url"), Gemma(Ggml(1), 0)>>, <<>>),
    Conf(Dirs(TRUE), 0, <<Qwen(NoSpec, 0), Qwen(NoSpec, 0)>>, <<>>),
    Conf(Dirs(TRUE), 0, <<Vllm(TRUE, "bad")>>, <<>>),
    Conf(Dirs(TRUE), 0, <<>>, <<Own("any", "gguf", NoSpec, 0), Qwen(Ggml(LatestRef), 9100), Gemma(NoSpec, 0)>>) }
=============================================================================
