------------------------------- MODULE Config -------------------------------
(***************************************************************************)
(* The rig's configuration file (internal/config/config.go): the defaults   *)
(* that Load fills in and the configurations that it refuses.               *)
(*                                                                         *)
(* A slot is a record: name, its Name() in lower case; alias, has it one of *)
(* its own?; model, the handle; backend, a specification; port; and         *)
(* external, the upstream ("no", or a URL that parses or does not).         *)
(***************************************************************************)
EXTENDS Integers, Sequences, FiniteSets

CONSTANTS NoModel, NoSpec   \* an empty model handle, an empty specification

DefaultBackend  == [kind |-> "variant", variant |-> "cuda12"]
DefaultBasePort == 9100

External(s) == s.external # "no"

\* Slots with no port of their own among the first k; an external one counts.
Portless(slots, k) == Cardinality({j \in 1 .. k : slots[j].port = 0})

\* Mutant of applyDefaults: the port is not counted up.
applyDefaultsOnePort(c) ==
  LET base == IF c.basePort = 0 THEN DefaultBasePort ELSE c.basePort
      Ported(j) == IF c.slots[j].port # 0 THEN c.slots[j] ELSE [c.slots[j] EXCEPT !.port = base]
  IN  [backend  |-> IF c.backend = NoSpec THEN DefaultBackend ELSE c.backend,
       basePort |-> base,
       slots    |-> [j \in 1 .. Len(c.slots) |-> Ported(j)],
       profile  |-> c.profile]

applyDefaults(c) ==
  LET base == IF c.basePort = 0 THEN DefaultBasePort ELSE c.basePort
      Ported(j) == IF c.slots[j].port # 0 THEN c.slots[j]
                   ELSE [c.slots[j] EXCEPT !.port = base + Portless(c.slots, j - 1)]
  IN  [backend  |-> IF c.backend = NoSpec THEN DefaultBackend ELSE c.backend,
       basePort |-> base,
       slots    |-> [j \in 1 .. Len(c.slots) |-> Ported(j)],
       profile  |-> c.profile]

validate(c) ==
  \A j \in 1 .. Len(c.slots) :
    /\ IF External(c.slots[j]) THEN c.slots[j].alias ELSE c.slots[j].model # NoModel
    /\ \A k \in 1 .. j - 1 : c.slots[k].name # c.slots[j].name
=============================================================================
