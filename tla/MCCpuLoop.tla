----------------------------- MODULE MCCpuLoop -----------------------------
(* Small instances of CpuLoop: every prefix order around a repeated string  *)
(* instruction, shields before prefixes, STI; HLT, handlers with and        *)
(* without STI; every string instruction over every content of a segment of *)
(* three elements, with places that overlap and counts beyond it and 0.     *)
EXTENDS CpuLoop

Mains ==
  {<<"load", "seg", "rep", "string", "sti", "hlt", "cli">>,
   <<"sti", "load", "rep", "seg", "string", "op", "loadss", "seg", "op", "hlt">>,
   <<"load", "sti", "lock", "rep", "string", "rep", "seg", "op", "io">>,
   <<"sti", "load", "seg", "string", "rep", "op", "loadss", "rep", "string", "sti", "lock", "hlt">>}
Handlers == {<<"io", "iret">>, <<"op", "sti", "seg", "op", "iret">>}

Strings == {i \in [op : Ops, prefix : {"repe", "repne"}, down : BOOLEAN] :
              Compares(i) \/ i.prefix = "repe"}
Registers == {[di |-> 1, cx |-> 4, zf |-> FALSE], [di |-> 2, cx |-> 2, zf |-> TRUE],
              [di |-> 0, cx |-> 0, zf |-> TRUE]}
Data == {[mem |-> m, si |-> 0, di |-> r.di, cx |-> r.cx, a |-> 1, zf |-> r.zf,
          in |-> 0, out |-> <<>>] : m \in [Offsets -> {0, 1}], r \in Registers}

SomePrograms == [main : Mains, handler : Handlers, string : Strings, data : Data]
=============================================================================
