-------------------------- MODULE MCStreamPipeline --------------------------
(* All graphs of two sources, two operators and a sink in which each source  *)
(* and operator lists one or two steps, those with a cycle included.         *)
EXTENDS StreamPipeline

Lists(S) == {<<p>> : p \in S} \union {l \in S \X S : l[1] # l[2]}
TwoGraphs ==
  {g \in [{1, 2, 3, 4, 5} -> Lists({3, 4, 5, 9})] :
     /\ \A s \in {1, 2} : 9 \notin {g[s][i] : i \in DOMAIN g[s]}
     /\ \A o \in {3, 4} : o \notin {g[o][i] : i \in DOMAIN g[o]}
     /\ g[5] = <<9>>}

=============================================================================
