----------------------------- MODULE MCMaster -----------------------------
EXTENDS Master, TLC
Symmetry == Permutations(Handlers) \cup Permutations(Workers)

\* Bound: what follows an extension of a session is explored only while none of
\* its callables was made and no step of it was traced, which Extend has no part in.
ExtendedPlain ==
  \A s \in Sessions : version[s] > 0 =>
    /\ \A g \in Graphs : g[1] = s => logging[g] = 0 /\ (g = RunGraph(s) \/ reg[g] = "unbuilt")
    /\ \A h \in Handlers : ~traced[h]

\* Bound: once a session has made a callable, what follows a traced step is
\* explored only for one of the callable, and while no more than one call of
\* LoggingAsync is unanswered; SetRPCLogging looks at no graph but its own.
TracedApart ==
  \A g \in Graphs : reg[g] # "unbuilt" /\ g # RunGraph(g[1]) =>
    /\ logging[RunGraph(g[1])] = 0 /\ logging[g] < 2
    /\ \A h \in Handlers : traced[h] => graph[h] # RunGraph(g[1])
===========================================================================
