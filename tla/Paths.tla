-------------------------------- MODULE Paths --------------------------------
(***************************************************************************)
(* Paths in a directed graph, for what the walks over graphs should find.  *)
(***************************************************************************)
EXTENDS Integers

\* A path of n edges out of E from v to w, over vertices in V.
IsPath(p, n, V, E, v, w) ==
  /\ p \in [0 .. n -> V]
  /\ p[0] = v /\ p[n] = w
  /\ \A i \in 1 .. n : <<p[i - 1], p[i]>> \in E

\* w is at most k edges away from v.
Within(V, E, v, w, k) ==
  \E n \in 0 .. k : \E p \in [0 .. n -> V] : IsPath(p, n, V, E, v, w)
=============================================================================
