---------------------------- MODULE MCInventory ----------------------------
(* Inventory with two servers of one environment, one basket, one software  *)
(* and two releases of it.                                                  *)
EXTENDS Inventory, TLC

CONSTANTS s1, s2, prod, base, app, r1, r2

Servers == {s1, s2}
InProd == [srv \in Servers |-> prod]
Releases == {r1, r2}
OfApp == [r \in Releases |-> app]

\* Bound: servers, environments, softwares and baskets are soft-deleted only
\* with no request in flight, and none is in flight afterwards.
DeletedBetweenRequests == inflight # Idle => Deletions = 0

Alike == Permutations(Servers) \union Permutations(Releases)
=============================================================================
