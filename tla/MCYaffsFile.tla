---------------------------- MODULE MCYaffsFile -----------------------------
EXTENDS YaffsFile, TLC

(* The port's device, without a cache, and one with the cache on.          *)
PortAndCached == {[n_caches |-> 0, bypass |-> FALSE],
                  [n_caches |-> 1, bypass |-> FALSE]}

(* One across two chunks, and one that may leave a hole.                   *)
SomeWrites == {<<1, 2>>, <<3, 1>>}

(* A device with one entry that writes aligned chunks past the cache, and  *)
(* writes that fill one chunk in the cache and the next past it.           *)
Bypassing == {[n_caches |-> 1, bypass |-> TRUE]}
PastTheCache == {<<0, 1>>, <<1, 3>>}

Alike == Permutations(Vals)
=============================================================================
