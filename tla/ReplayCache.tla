---------------------------- MODULE ReplayCache ----------------------------
(***************************************************************************)
(* The jti seen-set of readonly_query.ReplayCache as operators on its one  *)
(* field: a function from the jtis remembered to the expiry instant each   *)
(* token carried.                                                          *)
(***************************************************************************)
EXTENDS Integers

EmptyCache == [j \in {} |-> 0]

(* Fault: eviction one second ahead of the verifier's expiry arm.          *)
EvictEarly(cache, now) == [j \in {k \in DOMAIN cache : now + 1 < cache[k]} |-> cache[j]]

(* What the eviction pass keeps: an entry dies at the instant exp itself.  *)
Evict(cache, now) == [j \in {k \in DOMAIN cache : now < cache[k]} |-> cache[j]]

Remember(cache, jti, exp) ==
    [j \in DOMAIN cache \cup {jti} |-> IF j = jti THEN exp ELSE cache[j]]

(* Faults: nothing is evicted; a first sighting is not recorded.           *)
CheckAndInsertForever(cache, jti, exp, now) ==
    [first |-> jti \notin DOMAIN cache,
     seen |-> IF jti \in DOMAIN cache THEN cache ELSE Remember(cache, jti, exp)]
CheckOnly(cache, jti, exp, now) ==
    [first |-> jti \notin DOMAIN Evict(cache, now), seen |-> Evict(cache, now)]

(* True = first sighting.  Eviction comes first and stays on both outcomes *)
CheckAndInsert(cache, jti, exp, now) ==
    LET kept == Evict(cache, now)
    IN  IF jti \in DOMAIN kept
        THEN [first |-> FALSE, seen |-> kept]
        ELSE [first |-> TRUE,  seen |-> Remember(kept, jti, exp)]
=============================================================================
