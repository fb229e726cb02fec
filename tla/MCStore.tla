------------------------------ MODULE MCStore ------------------------------
(* Model-checking instance of Store.tla: two keys, two values, a TTL       *)
(* argument on each side of zero, and usize scaled down to 4 bits.          *)
EXTENDS Store

MCKeys == {"k1", "k2"}
MCValues == {"v1", "v2"}
MCTtlArgs == {0, 5}
MCUsizeMax == 15

\* total_keys and expired_keys grow without bound along set/expire/get
\* cycles (evictions never decrement total_keys).  The run explores the
\* counters up to CounterCap above zero and CounterCap below the wrap point.
CounterCap == 3
InCounterRange(x) == x <= CounterCap \/ x >= MCUsizeMax - CounterCap
CounterBound ==
    /\ InCounterRange(mem.total_keys)
    /\ InCounterRange(mem.expired_keys)
=============================================================================
