----------------------------- MODULE MCCluster -----------------------------
(* Instantiates Cluster for TLC: two connections, two shards, two keys     *)
(* that route to different shards, and i64 scaled to 3 bits (-4..3).       *)
EXTENDS Cluster

CONSTANTS k1, k2  \* the keys, as model values

MCKeys == {k1, k2}
MCClients == {"c1", "c2"}
MCMinI64 == -4
MCMaxI64 == 3
MCUsizeMax == 15
\* The value constructors, instantiated apart from C so that the set of
\* values is not defined in terms of itself.
V == INSTANCE Commands WITH
        Values <- {}, mem <- NoValue, lastOp <- NoValue, lastKey <- NoValue,
        lastOut <- NoValue, halted <- FALSE, durable <- NoValue
MCValues == V!CValueUpTo(2)

\* Key names for KEYS: k1 is "a", k2 is "b".
MCKeyName == [k \in MCKeys |-> IF k = k1 THEN <<"a">> ELSE <<"b">>]

\* One SipHash-1-3 outcome for two shards: k2 hashes to shard 1, k1 and
\* the pattern "*" to shard 0.
MCRoute(x) == IF x = k2 THEN 1 ELSE 0

Rq(cmd, args) == [cmd |-> cmd, args |-> args]

\* Single-key requests of every shape that reads or writes, two clients
\* racing on the same keys, and an expiration that time can reach.
LinRequests ==
    {Rq("SET", <<k1, 3>>), Rq("INCR", <<k1>>), Rq("INCR", <<k2>>),
     Rq("GET", <<k2>>), Rq("DEL", <<k2>>), Rq("EXPIRE", <<k2, 2>>)}

\* DECRBY k1 i64::MIN panics a debug build when k1 is missing; a request
\* for k1 after that finds shard 0's inbox closed.
PanicRequests ==
    {Rq("SET", <<k1, 3>>), Rq("DECRBY", <<k1, MCMinI64>>), Rq("INCR", <<k2>>)}

FlushRequests == {Rq("SET", <<k2, 3>>), Rq("FLUSHDB", <<>>), Rq("GET", <<k2>>)}

KeysRequests == {Rq("SET", <<k2, 3>>), Rq("KEYS", <<<<"*">>>>)}

\* The commands that act on the whole keyspace, with a key that routes
\* away from shard 0.
RoutingRequests == FlushRequests \cup KeysRequests

\* The statistics counters grow without bound along expire/evict/set
\* cycles; TLC explores them within CounterCap of zero and of the point
\* where usize wraps.
CounterCap == 1
InCounterRange(x) == x <= CounterCap \/ x >= MCUsizeMax - CounterCap
CounterBound ==
    \A s \in Shards : InCounterRange(smem[s].total_keys) /\ InCounterRange(smem[s].expired_keys)
====
