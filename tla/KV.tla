-------------------------------- MODULE KV ---------------------------------
(***************************************************************************)
(* What a shard's key-value store promises its callers (spec.md sections   *)
(* 3 and 4.2): a map from keys to values in which a key that was given a   *)
(* time-to-live may vanish at any moment, and in which every read, delete, *)
(* existence check and TTL query answers from that map.  Expiry is         *)
(* invisible: there is no "expired but present" state at this level.       *)
(***************************************************************************)
EXTENDS Integers, FiniteSets

CONSTANTS Keys, Values, TtlArgs, NoValue

\* An item: its value and whether an expiration instant is set.
Item == [value : Values, ttl : {"none", "set"}]

\* The answer TTL gives for a key whose expiration is still ahead: some
\* number of whole seconds >= 0; one representative stands for all of them.
Remaining == 0

VARIABLES
    kv,       \* the map
    lastOp,   \* the last operation called
    lastKey,  \* its key argument
    lastOut   \* what it returned

vars == <<kv, lastOp, lastKey, lastOut>>

Present(k) == kv[k] # NoValue
Visible == {k \in Keys : Present(k)}

Init ==
    /\ kv = [k \in Keys |-> NoValue]
    /\ lastOp = "init" /\ lastKey = NoValue /\ lastOut = NoValue

\* The operation is compared first: answers of different operations have
\* different types.
Reply(op, k, out) == lastOp' = op /\ lastKey' = k /\ lastOut' = out

Put(k, v) ==
    /\ kv' = [kv EXCEPT ![k] = [value |-> v, ttl |-> "none"]]
    /\ Reply("set", k, "ok")

Read(k) ==
    /\ Reply("get", k, IF Present(k) THEN kv[k].value ELSE NoValue)
    /\ UNCHANGED kv

Remove(k) ==
    /\ kv' = [kv EXCEPT ![k] = NoValue]
    /\ Reply("delete", k, Present(k))

Exists(k) ==
    /\ Reply("exists", k, Present(k))
    /\ UNCHANGED kv

SetTtl(k, t) ==
    /\ kv' = IF Present(k)
               THEN [kv EXCEPT ![k].ttl = IF t > 0 THEN "set" ELSE "none"]
               ELSE kv
    /\ Reply("expire", k, Present(k))

\* A key whose expiration is set answers some remaining time, or has
\* reached its expiration by the time it is looked at and answers -2.
ReadTtl(k) ==
    \/ /\ ~Present(k)
       /\ Reply("ttl", k, -2)
       /\ UNCHANGED kv
    \/ /\ Present(k) /\ kv[k].ttl = "none"
       /\ Reply("ttl", k, -1)
       /\ UNCHANGED kv
    \/ /\ Present(k) /\ kv[k].ttl = "set"
       /\ Reply("ttl", k, Remaining)
       /\ UNCHANGED kv
    \/ /\ Present(k) /\ kv[k].ttl = "set"
       /\ kv' = [kv EXCEPT ![k] = NoValue]
       /\ Reply("ttl", k, -2)

\* Expiry: a key with an expiration set leaves the map on its own.
Vanish(k) ==
    /\ Present(k) /\ kv[k].ttl = "set"
    /\ kv' = [kv EXCEPT ![k] = NoValue]
    /\ UNCHANGED <<lastOp, lastKey, lastOut>>

Clear ==
    /\ kv' = [k \in Keys |-> NoValue]
    /\ Reply("clear", NoValue, "ok")

ListKeys ==
    /\ Reply("keys", NoValue, Visible)
    /\ UNCHANGED kv

\* A sweep removes nothing visible; how much hidden garbage it reclaims is
\* not visible at this level.
Sweep ==
    /\ \E n \in 0..Cardinality(Keys) : Reply("cleanup_expired", NoValue, n)
    /\ UNCHANGED kv

Stats ==
    /\ Reply("stats", NoValue, Cardinality(Visible))
    /\ UNCHANGED kv

Next ==
    \/ \E k \in Keys :
          \/ \E v \in Values : Put(k, v)
          \/ Read(k) \/ Remove(k) \/ Exists(k) \/ ReadTtl(k) \/ Vanish(k)
          \/ \E t \in TtlArgs : SetTtl(k, t)
    \/ Clear \/ ListKeys \/ Sweep \/ Stats

Spec == Init /\ [][Next]_vars
=============================================================================
