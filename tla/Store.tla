------------------------------- MODULE Store -------------------------------
(***************************************************************************)
(* The per-shard in-memory store, src/store/memory.rs and src/store/       *)
(* entry.rs.  A MemoryStore is a map from keys to entries plus the two     *)
(* statistics counters total_keys and expired_keys (both usize).  An entry *)
(* holds a value and an optional absolute expiration instant; the clock is *)
(* abstracted to where each instant stands relative to "now": no instant,  *)
(* an instant still ahead ("live") or one already reached ("past").  Time  *)
(* passing moves a live instant to past at any moment.                     *)
(*                                                                         *)
(* Every store operation is an operator from a store to a result record    *)
(* [mem, out], so that the command handlers (Commands.tla) can chain them  *)
(* in the order their code calls them.  StoreSpec runs the operations one  *)
(* at a time, as the shard's single thread does.                           *)
(***************************************************************************)
EXTENDS Integers, FiniteSets

CONSTANTS
    Keys,            \* the keys clients use
    Values,          \* the values entries hold
    TtlArgs,         \* ttl_seconds arguments given to expire
    UsizeMax,        \* the largest usize (the width is scaled down for TLC)
    OverflowChecks,  \* TRUE: a debug build, usize overflow panics;
                     \* FALSE: a release build, usize arithmetic wraps
    NoValue,         \* an absent entry / an absent answer
    Panic            \* the result of an arithmetic overflow that panicked

ASSUME /\ UsizeMax \in Nat \ {0}
       /\ OverflowChecks \in BOOLEAN
       /\ TtlArgs \subseteq Int

\* Where Entry.expire_at stands relative to Instant::now().
Expiry == {"none", "live", "past"}

Entry == [value : Values, expire_at : Expiry]

\* The answer of ttl for a key whose expiration is ahead: some number of
\* whole seconds >= 0 (entry.rs ttl_seconds); one representative for all.
Remaining == 0

\* usize arithmetic: a debug build panics where a release build wraps.
Usize(x) ==
    IF x \in 0..UsizeMax THEN x
    ELSE IF OverflowChecks THEN Panic ELSE x % (UsizeMax + 1)

\* A counter update; once a panic has happened nothing else is computed.
Bump(c, d) == IF c = Panic THEN Panic ELSE Usize(c + d)

MemoryStore ==
    [store : [Keys -> Entry \cup {NoValue}],
     total_keys : 0..UsizeMax,
     expired_keys : 0..UsizeMax]

NewStore ==
    [store |-> [k \in Keys |-> NoValue], total_keys |-> 0, expired_keys |-> 0]

Res(m, out) == [mem |-> m, out |-> out]

\* An operation panicked when one of its counter updates overflowed.
Panicked(r) == Panic \in {r.mem.total_keys, r.mem.expired_keys}

Present(m, k) == m.store[k] # NoValue

IsExpired(e) == e.expire_at = "past"

\* The prologue that get, get_mut, exists, expire and ttl share: an entry
\* found expired is counted in expired_keys and removed.
EvictExpired(m, k) ==
    IF Present(m, k) /\ IsExpired(m.store[k])
       THEN [m EXCEPT !.store[k] = NoValue, !.expired_keys = Bump(@, 1)]
       ELSE m

\* Fault variant of Set: is_new is read after the insert, so no key is
\* ever counted.
SetIsNewAfterInsert(m, k, v) ==
    [m EXCEPT !.store[k] = [value |-> v, expire_at |-> "none"]]

\* set: a fresh entry without expiration replaces whatever was there;
\* total_keys counts it only when no entry, expired or not, was present.
Set(m, k, v) ==
    LET is_new == ~Present(m, k)
    IN  [m EXCEPT !.store[k] = [value |-> v, expire_at |-> "none"],
                  !.total_keys = IF is_new THEN Bump(@, 1) ELSE @]

Get(m, k) ==
    LET m1 == EvictExpired(m, k)
    IN  Res(m1, IF Present(m1, k) THEN m1.store[k].value ELSE NoValue)

\* get_mut: the same lookup; a caller writes through the reference it
\* returns with UpdateValue.
GetMut(m, k) == Get(m, k)

UpdateValue(m, k, v) == [m EXCEPT !.store[k].value = v]

\* delete: removing a live entry decrements total_keys; removing one whose
\* instant has passed decrements expired_keys, which need not have counted
\* it.
Delete(m, k) ==
    LET e == m.store[k]
        m1 == [m EXCEPT !.store[k] = NoValue]
    IN  IF e = NoValue THEN Res(m, FALSE)
        ELSE IF ~IsExpired(e)
             THEN Res([m1 EXCEPT !.total_keys = Bump(@, -1)], TRUE)
             ELSE Res([m1 EXCEPT !.expired_keys = Bump(@, -1)], FALSE)

Exists(m, k) ==
    LET m1 == EvictExpired(m, k) IN Res(m1, Present(m1, k))

\* Fault variant of Expire: the entry is looked up without the eviction
\* prologue, so an entry whose instant passed gets a new one.
ExpireNoEvict(m, k, t) ==
    IF ~Present(m, k) THEN Res(m, FALSE)
    ELSE Res([m EXCEPT !.store[k].expire_at = IF t > 0 THEN "live" ELSE "none"], TRUE)

\* expire, with Entry::set_expiration: a positive TTL sets an instant
\* ahead of now, any other removes the expiration.
Expire(m, k, t) ==
    LET m1 == EvictExpired(m, k)
    IN  IF ~Present(m1, k) THEN Res(m1, FALSE)
        ELSE Res([m1 EXCEPT !.store[k].expire_at = IF t > 0 THEN "live" ELSE "none"],
                 TRUE)

\* ttl, with Entry::ttl_seconds.  The clock is read twice: by is_expired
\* and again by ttl_seconds.  When the instant passes between the two reads
\* (passes = TRUE) the answer is -2 and the entry stays in the map.
Ttl(m, k, passes) ==
    LET m1 == EvictExpired(m, k)
        e == m1.store[k]
    IN  IF ~Present(m1, k) THEN Res(m1, -2)
        ELSE IF e.expire_at = "none" THEN Res(m1, -1)
        ELSE IF passes THEN Res([m1 EXCEPT !.store[k].expire_at = "past"], -2)
        ELSE Res(m1, Remaining)

Clear(m) == [m EXCEPT !.store = [k \in Keys |-> NoValue],
                      !.total_keys = 0, !.expired_keys = 0]

ActiveKeys(m) == {k \in Keys : Present(m, k) /\ ~IsExpired(m.store[k])}

\* keys: a snapshot of the keys whose entries have not expired.
KeysOf(m) == ActiveKeys(m)

\* cleanup_expired: remove every expired entry and subtract the count,
\* saturating, from both counters.
CleanupExpired(m) ==
    LET gone == {k \in Keys : Present(m, k) /\ IsExpired(m.store[k])}
        n == Cardinality(gone)
        Sat(x) == IF x >= n THEN x - n ELSE 0
    IN  Res([m EXCEPT !.store = [k \in Keys |-> IF k \in gone THEN NoValue ELSE @[k]],
                      !.total_keys = Sat(@), !.expired_keys = Sat(@)], n)

\* stats: counts recomputed by a scan, not taken from the counters.
Stats(m) ==
    LET total == Cardinality({k \in Keys : Present(m, k)})
        active == Cardinality(ActiveKeys(m))
    IN  [total_keys |-> total, active_keys |-> active,
         expired_keys |-> total - active]

-----------------------------------------------------------------------------
(* The store run on its own: one operation at a time, by the shard thread.  *)

VARIABLES
    mem,     \* the MemoryStore
    lastOp,  \* the last operation called
    lastKey, \* its key argument
    lastOut, \* what it returned
    halted   \* the owning thread panicked; nothing runs on this store again

vars == <<mem, lastOp, lastKey, lastOut, halted>>

StoreInit ==
    /\ mem = NewStore
    /\ lastOp = "init" /\ lastKey = NoValue /\ lastOut = NoValue
    /\ halted = FALSE

\* Perform the operation whose result is r; a panic halts the thread.
Perform(op, k, r) ==
    /\ ~halted
    /\ IF Panicked(r)
          THEN /\ halted' = TRUE
               /\ lastOp' = op /\ lastKey' = k /\ lastOut' = Panic
               /\ UNCHANGED mem
          ELSE /\ mem' = r.mem
               /\ lastOp' = op /\ lastKey' = k /\ lastOut' = r.out
               /\ UNCHANGED halted

DoSet(k, v) == Perform("set", k, Res(Set(mem, k, v), "ok"))
DoGet(k) == Perform("get", k, Get(mem, k))
DoDelete(k) == Perform("delete", k, Delete(mem, k))
DoExists(k) == Perform("exists", k, Exists(mem, k))
DoExpire(k, t) == Perform("expire", k, Expire(mem, k, t))
DoTtl(k) == \E passes \in BOOLEAN : Perform("ttl", k, Ttl(mem, k, passes))
DoClear == Perform("clear", NoValue, Res(Clear(mem), "ok"))
DoKeys == Perform("keys", NoValue, Res(mem, KeysOf(mem)))
DoCleanup == Perform("cleanup_expired", NoValue, CleanupExpired(mem))
DoStats == Perform("stats", NoValue, Res(mem, Stats(mem).active_keys))

\* Time passes: an expiration instant that was ahead is reached.
Tick(k) ==
    /\ Present(mem, k) /\ mem.store[k].expire_at = "live"
    /\ mem' = [mem EXCEPT !.store[k].expire_at = "past"]
    /\ UNCHANGED <<lastOp, lastKey, lastOut, halted>>

StoreNext ==
    \/ \E k \in Keys :
          \/ \E v \in Values : DoSet(k, v)
          \/ DoGet(k) \/ DoDelete(k) \/ DoExists(k) \/ DoTtl(k) \/ Tick(k)
          \/ \E t \in TtlArgs : DoExpire(k, t)
    \/ DoClear \/ DoKeys \/ DoCleanup \/ DoStats

StoreSpec == StoreInit /\ [][StoreNext]_vars

-----------------------------------------------------------------------------
(* Properties *)

\* total_keys never counts fewer entries than the map holds.  delete relies
\* on it when it decrements total_keys for a live entry; an entry that set
\* failed to count would make a later delete underflow.  Evictions by get,
\* exists, expire and ttl remove entries without decrementing it, so it
\* may run ahead of the map but must never fall behind.
TotalKeysCoversStore ==
    ~halted => mem.total_keys >= Cardinality({k \in Keys : Present(mem, k)})

\* Lazy expiry is invisible to callers: the store, read through the map of
\* entries whose instant has not passed, behaves as the abstract map of
\* KV.tla, and every get, delete, exists, expire, ttl, keys and stats
\* answers what that map holds.
KVAbs == INSTANCE KV WITH
    kv <- [k \in Keys |->
             IF Present(mem, k) /\ ~IsExpired(mem.store[k])
                THEN [value |-> mem.store[k].value,
                      ttl |-> IF mem.store[k].expire_at = "none" THEN "none" ELSE "set"]
                ELSE NoValue],
    lastOp <- lastOp, lastKey <- lastKey, lastOut <- lastOut

ImplementsKV == KVAbs!Spec
=============================================================================
