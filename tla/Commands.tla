------------------------------ MODULE Commands ------------------------------
(***************************************************************************)
(* The command catalogue of src/commands/ run against one shard's store   *)
(* (Store.tla), with the AOF side effect of every handler.                *)
(*                                                                         *)
(* Data is abstracted to what the properties tell apart.  A byte string   *)
(* argument or value is either the decimal text of an i64 (represented by *)
(* the integer itself) or NotANumber, text that does not parse as i64.    *)
(* i64 is scaled down to MinI64..MaxI64 with the same checked arithmetic. *)
(* A RESP argument that is not a bulk string is NonBulk.  List elements   *)
(* and set members come from Members, hash fields from Fields.             *)
(*                                                                         *)
(* Each handler is one operator from the store to [mem, out, log]: the    *)
(* store after the handler, its reply, and the AOF entries log_to_aof     *)
(* wrote, in order.  The action Exec installs the result.  The variable   *)
(* durable is the store a restart would rebuild by replaying every entry  *)
(* written so far (aof/replay.rs), kept folded rather than as the file.   *)
(***************************************************************************)
EXTENDS Store, Sequences, SequencesExt

CONSTANTS
    Members,      \* list elements and set members
    Fields,       \* hash fields
    MinI64, MaxI64,
    NotANumber,   \* a byte string that is not the decimal text of an i64
    NonBulk,      \* a RESP argument that is not a bulk string
    SetArgs,      \* values given to SET and HSET
    IntArgs,      \* increment arguments (INCRBY, DECRBY, HINCRBY)
    RangeArgs,    \* LRANGE start/stop arguments
    MaxArgs,      \* the most variadic arguments one request carries
    SendNonBulk,  \* whether clients send non-bulk arguments
    CommandSet,   \* the command names clients send in this model
    KeyName,      \* Keys -> the key's bytes, a sequence of characters
    Patterns      \* the KEYS pattern arguments clients send, as byte strings

I64 == MinI64..MaxI64
Text == I64 \cup {NotANumber}

IsI64(t) == t \in I64

\* Rust's unary minus on i64: -i64::MIN overflows; a debug build panics,
\* a release build wraps to i64::MIN itself.
Neg64(x) == IF -x \in I64 THEN -x ELSE IF OverflowChecks THEN Panic ELSE x

-----------------------------------------------------------------------------
(* store/value.rs: the Value enum.  Every variant is the same record shape *)
(* so that values of different variants compare.                          *)

EmptyHash == [f \in Fields |-> NoValue]
Blank == [type |-> "string", str |-> NoValue, elems |-> <<>>,
          mset |-> {}, hash |-> EmptyHash]
StrV(t)   == [Blank EXCEPT !.str = t]
IntV(i)   == [Blank EXCEPT !.type = "integer", !.str = i]
ListV(s)  == [Blank EXCEPT !.type = "list", !.elems = s]
SetV(S)  == [Blank EXCEPT !.type = "set", !.mset = S]
HashV(h) == [Blank EXCEPT !.type = "hash", !.hash = h]

\* The values, with lists of up to n elements.
CValueUpTo(n) ==
    {StrV(t) : t \in Text} \cup {IntV(i) : i \in I64} \cup
    {ListV(s) : s \in BoundedSeq(Members, n)} \cup {SetV(S) : S \in SUBSET Members} \cup
    {HashV(h) : h \in [Fields -> Text \cup {NoValue}]}

\* protocol/types.rs replies; an error keeps only its class.
RInt(i)   == [t |-> "int", v |-> i]
RBulk(s)  == [t |-> "bulk", v |-> s]
RNull     == [t |-> "null", v |-> NoValue]
ROk       == [t |-> "ok", v |-> "OK"]
RArr(x)   == [t |-> "array", v |-> x]
RErr(e)   == [t |-> "err", v |-> e]
WrongType == RErr("WRONGTYPE")

\* aof/entry.rs AofEntry, without timestamp and checksum.
AofEntry(op, k, payload) == [op |-> op, key |-> k, payload |-> payload]

R3(m, out, log) == [mem |-> m, out |-> out, log |-> log]

\* The index of the first argument that is not a bulk string, or 0.
FirstNonBulk(args) == SelectInSeq(args, LAMBDA a : a = NonBulk)

\* The arguments a loop over args processes before it returns the error
\* "Expected bulk string" at the first non-bulk one.
BulkPrefix(args) ==
    IF FirstNonBulk(args) = 0 THEN args ELSE SubSeq(args, 1, FirstNonBulk(args) - 1)

-----------------------------------------------------------------------------
(* aof/replay.rs replay_entry, for the operations the handlers log.       *)

ReplayEntry(m, e) ==
    LET k == e.key
        g == GetMut(m, k)
    IN  CASE e.op = "SET" -> Set(m, k, StrV(e.payload[1]))
          [] e.op = "DEL" -> Delete(m, k).mem
          [] e.op = "EXPIRE" ->
                IF IsI64(e.payload[1]) THEN Expire(m, k, e.payload[1]).mem ELSE m
          [] e.op = "HSET" ->
                IF g.out # NoValue /\ g.out.type # "hash" THEN g.mem
                ELSE LET base == IF g.out = NoValue THEN EmptyHash ELSE g.out.hash
                         h == [base EXCEPT ![e.payload[1]] = e.payload[2]]
                     IN  IF g.out = NoValue THEN Set(g.mem, k, HashV(h))
                         ELSE UpdateValue(g.mem, k, HashV(h))
          [] e.op = "HDEL" ->
                IF g.out # NoValue /\ g.out.type = "hash"
                   THEN UpdateValue(g.mem, k,
                          HashV([g.out.hash EXCEPT ![e.payload[1]] = NoValue]))
                   ELSE g.mem

\* replay_entries over a store map, from a store whose counters start at 0.
ReplayAll(s, log) ==
    FoldLeft(ReplayEntry, [store |-> s, total_keys |-> 0, expired_keys |-> 0], log).store

-----------------------------------------------------------------------------
(* String and key commands: string.rs, key.rs, ttl.rs.                     *)

SetCmd(m, k, v) ==
    R3(Set(m, k, StrV(v)), ROk, <<AofEntry("SET", k, <<v>>)>>)

GetCmd(m, k) ==
    LET g == Get(m, k)
    IN  R3(g.mem,
           IF g.out = NoValue THEN RNull
           ELSE IF g.out.type \in {"string", "integer"} THEN RBulk(g.out.str)
           ELSE WrongType,
           <<>>)

\* DEL: delete and log key by key; a non-bulk argument returns an error
\* after the keys before it were deleted and logged.
DelCmd(m, args) ==
    LET Step(acc, a) ==
            LET d == Delete(acc.mem, a)
            IN  IF Panicked(acc) \/ Panicked(d) THEN [acc EXCEPT !.mem = d.mem]
                ELSE IF d.out
                   THEN [mem |-> d.mem, n |-> acc.n + 1,
                         log |-> Append(acc.log, AofEntry("DEL", a, <<>>))]
                   ELSE [acc EXCEPT !.mem = d.mem]
        r == FoldLeft(Step, [mem |-> m, n |-> 0, log |-> <<>>], BulkPrefix(args))
    IN  R3(r.mem, IF FirstNonBulk(args) # 0 THEN RErr("BADARG") ELSE RInt(r.n), r.log)

ExistsCmd(m, args) ==
    LET Step(acc, a) ==
            LET x == Exists(acc.mem, a)
            IN  [mem |-> x.mem, n |-> acc.n + (IF x.out THEN 1 ELSE 0)]
        r == FoldLeft(Step, [mem |-> m, n |-> 0], BulkPrefix(args))
    IN  R3(r.mem, IF FirstNonBulk(args) # 0 THEN RErr("BADARG") ELSE RInt(r.n), <<>>)

ExpireCmd(m, k, t) ==
    IF ~IsI64(t) THEN R3(m, RErr("BADARG"), <<>>)
    ELSE LET x == Expire(m, k, t)
         IN  IF x.out THEN R3(x.mem, RInt(1), <<AofEntry("EXPIRE", k, <<t>>)>>)
             ELSE R3(x.mem, RInt(0), <<>>)

TtlCmd(m, k, passes) ==
    LET x == Ttl(m, k, passes) IN R3(x.mem, RInt(x.out), <<>>)

-----------------------------------------------------------------------------
(* counter.rs.  The four handlers differ in the amount they add (d),       *)
(* the value a missing key starts at (init), and whether they log: only   *)
(* INCR logs, as a SET of the new value.                                   *)

\* Fault variant of Counter: a String is upgraded to an Integer before the
\* overflow check, which then returns its error.
CounterUpgradeFirst(m, k, d, init, logged) ==
    LET g == GetMut(m, k)
        cur == g.out
        Done(mm, n) ==
            R3(mm, RInt(n), IF logged THEN <<AofEntry("SET", k, <<n>>)>> ELSE <<>>)
        Apply(mm, i) ==
            IF (i + d) \in I64 THEN Done(UpdateValue(mm, k, IntV((i + d))), (i + d))
            ELSE R3(mm, RErr("OVERFLOW"), <<>>)
    IN  CASE cur = NoValue -> Done(Set(g.mem, k, IntV(init)), init)
          [] cur.type = "integer" -> Apply(g.mem, cur.str)
          [] cur.type = "string" /\ IsI64(cur.str) ->
               Apply(UpdateValue(g.mem, k, IntV(cur.str)), cur.str)
          [] cur.type = "string" -> R3(g.mem, RErr("NOTINT"), <<>>)
          [] OTHER -> R3(g.mem, WrongType, <<>>)

Counter(m, k, d, init, logged) ==
    LET g == GetMut(m, k)
        cur == g.out
        Done(mm, n) ==
            R3(mm, RInt(n), IF logged THEN <<AofEntry("SET", k, <<n>>)>> ELSE <<>>)
        Apply(i) ==
            IF (i + d) \in I64 THEN Done(UpdateValue(g.mem, k, IntV((i + d))), (i + d))
            ELSE R3(g.mem, RErr("OVERFLOW"), <<>>)
    IN  CASE cur = NoValue ->
               IF init = Panic THEN R3(g.mem, Panic, <<>>)
               ELSE Done(Set(g.mem, k, IntV(init)), init)
          [] cur.type = "integer" -> Apply(cur.str)
          [] cur.type = "string" ->
               IF IsI64(cur.str) THEN Apply(cur.str)
               ELSE R3(g.mem, RErr("NOTINT"), <<>>)
          [] OTHER -> R3(g.mem, WrongType, <<>>)

IncrCmd(m, k) == Counter(m, k, 1, 1, TRUE)
DecrCmd(m, k) == Counter(m, k, -1, -1, FALSE)

IncrByCmd(m, k, n) ==
    IF ~IsI64(n) THEN R3(m, RErr("BADARG"), <<>>)
    ELSE Counter(m, k, n, n, FALSE)

DecrByCmd(m, k, n) ==
    IF ~IsI64(n) THEN R3(m, RErr("BADARG"), <<>>)
    ELSE Counter(m, k, -n, Neg64(n), FALSE)

-----------------------------------------------------------------------------
(* list.rs.  LPUSH and RPUSH create an empty list for a missing key before *)
(* they look at the values; a non-bulk value stops the loop with an error  *)
(* after the values before it were pushed.  Neither logs to the AOF.       *)

Push(m, k, vals, front) ==
    LET g == GetMut(m, k)
        base == IF g.out = NoValue THEN Set(g.mem, k, ListV(<<>>)) ELSE g.mem
        old == IF g.out = NoValue THEN <<>> ELSE g.out.elems
        good == BulkPrefix(vals)
        new == IF front THEN Reverse(good) \o old ELSE old \o good
        m2 == UpdateValue(base, k, ListV(new))
    IN  IF g.out # NoValue /\ g.out.type # "list" THEN R3(g.mem, WrongType, <<>>)
        ELSE R3(m2, IF FirstNonBulk(vals) # 0 THEN RErr("BADARG") ELSE RInt(Len(new)), <<>>)

\* RPushCommand::execute: the steps of LPUSH, each value pushed to the back.
RPushCmd(m, k, vals) == Push(m, k, vals, FALSE)

\* The usize cast of an i64 (`as usize`): a negative value wraps.
AsUsize(x) == x % (UsizeMax + 1)

\* LRANGE's index arithmetic (list.rs 152-175), 0-based indices.
LRangeOf(l, start, stop) ==
    LET len == Len(l)
        startIdx == IF start < 0 THEN AsUsize(IF len + start > 0 THEN len + start ELSE 0)
                    ELSE AsUsize(IF start < len THEN start ELSE len)
        stopIdx == IF stop < 0 THEN AsUsize(IF len + stop > -1 THEN len + stop ELSE -1)
                   ELSE AsUsize(IF stop < len - 1 THEN stop ELSE len - 1)
        last == IF stopIdx < len - 1 THEN stopIdx ELSE len - 1
    IN  IF startIdx <= stopIdx /\ startIdx < len THEN SubSeq(l, startIdx + 1, last + 1)
        ELSE <<>>

LRangeCmd(m, k, start, stop) ==
    LET g == Get(m, k)
    IN  IF ~IsI64(start) \/ ~IsI64(stop) THEN R3(m, RErr("BADARG"), <<>>)
        ELSE IF g.out = NoValue THEN R3(g.mem, RArr(<<>>), <<>>)
        ELSE IF g.out.type # "list" THEN R3(g.mem, WrongType, <<>>)
        ELSE R3(g.mem, RArr(LRangeOf(g.out.elems, start, stop)), <<>>)

\* The fields of a hash that hold a value.
HFields(h) == {f \in Fields : h[f] # NoValue}

\* The reply each read command builds from a value of its type; f is the
\* field HGET asks for.
ReadReply(cmd, v, f) ==
    CASE cmd = "LLEN"     -> RInt(Len(v.elems))
      [] cmd = "SMEMBERS" -> RArr(v.mset)
      [] cmd = "SCARD"    -> RInt(Cardinality(v.mset))
      [] cmd = "HGET"     -> IF v.hash[f] = NoValue THEN RNull ELSE RBulk(v.hash[f])
      [] cmd = "HGETALL"  -> RArr({<<g, v.hash[g]>> : g \in HFields(v.hash)})
      [] cmd = "HKEYS"    -> RArr(HFields(v.hash))

\* LLEN, and the other read commands: a missing key answers `empty`, a
\* value of type `type` answers ReadReply, any other is WRONGTYPE.
ReadCmd(m, k, type, empty, cmd, f) ==
    LET g == Get(m, k)
    IN  R3(g.mem,
           IF g.out = NoValue THEN empty
           ELSE IF g.out.type = type THEN ReadReply(cmd, g.out, f) ELSE WrongType,
           <<>>)

LLenCmd(m, k) == ReadCmd(m, k, "list", RInt(0), "LLEN", NoValue)

-----------------------------------------------------------------------------
(* set.rs.  SADD creates the set first and stops at a non-bulk member     *)
(* after adding the members before it; it does not log.                    *)

SAddCmd(m, k, ms) ==
    LET g == GetMut(m, k)
        base == IF g.out = NoValue THEN Set(g.mem, k, SetV({})) ELSE g.mem
        old == IF g.out = NoValue THEN {} ELSE g.out.mset
        good == ToSet(BulkPrefix(ms))
        m2 == UpdateValue(base, k, SetV(old \cup good))
    IN  IF g.out # NoValue /\ g.out.type # "set" THEN R3(g.mem, WrongType, <<>>)
        ELSE R3(m2, IF FirstNonBulk(ms) # 0 THEN RErr("BADARG")
                    ELSE RInt(Cardinality(good \ old)), <<>>)

SMembersCmd(m, k) == ReadCmd(m, k, "set", RArr({}), "SMEMBERS", NoValue)
SCardCmd(m, k) == ReadCmd(m, k, "set", RInt(0), "SCARD", NoValue)

-----------------------------------------------------------------------------
(* hash.rs.                                                                 *)

\* Fault variant of HSetCmd: only the pairs that created a field are logged.
HSetLogNewOnly(m, k, pairs) ==
    LET g == GetMut(m, k)
        old == IF g.out = NoValue THEN EmptyHash ELSE g.out.hash
        Ins(acc, p) == [h |-> [acc.h EXCEPT ![p[1]] = p[2]],
                        added |-> acc.added + (IF acc.h[p[1]] = NoValue THEN 1 ELSE 0),
                        log |-> IF acc.h[p[1]] = NoValue
                                   THEN Append(acc.log, AofEntry("HSET", k, p)) ELSE acc.log]
        r == FoldLeft(Ins, [h |-> old, added |-> 0, log |-> <<>>], pairs)
        base == IF g.out = NoValue THEN Set(g.mem, k, HashV(EmptyHash)) ELSE g.mem
    IN  IF \E i \in 1..Len(pairs) : pairs[i][2] = NonBulk THEN R3(m, RErr("BADARG"), <<>>)
        ELSE IF g.out # NoValue /\ g.out.type # "hash" THEN R3(g.mem, WrongType, <<>>)
        ELSE R3(UpdateValue(base, k, HashV(r.h)), RInt(r.added), r.log)

\* HSET validates every pair before it touches the store, counts the
\* fields it creates, then logs one HSET entry per pair.
HSetCmd(m, k, pairs) ==
    LET g == GetMut(m, k)
        old == IF g.out = NoValue THEN EmptyHash ELSE g.out.hash
        Ins(acc, p) == [h |-> [acc.h EXCEPT ![p[1]] = p[2]],
                        added |-> acc.added + (IF acc.h[p[1]] = NoValue THEN 1 ELSE 0)]
        r == FoldLeft(Ins, [h |-> old, added |-> 0], pairs)
        base == IF g.out = NoValue THEN Set(g.mem, k, HashV(EmptyHash)) ELSE g.mem
    IN  IF \E i \in 1..Len(pairs) : pairs[i][2] = NonBulk THEN R3(m, RErr("BADARG"), <<>>)
        ELSE IF g.out # NoValue /\ g.out.type # "hash" THEN R3(g.mem, WrongType, <<>>)
        ELSE R3(UpdateValue(base, k, HashV(r.h)), RInt(r.added),
                [i \in 1..Len(pairs) |-> AofEntry("HSET", k, pairs[i])])

HGetCmd(m, k, f) == ReadCmd(m, k, "hash", RNull, "HGET", f)
HGetAllCmd(m, k) == ReadCmd(m, k, "hash", RArr({}), "HGETALL", NoValue)
HKeysCmd(m, k) == ReadCmd(m, k, "hash", RArr({}), "HKEYS", NoValue)

\* HDEL removes field by field; a non-bulk field returns the error before
\* the loop that logs the removed fields runs.
HDelCmd(m, k, fs) ==
    LET g == GetMut(m, k)
        Del(acc, f) == IF acc.h[f] = NoValue THEN acc
                       ELSE [h |-> [acc.h EXCEPT ![f] = NoValue], dels |-> Append(acc.dels, f)]
        r == FoldLeft(Del, [h |-> g.out.hash, dels |-> <<>>], BulkPrefix(fs))
        m2 == UpdateValue(g.mem, k, HashV(r.h))
    IN  IF g.out = NoValue THEN R3(g.mem, RInt(0), <<>>)
        ELSE IF g.out.type # "hash" THEN R3(g.mem, WrongType, <<>>)
        ELSE IF FirstNonBulk(fs) # 0 THEN R3(m2, RErr("BADARG"), <<>>)
        ELSE R3(m2, RInt(Len(r.dels)),
                [i \in 1..Len(r.dels) |-> AofEntry("HDEL", k, <<r.dels[i]>>)])

\* HINCRBY creates the hash for a missing key before it reads the field.
HIncrByCmd(m, k, f, n) ==
    LET g == GetMut(m, k)
        base == IF g.out = NoValue THEN Set(g.mem, k, HashV(EmptyHash)) ELSE g.mem
        h == IF g.out = NoValue THEN EmptyHash ELSE g.out.hash
        cur == IF h[f] = NoValue THEN 0 ELSE h[f]
    IN  IF ~IsI64(n) THEN R3(m, RErr("BADARG"), <<>>)
        ELSE IF g.out # NoValue /\ g.out.type # "hash" THEN R3(g.mem, WrongType, <<>>)
        ELSE IF ~IsI64(cur) THEN R3(base, RErr("NOTINT"), <<>>)
        ELSE IF cur + n \notin I64 THEN R3(base, RErr("OVERFLOW"), <<>>)
        ELSE R3(UpdateValue(base, k, HashV([h EXCEPT ![f] = cur + n])), RInt(cur + n),
                <<AofEntry("HSET", k, <<f, cur + n>>)>>)

-----------------------------------------------------------------------------
(* admin.rs and search.rs.                                                  *)

InfoCmd(m) ==
    R3(m, RBulk([keys |-> Stats(m).active_keys, expires |-> Stats(m).expired_keys]), <<>>)

FlushDbCmd(m) == R3(Clear(m), ROk, <<>>)

\* CLIENT subcommands are stubs that leave the store alone.
ClientCmd(m, sub) ==
    R3(m, CASE sub \in {"SETNAME", "SETINFO", "REPLY"} -> ROk
            [] sub = "GETNAME" -> RNull
            [] sub = "LIST" -> RBulk("")
            [] sub = "ID" -> RInt(1)
            [] OTHER -> RErr("UNKNOWN"), <<>>)

\* key_str.contains(inner): t occurs in s at some offset.
HasInfix(t, s) == \E i \in 0..(Len(s) - Len(t)) : SubSeq(s, i + 1, i + Len(t)) = t

\* A plausible slip of matches_pattern: the *suffix test comes before the
\* *pattern* test, so "*a*" asks for keys ending in "a*".
MatchesPatternSuffixFirst(key, pattern) ==
    LET n == Len(pattern)
        lead == n > 0 /\ pattern[1] = "*"
        trail == n > 0 /\ pattern[n] = "*"
    IN  CASE pattern = <<"*">> -> TRUE
          [] lead          -> IsSuffix(SubSeq(pattern, 2, n), key)
          [] lead /\ trail -> HasInfix(SubSeq(pattern, 2, n - 1), key)
          [] trail         -> IsPrefix(SubSeq(pattern, 1, n - 1), key)
          [] OTHER         -> key = pattern

\* search.rs matches_pattern, tests in the code's order.  Keys and patterns
\* are ASCII here, so the from_utf8 failures (-> false, and KEYS's
\* "invalid pattern encoding") do not arise.
MatchesPattern(key, pattern) ==
    LET n == Len(pattern)
        lead == n > 0 /\ pattern[1] = "*"
        trail == n > 0 /\ pattern[n] = "*"
    IN  CASE pattern = <<"*">> -> TRUE
          [] lead /\ trail -> HasInfix(SubSeq(pattern, 2, n - 1), key)
          [] lead          -> IsSuffix(SubSeq(pattern, 2, n), key)
          [] trail         -> IsPrefix(SubSeq(pattern, 1, n - 1), key)
          [] OTHER         -> key = pattern

\* KeysCommand::execute: the non-expired keys of store.keys() whose name
\* matches the pattern.
KeysCmd(m, p) == R3(m, RArr({k \in KeysOf(m) : MatchesPattern(KeyName[k], p)}), <<>>)

-----------------------------------------------------------------------------
(* The shard executing requests one at a time (cluster/shard.rs           *)
(* dispatch_command): look the command up, run its handler to completion. *)

VARIABLE durable  \* the store replaying the AOF written so far would rebuild

cvars == <<mem, lastOp, lastKey, lastOut, halted, durable>>

CInit ==
    /\ StoreInit
    /\ durable = [k \in Keys |-> NoValue]

\* Install the result r of command op; a panic halts the shard thread.  The
\* entries the handler wrote reach the file whatever happens after them.
Exec(op, k, r) ==
    /\ op \in CommandSet
    /\ ~halted
    /\ IF Panicked(r) \/ r.out = Panic
          THEN /\ halted' = TRUE /\ lastOut' = Panic
               /\ UNCHANGED mem
          ELSE /\ mem' = r.mem /\ lastOut' = r.out
               /\ UNCHANGED halted
    /\ lastOp' = op /\ lastKey' = k
    /\ durable' = ReplayAll(durable, r.log)

\* Argument lists of one request: 1..MaxArgs arguments over S, plus a
\* non-bulk argument where the run lets clients send one.
NonBulkArgs == IF SendNonBulk THEN {NonBulk} ELSE {}
ArgsOver(S) == BoundedSeq(S \cup NonBulkArgs, MaxArgs) \ {<<>>}
PairArgs == BoundedSeq(Fields \X (SetArgs \cup NonBulkArgs), MaxArgs) \ {<<>>}

\* The key a multi-key request is logged under here: its first argument.
FirstArg(args) == args[1]

ClientSubcommands == {"SETNAME", "GETNAME", "LIST", "SETINFO", "REPLY", "ID", "OTHER"}

\* Time passes for the live store: an instant that was ahead is reached.
\* The step answers no request.  The durable store is rebuilt at replay
\* time, so its instants are always ahead.
CTick(k) ==
    /\ Present(mem, k) /\ mem.store[k].expire_at = "live"
    /\ mem' = [mem EXCEPT !.store[k].expire_at = "past"]
    /\ lastOp' = "tick" /\ lastKey' = k /\ lastOut' = NoValue
    /\ UNCHANGED <<halted, durable>>

CNext ==
    \/ \E k \in Keys :
          \/ \E v \in SetArgs : Exec("SET", k, SetCmd(mem, k, v))
          \/ Exec("GET", k, GetCmd(mem, k))
          \/ \E t \in TtlArgs : Exec("EXPIRE", k, ExpireCmd(mem, k, t))
          \/ \E passes \in BOOLEAN : Exec("TTL", k, TtlCmd(mem, k, passes))
          \/ Exec("INCR", k, IncrCmd(mem, k))
          \/ Exec("DECR", k, DecrCmd(mem, k))
          \/ \E n \in IntArgs : Exec("INCRBY", k, IncrByCmd(mem, k, n))
          \/ \E n \in IntArgs : Exec("DECRBY", k, DecrByCmd(mem, k, n))
          \/ \E vs \in ArgsOver(Members) : Exec("LPUSH", k, Push(mem, k, vs, TRUE))
          \/ \E vs \in ArgsOver(Members) : Exec("RPUSH", k, RPushCmd(mem, k, vs))
          \/ \E a, b \in RangeArgs : Exec("LRANGE", k, LRangeCmd(mem, k, a, b))
          \/ Exec("LLEN", k, LLenCmd(mem, k))
          \/ \E ms \in ArgsOver(Members) : Exec("SADD", k, SAddCmd(mem, k, ms))
          \/ Exec("SMEMBERS", k, SMembersCmd(mem, k))
          \/ Exec("SCARD", k, SCardCmd(mem, k))
          \/ \E ps \in PairArgs : Exec("HSET", k, HSetCmd(mem, k, ps))
          \/ \E f \in Fields : Exec("HGET", k, HGetCmd(mem, k, f))
          \/ Exec("HGETALL", k, HGetAllCmd(mem, k))
          \/ \E fs \in ArgsOver(Fields) : Exec("HDEL", k, HDelCmd(mem, k, fs))
          \/ Exec("HKEYS", k, HKeysCmd(mem, k))
          \/ \E f \in Fields, n \in IntArgs : Exec("HINCRBY", k, HIncrByCmd(mem, k, f, n))
          \/ CTick(k)
    \/ \E args \in ArgsOver(Keys) : Exec("DEL", FirstArg(args), DelCmd(mem, args))
    \/ \E args \in ArgsOver(Keys) : Exec("EXISTS", FirstArg(args), ExistsCmd(mem, args))
    \/ Exec("INFO", NoValue, InfoCmd(mem))
    \/ Exec("FLUSHDB", NoValue, FlushDbCmd(mem))
    \/ \E sub \in ClientSubcommands : Exec("CLIENT", NoValue, ClientCmd(mem, sub))
    \/ \E p \in Patterns : Exec("KEYS", p, KeysCmd(mem, p))

CSpec == CInit /\ [][CNext]_cvars

-----------------------------------------------------------------------------
(* Properties *)

\* A reply record (not the initial NoValue, not a panic).
IsReply(o) == o \notin {NoValue, Panic}
IsErrorOf(o, classes) == IsReply(o) /\ o.t = "err" /\ o.v \in classes

\* A key a client can see: present and its instant not reached.
Visible(s, k) == s[k] # NoValue /\ s[k].expire_at # "past"

\* What a client tells apart in a store map: the values it can see, with an
\* Integer read as its decimal text (replay restores INCR's SET entry as a
\* String, which GET, INCR and the rest treat alike), and whether an
\* expiration is set.
Canon(v) == IF v.type = "integer" THEN StrV(v.str) ELSE v
Observe(s) ==
    [k \in Keys |-> IF Visible(s, k)
                       THEN [value |-> Canon(s[k].value), ttl |-> s[k].expire_at]
                       ELSE NoValue]

\* Durability (spec S5): replaying the AOF the handlers wrote rebuilds the
\* store clients see, key for key, except keys holding lists and sets,
\* whose replay the specification lets an implementation defer.
DurableMatchesStore ==
    ~halted =>
      \A k \in Keys :
         \/ Visible(mem.store, k) /\ mem.store[k].value.type \in {"list", "set"}
         \/ Observe(durable)[k] = Observe(mem.store)[k]

\* A command that answers WRONGTYPE, a value that is not an integer, or an
\* overflow leaves the store and the AOF exactly as they were (spec §7):
\* counter.rs and hash.rs check before they write.
TypedErrorsLeaveStore ==
    [][IsErrorOf(lastOut', {"WRONGTYPE", "NOTINT", "OVERFLOW"})
         => mem' = mem /\ durable' = durable]_cvars

\* Every command error leaves the store as it was (spec §7), including the
\* "Expected bulk string" error a loop over arguments returns midway.
ErrorsLeaveStore ==
    [][IsErrorOf(lastOut', {"WRONGTYPE", "NOTINT", "OVERFLOW", "BADARG", "UNKNOWN"})
         => Observe(mem'.store) = Observe(mem.store)]_cvars

\* Expiry is final (spec §8.7): a key that clients cannot see becomes
\* visible again only through a command that writes a value to that key;
\* EXPIRE, TTL and the reads must not revive an entry whose instant passed.
Writers == {"SET", "INCR", "DECR", "INCRBY", "DECRBY", "LPUSH", "RPUSH", "SADD",
            "HSET", "HINCRBY"}
NoResurrection ==
    [][\A k \in Keys :
         ~Visible(mem.store, k) /\ Visible(mem'.store, k)
            => lastOp' \in Writers /\ lastKey' = k]_cvars

\* The glob-lite of spec §4.4 (KEYS): a pattern is a literal core with an
\* optional leading and trailing "*"; a key matches when it is the core
\* with anything before it only if the pattern starts with "*" and
\* anything after it only if the pattern ends with "*".
ShapeMatches(key, p) ==
    LET lead == Len(p) > 0 /\ p[1] = "*"
        trail == Len(p) > 0 /\ p[Len(p)] = "*"
        core == SubSeq(p, IF lead THEN 2 ELSE 1, IF trail THEN Len(p) - 1 ELSE Len(p))
    IN  \E i, j \in 0..Len(key) :
          /\ i + Len(core) + j = Len(key)
          /\ SubSeq(key, i + 1, i + Len(core)) = core
          /\ (i > 0 => lead) /\ (j > 0 => trail)

\* KEYS answers exactly the keys a client could see before it whose name
\* has the pattern's shape: store.keys() skips expired entries, and
\* matches_pattern's chain of starts_with/ends_with tests picks the shape.
KeysAnswerShape ==
    [][lastOp' = "KEYS" /\ ~halted =>
         lastOut' = RArr({k \in Keys : Visible(mem.store, k) /\ ShapeMatches(KeyName[k], lastKey')})]_cvars
====
