------------------------------ MODULE Cluster ------------------------------
(***************************************************************************)
(* The sharded server, src/cluster/: ClusterManager::execute, the router, *)
(* and each shard's thread (Shard::run_shard_loop).  A connection task    *)
(* routes its request, enqueues it with a oneshot reply sender on the     *)
(* target shard's unbounded inbox, and awaits the reply before it sends   *)
(* anything else (server/connection.rs handle_with_cluster).  A shard     *)
(* takes requests from its inbox in FIFO order and runs each handler of   *)
(* Commands.tla to completion on its private store.                       *)
(*                                                                         *)
(* A handler that panics (a usize or i64 overflow in a debug build)       *)
(* unwinds the shard thread: its receiver is dropped with every request   *)
(* still queued, which drops their oneshot senders; later sends to the    *)
(* closed inbox fail.                                                     *)
(*                                                                         *)
(* The web surface's GET /stats and GET /shards gather statistics shard  *)
(* by shard (get_cluster_stats, get_shard_details): Shard::get_stats      *)
(* puts a oneshot sender on the shard's stats inbox, the loop's other     *)
(* select! branch answers it with store.stats(), and a failed send or a   *)
(* dropped sender counts as a shard of zeros.                             *)
(*                                                                         *)
(* A request is a record [cmd, args]: the command name and the elements   *)
(* after it.  The AOF side of the handlers is modelled in Commands.tla    *)
(* and left out here.                                                     *)
(***************************************************************************)
EXTENDS Naturals, Sequences, SequencesExt

CONSTANTS
    Keys, Values, TtlArgs, UsizeMax, OverflowChecks, NoValue, Panic,
    Members, Fields, MinI64, MaxI64, NotANumber, NonBulk, SetArgs, IntArgs,
    RangeArgs, MaxArgs, SendNonBulk, CommandSet, KeyName, Patterns,
    Clients,    \* the connections
    NumShards,  \* the number of shards
    Route(_),   \* ShardRouter::route_key: SipHash-1-3 of the key mod NumShards
    Requests,   \* the requests clients send
    Dropped,    \* a oneshot receiver whose sender was dropped
    StatsRounds \* the statistics gathers the web surface makes

ASSUME NumShards \in Nat \ {0}

\* The handlers and the store, for one shard's store at a time.
C == INSTANCE Commands WITH
        mem <- NoValue, lastOp <- NoValue, lastKey <- NoValue,
        lastOut <- NoValue, halted <- FALSE, durable <- NoValue

Shards == 0..NumShards - 1

\* Fault variant of RouteOf: the routing key is taken from the last
\* element instead of the second.
RouteOfLast(r) ==
    IF \/ r.args = <<>>
       \/ r.cmd \in {"INFO", "FLUSHDB", "PING"}
       \/ r.args[Len(r.args)] = NonBulk
    THEN 0
    ELSE Route(r.args[Len(r.args)])

\* extract_key_and_route, with execute's default of shard 0: requests
\* without a key argument, INFO, FLUSHDB and PING go to shard 0; any other
\* is routed by its first argument.
RouteOf(r) ==
    IF \/ r.args = <<>>
       \/ r.cmd \in {"INFO", "FLUSHDB", "PING"}
       \/ r.args[1] = NonBulk
    THEN 0
    ELSE Route(r.args[1])

\* Shard::dispatch_command: look the name up in the registry and run the
\* handler on the arguments after it; the sharded path checks no arity.
Dispatch(m, r) ==
    LET a == r.args
    IN  CASE r.cmd = "SET"     -> C!SetCmd(m, a[1], a[2])
          [] r.cmd = "GET"     -> C!GetCmd(m, a[1])
          [] r.cmd = "DEL"     -> C!DelCmd(m, a)
          [] r.cmd = "EXISTS"  -> C!ExistsCmd(m, a)
          [] r.cmd = "EXPIRE"  -> C!ExpireCmd(m, a[1], a[2])
          [] r.cmd = "INCR"    -> C!IncrCmd(m, a[1])
          [] r.cmd = "DECRBY"  -> C!DecrByCmd(m, a[1], a[2])
          [] r.cmd = "LPUSH"   -> C!Push(m, a[1], Tail(a), TRUE)
          [] r.cmd = "LLEN"    -> C!LLenCmd(m, a[1])
          [] r.cmd = "KEYS"    -> C!KeysCmd(m, a[1])
          [] r.cmd = "FLUSHDB" -> C!FlushDbCmd(m)
          [] r.cmd = "INFO"    -> C!InfoCmd(m)
          [] OTHER             -> C!R3(m, C!RErr("UNKNOWN"), <<>>)

\* The handler panicked: a counter overflowed or it computed a Panic.
Panics(x) == C!Panicked(x) \/ x.out = Panic

VARIABLES
    smem,   \* smem[s]: the MemoryStore shard s owns
    alive,  \* alive[s]: shard s's thread is running (its receivers exist)
    inbox,  \* inbox[s]: the clients whose requests wait in s's command inbox
    req,    \* req[c]: the request client c awaits the reply of, or NoValue
    rx,     \* rx[c]: c's oneshot: NoValue (empty), a reply, or Dropped
    reply,  \* reply[c]: the last reply c's connection wrote back
    statsInbox, \* statsInbox[s]: the gatherer's oneshot sender waits in s's stats inbox
    statsRx,    \* the gatherer's oneshot: NoValue, "stats" (a StoreStats), or Dropped
    gather      \* the gather: [phase, at (the shard it is at), done (gathers finished)]

svars == <<statsInbox, statsRx, gather>>
vars == <<smem, alive, inbox, req, rx, reply, statsInbox, statsRx, gather>>

Init ==
    /\ smem = [s \in Shards |-> C!NewStore]
    /\ alive = [s \in Shards |-> TRUE]
    /\ inbox = [s \in Shards |-> <<>>]
    /\ req = [c \in Clients |-> NoValue]
    /\ rx = [c \in Clients |-> NoValue]
    /\ reply = [c \in Clients |-> NoValue]
    /\ statsInbox = [s \in Shards |-> FALSE]
    /\ statsRx = NoValue
    /\ gather = [phase |-> "idle", at |-> 0, done |-> 0]

\* ClusterManager::execute up to the await: route, then send_command.  A
\* closed inbox answers ERR internal error at once.
Send(c, r) ==
    /\ req[c] = NoValue
    /\ LET s == RouteOf(r)
       IN  IF alive[s]
              THEN /\ inbox' = [inbox EXCEPT ![s] = Append(@, c)]
                   /\ req' = [req EXCEPT ![c] = r]
                   /\ UNCHANGED <<smem, alive, rx, reply>>
              ELSE /\ reply' = [reply EXCEPT ![c] = C!RErr("INTERNAL")]
                   /\ UNCHANGED <<smem, alive, inbox, req, rx>>
    /\ UNCHANGED svars

\* Fault variant of Serve: a panic drops only the request in hand; the
\* queued requests keep their senders in a receiver nobody reads.
ServeKeepQueue(s) ==
    /\ alive[s] /\ inbox[s] # <<>>
    /\ LET c == Head(inbox[s])
           x == Dispatch(smem[s], req[c])
       IN  IF Panics(x)
              THEN /\ alive' = [alive EXCEPT ![s] = FALSE]
                   /\ inbox' = [inbox EXCEPT ![s] = Tail(@)]
                   /\ rx' = [rx EXCEPT ![c] = Dropped]
                   /\ UNCHANGED <<smem, req, reply, statsInbox, statsRx, gather>>
              ELSE /\ smem' = [smem EXCEPT ![s] = x.mem]
                   /\ rx' = [rx EXCEPT ![c] = x.out]
                   /\ inbox' = [inbox EXCEPT ![s] = Tail(@)]
                   /\ UNCHANGED <<alive, req, reply, statsInbox, statsRx, gather>>

\* One turn of the shard loop's command branch: receive the oldest
\* request, dispatch it, send the reply on its oneshot.  A panic unwinds
\* the thread, dropping both inboxes and every sender in them.
Serve(s) ==
    /\ alive[s] /\ inbox[s] # <<>>
    /\ LET c == Head(inbox[s])
           x == Dispatch(smem[s], req[c])
       IN  IF Panics(x)
              THEN /\ alive' = [alive EXCEPT ![s] = FALSE]
                   /\ inbox' = [inbox EXCEPT ![s] = <<>>]
                   /\ rx' = [d \in Clients |->
                               IF d \in ToSet(inbox[s]) THEN Dropped ELSE rx[d]]
                   /\ statsInbox' = [statsInbox EXCEPT ![s] = FALSE]
                   /\ statsRx' = IF statsInbox[s] THEN Dropped ELSE statsRx
                   /\ UNCHANGED <<smem, req, reply, gather>>
              ELSE /\ smem' = [smem EXCEPT ![s] = x.mem]
                   /\ rx' = [rx EXCEPT ![c] = x.out]
                   /\ inbox' = [inbox EXCEPT ![s] = Tail(@)]
                   /\ UNCHANGED <<alive, req, reply, statsInbox, statsRx, gather>>

\* The rest of execute: rx.await returns the reply, or ERR shard did not
\* respond when the sender was dropped; the connection writes it back.
Await(c) ==
    /\ req[c] # NoValue /\ rx[c] # NoValue
    /\ reply' = [reply EXCEPT ![c] =
                   IF rx[c] = Dropped THEN C!RErr("NORESPONSE") ELSE rx[c]]
    /\ req' = [req EXCEPT ![c] = NoValue]
    /\ rx' = [rx EXCEPT ![c] = NoValue]
    /\ UNCHANGED <<smem, alive, inbox>> /\ UNCHANGED svars

\* Time reaches an expiration instant in a shard's store.
Elapse(s, k) ==
    /\ smem[s].store[k] # NoValue /\ smem[s].store[k].expire_at = "live"
    /\ smem' = [smem EXCEPT ![s].store[k].expire_at = "past"]
    /\ UNCHANGED <<alive, inbox, req, rx, reply>> /\ UNCHANGED svars

\* GET /stats (stats_handler_cluster) or GET /shards (shard_stats_handler)
\* calls get_cluster_stats or get_shard_details, which visit the shards in
\* order; one gather runs at a time.
StartGather ==
    /\ gather.phase = "idle" /\ gather.done < StatsRounds
    /\ gather' = [gather EXCEPT !.phase = "send", !.at = 0]
    /\ UNCHANGED <<smem, alive, inbox, req, rx, reply, statsInbox, statsRx>>

\* The loop's bookkeeping after a shard: its counts are added (get_cluster_
\* stats) or listed (get_shard_details), then on to the next shard, or the
\* result is returned after the last.  The counts are reads of the store
\* that no property here tells apart.
NextShard(g) ==
    IF g.at + 1 = NumShards
       THEN [g EXCEPT !.phase = "idle", !.at = 0, !.done = @ + 1]
       ELSE [g EXCEPT !.phase = "send", !.at = @ + 1]

\* Shard::get_stats up to the await: send a oneshot sender on the stats
\* inbox.  When the shard thread is gone its receiver is dropped, the send
\* fails, and the shard counts as zeros.
StatsSend ==
    /\ gather.phase = "send"
    /\ IF alive[gather.at]
          THEN /\ statsInbox' = [statsInbox EXCEPT ![gather.at] = TRUE]
               /\ gather' = [gather EXCEPT !.phase = "wait"]
          ELSE /\ gather' = NextShard(gather)
               /\ UNCHANGED statsInbox
    /\ UNCHANGED <<smem, alive, inbox, req, rx, reply, statsRx>>

\* The shard loop's stats branch: store.stats() sent back on the oneshot.  select! takes this branch or the
\* command branch when both inboxes hold something.
ServeStats(s) ==
    /\ alive[s] /\ statsInbox[s]
    /\ statsInbox' = [statsInbox EXCEPT ![s] = FALSE]
    /\ statsRx' = "stats"
    /\ UNCHANGED <<smem, alive, inbox, req, rx, reply, gather>>

\* A plausible slip of get_stats: rx.await waits for a StoreStats and has
\* no arm for a dropped sender.
StatsAwaitOkOnly ==
    /\ gather.phase = "wait" /\ statsRx \notin {NoValue, Dropped}
    /\ gather' = NextShard(gather)
    /\ statsRx' = NoValue
    /\ UNCHANGED <<smem, alive, inbox, req, rx, reply, statsInbox>>

\* The rest of get_stats: rx.await.unwrap_or_else turns a dropped sender
\* (the shard died with the request queued) into zeros.
StatsAwait ==
    /\ gather.phase = "wait" /\ statsRx # NoValue
    /\ gather' = NextShard(gather)
    /\ statsRx' = NoValue
    /\ UNCHANGED <<smem, alive, inbox, req, rx, reply, statsInbox>>

Next ==
    \/ \E c \in Clients : \/ \E r \in Requests : Send(c, r)
                          \/ Await(c)
    \/ \E s \in Shards : \/ Serve(s)
                         \/ ServeStats(s)
                         \/ \E k \in Keys : Elapse(s, k)
    \/ StartGather \/ StatsSend \/ StatsAwait

\* Each shard thread runs only its loop, on a current-thread runtime, so a
\* request in its inbox is eventually received; a connection task whose
\* oneshot is ready is eventually polled.  A request in the stats inbox
\* stays receivable until select! takes it, and the web handler's task is
\* polled while it gathers.  Clients and the admin need not send.
Spec ==
    /\ Init /\ [][Next]_vars
    /\ \A s \in Shards : WF_vars(Serve(s)) /\ WF_vars(ServeStats(s))
    /\ \A c \in Clients : WF_vars(Await(c))
    /\ WF_vars(StatsSend) /\ WF_vars(StatsAwait)

-----------------------------------------------------------------------------
(* Properties *)

\* Every request a connection sends is answered, even when a handler
\* panics and its shard thread dies with requests still in its inbox:
\* dropping the inbox drops their oneshot senders, and execute turns that
\* into ERR shard did not respond.
EveryRequestAnswered ==
    \A c \in Clients : req[c] # NoValue ~> req[c] = NoValue

\* Every statistics gather of the web surface returns, having visited
\* every shard, even when a shard thread panics before or while its stats
\* request waits: a failed send and a dropped oneshot sender both read as
\* zeros, so get_cluster_stats never waits on a dead shard.
EveryGatherFinishes ==
    \A n \in 0..StatsRounds - 1 :
        gather.phase # "idle" /\ gather.done = n ~> gather.done = n + 1

\* The single-store semantics the shards are measured against.
AbsHandle(kv, r) ==
    LET x == Dispatch([store |-> kv, total_keys |-> 0, expired_keys |-> 0], r)
    IN  [store |-> x.mem.store, out |-> x.out]

\* Each key lives in the store of the shard it routes to.
Abs == INSTANCE Atomic WITH
        kv <- [k \in Keys |-> smem[Route(k)].store[k]],
        pending <- req,
        answer <- [c \in Clients |-> IF rx[c] \in {NoValue, Dropped}
                                        THEN NoValue ELSE rx[c]],
        reply <- reply,
        Handle <- AbsHandle

\* The sharded server is linearizable with respect to one store: routing,
\* the per-shard FIFO inboxes and the oneshot replies make every request
\* take effect atomically between its send and its reply, with the reply a
\* single store would give (spec §5: per-shard total order, commands see
\* the store atomically; §8 item 6: no lost INCR).
Linearizable == Abs!ASpec
=============================================================================
