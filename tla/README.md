# TLA+ models of ferrumdb

This directory holds TLA+ models of ferrumdb, a Redis-compatible key-value
server written in Rust (`src/src/`). TLC checks them. The models follow the
code, not the spec (`spec.md`). Where the two disagree, a run shows the
disagreement and `PROJECT.json` records it under "findings".

## The system

A request travels through these parts:

1. **The connection** (`server/connection.rs`) reads bytes from a TCP socket.
   **The RESP2 codec** (`protocol/resp.rs`) parses them into arrays.
2. **The cluster manager** (`cluster/mod.rs`) routes each command by its
   first key, using `cluster/router.rs`, to one of N **shards**. It sends the
   command over the shard's inbox and awaits a oneshot reply.
3. **A shard** (`cluster/shard.rs`) is a single thread. It owns a
   `CommandContext` (`commands/context.rs`), which holds a **MemoryStore**
   (`store/`) and an optional **AOF writer** (`aof/writer.rs`). It runs one
   command at a time, to completion.
4. **Each command** (`commands/*.rs`) changes the store. Some commands then
   append an `AofEntry` to the AOF.
5. At start-up, **`replay_entries`** (`aof/replay.rs`) rebuilds a store from
   the AOF. The single-node server (`server::run`) does this in
   `Dispatcher::with_aof` (`dispatch/mod.rs`): it loads the file, parses it
   with `AofReader::parse_entries`, replays what parsed, and then opens the
   same file for append. A shard (`Shard::new`) loads and parses its file
   but skips the replay.
6. **The web surface** (`web/`) serves `GET /stats` and `GET /shards`. Both
   ask every shard in turn for `store.stats()` over a second, stats inbox
   that the shard loop's `select!` serves beside its command inbox.

## Modules

| module | models | state | actions |
|---|---|---|---|
| `KV.tla` | The abstract contract of a store: a map from key to value with an optional TTL, and the answer of each operation. | `kv`, `lastOp`, `lastKey`, `lastOut` | one per MemoryStore method |
| `Store.tla` | `store/memory.rs` and `store/entry.rs`. | `mem` = the HashMap plus `total_keys` and `expired_keys` (usize), `halted` (the shard thread panicked) | `DoSet` … `DoStats`, one per method; `Tick` (the clock passes an instant) |
| `Commands.tla` | Every handler in `commands/`, plus `replay_entry` and `replay_entries`. | Store's variables plus `durable` (what a replay of the AOF written so far rebuilds) | one disjunct of `CNext` per registered command; `CTick` |
| `Atomic.tla` | The abstract contract of the sharded server: ONE store in which each request takes effect atomically between its send and its reply. | `kv`, `pending`, `answer`, `reply` | `Submit`, `Apply`, `Receive`, `Elapse` |
| `Cluster.tla` | `cluster/mod.rs` (`execute`, `extract_key_and_route`, `get_cluster_stats`, `get_shard_details`), `cluster/router.rs`, both branches of `Shard::run_shard_loop` and `Shard::get_stats`, running the handlers of `Commands.tla` on per-shard stores; the stats handlers of `web/handlers.rs` start a gather. | `smem`, `alive` (the shard thread runs), `inbox` (per-shard FIFO of clients), `req`, `rx` (each client's oneshot), `reply`, `statsInbox`, `statsRx`, `gather` | `Send`, `Serve`, `Await`, `Elapse`, `StartGather`, `StatsSend`, `ServeStats`, `StatsAwait` |
| `Resp.tla` | `protocol/resp.rs` (parser and encoder), `Connection::handle_with_cluster`, and `Connection::handle` with `Dispatcher::dispatch`. | `segs` (what the client writes), `pos`, `rbuf` (read_buffer), `out`, `wire` (bytes written back), `conn`, `frontend` (which of the two loops) | `Read(n)`, `Eof` |
| `Aof.tla` | `aof/writer.rs`, `aof/reader.rs`, `AofEntry::from_bytes`, the SET and DEL arms of `replay_entry`, `Dispatcher::with_aof` and the AOF start-up of `Shard::new`, with a crash model. | `mode`, `policy`, `up`, `mem`, `file` (frames, each whole or torn), `synced` (the durable prefix), `elapsed` (a second since `last_sync`), `pending`, `acked` (ids of answered entries), `next`, `crashes` | `Set`, `Del` (through `WriteAll`), `Reply`, `Tick`, `Writeback`, `Crash`, `Restart`, `ShardRestart` |
| `MCStore.tla`, `MCCommands.tla`, `MCCluster.tla`, `MCResp.tla`, `MCAof.tla` | TLC instances: constants and state bounds. | | |

### How the models correspond to the code

**Store operations.** Every store operation is an operator from a store to
`[mem, out]`.

- The "lazy expiry" prologue of `get`, `get_mut`, `exists`, `expire` and
  `ttl` is `EvictExpired`. It is written once and called by each of them, as
  the code does.
- The clock is abstracted to where an instant stands relative to now:
  `none`, `live` or `past`.
- `ttl` reads the clock twice, once in `is_expired` and once in
  `ttl_seconds`. Its parameter `passes` is the instant passing between the
  two reads.
- `usize` is scaled to 0..15. `OverflowChecks` selects the build:
  - TRUE is a debug build, where overflow panics and halts the shard;
  - FALSE is a release build, where the arithmetic wraps.

**Command handlers.** Each handler is one operator returning `[mem, out, log]`.

- The operator chains the store calls in the code's order, including every
  early return. That covers errors raised after a partial mutation (`LPUSH`,
  `SADD`, `DEL`, `HDEL`) and the position of the `log_to_aof` call
  (`SET` logs before it mutates; the others log after).
- Values:
  - Values are a single record shape, with a `type` tag.
  - Byte strings are abstracted to the i64 text they parse as, or
    `NotANumber`.
  - i64 is scaled to -4..3, so overflow is reached within a few steps.
- Keys are model values with a name (`KeyName`, a short string). `KEYS`
  runs `MatchesPattern`, the chain of tests of `matches_pattern` in the
  code's order, on those names.
- Replies are records `[t, v]`. Errors carry a class (`WRONGTYPE`, `NOTINT`,
  `OVERFLOW`, `BADARG`, `UNKNOWN`) instead of their text.

**Execution.** `Exec` is `Shard::dispatch_command`. It applies a handler's
result, halts on a panic, and folds the entries the handler logged into
`durable` with `ReplayAll`. Keeping `durable` folded, rather than keeping the
log itself, keeps the state space finite.

**Cluster.** `Send` is `execute` up to the await: it routes with `RouteOf`
and appends to the shard's unbounded inbox, or answers "ERR internal error"
at once when the shard thread is gone. `Serve` is one turn of the shard loop's
command branch. It runs `Dispatch` (`dispatch_command`) to completion. If the
handler panics (a debug-build overflow), the thread unwinds and drops
`command_rx` with every queued request, so their oneshots become `Dropped`.
`Await` is `rx.await`; a `Dropped` oneshot gives "ERR shard did not respond".
The statistics gather is `StartGather` (a `GET /stats` or `GET /shards`),
then per shard `StatsSend` (`get_stats` sends a oneshot sender on the stats
inbox, or counts zeros when the send fails on a dead shard), `ServeStats`
(the loop's stats branch) and `StatsAwait` (`unwrap_or_else` turns a dropped
sender into zeros). A panic in `Serve` drops the stats inbox too. The counts
themselves are reads that no property tells apart, so the model keeps only
that an answer arrived.
`Route` is a constant standing for SipHash-1-3 mod N. The MC module routes
the two keys to different shards. `Linearizable` maps the shards to one store
(each key taken from the shard it routes to) and checks `Atomic!ASpec`.

**Resp.** Bytes are one-character strings, with `CR` and `LF`. Every parser
function is an operator from a buffer to `[k, v, rest, why]`. `rest` is the
buffer the function leaves behind, including on errors:
- `parse_integer` consumes its line before failing;
- `parse_bulk_string` consumes the header and payload before failing on a
  missing CRLF;
- `parse_array` probes a clone and leaves the real buffer untouched.

`Read(n)` is one `read_buf` of n bytes followed by the inner loop
(`ParseLoop`): decode frames, answer each with `Answer`, and stop at the
first incomplete frame or after answering a protocol error. `Execute` keeps
`dispatch_command`'s format and registry checks, including the unknown name
copied into the error text. The handlers behind it are abstracted to one reply
per registered name. `Cluster.tla` models them. `frontend` picks the loop: `handle_with_cluster`
answers with `Execute`, while `handle` answers with `Dispatch`
(`Dispatcher::dispatch`). `Dispatch` has its own error texts and checks
`min_args`/`max_args` (`Arity`) before the handler runs. Both runs of
`Resp.tla` check both loops.

**Aof.** The file is a sequence of frames, one per `AofEntry::to_bytes`.
`FromBytes` decodes a whole frame and fails on a torn one, and
`ParseEntries` stops at the first failure, as `parse_entries` does.
- A handler is two steps. `WriteAll` is `write_all`: the frame reaches the
  page cache. `Reply` is the rest: the sync policy (`SyncPolicyStep`), the
  handler's store change, and the answer. A crash between them is a crash
  between `write_all` and `sync_all`.
- `synced` is the prefix made durable, by `sync_all` or by the kernel's own
  `Writeback`. `Tick` is a second passing, which is what `EverySecond` tests.
- `Crash` is either a process crash, which keeps the page cache and so the
  whole file, or a power cut. A power cut keeps some length at least
  `synced`, and its "torn" variant cuts the last kept unsynced frame short.
- `Restart` is `with_aof`: replay what parses, then append with no
  truncation. `ShardRestart` is the shard path: an empty store, forced
  `EverySecond`, and append.

## Runs

The release runs use `OverflowChecks = FALSE`. Every passing run fires every
action of its spec.

| run | expect | what it shows |
|---|---|---|
| store_release | pass | The store refines `KV` (`ImplementsKV`): lazy expiry is invisible, and every answer agrees with the abstract map. `total_keys` never falls behind the map. |
| commands_errors | pass | All 27 commands, with malformed arguments, run against one key. Three checks hold: WRONGTYPE, not-an-integer and overflow errors change neither the store nor the AOF; an expired key never becomes visible again except through a write to that key; and `KEYS` answers exactly the visible keys whose name has the pattern's shape as spec §4.4 describes it (`KeysAnswerShape`, against the reference `ShapeMatches`). |
| commands_durable | pass | Spec §5 (S5) holds for the commands that log: on two keys, replaying the AOF gives the store clients see. |
| durable_unlogged | violation | Some store changes reach no AOF entry: `INCRBY`, `DECR` and `DECRBY`, `FLUSHDB`, and a key's lazy expiry. A replay then rebuilds a different store. For example, after `SET; FLUSHDB` the key comes back, and a key whose TTL elapsed is revived with a fresh TTL. |
| error_atomicity | violation | Spec §7: `LPUSH k <integer>` creates the list and then returns an error. `HDEL` with a non-bulk field likewise removes the earlier fields, and also never logs them. |
| cluster_linearizable | pass | Two clients and two shards refine one atomic store. Interleaved INCRs are never lost, and every reply is one a single store would give (spec §5, §8.6). |
| cluster_panic | pass | A debug-build `DECRBY` overflow panics a shard while another request, or the web surface's stats request, waits in its inbox. Every request is still answered: "shard did not respond" or "internal error" (`EveryRequestAnswered`). Every statistics gather returns, having visited every shard (`EveryGatherFinishes`). |
| cluster_routing | violation | `FLUSHDB` goes to shard 0, as spec §4.5 prescribes, and clears only that store while answering OK; the spec never says so (§9 names only multi-key commands as a cross-shard gap). `KEYS *` is routed by the hash of `*` and lists one shard's keys. |
| resp_pipeline | pass | The byte stream may be split into reads of 1 to 4 bytes in any way. Pipelined frames of every RESP type (binary bulk strings holding CRLF, empty ones, nested arrays, null, integers) are each decoded once, in order, and never before complete. Every reply is framed as exactly one RESP value (spec §8.1, §8.2), including the error for the unknown name `q`. No run sends a name holding CR or LF (see below). |
| resp_poisoned | violation | After one stray byte, every read is answered with the same protocol error, and the next well-formed request is never answered (spec §7). |
| aof_recovery | pass | It covers every sync policy, both start-up paths, process crashes, and power cuts that keep whole frames. Under `Always`, every answered write lies in the durable part of the file that the reader decodes (`AckedDurable`), across any sequence of crashes and restarts. |
| aof_torn_tail | violation | Under `Always`, a power cut tears the frame being written. `with_aof` replays the prefix before it and appends behind the torn bytes. A later `SET`, answered after `sync_all`, is never read back: the reader stops at the torn frame. |

Each property of a passing run is paired with a mutant in `PROJECT.json`: a
plausible bug in the mapped code that makes the run fail.

## Bounds

- **Keys.** Two keys where keys interact (the store, durability). One key for
  the all-commands run: every handler touches a single key, so a second key
  only multiplies the states.
- **usize.** 0..15. The counters grow without bound (evictions never
  decrement `total_keys`), so a `CONSTRAINT` keeps them within `CounterCap` of
  zero or of the wrap point. The underflow is still reached, but no property
  of a passing run is about it (see below).
- **i64.** -4..3. This contains both extremes, and `INCR`/`DECR`/`INCRBY`
  reach them in a few steps.
- **Cluster.** Two clients and two shards, with keys `k1` and `k2` routed
  apart. That is the least that shows cross-shard routing and two requests
  racing on one shard. Each request set contains the command under test (INCR
  races, the panicking DECRBY, FLUSHDB, KEYS) together with the requests that
  observe it. The panic run makes up to one statistics gather
  (`StatsRounds`), enough to reach a shard that dies before the send and one
  that dies with the stats request queued; the other cluster runs make none.
- **Resp.** Four pipelined client scenarios with reads of up to 4 bytes. Every
  frame in them (at most 18 bytes) is split at every position, both inside
  its header and inside its payload.
- **Aof.** One key and two values; at most 4 entries written and 2 crashes
  per behaviour (a `CONSTRAINT`). The torn-tail loss needs one crash, one
  restart and one write after it.
- **Collections.** Lists hold at most 2 elements. Set members are one value
  and hash fields are one field, which is enough for type and partial-failure
  cases. Arguments are sequences of at most 2. A second `LRANGE` run takes
  every index from -4 to 3.
- **KEYS patterns.** Key names "ba" (and "ab" for the second key); six
  patterns, one of each shape of `matches_pattern`, including `*a*`, which
  has both a leading and a trailing star.

## Fairness

`Cluster.Spec` assumes weak fairness of `Serve(s)` and of `Await(c)`:
- each shard thread runs only its own loop on a current-thread runtime, so a
  non-empty inbox is eventually served;
- tokio eventually polls a connection task whose oneshot is ready.

It also assumes weak fairness of `ServeStats(s)`, `StatsSend` and
`StatsAwait`: a stats request stays receivable until the loop's `select!`
takes it (tokio picks a ready branch at random, so a branch that stays ready
is taken), and the web handler's task is polled while it gathers.

`Send` and `StartGather` have no fairness, because clients and the admin need
not send. `EveryRequestAnswered` and `EveryGatherFinishes` depend on exactly
these assumptions. The other specs check safety only. `Aof.Spec` has no fairness: crashes,
writes and the passing of time are all optional.

## Not modelled yet

- **AOF write failures.** Spec §7 makes a failed AOF write only a warning, with
  the reply unchanged, so answering an unlogged write is intended. A short
  `write_all` leaves the same torn frame as `aof_torn_tail`, only in the
  middle of the file.
- **AOF operations other than SET and DEL in `Aof.tla`.** The other
  operations differ only in the store change. `Commands.tla` replays all of
  them.
- **`AofWriter::sync` and `flush`.** Only tests call them.
- **A snapshot of the statistics.** `get_cluster_stats` reads the shards one
  after another while commands keep running, so its total need not be the key
  count of any instant, and a dead shard reads as an empty one. Spec §6 asks
  for an aggregate only, so no property states either; both are hazards.
- **Resource limits in the parser.** The declared bulk length and array count
  are unbounded. A finite model cannot show unbounded buffer growth.
- **Two more defects without a run.** Both were found while modelling:
  - `SET; EXPIRE; (time passes); DEL` underflows `expired_keys` at
    `memory.rs:101`, which panics a debug build;
  - an unknown command name containing CRLF is echoed unescaped in the error
    reply (`shard.rs:251`), so the client decodes two replies.

  Both are listed as hazards. A bound on `expired_keys` would be violated,
  not pass, and `resp_pipeline` sends only the name `q`, which frames.
- **Two numeric defects without a run.** `DECRBY k i64::MIN` on a missing
  key overflows at `counter.rs:281`: `cluster_panic` covers the debug-build
  panic, but the release build's answer of i64::MIN is not checked. `LRANGE k 0 -2` on a one-element list
  answers the element, because of the usize wrap at `list.rs:162`. Both are
  listed as hazards in `PROJECT.json`.
- **Multi-key commands.** Routing DEL/EXISTS by their first key is documented
  behaviour (spec §4.5), so no property is stated against it.

These parts are left out altogether:

- `POST /command` of the web surface: it splits the text on whitespace and
  calls `cluster.execute` like a connection would; the split and the display
  formatting are not modelled, and the single-node handlers are not wired up
  by `main`;
- `main.rs`;
- the byte layout and xxhash checksum of AOF entries;
- the text of replies and of `INFO` (error texts are abstracted to short codes, except where client bytes are copied into them);
- UTF-8 validation in the parser (model bytes are all ASCII);
- the case-insensitive lookup of command names;
- UTF-8 failures in `KEYS` (model key names and patterns are ASCII).
