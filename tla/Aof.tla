-------------------------------- MODULE Aof --------------------------------
(***************************************************************************)
(* The append-only file of one store: the handlers that log a mutation    *)
(* (SET and DEL through log_to_aof), AofWriter::write with its three sync *)
(* policies, AofReader::parse_entries with AofEntry::from_bytes, the      *)
(* replay of replay_entries, and the two start-up paths: the single-node  *)
(* Dispatcher::with_aof (replay, then open for append) and the sharded    *)
(* Shard::new (open for append, replay skipped).                          *)
(*                                                                         *)
(* The file is a sequence of frames, one per AofEntry::to_bytes; a frame  *)
(* is whole, or torn when a power cut kept only part of its bytes.        *)
(* `synced` is the length of the prefix sync_all has made durable; what   *)
(* lies past it is in the page cache only.  A process crash keeps the     *)
(* page cache, a power cut keeps the file up to some length >= synced.    *)
(***************************************************************************)
EXTENDS Naturals, Sequences, SequencesExt, FiniteSets

CONSTANTS
    Keys, Vals, NoValue,
    Policies,     \* the SyncPolicy values an AofConfig may carry
    Modes,        \* "single" (server::run) and/or "sharded" (Shard::new)
    CrashKinds    \* subset of {"process", "power", "power_torn"}

VARIABLES
    mode,     \* which start-up path the process takes
    policy,   \* AofWriter.sync_policy
    up,       \* the process is running
    mem,      \* the MemoryStore: key -> value, NoValue when absent
    file,     \* the bytes of the AOF, as frames
    synced,   \* frames made durable by sync_all or the OS writeback
    elapsed,  \* last_sync.elapsed() >= 1s
    pending,  \* <<frame>> while a handler is between write_all and its reply
    acked,    \* ids of the entries whose command was answered
    next,     \* id of the next entry
    crashes   \* crashes so far, for the bound of a model

vars == <<mode, policy, up, mem, file, synced, elapsed, pending, acked, next, crashes>>

Entry == [op : {"Set"}, key : Keys, val : Vals] \cup [op : {"Del"}, key : Keys, val : {NoValue}]
Frame == [id : Nat \ {0}, e : Entry, whole : BOOLEAN]
EmptyStore == [k \in Keys |-> NoValue]

(* AofEntry::from_bytes at the frame level: a whole frame decodes to its  *)
(* entry; a torn one fails a length or the checksum test.  Read at the    *)
(* start of a torn frame the bytes that follow it belong to the next      *)
(* frame, so the checksum fails there as well.                            *)
FromBytes(f) == IF f.whole THEN [ok |-> TRUE, frame |-> f] ELSE [ok |-> FALSE]

(* AofReader::parse_entries: decode frames in order and stop at the first *)
(* that fails, returning the prefix decoded so far.                       *)
RECURSIVE ParseEntries(_)
ParseEntries(data) ==
    IF data = <<>> THEN <<>>
    ELSE LET r == FromBytes(Head(data))
         IN IF r.ok THEN <<r.frame>> \o ParseEntries(Tail(data)) ELSE <<>>

(* replay_entry for the two operations SET and DEL log. *)
ReplayEntry(s, f) ==
    IF f.e.op = "Set" THEN [s EXCEPT ![f.e.key] = f.e.val]
    ELSE [s EXCEPT ![f.e.key] = NoValue]

(* replay_entries: apply every entry in order (neither operation fails). *)
ReplayEntries(s, frames) == FoldLeft(ReplayEntry, s, frames)

Ids(frames) == {frames[i].id : i \in 1..Len(frames)}

-----------------------------------------------------------------------------
Init ==
    /\ mode \in Modes
    /\ policy \in IF mode = "sharded" THEN {"EverySecond"} ELSE Policies
    /\ up = TRUE
    /\ mem = EmptyStore
    /\ file = <<>>
    /\ synced = 0
    /\ elapsed = FALSE
    /\ pending = <<>>
    /\ acked = {}
    /\ next = 1
    /\ crashes = 0

(* log_to_aof -> AofWriter::write up to file.write_all: the frame is in   *)
(* the page cache.  The dispatcher's mutex serialises handlers.           *)
WriteAll(e) ==
    /\ up /\ pending = <<>>
    /\ LET f == [id |-> next, e |-> e, whole |-> TRUE]
       IN /\ file' = Append(file, f)
          /\ pending' = <<f>>
    /\ next' = next + 1
    /\ UNCHANGED <<mode, policy, up, mem, synced, elapsed, acked, crashes>>

(* SetCommand::execute logs the entry, then sets the value. *)
Set(k, v) == WriteAll([op |-> "Set", key |-> k, val |-> v])

(* DelCommand::execute deletes a present key, then logs a Del entry.  *)
(* Here the entry is written first and the delete applied at Reply; a  *)
(* crash between the two loses the in-memory store either way.        *)
Del(k) == mem[k] # NoValue /\ WriteAll([op |-> "Del", key |-> k, val |-> NoValue])

(* A plausible slip of the sync policy: Always shares the once-a-second *)
(* test of EverySecond.                                                 *)
SyncPolicyStepLazy ==
    CASE policy \in {"Always", "EverySecond"} /\ elapsed -> synced' = Len(file) /\ elapsed' = FALSE
      [] OTHER -> UNCHANGED <<synced, elapsed>>

(* The rest of AofWriter::write (the sync policy), the store mutation of  *)
(* the handler, and the reply.                                           *)
SyncPolicyStep ==
    CASE policy = "Always" -> synced' = Len(file) /\ UNCHANGED elapsed
      [] policy = "EverySecond" /\ elapsed -> synced' = Len(file) /\ elapsed' = FALSE
      [] OTHER -> UNCHANGED <<synced, elapsed>>

(* The handler's own store mutation: store.set for SET, store.delete *)
(* for DEL.                                                           *)
HandlerEffect(s, f) == [s EXCEPT ![f.e.key] = f.e.val]

Reply ==
    /\ up /\ pending # <<>>
    /\ SyncPolicyStep
    /\ mem' = HandlerEffect(mem, pending[1])
    /\ acked' = acked \cup {pending[1].id}
    /\ pending' = <<>>
    /\ UNCHANGED <<mode, policy, up, file, next, crashes>>

(* A second of wall-clock time passes: last_sync.elapsed() reaches 1s. *)
Tick == up /\ ~elapsed /\ elapsed' = TRUE
        /\ UNCHANGED <<mode, policy, up, mem, file, synced, pending, acked, next, crashes>>

(* The kernel writes dirty pages back on its own. *)
Writeback ==
    /\ synced < Len(file)
    /\ synced' \in synced + 1 .. Len(file)
    /\ UNCHANGED <<mode, policy, up, mem, file, elapsed, pending, acked, next, crashes>>

(* The process dies.  A process crash keeps the whole file; a power cut  *)
(* keeps n >= synced frames, and with "power_torn" the last kept frame,  *)
(* if it was not durable, may be cut short.                              *)
Crash(kind, n, torn) ==
    /\ up
    /\ kind \in CrashKinds
    /\ IF kind = "process"
         THEN n = Len(file) /\ ~torn /\ file' = file /\ synced' = synced
         ELSE /\ n \in synced .. Len(file)
              /\ (torn => kind = "power_torn" /\ n > synced)
              /\ file' = IF torn THEN [SubSeq(file, 1, n) EXCEPT ![n].whole = FALSE]
                                 ELSE SubSeq(file, 1, n)
              /\ synced' = n
    /\ up' = FALSE
    /\ pending' = <<>>
    /\ crashes' = crashes + 1
    /\ UNCHANGED <<mode, policy, mem, elapsed, acked, next>>

(* Dispatcher::with_aof: load and parse the file, replay what parsed into *)
(* a fresh store, then AofWriter::new opens the same file for append      *)
(* (create, append, no truncation) and resets last_sync.                  *)
Restart ==
    /\ ~up /\ mode = "single"
    /\ mem' = ReplayEntries(EmptyStore, ParseEntries(file))
    /\ up' = TRUE /\ elapsed' = FALSE
    /\ UNCHANGED <<mode, policy, file, synced, pending, acked, next, crashes>>

(* Shard::new: load and parse the file, open the writer for append with  *)
(* SyncPolicy::EverySecond, and skip the replay: the store starts empty. *)
ShardRestart ==
    /\ ~up /\ mode = "sharded"
    /\ mem' = EmptyStore
    /\ up' = TRUE /\ elapsed' = FALSE
    /\ UNCHANGED <<mode, policy, file, synced, pending, acked, next, crashes>>

Next ==
    \/ \E k \in Keys, v \in Vals : Set(k, v)
    \/ \E k \in Keys : Del(k)
    \/ Reply
    \/ Tick
    \/ Writeback
    \/ \E kind \in CrashKinds, n \in 0..Len(file), torn \in BOOLEAN : Crash(kind, n, torn)
    \/ Restart
    \/ ShardRestart

Spec == Init /\ [][Next]_vars

-----------------------------------------------------------------------------
(* With SyncPolicy::Always an answered write is durable: every entry a    *)
(* client was answered for lies in the synced part of the file within the *)
(* prefix parse_entries decodes, so no crash and restart can lose it.     *)
AckedDurable ==
    policy = "Always" => acked \subseteq Ids(ParseEntries(SubSeq(file, 1, synced)))

=============================================================================
