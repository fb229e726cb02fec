-------------------------------- MODULE Resp --------------------------------
(***************************************************************************)
(* The RESP2 codec (src/protocol/resp.rs) and the connection loop that    *)
(* drives it (src/server/connection.rs): handle_with_cluster, which       *)
(* sends each frame to the cluster, and handle, which runs it through the *)
(* single-node Dispatcher::dispatch.                                       *)
(*                                                                         *)
(* Bytes are strings of one character, with "CR" and "LF" for \r and \n;  *)
(* a buffer is a sequence of bytes.  Each parse function is an operator   *)
(* from the buffer to a result [k, v, rest, why]: k is "ok" (a value v    *)
(* was decoded), "none" (more bytes needed) or "err" (a protocol error    *)
(* whose message is why); rest is the buffer the function leaves behind,  *)
(* which may have been advanced even when it fails, as in the code.       *)
(*                                                                         *)
(* The client writes a scenario: a sequence of segments, each the         *)
(* encoding of a request or a run of malformed bytes.  The socket hands   *)
(* them to the server in chunks of any size up to MaxChunk.  The cluster  *)
(* behind execute is reduced to its registry lookup (Cluster.tla models   *)
(* the rest): it answers a registered name with the handler's reply and   *)
(* any other with the error text shard.rs formats around the name.        *)
(***************************************************************************)
EXTENDS Integers, Sequences, SequencesExt

CONSTANTS
    Scenarios,  \* the segment sequences a client may write
    MaxChunk,   \* the most bytes one read_buf returns
    Known,      \* registered command names (byte sequences) -> their reply
    Arity,      \* registered name -> [min |-> min_args, max |-> max_args or -1 for None]
    Frontends   \* the connection loops a server may run

CR == "CR"
LF == "LF"
CRLF == <<CR, LF>>
Digits == <<"0", "1", "2", "3", "4", "5", "6", "7", "8", "9">>

-----------------------------------------------------------------------------
(* protocol/types.rs: RespValue, one record shape for every variant.      *)

RV(t, s, n, a) == [t |-> t, s |-> s, n |-> n, a |-> a]
SimpleV(s) == RV("simple", s, 0, <<>>)
ErrorV(s)  == RV("error", s, 0, <<>>)
IntegerV(n) == RV("integer", <<>>, n, <<>>)
BulkV(s)   == RV("bulk", s, 0, <<>>)
NullV      == RV("null", <<>>, 0, <<>>)
ArrayV(a)  == RV("array", <<>>, 0, a)

Ok(v, rest) == [k |-> "ok", v |-> v, rest |-> rest, why |-> <<>>]
None(buf) == [k |-> "none", v |-> NullV, rest |-> buf, why |-> <<>>]
Err(rest, why) == [k |-> "err", v |-> NullV, rest |-> rest, why |-> why]

-----------------------------------------------------------------------------
(* Decimal text: i.to_string() and s.parse::<i64>().                       *)

RECURSIVE Decimal(_)
Decimal(n) ==
    IF n < 0 THEN <<"-">> \o Decimal(-n)
    ELSE IF n < 10 THEN <<Digits[n + 1]>>
    ELSE Decimal(n \div 10) \o <<Digits[(n % 10) + 1]>>

DigitOf(c) == CHOOSE i \in 0..9 : Digits[i + 1] = c

\* str::parse::<i64>: an optional sign, then one or more ASCII digits.
ParseI64(s) ==
    LET signed == s # <<>> /\ s[1] \in {"+", "-"}
        ds == IF signed THEN Tail(s) ELSE s
        n == FoldLeft(LAMBDA acc, c : 10 * acc + DigitOf(c), 0, ds)
    IN  IF ds = <<>> \/ \E i \in 1..Len(ds) : ds[i] \notin ToSet(Digits)
           THEN [ok |-> FALSE, n |-> 0]
           ELSE [ok |-> TRUE, n |-> IF signed /\ s[1] = "-" THEN -n ELSE n]

-----------------------------------------------------------------------------
(* RespParser.                                                              *)

\* peek_line: the bytes before the first CRLF, if the buffer holds one.
PeekLine(buf) ==
    LET at == {i \in 1..(Len(buf) - 1) : buf[i] = CR /\ buf[i + 1] = LF}
    IN  IF at = {} THEN [found |-> FALSE, line |-> <<>>]
        ELSE [found |-> TRUE, line |-> SubSeq(buf, 1, Min(at) - 1)]

\* read_line: peek_line, then advance past the line and its CRLF.
AfterLine(buf, line) == SubSeq(buf, Len(line) + 3, Len(buf))

\* parse_simple_string and parse_error.
ParseLine(buf, t) ==
    LET p == PeekLine(buf)
    IN  IF ~p.found THEN None(buf)
        ELSE Ok(RV(t, Tail(p.line), 0, <<>>), AfterLine(buf, p.line))

\* parse_integer: the line is consumed before its digits are checked.
ParseInteger(buf) ==
    LET p == PeekLine(buf)
        x == ParseI64(Tail(p.line))
    IN  IF ~p.found THEN None(buf)
        ELSE IF ~x.ok THEN Err(AfterLine(buf, p.line), <<"O">>)
        ELSE Ok(IntegerV(x.n), AfterLine(buf, p.line))

\* parse_bulk_string: nothing is consumed until the whole frame is there;
\* a frame whose payload is not followed by CRLF fails after its header
\* and payload were consumed.
ParseBulk(buf) ==
    LET p == PeekLine(buf)
        x == ParseI64(Tail(p.line))
        len == x.n
        body == AfterLine(buf, p.line)
        tail == SubSeq(body, len + 1, Len(body))
    IN  IF ~p.found THEN None(buf)
        ELSE IF ~x.ok THEN Err(buf, <<"O">>)
        ELSE IF len = -1 THEN Ok(NullV, body)
        ELSE IF len < 0 THEN Err(buf, <<"L">>)
        ELSE IF Len(buf) < Len(p.line) + 2 + len + 2 THEN None(buf)
        ELSE IF Len(tail) < 2 \/ SubSeq(tail, 1, 2) # CRLF THEN Err(tail, <<"C">>)
        ELSE Ok(BulkV(SubSeq(body, 1, len)), SubSeq(tail, 3, Len(tail)))

RECURSIVE Parse(_), ParseElems(_, _, _), ParseArrayNoProbe(_)

\* count elements parsed one after another from buf.
ParseElems(buf, count, acc) ==
    IF count = 0 THEN Ok(ArrayV(acc), buf)
    ELSE LET r == Parse(buf)
         IN  IF r.k # "ok" THEN r
             ELSE ParseElems(r.rest, count - 1, Append(acc, r.v))

\* Fault variant of ParseArray: the count line and each element are
\* consumed from the real buffer as they are parsed, without the probe.
ParseArrayNoProbe(buf) ==
    LET p == PeekLine(buf)
        x == ParseI64(Tail(p.line))
        r == ParseElems(AfterLine(buf, p.line), x.n, <<>>)
    IN  IF ~p.found THEN None(buf)
        ELSE IF ~x.ok THEN Err(buf, <<"O">>)
        ELSE IF x.n = -1 THEN Ok(NullV, AfterLine(buf, p.line))
        ELSE IF x.n < 0 THEN Err(buf, <<"L">>)
        ELSE IF r.k = "none" THEN None(r.rest)
        ELSE r

\* parse_array: the elements are first parsed from a clone of the buffer;
\* the real buffer is advanced only when all of them are complete, and is
\* left untouched when one is incomplete or malformed.  The commit pass
\* reparses the same bytes and so ends where the probe ended.
ParseArray(buf) ==
    LET p == PeekLine(buf)
        x == ParseI64(Tail(p.line))
        probe == ParseElems(AfterLine(buf, p.line), x.n, <<>>)
    IN  IF ~p.found THEN None(buf)
        ELSE IF ~x.ok THEN Err(buf, <<"O">>)
        ELSE IF x.n = -1 THEN Ok(NullV, AfterLine(buf, p.line))
        ELSE IF x.n < 0 THEN Err(buf, <<"L">>)
        ELSE IF probe.k = "none" THEN None(buf)
        ELSE IF probe.k = "err" THEN Err(buf, probe.why)
        ELSE probe

\* RespParser::parse, dispatching on the type prefix.
Parse(buf) ==
    IF buf = <<>> THEN None(buf)
    ELSE CASE buf[1] = "+" -> ParseLine(buf, "simple")
           [] buf[1] = "-" -> ParseLine(buf, "error")
           [] buf[1] = ":" -> ParseInteger(buf)
           [] buf[1] = "$" -> ParseBulk(buf)
           [] buf[1] = "*" -> ParseArray(buf)
           [] OTHER -> Err(buf, <<"P", buf[1]>>)

-----------------------------------------------------------------------------
(* RespEncoder::encode_to.                                                  *)

RECURSIVE Encode(_)

Encode(v) ==
    CASE v.t = "simple" -> <<"+">> \o v.s \o CRLF
      [] v.t = "error" -> <<"-">> \o v.s \o CRLF
      [] v.t = "integer" -> <<":">> \o Decimal(v.n) \o CRLF
      [] v.t = "bulk" -> <<"$">> \o Decimal(Len(v.s)) \o CRLF \o v.s \o CRLF
      [] v.t = "null" -> <<"$", "-", "1">> \o CRLF
      [] v.t = "array" ->
            <<"*">> \o Decimal(Len(v.a)) \o CRLF
                    \o FlattenSeq([i \in 1..Len(v.a) |-> Encode(v.a[i])])

EncodeAll(vs) == FlattenSeq([i \in 1..Len(vs) |-> Encode(vs[i])])

-----------------------------------------------------------------------------
(* The server side of one connection.                                      *)

VARIABLES
    segs,  \* the scenario this client writes
    pos,   \* how many of its bytes the server has read
    rbuf,  \* the connection's read_buffer
    out,   \* the replies written back, in order
    wire,  \* the bytes written back (send_response of each reply)
    conn,  \* "open", "closed" (clean EOF) or "reset" (EOF with bytes left)
    frontend  \* "cluster" (handle_with_cluster) or "single" (handle)

rvars == <<segs, pos, rbuf, out, wire, conn, frontend>>

\* What cluster.execute answers a frame, as far as the connection can
\* tell: dispatch_command's format and registry checks, with the unknown
\* name copied into the error text by format!.
Execute(v) ==
    IF v.t # "array" \/ v.a = <<>> THEN ErrorV(<<"F">>)
    ELSE IF v.a[1].t # "bulk" THEN ErrorV(<<"N">>)
    ELSE IF v.a[1].s \in DOMAIN Known THEN Known[v.a[1].s]
    ELSE ErrorV(<<"U">> \o v.a[1].s \o <<"'">>)

\* Dispatcher::dispatch: the same shape checks with the dispatcher's own
\* texts, then the arity check against min_args/max_args (the name copied
\* as the client typed it), then the handler.
Dispatch(v) ==
    LET name == v.a[1].s
        argc == Len(v.a) - 1
    IN  CASE v.t # "array" -> ErrorV(<<"A">>)
          [] v.a = <<>> -> ErrorV(<<"Z">>)
          [] v.a[1].t # "bulk" -> ErrorV(<<"N">>)
          [] name \notin DOMAIN Known -> ErrorV(<<"U">> \o name \o <<"'">>)
          [] argc < Arity[name].min \/ (Arity[name].max >= 0 /\ argc > Arity[name].max)
                -> ErrorV(<<"W">> \o name \o <<"'">>)
          [] OTHER -> Known[name]

\* The reply a frame gets on this connection: handle locks the dispatcher
\* and calls dispatch; handle_with_cluster awaits cluster.execute.
Answer(v) == IF frontend = "single" THEN Dispatch(v) ELSE Execute(v)

\* The reply to a protocol error: "ERR protocol error: " and the error.
ProtocolError(r) == ErrorV(<<"E">> \o r.why)

\* Fault variant of ParseLoop: one frame per read; the loop breaks after
\* the first frame it answers.
RECURSIVE ParseLoopOnce(_, _)
ParseLoopOnce(buf, replies) ==
    LET r == Parse(buf)
    IN  CASE r.k = "ok" -> [buf |-> r.rest, replies |-> Append(replies, Answer(r.v))]
          [] r.k = "none" -> [buf |-> r.rest, replies |-> replies]
          [] r.k = "err" -> [buf |-> r.rest, replies |-> Append(replies, ProtocolError(r))]

\* The inner loop of handle_with_cluster: parse frames until the parser
\* needs more bytes, answering each; a protocol error is answered and
\* ends the loop, with the buffer left as the parser left it.
RECURSIVE ParseLoop(_, _)
ParseLoop(buf, replies) ==
    LET r == Parse(buf)
    IN  CASE r.k = "ok" -> ParseLoop(r.rest, Append(replies, Answer(r.v)))
          [] r.k = "none" -> [buf |-> r.rest, replies |-> replies]
          [] r.k = "err" -> [buf |-> r.rest, replies |-> Append(replies, ProtocolError(r))]

\* The bytes of a segment: an encoded request or malformed bytes.
SegBytes(g) == IF g.ok THEN Encode(g.v) ELSE g.bytes


Stream == FlattenSeq([i \in 1..Len(segs) |-> SegBytes(segs[i])])

RInit ==
    /\ segs \in Scenarios
    /\ pos = 0 /\ rbuf = <<>> /\ out = <<>> /\ wire = <<>>
    /\ conn = "open"
    /\ frontend \in Frontends

\* One turn of the outer loop: read_buf returns n > 0 bytes, then the
\* inner loop parses and answers; each reply is encoded and written.
Read(n) ==
    /\ conn = "open" /\ pos + n <= Len(Stream)
    /\ LET r == ParseLoop(rbuf \o SubSeq(Stream, pos + 1, pos + n), <<>>)
       IN  /\ rbuf' = r.buf
           /\ out' = out \o r.replies
           /\ wire' = wire \o EncodeAll(r.replies)
    /\ pos' = pos + n
    /\ UNCHANGED <<segs, conn, frontend>>

\* read_buf returns 0: the client closed its side.
Eof ==
    /\ conn = "open" /\ pos = Len(Stream)
    /\ conn' = IF rbuf = <<>> THEN "closed" ELSE "reset"
    /\ UNCHANGED <<segs, pos, rbuf, out, wire, frontend>>

RNext == Eof \/ \E n \in 1..MaxChunk : Read(n)

RSpec == RInit /\ [][RNext]_rvars

-----------------------------------------------------------------------------
(* Properties *)

\* The client's view of the reply stream: decode frames until the bytes
\* run out or stop parsing.
RECURSIVE DecodeAll(_)
DecodeAll(buf) ==
    LET r == Parse(buf)
    IN  IF buf = <<>> \/ r.k # "ok" THEN <<>> ELSE <<r.v>> \o DecodeAll(r.rest)

\* Codec round trip and incrementality (spec §8 items 1 and 2), under
\* every way the socket can split the stream: every reply so far answers
\* the request at its position, so no frame was decoded before all its
\* bytes arrived, none was decoded twice or out of order, and no partial
\* array left its header or children consumed.
RepliesInOrder ==
    /\ Len(out) <= Len(segs)
    /\ \A i \in 1..Len(out) : segs[i].ok => out[i] = Answer(segs[i].v)

\* Every request gets exactly its own reply (spec §7): once the client has
\* closed, there is one reply per segment it wrote, and each well-formed
\* request has the reply execute gave it.
AnsweredOnce ==
    conn # "open" =>
        /\ Len(out) = Len(segs)
        /\ \A i \in 1..Len(segs) : segs[i].ok => out[i] = Answer(segs[i].v)

=============================================================================
