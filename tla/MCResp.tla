------------------------------- MODULE MCResp -------------------------------
(* Client scenarios for Resp.tla.  Names and arguments are short byte     *)
(* strings over a small alphabet that includes CR and LF, so binary-safe  *)
(* bulk strings and CRLF inside client input are both exercised.          *)
EXTENDS Resp, TLC

\* A request as a client encodes it: an array of bulk strings.
Req(name, args) ==
    [ok |-> TRUE, bytes |-> <<>>,
     v |-> ArrayV(<<BulkV(name)>> \o [i \in 1..Len(args) |-> BulkV(args[i])])]

\* A frame of any other shape the client may write.
Frame(v) == [ok |-> TRUE, bytes |-> <<>>, v |-> v]

\* Bytes that are not a RESP frame.
Bad(b) == [ok |-> FALSE, bytes |-> b, v |-> NullV]

\* "s" stands for SET (+OK), "g" for GET of a missing key (null).
MCKnown == (<<"s">> :> SimpleV(<<"O", "K">>)) @@ (<<"g">> :> NullV)

\* SetCommand: min_args 2, no max; GetCommand: exactly 1.
MCArity == (<<"s">> :> [min |-> 2, max |-> -1]) @@ (<<"g">> :> [min |-> 1, max |-> 1])

\* Well-formed traffic: pipelined requests, a bulk argument holding CRLF
\* and an empty one, an unknown name, and frames of every other type.
GoodScenarios == {
    <<Req(<<"s">>, <<<<"a">>>>), Req(<<"g">>, <<>>)>>,
    <<Req(<<"s">>, <<<<CR, LF>>, <<>>>>), Req(<<"q">>, <<>>)>>,
    <<Frame(ArrayV(<<IntegerV(-2), BulkV(<<"a">>)>>)), Frame(NullV),
      Frame(SimpleV(<<"a">>)), Frame(ErrorV(<<>>)), Frame(ArrayV(<<>>))>>,
    <<Frame(ArrayV(<<ArrayV(<<NullV>>), BulkV(<<"a">>)>>)), Frame(IntegerV(3)),
      Req(<<"g">>, <<<<"a">>, <<"a">>>>)>> }

\* A request, one stray byte, then another request.
PoisonScenarios == { <<Req(<<"s">>, <<<<"a">>>>), Bad(<<"x">>), Req(<<"g">>, <<>>)>> }

=============================================================================
