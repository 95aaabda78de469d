---------------------------- MODULE Http1Parser ----------------------------
(* The incremental HTTP/1.1 parser (src/facil.io/http1_parser.h) as          *)
(* http1_on_data calls it: the bytes of pipelined requests arrive in pieces  *)
(* of any size, the parser consumes what it can and is given the rest again  *)
(* with what comes next. The text of a line, the size of a chunk and a byte  *)
(* of a body are one symbol each.                                            *)
EXTENDS Integers, SequencesExt, FiniteSetsExt

CONSTANT MaxMessages   \* requests on the connection

Eol == <<"\r", "\n">>
Lines(lines) == FlattenSeq([k \in DOMAIN lines |-> <<lines[k]>> \o Eol])

\* The requests a client sends and what the handler is to see of each: the headers
\* that are passed on and the bytes of the body. A length may be repeated, and once
\* there is one a transfer-encoding is a header as any other; lengths that contradict
\* each other are refused, and what is seen of such a request is nothing.
Messages ==
    { [text |-> Lines(<<"GET", "host">>) \o Eol,
       seen |-> <<"GET", "host">>],
      [text |-> Lines(<<"POST", "length 2", "chunked", "length 2">>) \o Eol \o <<"b1", "b2">>,
       seen |-> <<"POST", "length 2", "chunked", "length 2", "b1", "b2">>],
      [text |-> Lines(<<"POST", "length 2", "length 1">>) \o Eol \o <<"b1", "b2">>,
       seen |-> <<>>],
      [text |-> Lines(<<"POST", "chunked", "length 2">>) \o Eol \o Lines(<<"2">>) \o <<"b1", "b2">>
                \o Eol \o Lines(<<"1">>) \o <<"b3">> \o Eol \o Lines(<<"0">>) \o Eol,
       seen |-> <<"POST", "b1", "b2", "b3", "length">>],
      [text |-> Lines(<<"POST", "chunked">>) \o Eol \o Lines(<<"1">>) \o <<"b1">> \o Eol
                \o Lines(<<"0", "x-sum", "other">>) \o Eol,
       seen |-> <<"POST", "b1", "length", "x-sum">>] }

Size(s) == CASE s = "0" -> 0 [] s = "1" -> 1 [] s = "2" -> 2
LengthOf == [h \in {"length 1", "length 2"} |-> IF h = "length 1" THEN 1 ELSE 2]

VARIABLES
    sent,     \* the requests of this connection
    stream,   \* what has not arrived
    buf,      \* p->buf: arrived and not consumed
    parser,   \* parser->state: stage stands for the three lowest bits of reserved
    pc,       \* "parse" inside http1_parse, "wait" outside, "failed" after an error
    seen,     \* what has been reported of the current request
    parsed    \* what was reported of each request that was handled

vars == <<sent, stream, buf, parser, pc, seen, parsed>>

Start == [stage |-> "line", content_length |-> 0, clength |-> FALSE, read |-> 0, chunked |-> FALSE]
Text == FlattenSeq([k \in DOMAIN sent |-> sent[k].text])

Init ==
    /\ sent \in UNION {[1..n -> Messages] : n \in 1..MaxMessages}
    /\ stream = Text
    /\ buf = <<>> /\ parser = Start /\ pc = "wait" /\ seen = <<>> /\ parsed = <<>>

Drop(s, n) == SubSeq(s, n + 1, Len(s))

\* The \r and the \n of an empty line arrive together: finished_headers looks at the
\* byte after the \r even when it has not arrived.
Whole(n) ==
    LET p == Len(Text) - Len(stream) + n
    IN  ~(p > 1 /\ p < Len(Text) /\ SubSeq(Text, p - 1, p + 1) = <<"\n", "\r", "\n">>)

\* fio_read into the end of the buffer.
Arrive ==
    /\ pc = "wait"
    /\ \E n \in 1..Len(stream) :
         Whole(n) /\ buf' = buf \o SubSeq(stream, 1, n) /\ stream' = Drop(stream, n)
    /\ pc' = "parse"
    /\ UNCHANGED <<sent, parser, seen, parsed>>

Consume(n, report) == buf' = Drop(buf, n) /\ seen' = seen \o report

In(stage) == pc = "parse" /\ parser.stage = stage
At(symbols) == buf # <<>> /\ buf[1] \in symbols
HasLine == Contains(buf, "\n")   \* seek2eol

\* case 0: white space before a request.
Blank ==
    /\ In("line") /\ At({"\r", "\n"})
    /\ Consume(1, <<>>)
    /\ UNCHANGED <<sent, stream, parser, pc, parsed>>

\* http1_consume_request_line, and the error for what is not a request.
RequestLine ==
    /\ In("line") /\ buf # <<>> /\ ~At({"\r", "\n"}) /\ HasLine
    /\ IF At({"GET", "POST"}) THEN Consume(3, <<buf[1]>>) /\ UNCHANGED pc
       ELSE pc' = "failed" /\ UNCHANGED <<buf, seen>>
    /\ parser' = [parser EXCEPT !.stage = "headers"]
    /\ UNCHANGED <<sent, stream, parsed>>

\* http1_consume_header_top: a length, unless the body is in chunks; another one is
\* refused if it differs. A transfer-encoding counts as long as there is no length.
IsLength(h) == h \in DOMAIN LengthOf
Conflicts(h) == IsLength(h) /\ ~parser.chunked /\ parser.clength /\ LengthOf[h] # parser.content_length
BeginsChunks(h) == h = "chunked" /\ parser.content_length = 0
Noted(h) ==
    IF IsLength(h) /\ ~parser.chunked THEN [parser EXCEPT !.content_length = LengthOf[h], !.clength = TRUE]
    ELSE IF BeginsChunks(h) THEN [parser EXCEPT !.chunked = TRUE]
    ELSE parser

\* The headers that are passed on, before a body and, by http1_consume_header_trailer,
\* behind it.
Reported(h) ==
    IF parser.read > 0 THEN h = "x-sum" ELSE ~BeginsChunks(h) /\ ~(IsLength(h) /\ parser.chunked)

\* case 1
Header ==
    /\ In("headers") /\ buf # <<>> /\ ~At({"\r", "\n"}) /\ HasLine
    /\ IF parser.read = 0 /\ Conflicts(buf[1])
         THEN pc' = "failed" /\ UNCHANGED <<buf, seen, parser>>
         ELSE /\ Consume(3, IF Reported(buf[1]) THEN <<buf[1]>> ELSE <<>>)
              /\ parser' = IF parser.read = 0 THEN Noted(buf[1]) ELSE parser
              /\ UNCHANGED pc
    /\ UNCHANGED <<sent, stream, parsed>>

\* finished_headers
HeadersEnd ==
    /\ In("headers") /\ At({"\r", "\n"})
    /\ Consume(IF Len(buf) > 1 /\ buf[2] = "\n" THEN 2 ELSE 1, <<>>)
    /\ parser' = [parser EXCEPT !.stage = "body"]
    /\ UNCHANGED <<sent, stream, pc, parsed>>

Streamed == parser.content_length > parser.read /\ parser.content_length > 0
Chunked == parser.content_length <= 0 /\ parser.chunked

AtMost(n) == IF Len(buf) < n THEN Len(buf) ELSE n

\* http1_consume_body_streamed
BodyStreamed ==
    /\ In("body") /\ Streamed /\ buf # <<>>
    /\ LET n == AtMost(parser.content_length - parser.read)
       IN  /\ Consume(n, SubSeq(buf, 1, n))
           /\ parser' = [parser EXCEPT !.read = @ + n]
    /\ UNCHANGED <<sent, stream, pc, parsed>>

\* The data of a chunk in http1_consume_body_chunked: content_length is minus what is
\* left of it.
ChunkData ==
    /\ In("body") /\ Chunked /\ parser.content_length < 0 /\ buf # <<>>
    /\ LET n == AtMost(-parser.content_length)
       IN  /\ Consume(n, SubSeq(buf, 1, n))
           /\ parser' = [parser EXCEPT !.read = @ + n, !.content_length = @ + n]
    /\ UNCHANGED <<sent, stream, pc, parsed>>

\* Is the empty line behind the last chunk there? If not, trailers are parsed as
\* headers first.
Ends_Short(rest) == rest = <<>> \/ rest[1] \in {"\r", "\n"}
Ends(rest) == Len(rest) >= 2 /\ rest[1] \in {"\r", "\n"}

\* http1_on_request, with the state of the parser reset.
Complete(rest, report) ==
    /\ buf' = rest
    /\ parsed' = Append(parsed, seen \o report) /\ seen' = <<>>
    /\ parser' = Start

\* The end of the chunk before, when there was one, and the size of a chunk: it
\* waits for three bytes or more. The last one adds a header with the length.
ChunkSize ==
    /\ In("body") /\ Chunked /\ parser.content_length = 0 /\ Len(buf) > 2
    /\ LET rest == IF SubSeq(buf, 1, 2) = Eol THEN Drop(buf, 2) ELSE buf
           data == Drop(rest, 3)
       IN  IF Len(rest) <= 2
           THEN buf' = rest /\ UNCHANGED <<parser, pc, seen, parsed>>
           ELSE IF rest[1] \notin {"0", "1", "2"} \/ SubSeq(rest, 2, 3) # Eol
           THEN pc' = "failed" /\ UNCHANGED <<buf, parser, seen, parsed>>
           ELSE IF rest[1] # "0"
           THEN /\ buf' = data /\ parser' = [parser EXCEPT !.content_length = -Size(rest[1])]
                /\ UNCHANGED <<pc, seen, parsed>>
           ELSE IF Ends(data) THEN Complete(Drop(data, 2), <<"length">>) /\ UNCHANGED pc
           ELSE /\ buf' = data /\ seen' = Append(seen, "length")
                /\ parser' = [parser EXCEPT !.stage = "headers", !.chunked = FALSE,
                                            !.content_length = parser.read]
                /\ UNCHANGED <<pc, parsed>>
    /\ UNCHANGED <<sent, stream>>

\* http1_consume_body has nothing left to do.
BodyEnd ==
    /\ In("body") /\ ~Streamed /\ ~Chunked
    /\ Complete(buf, <<>>)
    /\ UNCHANGED <<sent, stream, pc>>

\* http1_parse returns, and http1_consume_data calls it no more: more is needed.
NeedsMore ==
    \/ parser.stage \in {"line", "headers"} /\ ~At({"\r", "\n"}) /\ ~HasLine
    \/ parser.stage = "body" /\ (Streamed \/ Chunked) /\ buf = <<>>
    \/ parser.stage = "body" /\ Chunked /\ parser.content_length = 0 /\ Len(buf) <= 2

Return ==
    /\ pc = "parse" /\ NeedsMore
    /\ pc' = "wait"
    /\ UNCHANGED <<sent, stream, buf, parser, seen, parsed>>

Next ==
    \/ Arrive \/ Blank \/ RequestLine \/ Header \/ HeadersEnd
    \/ BodyStreamed \/ ChunkData \/ ChunkSize \/ BodyEnd \/ Return

Spec == Init /\ [][Next]_vars

----------------------------------------------------------------------------
TypeOK ==
    /\ sent \in Seq(Messages) /\ Len(sent) \in 1..MaxMessages
    /\ IsSuffix(stream, Text)
    /\ parser.stage \in {"line", "headers", "body"} /\ {parser.chunked, parser.clength} \subseteq BOOLEAN
    /\ parser.content_length \in -2..3 /\ parser.read \in 0..3
    /\ pc \in {"wait", "parse", "failed"}

\* The requests up to the first one that is refused.
Refused == {k \in DOMAIN sent : sent[k].seen = <<>>}
Judged == IF Refused = {} THEN Len(sent) ELSE Min(Refused) - 1

\* Wherever the bytes of a client are cut, but between the two characters that end the
\* headers (http1_parser.h:837), http1_parse reports exactly the requests that were
\* sent, each as soon as the last of it has arrived, up to one that contradicts
\* itself, and nothing but that is an error.
RequestsIntact ==
    /\ IsPrefix(parsed, [k \in 1..Judged |-> sent[k].seen])
    /\ pc = "failed" => Refused # {} /\ Len(parsed) = Judged
    /\ stream = <<>> /\ pc = "wait" => Refused = {} /\ Len(parsed) = Len(sent)
=============================================================================
