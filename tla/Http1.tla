------------------------------- MODULE Http1 --------------------------------
(***************************************************************************)
(* Where an HTTP message ends: the requests that the edge reads            *)
(* (crates/openapi-http/src/request.rs and the loops around it) and the    *)
(* replies that the SGX edge reads with its own client                     *)
(* (crates/openapi-core/src/http1_body.rs, and remote_client.rs and        *)
(* upstream.rs of crates/openapi-platform-sgx).                            *)
(*                                                                         *)
(* A header is its name, whether its value is well formed, and the number  *)
(* it has if it is a length.  The bytes of a reply's body are the symbols  *)
(* below; a symbol that is no digit also stands for a line that is too     *)
(* long.  httparse and serde_json are external.                            *)
(***************************************************************************)
EXTENDS Naturals, Sequences, FiniteSetsExt

CONSTANTS
  MaxBody,     \* max_body_bytes
  HeadSlack,   \* 64 KiB
  MinBuffer    \* 256 KiB

-----------------------------------------------------------------------------
(***************************************************************************)
(* Requests                                                                *)
(***************************************************************************)

\* request_recv_capacity
Capacity == IF MaxBody + HeadSlack > MinBuffer THEN MaxBody + HeadSlack ELSE MinBuffer

LengthLines(lines) == {i \in DOMAIN lines : lines[i].name = "content-length"}

\* Whether the headers before line i have set a length, and line i is wrong.
Duplicate(lines, i) == lines[i].name = "content-length" /\ \E j \in LengthLines(lines) : j < i
Oversized(lines, i) == lines[i].name = "content-length" /\ lines[i].number > MaxBody
Offends(lines, i) ==
  \/ ~lines[i].wellFormed
  \/ lines[i].name = "transfer-encoding"
  \/ Duplicate(lines, i)
  \/ Oversized(lines, i)

\* ParsedRequest::parse of the first `total` bytes of a request whose head has
\* req.head bytes.  The first header that offends decides.
Parse(req, total) ==
  LET lines    == req.lines
      wrong    == {i \in DOMAIN lines : Offends(lines, i)}
      first    == Min(wrong)
      tooLarge == /\ lines[first].wellFormed
                  /\ Oversized(lines, first) /\ ~Duplicate(lines, first)
      declared == IF LengthLines(lines) = {} THEN 0 ELSE lines[Min(LengthLines(lines))].number
  IN  CASE total < req.head -> <<"partial">>
        [] total >= req.head /\ wrong # {} ->
             IF tooLarge THEN <<"tooLarge">> ELSE <<"invalid">>
        [] OTHER -> IF total < req.head + declared THEN <<"partial">> ELSE <<"complete", declared>>

\* serve_connection and handle_connection after a read: dispatch the request
\* with so many bytes of body, answer an error, or read on.
Serve(req, total) ==
  LET parsed == Parse(req, total)
  IN  CASE parsed[1] = "complete"  -> <<"dispatch", parsed[2]>>
        [] parsed[1] = "tooLarge"  -> <<"error", 413>>
        [] parsed[1] = "invalid"   -> <<"error", 400>>
        [] parsed[1] = "partial"   -> IF total >= Capacity THEN <<"error", 413>> ELSE <<"read">>

-----------------------------------------------------------------------------
(***************************************************************************)
(* Replies.  wire is what has come when the peer closes the connection.    *)
(***************************************************************************)

\* parse_body_framing: the last length that can be read counts.
Framing(lines) ==
  LET readable == {i \in LengthLines(lines) : lines[i].wellFormed}
  IN  IF \E i \in DOMAIN lines : lines[i].name = "transfer-encoding" /\ lines[i].wellFormed
      THEN <<"chunked">>
      ELSE IF readable # {} THEN <<"length", lines[Max(readable)].number>> ELSE <<"close">>

Space == {"CR", "LF"}

Trim(text) ==
  LET ink == {i \in DOMAIN text : text[i] \notin Space}
  IN  IF ink = {} THEN <<>> ELSE SubSeq(text, Min(ink), Max(ink))

\* read_line from byte i on, if there is one: up to CR LF, or what there is.
Line(wire, i) ==
  LET ends == {j \in i + 1 .. Len(wire) : wire[j - 1] = "CR" /\ wire[j] = "LF"}
  IN  IF ends = {}
      THEN [text |-> SubSeq(wire, i, Len(wire)), next |-> Len(wire) + 1]
      ELSE [text |-> SubSeq(wire, i, Min(ends) - 2), next |-> Min(ends) + 1]

\* The size in a line, up to an extension.
Digits == [d \in {"0", "1", "2"} |-> CASE d = "0" -> 0 [] d = "1" -> 1 [] d = "2" -> 2]
SizeText(text) ==
  LET stops == {i \in DOMAIN text : text[i] = ";"}
  IN  IF stops = {} THEN text ELSE Trim(SubSeq(text, 1, Min(stops) - 1))
IsSize(text) == text # <<>> /\ \A i \in DOMAIN text : text[i] \in DOMAIN Digits
Size(text) ==
  LET size[n \in 0 .. Len(text)] ==
        IF n = 0 THEN 0 ELSE 16 * size[n - 1] + Digits[text[n]]
  IN  size[Len(text)]

Copied(body, ok) == [body |-> body, ok |-> ok]

\* Mutant: the copy ends with the size of zero.
NoLineAfter(wire, i) == TRUE

\* The line after the size of zero is read, from byte i on.
LastLine(wire, i) == i <= Len(wire)

\* copy_chunked: what is written, and whether the copy ends without an error.
\* The rest is only looked at where the chunk has come with a line after it.
CopyChunked(wire) ==
  LET copy[i \in 1 .. Len(wire) + 1] ==
        IF i > Len(wire) THEN Copied(<<>>, FALSE)
        ELSE LET line == Line(wire, i)
                 size == SizeText(Trim(line.text))
                 from == line.next
                 upto == from + Size(size)
                 tail == Line(wire, upto)
                 rest == IF tail.text \in {<<>>, <<"CR">>} THEN copy[tail.next]
                         ELSE Copied(<<>>, FALSE)
             IN  CASE Trim(line.text) = <<>> -> copy[line.next]
                   [] Trim(line.text) # <<>> /\ ~IsSize(size) -> Copied(<<>>, FALSE)
                   [] IsSize(size) /\ Size(size) = 0 -> Copied(<<>>, LastLine(wire, from))
                   [] IsSize(size) /\ Size(size) > 0 ->
                        IF upto > Len(wire)
                        THEN Copied(SubSeq(wire, from, Len(wire)), FALSE)
                        ELSE Copied(SubSeq(wire, from, upto - 1) \o rest.body, rest.ok)
  IN  copy[1]

\* copy_fixed
CopyFixed(wire, length) ==
  IF Len(wire) < length THEN Copied(wire, FALSE) ELSE Copied(SubSeq(wire, 1, length), TRUE)

\* copy_until_eof
CopyUntilEof(wire) == Copied(wire, TRUE)

\* copy_body
CopyBody(wire, framing) ==
  CASE framing[1] = "length"  -> CopyFixed(wire, framing[2])
    [] framing[1] = "chunked" -> CopyChunked(wire)
    [] framing[1] = "close"   -> CopyUntilEof(wire)

\* TcpL0Client::exchange: an error, or the status with the body.
Exchange(reply) ==
  LET copied == CopyBody(reply.wire, Framing(reply.lines))
  IN  IF reply.head /\ copied.ok THEN <<reply.status, copied.body>> ELSE <<0, <<>>>>

\* TcpL0Client::authorize; reply.content is a JSON text, of which no part is one.
Authorize(reply) ==
  LET answer == Exchange(reply)
  IN  CASE answer[1] \in {401, 404} -> "unauthorized"
        [] answer[1] = 0 \/ (answer[1] >= 400 /\ answer[1] \notin {401, 404}) -> "error"
        [] answer[1] \in 1 .. 399 -> IF answer[2] = reply.content THEN "authorized" ELSE "error"

\* TcpHttpUpstream::forward_v1_stream: what the client gets, and whether the
\* stream then ends as a whole one.
ForwardStream(reply) ==
  IF ~reply.head \/ reply.status \notin 200 .. 299 THEN Copied(<<>>, FALSE)
  ELSE CopyBody(reply.wire, Framing(reply.lines))
=============================================================================
