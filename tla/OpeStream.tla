----------------------------- MODULE OpeStream ------------------------------
(***************************************************************************)
(* How an engine's answer reaches the client:                              *)
(* crates/openapi-platform-cvm/src/ope_upstream.rs from the dispatch on,   *)
(* with dispatch_to_writer of crates/openapi-http/src/server.rs.           *)
(*                                                                         *)
(* The engine encrypts its answer in chunks.  The gateway relays them, as  *)
(* lines of NDJSON or as one JSON body, and may end or fail anywhere.  A   *)
(* streamed request gets its 200 before the gateway is asked, then one SSE *)
(* event per chunk; any other is answered once the whole answer is here.   *)
(* A chunk is raw text, which may end in the middle of a character, or an  *)
(* openai_delta frame.  One request is modelled: they share no state from  *)
(* here on.                                                                *)
(***************************************************************************)
EXTENDS Naturals, SequencesExt

CONSTANTS
  Answers,   \* what engines answer: sequences of chunks
  Reasons,   \* the finish_reasons there are
  None       \* no finish_reason, no index

\* What texts and arguments are made of.
Token == STRING

\* A byte of a text: the i-th of the n bytes of a character.
Byte == [char : Token, i : 1 .. 4, n : 1 .. 4]

\* A tool call's fragment belongs to the call with its index, from 0 on; it may
\* come without one.
Fragment == [index : Nat \cup {None}, arg : Token]

\* A finish_reason, or none.
Finish == Reasons \cup {None}

\* A frame of the engine's carries a delta, as an event to the client does.  What
\* the engine thinks is under one of two names, or under both.
IsDelta(x) == x.kind = "delta"

DeltaOk(x) ==
  /\ {x.text, x.reasoning, x.reasoning_content} \subseteq Seq(Token)
  /\ x.tools \in Seq(Fragment)
  /\ x.finish \in Finish

\* Where in a sequence of chunks or of items written there is a finish_reason.
Finishing(s) == {k \in DOMAIN s : IsDelta(s[k]) /\ s[k].finish # None}

\* Two finish_reasons are made up here; an engine finishes at most once.
ASSUME OpeStreamAssumption ==
  /\ {"stop", "tool_calls"} \subseteq Reasons /\ None \notin Reasons \cup Nat
  /\ \A a \in Answers :
       /\ a \in Seq(Range(a))
       /\ \A k \in DOMAIN a :
            \/ a[k].kind = "text" /\ a[k].bytes \in Seq(Byte)
            \/ IsDelta(a[k]) /\ DeltaOk(a[k])
       /\ \A k, m \in Finishing(a) : k = m

VARIABLES
  stream,      \* does the request ask for a stream?
  embeddings,  \* is it one for embeddings?
  answer,      \* what the engine answers
  ndjson,      \* does the gateway relay it line by line?
  reply,       \* the status of the gateway's reply
  pc,          \* where the request stands
  next,        \* the line that comes next: the share, a chunk, the trailer
  share,       \* server_share has been received
  read,        \* the chunks decrypted so far
  pending,     \* Utf8PlainAccumulator.pending
  sawFinish,   \* saw_finish
  out          \* what has been written to the client

request == <<stream, embeddings, answer>>
relay   == <<ndjson, reply, next>>
bridge  == <<share, read, pending, sawFinish>>
vars    == <<request, relay, pc, bridge, out>>

\* What a client may be sent: a status line, an event with a choice, [DONE] and
\* the chunk that ends a chunked body, or a whole completion.
Status(code) == [kind |-> "status", code |-> code]
Event(text, reasoning, tools, finish) ==
  [kind |-> "delta", text |-> text, reasoning |-> <<>>, reasoning_content |-> reasoning,
   tools |-> tools, finish |-> finish]
Done == [kind |-> "done"]
End  == [kind |-> "end"]
Completion(agg) == [kind |-> "completion", body |-> agg]

TypeOK ==
  /\ stream \in BOOLEAN /\ embeddings \in BOOLEAN /\ ndjson \in BOOLEAN
  /\ answer \in Answers
  /\ reply \in {"none", "ok", "client", "server"}
  /\ pc \in {"start", "prepare", "dispatch", "read", "aggregate", "finish", "done", "end",
             "closed"}
  /\ next \in 0 .. Len(answer) + 2
  /\ share \in BOOLEAN /\ sawFinish \in BOOLEAN
  /\ IsPrefix(read, answer)
  /\ pending \in Seq(Byte) /\ Len(pending) < 4
  /\ out \in Seq(Range(out))
  /\ \A item \in Range(out) : IsDelta(item) => DeltaOk(item)

\* The gateway may lose the line with the share.
Init ==
  /\ stream \in BOOLEAN /\ embeddings \in BOOLEAN
  /\ answer \in Answers
  /\ ndjson \in BOOLEAN
  /\ reply = "none"
  /\ pc = "start"
  /\ next \in {0, 1}
  /\ share = FALSE /\ read = <<>> /\ pending = <<>> /\ sawFinish = FALSE
  /\ out = <<>>

\* An error is answered if there is no answer yet; a stream is cut off.
Fail(code) ==
  /\ pc' = "closed"
  /\ out' = IF stream THEN out ELSE Append(out, Status(code))

-----------------------------------------------------------------------------
(***************************************************************************)
(* Up to the gateway's reply                                               *)
(***************************************************************************)

Header == out' = IF stream THEN <<Status(200)>> ELSE out

\* dispatch_to_writer: the header of a stream is written and flushed.
Begin ==
  /\ pc = "start"
  /\ Header
  /\ pc' = "prepare"
  /\ UNCHANGED <<request, relay, bridge>>

\* prepare is what OpeDispatch models; here it succeeds or fails.
Prepare ==
  /\ pc = "prepare"
  /\ IF stream /\ embeddings
     THEN Fail(400)
     ELSE \/ pc' = "dispatch" /\ UNCHANGED out
          \/ \E code \in {400, 403, 500, 502} : Fail(code)
  /\ UNCHANGED <<request, relay, bridge>>

Dispatch ==
  /\ pc = "dispatch"
  /\ \/ reply' = "ok" /\ pc' = "read" /\ UNCHANGED out
     \/ reply' = "client" /\ Fail(400)
     \/ reply' = "server" /\ Fail(502)
     \/ reply' = "none" /\ Fail(502)
  /\ UNCHANGED <<request, ndjson, next, bridge>>

-----------------------------------------------------------------------------
(***************************************************************************)
(* UTF-8 and delta frames                                                  *)
(***************************************************************************)

\* The bytes are whole characters.
Whole(s) ==
  \A k \in DOMAIN s :
    /\ s[k].i \in 1 .. s[k].n
    /\ IF s[k].i = 1 THEN TRUE
       ELSE k > 1 /\ s[k - 1] = [s[k] EXCEPT !.i = @ - 1]
    /\ s[k].i < s[k].n => k < Len(s) /\ s[k + 1] = [s[k] EXCEPT !.i = @ + 1]

\* Utf8Error.valid_up_to
ValidUpTo(s) ==
  CHOOSE k \in 0 .. Len(s) :
    /\ Whole(SubSeq(s, 1, k))
    /\ \A m \in k + 1 .. Len(s) : ~Whole(SubSeq(s, 1, m))

\* What remains is the beginning of one character (error_len is none).
Incomplete(s) ==
  \A k \in DOMAIN s : s[k] = [s[1] EXCEPT !.i = k] /\ k < s[k].n

Chars(s) == FlattenSeq([k \in DOMAIN s |-> IF s[k].i = s[k].n THEN <<s[k].char>> ELSE <<>>])

\* A frame with an empty delta and no finish_reason emits nothing.
Empty(c) ==
  /\ c.text = <<>> /\ c.reasoning = <<>> /\ c.reasoning_content = <<>>
  /\ c.tools = <<>> /\ c.finish = None

\* Mutant: a fragment always opens a call of its own.
MergeOneAppends(calls, f) == Append(calls, <<f.arg>>)

\* The call a fragment goes to: without an index, a new one.
Place(calls, f) == IF f.index = None THEN Len(calls) ELSE f.index

\* merge_tool_call_deltas, one fragment: calls up to its place are made, and
\* its arguments appended to the call's.
MergeOne(calls, f) ==
  LET at   == Place(calls, f)
      size == IF at < Len(calls) THEN Len(calls) ELSE at + 1
  IN  [k \in 1 .. size |->
         (IF k <= Len(calls) THEN calls[k] ELSE <<>>)
           \o (IF k = at + 1 THEN <<f.arg>> ELSE <<>>)]

MergeAll(calls, fragments) ==
  LET merged[n \in 0 .. Len(fragments)] ==
        IF n = 0 THEN calls ELSE MergeOne(merged[n - 1], fragments[n])
  IN  merged[Len(fragments)]

\* apply_openai_delta_frame takes the text and what is under either name.
Says(c) == c.text \o c.reasoning \o c.reasoning_content

\* append_plain_to_aggregate: a frame is applied, text appended.
Aggregate(agg, c) ==
  IF IsDelta(c)
  THEN [text   |-> agg.text \o Says(c),
        tools  |-> MergeAll(agg.tools, c.tools),
        finish |-> IF c.finish # None THEN c.finish ELSE agg.finish]
  ELSE [agg EXCEPT !.text = @ \o Chars(c.bytes)]

Nothing == [text |-> <<>>, tools |-> <<>>, finish |-> None]

AggregateAll(chunks) ==
  LET agg[n \in 0 .. Len(chunks)] ==
        IF n = 0 THEN Nothing ELSE Aggregate(agg[n - 1], chunks[n])
  IN  agg[Len(chunks)]

\* A buffered answer takes no chunk that ends inside a character.
Aggregates(chunks) == \A k \in DOMAIN chunks : IsDelta(chunks[k]) \/ Whole(chunks[k].bytes)

-----------------------------------------------------------------------------
(***************************************************************************)
(* bridge_ope_to_openai_sse, line by line                                  *)
(***************************************************************************)

LineByLine == pc = "read" /\ stream /\ ndjson

ReadShare ==
  /\ LineByLine /\ next = 0
  /\ next' = 1 /\ share' = TRUE
  /\ UNCHANGED <<request, ndjson, reply, pc, read, pending, sawFinish, out>>

\* Mutant: what is not a whole character yet is dropped.
RestDropped(s) == <<>>

\* What the accumulator keeps.
Rest(s) == SubSeq(s, ValidUpTo(s) + 1, Len(s))

\* process_decrypted_plaintext for text: whole characters are emitted.
EmitText(bytes) ==
  LET s    == pending \o bytes
      text == Chars(SubSeq(s, 1, ValidUpTo(s)))
  IN  IF Incomplete(SubSeq(s, ValidUpTo(s) + 1, Len(s)))
      THEN /\ pending' = Rest(s)
           /\ out' = IF text = <<>> THEN out ELSE Append(out, Event(text, <<>>, <<>>, None))
           /\ UNCHANGED <<pc, sawFinish>>
      ELSE Fail(502) /\ UNCHANGED <<pending, sawFinish>>

\* openai_sse_from_structured_delta passes on what is under one name.
Shown(c) ==
  Event(c.text, IF c.reasoning_content # <<>> THEN c.reasoning_content ELSE c.reasoning,
        c.tools, c.finish)

\* emit_openai_delta_frame
EmitDelta(c) ==
  /\ out' = IF Empty(c) THEN out ELSE Append(out, Shown(c))
  /\ sawFinish' = (sawFinish \/ c.finish # None)
  /\ UNCHANGED <<pc, pending>>

ReadChunk ==
  /\ LineByLine /\ next \in DOMAIN answer
  /\ next' = next + 1
  /\ IF share
     THEN LET c == answer[next]
          IN  /\ read' = Append(read, c)
              /\ IF IsDelta(c) THEN EmitDelta(c) ELSE EmitText(c.bytes)
     ELSE Fail(502) /\ UNCHANGED <<read, pending, sawFinish>>
  /\ UNCHANGED <<request, ndjson, reply, share>>

\* The trailer is passed over.
ReadTrailer ==
  /\ LineByLine /\ next = Len(answer) + 1
  /\ next' = next + 1
  /\ UNCHANGED <<request, ndjson, reply, pc, bridge, out>>

\* Mutant: the accumulator's tail is ignored.
ReadEofTailIgnored ==
  /\ LineByLine
  /\ pc' = "finish" /\ UNCHANGED out
  /\ UNCHANGED <<request, relay, bridge>>

\* The lines end, after the trailer or before: a last line that is cut off does
\* not parse and is passed over.  Half a character is an error.
ReadEof ==
  /\ LineByLine
  /\ IF pending = <<>> THEN pc' = "finish" /\ UNCHANGED out ELSE Fail(502)
  /\ UNCHANGED <<request, relay, bridge>>

\* The connection fails, or a chunk does not decrypt.
ReadFails ==
  /\ pc = "read"
  /\ Fail(502)
  /\ UNCHANGED <<request, relay, bridge>>

-----------------------------------------------------------------------------
(***************************************************************************)
(* The whole body at once                                                  *)
(***************************************************************************)

\* decrypt_ope_body_to_completion, of lines that may have ended early or of a
\* JSON body, which does not parse unless it is complete.
ReadBody ==
  /\ pc = "read" /\ ~LineByLine
  /\ \E n \in 0 .. Len(answer) :
       /\ ~ndjson => n = Len(answer)
       /\ IF /\ next = 0 \/ (ndjson /\ n = 0)
             /\ Aggregates(SubSeq(answer, 1, n))
          THEN read' = SubSeq(answer, 1, n) /\ pc' = "aggregate" /\ UNCHANGED out
          ELSE Fail(502) /\ UNCHANGED read
  /\ UNCHANGED <<request, relay, share, pending, sawFinish>>

\* The fragments of whole tool calls, indexed anew.
Indexed(calls) ==
  FlattenSeq([k \in DOMAIN calls |-> [m \in DOMAIN calls[k] |->
                                        [index |-> k - 1, arg |-> calls[k][m]]]])

FinishOf(agg) == IF agg.finish = None /\ agg.tools # <<>> THEN "tool_calls" ELSE agg.finish

\* emit_aggregated_completion_as_sse
EventsOf(agg) ==
  (IF agg.text = <<>> THEN <<>> ELSE <<Event(agg.text, <<>>, <<>>, None)>>)
    \o (IF agg.tools = <<>> THEN <<>> ELSE <<Event(<<>>, <<>>, Indexed(agg.tools), None)>>)
    \o (IF FinishOf(agg) = None THEN <<>> ELSE <<Event(<<>>, <<>>, <<>>, FinishOf(agg))>>)

EmitAggregate ==
  LET agg == AggregateAll(read)
  IN  /\ pc = "aggregate" /\ stream
      /\ out' = out \o EventsOf(agg)
      /\ sawFinish' = (FinishOf(agg) # None)
      /\ pc' = "finish"
      /\ UNCHANGED <<request, relay, share, read, pending>>

\* openai_chat_completion_json, unless the engine's usage report is refused or
\* what should be embeddings is not.
AnswerWhole ==
  /\ pc = "aggregate" /\ ~stream
  /\ LET agg == AggregateAll(read)
     IN  \/ /\ out' = <<Status(200), Completion([agg EXCEPT !.finish = IF FinishOf(agg) = None
                                                                       THEN "stop"
                                                                       ELSE FinishOf(agg)])>>
            /\ pc' = "closed"
         \/ Fail(IF embeddings THEN 502 ELSE 400)
  /\ UNCHANGED <<request, relay, bridge>>

-----------------------------------------------------------------------------
(***************************************************************************)
(* The end of a stream                                                     *)
(***************************************************************************)

\* Mutant: a finish_reason is made up although the engine has sent one.
WriteFinishAlways ==
  /\ pc = "finish"
  /\ out' = Append(out, Event(<<>>, <<>>, <<>>, "stop"))
  /\ pc' = "done"
  /\ UNCHANGED <<request, relay, bridge>>

WriteFinish ==
  /\ pc = "finish"
  /\ out' = IF sawFinish THEN out ELSE Append(out, Event(<<>>, <<>>, <<>>, "stop"))
  /\ pc' = "done"
  /\ UNCHANGED <<request, relay, bridge>>

WriteDone ==
  /\ pc = "done"
  /\ out' = Append(out, Done)
  /\ pc' = "end"
  /\ UNCHANGED <<request, relay, bridge>>

\* write_sse_stream_end
WriteEnd ==
  /\ pc = "end"
  /\ out' = Append(out, End)
  /\ pc' = "closed"
  /\ UNCHANGED <<request, relay, bridge>>

\* The client is gone: a write fails and the connection is closed.
WriteFails ==
  /\ \/ pc = "aggregate"
     \/ stream /\ pc \in {"start", "read", "finish", "done", "end"}
  /\ pc' = "closed"
  /\ UNCHANGED <<request, relay, bridge, out>>

Next ==
  \/ Begin \/ Prepare \/ Dispatch
  \/ ReadShare \/ ReadChunk \/ ReadTrailer \/ ReadEof \/ ReadFails \/ ReadBody
  \/ EmitAggregate \/ AnswerWhole
  \/ WriteFinish \/ WriteDone \/ WriteEnd \/ WriteFails

Spec == Init /\ [][Next]_vars

-----------------------------------------------------------------------------
(***************************************************************************)
(* Properties.                                                             *)
(***************************************************************************)

\* What is said in a sequence of chunks or of items written, in order: the text,
\* and the arguments of the tool call with an index.
TextOf(s) ==
  FlattenSeq([k \in DOMAIN s |-> IF IsDelta(s[k])
                                 THEN s[k].text \o s[k].reasoning \o s[k].reasoning_content
                                 ELSE <<>>])
Args(tools, index) ==
  FlattenSeq([m \in DOMAIN tools |-> IF tools[m].index = index THEN <<tools[m].arg>> ELSE <<>>])
ArgsOf(s, index) ==
  FlattenSeq([k \in DOMAIN s |-> IF IsDelta(s[k]) THEN Args(s[k].tools, index) ELSE <<>>])
Fragments(s) == UNION {Range(s[k].tools) : k \in {m \in DOMAIN s : IsDelta(s[m])}}
Indices(s)   == {f.index : f \in Fragments(s)} \ {None}

\* No fragment comes without its index.
AllIndexed(s) == \A f \in Fragments(s) : f.index # None

\* The chunks with the one of the two names that goes out line by line.
Heard(s) == [k \in DOMAIN s |-> IF IsDelta(s[k]) THEN Shown(s[k]) ELSE s[k]]

\* The chunks read, all bytes of the texts put together before they are decoded.
Bytes(s) == FlattenSeq([k \in DOMAIN s |-> IF IsDelta(s[k]) THEN <<>> ELSE s[k].bytes])

OnlyText(s) == \A k \in DOMAIN s : ~IsDelta(s[k])

\* At the end of a stream the client has the text and the tool calls of the
\* chunks that were read: no character is doubled or torn where a chunk ends or
\* the upstream does.  Line by line it gets of a frame's reasoning what is under
\* one name, and tool calls as they are; from a whole body what is under both,
\* and every fragment of a tool call: by index, if all fragments have one.
StreamIsFaithful ==
  Done \in Range(out) =>
    /\ OnlyText(read) => Whole(Bytes(read)) /\ TextOf(out) = Chars(Bytes(read))
    /\ Bytes(read) = <<>> => TextOf(out) = TextOf(IF ndjson THEN Heard(read) ELSE read)
    /\ \A i \in Indices(read) \cup Indices(out) :
         ndjson \/ AllIndexed(read) => ArgsOf(out, i) = ArgsOf(read, i)
    /\ ndjson => ArgsOf(out, None) = ArgsOf(read, None)
    /\ \A f \in Fragments(read) : \E g \in Fragments(out) : g.arg = f.arg

\* A buffered answer has all text of the deltas, what is under both names of a
\* frame's reasoning included, and every fragment of a tool call, however the
\* engine split and interleaved them: by index, if all fragments have one.
AggregateIsFaithful ==
  \A item \in Range(out) : item.kind = "completion" =>
    /\ OnlyText(read) => item.body.text = Chars(Bytes(read))
    /\ Bytes(read) = <<>> => item.body.text = TextOf(read)
    /\ \A f \in Fragments(read) :
         \E k \in DOMAIN item.body.tools : f.arg \in Range(item.body.tools[k])
    /\ AllIndexed(read) =>
         /\ \A i \in Indices(read) : i + 1 \in DOMAIN item.body.tools
         /\ \A k \in DOMAIN item.body.tools : item.body.tools[k] = ArgsOf(read, k - 1)

\* [DONE] comes once, after exactly one finish_reason, the engine's if it sent
\* one, and nothing but the end of the body follows it.
DoneFollowsOneFinish ==
  \A k \in DOMAIN out : out[k] = Done =>
    /\ \E f \in 1 .. k - 1 :
         /\ Finishing(out) = {f}
         /\ \A m \in Finishing(read) : out[f].finish = read[m].finish
    /\ \A m \in k + 1 .. Len(out) : out[m] = End

\* A stream the edge knows to be broken is cut off, not ended: the body is ended
\* only if the gateway's reply was good, its lines came with the share, and no
\* character was left incomplete; and a client of a stream never sees a status
\* after its first.  Lines that end early, between two chunks, are not noticed.
EndedOnlyIfClean ==
  /\ End \in Range(out) => reply = "ok" /\ pending = <<>> /\ (read # <<>> /\ ndjson => share)
  /\ \A k \in DOMAIN out : out[k].kind = "status" <=> k = 1
=============================================================================
