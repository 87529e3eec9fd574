---------------------------- MODULE MCOpeStream -----------------------------
(***************************************************************************)
(* A small instance of OpeStream: texts with characters of one to three    *)
(* bytes cut in every place, bytes that are no text, and frames with       *)
(* interleaved tool calls, with and without an index or a finish_reason,   *)
(* and reasoning under either name and under both.                         *)
(***************************************************************************)
EXTENDS OpeStream

\* Bytes: a character of one byte, one of three, one of one.
B(c, i, n) == [char |-> c, i |-> i, n |-> n]
TextBytes  == <<B("a", 1, 1), B("e", 1, 3), B("e", 2, 3), B("e", 3, 3), B("x", 1, 1)>>

Text(bytes) == [kind |-> "text", bytes |-> bytes]
Cut(k, m) == <<Text(SubSeq(TextBytes, 1, k)), Text(SubSeq(TextBytes, k + 1, m)),
               Text(SubSeq(TextBytes, m + 1, Len(TextBytes)))>>

Frame(text, reasoning, content, tools, finish) ==
  [kind |-> "delta", text |-> text, reasoning |-> reasoning, reasoning_content |-> content,
   tools |-> tools, finish |-> finish]
Delta(text, reasoning, tools, finish) == Frame(text, reasoning, <<>>, tools, finish)
Arg(index, arg) == [index |-> index, arg |-> arg]

\* Two tool calls whose arguments arrive alternately.
Interleaved(finish) ==
  <<Delta(<<"t">>, <<"r">>, <<Arg(0, "p")>>, None),
    Delta(<<>>, <<>>, <<Arg(1, "q"), Arg(0, "s")>>, None),
    Delta(<<>>, <<>>, <<Arg(1, "u")>>, finish)>>

MCAnswers ==
  {Cut(k, m) : k \in 1 .. 3, m \in 3 .. 5}
    \cup {<<>>,
          <<Text(SubSeq(TextBytes, 1, 3))>>,
          <<Text(<<B("a", 1, 1), B("e", 2, 3)>>), Text(<<B("a", 1, 1)>>)>>,
          <<Delta(<<"t">>, <<>>, <<>>, None), Delta(<<>>, <<>>, <<>>, None),
            Delta(<<>>, <<>>, <<>>, "stop")>>,
          <<Delta(<<>>, <<"r">>, <<>>, None), Delta(<<"t">>, <<>>, <<>>, None)>>,
          <<Frame(<<"t">>, <<"r">>, <<"s">>, <<>>, None),
            Frame(<<>>, <<>>, <<"u">>, <<>>, "stop")>>,
          <<Delta(<<>>, <<>>, <<Arg(1, "p"), Arg(None, "q")>>, None),
            Delta(<<>>, <<>>, <<Arg(None, "s"), Arg(2, "u")>>, "tool_calls")>>,
          <<Delta(<<>>, <<>>, <<Arg(1, "p")>>, "tool_calls")>>}
    \cup {Interleaved(finish) : finish \in Finish}
=============================================================================
