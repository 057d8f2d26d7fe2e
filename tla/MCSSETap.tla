------------------------------- MODULE MCSSETap -------------------------------
(***************************************************************************)
(* Streams for TLC: both formats, with up to two lines of other content in *)
(* between, and data lines longer than one byte, so that each of them can  *)
(* be cut by the end of a buffer.  Of two usage chunks, as an OpenAI       *)
(* stream with continuous usage has them, each reports the tokens so far.  *)
(***************************************************************************)
EXTENDS SSETap

Event(kind) == [kind |-> kind, len |-> 1, in |-> 0, out |-> 0]
Data(kind, in, out) == [kind |-> kind, len |-> 2, in |-> in, out |-> out]
Text(n) == [kind |-> "other", len |-> n, in |-> 0, out |-> 0]

Content == {<<>>} \cup {<<Text(n)>> : n \in 1..2}

Anthropic ==
  {<<Event("event: message_start"), Data("start", 3, 1)>> \o c
     \o <<Event("event: message_delta"), Data("usage", in, 2)>> :
       c \in Content, in \in {0, 4}}
OpenAI ==
  {before \o <<Data("usage", 3, 2)>> \o after : before, after \in Content}
Continuous ==
  {<<Data("usage", 3, out)>> \o c \o <<Data("usage", in, 2)>> :
     out \in {0, 1}, c \in Content, in \in {0, 3}}

\* Where the lines end, from how long they are.
Laid(s) ==
  [k \in 1..Len(s) |->
     [kind |-> s[k].kind, in |-> s[k].in, out |-> s[k].out,
      end  |-> FoldLeft(LAMBDA n, part : n + part.len, 0, SubSeq(s, 1, k))]]

TapStreams == {Laid(s) : s \in Anthropic \cup OpenAI \cup Continuous}

\* Usage in a first chunk, and again in two at the end.
UsageThrice ==
  {Laid(<<Data("usage", 3, 0), Text(1), Data("usage", 0, 1), Data("usage", 0, 2)>>)}
===============================================================================
