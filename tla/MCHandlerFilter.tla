--------------------------- MODULE MCHandlerFilter ---------------------------
(***************************************************************************)
(* Instances of HandlerFilter for TLC: the plans each run considers.       *)
(***************************************************************************)
EXTENDS HandlerFilter

\* Response phases in which a handler leaves nothing unread.
ResponsePlans ==
  {<<"none", "passthrough">>, <<"partial", "passthrough">>,
   <<"skip", "passthrough">>, <<"read", "observe">>, <<"skip", "observe">>,
   <<"read", "buffer">>}

PlanOf(body, out, panic, r) ==
  [body |-> body, out |-> out, panic |-> panic, resp |-> r[1], mode |-> r[2]]

\* The request body is read to its end.  A request handler's panic only where
\* no ResponseFunc is registered, a response handler's only in Observe mode.
BufferedPlans ==
  {PlanOf("read", out, "no", r) : out \in {"forward", "send"}, r \in ResponsePlans}
  \cup {PlanOf("read", out, "request", <<"none", "passthrough">>) :
          out \in {"forward", "send"}}
  \cup {PlanOf("read", "forward", "response", r) :
          r \in {<<"read", "observe">>, <<"skip", "observe">>}}

\* The request body is streamed on: SkipBody or LimitBody.
StreamingPlans ==
  {PlanOf(body, "forward", "no", r) :
     body \in {"skip", "limit"},
     r \in ResponsePlans \cup {<<"skip", "buffer">>}}
  \cup {PlanOf(body, "forward", "request", <<"none", "passthrough">>) :
          body \in {"skip", "limit"}}

FilterPlans == BufferedPlans \cup StreamingPlans

\* The handlers of the runs that end in a counterexample: one that returns
\* without having read the body; response handlers that panic with a response
\* held; and the pattern of examples/auth, SkipBody and then Send.
UnreadPlans == {PlanOf("partial", "forward", "no", <<"none", "passthrough">>)}
PanicPlans  == {PlanOf("read", "forward", "response", r) :
                  r \in {<<"partial", "passthrough">>, <<"read", "buffer">>}}
SkipSendPlans == {PlanOf("skip", "send", "no", <<"none", "passthrough">>)}
==============================================================================
