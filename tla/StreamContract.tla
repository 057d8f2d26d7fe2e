---------------------------- MODULE StreamContract ----------------------------
(***************************************************************************)
(* What a jisr filter promises the rest of Envoy's filter chain, seen from *)
(* outside: a request is held while its handler runs; then it is either    *)
(* forwarded or answered locally, once and for all; a response exists only *)
(* for a forwarded request, may be held, and is then delivered.  Once the  *)
(* stream is over nothing happens any more.  HandlerFilter implements this *)
(* for handlers that read the request body to its end, or never answer     *)
(* with Send.                                                              *)
(***************************************************************************)

VARIABLES request, response, over

cvars == <<request, response, over>>

Init == request = "none" /\ response = "none" /\ over = FALSE

RequestArrives ==
  /\ request = "none" /\ ~over
  /\ request' = "held"
  /\ UNCHANGED <<response, over>>

Forward ==
  /\ request = "held" /\ ~over
  /\ request' = "forwarded"
  /\ UNCHANGED <<response, over>>

Answer ==
  /\ request = "held" /\ ~over
  /\ request' = "answered"
  /\ UNCHANGED <<response, over>>

ResponseArrives ==
  /\ request = "forwarded" /\ response = "none" /\ ~over
  /\ response' \in {"held", "delivered"}
  /\ UNCHANGED <<request, over>>

DeliverResponse ==
  /\ response = "held" /\ ~over
  /\ response' = "delivered"
  /\ UNCHANGED <<request, over>>

End ==
  /\ request # "none" /\ ~over
  /\ over' = TRUE
  /\ UNCHANGED <<request, response>>

Next ==
  \/ RequestArrives \/ Forward \/ Answer
  \/ ResponseArrives \/ DeliverResponse \/ End

Spec == Init /\ [][Next]_cvars
===============================================================================
