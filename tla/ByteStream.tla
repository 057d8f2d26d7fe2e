------------------------------ MODULE ByteStream ------------------------------
(***************************************************************************)
(* What r.Body promises a handler: the bytes of the body in order, at most *)
(* lim of them when LimitBody set a limit (0: none), and an EOF that is    *)
(* final and honest: it comes with the byte that reaches the limit, or     *)
(* after the last byte of a body that has ended, or once the body has been *)
(* given up (SkipBody, a disconnect).                                      *)
(***************************************************************************)
EXTENDS Naturals

VARIABLES lim, offered, ended, givenUp, delivered, eof

bvars == <<lim, offered, ended, givenUp, delivered, eof>>

Init ==
  /\ lim \in Nat /\ offered = 0 /\ ended = FALSE
  /\ givenUp = FALSE /\ delivered = 0 /\ eof = FALSE

Offer ==
  /\ ~ended
  /\ offered' \in {n \in Nat : n >= offered}
  /\ UNCHANGED <<lim, ended, givenUp, delivered, eof>>

Finish ==
  /\ ended' = TRUE
  /\ UNCHANGED <<lim, offered, givenUp, delivered, eof>>

GiveUp ==
  /\ givenUp' = TRUE
  /\ UNCHANGED <<lim, offered, ended, delivered, eof>>

Deliver ==
  /\ ~eof
  /\ delivered' > delivered /\ delivered' <= offered
  /\ lim > 0 => delivered' <= lim
  /\ eof' = (lim > 0 /\ delivered' = lim)
  /\ UNCHANGED <<lim, offered, ended, givenUp>>

EndOfStream ==
  /\ givenUp \/ (ended /\ delivered = offered)
  /\ eof' = TRUE
  /\ UNCHANGED <<lim, offered, ended, givenUp, delivered>>

Next == Offer \/ Finish \/ GiveUp \/ Deliver \/ EndOfStream

Spec == Init /\ [][Next]_bvars
===============================================================================
