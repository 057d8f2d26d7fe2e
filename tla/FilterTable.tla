------------------------------ MODULE FilterTable ------------------------------
(***************************************************************************)
(* What the registration functions of handler.go promise together: one     *)
(* table from filter names to what was last registered under them.  A name *)
(* that is taken stays as it is and the registration panics; what is       *)
(* unregistered leaves nothing behind; what Envoy is given is the table of *)
(* that moment, and a filter is built only from an entry in it, whole: with*)
(* every handler its registration or its factory owes.                     *)
(***************************************************************************)
CONSTANTS
  Names, Entries,
  Free             \* not an entry: the name has none

VARIABLES
  table,      \* each name's entry, or Free
  published,  \* the table Envoy was last given
  panicked,   \* the last operation panicked
  built       \* the filter the last operation built, or Free

Init ==
  /\ table = [n \in Names |-> Free]
  /\ published = [n \in Names |-> Free]
  /\ panicked = FALSE /\ built = Free

Register(n, e) ==
  /\ table[n] = Free
  /\ table' = [table EXCEPT ![n] = e]
  /\ panicked' = FALSE /\ built' = Free
  /\ UNCHANGED published

Refuse(n) ==
  /\ table[n] # Free
  /\ panicked' = TRUE /\ built' = Free
  /\ UNCHANGED <<table, published>>

Unregister(n) ==
  /\ table' = [table EXCEPT ![n] = Free]
  /\ panicked' = FALSE /\ built' = Free
  /\ UNCHANGED published

Publish ==
  /\ published' = table
  /\ panicked' = FALSE /\ built' = Free
  /\ UNCHANGED table

\* Envoy asks for a filter, which may fail to be built.
Build(n) ==
  /\ published[n] # Free
  /\ panicked' = FALSE /\ built' \in {n, Free}
  /\ UNCHANGED <<table, published>>

Next ==
  \/ \E n \in Names :
       (\E e \in Entries : Register(n, e)) \/ Refuse(n) \/ Unregister(n) \/ Build(n)
  \/ Publish

Spec == Init /\ [][Next]_<<table, published, panicked, built>>
================================================================================
