------------------------------ MODULE TokenFifo ------------------------------
(***************************************************************************)
(* What the callback token store promises, with none of its indexes: the   *)
(* Limit most recently minted bindings between a short key and a long      *)
(* callback string, oldest first.  A key stands for one string and a       *)
(* string has one key for as long as the binding lives; a restart forgets  *)
(* them all.  TokenStore implements this with two maps and a queue.        *)
(***************************************************************************)
EXTENDS Naturals, Sequences

CONSTANTS
  Keys,     \* the short keys a button can carry
  Long,     \* the callback strings too long for a button
  Limit     \* how many bindings live at once

VARIABLE live   \* the living bindings, oldest first

Binding == [key : Keys, data : Long]

Init == live = << >>

\* The newest Limit bindings of a queue that has grown by one.
Newest(queue) == IF Len(queue) > Limit THEN Tail(queue) ELSE queue

Bind(k, d) ==
  /\ \A i \in DOMAIN live : live[i].key # k /\ live[i].data # d
  /\ live' = Newest(Append(live, [key |-> k, data |-> d]))

Forget == live' = << >>

Next == Forget \/ \E k \in Keys, d \in Long : Bind(k, d)

Spec == Init /\ [][Next]_live
=============================================================================
