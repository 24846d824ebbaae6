----------------------------- MODULE MCKeyboards -----------------------------
(* Three long strings, two of which share their shortest digest prefix, and  *)
(* a store of two bindings: collisions, reuse and evictions all occur.       *)
EXTENDS Keyboards, TLC

CONSTANTS home, d1, d2, d3, p, p1, p2, q, q3

MCPrefix == d1 :> <<p, p1>> @@ d2 :> <<p, p2>> @@ d3 :> <<q, q3>>
MCMenus == {<<d1, d2>>, <<d3>>, <<d2, home>>}
=============================================================================
