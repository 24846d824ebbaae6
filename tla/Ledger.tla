------------------------------- MODULE Ledger -------------------------------
(***************************************************************************)
(* What a drain promises of the pods it found, whatever the cluster does:  *)
(* each is settled once, as evicted, skipped or failed, and none is        *)
(* forgotten.  NodeOps implements this.                                    *)
(***************************************************************************)
CONSTANTS
  Workers,   \* the drains under way at once
  Items      \* the pods a list can answer

VARIABLE ledger

Columns == {"evicted", "skipped", "failed"}

Blank == [todo |-> {}, evicted |-> {}, skipped |-> {}, failed |-> {}]

Init == ledger = [w \in Workers |-> Blank]

\* A list has answered: all of it is to be settled.
Open(w, found) ==
  /\ found \subseteq Items
  /\ ledger' = [ledger EXCEPT ![w] = [Blank EXCEPT !.todo = found]]

Settle(w, item, column) ==
  /\ item \in ledger[w].todo
  /\ ledger' = [ledger EXCEPT ![w].todo = @ \ {item}, ![w][column] = @ \cup {item}]

\* The drain begins anew, or its process dies: nothing of it is left to read.
Close(w) == ledger' = [ledger EXCEPT ![w] = Blank]

CloseAll == ledger' = [w \in Workers |-> Blank]

Next ==
  \/ CloseAll
  \/ \E w \in Workers :
       \/ Close(w)
       \/ Open(w, ledger'[w].todo)
       \/ \E item \in Items, column \in Columns : Settle(w, item, column)

Spec == Init /\ [][Next]_ledger
=============================================================================
