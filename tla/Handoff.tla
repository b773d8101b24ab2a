------------------------------ MODULE Handoff ------------------------------
(***************************************************************************)
(* What the buffer pool of pc/ promises: cells that are filled one product *)
(* at a time and emptied by a delivery, so that what is delivered is what  *)
(* was put, whole, and each product exactly once.                          *)
(***************************************************************************)
CONSTANTS Cell, Item, Empty
VARIABLES cells,      \* cells[c]: the product in cell c, or Empty
          delivered   \* the last product delivered

handoffVars == <<cells, delivered>>

Init == cells = [c \in Cell |-> Empty] /\ delivered = Empty

Put(c, x) ==
  /\ cells[c] = Empty
  /\ cells' = [cells EXCEPT ![c] = x]
  /\ UNCHANGED delivered

Get(c) ==
  /\ cells[c] # Empty
  /\ delivered' = cells[c]
  /\ cells' = [cells EXCEPT ![c] = Empty]

Next == \E c \in Cell : Get(c) \/ \E x \in Item : Put(c, x)
Spec == Init /\ [][Next]_handoffVars
=============================================================================
