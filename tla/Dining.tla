------------------------------- MODULE Dining -------------------------------
(***************************************************************************)
(* What both philosopher programs promise whatever they synchronise with:  *)
(* philosophers that use a common chopstick never eat at the same time.    *)
(***************************************************************************)
CONSTANTS Phil, Rivals   \* Rivals: pairs of philosophers with a chopstick in common
VARIABLE eating          \* the philosophers that are eating

Init == eating = {}

Begin(p) ==
  /\ p \notin eating
  /\ \A q \in eating : <<p, q>> \notin Rivals
  /\ eating' = eating \cup {p}

End(p) == p \in eating /\ eating' = eating \ {p}

Next == \E p \in Phil : Begin(p) \/ End(p)
Spec == Init /\ [][Next]_eating
=============================================================================
