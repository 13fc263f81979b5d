------------------------------ MODULE Brackets ------------------------------
(***************************************************************************)
(* What Strategy001 (strategy2/strategy001.h) wants of its OTOCO lists.    *)
(* Each list is a bracket: a buy that waits to be entered; once entered,   *)
(* a position held between a stop and a profit target, which ends it one   *)
(* way or the other and for good.  A new bracket takes the place of the    *)
(* one that was still waiting, and of nothing else.                        *)
(***************************************************************************)
EXTENDS Naturals, Sequences

VARIABLE brackets  \* the state of each bracket ever placed

States == {"waiting", "held", "stopped", "taken", "withdrawn"}

Init == brackets = <<>>

Withdrawn == [b \in DOMAIN brackets |->
                IF brackets[b] = "waiting" THEN "withdrawn" ELSE brackets[b]]
Place == brackets' = Append(Withdrawn, "waiting")

Becomes(b, from, to) ==
  /\ brackets[b] = from
  /\ brackets' = [brackets EXCEPT ![b] = to]

Enter(b)      == Becomes(b, "waiting", "held")
StopOut(b)    == Becomes(b, "held", "stopped")
TakeProfit(b) == Becomes(b, "held", "taken")

Next == Place \/ \E b \in DOMAIN brackets : Enter(b) \/ StopOut(b) \/ TakeProfit(b)

Spec == Init /\ [][Next]_brackets
=============================================================================
