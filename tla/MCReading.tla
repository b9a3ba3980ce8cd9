----------------------------- MODULE MCReading -----------------------------
(* The provider chain, and what becomes of a statement it read: two        *)
(* machines that share nothing, one of them at a time.                     *)
EXTENDS ProviderChain, StatementReading

VARIABLE machine
everything == <<call, reading, machine>>

TheKinds == [r \in Readers |-> r]
TwoEach == [r \in Readers |-> 2]
Both == <<"local", "gemini">>

Printed(day, cents, says) == [day |-> day, cents |-> cents, says |-> says, summary |-> FALSE]
Three == <<Printed(2, 500, "pay"), Printed(9, -200, "rent"), Printed(9, -300, "shop")>>
Twins == <<Printed(2, 500, "pay"), Printed(9, -200, "toll"), Printed(9, -200, "toll")>>
Summed == <<Printed(2, 500, "pay"), Printed(9, -200, "rent"), Printed(9, -100, "shop"),
            [Printed(28, 200, "Total") EXCEPT !.summary = TRUE]>>
Tolls == <<Printed(2, 500, "pay"), Printed(9, -200, "toll"), Printed(10, -200, "toll")>>
Paper(lines, card, balances, paged, known) ==
  [lines |-> lines, opening |-> 100, card |-> card, balances |-> balances, paged |-> paged,
   known |-> known]
ThePapers ==
  {Paper(Three, FALSE, TRUE, FALSE, TRUE), Paper(Three, TRUE, FALSE, FALSE, FALSE),
   Paper(Tolls, FALSE, TRUE, TRUE, FALSE), Paper(Twins, FALSE, FALSE, TRUE, FALSE),
   Paper(Twins, TRUE, TRUE, FALSE, FALSE), Paper(Summed, FALSE, FALSE, FALSE, TRUE)}

Blank == Paper(Three, FALSE, TRUE, FALSE, TRUE)

Init ==
  /\ ChainInit /\ ReadingInit
  /\ \/ machine = "chain" /\ printed = Blank
     \/ machine = "statement"

Next ==
  \/ machine = "chain" /\ ChainNext /\ UNCHANGED <<reading, machine>>
  \/ machine = "statement" /\ ReadingNext /\ UNCHANGED <<call, machine>>

(* A behaviour of the other machine is unfair to the chain, which waits    *)
(* there: liveness is checked of the chain's own behaviours.               *)
Spec == Init /\ [][Next]_everything /\ ChainFairness
=============================================================================
