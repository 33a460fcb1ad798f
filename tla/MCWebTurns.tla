----------------------------- MODULE MCWebTurns -----------------------------
(* One conversation with two messages and one with one; in chats beside      *)
(* one turn of telegram, in side_by_side without.                            *)
EXTENDS WebTurns

CONSTANTS s1, s2, tg

TwoBridges == {"web", "telegram"}
AllTurns   == {s1, s2, tg}
Belongs    == [t \in AllTurns |-> IF t = tg THEN "telegram" ELSE "web"]
ThreeSent  == [m \in 1 .. 3 |-> IF m = 2 THEN s2 ELSE s1]
=============================================================================
