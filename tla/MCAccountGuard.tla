--------------------------- MODULE MCAccountGuard ---------------------------
(* Two accounts; one of them has a second key.                               *)
EXTENDS AccountGuard, TLC

CONSTANTS mine, other, k1, k2, k3

TwoAccounts == {mine, other}
ThreeKeys   == {k1, k2, k3}
Opens       == [k \in ThreeKeys |-> IF k = k3 THEN other ELSE mine]

\* The two keys of one account may be exchanged.
SameAccount == Permutations({k1, k2})

LateBinds    == {"unread_id", "bind_in_round"}
NoFaults     == {}
=============================================================================
