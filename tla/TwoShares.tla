----------------------------- MODULE TwoShares -----------------------------
(* What the code promises of one account with two owners: the bot opens only     *)
(* while trading is not halted, closes only what is its own, and never touches   *)
(* what the user holds (lib/venue_wiring.py:378-383, manager/flatten.py:10-13).  *)
EXTENDS Integers

VARIABLES hand,   \* the user's position
          bot,    \* the bot's position on the same symbol
          halt    \* the kill switch

Size(x) == IF x < 0 THEN -x ELSE x
Inward  == bot * bot' >= 0 /\ Size(bot') < Size(bot)
Outward == bot * bot' >= 0 /\ Size(bot') > Size(bot)

Init == hand \in Int /\ bot = 0 /\ halt = FALSE

Open  == ~halt /\ Outward /\ UNCHANGED <<hand, halt>>
Close == Inward /\ UNCHANGED <<hand, halt>>

(* On a net account the user's own trade can close the bot's lots, never add any. *)
ByHand == (UNCHANGED bot \/ Inward) /\ UNCHANGED halt

Switch == halt' # halt /\ UNCHANGED <<hand, bot>>

Next == Open \/ Close \/ ByHand \/ Switch

Spec == Init /\ [][Next]_<<hand, bot, halt>>
=============================================================================
