-------------------------- MODULE MCTelegramPairing --------------------------
(* Two messages to one bot, from one account or from two.                    *)
EXTENDS TelegramPairing

CONSTANTS b1, user, other

OneBot   == [m \in Incoming |-> b1]
TwoUsers == [m \in Incoming |-> IF m = 1 THEN other ELSE user]
OneUser  == [m \in Incoming |-> user]
=============================================================================
