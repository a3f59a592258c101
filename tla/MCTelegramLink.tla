--------------------------- MODULE MCTelegramLink ---------------------------
(***************************************************************************)
(* Small instances of TelegramLink for TLC.                                *)
(***************************************************************************)
EXTENDS TelegramLink, TLC

CONSTANTS u1, u2, a, b, alice, bob

(* Two chats with usernames, and two whose accounts have none.             *)
Named == (a :> alice) @@ (b :> bob)
Nameless == (a :> NoName) @@ (b :> NoName)
=============================================================================
