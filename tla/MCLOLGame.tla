------------------------------ MODULE MCLOLGame ------------------------------
(* LOLGame with two champions and the phases of an ARAM game; "Other" is one the
   program does not know. *)
EXTENDS LOLGame

MCChamps == {1, 2}
Alone == {{}}
WithOne == {{}, {0}, {1}, {2}}
LobbyAndSelect == {"None", "ChampSelect", "InProgress"}
SelectOnly == {"None", "ChampSelect"}
WithReconnect == LobbyAndSelect \cup {"Reconnect", "Other"}
=============================================================================
