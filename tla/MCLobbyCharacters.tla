-------------------------- MODULE MCLobbyCharacters ---------------------------
(***************************************************************************)
(* An instance of LobbyCharacters for TLC.                                 *)
(***************************************************************************)
EXTENDS LobbyCharacters, TLC

\* A login request, a walk and the leave menu.
MCMoveCommands ==
    {{"BEGIN", "ACK"}, {"POS", "FORWARD", "ACK"}, {"STOP", "ACK"}}

=============================================================================
