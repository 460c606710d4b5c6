---------------------------- MODULE MCLobbyServer ----------------------------
(***************************************************************************)
(* Instances of LobbyServer for TLC.                                       *)
(***************************************************************************)
EXTENDS LobbyServer, TLC

\* What a client sends: its login request, the keep-alive that every frame of
\* NetworkComponent::update repeats, and the departure of the leave menu.
MCClientCommands == {{"BEGIN", "ACK"}, {"ACK"}, {"STOP", "ACK"}}

\* The first of them alone, for clients that come and then fall silent.
MCLoginRequests == {{"BEGIN", "ACK"}}

\* And what LocalHumanoidMoveEvent adds: it sends the last packet it received
\* back, with whatever commands the server had left in it.
MCEchoCommands == MCClientCommands \cup
    {{"BEGIN", "ACCEPT", "ACK"}, {"ACCEPT", "STOP", "ACK"}, {"KICK", "ACK"}}

CheckSymmetry == Permutations(Checks)

=============================================================================
