-------------------------- MODULE MCXConnectClient ---------------------------
(***************************************************************************)
(* Instances of XConnectClient for TLC.                                    *)
(***************************************************************************)
EXTENDS XConnectClient

Packet(cmd, hash) ==
    [cmd |-> cmd, hash |-> hash, publicHash |-> 0, channel |-> "DATA"]

\* Replies of the lobby server: an acceptance, the player's own packet sent
\* back, a kick, a ban together with a stop, and the notice that another
\* player, whose public hash is 2, has left.
MCServerPackets ==
    {Packet({"ACCEPT"}, 1), Packet({}, 1), Packet({"KICK"}, 1),
     Packet({"BAN", "STOP"}, 1), Packet({"BAN"}, 1),
     [Packet({"STOP"}, 2) EXCEPT !.publicHash = 2],
     [Packet({"KICK"}, 1) EXCEPT !.channel = "CHAT"]}

MCFewPackets == {Packet({"ACCEPT"}, 1), Packet({}, 1), Packet({"KICK"}, 1)}

=============================================================================
