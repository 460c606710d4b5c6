--------------------------- MODULE NetworkProtocol ---------------------------
(***************************************************************************)
(* The vocabulary of the XCONNECT lobby protocol: peer statuses, the       *)
(* commands a packet can carry and the two operations that only concern    *)
(* one packet.                                                             *)
(*                                                                         *)
(* cmd[] of NetworkPacket has one cell per command, which holds either     *)
(* that command or something that is not it; a packet's commands are       *)
(* therefore the set of cells that are set.  Only commands that decide     *)
(* something on the lobby server are kept.  POS asks it to move a          *)
(* character and the Motions say where.  "NOTICE" is not a wire command    *)
(* of its own: it is the STOP cell when the departure notice of another    *)
(* player wrote it, kept apart so that properties can tell the two.        *)
(***************************************************************************)
EXTENDS Integers

Statuses == {"CONNECTED", "DISCONNECTED", "STASIS"}

Motions == {"JUMP", "FORWARD", "BACKWARD", "LEFT", "RIGHT"}

Commands == {"BEGIN", "ACK", "STOP", "NOTICE", "KICK", "BAN", "ACCEPT", "POS"}
            \cup Motions

LeaveCommands == {"STOP", "NOTICE", "KICK", "BAN"}

InvalidHash == -1

NoAddress == 0

BlankPacket(channel) == [hash |-> 0, cmd |-> {}, channel |-> channel]

\* The part of NetworkPeer::reset that touches the packet: only the cmd cells
\* are invalidated, packet.hash and packet.channel keep their last values.
ResetPacket(p) == [p EXCEPT !.cmd = {}]

\* on_leave writes the STOP cell of every connected peer's packet.
NoticePacket(p) == [p EXCEPT !.cmd = @ \cup {"NOTICE"}]

=============================================================================
