--------------------------- MODULE LobbyCharacters ----------------------------
(***************************************************************************)
(* The characters of the lobby server, on top of LobbyServer.              *)
(*                                                                         *)
(* A frame of ServerMain.cpp receives (recv_all), updates the components   *)
(* (CharacterComponent::update), and runs the events in the order they     *)
(* were added: CharacterMovementEvent, NpPhysicsEvent (which has no nodes),*)
(* CharacterHealthMonitorEvent, and then TimeoutEvent and LoginEvent, which*)
(* with the send_all that ends the frame are LobbyServer's.  Each loop     *)
(* over the characters takes one step per character, and the timeout       *)
(* threads interleave with all of them.                                    *)
(***************************************************************************)
EXTENDS LobbyServer

CONSTANT
    Torus         \* coordinates are counted in steps, modulo Torus

ASSUME TorusAssumption == Torus \in Nat \ 0..2

VARIABLES
    health,       \* CharacterComponent::mHealth
    canSpawn,     \* CharacterComponent::mCanSpawn
    state,        \* CharacterComponent::mState
    pos,          \* CharacterComponent::pos()
    reported,     \* the health field of each peer's packet
    stage,        \* which loop over the characters runs, "lobby" when none does
    turn          \* the character that loop is at

bodyVars  == <<health, canSpawn, state, pos>>
stageVars == <<stage, turn>>
charVars  == <<bodyVars, reported, stageVars>>
allVars   == <<vars, charVars>>

FullHealth   == 100
FromClient   == -1     \* whatever number a datagram had in its health field
Origin       == [x |-> 0, y |-> 0, z |-> 0]
Coordinates  == 0..(Torus - 1)
Places       == [x : Coordinates, y : Coordinates, z : Coordinates]
States       == {"ALIVE", "DEAD", "INVALID"}
Stages       == {"update", "movement", "monitor", "lobby"}

Alive(c) == health[c] > 0
Bound(c) == peerOf[c] # NoPeer

-----------------------------------------------------------------------------
(* The loops over the characters *)

EventsFirst == [lobby |-> "movement", movement |-> "update",
                update |-> "monitor", monitor |-> "lobby"]

NextLoop == [lobby |-> "update", update |-> "movement",
             movement |-> "monitor", monitor |-> "lobby"]

\* One step of a loop; after the last one the next loop begins.
Turn(loop) ==
    /\ stage = loop
    /\ IF turn < MaxConnections - 1
       THEN stage' = stage /\ turn' = turn + 1
       ELSE stage' = NextLoop[loop] /\ turn' = 0
    /\ UNCHANGED vars

-----------------------------------------------------------------------------
(* CharacterComponent::update *)

ReviveNegative(c) ==
    IF health[c] < 0
    THEN /\ health' = [health EXCEPT ![c] = FullHealth]
         /\ state' = [state EXCEPT ![c] = "ALIVE"]
         /\ canSpawn' = [canSpawn EXCEPT ![c] = TRUE]
    ELSE UNCHANGED <<health, canSpawn, state>>

Revive(c) ==
    IF health[c] < 1
    THEN /\ health' = [health EXCEPT ![c] = FullHealth]
         /\ state' = [state EXCEPT ![c] = "ALIVE"]
         /\ canSpawn' = [canSpawn EXCEPT ![c] = TRUE]
    ELSE UNCHANGED <<health, canSpawn, state>>

\* The inventory is empty, so a SLOT command selects nothing; it makes the update
\* write the health into the packet.  Whether a packet has one is left open.
UpdateCharacter ==
    /\ Turn("update")
    /\ \/ /\ Bound(turn)
          /\ Revive(turn)
          /\ \/ UNCHANGED reported
             \/ reported' = [reported EXCEPT ![peerOf[turn]] = health'[turn]]
       \/ /\ ~Bound(turn)
          /\ state' = [state EXCEPT ![turn] = "INVALID"]
          /\ UNCHANGED <<health, canSpawn, reported>>
    /\ UNCHANGED pos

-----------------------------------------------------------------------------
(* CharacterMovementEvent::operator() *)

\* The packet is the character's own, on the data channel, and asks to move.
Moves(c) ==
    /\ canSpawn[c]
    /\ Bound(c)
    /\ packet[peerOf[c]].hash = hash[peerOf[c]]
    /\ packet[peerOf[c]].channel # "CHAT"
    /\ "POS" \in packet[peerOf[c]].cmd

Step(cmd, ahead, back) ==
    (IF ahead \in cmd THEN 1 ELSE 0) - (IF back \in cmd THEN 1 ELSE 0)

\* Walk speed and jump power are one step; nothing pulls a character down.
Moved(p, cmd) ==
    [x |-> (p.x + Step(cmd, "RIGHT", "LEFT")) % Torus,
     y |-> (p.y + Step(cmd, "JUMP", "nothing")) % Torus,
     z |-> (p.z + Step(cmd, "FORWARD", "BACKWARD")) % Torus]

\* The packet stays as it is: the same datagram moves the character again in
\* the next frame, until another one arrives.
MoveCharacter ==
    /\ Turn("movement")
    /\ pos' = IF Moves(turn)
              THEN [pos EXCEPT ![turn] = Moved(@, packet[peerOf[turn]].cmd)]
              ELSE pos
    /\ UNCHANGED <<health, canSpawn, state, reported>>

-----------------------------------------------------------------------------
(* CharacterHealthMonitorEvent::operator() *)

Monitored(c) == Bound(c) /\ packet[peerOf[c]].channel # "CHAT"

Dies(c) == Monitored(c) /\ ~Alive(c) /\ canSpawn[c]

ReportedDeaths(c) ==
    IF Dies(c) THEN [reported EXCEPT ![peerOf[c]] = health[c]] ELSE reported

ReportedHealth(c) ==
    IF Monitored(c) THEN [reported EXCEPT ![peerOf[c]] = health[c]] ELSE reported

\* A death also marks the packet DEAD and starts the thread that respawns the
\* character five seconds later.  That thread is left out: NobodyDies.
MonitorCharacter ==
    /\ Turn("monitor")
    /\ reported' = ReportedHealth(turn)
    /\ canSpawn' = [canSpawn EXCEPT ![turn] = @ /\ ~Dies(turn)]
    /\ state' = IF Dies(turn) THEN [state EXCEPT ![turn] = "DEAD"] ELSE state
    /\ UNCHANGED <<health, pos>>

-----------------------------------------------------------------------------
(* What LobbyServer's steps do to the characters *)

InLobby == stage = "lobby"

\* register_packet copies the whole datagram, its health field included; the
\* datagram that ends recv_all starts the loops over the characters.
Received ==
    IF pc' = "recv" THEN UNCHANGED stageVars
                    ELSE stage' = NextLoop.lobby /\ turn' = 0

CharDeliver ==
    /\ InLobby
    /\ \E a \in Addresses : \E p \in DatagramsOf(a) :
          /\ RecvPacket(a, p)
          /\ reported' = [reported EXCEPT ![Demux(cursor, a)] = FromClient]
    /\ Received
    /\ UNCHANGED bodyVars

CharRecvNothing ==
    /\ InLobby
    /\ RecvNothing \/ \E a \in Addresses : RecvUnowned(a)
    /\ Received
    /\ UNCHANGED <<bodyVars, reported>>

\* XplicitHandleJoin sets the health of the character it is about to give away.
CharJoinBegin ==
    /\ InLobby
    /\ JoinBegin
    /\ health' = [health EXCEPT ![playerCount] = 0]
    /\ UNCHANGED <<canSpawn, state, pos, reported, stageVars>>

CharLobby ==
    /\ InLobby
    /\ \/ Timeout \/ Logout \/ OnJoin \/ JoinSkip \/ JoinFinish \/ SendAll
    /\ UNCHANGED charVars

CharMain ==
    \/ CharDeliver \/ CharRecvNothing
    \/ UpdateCharacter \/ MoveCharacter \/ MonitorCharacter
    \/ CharJoinBegin \/ CharLobby

CharCheck(c) == CheckStep(c) /\ UNCHANGED charVars

CharTick == Tick /\ UNCHANGED charVars

-----------------------------------------------------------------------------
(* The specification *)

CharInit ==
    /\ Init
    /\ health = [c \in Characters |-> FullHealth]
    /\ canSpawn = [c \in Characters |-> TRUE]
    /\ state = [c \in Characters |-> "ALIVE"]
    /\ pos = [c \in Characters |-> Origin]
    /\ reported = [s \in Slots |-> 0]
    /\ stage = "lobby"
    /\ turn = 0

CharNext == CharMain \/ (\E c \in Checks : CharCheck(c)) \/ CharTick

CharSpec == CharInit /\ [][CharNext]_allVars

\* As in LobbyServer: the frames follow each other without blocking.
CharFairSpec ==
    /\ CharSpec
    /\ WF_allVars(CharMain)
    /\ \A c \in Checks : WF_allVars(CharCheck(c))

-----------------------------------------------------------------------------
(* Properties *)

CharTypeOK ==
    /\ health \in [Characters -> {0, FullHealth}]
    /\ canSpawn \in [Characters -> BOOLEAN]
    /\ state \in [Characters -> States]
    /\ pos \in [Characters -> Places]
    /\ reported \in [Slots -> {FromClient, 0, FullHealth}]
    /\ stage \in Stages
    /\ turn \in Characters

\* A login leaves its character with no health and the monitor kills characters
\* without health (LoginEvent.cpp:57, CharacterHealthMonitorEvent.cpp:71), yet
\* no player ever starts with a death: between the two, the component update of
\* the next frame restores the health.  It also means that the respawn thread
\* never runs and that nobody is ever taken to the spawn point.
NobodyDies == \A c \in Characters : canSpawn[c] /\ state[c] # "DEAD"

\* "Only works if the player is alive" (CharacterMovementEvent.h:19), although
\* the event tests can_spawn and never the health.
MovesOnlyAlive ==
    [][\A c \in Characters :
          pos'[c] # pos[c] => Alive(c) /\ state[c] = "ALIVE"]_allVars

\* A character moves only for a player who is logged in, by a packet that
\* carries the private hash of that login.  A character that kept the peer of
\* somebody who left would have -1 to compare with, the hash of any datagram
\* that is not signed (CharacterMovementEvent.cpp:36).
MovesOnlySigned ==
    [][\A c \in Characters :
          pos'[c] # pos[c] =>
              /\ Bound(c)
              /\ hash[peerOf[c]] # InvalidHash
              /\ packet[peerOf[c]].hash = hash[peerOf[c]]]_allVars

\* The health a client is told is the server's.  The packet that is sent is the
\* one that was received, with the client's own number in it, unless the monitor
\* wrote over it in between; a player who logged in during this frame is told
\* in the next one, and the monitor skips the chat channel.
HealthIsTheServers ==
    InLobby /\ pc # "recv" =>
        \A c \in Characters :
            Bound(c) /\ Alive(c) /\ packet[peerOf[c]].channel # "CHAT"
                => reported[peerOf[c]] = health[c]

\* Whoever logs in comes to life, unless the player leaves before.
PlayersComeToLife ==
    \A c \in Characters :
        Bound(c) ~> (~Bound(c) \/ (Alive(c) /\ state[c] = "ALIVE"))

\* The inductive invariant: once the component update has passed a character
\* and until the logins of this frame, a bound character is alive.
Updated(c) == \/ stage \in {"movement", "monitor"}
              \/ stage = "update" /\ c < turn

RevivedInTime ==
    \A c \in Characters : Bound(c) /\ Updated(c) => Alive(c) /\ state[c] = "ALIVE"

\* Health is given only together with the state, and the character a login is
\* about to give away has none left.
LivingState ==
    /\ \A c \in Characters : Bound(c) /\ Alive(c) => state[c] = "ALIVE"
    /\ pc = "joining" => health[playerCount] = 0

\* The monitor has written over the packets of the characters behind it, and
\* until the end of the frame nothing is received.
Reported(c) == \/ stage = "monitor" /\ c < turn
               \/ stage = "lobby" /\ pc # "recv"

HealthReported ==
    \A c \in Characters :
        Bound(c) /\ Alive(c) /\ packet[peerOf[c]].channel # "CHAT" /\ Reported(c)
            => reported[peerOf[c]] = health[c]

\* The loops over the characters run between recv_all and the timeout pass.
StageOfFrame == stage # "lobby" => pc = "timeout" /\ cursor = 1

CharInv ==
    /\ CharTypeOK
    /\ NobodyDies
    /\ RevivedInTime
    /\ LivingState
    /\ HealthReported
    /\ StageOfFrame

=============================================================================
