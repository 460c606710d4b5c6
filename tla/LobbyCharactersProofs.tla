------------------------ MODULE LobbyCharactersProofs -------------------------
(***************************************************************************)
(* Proofs about LobbyCharacters, for any number of slots, addresses,       *)
(* timeout threads and seconds and a torus of any size.                    *)
(***************************************************************************)
EXTENDS LobbyCharacters, LobbyServerProofs

-----------------------------------------------------------------------------
(* Every step is a step of the lobby, or one that leaves it alone *)

LEMMA CharMainIsMain == CharMain => Main \/ UNCHANGED vars
<1>1. CharDeliver => Main
    BY DEF CharDeliver, Main, Recv, Deliver
<1>2. CharRecvNothing => Main
    BY DEF CharRecvNothing, Main, Recv
<1>3. UpdateCharacter \/ MoveCharacter \/ MonitorCharacter => UNCHANGED vars
    BY DEF UpdateCharacter, MoveCharacter, MonitorCharacter, Turn
<1>4. CharJoinBegin => Main
    BY DEF CharJoinBegin, Main, Login
<1>5. CharLobby => Main
    BY DEF CharLobby, Main, Login, Logout
<1> QED
    BY <1>1, <1>2, <1>3, <1>4, <1>5, Zenon DEF CharMain

LEMMA CharStepIsLobbyStep == [CharNext]_allVars => [Next]_vars
<1>1. CharNext => Next \/ UNCHANGED vars
    BY CharMainIsMain, Zenon DEF CharNext, CharCheck, CharTick, Next
<1>2. UNCHANGED allVars => UNCHANGED vars
    BY Zenon DEF allVars
<1> QED
    BY <1>1, <1>2, Zenon

-----------------------------------------------------------------------------
(* What the lobby's steps leave of a packet and of a seat *)

\* Only a datagram changes the channel of a packet.
LEMMA ChannelsKept ==
    ASSUME LobbyInv, Next, pc # "recv" \/ Tick \/ (\E c \in Checks : CheckStep(c)),
           NEW s \in Slots
    PROVE  packet'[s].channel = packet[s].channel
<1> USE DEF LobbyInv
<1>1. packet[s] \in Packets /\ packet \in [Slots -> Packets]
    BY DEF TypeOK
<1>2. ASSUME NEW p \in Packets
      PROVE  /\ ResetPacket(p).channel = p.channel
             /\ NoticePacket(p).channel = p.channel
    BY DEF ResetPacket, NoticePacket, Packets
<1>3. ASSUME NEW c \in Checks, CheckStep(c)
      PROVE  packet'[s].channel = packet[s].channel
    <2> DEFINE t == check[c].slot
    <2>1. t \in Slots /\ packet[t] \in Packets
        BY DEF TypeOK
    <2>2. \/ UNCHANGED packet
          \/ packet' = [packet EXCEPT ![t].cmd = @ \cup {"KICK"}]
          \/ packet' = [packet EXCEPT ![t] = Evicted(t, "STOP")]
          \/ packet' = [packet EXCEPT ![t] = Evicted(t, "KICK")]
          \/ packet' = [packet EXCEPT ![t] = AckConsumed(t)]
        <3>1. CASE CheckStart(c) \/ CheckWake(c)
            BY <3>1 DEF CheckStart, CheckWake, slotVars
        <3>2. CASE CheckHandshake(c)
            BY <3>2 DEF CheckHandshake
        <3>3. CASE CheckExpire(c) \/ CheckRefuse(c) \/ CheckClear(c)
            BY <3>3 DEF CheckExpire, CheckRefuse, CheckClear
        <3> QED
            BY <1>3, <3>1, <3>2, <3>3 DEF CheckStep
    <2>3. /\ Evicted(t, "STOP").channel = packet[t].channel
          /\ Evicted(t, "KICK").channel = packet[t].channel
          /\ AckConsumed(t).channel = packet[t].channel
          /\ [packet[t] EXCEPT !.cmd = @ \cup {"KICK"}].channel = packet[t].channel
        BY <2>1 DEF Evicted, AckConsumed, Packets
    <2>4. \/ packet'[s] = packet[s]
          \/ s = t /\ packet'[s] \in {[packet[t] EXCEPT !.cmd = @ \cup {"KICK"}],
                                     Evicted(t, "STOP"), Evicted(t, "KICK"),
                                     AckConsumed(t)}
        BY <1>1, <2>1, <2>2
    <2> QED
        BY <2>3, <2>4
<1>4. Recv => pc = "recv"
    BY DEF Recv, RecvNothing, Deliver, RecvPacket, RecvUnowned
<1>5. CASE LogOff
    BY <1>1, <1>2, <1>5 DEF LogOff
<1>6. CASE JoinFinish
    <2>1. cursor \in Slots /\ packet[cursor] \in Packets
        BY DEF TypeOK
    <2>2. packet'[s] \in {packet[s], [[packet[s] EXCEPT !.hash = publicHash[s]]
                                          EXCEPT !.cmd = @ \cup {"ACCEPT"}]}
        BY <1>1, <1>6, <2>1 DEF JoinFinish
    <2> QED
        BY <1>1, <2>2 DEF Packets
<1>7. CASE \/ Timeout \/ OnLeave \/ LeaveSkip \/ OnJoin \/ JoinSkip \/ JoinBegin
           \/ SendAll \/ Tick
    BY <1>7 DEF Timeout, OnLeave, LeaveSkip, OnJoin, JoinSkip, JoinBegin, SendAll,
                Tick, slotVars
<1> QED
    BY <1>3, <1>4, <1>5, <1>6, <1>7, Zenon DEF Next, Main, Login, Logout

\* A character gets a peer when its login finishes and at no other time.
LEMMA SeatsKept ==
    ASSUME LobbyInv, Next, NEW c \in Characters, peerOf'[c] # NoPeer
    PROVE  \/ peerOf'[c] = peerOf[c]
           \/ JoinFinish /\ c = playerCount
<1> USE DEF LobbyInv
<1>1. ASSUME LogOff PROVE peerOf'[c] = peerOf[c]
    BY <1>1, SlotFacts DEF LogOff, Release, TypeOK
<1>2. ASSUME JoinFinish, c # playerCount PROVE peerOf'[c] = peerOf[c]
    BY <1>2 DEF JoinFinish, TypeOK
<1>3. CASE \/ Recv \/ Timeout \/ OnLeave \/ LeaveSkip \/ OnJoin \/ JoinSkip
           \/ JoinBegin \/ SendAll \/ Tick \/ \E d \in Checks : CheckStep(d)
    <2>1. UNCHANGED peerOf
        BY <1>3, Zenon DEF Recv, RecvNothing, Deliver, RecvPacket, RecvUnowned, Timeout,
                    OnLeave, LeaveSkip, OnJoin, JoinSkip, JoinBegin, SendAll, Tick,
                    CheckStep, CheckStart, CheckHandshake, CheckWake, CheckExpire,
                    CheckRefuse, CheckClear, loginVars
    <2> QED
        BY <2>1
<1> QED
    BY <1>1, <1>2, <1>3, Zenon DEF Next, Main, Login, Logout

-----------------------------------------------------------------------------
(* The invariant of the characters *)

LEMMA CharInitInv == CharInit => CharInv
<1> SUFFICES ASSUME CharInit PROVE CharInv
    OBVIOUS
<1> USE DEF CharInit
<1>1. Origin \in Places
    BY TorusAssumption DEF Origin, Places, Coordinates
<1>2. 0 \in Characters
    BY LobbyAssumption DEF Characters
<1>3. \A c \in Characters : ~Bound(c)
    BY DEF Init, Bound
<1>4. CharTypeOK
    BY <1>1, <1>2 DEF CharTypeOK, FullHealth, States, Stages
<1>5. NobodyDies
    BY DEF NobodyDies
<1>6. RevivedInTime /\ LivingState /\ HealthReported
    BY <1>3 DEF RevivedInTime, LivingState, HealthReported, Init
<1>7. StageOfFrame
    BY DEF StageOfFrame
<1> QED
    BY <1>4, <1>5, <1>6, <1>7 DEF CharInv

\* Where a loop over the characters goes next, and what it leaves behind it.
LEMMA LoopTurns ==
    ASSUME LobbyInv, CharInv, NEW loop \in Stages \ {"lobby"}, Turn(loop)
    PROVE  /\ UNCHANGED vars
           /\ stage = loop /\ stage' \in {loop, NextLoop[loop]}
           /\ turn' \in Characters
           /\ stage' = loop => turn' = turn + 1
           /\ stage' # loop => turn' = 0 /\ turn = MaxConnections - 1
           /\ StageOfFrame'
<1>1. /\ UNCHANGED vars
      /\ stage = loop
      /\ \/ turn < MaxConnections - 1 /\ stage' = stage /\ turn' = turn + 1
         \/ ~(turn < MaxConnections - 1) /\ stage' = NextLoop[loop] /\ turn' = 0
    BY DEF Turn
<1>2. turn \in 0..(MaxConnections - 1)
    BY DEF CharInv, CharTypeOK, Characters
<1>3. turn' \in Characters
    BY <1>1, <1>2, LobbyAssumption DEF Characters
<1>4. NextLoop[loop] # loop
    BY DEF NextLoop, Stages
<1>5. StageOfFrame'
    BY <1>1 DEF CharInv, StageOfFrame, vars, loopVars, Stages
<1> QED
    BY <1>1, <1>2, <1>3, <1>4, <1>5, LobbyAssumption

\* The seats, the packets and the main loop are what they were.
LEMMA LobbyUnchanged ==
    ASSUME UNCHANGED vars
    PROVE  UNCHANGED <<peerOf, packet, pc, cursor, hash, playerCount>>
BY DEF vars, slotVars, loginVars, loopVars

LEMMA UpdateInv ==
    ASSUME LobbyInv, CharInv, UpdateCharacter
    PROVE  CharInv'
<1> USE DEF CharInv
<1>1. /\ Turn("update") /\ UNCHANGED pos
      /\ health' \in [Characters -> {0, FullHealth}]
      /\ state' \in [Characters -> States]
      /\ UNCHANGED canSpawn \/ canSpawn' = [canSpawn EXCEPT ![turn] = TRUE]
    BY DEF UpdateCharacter, Revive, CharTypeOK, States, FullHealth
<1>2. turn \in Characters /\ turn \in Int
    BY SlotFacts DEF CharTypeOK
<1>3. /\ UNCHANGED vars
      /\ stage = "update" /\ stage' \in {"update", "movement"}
      /\ turn' \in Characters
      /\ stage' = "update" => turn' = turn + 1
      /\ stage' # "update" => turn' = 0 /\ turn = MaxConnections - 1
      /\ StageOfFrame'
    BY <1>1, LoopTurns DEF Stages, NextLoop
<1>4. UNCHANGED <<peerOf, packet, pc, cursor, hash, playerCount>>
    BY <1>3, LobbyUnchanged
<1>5. ASSUME NEW c \in Characters, c # turn
      PROVE  health'[c] = health[c] /\ state'[c] = state[c] /\ canSpawn'[c] = canSpawn[c]
    BY <1>2, <1>5 DEF UpdateCharacter, Revive, CharTypeOK
<1>6. /\ Bound(turn) => health'[turn] = FullHealth /\ state'[turn] = "ALIVE"
      /\ canSpawn'[turn]
      /\ state'[turn] # "DEAD"
    <2>1. /\ health[turn] \in {0, 100}
          /\ Bound(turn) /\ health[turn] > 0 => state[turn] = "ALIVE"
          /\ canSpawn[turn] /\ state[turn] # "DEAD"
        BY <1>2 DEF CharTypeOK, LivingState, Alive, NobodyDies, FullHealth
    <2> QED
        BY <1>2, <2>1 DEF UpdateCharacter, Revive, CharTypeOK, FullHealth
<1>7. CharTypeOK'
    <2>1. canSpawn' \in [Characters -> BOOLEAN]
        BY <1>1 DEF CharTypeOK
    <2>2. /\ reported \in [Slots -> {FromClient, 0, FullHealth}]
          /\ health'[turn] \in {0, FullHealth}
        BY <1>1, <1>2 DEF CharTypeOK
    <2>3. \/ UNCHANGED reported
          \/ reported' = [reported EXCEPT ![peerOf[turn]] = health'[turn]]
        BY DEF UpdateCharacter
    <2>4. reported' \in [Slots -> {FromClient, 0, FullHealth}]
        BY <2>2, <2>3
    <2> QED
        BY <1>1, <1>3, <2>1, <2>4 DEF CharTypeOK, Stages
<1>8. NobodyDies'
    BY <1>5, <1>6 DEF NobodyDies
<1>9. RevivedInTime'
    <2> SUFFICES ASSUME NEW c \in Characters, Bound(c)', Updated(c)'
                 PROVE  Alive(c)' /\ state'[c] = "ALIVE"
        BY DEF RevivedInTime
    <2>1. Bound(c)
        BY <1>4 DEF Bound
    <2>2. c \in 0..(MaxConnections - 1)
        BY DEF Characters
    <2>3. CASE c = turn
        BY <2>1, <2>3, <1>6 DEF Alive, FullHealth
    <2>4. CASE c # turn
        <3>1. c < turn
            BY <1>2, <1>3, <2>2, <2>4, LobbyAssumption DEF Updated
        <3> QED
            BY <1>3, <1>5, <2>1, <2>4, <3>1 DEF RevivedInTime, Updated, Alive
    <2> QED
        BY <2>3, <2>4
<1>10. LivingState'
    <2>1. ASSUME NEW c \in Characters, Bound(c)', Alive(c)' PROVE state'[c] = "ALIVE"
        <3>1. CASE c = turn
            BY <1>4, <1>6, <2>1, <3>1 DEF Bound
        <3>2. CASE c # turn
            BY <1>4, <1>5, <2>1, <3>2 DEF Bound, Alive, LivingState
        <3> QED
            BY <3>1, <3>2
    <2>2. pc' # "joining"
        BY <1>3, <1>4 DEF StageOfFrame
    <2> QED
        BY <2>1, <2>2 DEF LivingState
<1>11. HealthReported'
    BY <1>3 DEF HealthReported, Reported
<1> QED
    BY <1>3, <1>7, <1>8, <1>9, <1>10, <1>11

LEMMA MovedInPlaces ==
    ASSUME NEW p \in Places, NEW cmd \in SUBSET Commands
    PROVE  Moved(p, cmd) \in Places
<1>1. ASSUME NEW x \in Int, NEW d \in Int
      PROVE  (x + d) % Torus \in Coordinates
    BY TorusAssumption DEF Coordinates
<1>2. ASSUME NEW ahead, NEW back
      PROVE  Step(cmd, ahead, back) \in Int
    BY DEF Step
<1>3. p.x \in Int /\ p.y \in Int /\ p.z \in Int
    BY DEF Places, Coordinates
<1>4. /\ (p.x + Step(cmd, "RIGHT", "LEFT")) % Torus \in Coordinates
      /\ (p.y + Step(cmd, "JUMP", "nothing")) % Torus \in Coordinates
      /\ (p.z + Step(cmd, "FORWARD", "BACKWARD")) % Torus \in Coordinates
    <2>1. /\ Step(cmd, "RIGHT", "LEFT") \in Int
          /\ Step(cmd, "JUMP", "nothing") \in Int
          /\ Step(cmd, "FORWARD", "BACKWARD") \in Int
        BY <1>2
    <2> HIDE DEF Step
    <2> QED
        BY <1>1, <1>3, <2>1
<1> QED
    BY <1>4 DEF Moved, Places

LEMMA MoveInv ==
    ASSUME LobbyInv, CharInv, MoveCharacter
    PROVE  CharInv'
<1> USE DEF CharInv
<1>1. Turn("movement") /\ UNCHANGED <<health, canSpawn, state, reported>>
    BY DEF MoveCharacter
<1>2. /\ UNCHANGED vars
      /\ stage = "movement" /\ stage' \in {"movement", "monitor"}
      /\ turn' \in Characters
      /\ stage' = "monitor" => turn' = 0
      /\ StageOfFrame'
    BY <1>1, LoopTurns DEF Stages, NextLoop
<1>3. UNCHANGED <<peerOf, packet, pc, cursor, hash, playerCount>>
    BY <1>2, LobbyUnchanged
<1>4. pos' \in [Characters -> Places]
    <2>1. turn \in Characters /\ pos[turn] \in Places
        BY DEF CharTypeOK
    <2>2. Moves(turn) => packet[peerOf[turn]].cmd \in SUBSET Commands
        BY <2>1 DEF Moves, Bound, LobbyInv, TypeOK, Packets
    <2>3. Moves(turn) => Moved(pos[turn], packet[peerOf[turn]].cmd) \in Places
        BY <2>1, <2>2, MovedInPlaces
    <2>4. pos' = IF Moves(turn)
                 THEN [pos EXCEPT ![turn] = Moved(pos[turn], packet[peerOf[turn]].cmd)]
                 ELSE pos
        BY DEF MoveCharacter
    <2> QED
        BY <2>1, <2>3, <2>4 DEF CharTypeOK
<1>5. CharTypeOK'
    BY <1>1, <1>2, <1>4 DEF CharTypeOK, Stages
<1>6. NobodyDies'
    BY <1>1 DEF NobodyDies
<1>7. RevivedInTime'
    BY <1>1, <1>2, <1>3 DEF RevivedInTime, Updated, Alive, Bound
<1>8. LivingState'
    BY <1>1, <1>3 DEF LivingState, Alive, Bound
<1>9. HealthReported'
    <2> SUFFICES ASSUME NEW c \in Characters PROVE ~Reported(c)'
        BY DEF HealthReported
    <2> QED
        BY <1>2 DEF Reported, Characters
<1> QED
    BY <1>2, <1>5, <1>6, <1>7, <1>8, <1>9

\* Between the update of the components and the end of the frame every bound
\* character is alive, so the monitor finds nobody to kill; the packets it
\* writes to are those of different peers.
LEMMA MonitorInv ==
    ASSUME LobbyInv, CharInv, MonitorCharacter
    PROVE  CharInv'
<1> USE DEF CharInv
<1>1. /\ Turn("monitor") /\ UNCHANGED <<health, pos>>
      /\ reported' = ReportedHealth(turn)
      /\ canSpawn' = [canSpawn EXCEPT ![turn] = @ /\ ~Dies(turn)]
      /\ state' = IF Dies(turn) THEN [state EXCEPT ![turn] = "DEAD"] ELSE state
    BY DEF MonitorCharacter
<1>2. /\ UNCHANGED vars
      /\ stage = "monitor" /\ stage' \in {"monitor", "lobby"}
      /\ turn' \in Characters
      /\ stage' = "monitor" => turn' = turn + 1
      /\ stage' # "monitor" => turn' = 0 /\ turn = MaxConnections - 1
      /\ StageOfFrame'
    BY <1>1, LoopTurns DEF Stages, NextLoop
<1>3. UNCHANGED <<peerOf, packet, pc, cursor, hash, playerCount>>
    BY <1>2, LobbyUnchanged
<1>4. turn \in Characters /\ turn \in Int
    BY SlotFacts DEF CharTypeOK
<1>5. ~Dies(turn)
    BY <1>2, <1>4 DEF Dies, Monitored, RevivedInTime, Updated
<1>6. UNCHANGED <<canSpawn, state>>
    <2>1. canSpawn[turn] /\ canSpawn \in [Characters -> BOOLEAN]
        BY <1>4 DEF NobodyDies, CharTypeOK
    <2>2. canSpawn' = [canSpawn EXCEPT ![turn] = TRUE]
        BY <1>1, <1>5, <2>1
    <2> QED
        BY <1>1, <1>5, <2>1, <2>2
<1>7. Monitored(turn) =>
          /\ peerOf[turn] \in Slots
          /\ reported' = [reported EXCEPT ![peerOf[turn]] = health[turn]]
    BY <1>1, <1>4 DEF ReportedHealth, Monitored, Bound, LobbyInv, TypeOK
<1>8. CharTypeOK'
    <2>1. reported' \in [Slots -> {FromClient, 0, FullHealth}]
        BY <1>1, <1>4, <1>7 DEF ReportedHealth, CharTypeOK
    <2> QED
        BY <1>1, <1>2, <1>6, <2>1 DEF CharTypeOK, Stages
<1>9. NobodyDies'
    BY <1>6 DEF NobodyDies
<1>10. RevivedInTime'
    BY <1>1, <1>2, <1>3, <1>6 DEF RevivedInTime, Updated, Alive, Bound
<1>11. LivingState'
    BY <1>1, <1>3, <1>6 DEF LivingState, Alive, Bound
<1>12. HealthReported'
    <2> SUFFICES ASSUME NEW c \in Characters, Bound(c)', Alive(c)',
                        packet'[peerOf'[c]].channel # "CHAT", Reported(c)'
                 PROVE  reported'[peerOf'[c]] = health'[c]
        BY DEF HealthReported
    <2>1. Bound(c) /\ Alive(c) /\ packet[peerOf[c]].channel # "CHAT"
        BY <1>1, <1>3 DEF Bound, Alive
    <2>2. c \in 0..(MaxConnections - 1)
        BY DEF Characters
    <2>3. CASE c = turn
        BY <1>1, <1>3, <1>7, <2>1, <2>3 DEF Monitored, CharTypeOK
    <2>4. CASE c # turn
        <3>1. c < turn
            BY <1>2, <1>4, <2>2, <2>4, LobbyAssumption DEF Reported
        <3>2. reported[peerOf[c]] = health[c]
            BY <1>2, <2>1, <3>1 DEF HealthReported, Reported
        <3>3. peerOf[c] \in Slots /\ (Monitored(turn) => peerOf[c] # peerOf[turn])
            BY <1>4, <2>1, <2>4 DEF Bound, Monitored, LobbyInv, SeatsDistinct, TypeOK
        <3>4. reported'[peerOf[c]] = reported[peerOf[c]]
            BY <1>1, <1>7, <3>3 DEF CharTypeOK, ReportedHealth
        <3> QED
            BY <1>1, <1>3, <3>2, <3>4
    <2> QED
        BY <2>3, <2>4
<1> QED
    BY <1>2, <1>8, <1>9, <1>10, <1>11, <1>12

-----------------------------------------------------------------------------
(* The steps of the lobby *)

\* A step of the lobby between two frames' loops over the characters, which
\* leaves their bodies alone.
LEMMA LobbyKeepsBodies ==
    ASSUME LobbyInv, CharInv, Next,
           UNCHANGED <<health, canSpawn, state>>,
           StageOfFrame',
           stage' # stage => stage = "lobby" /\ stage' = "update" /\ turn' = 0,
           stage' = stage => turn' = turn,
           stage # "lobby" => UNCHANGED peerOf,
           pc' = "joining" => pc = "joining" /\ UNCHANGED playerCount
    PROVE  NobodyDies' /\ RevivedInTime' /\ LivingState'
<1> USE DEF CharInv
<1>1. NobodyDies'
    BY DEF NobodyDies
<1>2. RevivedInTime'
    <2> SUFFICES ASSUME NEW c \in Characters, Bound(c)', Updated(c)'
                 PROVE  Alive(c)' /\ state'[c] = "ALIVE"
        BY DEF RevivedInTime
    <2>1. c \in 0..(MaxConnections - 1)
        BY DEF Characters
    <2>2. stage' = stage /\ turn' = turn /\ stage # "lobby"
        BY <2>1 DEF Updated
    <2> QED
        BY <2>2 DEF RevivedInTime, Updated, Alive, Bound
<1>3. LivingState'
    <2>1. ASSUME NEW c \in Characters, Bound(c)', Alive(c)' PROVE state'[c] = "ALIVE"
        <3>1. peerOf'[c] = peerOf[c] \/ (JoinFinish /\ c = playerCount)
            BY <2>1, SeatsKept DEF Bound
        <3>2. JoinFinish => health[playerCount] = 0
            BY DEF JoinFinish, LivingState
        <3> QED
            BY <2>1, <3>1, <3>2 DEF LivingState, Alive, Bound
    <2>2. pc' = "joining" => health'[playerCount'] = 0
        BY DEF LivingState
    <2> QED
        BY <2>1, <2>2 DEF LivingState
<1> QED
    BY <1>1, <1>2, <1>3

\* What the clients are told is still the health of the characters after a step
\* that writes neither and no channel.
LEMMA LobbyKeepsReports ==
    ASSUME LobbyInv, CharInv, Next,
           pc # "recv" \/ Tick \/ (\E c \in Checks : CheckStep(c)),
           UNCHANGED <<health, reported, stage, turn>>,
           pc' # "recv" => pc # "recv"
    PROVE  HealthReported'
<1> USE DEF CharInv
<1> SUFFICES ASSUME NEW c \in Characters, Bound(c)', Alive(c)',
                    packet'[peerOf'[c]].channel # "CHAT", Reported(c)'
             PROVE  reported'[peerOf'[c]] = health'[c]
    BY DEF HealthReported
<1>1. peerOf'[c] = peerOf[c] \/ (JoinFinish /\ c = playerCount)
    BY SeatsKept DEF Bound
<1>2. CASE peerOf'[c] = peerOf[c]
    <2>1. peerOf[c] \in Slots
        BY <1>2 DEF Bound, LobbyInv, TypeOK
    <2>2. packet'[peerOf[c]].channel = packet[peerOf[c]].channel
        BY <2>1, ChannelsKept
    <2> QED
        BY <1>2, <2>2 DEF HealthReported, Reported, Bound, Alive
<1>3. CASE JoinFinish /\ c = playerCount
    BY <1>3 DEF JoinFinish, LivingState, Alive
<1> QED
    BY <1>1, <1>2, <1>3

LEMMA ReceiveInv ==
    ASSUME LobbyInv, CharInv, Next, CharDeliver \/ CharRecvNothing
    PROVE  CharInv'
<1> USE DEF CharInv
<1>1. /\ UNCHANGED <<health, canSpawn, state, pos, loginVars>>
      /\ stage = "lobby" /\ pc = "recv"
      /\ Received
      /\ (pc' = "recv") \/ (pc' = "timeout" /\ cursor' = 1)
    BY DEF CharDeliver, CharRecvNothing, RecvPacket, RecvNothing, RecvUnowned,
           InLobby, bodyVars, Enter, Advance
<1>2. /\ pc' = "recv" => stage' = "lobby" /\ turn' = turn
      /\ pc' # "recv" => stage' = "update" /\ turn' = 0
    BY <1>1 DEF Received, NextLoop, stageVars
<1>3. reported' \in [Slots -> {FromClient, 0, FullHealth}]
    BY DEF CharDeliver, CharRecvNothing, CharTypeOK
<1>4. 0 \in Characters
    BY LobbyAssumption DEF Characters
<1>5. CharTypeOK'
    BY <1>1, <1>2, <1>3, <1>4 DEF CharTypeOK, Stages
<1>6. StageOfFrame'
    BY <1>1, <1>2 DEF StageOfFrame
<1>7. NobodyDies' /\ RevivedInTime' /\ LivingState'
    BY <1>1, <1>2, <1>6, LobbyKeepsBodies DEF loginVars
<1>8. HealthReported'
    BY <1>1, <1>2 DEF HealthReported, Reported
<1> QED
    BY <1>5, <1>6, <1>7, <1>8

LEMMA JoinBeginKeepsCharInv ==
    ASSUME LobbyInv, CharInv, Next, CharJoinBegin
    PROVE  CharInv'
<1> USE DEF CharInv
<1>1. /\ UNCHANGED <<canSpawn, state, pos, reported, stage, turn>>
      /\ health' = [health EXCEPT ![playerCount] = 0]
      /\ stage = "lobby" /\ pc = "join" /\ pc' = "joining"
      /\ UNCHANGED <<peerOf, packet, playerCount>>
      /\ playerCount \in Characters
      /\ peerOf[playerCount] = NoPeer
    BY DEF CharJoinBegin, JoinBegin, InLobby, stageVars, loginVars, Accepts
<1>2. CharTypeOK'
    BY <1>1 DEF CharTypeOK
<1>3. NobodyDies' /\ StageOfFrame'
    BY <1>1 DEF NobodyDies, StageOfFrame
<1>4. RevivedInTime'
    BY <1>1 DEF RevivedInTime, Updated
<1>5. ASSUME NEW c \in Characters, Bound(c)'
      PROVE  Bound(c) /\ health'[c] = health[c]
    BY <1>1, <1>5 DEF Bound, CharTypeOK
<1>6. LivingState'
    BY <1>1, <1>5 DEF LivingState, Alive, CharTypeOK
<1>7. HealthReported'
    BY <1>1, <1>5 DEF HealthReported, Reported, Alive, Bound
<1> QED
    BY <1>2, <1>3, <1>4, <1>6, <1>7

LEMMA OtherLobbyStepInv ==
    ASSUME LobbyInv, CharInv, Next,
           CharLobby \/ CharTick \/ \E c \in Checks : CharCheck(c)
    PROVE  CharInv'
<1> USE DEF CharInv
<1>1. UNCHANGED <<health, canSpawn, state, pos, reported, stage, turn>>
    BY DEF CharLobby, CharTick, CharCheck, charVars, bodyVars, stageVars
<1>2. CharTypeOK'
    BY <1>1 DEF CharTypeOK
<1>3. CASE CharLobby
    <2>1. stage = "lobby" /\ (pc \notin {"recv", "joining"} \/ JoinFinish)
        BY <1>3 DEF CharLobby, InLobby, Timeout, Logout, OnLeave, LeaveSkip, LogOff,
                    OnJoin, JoinSkip, SendAll
    <2>2. pc # "recv" /\ pc' # "joining"
        BY <1>3 DEF CharLobby, Timeout, Logout, OnLeave, LeaveSkip, LogOff, OnJoin,
                    JoinSkip, JoinFinish, SendAll, Advance, Enter
    <2>3. StageOfFrame'
        BY <1>1, <2>1 DEF StageOfFrame
    <2>4. NobodyDies' /\ RevivedInTime' /\ LivingState'
        BY <1>1, <2>1, <2>2, <2>3, LobbyKeepsBodies
    <2>5. HealthReported'
        BY <1>1, <2>2, LobbyKeepsReports
    <2> QED
        BY <1>2, <2>3, <2>4, <2>5
<1>4. CASE CharTick \/ \E c \in Checks : CharCheck(c)
    <2>1. UNCHANGED <<pc, cursor, peerOf, playerCount>>
        BY <1>4, Zenon DEF CharTick, CharCheck, Tick, CheckStep, CheckStart, CheckHandshake,
                    CheckWake, CheckExpire, CheckRefuse, CheckClear, loopVars, loginVars
    <2>2. Tick \/ \E c \in Checks : CheckStep(c)
        BY <1>4 DEF CharTick, CharCheck
    <2>3. StageOfFrame'
        BY <1>1, <2>1 DEF StageOfFrame
    <2>4. NobodyDies' /\ RevivedInTime' /\ LivingState'
        BY <1>1, <2>1, <2>3, LobbyKeepsBodies
    <2>5. HealthReported'
        BY <1>1, <2>1, <2>2, LobbyKeepsReports
    <2> QED
        BY <1>2, <2>3, <2>4, <2>5
<1> QED
    BY <1>3, <1>4

LEMMA CharStepInv == LobbyInv /\ CharInv /\ [CharNext]_allVars => CharInv'
<1> SUFFICES ASSUME LobbyInv, CharInv, [CharNext]_allVars PROVE CharInv'
    OBVIOUS
<1>1. CASE UpdateCharacter \/ MoveCharacter \/ MonitorCharacter
    BY <1>1, UpdateInv, MoveInv, MonitorInv
<1>2. CASE /\ \/ CharDeliver \/ CharRecvNothing \/ CharJoinBegin \/ CharLobby
              \/ CharTick \/ \E c \in Checks : CharCheck(c)
    <2>1. Next
        BY <1>2, Zenon DEF CharDeliver, CharRecvNothing, CharJoinBegin, CharLobby, CharTick,
                    CharCheck, Next, Main, Recv, Deliver, Login, Logout
    <2> QED
        BY <1>2, <2>1, ReceiveInv, JoinBeginKeepsCharInv, OtherLobbyStepInv
<1>3. CASE UNCHANGED allVars
    BY <1>3 DEF allVars, charVars, bodyVars, stageVars, vars, slotVars, loginVars,
                loopVars, CharInv, CharTypeOK, NobodyDies, RevivedInTime, Updated,
                LivingState, HealthReported, Reported, StageOfFrame, Alive, Bound
<1> QED
    BY <1>1, <1>2, <1>3 DEF CharNext, CharMain

-----------------------------------------------------------------------------
(* What follows for every execution *)

\* The server with its characters is the lobby: hiding the characters, every
\* execution of it is one of LobbyServer, whose theorems hold of it.
THEOREM CharactersKeepTheLobby == CharSpec => Spec
<1>1. CharInit => Init
    BY DEF CharInit
<1>2. [CharNext]_allVars => [Next]_vars
    BY CharStepIsLobbyStep
<1> QED
    BY <1>1, <1>2, PTL DEF CharSpec, Spec

\* So the server with its characters keeps the promise of LobbyRoster, and what
\* is in one state or one step of the lobby is in the composition's as well.
THEOREM LobbyWithCharacters ==
    CharSpec => []LobbyInv /\ EvictionStands /\ RosterSpec
BY CharactersKeepTheLobby, LobbyInvariance, EvictionsStand, ImplementsRoster, PTL

\* In every reachable state a character whose component update is over is alive
\* until the logins of the frame, and its packet says so until the next datagram.
THEOREM CharInvariance == CharSpec => []CharInv
<1>1. CharSpec => []LobbyInv
    BY CharactersKeepTheLobby, LobbyInvariance, PTL
<1>2. CharInit => CharInv
    BY CharInitInv
<1>3. LobbyInv /\ CharInv /\ [CharNext]_allVars => CharInv'
    BY CharStepInv
<1> QED
    BY <1>1, <1>2, <1>3, PTL DEF CharSpec

\* Nobody dies: the respawn thread of the health monitor is never started.
THEOREM NobodyEverDies == CharSpec => []NobodyDies
<1>1. CharInv => NobodyDies
    BY DEF CharInv
<1> QED
    BY <1>1, CharInvariance, PTL

\* The health a client is told is the server's.
THEOREM HealthIsAlwaysTheServers == CharSpec => []HealthIsTheServers
<1>1. CharInv => HealthIsTheServers
    BY DEF CharInv, HealthReported, Reported, HealthIsTheServers, InLobby
<1> QED
    BY <1>1, CharInvariance, PTL

\* The step of the movement event moves only the character it is at, and that
\* one only when its packet says so.
LEMMA OnlyMoveMoves ==
    ASSUME LobbyInv, CharInv, [CharNext]_allVars, NEW c \in Characters,
           pos'[c] # pos[c]
    PROVE  MoveCharacter /\ Moves(c)
<1>1. MoveCharacter \/ UNCHANGED pos
    BY Zenon DEF CharNext, CharMain, CharDeliver, CharRecvNothing, UpdateCharacter,
        MonitorCharacter, CharJoinBegin, CharLobby, CharTick, CharCheck, allVars,
        charVars, bodyVars
<1>2. MoveCharacter => Moves(c)
    BY DEF MoveCharacter, CharInv, CharTypeOK
<1> QED
    BY <1>1, <1>2

\* Only living characters move.
THEOREM OnlyTheLivingMove == CharSpec => MovesOnlyAlive
<1>1. ASSUME LobbyInv, CharInv, [CharNext]_allVars, NEW c \in Characters,
             pos'[c] # pos[c]
      PROVE  Alive(c) /\ state[c] = "ALIVE"
    BY <1>1, OnlyMoveMoves DEF MoveCharacter, Turn, Moves, CharInv, RevivedInTime, Updated
<1>2. LobbyInv /\ CharInv /\ [CharNext]_allVars =>
          [\A c \in Characters :
              pos'[c] # pos[c] => Alive(c) /\ state[c] = "ALIVE"]_allVars
    BY <1>1
<1>3. CharSpec => []LobbyInv
    BY CharactersKeepTheLobby, LobbyInvariance, PTL
<1> QED
    BY <1>2, <1>3, CharInvariance, PTL DEF CharSpec, MovesOnlyAlive

\* A character moves only for the player who is logged in, whose private hash
\* its packet carries: a slot that a character is bound to has one.
THEOREM MovesAreSigned == CharSpec => MovesOnlySigned
<1>1. ASSUME LobbyInv, CharInv, [CharNext]_allVars, NEW c \in Characters,
             pos'[c] # pos[c]
      PROVE  /\ Bound(c)
             /\ hash[peerOf[c]] # InvalidHash
             /\ packet[peerOf[c]].hash = hash[peerOf[c]]
    <2>1. Moves(c)
        BY <1>1, OnlyMoveMoves
    <2>2. peerOf[c] \in Slots /\ Seated(peerOf[c])
        BY <1>1, <2>1 DEF Moves, Bound, LobbyInv, TypeOK, Seated, CharactersOf
    <2> QED
        BY <1>1, <2>1, <2>2 DEF Moves, LobbyInv, RecordsAgree
<1>2. LobbyInv /\ CharInv /\ [CharNext]_allVars =>
          [\A c \in Characters :
              pos'[c] # pos[c] =>
                  /\ Bound(c)
                  /\ hash[peerOf[c]] # InvalidHash
                  /\ packet[peerOf[c]].hash = hash[peerOf[c]]]_allVars
    BY <1>1
<1>3. CharSpec => []LobbyInv
    BY CharactersKeepTheLobby, LobbyInvariance, PTL
<1> QED
    BY <1>2, <1>3, CharInvariance, PTL DEF CharSpec, MovesOnlySigned

=============================================================================
