-------------------------- MODULE LobbyServerProofs --------------------------
(***************************************************************************)
(* Proofs about LobbyServer, for any number of slots, addresses, timeout   *)
(* threads and seconds.                                                    *)
(***************************************************************************)
EXTENDS LobbyServer, FiniteSetTheorems, TLAPS

-----------------------------------------------------------------------------
(* Facts about the operators the actions are built from *)

LEMMA SlotFacts ==
    /\ 1 \in Slots
    /\ Slots \subseteq Int
    /\ NoPeer \notin Slots
    /\ Characters \subseteq Int
    /\ NoAddress \notin Addresses
    /\ Addresses \subseteq Int
    /\ InvalidHash \notin 0..MaxEpoch
BY LobbyAssumption DEF Slots, Characters, NoPeer, NoAddress, InvalidHash

\* The first element of a set that has one element.
LEMMA SmallestOfOne ==
    ASSUME NEW S, NEW x \in Int, x \in S, \A y \in S : y = x
    PROVE  Smallest(S) = x
<1>1. x <= x
    OBVIOUS
<1>2. \E z \in S : \A y \in S : z <= y
    BY <1>1
<1>3. Smallest(S) \in S
    BY <1>2, Zenon DEF Smallest
<1> QED
    BY <1>3

\* on_leave's search for the character of a slot finds the only one.
LEMMA ReleaseSeat ==
    ASSUME TypeOK, SeatsDistinct, NEW c \in Characters, NEW s \in Slots,
           peerOf[c] = s
    PROVE  Release(s) = [peerOf EXCEPT ![c] = NoPeer]
<1>1. \A d \in CharactersOf(s) : d = c
    BY SlotFacts DEF CharactersOf, SeatsDistinct
<1>2. c \in CharactersOf(s)
    BY DEF CharactersOf
<1>3. Smallest(CharactersOf(s)) = c
    BY <1>1, <1>2, SmallestOfOne, SlotFacts
<1> QED
    BY <1>2, <1>3 DEF Release

LEMMA ReleaseUnseated ==
    ASSUME NEW s \in Slots, ~Seated(s)
    PROVE  Release(s) = peerOf
BY DEF Release, Seated

\* A datagram is registered in the slot of the loop or in the one slot its
\* sender owns.
LEMMA DemuxInSlots ==
    ASSUME TypeOK, AddressOwnership, NEW s \in Slots, NEW a \in Addresses
    PROVE  /\ Demux(s, a) \in Slots \cup {NoPeer}
           /\ Demux(s, a) # s /\ Demux(s, a) # NoPeer
                => address[Demux(s, a)] = a
           /\ status[s] # "CONNECTED" /\ Demux(s, a) = s
                => address[s] = a \/ \A t \in Slots : address[t] # a
<1>1. ASSUME NEW t \in SlotsAt(a)
      PROVE  Smallest(SlotsAt(a)) = t
    <2>1. \A u \in SlotsAt(a) : u = t
        BY <1>1, SlotFacts DEF SlotsAt, AddressOwnership
    <2>2. t \in Int
        BY <1>1, SlotFacts DEF SlotsAt
    <2> QED
        BY <1>1, <2>1, <2>2, SmallestOfOne
<1>2. CASE SlotsAt(a) = {}
    BY <1>2 DEF Demux, SlotsAt
<1>3. CASE SlotsAt(a) # {}
    <2>1. PICK t \in SlotsAt(a) : TRUE
        BY <1>3
    <2>2. Smallest(SlotsAt(a)) = t /\ t \in Slots /\ address[t] = a
        BY <1>1, <2>1 DEF SlotsAt
    <2>3. Demux(s, a) \in {t, s}
        BY <1>3, <2>2 DEF Demux
    <2>4. status[s] # "CONNECTED" => Demux(s, a) = t
        BY <1>3, <2>2 DEF Demux
    <2> QED
        BY <2>2, <2>3, <2>4
<1> QED
    BY <1>2, <1>3

\* The characters are finitely many, and so are those with a peer.
LEMMA SeatedFinite ==
    /\ IsFiniteSet(SeatedCharacters)
    /\ Cardinality(SeatedCharacters) \in Nat
<1>1. IsFiniteSet(Characters)
    BY FS_Interval, LobbyAssumption DEF Characters
<1>2. SeatedCharacters \in SUBSET Characters
    BY DEF SeatedCharacters
<1> QED
    BY <1>1, <1>2, FS_Subset, FS_CardinalityType

LEMMA SeatedFinitePrimed == Cardinality(SeatedCharacters)' \in Nat
<1>1. IsFiniteSet(Characters)
    BY FS_Interval, LobbyAssumption DEF Characters
<1>2. SeatedCharacters' \in SUBSET Characters
    BY DEF SeatedCharacters
<1> QED
    BY <1>1, <1>2, FS_Subset, FS_CardinalityType

\* A slot nobody holds leaves room for one more character: the seated ones
\* are injected into the other slots.
LEMMA RoomForOneMore ==
    ASSUME TypeOK, SeatsDistinct, NEW s \in Slots, ~Seated(s)
    PROVE  Cardinality(SeatedCharacters) < MaxConnections
<1> DEFINE others == Slots \ {s}
           f == [c \in SeatedCharacters |-> peerOf[c]]
<1>1. IsFiniteSet(Slots) /\ Cardinality(Slots) = MaxConnections
    BY FS_Interval, LobbyAssumption DEF Slots
<1>2. IsFiniteSet(others) /\ Cardinality(others) = MaxConnections - 1
    BY <1>1, FS_RemoveElement
<1>3. f \in [SeatedCharacters -> others]
    BY DEF SeatedCharacters, TypeOK, Seated, CharactersOf
<1>4. f \in Injection(SeatedCharacters, others)
    BY <1>3 DEF Injection, IsInjective, SeatedCharacters, SeatsDistinct
<1>5. Cardinality(SeatedCharacters) <= Cardinality(others)
    BY <1>2, <1>4, FS_Injection
<1> QED
    BY <1>2, <1>5, SeatedFinite, LobbyAssumption

\* One seat given, one seat taken back: the number of seats follows.
LEMMA SeatsAfterLogin ==
    ASSUME TypeOK, NEW c \in Characters, peerOf[c] = NoPeer,
           NEW s \in Slots, peerOf' = [peerOf EXCEPT ![c] = s]
    PROVE  Cardinality(SeatedCharacters)' = Cardinality(SeatedCharacters) + 1
<1>1. SeatedCharacters' = SeatedCharacters \cup {c}
    BY SlotFacts DEF SeatedCharacters, TypeOK
<1>2. c \notin SeatedCharacters
    BY DEF SeatedCharacters
<1> QED
    BY <1>1, <1>2, SeatedFinite, FS_AddElement

LEMMA SeatsAfterLogoff ==
    ASSUME TypeOK, NEW c \in Characters, peerOf[c] # NoPeer,
           peerOf' = [peerOf EXCEPT ![c] = NoPeer]
    PROVE  Cardinality(SeatedCharacters)' = Cardinality(SeatedCharacters) - 1
<1>1. SeatedCharacters' = SeatedCharacters \ {c}
    BY DEF SeatedCharacters, TypeOK
<1>2. c \in SeatedCharacters
    BY DEF SeatedCharacters
<1> QED
    BY <1>1, <1>2, SeatedFinite, FS_RemoveElement

\* Moving on in a loop, or to the next loop.
LEMMA LoopMoves ==
    ASSUME TypeOK, NEW next \in Loops, Advance(next) \/ Enter(next)
    PROVE  /\ pc' \in Loops
           /\ cursor' \in Slots
           /\ pc' \in {pc, next}
BY LobbyAssumption DEF TypeOK, Advance, Enter, Slots

\* A timeout thread moves on without leaving its slot.
LEMMA CheckMoves ==
    ASSUME TypeOK, NEW c \in Checks, NEW from, NEW to \in Phases, Move(c, from, to)
    PROVE  /\ check' \in [Checks -> [phase : Phases, slot : Slots]]
           /\ check[c].slot \in Slots
BY SlotFacts DEF TypeOK, Move, Idle

\* The clients learn hashes, and only hashes.
LEMMA HeardHashes ==
    ASSUME TypeOK, NEW pk \in [Slots -> Packets],
           NEW ad \in [Slots -> Addresses \cup {NoAddress}]
    PROVE  HeardFrom(pk, ad) \in [Addresses -> SUBSET Hashes]
BY DEF HeardFrom, TypeOK, Packets

\* A step that touches neither the slots nor the characters preserves all of
\* the invariant that is about them.
LEMMA RecordsUntouched ==
    ASSUME LobbyInv, UNCHANGED <<slotVars, loginVars>>, TypeOK', JoinInProgress'
    PROVE  LobbyInv'
BY DEF LobbyInv, SeatsDistinct, SeatHeld, RecordsAgree, AddressOwnership,
       NeverOvercounted, RequestAddressed, Seated, CharactersOf,
       SeatedCharacters, slotVars, loginVars

-----------------------------------------------------------------------------
(* The invariant holds initially and every step preserves it *)

LEMMA InitInv == Init => LobbyInv
<1> SUFFICES ASSUME Init PROVE LobbyInv
    OBVIOUS
<1> USE SlotFacts, LobbyAssumption DEF Init
<1>1. TypeOK
    BY DEF TypeOK, Statuses, Hashes, Packets, BlankPacket, Loops, Phases, Idle
<1>2. \A s \in Slots : ~Seated(s)
    BY DEF Seated, CharactersOf
<1>3. SeatsDistinct /\ SeatHeld /\ RecordsAgree /\ AddressOwnership
    BY <1>2 DEF SeatsDistinct, SeatHeld, RecordsAgree, AddressOwnership
<1>4. NeverOvercounted
    BY SeatedFinite DEF NeverOvercounted
<1>5. RequestAddressed /\ JoinInProgress
    BY DEF RequestAddressed, JoinInProgress, BlankPacket
<1> QED
    BY <1>1, <1>3, <1>4, <1>5 DEF LobbyInv

\* The steps of the main loop that only move it, and the clock.
LEMMA LoopOnlyInv ==
    ASSUME LobbyInv,
           \/ RecvNothing
           \/ \E a \in Addresses : RecvUnowned(a)
           \/ Timeout
           \/ OnLeave
           \/ LeaveSkip
           \/ OnJoin
           \/ JoinSkip
           \/ SendAll
           \/ Tick
    PROVE  LobbyInv'
<1> USE DEF LobbyInv, slotVars, loginVars, loopVars
<1>1. CASE RecvNothing \/ \E a \in Addresses : RecvUnowned(a)
    <2>1. TypeOK'
        BY <1>1, LoopMoves DEF RecvNothing, RecvUnowned, TypeOK, Loops
    <2>2. JoinInProgress'
        BY <1>1 DEF RecvNothing, RecvUnowned, Enter, JoinInProgress
    <2> QED
        BY <1>1, <2>1, <2>2, RecordsUntouched DEF RecvNothing, RecvUnowned
<1>2. CASE Timeout
    <2>1. TypeOK'
        BY <1>2, LoopMoves DEF Timeout, TypeOK, Loops, Phases, IdleChecks
    <2>2. JoinInProgress'
        BY <1>2 DEF Timeout, Advance, JoinInProgress
    <2> QED
        BY <1>2, <2>1, <2>2, RecordsUntouched DEF Timeout
<1>3. CASE OnLeave
    <2>1. pc' \in {"on_join", "leave"} /\ cursor' = 1
        BY <1>3 DEF OnLeave, Enter
    <2>2. TypeOK' /\ JoinInProgress'
        BY <1>3, <2>1, SlotFacts DEF OnLeave, TypeOK, Loops, JoinInProgress
    <2> QED
        BY <1>3, <2>2, RecordsUntouched DEF OnLeave
<1>4. CASE LeaveSkip
    <2>1. TypeOK'
        BY <1>4, LoopMoves DEF LeaveSkip, TypeOK, Loops
    <2>2. JoinInProgress'
        BY <1>4 DEF LeaveSkip, Advance, JoinInProgress
    <2> QED
        BY <1>4, <2>1, <2>2, RecordsUntouched DEF LeaveSkip
<1>5. CASE OnJoin
    <2>1. /\ pc' \in {"send", "join"}
          /\ cursor' = 1
          /\ pc' = "join" => playerCount >= 0
        BY <1>5 DEF OnJoin, Enter, LobbyFull, TypeOK
    <2>2. TypeOK' /\ JoinInProgress'
        BY <1>5, <2>1, SlotFacts DEF OnJoin, TypeOK, Loops, JoinInProgress
    <2> QED
        BY <1>5, <2>2, RecordsUntouched DEF OnJoin
<1>6. CASE JoinSkip
    <2>1. TypeOK'
        BY <1>6, LoopMoves DEF JoinSkip, TypeOK, Loops
    <2>2. JoinInProgress'
        BY <1>6 DEF JoinSkip, Advance, JoinInProgress
    <2> QED
        BY <1>6, <2>1, <2>2, RecordsUntouched DEF JoinSkip
<1>7. CASE SendAll
    <2>1. TypeOK'
        BY <1>7, LoopMoves, HeardHashes DEF SendAll, TypeOK, Loops
    <2>2. JoinInProgress'
        BY <1>7 DEF SendAll, Enter, JoinInProgress
    <2> QED
        BY <1>7, <2>1, <2>2, RecordsUntouched DEF SendAll
<1>8. CASE Tick
    <2>1. TypeOK'
        BY <1>8, LobbyAssumption DEF Tick, TypeOK
    <2>2. JoinInProgress'
        BY <1>8 DEF Tick, JoinInProgress, Accepts, Seated, CharactersOf
    <2> QED
        BY <1>8, <2>1, <2>2, RecordsUntouched DEF Tick
<1> QED
    BY <1>1, <1>2, <1>3, <1>4, <1>5, <1>6, <1>7, <1>8

\* A datagram changes one packet, and the address of a slot nobody is
\* connected in.
LEMMA RecvPacketInv ==
    ASSUME LobbyInv, NEW a \in Addresses, NEW p \in DatagramsOf(a),
           RecvPacket(a, p)
    PROVE  LobbyInv'
<1> DEFINE s == Demux(cursor, a)
           taken == status[cursor] # "CONNECTED" /\ s = cursor
<1> USE DEF LobbyInv
<1>1. /\ s \in Slots
      /\ s # cursor => address[s] = a
      /\ taken => address[s] = a \/ \A t \in Slots : address[t] # a
    BY DemuxInSlots DEF RecvPacket, TypeOK
<1>2. /\ packet' = [packet EXCEPT ![s] = p]
      /\ address' = IF taken THEN [address EXCEPT ![s] = a] ELSE address
      /\ Advance("timeout")
      /\ pc = "recv"
      /\ UNCHANGED <<status, hash, publicHash, ipAddress, peerOf, playerCount,
                     check, epoch, told>>
    BY DEF RecvPacket, loginVars
<1> HIDE DEF s, taken
<1>3. p \in Packets
    BY LobbyAssumption DEF DatagramsOf, Packets, TypeOK, Hashes
<1>4. TypeOK'
    BY <1>1, <1>2, <1>3, LoopMoves DEF TypeOK, Loops
<1>5. \A x \in Slots : Seated(x)' = Seated(x)
    BY <1>2 DEF Seated, CharactersOf
<1>6. SeatsDistinct' /\ SeatHeld' /\ RecordsAgree' /\ NeverOvercounted'
    BY <1>2, <1>5 DEF SeatsDistinct, SeatHeld, RecordsAgree, NeverOvercounted,
                      SeatedCharacters
<1>7. \A x \in Slots : \/ address'[x] = address[x]
                       \/ x = s /\ taken /\ address'[x] = a
    BY <1>1, <1>2 DEF TypeOK
<1>8. AddressOwnership'
    <2>1. ASSUME NEW x \in Slots, NEW y \in Slots, x # y,
                 address'[x] = address'[y]
          PROVE  address'[x] = NoAddress
        BY <1>1, <1>7, <2>1 DEF AddressOwnership
    <2>2. ASSUME NEW x \in Slots, Seated(x)'
          PROVE  address'[x] # NoAddress
        BY <1>5, <1>7, <2>2, SlotFacts DEF AddressOwnership
    <2> QED
        BY <2>1, <2>2 DEF AddressOwnership
<1>9. RequestAddressed'
    <2> SUFFICES ASSUME NEW x \in Slots, status[x] = "DISCONNECTED",
                        "BEGIN" \in packet'[x].cmd
                 PROVE  address'[x] # NoAddress
        BY <1>2 DEF RequestAddressed
    <2>1. CASE x # s
        BY <1>2, <1>7, <2>1, SlotFacts DEF TypeOK, RequestAddressed
    <2>2. CASE x = s
        <3>1. CASE s = cursor
            BY <1>1, <1>2, <2>2, <3>1, SlotFacts DEF taken, TypeOK
        <3>2. CASE s # cursor
            BY <1>1, <1>2, <2>2, <3>2, SlotFacts DEF taken
        <3> QED
            BY <3>1, <3>2
    <2> QED
        BY <2>1, <2>2
<1>10. JoinInProgress'
    BY <1>2 DEF Advance, JoinInProgress
<1> QED
    BY <1>4, <1>6, <1>8, <1>9, <1>10

\* A timeout thread writes STASIS or CONNECTED, and commands other than BEGIN:
\* it frees no slot and turns none into a login request.
LEMMA CheckInv ==
    ASSUME LobbyInv, NEW c \in Checks, CheckStep(c)
    PROVE  LobbyInv'
<1> DEFINE s == check[c].slot
<1> USE DEF LobbyInv
<1>1. UNCHANGED <<address, hash, publicHash, ipAddress, loginVars, loopVars,
                  epoch, told>>
    BY DEF CheckStep, CheckStart, CheckHandshake, CheckWake, CheckExpire,
           CheckRefuse, CheckClear, slotVars
<1>2. /\ check' \in [Checks -> [phase : Phases, slot : Slots]]
      /\ s \in Slots
    <2>1. \E from, to \in Phases : Move(c, from, to)
        BY DEF CheckStep, CheckStart, CheckHandshake, CheckWake, CheckExpire,
               CheckRefuse, CheckClear, Phases
    <2> QED
        BY <2>1, CheckMoves
<1>3. /\ status' \in [Slots -> Statuses]
      /\ \A x \in Slots : \/ status'[x] = status[x]
                          \/ status'[x] \in {"STASIS", "CONNECTED"}
    BY <1>2 DEF CheckStep, CheckStart, CheckHandshake, CheckWake, CheckExpire,
                CheckRefuse, CheckClear, slotVars, TypeOK, Statuses
<1>4. /\ packet' \in [Slots -> Packets]
      /\ \A x \in Slots : "BEGIN" \in packet'[x].cmd => "BEGIN" \in packet[x].cmd
    <2>1. CASE CheckHandshake(c)
        <3>1. \/ packet' = packet
              \/ packet' = [packet EXCEPT ![s].cmd = @ \cup {"KICK"}]
            BY <2>1 DEF CheckHandshake
        <3>2. CASE packet' = packet
            BY <3>2 DEF TypeOK
        <3>3. CASE packet' = [packet EXCEPT ![s].cmd = @ \cup {"KICK"}]
            <4> HIDE DEF s
            <4> QED
                BY <1>2, <3>3 DEF TypeOK, Packets, Commands
        <3> QED
            BY <3>1, <3>2, <3>3
    <2>2. CASE CheckExpire(c)
        BY <1>2, <2>2 DEF CheckExpire, Evicted, TypeOK, Packets, Commands
    <2>3. CASE CheckRefuse(c)
        BY <1>2, <2>3 DEF CheckRefuse, Evicted, TypeOK, Packets, Commands
    <2>4. CASE CheckClear(c)
        BY <1>2, <2>4 DEF CheckClear, AckConsumed, TypeOK, Packets, Commands
    <2>5. CASE CheckStart(c) \/ CheckWake(c)
        BY <2>5 DEF CheckStart, CheckWake, slotVars, TypeOK
    <2> QED
        BY <2>1, <2>2, <2>3, <2>4, <2>5 DEF CheckStep
<1> HIDE DEF s
<1>5. TypeOK'
    BY <1>1, <1>2, <1>3, <1>4 DEF TypeOK, loginVars, loopVars
<1>6. \A x \in Slots : Seated(x)' = Seated(x)
    BY <1>1 DEF Seated, CharactersOf, loginVars
<1>7. SeatsDistinct' /\ RecordsAgree' /\ NeverOvercounted' /\ AddressOwnership'
    BY <1>1, <1>6 DEF SeatsDistinct, RecordsAgree, NeverOvercounted,
                      AddressOwnership, SeatedCharacters, loginVars
<1>8. SeatHeld'
    BY <1>3, <1>6 DEF SeatHeld
<1>9. RequestAddressed'
    BY <1>1, <1>3, <1>4 DEF RequestAddressed
<1>10. JoinInProgress'
    BY <1>1 DEF JoinInProgress, Accepts, Seated, CharactersOf, loginVars,
                loopVars
<1> QED
    BY <1>5, <1>7, <1>8, <1>9, <1>10

\* The packets a logoff leaves behind: the slot's own is emptied, the others
\* carry at most the notice more.
LEMMA PacketsAfterLogoff ==
    ASSUME LobbyInv, LogOff
    PROVE  /\ packet' \in [Slots -> Packets]
           /\ packet'[cursor].cmd = {}
           /\ \A x \in Slots : "BEGIN" \in packet'[x].cmd => "BEGIN" \in packet[x].cmd
<1> USE DEF LobbyInv
<1>1. \A x \in Slots :
          packet'[x] \in {ResetPacket(packet[x]), NoticePacket(packet[x]), packet[x]}
    BY DEF LogOff
<1>2. ASSUME NEW p \in Packets
      PROVE  /\ ResetPacket(p) \in Packets
             /\ ResetPacket(p).cmd = {}
             /\ NoticePacket(p) \in Packets
             /\ NoticePacket(p).cmd = p.cmd \cup {"NOTICE"}
    BY DEF ResetPacket, NoticePacket, Packets, Commands
<1>3. \A x \in Slots : packet[x] \in Packets
    BY DEF TypeOK
<1>4. packet' = [x \in Slots |-> packet'[x]]
    BY DEF LogOff
<1>5. packet'[cursor] = ResetPacket(packet[cursor])
    BY DEF LogOff, TypeOK
<1>6. \A x \in Slots : packet'[x] \in Packets
    BY <1>1, <1>2, <1>3
<1>7. packet'[cursor].cmd = {}
    BY <1>2, <1>3, <1>5 DEF TypeOK
<1>8. ASSUME NEW x \in Slots, "BEGIN" \in packet'[x].cmd
      PROVE  "BEGIN" \in packet[x].cmd
    BY <1>1, <1>2, <1>3, <1>8
<1> QED
    BY <1>4, <1>6, <1>7, <1>8

\* A logoff empties one slot in every record at once, with a character behind
\* it or without.
LEMMA LogOffInv ==
    ASSUME LobbyInv, LogOff
    PROVE  LobbyInv'
<1> DEFINE s == cursor
<1> USE DEF LobbyInv
<1>1. /\ s \in Slots
      /\ status' = [status EXCEPT ![s] = "DISCONNECTED"]
      /\ address' = [address EXCEPT ![s] = NoAddress]
      /\ hash' = [hash EXCEPT ![s] = InvalidHash]
      /\ publicHash' = [publicHash EXCEPT ![s] = InvalidHash]
      /\ ipAddress' = [ipAddress EXCEPT ![s] = FALSE]
      /\ playerCount' = playerCount - 1
      /\ peerOf' = Release(s)
      /\ Advance("on_join")
      /\ pc = "leave"
      /\ UNCHANGED <<check, epoch>>
    BY DEF LogOff, TypeOK, IpAfterReset, CountAfterLogoff
<1>2. /\ packet' \in [Slots -> Packets]
      /\ packet'[s].cmd = {}
      /\ \A x \in Slots : "BEGIN" \in packet'[x].cmd => "BEGIN" \in packet[x].cmd
    BY PacketsAfterLogoff
<1>3. told' \in [Addresses -> SUBSET Hashes]
    <2>1. told' = HeardFrom(packet', address')
        BY DEF LogOff
    <2>2. address' \in [Slots -> Addresses \cup {NoAddress}]
        BY <1>1 DEF TypeOK
    <2> QED
        BY <1>2, <2>1, <2>2, HeardHashes
<1> HIDE DEF s
<1>4. /\ peerOf' \in [Characters -> Slots \cup {NoPeer}]
      /\ \A c \in Characters :
            peerOf'[c] = IF peerOf[c] = s THEN NoPeer ELSE peerOf[c]
      /\ NeverOvercounted'
    <2>1. CASE ~Seated(s)
        <3>1. peerOf' = peerOf
            BY <1>1, <2>1, ReleaseUnseated
        <3>2. NeverOvercounted'
            BY <1>1, <3>1, SeatedFinite
               DEF NeverOvercounted, SeatedCharacters, TypeOK
        <3> QED
            BY <2>1, <3>1, <3>2 DEF TypeOK, Seated, CharactersOf
    <2>2. CASE Seated(s)
        <3>1. PICK c \in Characters : peerOf[c] = s
            BY <2>2 DEF Seated, CharactersOf
        <3>2. peerOf' = [peerOf EXCEPT ![c] = NoPeer] /\ peerOf[c] # NoPeer
            BY <1>1, <3>1, ReleaseSeat, SlotFacts
        <3>3. Cardinality(SeatedCharacters)' = Cardinality(SeatedCharacters) - 1
            BY <3>2, SeatsAfterLogoff
        <3>4. NeverOvercounted'
            BY <1>1, <3>3, SeatedFinite DEF NeverOvercounted, TypeOK
        <3> QED
            BY <3>1, <3>2, <3>4 DEF TypeOK, SeatsDistinct
    <2> QED
        BY <2>1, <2>2
<1>5. \A x \in Slots : Seated(x)' <=> Seated(x) /\ x # s
    BY <1>4, SlotFacts DEF Seated, CharactersOf
<1>6. TypeOK'
    <2>1. /\ InvalidHash \in Hashes
          /\ "DISCONNECTED" \in Statuses
          /\ "on_join" \in Loops
        BY DEF Hashes, Statuses, Loops
    <2>2. pc' \in Loops /\ cursor' \in Slots
        BY <1>1, <2>1, LoopMoves
    <2>3. /\ status' \in [Slots -> Statuses]
          /\ address' \in [Slots -> Addresses \cup {NoAddress}]
          /\ hash' \in [Slots -> Hashes]
          /\ publicHash' \in [Slots -> Hashes]
          /\ ipAddress' \in [Slots -> BOOLEAN]
        BY <1>1, <2>1 DEF TypeOK
    <2>4. /\ playerCount' \in Int
          /\ check' \in [Checks -> [phase : Phases, slot : Slots]]
          /\ epoch' \in 1..MaxEpoch
        BY <1>1 DEF TypeOK
    <2> QED
        BY <1>2, <1>3, <1>4, <2>2, <2>3, <2>4 DEF TypeOK
<1>7. SeatsDistinct'
    BY <1>4 DEF SeatsDistinct
<1>8. SeatHeld' /\ RecordsAgree' /\ AddressOwnership'
    BY <1>1, <1>5 DEF SeatHeld, RecordsAgree, AddressOwnership, TypeOK
<1>9. RequestAddressed'
    BY <1>1, <1>2 DEF RequestAddressed, TypeOK
<1>10. JoinInProgress'
    BY <1>1 DEF JoinInProgress, Advance
<1> QED
    BY <1>4, <1>6, <1>7, <1>8, <1>9, <1>10

\* A login that begins has found a free slot with an address and a free
\* character.
LEMMA JoinBeginInv ==
    ASSUME LobbyInv, JoinBegin
    PROVE  LobbyInv'
<1> USE DEF LobbyInv
<1>1. TypeOK'
    BY LobbyAssumption DEF JoinBegin, TypeOK, Loops, loginVars, Hashes
<1>2. ~Seated(cursor) /\ address[cursor] # NoAddress
    BY DEF JoinBegin, Answers, SeatHeld, RequestAddressed, TypeOK
<1>3. JoinInProgress'
    BY <1>2 DEF JoinBegin, JoinInProgress, Accepts, Seated, CharactersOf,
                loginVars
<1>4. /\ SeatsDistinct'
      /\ SeatHeld'
      /\ RecordsAgree'
      /\ AddressOwnership'
      /\ NeverOvercounted'
      /\ RequestAddressed'
    BY DEF JoinBegin, SeatsDistinct, SeatHeld, RecordsAgree, AddressOwnership,
           NeverOvercounted, RequestAddressed, Seated, CharactersOf,
           SeatedCharacters, loginVars
<1> QED
    BY <1>1, <1>3, <1>4

\* What has happened to the slot's status in the meantime does not matter: the
\* login writes it, with every other record of the player.
LEMMA JoinFinishInv ==
    ASSUME LobbyInv, JoinFinish
    PROVE  LobbyInv'
<1> DEFINE s == cursor
           c == playerCount
<1> USE DEF LobbyInv
<1>1. /\ s \in Slots
      /\ c \in Characters
      /\ peerOf[c] = NoPeer
      /\ ~Seated(s)
      /\ address[s] # NoAddress
      /\ c >= 0
    BY DEF JoinFinish, JoinInProgress, Accepts, TypeOK
<1>2. /\ hash' = [hash EXCEPT ![s] = epoch]
      /\ status' = [status EXCEPT ![s] = "CONNECTED"]
      /\ peerOf' = [peerOf EXCEPT ![c] = s]
      /\ ipAddress' = [ipAddress EXCEPT ![s] = TRUE]
      /\ playerCount' = playerCount + 1
      /\ packet' = [packet EXCEPT ![s].hash = publicHash[s],
                                  ![s].cmd = @ \cup {"ACCEPT"}]
      /\ told' = HeardFrom(packet', address)
      /\ UNCHANGED <<address, publicHash, check, epoch>>
    BY DEF JoinFinish
<1>3. pc' \in {"join", "send"} /\ cursor' \in Slots
    BY LobbyAssumption DEF JoinFinish, Enter, Slots, TypeOK
<1>4. /\ packet' \in [Slots -> Packets]
      /\ \A x \in Slots : "BEGIN" \in packet'[x].cmd => "BEGIN" \in packet[x].cmd
    BY <1>1, <1>2 DEF TypeOK, Packets, Commands
<1>5. epoch \in Hashes /\ epoch # InvalidHash
    BY LobbyAssumption DEF TypeOK, Hashes, InvalidHash
<1> HIDE DEF s, c
<1>6. TypeOK'
    <2>1. told' \in [Addresses -> SUBSET Hashes]
        BY <1>2, <1>4, HeardHashes DEF TypeOK
    <2>2. /\ status' \in [Slots -> Statuses]
          /\ hash' \in [Slots -> Hashes]
          /\ ipAddress' \in [Slots -> BOOLEAN]
          /\ peerOf' \in [Characters -> Slots \cup {NoPeer}]
        BY <1>1, <1>2, <1>5 DEF TypeOK, Statuses
    <2>3. /\ address' \in [Slots -> Addresses \cup {NoAddress}]
          /\ publicHash' \in [Slots -> Hashes]
          /\ playerCount' \in Int
          /\ pc' \in Loops
          /\ cursor' \in Slots
          /\ check' \in [Checks -> [phase : Phases, slot : Slots]]
          /\ epoch' \in 1..MaxEpoch
        BY <1>2, <1>3 DEF TypeOK, Loops
    <2> QED
        BY <1>4, <2>1, <2>2, <2>3 DEF TypeOK
<1>7. \A x \in Slots : Seated(x)' <=> Seated(x) \/ x = s
    BY <1>1, <1>2, SlotFacts DEF Seated, CharactersOf, TypeOK
<1>8. SeatsDistinct'
    BY <1>1, <1>2 DEF SeatsDistinct, Seated, CharactersOf, TypeOK
<1>9. SeatHeld' /\ RecordsAgree' /\ AddressOwnership'
    BY <1>1, <1>2, <1>5, <1>7 DEF SeatHeld, RecordsAgree, AddressOwnership, TypeOK
<1>10. NeverOvercounted'
    <2>1. Cardinality(SeatedCharacters)' = Cardinality(SeatedCharacters) + 1
        BY <1>1, <1>2, SeatsAfterLogin
    <2> QED
        BY <1>2, <2>1, SeatedFinite DEF NeverOvercounted, TypeOK
<1>11. RequestAddressed'
    BY <1>1, <1>2, <1>4 DEF RequestAddressed, TypeOK
<1>12. JoinInProgress'
    BY <1>1, <1>2, <1>3 DEF JoinInProgress, c, TypeOK
<1> QED
    BY <1>6, <1>8, <1>9, <1>10, <1>11, <1>12

LEMMA StepInv == LobbyInv /\ [Next]_vars => LobbyInv'
<1> SUFFICES ASSUME LobbyInv, [Next]_vars PROVE LobbyInv'
    OBVIOUS
<1>1. CASE Recv
    BY <1>1, RecvPacketInv, LoopOnlyInv DEF Recv, Deliver
<1>2. CASE Timeout \/ SendAll \/ Tick
    BY <1>2, LoopOnlyInv
<1>3. CASE Logout
    BY <1>3, LogOffInv, LoopOnlyInv DEF Logout
<1>4. CASE Login
    BY <1>4, JoinBeginInv, JoinFinishInv, LoopOnlyInv DEF Login
<1>5. CASE \E c \in Checks : CheckStep(c)
    BY <1>5, CheckInv
<1>6. CASE UNCHANGED vars
    <2>1. TypeOK' /\ JoinInProgress'
        BY <1>6 DEF LobbyInv, TypeOK, JoinInProgress, Accepts, Seated,
                    CharactersOf, vars, slotVars, loginVars, loopVars
    <2> QED
        BY <1>6, <2>1, RecordsUntouched DEF vars
<1> QED
    BY <1>1, <1>2, <1>3, <1>4, <1>5, <1>6 DEF Next, Main

-----------------------------------------------------------------------------
(* What follows for every execution *)

\* The inductive invariant holds in every reachable state: whatever timeout
\* threads are under way, the main loop finds the slots, the characters and
\* the count in agreement.
THEOREM LobbyInvariance == Spec => []LobbyInv
BY InitInv, StepInv, PTL DEF Spec

\* Every variable keeps its type; in particular cursor and the slot of every
\* timeout thread stay among the preallocated peers.
THEOREM TypeCorrectness == Spec => []TypeOK
<1>1. LobbyInv => TypeOK
    BY DEF LobbyInv
<1> QED
    BY <1>1, LobbyInvariance, PTL

\* on_leave and on_join never leave two characters bound to one peer.
THEOREM SeatsAreExclusive == Spec => []SeatExclusive
<1>1. LobbyInv => SeatExclusive
    <2> SUFFICES ASSUME LobbyInv, NEW s \in Slots
                 PROVE  Cardinality(CharactersOf(s)) <= 1
        BY DEF SeatExclusive
    <2>1. CASE CharactersOf(s) = {}
        BY <2>1, FS_EmptySet
    <2>2. CASE CharactersOf(s) # {}
        <3>1. PICK c \in CharactersOf(s) : TRUE
            BY <2>2
        <3>2. CharactersOf(s) = {c}
            BY <3>1, SlotFacts DEF LobbyInv, SeatsDistinct, CharactersOf
        <3>3. Cardinality(CharactersOf(s)) = 1
            BY <3>2, FS_Singleton
        <3> QED
            BY <3>3
    <2> QED
        BY <2>1, <2>2
<1> QED
    BY <1>1, LobbyInvariance, PTL

\* No timeout thread can make a slot whose player is logged in look free to
\* on_join.
THEOREM SeatsAreHeld == Spec => []SeatHeld
<1>1. LobbyInv => SeatHeld
    BY DEF LobbyInv
<1> QED
    BY <1>1, LobbyInvariance, PTL

\* Private hash, printable IP address and character always agree on who is
\* logged in.
THEOREM RecordsAlwaysAgree == Spec => []RecordsAgree
<1>1. LobbyInv => RecordsAgree
    BY DEF LobbyInv
<1> QED
    BY <1>1, LobbyInvariance, PTL

\* recv never gives one client address two slots, and reset never takes the
\* address of a player who is still logged in.
THEOREM AddressesAreOwned == Spec => []AddressOwnership
<1>1. LobbyInv => AddressOwnership
    BY DEF LobbyInv
<1> QED
    BY <1>1, LobbyInvariance, PTL

\* mPlayerCount errs in one direction only.
THEOREM CountNeverTooHigh == Spec => []NeverOvercounted
<1>1. LobbyInv => NeverOvercounted
    BY DEF LobbyInv
<1> QED
    BY <1>1, LobbyInvariance, PTL

\* on_join's index into mPlayers is in range for each slot of its loop although
\* it is compared with the maximum only once: a slot that is free to answer
\* means a character that is free to take.
THEOREM JoinIndexStaysInBounds == Spec => []JoinIndexInBounds
<1>1. LobbyInv => JoinIndexInBounds
    <2> SUFFICES ASSUME LobbyInv, pc = "join", Answers(cursor)
                 PROVE  playerCount \in Characters
        BY DEF JoinIndexInBounds
    <2>1. cursor \in Slots /\ ~Seated(cursor)
        BY DEF LobbyInv, TypeOK, SeatHeld, Answers
    <2>2. Cardinality(SeatedCharacters) < MaxConnections
        BY <2>1, RoomForOneMore DEF LobbyInv
    <2>3. playerCount \in Int /\ playerCount >= 0 /\ playerCount < MaxConnections
        BY <2>2, SeatedFinite, LobbyAssumption
           DEF LobbyInv, NeverOvercounted, JoinInProgress, TypeOK
    <2> QED
        BY <2>3, LobbyAssumption DEF Characters
<1> QED
    BY <1>1, LobbyInvariance, PTL

-----------------------------------------------------------------------------
(* What a single step may do *)

\* A logoff leaves its slot without a character: there was one at the most.
LEMMA LogOffUnseats ==
    ASSUME LobbyInv, LogOff, NEW s \in Slots, s = cursor
    PROVE  ~Seated(s)'
<1> SUFFICES \A c \in Characters : peerOf'[c] # s
    BY DEF Seated, CharactersOf
<1>1. peerOf' = Release(s)
    BY DEF LogOff
<1>2. CASE ~Seated(s)
    BY <1>1, <1>2, ReleaseUnseated DEF Seated, CharactersOf
<1>3. CASE Seated(s)
    <2>1. PICK d \in Characters : peerOf[d] = s
        BY <1>3 DEF Seated, CharactersOf
    <2>2. peerOf' = [peerOf EXCEPT ![d] = NoPeer]
        BY <1>1, <2>1, ReleaseSeat DEF LobbyInv
    <2> QED
        BY <2>1, <2>2, SlotFacts DEF LobbyInv, TypeOK, SeatsDistinct
<1> QED
    BY <1>2, <1>3

\* Apart from a datagram no step takes a leave command out of the packet of a
\* slot that stays seated, and none changes the two hashes it is signed by.
LEMMA StepKeepsSignature ==
    ASSUME LobbyInv, Next, ~Deliver, NEW s \in Slots, SignedOut(s), Seated(s)'
    PROVE  SignedOut(s)'
<1> USE DEF LobbyInv, slotVars, loginVars, loopVars
<1> SUFFICES /\ packet[s].cmd \cap LeaveCommands \subseteq packet'[s].cmd
             /\ packet'[s].hash = packet[s].hash
             /\ hash'[s] = hash[s]
    BY DEF SignedOut
<1>1. CASE UNCHANGED <<packet, hash>>
    BY <1>1
<1>2. ASSUME NEW c \in Checks, CheckStep(c)
      PROVE  /\ packet[s].cmd \cap LeaveCommands \subseteq packet'[s].cmd
             /\ packet'[s].hash = packet[s].hash
             /\ hash'[s] = hash[s]
    <2> DEFINE t == check[c].slot
    <2>1. t \in Slots /\ UNCHANGED hash
        BY <1>2 DEF TypeOK, CheckStep, CheckStart, CheckHandshake, CheckWake,
                    CheckExpire, CheckRefuse, CheckClear
    <2>2. CASE CheckStart(c) \/ CheckWake(c)
        BY <1>1, <2>2 DEF CheckStart, CheckWake
    <2>3. CASE CheckHandshake(c)
        <3>1. \/ packet' = packet
              \/ packet' = [packet EXCEPT ![t].cmd = @ \cup {"KICK"}]
            BY <2>3 DEF CheckHandshake
        <3> HIDE DEF t
        <3> QED
            BY <2>1, <3>1 DEF TypeOK, Packets
    <2>4. CASE CheckExpire(c) \/ CheckRefuse(c)
        <3>1. PICK k \in {"STOP", "KICK"} :
                 packet' = [packet EXCEPT ![t] = Evicted(t, k)]
            BY <2>4 DEF CheckExpire, CheckRefuse
        <3> HIDE DEF t
        <3> QED
            BY <2>1, <3>1 DEF Evicted, TypeOK, Packets, SignedOut
    <2>5. CASE CheckClear(c)
        <3>1. packet' = [packet EXCEPT ![t] = AckConsumed(t)]
            BY <2>5 DEF CheckClear
        <3> HIDE DEF t
        <3> QED
            BY <2>1, <3>1 DEF AckConsumed, LeaveCommands, TypeOK, Packets
    <2> QED
        BY <1>2, <2>2, <2>3, <2>4, <2>5 DEF CheckStep
<1>3. CASE LogOff
    <2>1. cursor \in Slots /\ cursor # s
        BY <1>3, LogOffUnseats DEF LogOff, TypeOK
    <2>2. hash'[s] = hash[s]
        BY <1>3, <2>1 DEF LogOff, TypeOK
    <2>3. \/ packet'[s] = packet[s]
          \/ packet'[s] = NoticePacket(packet[s])
        BY <1>3, <2>1 DEF LogOff
    <2>4. /\ NoticePacket(packet[s]).hash = packet[s].hash
          /\ packet[s].cmd \subseteq NoticePacket(packet[s]).cmd
        BY DEF NoticePacket, TypeOK, Packets
    <2> QED
        BY <2>2, <2>3, <2>4
<1>4. CASE JoinFinish
    <2>1. cursor \in Slots /\ ~Seated(cursor)
        BY <1>4 DEF JoinFinish, JoinInProgress, TypeOK
    <2>2. cursor # s
        BY <2>1 DEF SignedOut
    <2> QED
        BY <1>4, <2>1, <2>2 DEF JoinFinish, TypeOK
<1>5. CASE RecvNothing \/ \E a \in Addresses : RecvUnowned(a)
    BY <1>1, <1>5 DEF RecvNothing, RecvUnowned
<1>6. CASE Timeout \/ SendAll \/ Tick
    BY <1>1, <1>6 DEF Timeout, SendAll, Tick
<1>7. CASE OnLeave \/ LeaveSkip
    BY <1>1, <1>7 DEF OnLeave, LeaveSkip
<1>8. CASE OnJoin \/ JoinSkip \/ JoinBegin
    BY <1>1, <1>8 DEF OnJoin, JoinSkip, JoinBegin
<1> QED
    BY <1>2, <1>3, <1>4, <1>5, <1>6, <1>7, <1>8
       DEF Next, Main, Recv, Logout, Login

\* Nothing but a datagram ever undoes a signed departure, for any number of
\* timeout threads at the same slot.
THEOREM EvictionsStand == Spec => EvictionStands
<1>1. LobbyInv /\ [Next]_vars
        => [~Deliver => \A s \in Slots :
                           SignedOut(s) => SignedOut(s)' \/ ~Seated(s)']_vars
    BY StepKeepsSignature
<1> QED
    BY <1>1, LobbyInvariance, PTL DEF Spec, EvictionStands

\* No step of the server, its threads or the clock asks for a login or acknowledges
\* anything on behalf of a client.
LEMMA StepAddsNoRequest ==
    ASSUME LobbyInv, Next, ~Deliver, NEW s \in Slots, NEW k \in {"BEGIN", "ACK"},
           k \in packet'[s].cmd
    PROVE  k \in packet[s].cmd
<1> USE DEF LobbyInv, slotVars, loginVars, loopVars
<1>1. CASE UNCHANGED packet
    BY <1>1
<1>2. ASSUME NEW c \in Checks, CheckStep(c)
      PROVE  k \in packet[s].cmd
    <2> DEFINE t == check[c].slot
    <2>1. t \in Slots
        BY DEF TypeOK
    <2>2. CASE CheckStart(c) \/ CheckWake(c)
        BY <1>1, <2>2 DEF CheckStart, CheckWake
    <2>3. CASE CheckHandshake(c)
        <3>1. \/ packet' = packet
              \/ packet' = [packet EXCEPT ![t].cmd = @ \cup {"KICK"}]
            BY <2>3 DEF CheckHandshake
        <3> HIDE DEF t
        <3> QED
            BY <2>1, <3>1 DEF TypeOK, Packets
    <2>4. CASE CheckExpire(c) \/ CheckRefuse(c)
        <3>1. PICK q \in {"STOP", "KICK"} :
                 packet' = [packet EXCEPT ![t] = Evicted(t, q)]
            BY <2>4 DEF CheckExpire, CheckRefuse
        <3> HIDE DEF t
        <3> QED
            BY <2>1, <3>1 DEF Evicted, TypeOK, Packets
    <2>5. CASE CheckClear(c)
        <3>1. packet' = [packet EXCEPT ![t] = AckConsumed(t)]
            BY <2>5 DEF CheckClear
        <3> HIDE DEF t
        <3> QED
            BY <2>1, <3>1 DEF AckConsumed, TypeOK, Packets
    <2> QED
        BY <1>2, <2>2, <2>3, <2>4, <2>5 DEF CheckStep
<1>3. CASE LogOff
    <2>1. packet'[s] \in {packet[s], ResetPacket(packet[s]), NoticePacket(packet[s])}
        BY <1>3 DEF LogOff
    <2>2. packet[s] \in Packets
        BY DEF TypeOK
    <2> QED
        BY <2>1, <2>2 DEF ResetPacket, NoticePacket, Packets
<1>4. CASE JoinFinish
    BY <1>4 DEF JoinFinish, TypeOK, Packets
<1>5. CASE RecvNothing \/ \E a \in Addresses : RecvUnowned(a)
    BY <1>1, <1>5 DEF RecvNothing, RecvUnowned
<1>6. CASE Timeout \/ SendAll \/ Tick
    BY <1>1, <1>6 DEF Timeout, SendAll, Tick
<1>7. CASE OnLeave \/ LeaveSkip
    BY <1>1, <1>7 DEF OnLeave, LeaveSkip
<1>8. CASE OnJoin \/ JoinSkip \/ JoinBegin
    BY <1>1, <1>8 DEF OnJoin, JoinSkip, JoinBegin
<1> QED
    BY <1>2, <1>3, <1>4, <1>5, <1>6, <1>7, <1>8
       DEF Next, Main, Recv, Logout, Login

\* Only a datagram acknowledges, and only a datagram asks for a login: what a
\* timeout thread has consumed stays consumed while the client is silent.  With
\* EvictionStands this is the safety that SilentPlayersLeave rests on.
THEOREM SilenceIsStable ==
    Spec => [][~Deliver =>
                  \A s \in Slots : packet'[s].cmd \cap {"BEGIN", "ACK"}
                                       \subseteq packet[s].cmd]_vars
<1>1. LobbyInv /\ [Next]_vars
        => [~Deliver =>
              \A s \in Slots : packet'[s].cmd \cap {"BEGIN", "ACK"}
                                   \subseteq packet[s].cmd]_vars
    BY StepAddsNoRequest
<1> QED
    BY <1>1, LobbyInvariance, PTL DEF Spec

\* The lobby that believes it has as many players as it can have is right: then
\* every slot is taken.  Turning logins away as full is wrong only below zero,
\* which is what FullOnlyWithPlayers is violated by.
THEOREM FullMeansFull ==
    Spec => [](playerCount >= MaxConnections => \A s \in Slots : Seated(s))
<1>1. LobbyInv => (playerCount >= MaxConnections => \A s \in Slots : Seated(s))
    <2> SUFFICES ASSUME LobbyInv, playerCount >= MaxConnections,
                        NEW s \in Slots, ~Seated(s)
                 PROVE  FALSE
        OBVIOUS
    <2>1. Cardinality(SeatedCharacters) < MaxConnections
        BY RoomForOneMore DEF LobbyInv
    <2> QED
        BY <2>1, SeatedFinite, LobbyAssumption
           DEF LobbyInv, NeverOvercounted, TypeOK
<1> QED
    BY <1>1, LobbyInvariance, PTL

-----------------------------------------------------------------------------
(* The server implements LobbyRoster *)

LEMMA RosterInitially == Init => Roster!RosterInit
BY DEF Init, Roster!RosterInit

\* Characters and private hashes change in two steps only.
LEMMA OtherStepsKeepRoster ==
    ASSUME [Next]_vars
    PROVE  JoinFinish \/ LogOff \/ UNCHANGED <<peerOf, hash>>
<1> USE DEF slotVars, loginVars, loopVars
<1>1. CASE Recv
    BY <1>1 DEF Recv, Deliver, RecvNothing, RecvUnowned, RecvPacket
<1>2. CASE Timeout \/ SendAll \/ Tick
    BY <1>2 DEF Timeout, SendAll, Tick
<1>3. CASE Logout
    BY <1>3 DEF Logout, OnLeave, LeaveSkip
<1>4. CASE Login
    BY <1>4 DEF Login, OnJoin, JoinSkip, JoinBegin
<1>5. CASE \E c \in Checks : CheckStep(c)
    BY <1>5 DEF CheckStep, CheckStart, CheckHandshake, CheckWake,
                CheckExpire, CheckRefuse, CheckClear
<1>6. CASE UNCHANGED vars
    BY <1>6 DEF vars
<1> QED
    BY <1>1, <1>2, <1>3, <1>4, <1>5, <1>6 DEF Next, Main

\* A login is the step that finishes it, a logoff the step that resets the
\* slot; a logoff nobody is behind, and every other step, changes nothing.
LEMMA RosterStep ==
    ASSUME LobbyInv, [Next]_vars
    PROVE  [Roster!RosterNext]_(Roster!rosterVars)
<1> USE DEF LobbyInv, Roster!rosterVars
<1>1. CASE JoinFinish
    <2>1. /\ cursor \in Slots
          /\ playerCount \in Characters
          /\ peerOf[playerCount] = NoPeer
          /\ ~Seated(cursor)
          /\ hash[cursor] = InvalidHash
        BY <1>1 DEF JoinFinish, JoinInProgress, Accepts, TypeOK, RecordsAgree
    <2>2. Roster!Login(playerCount, cursor, epoch)
        BY <1>1, <2>1 DEF JoinFinish, Roster!Login, Roster!Free, Roster!SeatedAt,
                          Seated, CharactersOf
    <2>3. epoch \in 1..MaxEpoch
        BY DEF TypeOK
    <2> QED
        BY <2>1, <2>2, <2>3 DEF Roster!RosterNext
<1>2. CASE LogOff
    <2>1. /\ cursor \in Slots
          /\ hash' = [hash EXCEPT ![cursor] = InvalidHash]
          /\ peerOf' = Release(cursor)
        BY <1>2 DEF LogOff, TypeOK
    <2>2. CASE Seated(cursor)
        <3>1. PICK c \in Characters : peerOf[c] = cursor
            BY <2>2 DEF Seated, CharactersOf
        <3>2. peerOf' = [peerOf EXCEPT ![c] = NoPeer] /\ peerOf[c] # NoPeer
            BY <2>1, <3>1, ReleaseSeat, SlotFacts
        <3>3. Roster!Logoff(c)
            BY <2>1, <3>1, <3>2 DEF Roster!Logoff, Roster!Free
        <3> QED
            BY <3>3 DEF Roster!RosterNext
    <2>3. CASE ~Seated(cursor)
        <3>1. peerOf' = peerOf
            BY <2>1, <2>3, ReleaseUnseated
        <3>2. hash' = hash
            BY <2>1, <2>3 DEF RecordsAgree, TypeOK
        <3> QED
            BY <3>1, <3>2
    <2> QED
        BY <2>2, <2>3
<1>3. CASE UNCHANGED <<peerOf, hash>>
    BY <1>3
<1> QED
    BY <1>1, <1>2, <1>3, OtherStepsKeepRoster

\* The lobby server keeps the promise of LobbyRoster: players enter and leave
\* one at a time, seat and badge together, whatever the timeout threads do.
THEOREM ImplementsRoster == Spec => RosterSpec
<1>1. LobbyInv /\ [Next]_vars => [Roster!RosterNext]_(Roster!rosterVars)
    BY RosterStep
<1> QED
    BY RosterInitially, <1>1, LobbyInvariance, PTL
       DEF Spec, RosterSpec, Roster!RosterSpec

\* From login to logoff a player keeps character, slot and private hash, and the
\* only way out is a leave command signed with that hash, the STOP of another
\* player's departure included, in a packet that was not on the chat channel.
THEOREM PlayersLeaveSigned ==
    Spec => [][\A c \in Characters :
                  ~Roster!Free(c) =>
                      \/ peerOf'[c] = peerOf[c] /\ hash'[peerOf[c]] = hash[peerOf[c]]
                      \/ peerOf'[c] = NoPeer /\ LogsOff(peerOf[c])]_vars
<1>1. ASSUME LobbyInv, [Next]_vars, NEW c \in Characters, ~Roster!Free(c)
      PROVE  \/ peerOf'[c] = peerOf[c] /\ hash'[peerOf[c]] = hash[peerOf[c]]
             \/ peerOf'[c] = NoPeer /\ LogsOff(peerOf[c])
    <2> USE DEF LobbyInv
    <2>1. peerOf[c] \in Slots /\ peerOf[c] # NoPeer
        BY <1>1 DEF TypeOK, Roster!Free
    <2>2. CASE UNCHANGED <<peerOf, hash>>
        BY <2>2
    <2>3. CASE JoinFinish
        <3>1. cursor \in Slots /\ ~Seated(cursor) /\ playerCount # c
            BY <1>1, <2>1, <2>3 DEF JoinFinish, JoinInProgress, Accepts, TypeOK
        <3>2. peerOf[c] # cursor
            BY <3>1 DEF Seated, CharactersOf
        <3> QED
            BY <1>1, <2>1, <2>3, <3>1, <3>2 DEF JoinFinish, TypeOK
    <2>4. CASE LogOff
        <3>1. /\ cursor \in Slots
              /\ LogsOff(cursor)
              /\ peerOf' = Release(cursor)
              /\ hash' = [hash EXCEPT ![cursor] = InvalidHash]
            BY <1>1, <2>4 DEF LogOff, TypeOK
        <3>2. CASE peerOf[c] = cursor
            <4>1. peerOf' = [peerOf EXCEPT ![c] = NoPeer]
                BY <1>1, <3>1, <3>2, ReleaseSeat
            <4> QED
                BY <1>1, <3>1, <3>2, <4>1 DEF TypeOK
        <3>3. CASE peerOf[c] # cursor
            <4>1. peerOf'[c] = peerOf[c]
                <5>1. CASE Seated(cursor)
                    <6>1. PICK d \in Characters : peerOf[d] = cursor
                        BY <5>1 DEF Seated, CharactersOf
                    <6>2. peerOf' = [peerOf EXCEPT ![d] = NoPeer]
                        BY <1>1, <3>1, <6>1, ReleaseSeat
                    <6> QED
                        BY <1>1, <3>3, <6>1, <6>2 DEF TypeOK
                <5>2. CASE ~Seated(cursor)
                    BY <3>1, <5>2, ReleaseUnseated
                <5> QED
                    BY <5>1, <5>2
            <4> QED
                BY <1>1, <2>1, <3>1, <3>3, <4>1 DEF TypeOK
        <3> QED
            BY <3>2, <3>3
    <2> QED
        BY <1>1, <2>2, <2>3, <2>4, OtherStepsKeepRoster
<1>2. LobbyInv /\ [Next]_vars =>
        [\A c \in Characters :
            ~Roster!Free(c) =>
                \/ peerOf'[c] = peerOf[c] /\ hash'[peerOf[c]] = hash[peerOf[c]]
                \/ peerOf'[c] = NoPeer /\ LogsOff(peerOf[c])]_vars
    BY <1>1
<1> QED
    BY <1>2, LobbyInvariance, PTL DEF Spec

-----------------------------------------------------------------------------
(* What the violated statements need to hold *)

\* The private hash of a slot that stays seated does not change.
LEMMA SeatKeepsHash ==
    ASSUME LobbyInv, [Next]_vars, NEW s \in Slots, Seated(s), Seated(s)'
    PROVE  hash'[s] = hash[s]
<1> PICK c \in Characters : peerOf[c] = s
    BY DEF Seated, CharactersOf
<1>1. CASE UNCHANGED <<peerOf, hash>>
    BY <1>1
<1>2. CASE JoinFinish
    <2>1. cursor \in Slots /\ ~Seated(cursor)
        BY <1>2 DEF JoinFinish, JoinInProgress, LobbyInv, TypeOK
    <2> QED
        BY <1>2, <2>1 DEF JoinFinish, LobbyInv, TypeOK
<1>3. CASE LogOff
    <2>1. cursor \in Slots /\ peerOf' = Release(cursor)
        BY <1>3 DEF LogOff, LobbyInv, TypeOK
    <2>2. cursor # s
        BY <1>3, LogOffUnseats
    <2> QED
        BY <1>3, <2>1, <2>2 DEF LogOff, LobbyInv, TypeOK
<1> QED
    BY <1>1, <1>2, <1>3, OtherStepsKeepRoster

\* A slot becomes seated in the step that finishes a login in it.
LEMMA SeatTakenByLogin ==
    ASSUME LobbyInv, [Next]_vars, NEW s \in Slots, ~Seated(s), Seated(s)'
    PROVE  JoinFinish /\ cursor = s
<1>1. ~UNCHANGED <<peerOf, hash>>
    BY DEF Seated, CharactersOf
<1>2. ~LogOff
    <2> SUFFICES ASSUME LogOff PROVE FALSE
        OBVIOUS
    <2>1. cursor \in Slots /\ peerOf' = Release(cursor)
        BY DEF LogOff, LobbyInv, TypeOK
    <2>2. PICK c \in Characters : peerOf'[c] = s
        BY DEF Seated, CharactersOf
    <2>3. CASE ~Seated(cursor)
        BY <2>1, <2>2, <2>3, ReleaseUnseated DEF Seated, CharactersOf
    <2>4. CASE Seated(cursor)
        <3>1. PICK d \in Characters : peerOf[d] = cursor
            BY <2>4 DEF Seated, CharactersOf
        <3>2. peerOf' = [peerOf EXCEPT ![d] = NoPeer]
            BY <2>1, <3>1, ReleaseSeat DEF LobbyInv
        <3> QED
            BY <2>2, <3>2, SlotFacts DEF Seated, CharactersOf, LobbyInv, TypeOK
    <2> QED
        BY <2>3, <2>4
<1>3. JoinFinish
    BY <1>1, <1>2, OtherStepsKeepRoster
<1>4. peerOf' = [peerOf EXCEPT ![playerCount] = cursor]
    BY <1>3 DEF JoinFinish
<1> QED
    BY <1>3, <1>4 DEF Seated, CharactersOf, LobbyInv, TypeOK

\* What a client was told it goes on knowing.
LEMMA ToldGrows ==
    ASSUME TypeOK, [Next]_vars, NEW a \in Addresses
    PROVE  told[a] \subseteq told'[a]
<1> USE DEF slotVars, loginVars, loopVars
<1>1. ASSUME NEW pk, NEW ad
      PROVE  told[a] \subseteq HeardFrom(pk, ad)[a]
    BY DEF HeardFrom
<1>2. CASE Recv \/ Timeout \/ Tick \/ UNCHANGED vars
    BY <1>2 DEF Recv, Deliver, RecvNothing, RecvUnowned, RecvPacket, Timeout,
                Tick, vars
<1>3. CASE Logout
    BY <1>1, <1>3 DEF Logout, OnLeave, LeaveSkip, LogOff
<1>4. CASE Login
    BY <1>1, <1>4 DEF Login, OnJoin, JoinSkip, JoinBegin, JoinFinish
<1>5. CASE SendAll
    BY <1>1, <1>5 DEF SendAll
<1>6. CASE \E c \in Checks : CheckStep(c)
    BY <1>6 DEF CheckStep, CheckStart, CheckHandshake, CheckWake, CheckExpire,
                CheckRefuse, CheckClear
<1> QED
    BY <1>2, <1>3, <1>4, <1>5, <1>6 DEF Next, Main

\* A logoff with nobody behind it: a timeout thread brought the slot back after
\* its player had left.
PhantomLogoff == LogOff /\ ~Seated(cursor)

\* The count and the seats change together in every other step.
LEMMA CountFollowsSeats ==
    ASSUME LobbyInv, [Next]_vars, ~PhantomLogoff
    PROVE  playerCount' - playerCount
             = Cardinality(SeatedCharacters)' - Cardinality(SeatedCharacters)
<1> USE DEF LobbyInv
<1>1. CASE JoinFinish
    <2>1. /\ cursor \in Slots
          /\ playerCount \in Characters
          /\ peerOf[playerCount] = NoPeer
          /\ playerCount' = playerCount + 1
          /\ peerOf' = [peerOf EXCEPT ![playerCount] = cursor]
        BY <1>1 DEF JoinFinish, JoinInProgress, Accepts, TypeOK
    <2>2. Cardinality(SeatedCharacters)' = Cardinality(SeatedCharacters) + 1
        BY <2>1, SeatsAfterLogin
    <2> QED
        BY <2>1, <2>2, SeatedFinite DEF TypeOK
<1>2. CASE LogOff
    <2>1. /\ cursor \in Slots
          /\ Seated(cursor)
          /\ playerCount' = playerCount - 1
          /\ peerOf' = Release(cursor)
        BY <1>2 DEF LogOff, PhantomLogoff, CountAfterLogoff, TypeOK
    <2>2. PICK c \in Characters : peerOf[c] = cursor
        BY <2>1 DEF Seated, CharactersOf
    <2>3. peerOf' = [peerOf EXCEPT ![c] = NoPeer] /\ peerOf[c] # NoPeer
        BY <2>1, <2>2, ReleaseSeat, SlotFacts
    <2>4. Cardinality(SeatedCharacters)' = Cardinality(SeatedCharacters) - 1
        BY <2>3, SeatsAfterLogoff
    <2> QED
        BY <2>1, <2>4, SeatedFinite DEF TypeOK
<1>3. CASE ~JoinFinish /\ ~LogOff
    <2>1. UNCHANGED <<peerOf, playerCount>>
        <3> USE DEF slotVars, loginVars, loopVars
        <3>1. CASE Recv
            BY <3>1 DEF Recv, Deliver, RecvNothing, RecvUnowned, RecvPacket
        <3>2. CASE Timeout \/ SendAll \/ Tick
            BY <3>2 DEF Timeout, SendAll, Tick
        <3>3. CASE Logout
            BY <1>3, <3>3 DEF Logout, OnLeave, LeaveSkip
        <3>4. CASE Login
            BY <1>3, <3>4 DEF Login, OnJoin, JoinSkip, JoinBegin
        <3>5. CASE \E c \in Checks : CheckStep(c)
            BY <3>5 DEF CheckStep, CheckStart, CheckHandshake, CheckWake,
                        CheckExpire, CheckRefuse, CheckClear
        <3>6. CASE UNCHANGED vars
            BY <3>6 DEF vars
        <3> QED
            BY <3>1, <3>2, <3>3, <3>4, <3>5, <3>6 DEF Next, Main
    <2> QED
        BY <2>1, SeatedFinite DEF SeatedCharacters, TypeOK
<1> QED
    BY <1>1, <1>2, <1>3

\* Without such a logoff the count is exact, and "Maximum players in single
\* party" (NetworkServerComponent.h:19) is true: a lobby that turns logins away
\* as full has a player in every slot.  Late timeout threads are all that can
\* violate FullOnlyWithPlayers.
THEOREM FullUnlessPhantoms ==
    Spec /\ [][~PhantomLogoff]_vars => []FullOnlyWithPlayers
<1> DEFINE Exact == playerCount = Cardinality(SeatedCharacters)
<1>1. Init => Exact
    <2> SUFFICES ASSUME Init PROVE Exact
        OBVIOUS
    <2>1. SeatedCharacters = {}
        BY DEF Init, SeatedCharacters
    <2> QED
        BY <2>1, FS_EmptySet DEF Init
<1>2. LobbyInv /\ Exact /\ [Next]_vars /\ [~PhantomLogoff]_vars => Exact'
    <2> SUFFICES ASSUME LobbyInv, Exact, [Next]_vars, [~PhantomLogoff]_vars
                 PROVE  Exact'
        OBVIOUS
    <2>1. CASE ~PhantomLogoff
        <3>1. /\ Cardinality(SeatedCharacters) \in Nat
              /\ Cardinality(SeatedCharacters)' \in Nat
              /\ playerCount \in Int /\ playerCount' \in Int
            BY StepInv, SeatedFinite, SeatedFinitePrimed DEF LobbyInv, TypeOK
        <3>2. playerCount' - playerCount
                = Cardinality(SeatedCharacters)' - Cardinality(SeatedCharacters)
            BY <2>1, CountFollowsSeats
        <3> QED
            BY <3>1, <3>2
    <2>2. CASE UNCHANGED vars
        BY <2>2 DEF vars, loginVars, SeatedCharacters
    <2> QED
        BY <2>1, <2>2
<1>3. LobbyInv /\ Exact => FullOnlyWithPlayers
    <2> SUFFICES ASSUME LobbyInv, Exact, LobbyFull, NEW s \in Slots, ~Seated(s)
                 PROVE  FALSE
        BY DEF FullOnlyWithPlayers
    <2>1. Cardinality(SeatedCharacters) < MaxConnections
        BY RoomForOneMore DEF LobbyInv
    <2> QED
        BY <2>1, SeatedFinite, LobbyAssumption DEF LobbyFull
<1> QED
    BY <1>1, <1>2, <1>3, LobbyInvariance, PTL DEF Spec

\* A login that draws both of its hashes in the same second.
OneSecondLogin == JoinFinish => publicHash[cursor] = epoch

\* No other sender is registered in the slot of a player who is in stasis.
AddressesStay ==
    \A s \in Slots : Seated(s) /\ Seated(s)' => address'[s] = address[s]

\* Under these two conditions every player knows the private hash ("PRIVATE
\* NETWORK HASH", LocalReplicationComponent.h:33): a login that crosses a second
\* and a sender that takes a slot over are all that violates
\* ClientKnowsPrivateHash.
THEOREM HashKnownUnlessLate ==
    Spec /\ [][OneSecondLogin /\ AddressesStay]_vars => []ClientKnowsPrivateHash
<1> DEFINE Known == \A s \in Slots : Seated(s) => hash[s] \in told[address[s]]
<1>1. Init => Known
    BY SlotFacts DEF Init, Seated, CharactersOf
<1>2. LobbyInv /\ Known /\ [Next]_vars /\ [OneSecondLogin /\ AddressesStay]_vars
        => Known'
    <2> SUFFICES ASSUME LobbyInv, Known, [Next]_vars,
                        [OneSecondLogin /\ AddressesStay]_vars,
                        NEW s \in Slots, Seated(s)'
                 PROVE  hash'[s] \in told'[address'[s]]
        OBVIOUS
    <2>1. CASE UNCHANGED vars
        BY <2>1 DEF vars, slotVars, loginVars, Seated, CharactersOf
    <2>2. CASE OneSecondLogin /\ AddressesStay /\ Seated(s)
        <3>1. /\ address'[s] = address[s]
              /\ address[s] \in Addresses
            BY <2>2 DEF AddressesStay, LobbyInv, AddressOwnership, TypeOK
        <3>2. hash'[s] = hash[s]
            BY <2>2, SeatKeepsHash
        <3>3. told[address[s]] \subseteq told'[address[s]]
            BY <3>1, ToldGrows DEF LobbyInv
        <3> QED
            BY <2>2, <3>1, <3>2, <3>3
    <2>3. CASE OneSecondLogin /\ ~Seated(s)
        <3>1. JoinFinish /\ cursor = s
            BY <2>3, SeatTakenByLogin
        <3>2. /\ address[s] \in Addresses
              /\ address' = address
              /\ hash'[s] = epoch
              /\ publicHash[s] = epoch
              /\ epoch # InvalidHash
            BY <2>3, <3>1, SlotFacts, LobbyAssumption
               DEF OneSecondLogin, JoinFinish, JoinInProgress, LobbyInv, TypeOK,
                   InvalidHash
        <3> DEFINE pk == [packet EXCEPT ![s].hash = publicHash[s],
                                        ![s].cmd = @ \cup {"ACCEPT"}]
        <3>3. told' = HeardFrom(pk, address)
            BY <3>1 DEF JoinFinish
        <3>4. pk[s].hash = publicHash[s] /\ "ACCEPT" \in pk[s].cmd
            BY DEF LobbyInv, TypeOK, Packets
        <3> HIDE DEF pk
        <3>5. epoch \in told'[address[s]]
            BY <3>2, <3>3, <3>4 DEF HeardFrom
        <3> QED
            BY <3>2, <3>5
    <2> QED
        BY <2>1, <2>2, <2>3
<1>3. Known => ClientKnowsPrivateHash
    BY DEF ClientKnowsPrivateHash
<1> QED
    BY <1>1, <1>2, <1>3, LobbyInvariance, PTL DEF Spec

=============================================================================
