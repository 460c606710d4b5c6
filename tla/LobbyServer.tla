----------------------------- MODULE LobbyServer -----------------------------
(***************************************************************************)
(* The XPXServer lobby process: the peer slots NetworkServerComponent      *)
(* preallocates, the main loop of ServerMain.cpp (recv_all, TimeoutEvent,  *)
(* LoginEvent::on_leave, LoginEvent::on_join, send_all) and the detached   *)
(* threads NetworkPeer::timeout starts.                                    *)
(*                                                                         *)
(* The main thread is one process: pc says which loop it is in and cursor  *)
(* which slot that loop is at, one step per slot.  A timeout thread        *)
(* ("check") interleaves with it between any two steps; nothing in the     *)
(* code synchronises them.  A packet is both the last datagram received    *)
(* from a peer and the next one sent to it, exactly as peer->packet is.    *)
(***************************************************************************)
EXTENDS NetworkProtocol, FiniteSets

CONSTANTS
    MaxConnections,   \* XPLICIT_MAX_CONNECTIONS: slots, and characters
    Addresses,        \* sender addresses, ordered as memcmp orders sa_data
    ClientCommands,   \* the command sets a client puts in a datagram
    Channels,         \* the channels a client sends on, "DATA" among them
    Checks,           \* pool of timeout threads alive at the same time
    MaxEpoch          \* last second the epoch clock reaches

ASSUME LobbyAssumption ==
    /\ MaxConnections \in Nat \ {0}
    /\ Addresses \subseteq Nat \ {NoAddress}
    /\ ClientCommands \subseteq SUBSET Commands
    /\ "DATA" \in Channels
    /\ MaxEpoch \in Nat \ {0}

VARIABLES
    status,       \* NetworkPeer::status of each slot
    address,      \* NetworkPeer::address, NoAddress when zeroed
    hash,         \* NetworkPeer::hash, the private hash
    publicHash,   \* NetworkPeer::public_hash
    ipAddress,    \* whether NetworkPeer::ip_address is non-empty
    packet,       \* NetworkPeer::packet
    peerOf,       \* CharacterComponent::mPeer of each of LoginEvent::mPlayers
    playerCount,  \* LoginEvent::mPlayerCount; -k stands for 2^64 - k
    pc,           \* the loop the main thread is in
    cursor,       \* the slot that loop is at
    check,        \* the timeout threads: phase and slot
    epoch,        \* time(nullptr), in seconds
    told          \* told[a]: the hashes an ACCEPT packet told the client at a

slotVars  == <<status, address, hash, publicHash, ipAddress, packet>>
loginVars == <<peerOf, playerCount>>
loopVars  == <<pc, cursor>>
vars == <<slotVars, loginVars, loopVars, check, epoch, told>>

Slots      == 1..MaxConnections
Characters == 0..(MaxConnections - 1)
NoPeer     == 0
Hashes     == {InvalidHash} \cup 0..MaxEpoch
Packets    == [hash : Hashes, cmd : SUBSET Commands, channel : Channels]

Loops  == {"recv", "timeout", "on_leave", "leave", "on_join", "join",
           "joining", "send"}
Phases == {"idle", "spawned", "started", "sleeping", "expiring", "refusing",
           "clearing"}

Idle == [phase |-> "idle", slot |-> 1]

-----------------------------------------------------------------------------
(* Helpers *)

Smallest(S) == CHOOSE x \in S : \A y \in S : x <= y

\* The next step of a loop over the slots, or the first of the loop after it.
AdvancePastEnd(next) ==
    IF cursor <= MaxConnections
    THEN pc' = pc /\ cursor' = cursor + 1
    ELSE pc' = next /\ cursor' = 1

Advance(next) ==
    IF cursor < MaxConnections
    THEN pc' = pc /\ cursor' = cursor + 1
    ELSE pc' = next /\ cursor' = 1

Enter(loop) == pc' = loop /\ cursor' = 1

\* LoginEvent::size() compared as the size_t it is: a wrapped count is huge.
LobbyFull  == playerCount >= MaxConnections \/ playerCount < 0
LobbyEmpty == playerCount = 0

\* What the clients know after send_all: a client takes the hash of the first
\* packet that carries ACCEPT (LoadingScreenComponent::update, set_hash).
HeardFrom(pk, ad) ==
    [a \in Addresses |->
        told[a] \cup ({pk[s].hash : s \in {x \in Slots :
                            ad[x] = a /\ "ACCEPT" \in pk[x].cmd}}
                      \ {InvalidHash})]

CharactersOf(s) == {c \in Characters : peerOf[c] = s}

-----------------------------------------------------------------------------
(* NetworkServerContext::recv_all *)

\* A datagram of the client at a.  It carries the hash the client was told, or
\* none yet; delayed and repeated datagrams carry an earlier one.
DatagramsOf(a) ==
    [hash : told[a] \cup {InvalidHash}, cmd : ClientCommands, channel : Channels]

SlotsAt(a) == {s \in Slots : address[s] = a}

\* The slot a datagram from a is registered in while the loop is at slot s, or
\* NoPeer when it is dropped.
DemuxIgnoringOwners(s, a) == s

Demux(s, a) ==
    IF status[s] = "CONNECTED"
    THEN IF address[s] > a
         THEN IF SlotsAt(a) # {} THEN Smallest(SlotsAt(a)) ELSE NoPeer
         ELSE s
    ELSE IF SlotsAt(a) # {} THEN Smallest(SlotsAt(a)) ELSE s

\* recvfrom has nothing, fails, or the datagram has a bad magic or version:
\* recv returns false and recv_all stops.
RecvNothing ==
    /\ pc = "recv"
    /\ Enter("timeout")
    /\ UNCHANGED <<slotVars, loginVars, check, epoch, told>>

RecvUnowned(a) ==
    /\ pc = "recv"
    /\ Demux(cursor, a) = NoPeer
    /\ Enter("timeout")
    /\ UNCHANGED <<slotVars, loginVars, check, epoch, told>>

RecvPacket(a, p) ==
    LET s == Demux(cursor, a) IN
    /\ pc = "recv"
    /\ s # NoPeer
    /\ packet' = [packet EXCEPT ![s] = p]
    /\ address' = IF status[cursor] # "CONNECTED" /\ s = cursor
                  THEN [address EXCEPT ![s] = a]
                  ELSE address
    /\ Advance("timeout")
    /\ UNCHANGED <<status, hash, publicHash, ipAddress, loginVars, check,
                   epoch, told>>

-----------------------------------------------------------------------------
(* TimeoutEvent::operator() and the thread of NetworkPeer::timeout *)

IdleChecks == {c \in Checks : check[c].phase = "idle"}

\* A connected slot gets a thread on every pass, whether or not an earlier one
\* still runs.  With the pool exhausted the new thread is one that is never
\* scheduled, so leaving it out loses no behaviour of the others.
Timeout ==
    /\ pc = "timeout"
    /\ IF status[cursor] = "CONNECTED" /\ IdleChecks # {}
       THEN \E c \in IdleChecks :
                check' = [check EXCEPT ![c] = [phase |-> "spawned",
                                               slot |-> cursor]]
       ELSE UNCHANGED check
    /\ Advance("on_leave")
    /\ UNCHANGED <<slotVars, loginVars, epoch, told>>

Move(c, from, to) ==
    /\ check[c].phase = from
    /\ check' = [check EXCEPT ![c] = IF to = "idle" THEN Idle
                                     ELSE [@ EXCEPT !.phase = to]]

\* The thread's first write, at whatever time it is scheduled.
CheckStart(c) ==
    /\ Move(c, "spawned", "started")
    /\ status' = [status EXCEPT ![check[c].slot] = "STASIS"]
    /\ UNCHANGED <<address, hash, publicHash, ipAddress, packet, loginVars,
                   loopVars, epoch, told>>

\* It then kicks a peer that is connected and still says BEGIN, which takes
\* another thread to have written the status in between; otherwise it sleeps.
CheckHandshake(c) ==
    LET s == check[c].slot IN
    /\ IF "BEGIN" \in packet[s].cmd /\ status[s] = "CONNECTED"
       THEN /\ Move(c, "started", "idle")
            /\ packet' = [packet EXCEPT ![s].cmd = @ \cup {"KICK"}]
       ELSE /\ Move(c, "started", "sleeping")
            /\ UNCHANGED packet
    /\ UNCHANGED <<status, address, hash, publicHash, ipAddress, loginVars,
                   loopVars, epoch, told>>

\* Five seconds later it reads the slot and decides.
CheckWake(c) ==
    LET s == check[c].slot IN
    /\ \/ /\ "ACK" \notin packet[s].cmd
          /\ Move(c, "sleeping",
                  IF status[s] = "STASIS" THEN "expiring" ELSE "idle")
       \/ /\ "ACK" \in packet[s].cmd
          /\ Move(c, "sleeping",
                  IF ipAddress[s] THEN "clearing" ELSE "refusing")
    /\ UNCHANGED <<slotVars, loginVars, loopVars, epoch, told>>

\* The acknowledgement counts once: the next check needs a new one.
AckKept(s) == packet[s]

AllConsumed(s) == [packet[s] EXCEPT !.cmd = {}]

AckConsumed(s) == [packet[s] EXCEPT !.cmd = @ \ {"ACK"}]

\* The packet of a slot whose peer is to be removed by on_leave: it must carry
\* the slot's own hash, or on_leave does not believe it.
Evicted(s, c) == [packet[s] EXCEPT !.hash = hash[s], !.cmd = @ \cup {c}]

CheckExpire(c) ==
    LET s == check[c].slot IN
    /\ Move(c, "expiring", "idle")
    /\ packet' = [packet EXCEPT ![s] = Evicted(s, "STOP")]
    /\ UNCHANGED <<status, address, hash, publicHash, ipAddress, loginVars,
                   loopVars, epoch, told>>

CheckRefuse(c) ==
    LET s == check[c].slot IN
    /\ Move(c, "refusing", "idle")
    /\ packet' = [packet EXCEPT ![s] = Evicted(s, "KICK")]
    /\ UNCHANGED <<status, address, hash, publicHash, ipAddress, loginVars,
                   loopVars, epoch, told>>

CheckClear(c) ==
    LET s == check[c].slot IN
    /\ Move(c, "clearing", "idle")
    /\ packet' = [packet EXCEPT ![s] = AckConsumed(s)]
    /\ status' = [status EXCEPT ![s] = "CONNECTED"]
    /\ UNCHANGED <<address, hash, publicHash, ipAddress, loginVars, loopVars,
                   epoch, told>>

-----------------------------------------------------------------------------
(* LoginEvent::on_leave *)

OnLeave ==
    /\ pc = "on_leave"
    /\ Enter(IF LobbyEmpty THEN "on_join" ELSE "leave")
    /\ UNCHANGED <<slotVars, loginVars, check, epoch, told>>

LogsOff(s) ==
    /\ status[s] # "DISCONNECTED"
    /\ packet[s].channel # "CHAT"
    /\ packet[s].cmd \cap LeaveCommands # {}
    /\ packet[s].hash = hash[s]

LeaveSkip ==
    /\ pc = "leave"
    /\ ~LogsOff(cursor)
    /\ Advance("on_join")
    /\ UNCHANGED <<slotVars, loginVars, check, epoch, told>>

\* The first character bound to the slot loses its peer.
ReleaseNobody(s) == peerOf

Release(s) ==
    IF CharactersOf(s) = {} THEN peerOf
    ELSE [peerOf EXCEPT ![Smallest(CharactersOf(s))] = NoPeer]

CountUnchanged(n) == n

CountAfterLogoff(n) == n - 1

\* NetworkPeer::reset clears the IP address along with everything else.
IpKeptByReset(s) == ipAddress

IpAfterReset(s) == [ipAddress EXCEPT ![s] = FALSE]

LogOff ==
    LET s  == cursor
        st == [status EXCEPT ![s] = "DISCONNECTED"]
        ad == [address EXCEPT ![s] = NoAddress]
        pk == [x \in Slots |-> IF x = s THEN ResetPacket(packet[x])
                               ELSE IF st[x] = "CONNECTED"
                                    THEN NoticePacket(packet[x])
                                    ELSE packet[x]]
    IN
    /\ pc = "leave"
    /\ LogsOff(s)
    /\ status' = st
    /\ address' = ad
    /\ hash' = [hash EXCEPT ![s] = InvalidHash]
    /\ publicHash' = [publicHash EXCEPT ![s] = InvalidHash]
    /\ ipAddress' = IpAfterReset(s)
    /\ packet' = pk
    /\ playerCount' = CountAfterLogoff(playerCount)
    /\ peerOf' = Release(s)
    /\ told' = HeardFrom(pk, ad)
    /\ Advance("on_join")
    /\ UNCHANGED <<check, epoch>>

-----------------------------------------------------------------------------
(* LoginEvent::on_join and XplicitHandleJoin *)

OnJoin ==
    /\ pc = "on_join"
    /\ Enter(IF LobbyFull THEN "send" ELSE "join")
    /\ UNCHANGED <<slotVars, loginVars, check, epoch, told>>

\* A login request waits in a slot that nobody holds.
AnswersInStasisToo(s) ==
    /\ status[s] # "CONNECTED"
    /\ {"BEGIN", "ACK"} \subseteq packet[s].cmd

Answers(s) ==
    /\ status[s] = "DISCONNECTED"
    /\ {"BEGIN", "ACK"} \subseteq packet[s].cmd

\* XplicitHandleJoin refuses a character that already has a peer.
AcceptsAnyway == TRUE

Accepts == peerOf[playerCount] = NoPeer

JoinSkip ==
    /\ pc = "join"
    /\ Answers(cursor) => (playerCount \in Characters /\ ~Accepts)
    /\ Advance("send")
    /\ UNCHANGED <<slotVars, loginVars, check, epoch, told>>

\* The public hash is the current second; drawing a hash then sleeps, so the
\* private one below may be of a later second, or of the same one.
JoinBegin ==
    /\ pc = "join"
    /\ Answers(cursor)
    /\ playerCount \in Characters
    /\ Accepts
    /\ publicHash' = [publicHash EXCEPT ![cursor] = epoch]
    /\ pc' = "joining"
    /\ UNCHANGED <<status, address, hash, ipAddress, packet, loginVars,
                   cursor, check, epoch, told>>

\* The reply carries the public hash in the hash field: the private hash is
\* written there first and overwritten.
JoinFinish ==
    LET s  == cursor
        pk == [packet EXCEPT ![s].hash = publicHash[s],
                             ![s].cmd = @ \cup {"ACCEPT"}]
    IN
    /\ pc = "joining"
    /\ hash' = [hash EXCEPT ![s] = epoch]
    /\ status' = [status EXCEPT ![s] = "CONNECTED"]
    /\ packet' = pk
    /\ peerOf' = [peerOf EXCEPT ![playerCount] = s]
    /\ ipAddress' = [ipAddress EXCEPT ![s] = TRUE]
    /\ playerCount' = playerCount + 1
    /\ told' = HeardFrom(pk, address)
    /\ IF cursor < MaxConnections
       THEN pc' = "join" /\ cursor' = cursor + 1
       ELSE Enter("send")
    /\ UNCHANGED <<address, publicHash, check, epoch>>

\* The send_all that ends the frame.
SendAll ==
    /\ pc = "send"
    /\ Enter("recv")
    /\ told' = HeardFrom(packet, address)
    /\ UNCHANGED <<slotVars, loginVars, check, epoch>>

Tick ==
    /\ epoch < MaxEpoch
    /\ epoch' = epoch + 1
    /\ UNCHANGED <<slotVars, loginVars, loopVars, check, told>>

-----------------------------------------------------------------------------
(* The specification *)

Init ==
    /\ status = [s \in Slots |-> "DISCONNECTED"]
    /\ address = [s \in Slots |-> NoAddress]
    /\ hash = [s \in Slots |-> InvalidHash]
    /\ publicHash = [s \in Slots |-> InvalidHash]
    /\ ipAddress = [s \in Slots |-> FALSE]
    /\ packet = [s \in Slots |-> BlankPacket("DATA")]
    /\ peerOf = [c \in Characters |-> NoPeer]
    /\ playerCount = 0
    /\ pc = "recv"
    /\ cursor = 1
    /\ check = [c \in Checks |-> Idle]
    /\ epoch = 1
    /\ told = [a \in Addresses |-> {}]

Deliver == \E a \in Addresses : \E p \in DatagramsOf(a) : RecvPacket(a, p)

Recv == RecvNothing \/ Deliver \/ \E a \in Addresses : RecvUnowned(a)

Login == OnJoin \/ JoinSkip \/ JoinBegin \/ JoinFinish

Logout == OnLeave \/ LeaveSkip \/ LogOff

Main == Recv \/ Timeout \/ Logout \/ Login \/ SendAll

CheckStep(c) ==
    \/ CheckStart(c)
    \/ CheckHandshake(c)
    \/ CheckWake(c)
    \/ CheckExpire(c)
    \/ CheckRefuse(c)
    \/ CheckClear(c)

Next == Main \/ (\E c \in Checks : CheckStep(c)) \/ Tick

\* The main loop never blocks for good (recv waits a second at most, a login
\* sleeps a bounded time) and the operating system schedules every thread.
Fairness == WF_vars(Main) /\ \A c \in Checks : WF_vars(CheckStep(c))

Spec == Init /\ [][Next]_vars

FairSpec == Spec /\ Fairness

-----------------------------------------------------------------------------
(* Properties *)

Seated(s) == CharactersOf(s) # {}

TypeOK ==
    /\ status \in [Slots -> Statuses]
    /\ address \in [Slots -> Addresses \cup {NoAddress}]
    /\ hash \in [Slots -> Hashes]
    /\ publicHash \in [Slots -> Hashes]
    /\ ipAddress \in [Slots -> BOOLEAN]
    /\ packet \in [Slots -> Packets]
    /\ peerOf \in [Characters -> Slots \cup {NoPeer}]
    /\ playerCount \in Int
    /\ pc \in Loops
    /\ cursor \in Slots
    /\ check \in [Checks -> [phase : Phases, slot : Slots]]
    /\ epoch \in 1..MaxEpoch
    /\ told \in [Addresses -> SUBSET Hashes]

\* No two characters are bound to the same peer: on_leave frees one character
\* per logoff and stops at the first it finds (LoginEvent.cpp:192-199), so a
\* second one would answer for a slot that somebody else may take over.
SeatExclusive == \A s \in Slots : Cardinality(CharactersOf(s)) <= 1

\* A peer a character is bound to is never in the state on_join hands out
\* slots from, whatever the timeout threads write into its status meanwhile.
SeatHeld == \A s \in Slots : Seated(s) => status[s] # "DISCONNECTED"

\* on_join compares the count with the maximum once and then indexes mPlayers
\* with it for every slot (LoginEvent.cpp:120,133): the index stays in range.
JoinIndexInBounds ==
    pc = "join" /\ Answers(cursor) => playerCount \in Characters

\* Three records say who is logged in, each kept by different statements: the
\* private hash, the printable IP address and the character's peer.  They agree
\* between any two slots the main loop handles, whatever the timeout threads do.
RecordsAgree ==
    \A s \in Slots : /\ (hash[s] # InvalidHash) <=> Seated(s)
                     /\ ipAddress[s] <=> Seated(s)

\* No client address owns two slots, so no client is logged in twice, and the
\* server always has an address to answer a seated peer at.
AddressOwnership ==
    /\ \A s, t \in Slots :
          s # t /\ address[s] = address[t] => address[s] = NoAddress
    /\ \A s \in Slots : Seated(s) => address[s] # NoAddress

\* The lobby never believes in more players than it has: the count is changed
\* by on_join and on_leave only, the seats by set_peer, and a departure without
\* a player behind it lowers the count alone.
SeatedCharacters == {c \in Characters : peerOf[c] # NoPeer}

NeverOvercounted == playerCount <= Cardinality(SeatedCharacters)

\* What a login relies on between the two hashes it draws, while the timeout
\* threads go on writing the slot's status, and what it relied on before them.
RequestAddressed ==
    \A s \in Slots :
        status[s] = "DISCONNECTED" /\ "BEGIN" \in packet[s].cmd
            => address[s] # NoAddress

JoinInProgress ==
    /\ pc \in {"join", "joining"} => playerCount >= 0
    /\ pc = "joining" => /\ playerCount \in Characters
                         /\ Accepts
                         /\ ~Seated(cursor)
                         /\ address[cursor] # NoAddress

\* The same as SeatExclusive, without counting.
SeatsDistinct ==
    \A c, d \in Characters :
        peerOf[c] = peerOf[d] /\ peerOf[c] # NoPeer => c = d

\* The inductive invariant: every step of the main loop and of the timeout
\* threads preserves the conjunction, and it implies each invariant above.
LobbyInv ==
    /\ TypeOK
    /\ SeatsDistinct
    /\ SeatHeld
    /\ RecordsAgree
    /\ AddressOwnership
    /\ NeverOvercounted
    /\ RequestAddressed
    /\ JoinInProgress

\* The server implements the roster: the slot of each character is its seat
\* and the private hash its badge.
Roster == INSTANCE LobbyRoster WITH
    Badges <- 1..MaxEpoch, NoBadge <- InvalidHash,
    seat <- peerOf, badge <- hash

RosterSpec == Roster!RosterSpec

\* A departure that is signed with the slot's hash stands until on_leave obeys
\* it: no timeout thread that consumes an acknowledgement, no notice and no
\* login that is under way takes it back.  Only a datagram does, which is what
\* StopAborts is about.
SignedOut(s) ==
    /\ Seated(s)
    /\ packet[s].cmd \cap LeaveCommands # {}
    /\ packet[s].hash = hash[s]

EvictionStands ==
    [][~Deliver => \A s \in Slots :
                      SignedOut(s) => SignedOut(s)' \/ ~Seated(s)']_vars

\* Once every client has fallen silent, each player is logged off: the timeout
\* threads consume the last acknowledgement, find none the next time, sign a
\* STOP, and on_leave obeys it.  Three lobbies are left out: a count of zero, at
\* which on_leave returns at once, a slot whose STOP the client's last datagram
\* overwrote (the findings are about these two), and a slot whose last datagram
\* was on the chat channel, which on_leave does not read.
SilentPlayersLeave ==
    <>[][~Deliver]_vars =>
        <>[]\A s \in Slots :
              Seated(s) => \/ LobbyEmpty
                           \/ packet[s].channel = "CHAT"
                           \/ status[s] = "STASIS" /\ "ACK" \in packet[s].cmd

\* "abort connection" (NetworkProtocol.h:97, of NETWORK_CMD_STOP): a STOP that
\* carries the hash of the slot it lies in ends that slot's connection.
StopAborts ==
    \A s \in Slots :
        Seated(s) /\ "STOP" \in packet[s].cmd /\ packet[s].hash = hash[s]
            ~> ~Seated(s)

\* "Maximum players in single party" (NetworkServerComponent.h:19): the lobby
\* turns logins away as full only when its slots are taken.
FullOnlyWithPlayers == LobbyFull => \A s \in Slots : Seated(s)

\* "PRIVATE NETWORK HASH" (LocalReplicationComponent.h:33, of the hash a client
\* takes from its ACCEPT packet): a client that was accepted knows the private
\* hash of its slot, the one that the server compares its packets with.
ClientKnowsPrivateHash ==
    \A s \in Slots :
        Seated(s) /\ told[address[s]] # {} => hash[s] \in told[address[s]]

\* "we still want to notify players about our departure" (LoginEvent.cpp:201):
\* the notice alone logs nobody off.
DepartureOnlyNotifies ==
    [][\A s \in Slots :
          Seated(s) /\ ~Seated(s)'
              => packet[s].cmd \cap (LeaveCommands \ {"NOTICE"}) # {}]_vars

=============================================================================
