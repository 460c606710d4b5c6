# XAGE in TLA+

This directory holds a TLA+ model of the parts of XAGE (the *XPX Advanced Game
Engine*) that carry a protocol or a data structure others rely on: who is logged
in to a lobby server, how the server finds out that a player has gone, and what
becomes of the players' characters; how a client gets in, plays and is put out;
and six parts of the engine's libraries. They are model-checked with TLC, and
their main invariants are proved with TLAPS for every size of the lobby, every
packet a server may send and every bound of the libraries.

Paths below are relative to `src/`; `LoginEvent.cpp` and its like are in
`XPXServer/Source`, `NetworkProtocol.*`, `NetworkServerComponent.*` and
`NetworkComponent.*` in `XPXNgin/Source`, the client's files in
`XPXPlayer/Source`, the rest of the engine in `XPXNgin/Source` unless a directory
is named.

## 1. Inventory

### How the parts interact

```
 client process (XPXPlayer)                    server process (XPXServer)
 +------------------------------------+        +----------------------------------+
 | connect thread --+                 |  UDP   | main loop, one frame:            |
 | main loop:       +-> NetworkComp. -+------->|  recv_all                        |
 |  LoadingScreen, LocalCharacter,    |        |  Component update: characters    |
 |  LocalReplication (all call read)  |<-------+  Event update: movement, physics,|
 |  monitor, menu, HUD, chat          |        |    health monitor,               |
 +------------------------------------+        |    TimeoutEvent -> starts -----+ |
                                               |    LoginEvent: leave, join     | |
 engine, in either process                     |  Lua: world:RenderOneFrame()   | |
 +------------------------------------+        |  send_all                      | |
 | scene nodes, physics nodes,        |        |                                | |
 | downloads, images, archives        |        | timeout threads <--------------+ |
 +------------------------------------+        +----------------------------------+
```

Everything on the server meets in one array of `NetworkPeer`. The main loop
receives into it, decides by it, answers from it; the detached threads that
`NetworkPeer::timeout` starts read and write the same peers with no lock. A
peer has ONE packet: the last datagram received from the peer is also the next
one sent to it, so a command the server writes for the client is later read back
as if the client had sent it.

### Components

| Component | State | Operations | Hard behaviour | What makes it correct |
|---|---|---|---|---|
| Protocol and peers (`NetworkProtocol.*`) | per peer: status, address, private and public hash, printable IP, packet | `reset`, `timeout` (thread), `find_peer`, UUIDs, IP-address checker | timeout threads race with the main loop and with each other | a late thread never gives away or takes over somebody's peer |
| Server transport (`NetworkServerComponent.*`) | the preallocated peers, the socket | `recv_all`/`recv` (demultiplexing by address), `send_all` | loss, duplication, reordering; one packet buffer per peer | an address owns at most one peer |
| Login and timeout events (`LoginEvent.*`, `TimeoutEvent.*`) | `mPlayers` (characters), `mPlayerCount` | `on_join`, `on_leave`, the timeout pass | a login sleeps between its guard and its writes; the count is both a limit and an index | seats, hashes, addresses and the count describe the same players |
| Server characters (`CharacterComponent.cpp`, `CharacterHealthMonitorEvent.cpp`, `CharacterMovementEvent.cpp`, `SpawnComponent.cpp`, `WeaponComponent.cpp`) | health, `mCanSpawn`, state, position, `mPeer` | component update, movement, health monitor, respawn thread | the order of three loops and the login within a frame; packets of players who left | a character acts only for the player it belongs to, alive, by packets that player signed |
| Server process (`ServerMain.cpp`) | the loop, the shell thread | one frame | order of the loops | - |
| Client connection (`LoadingScreenComponent.cpp`, `NetworkComponent.cpp`, `LocalNetworkMonitorEvent.cpp`, `LocalMenuEvent.cpp`, `LocalCharacterComponent.cpp`, `LocalReplicationComponent.cpp`) | `mNetwork`, hashes, `mReset`, timers, popups | connect thread, `read`, `send`, ACCEPT/BAN/KICK/STOP handling, menu | three readers of one socket; a component deleted under others; a connect thread | one decision, one end, neither without telling the player |
| Client UI, app | popups, textures | draw, input | - | - |
| Component and event systems (`Component.*`, `Event.*`) | three kinds of registry | add, get, remove, erase, update | the registries change while they are being traversed | every live entry is called once a frame |
| Scene system (`SceneSystem.*`) | node registry, counter | add, remove, get | identifiers drawn from a counter that removals decrement; a load that throws half-way | an identifier names one node |
| Physics (`XPXNgin.Physics/Source/NpPhysicsEngine.cpp`) | nodes, their delegates | insert, remove, one frame | detached threads release actors | no frame uses an actor somebody frees; none leaks |
| Lua and Mono (`XPXLua/CLua.hpp`, `RLua.hpp`, `Mono*`) | one Lua stack for all threads | run, index, assign | a chunk leaves what it returns, every frame | - (see section 7) |
| HTTP assets (`Http.h`, `XHTTPManager.cpp`) | a file, a connection | `download` | partial reads, failure at every call, a file that exists | a failure leaves the file alone; a success adds the asset |
| Textures (`XPXNgin.Tex/Targa.h`) | two buffers, two indices | `LoadTarga32` | three strides through a bottom-up file; a size that overflows | in bounds, right side up |
| Archive (`Archive.*`) | the file, its header, an offset | open, write, read, seek, close | a crash between the header and a record; an offset that advances by one | the header counts what is there; a record is not overwritten |
| Pure algorithms (`XplicitID.*`, `Uri.*`, `Crc32.*`, `GameVar.*`, IP checker) | - | - | boundaries | - |
| Drivers, sound, vendored code | - | - | - | not protocol code, see section 7 |

`PROJECT.json` lists the same components with their sources and status, and
under `hazards` everything found that is hard to test, at its line.

## 2. Modules

| Module | Role | Code |
|---|---|---|
| `NetworkProtocol` | vocabulary: statuses, commands, packets, and what `reset` and a departure notice do to one packet | `NetworkProtocol.h`, `.cpp` |
| `LobbyRoster` | abstract specification: seats and badges, given and taken together | what `LoginEvent` promises |
| `LobbyServer` | the server process: main loop, timeout threads, network | `NetworkServerComponent.cpp`, `NetworkProtocol.cpp`, `LoginEvent.cpp`, `TimeoutEvent.cpp`, `ServerMain.cpp` |
| `MCLobbyServer` | instances for TLC | - |
| `LobbyServerProofs` | theorems about `LobbyServer` | - |
| `ComponentSystem` | the registry of components, as operators on a vector and its size | `Component.inl`, `Component.cpp` |
| `ComponentSystemProofs` | what add, remove and a new traversal do to a registry | - |
| `XConnectClient` | the client process: main loop, connect thread, monitor, menu, popups | `LoadingScreenComponent.cpp`, `NetworkComponent.cpp`, `LocalNetworkMonitorEvent.cpp`, `LocalMenuEvent.cpp`, `GameUI.cpp`, `LocalCharacterComponent.cpp` |
| `MCXConnectClient` | instances for TLC | - |
| `ClientSession` | abstract specification: a session is decided once and ends once | what the client promises its player |
| `XConnectClientProofs` | theorems about `XConnectClient`, its refinement of `ClientSession` included | - |
| `LobbyCharacters` | the characters, composed with the whole of `LobbyServer` | `CharacterComponent.cpp`, `CharacterMovementEvent.cpp`, `CharacterHealthMonitorEvent.cpp`, `ServerMain.cpp` |
| `MCLobbyCharacters`, `LobbyCharactersProofs` | an instance, and theorems | - |
| `SceneSystem` | nodes and identifiers of a scene | `SceneSystem.cpp` |
| `SystemUpdate` | the update loops, with callbacks that register and remove; uses `ComponentSystem` | `Component.cpp`, `Event.cpp` |
| `PhysicsNodes` | nodes, delegates, release threads | `NpPhysicsEngine.cpp` |
| `AssetDownload` | one download after the other | `XHTTPManager.cpp`, `Http.h`, `NginCore.h` |
| `TargaImage` | the decoding loop | `Targa.h` |
| `ArchiveLog` | abstract specification: a log that a crash shortens by one record at the most | what an archive promises a careful caller |
| `Archive` | header, records, buffer, crashes | `Archive.cpp` |
| `MCEngine` | an instance of each of the six libraries | - |
| `EngineProofs`, `TargaImageProofs`, `ArchiveProofs` | theorems about them, the refinement of `ArchiveLog` included | - |
| `EngineCompositionProofs` | the six together, as `MCEngine` composes them | - |

### LobbyServer

*State.* `status`, `address`, `hash`, `publicHash`, `ipAddress`, `packet` are the
fields of the peers, as functions of the slot. `peerOf` is
`CharacterComponent::mPeer` of each character `LoginEvent` preallocates, and
`playerCount` is `mPlayerCount`. `pc` and `cursor` say which loop of the frame
the main thread is in and at which slot; `check[c]` is a timeout thread.
`epoch` is the clock `XplicitHash` draws hashes from. `told[a]` is history: the
hashes the client at address `a` has been sent in an ACCEPT packet, which is
what it may sign datagrams with.

*Actions.* One step of the main thread is one slot of one loop:

| pc | Actions | Code |
|---|---|---|
| `recv` | `RecvNothing`, `RecvUnowned`, `RecvPacket` (with `Demux`) | `NetworkServerComponent.cpp:115-235` |
| `timeout` | `Timeout` | `TimeoutEvent.cpp:30-41` |
| `on_leave`, `leave` | `OnLeave` (early return), `LeaveSkip`, `LogOff` | `LoginEvent.cpp:157-214` |
| `on_join`, `join`, `joining` | `OnJoin`, `JoinSkip`, `JoinBegin`, `JoinFinish` | `LoginEvent.cpp:25-153` |
| `send` | `SendAll` | `NetworkServerComponent.cpp`, `ServerMain.cpp:158-169` |

A timeout thread is `CheckStart` (writes STASIS, whenever it is scheduled),
`CheckHandshake`, `CheckWake` (five seconds later it reads and decides), then
`CheckExpire`, `CheckRefuse` or `CheckClear` (it writes). Between reading and
writing the main loop and other threads may do anything.

A login is two steps because `XplicitHash` sleeps: the public hash is drawn at
one second, the private one possibly at a later one. The guard was evaluated
before the sleep and is not evaluated again.

*The network* is a nondeterministic choice in `RecvPacket`: any client, any
command set a client sends, with no hash or with any hash that client was ever
sent. That covers lost (the step is not taken), repeated and delayed datagrams
(an earlier hash). Addresses are naturals because the demultiplexer compares
them with `memcmp(...) > 0`, an order, not an equality.

*Abstractions, by name.*

- `MaxConnections` is `XPLICIT_MAX_CONNECTIONS`; `Checks` is a pool: a thread
  for which the pool has no room is one the operating system never schedules,
  so a small pool loses behaviours, it adds none. `MaxEpoch` ends the clock.
- `playerCount` is an integer; a negative value -k stands for 2^64 - k, and the
  two comparisons of the code (`>= XPLICIT_MAX_CONNECTIONS`, `<= 0`) are
  written on it as a `size_t` compares (`LobbyFull`, `LobbyEmpty`).
- A packet's commands are the set of cells of `cmd[]` that hold their command.
  `NOTICE` is the STOP cell when another player's departure wrote it; the two
  are one cell in the code and every guard treats them alike, the names exist
  so that a property can tell them apart.
- The pair of writes that ends a timeout thread is one step.
- SPAWN, the packet's public hash and position are left out: the lobby decides
  nothing by them. Its health is in `LobbyCharacters`. `NETWORK_STAT_INVALID` is never assigned.
- The "handshake" branch of a timeout thread (KICK while CONNECTED and still
  saying BEGIN) needs another thread to write CONNECTED between two consecutive
  statements. Nothing orders these accesses, so a build may produce it, and the
  model keeps it.

### LobbyRoster

Two variables: `seat[c]`, the slot a character is bound to, and `badge[s]`, the
private hash of a slot. `Login` seats an unseated slot at a free character and
gives it a badge, `Logoff` takes both back; there is nothing else. `LobbyServer`
implements it with `seat <- peerOf`, `badge <- hash`.

### ComponentSystem

`mComponents` is traversed by index, up to a size read before the traversal,
while the components it updates add and remove entries. A registry is therefore
the vector's cells together with its size. After an erase the cells behind the
size still hold what was there (an accessor's pointers survive its destruction),
and a running traversal reads them; `Settled` is what the next traversal can
read. Components are identified by the names `get` finds them under.

### XConnectClient

*State.* `startLoad`, `tries` and `thread` are the loading screen and its connect
thread; `registry`, `cursor` and `passSize` the component system and the
traversal of this frame; `netHash`, `inbox` and `reset` the fields of the
NetworkComponent; `monitor`, `resetsLeft` and `menu` those of the events. `late` is
history: the login requests sent after the loading screen decided.

*Actions.* The main thread takes one step per visited component (`VisitSender`,
`VisitReader`, `VisitPopup`, `VisitFreed`, and the `Loading...` actions for the
paths of `LoadingScreenComponent::update`), then one per event: `MonitorDeaf`,
`MonitorReset`, `MonitorKick` or `MonitorPacket`, then `Move`, then `Menu`. `Frame`
begins the next frame. The connect thread is `ConnectLoop` (tests `StartLoad`),
`ConnectSend` and `ConnectSleep`, and interleaves with all of them.

*Undefined behaviour.* Four places delete the NetworkComponent, and only the
monitor forgets its pointer. A use of the freed object, and a visit of a freed
component by the traversal, has the outcome `Undefined`: the process dies, or it
goes on as if nothing had been received, which is what the closed socket of the
freed object yields. A popup that is allocated may get the address of a popup
that was freed while the menu still points there (`MenuAfterAdding`).

*Abstractions, by name.*

- Of a packet the model keeps ACCEPT (with SPAWN, which the loading screen also
  demands), KICK, BAN, STOP (which stands for SHUTDOWN as well, the monitor tests
  them alike), the two hashes and the channel.
- `ConnectTimeout`, `ResetTimeout` and `MenuTimeout` are `XPLICIT_TIMEOUT` (100),
  `XPX_MAX_TIMEOUT_MACRO` (250) and `XPLICIT_TIMEOUT_MENU` (2000). `tries` stays at
  `ConnectTimeout` when it gets there, `late` at 2 and the menu's timer at -1; the
  code tests none of them beyond those values.
- Which keys are down is an arbitrary set in each frame. The window procedure
  sets them; nothing in the client calls `Win32Window::update`, so when messages
  are delivered is left open.
- `connect` on the datagram socket succeeds. `OnJoin` and `OnTimeout` are null:
  nothing assigns them. The callbacks of popups end in `std::exit`.
- What the client sends is not part of its state; `LobbyServer` has the other end.

### ClientSession

Four variables: the phase of the session (loading, refused, playing, over),
whether there is a connection, how many login requests left after the decision,
and whether a notice is on the screen. `XConnectClient` implements it: the phase is
read off `StartLoad` and the monitor, the connection and the notice off the
registry. A session is decided in one step; a refused one has lost its connection
and says so; one that is played ends in one step, which shows a notice and is the
only one that may drop the connection; and nothing brings it back.

### LobbyCharacters

*State.* `health`, `canSpawn`, `state` and `pos` are the fields of the characters;
`reported[s]` is the health field of slot s's packet, which `LobbyServer` leaves
out. `stage` and `turn` say which loop over the characters is under way.

*Actions.* A frame is `recv_all` (`CharDeliver`, `CharRecvNothing`), then
`UpdateCharacter` (`CharacterComponent::update`), `MoveCharacter` and
`MonitorCharacter` once per character, then the timeout pass, the logins and
`send_all` of `LobbyServer` (`CharLobby`, and `CharJoinBegin` for the login that
takes the health away). Each is a step of `LobbyServer` with the characters'
variables beside it, or leaves all of `LobbyServer`'s variables alone, so the
composition is conjunction and everything proved of the server holds here
(theorem `CharactersKeepTheLobby`). Timeout threads run between any two steps.

*Abstractions, by name.* `Torus` ends the coordinates: they are counted in steps of
one walk or jump, modulo `Torus` (floats in the code, which saturate nowhere near
the properties). `FromClient` stands for whatever number a datagram carries. The
inventory is left out because nothing puts a weapon into it, and the respawn
thread because `NobodyDies` shows that it is never started. The component update also
writes the health into the packet of its peer when the packet carries a SLOT
command (`CharacterComponent.cpp:101`); SLOT is not among the commands of the model, so
`UpdateCharacter` may write it or not in every step, which allows more than the code
does.

### The engine's libraries

- `SceneSystem`: `nodeIds` is the registry as the sequence of its identifiers,
  `sceneCounter` is `m_scene_counter` modulo `SceneIdLimit` (2^64). `AddThrows` is a
  loader that throws after some meshes: they stay in the registry, unnumbered.
  `abandoned` and `disordered` are history.
- `SystemUpdate`: `entries` is one registry, of components, events or listeners;
  `loopOver` says whether the loop reads the size once (both systems) or every
  time (listeners). Between two calls anything may be added or removed, which is
  what a callback does. Components and events are new objects when they are added;
  a listener may be one that is registered already.
- `PhysicsNodes`: `delegate` is `f_PhysicsDelegate`, `actor[a]` what PhysX and the
  release threads have done with an actor. `BeginFrame` may clear any set of
  delegates, for `IsValidHeapPtr` depends on the build and the allocator. A creation
  may fail at any time.
- `AssetDownload`: a response is a sequence of items, a read takes any number of
  them. A call names a new file, the last one again, or another that exists;
  `open_writer` opens a file that exists for appending, so `FileOpened` keeps what it
  held (`before`). Every return and every exception of `download` is an action. Left
  out: a failing `SSL_new` in the constructor, before the file is opened; errors of
  the disk; and what the text mode of the stream makes of an item.
- `TargaImage`: bytes are numbered; `Copy` is one pixel with the index arithmetic of
  the loop. `Load` takes the next image, with any sides up to `MaxSide`. The size of
  the buffers is an `int` (`AsInt`); an image whose size wraps to a negative number is
  never allocated, one whose size wraps to 0 or more gets buffers that are too
  small, and the model follows it to the first access outside of them.
- `Archive`: `stored` is the file, `pending` the stream's buffer, `places` and
  `careful` history: where records were put and whether the caller kept to one
  byte and never sought back. `Crash` loses any part of the buffer. The state
  begins with an uninitialised count (`garbage`) and size, as in the code.
- `ArchiveLog` has four variables: whether the caller has kept to the terms
  (`sound`), whether the file is being written, how many records were begun, and
  how many of them, from the first on without a gap, are in the file. `Archive`
  implements it with `kept <- Kept`, the longest such prefix in `stored`. A caller who
  breaks the terms does `Misuse` and is promised nothing until the file is made anew.

## 3. Runs

| Run | Instance | Checks | Shows |
|---|---|---|---|
| `two_slots` | 2 slots, 2 clients, 1 timeout thread, 1 second | `TypeOK`, `SeatExclusive`, `JoinIndexInBounds`, `AddressOwnership`, `NeverOvercounted`, `RosterSpec` | competition for slots, all orders of joins, departures and a late timeout |
| `overlap` | 1 slot, 2 clients, 2 threads, 2 seconds, both channels, clients that echo server commands | `SeatHeld`, `RecordsAgree`, `LobbyInv`, `EvictionStands` | two timeout threads of one slot, a login whose two hashes differ |
| `silence` | 2 slots, 1 client on both channels, 2 threads, 1 second, fair | `SilentPlayersLeave` | players who die are logged off |
| `full` | as `two_slots` | `FullOnlyWithPlayers` (violated) | finding 1 |
| `departure` | as `two_slots` | `DepartureOnlyNotifies` (violated) | finding 2 |
| `stop` | 1 slot, 1 client, 1 thread, fair | `StopAborts` (violated) | finding 3 |
| `client` | timeouts 2, 2 and 1, seven packets, fair | `EntriesDistinct`, `MenuAgrees`, `LastLoginRequest`, `WatchedConnection`, `ClientInv`, `LoadingDecides`, `SessionSpec` | whole sessions of one client, and that they are `ClientSession`s |
| `connect_timeout` | timeouts 2, 2 and 1, three packets, fair | `ConnectGivesUp` (violated) | finding 4 |
| `kick` | as `connect_timeout` | `KickAborts` (violated) | finding 5 |
| `private_hash` | 1 slot, 1 client, 1 thread, 2 seconds | `ClientKnowsPrivateHash` (violated) | finding 6 |
| `characters` | 2 slots and characters, 1 client on both channels, 1 thread, 2 seconds, a torus of 3, fair | `NobodyDies`, `HealthIsTheServers`, `CharInv`, `MovesOnlyAlive`, `MovesOnlySigned`, `PlayersComeToLife` | lives of characters across logins, departures and timeouts |
| `engine` | see below | `EngineInv`, `CounterCountsNodes`, `IdentifiersInOrder`, `CallsWhatItFound`, `PastEndBounded`, `SkippedBounded`, `DelegatesInScene`, `SceneAccounted`, `TailAppended`, `FailureKeepsFile`, `TargaInBounds`, `DecodedUpright`, `HeaderCounts`, `RecordsKept`, `ArchiveLogSpec` | the six library modules, one per behaviour |

*Why these bounds are enough to be interesting.* Two slots are the least at which
one slot can be overwritten on another's turn of the receive loop, at which the
character at index `playerCount` can be taken while another is free, and at
which one logoff can disturb a peer that is examined later in the same pass. Two
clients are the least for an address to be ambiguous. Two threads are the least
for one to undo what another decides by. Two seconds are the least for the two
hashes of a login to differ and for a delayed datagram to carry an expired one.
No run combines all four (the product is beyond a few minutes), which is what
the proofs are for: `LobbyInv` is proved for all of them at once.

`silence` uses two slots with one client because with a single slot a repeated
packet that changes nothing is the same step as receiving nothing, and the
premise "from now on nothing is delivered" would be satisfied by a client that
is not silent.

The seven packets of `client` are an acceptance, the player's own packet, a kick on
either channel, a ban alone and together with a stop, and the notice of another
player's departure: one for every path of the loading screen and the monitor. A
reset timeout of 2 is the least at which a reset can be forgiven before it is
fatal, and a menu timeout of 1 the least at which the menu can be opened twice
with a frame in between in which F9 does nothing.

`silence` gives the client nothing to send but login requests, on either channel:
a request on the chat channel is answered like any other, and `on_leave` never
reads it. `characters` has one client, which may get either slot, both channels
and two seconds, so that a packet can carry the hash of an earlier login; the
coordinates need three places so that forward and back differ. With two clients
it does not end in five minutes; the theorems are for any number.

The libraries do not call each other, so `engine` explores them one at a time: its
variable `subject` chooses one, and the others stay in their initial states. Four
nodes with identifiers modulo 8 let the counter run below zero; three cells and
three removals let a loop go past the end by more than one; three actors for two
nodes are one that can leak; a response of six items is cut into reads in every
way, into files that hold up to three items when they are opened (`MaxFile`), so
that an asset is appended to part of an earlier one; images have sides up to 5 and
an int is below 40, so that sizes fit (3 x 3), wrap to a negative one (3 x 4), to 0
(4 x 5) and to a smaller positive one (5 x 5); an archive of six bytes has a header of two and three records of up to two, so that
records overlap each other and the header, and a count modulo 2 wraps.

Deadlock is checked in every run: the server loop never stops, and a client that
exited or died stutters (`Ended`).

*Fairness.* `WF_vars(Main)`: the main loop does not block, since `recv` waits at
most a second and a login sleeps a bounded time. `WF_vars(CheckStep(c))` for
each thread: the operating system schedules it and its sleep ends. No fairness
is assumed of the network or of clients, and none of the clock. For the client,
`WF_vars(Main)` and `WF_vars(Connect)`: frames follow each other without blocking,
and the operating system schedules the connect thread. Nothing is assumed about
what a server sends; `LoadingDecides` has as premise that packets keep coming.
`characters` assumes what `LobbyServer` does, and `engine` nothing.

*Properties worth a word.*

- `SilentPlayersLeave`: if from some point no datagram is delivered, every seat
  is eventually given back. This takes two timeout threads in sequence: the
  first consumes the last acknowledgement, the second finds none and writes a
  signed STOP, and `on_leave` has to see it. Three situations are excluded in its
  formula: the findings 1 and 3, and a slot whose last packet was on the chat
  channel, which `on_leave` skips (`LoginEvent.cpp:165`) even when the STOP in it is
  the timeout thread's.
- `EvictionStands`: once the packet of a player carries a leave command and the
  slot's own hash, no timeout thread that consumes an acknowledgement, no notice
  and no login under way takes it back before `on_leave` obeys. It is the
  half of `StopAborts` that the code keeps: only a datagram breaks it, which is
  finding 3.
- `JoinIndexInBounds`: `on_join` compares the count with the maximum once per
  pass and indexes with it for every slot after that. It is safe only because a
  slot still to be visited that answers is a slot without a player.

- `MenuAgrees`: the leave popup is removed by itself and again by the menu, each on
  the same press of ESC. In between the monitor may have registered a popup at
  the freed address, and the menu then removes that one. When the frame is over
  menu and registry agree all the same: what is lost is the other popup.
- `EntriesDistinct`: the monitor handles the same packet again in every frame, so a
  ban adds its popup again and again unless it is found by name; and a removal
  by pointer takes away one entry only.
- `LastLoginRequest`: the connect thread and the loading screen share `StartLoad`
  without a lock; the race is worth exactly one request.
- `SessionSpec`: the connection is removed in four places, by two owners, while six
  users hold it; that a player who loses it is always told, and that nothing else
  loses it, takes the whole registry to see.
- `NobodyDies`: every login passes through a state in which the health monitor
  would kill the character. That it never sees that state depends on the order
  of the events and on the component update coming first in a frame. It is a
  statement about the code as it is: since nothing else lowers the health, the
  respawn thread and the spawn point are never used.
- `MovesOnlySigned`: the reset private hash is -1, and so is the hash of an unsigned
  datagram; the comparison in the movement event is safe because a character
  loses its peer in the step in which the peer loses its hash.
- `CallsWhatItFound`, `PastEndBounded`, `SkippedBounded`: what removing in a callback
  costs. Additions are harmless. Each removal is worth at most one call behind
  the end in the two systems, whose size is read once, and at most one entry
  that stays registered and is not called in this frame, in all three loops:
  the one that moved up into the cell the loop had just left.
- `DelegatesInScene`, `SceneAccounted`: `remove_node` takes the delegate away in the
  same step that starts its release thread, so no frame can use it; an actor
  that is in the scene without a node was orphaned by a second insertion or by a
  frame that took its address for no pointer.
- `FailureKeepsFile`, `TailAppended`: together they say what a caller can find in the
  file: what it held when the call opened it and, unless the call failed, one
  contiguous piece of the response behind that, which starts where the first read
  ended. The file is therefore the asset only if it was new and that read ended
  with the header; a second download of the same name leaves it there twice.
- `TargaInBounds`, `DecodedUpright`: the indices are right for every image whose size
  fits an `int`, and only for those: with 32768 x 32768 pixels `imageSize` is 0
  (`Targa.h:75`), the read of no pixels succeeds, and the first pixel is read in
  front of one buffer and written behind the other. The model has such images, and
  `DecodedUpright` says that none of them is ever decoded to its end.
- `HeaderCounts`, `RecordsKept`: what survives a crash. The premises are the price of
  `++mOff`: a caller has to seek behind the header and to write single bytes.
- `ArchiveLogSpec`: what such a caller can rely on from one moment to the next. A
  record that is in the file stays there through every crash, reopening and read;
  beginning the next record is what makes the last one safe, because going back
  to the header empties the buffer (`Archive.cpp:174`).

## 4. Findings

1. **A lobby without players can be full** (`full`, `LoginEvent.cpp:181`). A
   timeout thread scheduled after its player left writes STASIS into the reset
   peer; `on_leave` skips only DISCONNECTED peers and believes a STOP whose hash
   equals the peer's, here -1 on both sides. The count drops for a departure
   nobody made, and the next one takes the unsigned count below zero.
2. **A departure can log another player off** (`departure`, `LoginEvent.cpp:207`).
   The notice is a STOP in the peer's packet, which is also its inbox; a later
   peer in the same pass whose last packet carried its own hash is taken to have
   asked for it.
3. **A timeout can be forgotten for ever** (`stop`, `NetworkProtocol.cpp:81`). One
   more datagram after `on_leave` has passed the peer overwrites the STOP. The
   status stays STASIS, which the timeout pass skips, so no thread follows.

4. **The client never gives up on a server that does not answer**
   (`connect_timeout`, `LoadingScreenComponent.cpp:69`). The comment at line 36
   promises a timeout, and the connect thread counts, but only a packet that was
   read makes the loading screen look at the count.
5. **A kick can be missed** (`kick`, `NetworkComponent.cpp:198`). Two components
   read the socket in each pass, and the monitor sees only what the last one
   read. `NetworkProtocol.h:111` says a KICK "also aborts the connection, and
   exits the client".
6. **A client may never learn its private hash** (`private_hash`,
   `LoginEvent.cpp:68`). `LocalReplicationComponent.h:33` calls the hash a client takes
   from the reply the "PRIVATE NETWORK HASH", but the line that should fill in
   the public hash overwrites the private one in the reply. When the two were
   drawn in different seconds, the client signs with a hash the server does not
   know: it can neither move nor leave.

## 5. Proofs

`LobbyServerProofs` proves, from `LobbyAssumption` alone (at least one slot; addresses
other than the null one; client commands are commands), for any number of
slots, clients, threads and seconds:

| Theorem | Statement |
|---|---|
| `LobbyInvariance` | `Spec => []LobbyInv` |
| `TypeCorrectness` | `Spec => []TypeOK` |
| `SeatsAreExclusive` | `Spec => []SeatExclusive` |
| `SeatsAreHeld` | `Spec => []SeatHeld` |
| `RecordsAlwaysAgree` | `Spec => []RecordsAgree` |
| `AddressesAreOwned` | `Spec => []AddressOwnership` |
| `CountNeverTooHigh` | `Spec => []NeverOvercounted` |
| `JoinIndexStaysInBounds` | `Spec => []JoinIndexInBounds` |
| `EvictionsStand` | `Spec => EvictionStands` |
| `SilenceIsStable` | while no datagram arrives, no step sets an ACK or a BEGIN |
| `PlayersLeaveSigned` | a player keeps character, slot and private hash until a step in which `LogsOff` held of the slot |
| `FullMeansFull` | `Spec => [](playerCount >= MaxConnections => \A s \in Slots : Seated(s))` |
| `FullUnlessPhantoms` | `Spec /\ [][~PhantomLogoff]_vars => []FullOnlyWithPlayers` |
| `HashKnownUnlessLate` | `Spec /\ [][OneSecondLogin /\ AddressesStay]_vars => []ClientKnowsPrivateHash` |
| `ImplementsRoster` | `Spec => RosterSpec` |

*The inductive invariant* is `LobbyInv`. Its parts need each other:

- `SeatHeld` and `RecordsAgree` break if a login takes a slot that has a player.
  `Answers` demands DISCONNECTED, and `SeatHeld` says a player's slot never is:
  only `LogOff` writes that status, and it releases the character in the same
  step. For that it must release the only character of the slot:
  `SeatsDistinct`, `SeatExclusive` without counting.
- Between `JoinBegin` and `JoinFinish` threads write the slot's status, so
  nothing can be read off it any more. `JoinInProgress` carries what the guard
  established across the sleep: nobody else seats this slot, because the main
  thread is the only one who seats.
- `AddressOwnership` must know that a slot that is about to have a player has an
  address: `RequestAddressed` says a BEGIN in a free slot arrived from
  somewhere. The ordered comparison in `Demux` is harmless to ownership because
  it only ever writes an address into a slot when no slot has it.
- `JoinIndexInBounds` is a counting argument. `NeverOvercounted` bounds the count
  by the seated characters; these are bound to distinct slots, none of which is
  the one that answers; so there are fewer than `MaxConnections`.

`SeatExclusive` follows from `SeatsDistinct` and `JoinIndexInBounds` from the
rest. The step that preserves `LobbyInv` has one case per action of `Next`, and
under it one step per conjunct the action can disturb; the cardinality facts are
lemmas of their own. `ImplementsRoster` shows that `JoinFinish` is `Login`,
`LogOff` of a seated slot is `Logoff`, and every other step stutters.

*What is left of the violated statements.* A counterexample shows that a
statement fails, not that it fails for one reason only. The last theorems of
the module say how much of three of them is true.

- `FullOnlyWithPlayers` (finding 1): `FullMeansFull` counts characters against
  slots again, so a count that has reached the maximum is right, and the lobby is
  full without players only below zero. `FullUnlessPhantoms` says how it gets
  there. In every step but a logoff of a slot without a character
  (`PhantomLogoff`) the count and the number of seats change together
  (`CountFollowsSeats`), so in an execution without one the count is exact and the
  statement holds.
- `StopAborts` (finding 3): `EvictionsStand` and `SilenceIsStable` are the safety it
  and `SilentPlayersLeave` rest on. Both come from an examination of every step
  that writes a packet; the login is the one that needs the invariant, which
  says that the slot it writes has no player.
- `ClientKnowsPrivateHash` (finding 6): it holds of every execution in which each
  login draws both hashes in the same second and no other sender is registered
  in a seated slot. The second condition is no formality: a datagram from a new
  address that reaches a player whose timeout thread has written STASIS takes the
  slot's address over (`NetworkServerComponent.cpp:217`), and whoever
  is at that address was told no hash, or that of another login.

`XConnectClientProofs` proves, from `ClientAssumption` alone (the packets are
packets, the timeouts naturals, the reset timeout positive):

| Theorem | Statement |
|---|---|
| `ClientInvariance` | `Spec => []ClientInv` |
| `ClientTypeCorrectness` | `Spec => []TypeOK` |
| `NothingRegisteredTwice` | `Spec => []EntriesDistinct` |
| `MonitorKeepsConnection` | `Spec => []WatchedConnection` |
| `MenuNeverDangles` | `Spec => []MenuAgrees` |
| `OneLateRequest` | `Spec => []LastLoginRequest` |
| `ImplementsSession` | `Spec => SessionSpec` |
| `SessionsAreDecidedOnce` | `Spec => []Session!SessionSound /\ Session!SessionFinal` |

`ClientInv` adds to these what they need. `LoadingAlone` says that before the
decision nothing but the first three components is registered, so neither the
four components of the game nor the two popups of giving up are ever added
twice. `WatchingMonitor` says the same of the popups the monitor adds without
looking for them first: it adds them only on the step that makes it deaf.
`MenuPointer` is `MenuAgrees` inside a frame: a menu that points at a popup
which is gone has ESC in front of it, so it will forget the pointer before the
frame ends. The alias of a freed address does no harm to it, because an address
is free only when the leave popup is not registered. `RequestsCounted` says a
thread with a late request behind it is not about to send.

The registry enters only through three lemmas of `ComponentSystemProofs`:
`AddRegisters`, `RemoveUnregisters` and `SettledRegistry` say what the operations do to
the set of registered components, to the absence of duplicates and to the cells
that a running traversal may read.

`ImplementsSession` (`Spec => SessionSpec`) uses `ClientInv` step by step: of the
actions only `GiveUp` and `LoadingBanned` are `Refuse`, `LoadingAccepted` is
`Accept`, the steps of the monitor that make it deaf are `End`, a late `ConnectSend`
is `Request`, and the popups and the menu are `Show` and `Dismiss` or nothing.
`WatchedConnection` is what makes `End` start from a connection, and `LoadingAlone`
what makes a decision the first notice. `SessionsAreDecidedOnce` then works on the four
variables of `ClientSession` alone, and the refinement carries it to the client:
who is loading or playing is connected, who was refused is not, no session comes
back and no connection either.

`LobbyCharactersProofs`, from `LobbyAssumption` and `TorusAssumption`:

| Theorem | Statement |
|---|---|
| `CharactersKeepTheLobby` | `CharSpec => Spec` |
| `LobbyWithCharacters` | `CharSpec => []LobbyInv /\ EvictionStands /\ RosterSpec` |
| `CharInvariance` | `CharSpec => []CharInv` |
| `NobodyEverDies` | `CharSpec => []NobodyDies` |
| `HealthIsAlwaysTheServers` | `CharSpec => []HealthIsTheServers` |
| `OnlyTheLivingMove` | `CharSpec => MovesOnlyAlive` |
| `MovesAreSigned` | `CharSpec => MovesOnlySigned` |

The first makes every invariant of the server available. `CharInv` follows a frame:
`RevivedInTime` says that once the component update has passed a character, and
until the logins of this frame, a bound character is alive; a login comes after
the last use of that, and `StageOfFrame` says so. `LivingState` ties state to
health, and `HealthReported` does for the monitor's loop what `RevivedInTime` does
for the update. `MovesAreSigned` needs `RecordsAgree` of the server: a bound
character's slot has a private hash.

`EngineProofs`, `TargaImageProofs`, `ArchiveProofs` and `EngineCompositionProofs`, each
from the assumptions of its modules:

| Theorem | Statement | Inductive invariant |
|---|---|---|
| `SceneInvariance` | `SceneSpec => []SceneInv` | itself |
| `CounterAlwaysCounts` | `SceneSpec => []CounterCountsNodes` | `SceneInv` |
| `IdentifiersStayInOrder` | `SceneSpec => []IdentifiersInOrder` | `SceneInv`: the counter says which identifier is next |
| `IdentifiersFindTheirNodes` | in order, `FirstWith` finds the node that an identifier belongs to | `SceneInv` |
| `LoopInvariance` | `UpdateSpec => []LoopInv` | itself |
| `LoopsCallWhatTheyFound` | `UpdateSpec => []CallsWhatItFound` | `LoopInv`: the storage has not shrunk, the size by no more than was removed |
| `PastEndAlwaysBounded` | `UpdateSpec => []PastEndBounded` | `LoopInv` |
| `SkippedAlwaysBounded` | `UpdateSpec => []SkippedBounded` | `LoopInv`: at most as many as were removed have moved behind the index uncalled |
| `DelegatesAlwaysInScene` | `PhysicsSpec => []DelegatesInScene` | `PhysicsInv`: no two nodes share an actor, and a lost one is nobody's |
| `SceneAlwaysAccounted` | `PhysicsSpec => []SceneAccounted` | `PhysicsInv` |
| `TailsAreAppended` | `DownloadSpec => []TailAppended` | `DownloadInv`: the file is as it was until the body comes, and nothing waits in the buffer but between a read and its write |
| `FailuresKeepFiles` | `DownloadSpec => []FailureKeepsFile` | `DownloadInv` |
| `TargaInvariance` | `TargaSpec => []TargaInv` | itself |
| `TargaAlwaysInBounds` | `TargaSpec => []TargaInBounds` | `TargaInv`: both indices as functions of row and column |
| `DecodedImagesAreUpright` | `TargaSpec => []DecodedUpright` | `TargaInv`: what lies behind the index is upright |
| `HeaderAlwaysCounts` | `ArchiveSpec => []HeaderCounts` | `ArchiveInv`: the buffer holds nothing but the last record, behind the header |
| `RecordsAlwaysKept` | `ArchiveSpec => []RecordsKept` | `ArchiveInv`: a careful caller's records lie one behind the other |
| `ImplementsLog` | `ArchiveSpec => ArchiveLogSpec` | `ArchiveInv`, before and after a step |
| `EngineInvariance` | `EngineSpec => []EngineInv` | the conjunction of the six |

`SkippedBounded` is not inductive: what a loop has not called yet may still lie in
front of it. `LoopInv` therefore counts the entries that were registered when the
loop began, still are, have not been called and have moved behind its index
(`Passed`). A call moves the index over an entry and calls it; an addition goes
behind everything that the loop found; a removal behind the index moves one
entry over it, and a removal in front of it none. When the index is past the
last entry all that was skipped has been passed.

`DecodedUpright` compares the buffer with `Upright`, which finds row and column of
a byte by division and remainder; the loop counts them. `Division` says that the
two agree (there is one quotient and one remainder), `UprightPixel` says so of the
four bytes of a pixel, and `CopyUpright` is the step: the four bytes behind the index
become upright, and the others are left alone. The same invariant
covers an image whose size does not fit: the destination is smaller than the
picture, so the index leaves it before the last pixel, and `Decoded` implies `Fits`.

`ImplementsLog` reads `Kept` off `RecordsKept`: in a log all records but the last are
in the file, so the longest prefix is all of them or one less, before a step and
after it (`KeptNow`, `KeptNext`). What remains is which of the two it is: a flush makes
it all of them (`FlushKeepsAll`), a record begun or a crash may leave either.

`EngineSpec` composes the six by conjunction on disjoint variables, so each of its
steps is a step or a stutter of each library, and the theorems carry over.

*Only model-checked:* `SilentPlayersLeave`, `LoadingDecides` and `PlayersComeToLife`,
since liveness under fairness is beyond the prover. Every other
property of a passing run is a theorem. Of the findings `StopAborts`, `ConnectGivesUp`
and `KickAborts` are about what happens in the end, so no theorem states when they
hold; `DepartureOnlyNotifies` has its true half in `PlayersLeaveSigned`. That the
bounds of the libraries' instances can be reached is TLC's to show.

## 6. Plan

Done: the server (`LobbyServer`, `LobbyRoster`, `LobbyCharacters`), the client
(`XConnectClient`, `ClientSession`), the registry and the loops over it, scene
identifiers, physics nodes, downloads, the Targa loop, the archive (`Archive`,
`ArchiveLog`), with their runs and proofs. What is left, in the order of what it would add:

1. The composition of client and server. Little is open in it: the client's
   theorems hold for every packet a server may send and the server's for every
   datagram a client may, and where their records must agree,
   `ClientKnowsPrivateHash` states it on the server's own history of what it told
   (`told`) and is violated. What a composition could add is how long a client
   whose server has forgotten it goes on playing.
2. A version of the server with the repairs the findings suggest, on which the
   violated properties hold.

## 7. Not modelled

- Socket set-up, byte order and the magic and version checks beyond "the
  datagram is dropped" (`RecvNothing`).
- `LoadingScreenComponent::reset`, `NetworkComponent::set_channel`, `find_peer`: nothing
  calls them.
- Weapons and the respawn thread: nothing puts a weapon into an inventory, and
  `NobodyDies` shows that the thread never starts.
- `XplicitID`, `UniqueAddress`, `Uri`, `Crc32`, `GameVar`, `FileIO` and the IP-address
  checker: each formats, parses or stores one value in a single call, with no
  state that another call or thread could find half-way. A model would repeat
  the function.
- The drivers (Direct3D, Vulkan, OpenGL, Direct2D), shaders, the sound driver and
  collision geometry: calls into libraries and floating-point arithmetic with no
  protocol of their own.
- The Lua stack (`CLua.hpp`): the only call a running program makes is
  `ServerMain.cpp:166`, one chunk per frame from one thread, and nothing instantiates
  `CLuaClass`. How many values a chunk leaves is the chunk's business and the
  interpreter's (`luaL_dostring` asks for all results); no code pops them, which a
  model could only repeat.
- What `LoadTarga32` returns: the bytes as they were in the file; the decoded buffer,
  of which `DecodedUpright` speaks, is leaked (`Targa.h:130`).
- `RLua`, `MonoComponent`, `MonoInterop`: single calls into interpreters that are not in
  the repository. The editor and the bootstrapper start processes and windows.
- `GLad.*`, the Lua headers and `Vendor/`: generated or third-party. They are most of
  the lines of the repository.
- Data races as torn or reordered memory accesses: each access to a peer's field
  is one atomic step. The fields are single words, except the packet.

## 8. Running

```
tlc -workers 2 -config MCLobbyServerTwoSlots.cfg MCLobbyServer.tla
tlc -workers 2 -config MCXConnectClient.cfg MCXConnectClient.tla
tlc -workers 2 -config MCLobbyCharacters.cfg MCLobbyCharacters.tla
tlc -workers 2 -config MCEngine.cfg MCEngine.tla
tlapm LobbyServerProofs.tla
tlapm ComponentSystemProofs.tla
tlapm XConnectClientProofs.tla
tlapm LobbyCharactersProofs.tla
tlapm EngineProofs.tla
tlapm TargaImageProofs.tla
tlapm ArchiveProofs.tla
tlapm EngineCompositionProofs.tla
```

`PROJECT.json` pairs each run with its configuration, each property with a
mutated definition that the run rejects, and each definition with the lines it
models.
