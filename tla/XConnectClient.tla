--------------------------- MODULE XConnectClient ----------------------------
(***************************************************************************)
(* The XPXPlayer client: the loading screen and its connect thread, the    *)
(* components and events that take over once the server accepts, and the   *)
(* popups through which a session ends.                                    *)
(*                                                                         *)
(* The main thread runs frames: one pass over the registered components,   *)
(* then the events in the order they were added (LocalNetworkMonitorEvent, *)
(* LocalHumanoidMoveEvent, LocalMenuEvent), then the keyboard is reset.    *)
(* Every visit of a component and every event is one step, and the connect *)
(* thread interleaves with them.                                           *)
(*                                                                         *)
(* Only the monitor forgets a NetworkComponent it removes.  The others     *)
(* keep the pointer, and their next use of it is undefined: the model lets *)
(* the process die there or go on as if nothing had been received, which   *)
(* is what the closed socket of the freed object yields.                   *)
(***************************************************************************)
EXTENDS ComponentSystem, Integers

CONSTANTS
    ServerPackets,   \* the packets a client may receive
    ConnectTimeout,  \* XPLICIT_TIMEOUT of the loading screen
    ResetTimeout,    \* XPX_MAX_TIMEOUT_MACRO of the monitor
    MenuTimeout      \* XPLICIT_TIMEOUT_MENU

Packets == [cmd : SUBSET {"ACCEPT", "KICK", "BAN", "STOP"}, hash : Int,
            publicHash : Int, channel : {"DATA", "CHAT"}]

ASSUME ClientAssumption ==
    /\ ServerPackets \subseteq Packets
    /\ ConnectTimeout \in Nat
    /\ ResetTimeout \in Nat \ {0}
    /\ MenuTimeout \in Nat

VARIABLES
    startLoad,    \* LoadingScreenComponent::StartLoad
    tries,        \* mTimeout, counted up to ConnectTimeout
    thread,       \* where the connect thread is
    late,         \* login requests sent after StartLoad was cleared, up to 2
    registry,     \* the component system
    cursor,       \* the cell the pass over it is at
    passSize,     \* the size that pass read before it began
    pc,           \* what the main thread does next
    netHash,      \* NetworkComponent::mHash
    inbox,        \* NetworkComponent::mPacket
    reset,        \* NetworkComponent::mReset
    monitor,      \* LocalNetworkMonitorEvent: state and the two hashes
    resetsLeft,   \* its XPX_MAX_TIMEOUT
    menu,         \* LocalMenuEvent: mPopup, mEnabled, mTimeout
    keys,         \* the keys down in this frame
    process       \* whether the process runs, exited or died

loadVars  == <<startLoad, tries, thread, late>>
netVars   == <<netHash, inbox, reset>>
eventVars == <<monitor, resetsLeft, menu>>
passVars  == <<cursor, passSize>>
vars == <<loadVars, registry, passVars, pc, netVars, eventVars, keys, process>>

InvalidHash == -1
Keys   == {"RETURN", "ESCAPE", "F9"}
Popups == {"StopPopup", "TimeoutPopup", "ResetPopup", "KickPopup", "BanPopup",
           "ConnShutdown", "LeavePopup"}
NoPopup == "nullptr"
NoPacket == [cmd |-> {}, hash |-> 0, publicHash |-> 0, channel |-> "DATA"]

\* Everything that is ever registered, by the name get() finds it under.
ComponentNames ==
    {"NetworkComponent", "LocalCameraComponent", "LoadingScreenComponent",
     "ChatBoxComponent", "LocalReplicationManager", "LocalHumanoidComponent",
     "HUDComponent"} \cup Popups

Running   == process = "running"
Connected == "NetworkComponent" \in Registered(registry)

\* Using the freed NetworkComponent, or a freed component altogether.
Undefined == process' \in {"running", "died"}

-----------------------------------------------------------------------------
(* The connect thread of LoadingScreenComponent::connect *)

\* A thread that tests nothing sends for as long as the process lives.
ConnectTestIgnored == thread = "test" /\ thread' = "send"

ConnectTest ==
    /\ thread = "test"
    /\ thread' = IF startLoad THEN "send" ELSE "done"

ConnectLoop ==
    /\ Running
    /\ ConnectTest
    /\ UNCHANGED <<startLoad, tries, late, registry, passVars, pc, netVars,
                   eventVars, keys, process>>

\* mNetwork is never null, so the thread's own test of it never stops it.
ConnectSend ==
    /\ Running
    /\ thread = "send"
    /\ thread' = "sleep"
    /\ late' = IF startLoad \/ late = 2 THEN late ELSE late + 1
    /\ IF Connected THEN UNCHANGED process ELSE Undefined
    /\ UNCHANGED <<startLoad, tries, registry, passVars, pc, netVars,
                   eventVars, keys>>

NotCounted(n) == n

Counted(n) == IF n < ConnectTimeout THEN n + 1 ELSE n

ConnectSleep ==
    /\ Running
    /\ thread = "sleep"
    /\ thread' = "test"
    /\ tries' = Counted(tries)
    /\ UNCHANGED <<startLoad, late, registry, passVars, pc, netVars,
                   eventVars, keys, process>>

Connect == ConnectLoop \/ ConnectSend \/ ConnectSleep

-----------------------------------------------------------------------------
(* NetworkComponent::read *)

ReadPacket(p) ==
    /\ Connected
    /\ inbox' = p
    /\ reset' = FALSE
    /\ UNCHANGED netHash

\* Nothing to read, or a connection that was reset.
ReadNothing ==
    /\ Connected
    /\ reset' \in BOOLEAN
    /\ UNCHANGED <<netHash, inbox>>

-----------------------------------------------------------------------------
(* ComponentSystem::update *)

Visited == registry.cell[cursor]

Visit(c) ==
    /\ Running
    /\ pc = "components"
    /\ cursor <= passSize
    /\ Visited = c
    /\ c \in Registered(registry)
    /\ cursor' = cursor + 1
    /\ UNCHANGED <<pc, passSize, tries, thread, late, keys>>

\* A cell behind the end of the registry whose component was deleted.
VisitFreed ==
    /\ Running
    /\ pc = "components"
    /\ cursor <= passSize
    /\ Visited \notin Registered(registry)
    /\ cursor' = cursor + 1
    /\ Undefined
    /\ UNCHANGED <<loadVars, registry, pc, passSize, netVars, eventVars, keys>>

\* The keep-alive, the camera, the chat box and the HUD use the connection and
\* change nothing that matters here.
VisitSender ==
    /\ \E c \in {"NetworkComponent", "LocalCameraComponent", "ChatBoxComponent",
                 "HUDComponent"} : Visit(c)
    /\ IF Connected THEN UNCHANGED process ELSE Undefined
    /\ UNCHANGED <<startLoad, registry, netVars, eventVars>>

\* LocalReplicationComponent and LocalCharacterComponent both read.
VisitReader ==
    /\ \E c \in {"LocalReplicationManager", "LocalHumanoidComponent"} : Visit(c)
    /\ \/ /\ (\E p \in ServerPackets : ReadPacket(p)) \/ ReadNothing
          /\ UNCHANGED process
       \/ ~Connected /\ Undefined /\ UNCHANGED netVars
    /\ UNCHANGED <<startLoad, registry, eventVars>>

\* RETURN runs the popup's callback, which exits; ESC removes the popup.
VisitPopup(c) ==
    /\ Visit(c)
    /\ process' = IF "RETURN" \in keys THEN "exited" ELSE process
    /\ registry' = IF "RETURN" \notin keys /\ "ESCAPE" \in keys
                   THEN Unregister(registry, c) ELSE registry
    /\ UNCHANGED <<startLoad, netVars, eventVars>>

-----------------------------------------------------------------------------
(* LoadingScreenComponent::update, with its static should_update *)

LoadingAlways == Visit("LoadingScreenComponent")

Loading == startLoad /\ Visit("LoadingScreenComponent")

LoadingDone ==
    /\ ~startLoad
    /\ Visit("LoadingScreenComponent")
    /\ UNCHANGED <<startLoad, registry, netVars, eventVars, process>>

LoadingNothing ==
    /\ Loading
    /\ ReadNothing
    /\ UNCHANGED <<startLoad, registry, eventVars, process>>

GiveUp(popup) ==
    /\ startLoad' = FALSE
    /\ registry' = Unregister(Add(registry, popup), "NetworkComponent")

LoadingBanned(p) ==
    /\ Loading
    /\ "BAN" \in p.cmd
    /\ ReadPacket(p)
    /\ GiveUp("StopPopup")
    /\ UNCHANGED <<eventVars, process>>

\* set_hash keeps the first hash it is given.
LoadingAccepted(p) ==
    /\ Loading
    /\ "BAN" \notin p.cmd
    /\ "ACCEPT" \in p.cmd
    /\ Connected
    /\ inbox' = p
    /\ reset' = FALSE
    /\ netHash' = IF netHash = InvalidHash THEN p.hash ELSE netHash
    /\ startLoad' = FALSE
    /\ monitor' = [state |-> "watching", hash |-> p.hash,
                   publicHash |-> p.publicHash]
    /\ registry' = Add(Add(Add(Add(registry, "ChatBoxComponent"),
                                   "LocalReplicationManager"),
                               "LocalHumanoidComponent"), "HUDComponent")
    /\ UNCHANGED <<resetsLeft, menu, process>>

LoadingOther(p) ==
    /\ Loading
    /\ p.cmd \cap {"BAN", "ACCEPT"} = {}
    /\ ReadPacket(p)
    /\ IF tries >= ConnectTimeout THEN GiveUp("TimeoutPopup")
                                  ELSE UNCHANGED <<startLoad, registry>>
    /\ UNCHANGED <<eventVars, process>>

LoadingReads ==
    \E p \in ServerPackets :
        LoadingBanned(p) \/ LoadingAccepted(p) \/ LoadingOther(p)

EndPass ==
    /\ Running
    /\ pc = "components"
    /\ cursor > passSize
    /\ pc' = IF monitor.state = "absent" THEN "frame" ELSE "monitor"
    /\ UNCHANGED <<loadVars, registry, passVars, netVars, eventVars, keys,
                   process>>

-----------------------------------------------------------------------------
(* LocalNetworkMonitorEvent::operator() *)

\* A popup that is allocated while the menu still points at a popup that was
\* deleted may get that popup's address.
MenuAfterAdding(new) ==
    \/ UNCHANGED menu
    \/ /\ menu.popup # NoPopup
       /\ menu.popup \notin Registered(registry)
       /\ \E c \in new : menu' = [menu EXCEPT !.popup = c]

Monitoring == Running /\ pc = "monitor" /\ pc' = "move"

\* Once it is deaf the monitor returns at once.
MonitorDeaf ==
    /\ Monitoring
    /\ monitor.state = "deaf"
    /\ UNCHANGED <<loadVars, registry, passVars, netVars, eventVars, keys,
                   process>>

\* An abort that says nothing to the player.
AbortSilently(popup) ==
    /\ registry' = Unregister(registry, "NetworkComponent")
    /\ monitor' = [monitor EXCEPT !.state = "deaf"]
    /\ MenuAfterAdding({popup})

\* The popup is added, the connection removed and the pointer to it dropped.
Abort(popup) ==
    /\ registry' = Unregister(Add(registry, popup), "NetworkComponent")
    /\ monitor' = [monitor EXCEPT !.state = "deaf"]
    /\ MenuAfterAdding({popup})

ResetsExhaustedLate == reset /\ resetsLeft < 1

ResetsExhausted == reset /\ resetsLeft <= 1

MonitorReset ==
    /\ Monitoring
    /\ monitor.state = "watching"
    /\ ResetsExhausted
    /\ resetsLeft' = resetsLeft - 1
    /\ Abort("ResetPopup")
    /\ UNCHANGED <<loadVars, passVars, netVars, keys, process>>

CountResets == resetsLeft' = IF reset THEN resetsLeft - 1 ELSE ResetTimeout

Kicked ==
    /\ inbox.channel = "DATA"
    /\ "KICK" \in inbox.cmd
    /\ inbox.hash = monitor.hash
    /\ "KickPopup" \notin Registered(registry)

MonitorKick ==
    /\ Monitoring
    /\ monitor.state = "watching"
    /\ ~ResetsExhausted
    /\ Kicked
    /\ CountResets
    /\ Abort("KickPopup")
    /\ UNCHANGED <<loadVars, passVars, netVars, keys, process>>

AddAlways(r, popup) == Add(r, popup)

AddOnce(r, popup) == IF popup \in Registered(r) THEN r ELSE Add(r, popup)

\* A packet that does not kick: a ban only shows a popup, a stop of this
\* player or of the server also makes the monitor deaf.  Neither removes the
\* connection.
MonitorPacket ==
    LET data   == inbox.channel = "DATA"
        banned == data /\ "BAN" \in inbox.cmd
        stops  == data /\ "STOP" \in inbox.cmd
                  /\ \/ inbox.hash = monitor.hash
                     \/ inbox.publicHash = monitor.publicHash
        withBan == IF banned THEN AddOnce(registry, "BanPopup") ELSE registry
    IN
    /\ Monitoring
    /\ monitor.state = "watching"
    /\ ~ResetsExhausted
    /\ ~Kicked
    /\ CountResets
    /\ registry' = IF stops THEN AddOnce(withBan, "ConnShutdown") ELSE withBan
    /\ monitor' = IF stops THEN [monitor EXCEPT !.state = "deaf"] ELSE monitor
    /\ MenuAfterAdding(Registered(registry') \ Registered(registry))
    /\ UNCHANGED <<loadVars, passVars, netVars, keys, process>>

-----------------------------------------------------------------------------
(* LocalHumanoidMoveEvent and LocalMenuEvent *)

\* With a key down it sends the last packet back.
Move ==
    /\ Running
    /\ pc = "move"
    /\ pc' = "menu"
    /\ IF ~Connected /\ keys # {} /\ ~menu.enabled
       THEN Undefined ELSE UNCHANGED process
    /\ UNCHANGED <<loadVars, registry, passVars, netVars, eventVars, keys>>

\* A menu that does not forget the popup it removes.
MenuKeepsPopup(m) == [m EXCEPT !.enabled = FALSE]

MenuClosed(m) == [m EXCEPT !.popup = NoPopup, !.enabled = FALSE]

Menu ==
    LET opens  == "F9" \in keys /\ menu.timeout < 0 /\ menu.popup = NoPopup
        opened == IF opens THEN [popup |-> "LeavePopup", enabled |-> TRUE,
                                 timeout |-> MenuTimeout]
                           ELSE menu
        added  == IF opens THEN Add(registry, "LeavePopup") ELSE registry
        closes == opened.enabled /\ "ESCAPE" \in keys
        closed == IF closes THEN MenuClosed(opened) ELSE opened
    IN
    /\ Running
    /\ pc = "menu"
    /\ pc' = "frame"
    /\ registry' = IF closes THEN Unregister(added, opened.popup) ELSE added
    /\ menu' = [closed EXCEPT !.timeout = IF @ < 0 THEN @ ELSE @ - 1]
    /\ UNCHANGED <<loadVars, passVars, netVars, monitor, resetsLeft, keys,
                   process>>

\* The next frame: other keys, and a pass over the registry as it now is.
Frame ==
    /\ Running
    /\ pc = "frame"
    /\ pc' = "components"
    /\ keys' \in SUBSET Keys
    /\ registry' = Settled(registry)
    /\ passSize' = registry.size
    /\ cursor' = 1
    /\ UNCHANGED <<loadVars, netVars, eventVars, process>>

-----------------------------------------------------------------------------
(* The specification *)

Init ==
    /\ startLoad = TRUE
    /\ tries = 0
    /\ thread = "test"
    /\ late = 0
    /\ registry = Registry(<<"NetworkComponent", "LocalCameraComponent",
                             "LoadingScreenComponent">>)
    /\ cursor = 1
    /\ passSize = 3
    /\ pc = "frame"
    /\ netHash = InvalidHash
    /\ inbox = NoPacket
    /\ reset = FALSE
    /\ monitor = [state |-> "absent", hash |-> 0, publicHash |-> 0]
    /\ resetsLeft = ResetTimeout
    /\ menu = [popup |-> NoPopup, enabled |-> FALSE, timeout |-> 0]
    /\ keys = {}
    /\ process = "running"

Load == LoadingDone \/ LoadingNothing \/ LoadingReads

Pass ==
    \/ VisitSender
    \/ VisitReader
    \/ VisitFreed
    \/ \E c \in Popups : VisitPopup(c)
    \/ Load
    \/ EndPass

Events ==
    MonitorDeaf \/ MonitorReset \/ MonitorKick \/ MonitorPacket \/ Move \/ Menu

Main == Pass \/ Events \/ Frame

\* A process that exited or died does nothing more.
Ended == ~Running /\ UNCHANGED vars

Next == Main \/ Connect \/ Ended

\* Frames follow each other and the operating system schedules the thread.
Fairness == WF_vars(Main) /\ WF_vars(Connect)

Spec == Init /\ [][Next]_vars

FairSpec == Spec /\ Fairness

-----------------------------------------------------------------------------
(* Properties *)

TypeOK ==
    /\ startLoad \in BOOLEAN
    /\ tries \in 0..ConnectTimeout
    /\ thread \in {"test", "send", "sleep", "done"}
    /\ late \in 0..2
    /\ registry \in Registries(ComponentNames)
    /\ passSize \in 0..Len(registry.cell)
    /\ cursor \in 1..(passSize + 1)
    /\ pc \in {"components", "monitor", "move", "menu", "frame"}
    /\ netHash \in Int
    /\ inbox \in Packets
    /\ reset \in BOOLEAN
    /\ monitor \in [state : {"absent", "watching", "deaf"}, hash : Int,
                    publicHash : Int]
    /\ resetsLeft \in 0..ResetTimeout
    /\ menu \in [popup : Popups \cup {NoPopup}, enabled : BOOLEAN,
                 timeout : -1..MenuTimeout]
    /\ keys \in SUBSET Keys
    /\ process \in {"running", "exited", "died"}

\* Nothing is registered twice, so removing a component by its pointer takes
\* away all of it and no deleted component stays registered.
EntriesDistinct == Distinct(registry)

\* The popup of the leave menu is removed in two places, by itself and by the
\* menu, whose pointer may by then be another popup's.  When a frame is over the
\* menu agrees with the registry about it: nothing is leaked, nothing dangles.
MenuAgrees ==
    pc = "frame" =>
        /\ menu.enabled <=> menu.popup # NoPopup
        /\ menu.enabled <=> "LeavePopup" \in Registered(registry)

\* The connect thread may overtake the decision of the loading screen by one
\* request, the one it had decided to send before.
LastLoginRequest == late <= 1

\* A monitor that watches has a connection: nobody removes it under the
\* monitor, although four places remove it.
WatchedConnection == monitor.state = "watching" => Connected

\* Before the decision nothing but the three components of the start is
\* registered, and the events do not exist.
LoadingAlone ==
    /\ startLoad =>
          /\ Registered(registry) \subseteq
                {"NetworkComponent", "LocalCameraComponent",
                 "LoadingScreenComponent"}
          /\ monitor.state = "absent"
    /\ monitor.state = "absent" =>
          /\ menu.popup = NoPopup
          /\ pc \in {"components", "frame"}

\* What a watching monitor has not done yet.
WatchingMonitor ==
    /\ monitor.state # "deaf" => resetsLeft >= 1
    /\ monitor.state = "watching" =>
          {"ResetPopup", "KickPopup"} \cap Registered(registry) = {}

\* MenuAgrees within a frame: between the popup's own reaction to ESC and the
\* menu's, the menu points at a popup that is gone, or at another popup.
MenuPointer ==
    /\ menu.enabled <=> menu.popup # NoPopup
    /\ "LeavePopup" \in Registered(registry) => menu.popup = "LeavePopup"
    /\ menu.popup # NoPopup /\ "LeavePopup" \notin Registered(registry)
          => "ESCAPE" \in keys /\ pc # "frame"

\* The thread sends late only when it had already decided to send.
RequestsCounted ==
    /\ startLoad => late = 0
    /\ late >= 1 => late = 1 /\ thread # "send"

\* The inductive invariant.
ClientInv ==
    /\ TypeOK
    /\ EntriesDistinct
    /\ LoadingAlone
    /\ WatchedConnection
    /\ WatchingMonitor
    /\ MenuPointer
    /\ RequestsCounted

\* What is left of a session when components, events and thread are forgotten.
SessionPhase ==
    CASE startLoad                    -> "loading"
      [] ~startLoad /\ monitor.state = "absent"   -> "refused"
      [] ~startLoad /\ monitor.state = "watching" -> "playing"
      [] ~startLoad /\ monitor.state = "deaf"     -> "over"

Notice == Registered(registry) \cap Popups # {}

Session == INSTANCE ClientSession WITH
    phase <- SessionPhase, connected <- Connected,
    requests <- late, notice <- Notice

\* The client implements ClientSession: one decision, one end, no end without
\* a popup, no connection regained, and none lost but in the deciding or the
\* ending step, although it is removed in four places
\* (LoadingScreenComponent.cpp:81, 127 and LocalNetworkMonitorEvent.cpp:57, 86)
\* while components, events and the connect thread run on.
SessionSpec == Session!SessionSpec

\* A loading screen that keeps receiving packets decides, one way or another.
LoadingDecides ==
    ([]<><<LoadingReads>>_vars) => <>~startLoad

\* "connection timeout until client stops trying to ACK"
\* (LoadingScreenComponent.cpp:36): at the timeout the connect thread stops.
ConnectGivesUp == tries = ConnectTimeout ~> (thread = "done" \/ ~Running)

\* The client has read a KICK that is meant for its player.
KickRead ==
    /\ monitor.state = "watching"
    /\ "KICK" \in inbox.cmd
    /\ inbox.hash = monitor.hash

\* "also aborts the connection, and exits the client" (NetworkProtocol.h:111, of
\* NETWORK_CMD_KICK): a KICK for this player that the client has read ends the
\* connection or the process.
KickAborts == KickRead ~> (~Connected \/ ~Running)

=============================================================================
