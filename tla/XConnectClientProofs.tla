------------------------- MODULE XConnectClientProofs ------------------------
(***************************************************************************)
(* Theorems about the client, for any packets a server may send and any    *)
(* timeouts.                                                               *)
(*                                                                         *)
(* ClientInv is inductive.  What it says about the registry is carried by  *)
(* the lemmas of ComponentSystemProofs: adding and removing a component    *)
(* changes the set of registered components by that one, as long as        *)
(* nothing is registered twice, and that nothing is follows because every  *)
(* addition is of something that is not registered.                        *)
(***************************************************************************)
EXTENDS XConnectClient, ComponentSystemProofs

\* The facts about the registry of a state that satisfies the invariant.
LEMMA RegistrySteps ==
    ASSUME ClientInv, NEW c \in ComponentNames
    PROVE  /\ registry \in Registries(ComponentNames)
           /\ Distinct(registry)
           /\ Add(registry, c) \in Registries(ComponentNames)
           /\ Len(Add(registry, c).cell) >= Len(registry.cell)
           /\ Registered(Add(registry, c)) = Registered(registry) \cup {c}
           /\ c \notin Registered(registry) => Distinct(Add(registry, c))
           /\ Unregister(registry, c) \in Registries(ComponentNames)
           /\ Len(Unregister(registry, c).cell) = Len(registry.cell)
           /\ Registered(Unregister(registry, c)) = Registered(registry) \ {c}
           /\ Distinct(Unregister(registry, c))
<1>1. registry \in Registries(ComponentNames) /\ Distinct(registry)
  BY DEF ClientInv, TypeOK, EntriesDistinct
<1> QED BY <1>1, AddRegisters, RemoveUnregisters

\* AddRegisters for the names of the client.
LEMMA AddNew ==
    ASSUME NEW r, r \in Registries(ComponentNames), Distinct(r),
           NEW c, c \in ComponentNames, c \notin Registered(r),
           NEW q, q = Add(r, c)
    PROVE  /\ q \in Registries(ComponentNames) /\ Distinct(q)
           /\ Registered(q) = Registered(r) \cup {c}
           /\ Len(q.cell) >= Len(r.cell)
BY AddRegisters

\* Adding one component that is not registered and then removing another.
LEMMA AddRemove ==
    ASSUME NEW r \in Registries(ComponentNames), Distinct(r),
           NEW c \in ComponentNames, c \notin Registered(r),
           NEW d \in ComponentNames
    PROVE  /\ Unregister(Add(r, c), d) \in Registries(ComponentNames)
           /\ Len(Unregister(Add(r, c), d).cell) >= Len(r.cell)
           /\ Registered(Unregister(Add(r, c), d)) = (Registered(r) \cup {c}) \ {d}
           /\ Distinct(Unregister(Add(r, c), d))
<1>1. /\ Add(r, c) \in Registries(ComponentNames)
      /\ Len(Add(r, c).cell) >= Len(r.cell)
      /\ Registered(Add(r, c)) = Registered(r) \cup {c}
      /\ Distinct(Add(r, c))
  BY AddRegisters
<1> QED BY <1>1, RemoveUnregisters

\* A popup is added at most once (ComponentSystem::get before add).
LEMMA AddOnceRegisters ==
    ASSUME NEW r \in Registries(ComponentNames), Distinct(r),
           NEW c \in ComponentNames
    PROVE  /\ AddOnce(r, c) \in Registries(ComponentNames)
           /\ Len(AddOnce(r, c).cell) >= Len(r.cell)
           /\ Registered(AddOnce(r, c)) = Registered(r) \cup {c}
           /\ Distinct(AddOnce(r, c))
<1>1. CASE c \in Registered(r)
  <2>1. AddOnce(r, c) = r
    BY <1>1 DEF AddOnce
  <2>2. Len(r.cell) \in Nat
    BY DEF Registries
  <2> QED BY <1>1, <2>1, <2>2
<1>2. CASE c \notin Registered(r)
  BY <1>2, AddRegisters DEF AddOnce
<1> QED BY <1>1, <1>2

-----------------------------------------------------------------------------
(* The connect thread *)

\* What the steps that touch neither the registry nor the events preserve.
LEMMA QuietStep ==
    ASSUME ClientInv, TypeOK', RequestsCounted',
           UNCHANGED <<startLoad, registry, eventVars, keys>>,
           pc' = pc \/ (pc' # "frame" /\ monitor.state # "absent")
    PROVE  ClientInv'
<1> USE DEF ClientInv, eventVars
<1>1. EntriesDistinct'
  BY DEF EntriesDistinct
<1>2. LoadingAlone'
  BY DEF LoadingAlone
<1>3. WatchedConnection'
  BY DEF WatchedConnection, Connected
<1>4. WatchingMonitor'
  BY DEF WatchingMonitor
<1>5. MenuPointer'
  BY DEF MenuPointer
<1> QED BY <1>1, <1>2, <1>3, <1>4, <1>5

LEMMA ConnectPreserves ==
    ASSUME ClientInv, Connect
    PROVE  ClientInv'
<1>1. TypeOK /\ RequestsCounted
  BY DEF ClientInv
<1>2. CASE ConnectLoop
  <2>1. TypeOK'
    BY <1>1, <1>2 DEF TypeOK, ConnectLoop, ConnectTest, netVars, eventVars, passVars
  <2>2. RequestsCounted'
    BY <1>1, <1>2 DEF TypeOK, RequestsCounted, ConnectLoop, ConnectTest
  <2> QED BY <1>2, <2>1, <2>2, QuietStep DEF ConnectLoop
<1>3. CASE ConnectSend
  <2>1. TypeOK'
    BY <1>1, <1>3 DEF TypeOK, RequestsCounted, ConnectSend, Undefined, netVars,
                      eventVars, passVars
  <2>2. RequestsCounted'
    BY <1>1, <1>3 DEF TypeOK, RequestsCounted, ConnectSend
  <2> QED BY <1>3, <2>1, <2>2, QuietStep DEF ConnectSend
<1>4. CASE ConnectSleep
  <2>1. TypeOK'
    BY <1>1, <1>4, ClientAssumption
    DEF TypeOK, ConnectSleep, Counted, netVars, eventVars, passVars
  <2>2. RequestsCounted'
    BY <1>1, <1>4 DEF TypeOK, RequestsCounted, ConnectSleep
  <2> QED BY <1>4, <2>1, <2>2, QuietStep DEF ConnectSleep
<1> QED BY <1>2, <1>3, <1>4 DEF Connect

-----------------------------------------------------------------------------
(* The pass over the components *)

\* What a visit leaves of the type invariant when it changes the registry, if
\* at all, into one with at least as many cells.
LEMMA VisitType ==
    ASSUME TypeOK, NEW c, Visit(c),
           registry' \in Registries(ComponentNames),
           Len(registry'.cell) >= Len(registry.cell)
    PROVE  /\ passSize' \in 0..Len(registry'.cell)
           /\ cursor' \in 1..(passSize' + 1)
           /\ pc' \in {"components", "monitor", "move", "menu", "frame"}
           /\ tries' \in 0..ConnectTimeout
           /\ thread' \in {"test", "send", "sleep", "done"}
           /\ late' \in 0..2
           /\ keys' \in SUBSET Keys
BY DEF TypeOK, Visit, Registries

LEMMA QuietVisit ==
    ASSUME ClientInv, VisitSender \/ VisitReader \/ VisitFreed
                      \/ LoadingDone \/ LoadingNothing
    PROVE  ClientInv'
<1>1. TypeOK /\ RequestsCounted /\ registry \in Registries(ComponentNames)
      /\ Len(registry.cell) \in Nat
  BY DEF ClientInv, TypeOK, Registries
<1> USE DEF netVars, eventVars, passVars, loadVars
<1>2. TypeOK'
  <2>1. CASE VisitSender
    BY <1>1, <2>1 DEF TypeOK, VisitSender, Visit, Undefined
  <2>2. CASE VisitReader
    <3>1. /\ inbox' \in Packets /\ reset' \in BOOLEAN /\ netHash' \in Int
          /\ process' \in {"running", "exited", "died"}
      BY <1>1, <2>2, ClientAssumption
      DEF TypeOK, VisitReader, Undefined, ReadPacket, ReadNothing
    <3>2. /\ passSize' = passSize /\ cursor' = cursor + 1 /\ cursor <= passSize
          /\ UNCHANGED <<startLoad, registry, eventVars, tries, thread, late,
                         keys, pc>>
      BY <2>2 DEF VisitReader, Visit
    <3> QED BY <1>1, <3>1, <3>2 DEF TypeOK
  <2>3. CASE VisitFreed
    BY <1>1, <2>3 DEF TypeOK, VisitFreed, Undefined
  <2>4. CASE LoadingDone
    BY <1>1, <2>4 DEF TypeOK, LoadingDone, Visit
  <2>5. CASE LoadingNothing
    BY <1>1, <2>5 DEF TypeOK, LoadingNothing, Loading, Visit, ReadNothing
  <2> QED BY <2>1, <2>2, <2>3, <2>4, <2>5
<1>3. RequestsCounted'
  BY <1>1 DEF RequestsCounted, VisitSender, VisitReader, VisitFreed,
              LoadingDone, LoadingNothing, Loading, Visit
<1>4. UNCHANGED <<startLoad, registry, eventVars, keys, pc>>
  BY DEF VisitSender, VisitReader, VisitFreed, LoadingDone,
         LoadingNothing, Loading, Visit
<1> QED BY <1>2, <1>3, <1>4, QuietStep

\* A popup that ESC removes is gone before the menu hears of it.
LEMMA PopupPreserves ==
    ASSUME ClientInv, NEW c \in Popups, VisitPopup(c)
    PROVE  ClientInv'
<1> USE DEF netVars, eventVars, passVars
<1>1. TypeOK /\ c \in ComponentNames
  BY DEF ClientInv, ComponentNames
<1>2. /\ registry' \in Registries(ComponentNames)
      /\ Len(registry'.cell) = Len(registry.cell)
      /\ Distinct(registry')
      /\ Len(registry.cell) \in Nat
      /\ \/ Registered(registry') = Registered(registry)
         \/ /\ Registered(registry') = Registered(registry) \ {c}
            /\ "ESCAPE" \in keys
  BY <1>1, RegistrySteps DEF VisitPopup, Registries
<1>3. TypeOK'
  BY <1>1, <1>2, VisitType DEF TypeOK, VisitPopup
<1>4. EntriesDistinct'
  BY <1>2 DEF EntriesDistinct
<1>5. LoadingAlone'
  BY <1>2 DEF ClientInv, LoadingAlone, VisitPopup, Visit
<1>6. WatchedConnection'
  BY <1>2 DEF ClientInv, WatchedConnection, Connected, VisitPopup, Popups
<1>7. WatchingMonitor'
  BY <1>2 DEF ClientInv, WatchingMonitor, VisitPopup
<1>8. MenuPointer'
  BY <1>2 DEF ClientInv, MenuPointer, VisitPopup, Visit
<1>9. RequestsCounted'
  BY DEF ClientInv, RequestsCounted, VisitPopup, Visit
<1> QED BY <1>3, <1>4, <1>5, <1>6, <1>7, <1>8, <1>9 DEF ClientInv

\* Giving up adds a popup and removes the connection.
LEMMA GiveUpPreserves ==
    ASSUME ClientInv, Loading, NEW p \in ServerPackets, ReadPacket(p),
           NEW popup \in {"StopPopup", "TimeoutPopup"}, GiveUp(popup),
           UNCHANGED <<eventVars, process>>
    PROVE  ClientInv'
<1> USE DEF eventVars
<1>1. TypeOK /\ startLoad /\ Visit("LoadingScreenComponent")
  BY DEF ClientInv, Loading
<1>2. /\ popup \in ComponentNames /\ "NetworkComponent" \in ComponentNames
      /\ popup \notin Registered(registry)
      /\ registry \in Registries(ComponentNames) /\ Distinct(registry)
      /\ Len(registry.cell) \in Nat
  BY <1>1 DEF ClientInv, LoadingAlone, ComponentNames, Popups, TypeOK,
              EntriesDistinct, Registries
<1>3. /\ registry' \in Registries(ComponentNames)
      /\ Len(registry'.cell) >= Len(registry.cell)
      /\ Registered(registry') =
            (Registered(registry) \cup {popup}) \ {"NetworkComponent"}
      /\ Distinct(registry')
  BY <1>2, AddRemove DEF GiveUp
<1>4. /\ ~startLoad' /\ pc' = "components" /\ pc = "components"
      /\ UNCHANGED <<monitor, resetsLeft, menu, keys, late, thread>>
  BY <1>1 DEF GiveUp, Visit
<1>5. monitor.state = "absent" /\ menu.popup = NoPopup
  BY <1>1 DEF ClientInv, LoadingAlone
<1>6. TypeOK'
  BY <1>1, <1>3, VisitType, ClientAssumption DEF TypeOK, ReadPacket, GiveUp
<1>7. EntriesDistinct'
  BY <1>3 DEF EntriesDistinct
<1>8. LoadingAlone'
  BY <1>4, <1>5 DEF ClientInv, LoadingAlone
<1>9. WatchedConnection' /\ WatchingMonitor'
  BY <1>4, <1>5 DEF ClientInv, WatchedConnection, WatchingMonitor
<1>10. MenuPointer'
  BY <1>3, <1>4, <1>5 DEF ClientInv, MenuPointer
<1>11. RequestsCounted'
  BY <1>4 DEF ClientInv, RequestsCounted
<1> QED BY <1>6, <1>7, <1>8, <1>9, <1>10, <1>11 DEF ClientInv

\* An acceptance registers the four components of the game.
LEMMA AcceptedPreserves ==
    ASSUME ClientInv, NEW p \in ServerPackets, LoadingAccepted(p)
    PROVE  ClientInv' /\ Registered(registry') \cap Popups = {}
<1>1. TypeOK /\ startLoad /\ Visit("LoadingScreenComponent") /\ Connected
  BY DEF ClientInv, LoadingAccepted, Loading
<1> DEFINE game == {"ChatBoxComponent", "LocalReplicationManager",
                    "LocalHumanoidComponent", "HUDComponent"}
<1>2. /\ registry \in Registries(ComponentNames) /\ Distinct(registry)
      /\ Registered(registry) \subseteq
            {"NetworkComponent", "LocalCameraComponent", "LoadingScreenComponent"}
  BY <1>1 DEF ClientInv, LoadingAlone, TypeOK, EntriesDistinct
<1>3. /\ "ChatBoxComponent" \in ComponentNames
      /\ "LocalReplicationManager" \in ComponentNames
      /\ "LocalHumanoidComponent" \in ComponentNames
      /\ "HUDComponent" \in ComponentNames
  BY DEF ComponentNames
<1>4. PICK r1 : r1 = Add(registry, "ChatBoxComponent")
  OBVIOUS
<1>5. PICK r2 : r2 = Add(r1, "LocalReplicationManager")
  OBVIOUS
<1>6. PICK r3 : r3 = Add(r2, "LocalHumanoidComponent")
  OBVIOUS
<1>7. /\ r1 \in Registries(ComponentNames) /\ Distinct(r1)
      /\ Registered(r1) = Registered(registry) \cup {"ChatBoxComponent"}
      /\ Len(r1.cell) >= Len(registry.cell)
  <2>1. "ChatBoxComponent" \notin Registered(registry)
    BY <1>2
  <2> QED BY <1>2, <1>3, <1>4, <2>1, AddNew
<1>8. /\ r2 \in Registries(ComponentNames) /\ Distinct(r2)
      /\ Registered(r2) = Registered(r1) \cup {"LocalReplicationManager"}
      /\ Len(r2.cell) >= Len(r1.cell)
  <2>1. "LocalReplicationManager" \notin Registered(r1)
    BY <1>2, <1>7
  <2> QED BY <1>7, <1>3, <1>5, <2>1, AddNew
<1>9. /\ r3 \in Registries(ComponentNames) /\ Distinct(r3)
      /\ Registered(r3) = Registered(r2) \cup {"LocalHumanoidComponent"}
      /\ Len(r3.cell) >= Len(r2.cell)
  <2>1. "LocalHumanoidComponent" \notin Registered(r2)
    BY <1>2, <1>7, <1>8
  <2> QED BY <1>8, <1>3, <1>6, <2>1, AddNew
<1>10. /\ registry' \in Registries(ComponentNames) /\ Distinct(registry')
      /\ Registered(registry') = Registered(r3) \cup {"HUDComponent"}
      /\ Len(registry'.cell) >= Len(r3.cell)
  <2>1. "HUDComponent" \notin Registered(r3)
    BY <1>2, <1>7, <1>8, <1>9
  <2>2. registry' = Add(r3, "HUDComponent")
    BY <1>4, <1>5, <1>6 DEF LoadingAccepted
  <2> QED BY <1>9, <1>3, <2>1, <2>2, AddNew
<1>11. /\ Registered(registry') = Registered(registry) \cup game
      /\ Len(registry'.cell) >= Len(registry.cell)
  <2>1. /\ Len(registry.cell) \in Nat /\ Len(r1.cell) \in Nat
        /\ Len(r2.cell) \in Nat /\ Len(r3.cell) \in Nat
        /\ Len(registry'.cell) \in Nat
    BY <1>2, <1>7, <1>8, <1>9, <1>10 DEF Registries
  <2> QED BY <1>7, <1>8, <1>9, <1>10, <2>1
<1>12. /\ ~startLoad' /\ pc' = "components" /\ pc = "components"
      /\ UNCHANGED <<resetsLeft, menu, keys, late, thread>>
      /\ monitor'.state = "watching" /\ monitor.state = "absent"
      /\ menu.popup = NoPopup
  BY <1>1 DEF ClientInv, LoadingAlone, LoadingAccepted, Visit
<1>13. TypeOK'
  BY <1>1, <1>10, <1>11, VisitType, ClientAssumption
  DEF TypeOK, LoadingAccepted, Packets, InvalidHash
<1>14. EntriesDistinct'
  BY <1>10 DEF EntriesDistinct
<1>15. LoadingAlone'
  BY <1>12 DEF LoadingAlone
<1>16. WatchedConnection'
  BY <1>1, <1>11 DEF WatchedConnection, Connected
<1>17. WatchingMonitor'
  BY <1>2, <1>11, <1>12 DEF ClientInv, WatchingMonitor
<1>18. MenuPointer'
  BY <1>11, <1>12 DEF ClientInv, MenuPointer
<1>19. RequestsCounted'
  BY <1>12 DEF ClientInv, RequestsCounted
<1>20. Registered(registry') \cap Popups = {}
  BY <1>2, <1>11 DEF Popups
<1> QED BY <1>13, <1>14, <1>15, <1>16, <1>17, <1>18, <1>19, <1>20 DEF ClientInv

\* A packet without a decision in it is read, and nothing else happens.
LEMMA OtherPreserves ==
    ASSUME ClientInv, NEW p \in ServerPackets, LoadingOther(p)
    PROVE  ClientInv'
<1>1. CASE tries >= ConnectTimeout
  BY <1>1, GiveUpPreserves DEF LoadingOther
<1>2. CASE ~(tries >= ConnectTimeout)
  <2> USE DEF eventVars
  <2>1. /\ TypeOK /\ Visit("LoadingScreenComponent") /\ ReadPacket(p)
        /\ UNCHANGED <<startLoad, registry, eventVars, keys, pc, late, thread,
                       process>>
    BY <1>2 DEF ClientInv, LoadingOther, Loading, Visit
  <2>2. TypeOK'
    <3>1. inbox' \in Packets /\ reset' \in BOOLEAN /\ netHash' = netHash
      BY <2>1, ClientAssumption DEF ReadPacket
    <3>2. /\ passSize' = passSize /\ cursor' = cursor + 1
          /\ cursor <= passSize /\ tries' = tries
      BY <2>1 DEF Visit
    <3>3. registry \in Registries(ComponentNames) /\ Len(registry.cell) \in Nat
      BY <2>1 DEF TypeOK, Registries
    <3> QED BY <2>1, <3>1, <3>2, <3>3 DEF TypeOK
  <2>3. RequestsCounted'
    BY <2>1 DEF ClientInv, RequestsCounted
  <2> QED BY <2>1, <2>2, <2>3, QuietStep
<1> QED BY <1>1, <1>2

LEMMA PassPreserves ==
    ASSUME ClientInv, Pass
    PROVE  ClientInv'
<1>1. CASE VisitSender \/ VisitReader \/ VisitFreed
  BY <1>1, QuietVisit
<1>2. CASE \E c \in Popups : VisitPopup(c)
  BY <1>2, PopupPreserves
<1>3. CASE Load
  <2>1. CASE LoadingDone \/ LoadingNothing
    BY <2>1, QuietVisit
  <2>2. ASSUME NEW p \in ServerPackets, LoadingBanned(p)
        PROVE  ClientInv'
    BY <2>2, GiveUpPreserves DEF LoadingBanned
  <2>3. ASSUME NEW p \in ServerPackets, LoadingAccepted(p)
        PROVE  ClientInv'
    BY <2>3, AcceptedPreserves
  <2>4. ASSUME NEW p \in ServerPackets, LoadingOther(p)
        PROVE  ClientInv'
    BY <2>4, OtherPreserves
  <2> QED BY <1>3, <2>1, <2>2, <2>3, <2>4 DEF Load, LoadingReads
<1>4. CASE EndPass
  <2> USE DEF eventVars, netVars, loadVars, passVars
  <2>1. TypeOK'
    BY <1>4 DEF ClientInv, TypeOK, EndPass
  <2>2. RequestsCounted'
    BY <1>4 DEF ClientInv, RequestsCounted, EndPass
  <2>3. CASE monitor.state = "absent"
    <3>1. menu.popup = NoPopup /\ pc' = "frame"
      BY <1>4, <2>3 DEF ClientInv, LoadingAlone, EndPass
    <3>2. UNCHANGED <<startLoad, registry, monitor, resetsLeft, menu, keys>>
      BY <1>4 DEF EndPass
    <3>3. EntriesDistinct' /\ WatchedConnection' /\ WatchingMonitor'
      BY <3>2 DEF ClientInv, EntriesDistinct, WatchedConnection, Connected,
                  WatchingMonitor
    <3>4. LoadingAlone' /\ MenuPointer'
      BY <3>1, <3>2 DEF ClientInv, LoadingAlone, MenuPointer
    <3> QED BY <2>1, <2>2, <3>3, <3>4 DEF ClientInv
  <2>4. CASE monitor.state # "absent"
    BY <1>4, <2>1, <2>2, <2>4, QuietStep DEF EndPass
  <2> QED BY <2>3, <2>4
<1> QED BY <1>1, <1>2, <1>3, <1>4 DEF Pass

-----------------------------------------------------------------------------
(* The events *)

\* Another popup registered while the menu's is registered too does not get its
\* address, so the menu keeps its pointer.
LEMMA MenuKept ==
    ASSUME ClientInv, NEW new \in SUBSET (Popups \ {"LeavePopup"}),
           MenuAfterAdding(new),
           "LeavePopup" \in Registered(registry') <=>
              "LeavePopup" \in Registered(registry),
           keys' = keys, pc' # "frame"
    PROVE  /\ menu' \in [popup : Popups \cup {NoPopup}, enabled : BOOLEAN,
                         timeout : -1..MenuTimeout]
           /\ MenuPointer'
<1>1. TypeOK /\ MenuPointer /\ NoPopup \notin Popups
  BY DEF ClientInv, Popups, NoPopup
<1>2. CASE UNCHANGED menu
  BY <1>1, <1>2 DEF TypeOK, MenuPointer
<1>3. ASSUME NEW c \in new, menu' = [menu EXCEPT !.popup = c],
             menu.popup # NoPopup, menu.popup \notin Registered(registry)
      PROVE  /\ menu' \in [popup : Popups \cup {NoPopup}, enabled : BOOLEAN,
                           timeout : -1..MenuTimeout]
             /\ MenuPointer'
  <2>1. /\ menu'.popup = c /\ menu'.enabled = menu.enabled /\ c # NoPopup
        /\ menu' \in [popup : Popups \cup {NoPopup}, enabled : BOOLEAN,
                      timeout : -1..MenuTimeout]
    BY <1>1, <1>3 DEF TypeOK
  <2>2. "LeavePopup" \notin Registered(registry)
    BY <1>1, <1>3 DEF MenuPointer
  <2> QED BY <1>1, <1>3, <2>1, <2>2 DEF MenuPointer
<1> QED BY <1>2, <1>3 DEF MenuAfterAdding

\* An abort adds a popup that is not registered and removes the connection.
LEMMA AbortPreserves ==
    ASSUME ClientInv, Monitoring, NEW popup \in {"ResetPopup", "KickPopup"},
           monitor.state = "watching", Abort(popup),
           resetsLeft' \in 0..ResetTimeout,
           UNCHANGED <<loadVars, passVars, netVars, keys, process>>
    PROVE  ClientInv'
<1> USE DEF loadVars, passVars, netVars
<1>1. /\ popup \in ComponentNames /\ "NetworkComponent" \in ComponentNames
      /\ popup \notin Registered(registry)
      /\ registry \in Registries(ComponentNames) /\ Distinct(registry)
      /\ TypeOK /\ Len(registry.cell) \in Nat
      /\ popup \in Popups \ {"LeavePopup"}
  BY DEF ClientInv, WatchingMonitor, ComponentNames, Popups, TypeOK,
         EntriesDistinct, Registries
<1>2. /\ registry' \in Registries(ComponentNames)
      /\ Len(registry'.cell) >= Len(registry.cell)
      /\ Registered(registry') =
            (Registered(registry) \cup {popup}) \ {"NetworkComponent"}
      /\ Distinct(registry') /\ Len(registry'.cell) \in Nat
  BY <1>1, AddRemove DEF Abort, Registries
<1>3. /\ monitor'.state = "deaf" /\ pc' = "move" /\ ~startLoad /\ ~startLoad'
      /\ monitor' \in [state : {"absent", "watching", "deaf"}, hash : Int,
                       publicHash : Int]
  BY <1>1 DEF ClientInv, LoadingAlone, Abort, Monitoring, TypeOK
<1>4. /\ MenuPointer'
      /\ menu' \in [popup : Popups \cup {NoPopup}, enabled : BOOLEAN,
                    timeout : -1..MenuTimeout]
  BY <1>1, <1>2, <1>3, MenuKept DEF Abort
<1>5. TypeOK'
  BY <1>1, <1>2, <1>3, <1>4 DEF TypeOK
<1>6. EntriesDistinct'
  BY <1>2 DEF EntriesDistinct
<1>7. LoadingAlone' /\ WatchedConnection' /\ WatchingMonitor'
  BY <1>3 DEF LoadingAlone, WatchedConnection, WatchingMonitor
<1>8. RequestsCounted'
  BY DEF ClientInv, RequestsCounted
<1> QED BY <1>4, <1>5, <1>6, <1>7, <1>8 DEF ClientInv

\* What a step that may add a popup, once, makes of a registry.
LEMMA MaybeAdded ==
    ASSUME NEW r, r \in Registries(ComponentNames), Distinct(r),
           NEW c, c \in ComponentNames, NEW q, q = r \/ q = AddOnce(r, c)
    PROVE  /\ q \in Registries(ComponentNames) /\ Distinct(q)
           /\ Len(q.cell) >= Len(r.cell) /\ Len(q.cell) \in Nat
           /\ Registered(r) \subseteq Registered(q)
           /\ Registered(q) \subseteq Registered(r) \cup {c}
<1>1. CASE q = r
  <2>1. Len(r.cell) \in Nat
    BY DEF Registries
  <2> QED BY <1>1, <2>1
<1>2. CASE q = AddOnce(r, c)
  <2>1. /\ q \in Registries(ComponentNames) /\ Distinct(q)
        /\ Len(q.cell) >= Len(r.cell)
        /\ Registered(q) = Registered(r) \cup {c}
    BY <1>2, AddOnceRegisters
  <2>2. Len(q.cell) \in Nat
    BY <2>1 DEF Registries
  <2> QED BY <2>1, <2>2
<1> QED BY <1>1, <1>2

\* A packet that does not kick adds the popups of a ban and of a shutdown.
LEMMA PacketPreserves ==
    ASSUME ClientInv, MonitorPacket
    PROVE  /\ ClientInv'
           /\ Registered(registry) \subseteq Registered(registry')
           /\ Registered(registry') \subseteq
                 Registered(registry) \cup {"BanPopup", "ConnShutdown"}
           /\ monitor' # monitor => "ConnShutdown" \in Registered(registry')
<1> USE DEF loadVars, passVars, netVars
<1> DEFINE new == Registered(registry') \ Registered(registry)
<1>1. /\ TypeOK /\ registry \in Registries(ComponentNames) /\ Distinct(registry)
      /\ Len(registry.cell) \in Nat
      /\ "BanPopup" \in ComponentNames /\ "ConnShutdown" \in ComponentNames
  BY DEF ClientInv, TypeOK, EntriesDistinct, Registries, ComponentNames, Popups
<1>2. PICK withBan :
        /\ withBan = registry \/ withBan = AddOnce(registry, "BanPopup")
        /\ registry' = withBan \/ registry' = AddOnce(withBan, "ConnShutdown")
        /\ monitor' # monitor => registry' = AddOnce(withBan, "ConnShutdown")
  BY DEF MonitorPacket
<1>3. /\ withBan \in Registries(ComponentNames) /\ Distinct(withBan)
      /\ Len(withBan.cell) >= Len(registry.cell) /\ Len(withBan.cell) \in Nat
      /\ Registered(registry) \subseteq Registered(withBan)
      /\ Registered(withBan) \subseteq Registered(registry) \cup {"BanPopup"}
  BY <1>1, <1>2, MaybeAdded
<1>4. /\ registry' \in Registries(ComponentNames) /\ Distinct(registry')
      /\ Len(registry'.cell) >= Len(withBan.cell) /\ Len(registry'.cell) \in Nat
      /\ Registered(withBan) \subseteq Registered(registry')
      /\ Registered(registry') \subseteq Registered(withBan) \cup {"ConnShutdown"}
  BY <1>1, <1>2, <1>3, MaybeAdded
<1>5. /\ Registered(registry) \subseteq Registered(registry')
      /\ Registered(registry') \subseteq
            Registered(registry) \cup {"BanPopup", "ConnShutdown"}
      /\ Len(registry'.cell) >= Len(registry.cell)
  BY <1>1, <1>3, <1>4
<1>6. /\ monitor.state = "watching" /\ monitor'.state \in {"watching", "deaf"}
      /\ monitor' \in [state : {"absent", "watching", "deaf"}, hash : Int,
                       publicHash : Int]
      /\ pc' = "move" /\ ~startLoad /\ ~startLoad' /\ keys' = keys
  BY <1>1 DEF ClientInv, LoadingAlone, MonitorPacket, Monitoring, TypeOK
<1>7. resetsLeft' \in 1..ResetTimeout
  BY <1>1, <1>6, ClientAssumption
  DEF ClientInv, WatchingMonitor, MonitorPacket, CountResets, ResetsExhausted, TypeOK
<1>8. /\ MenuPointer'
      /\ menu' \in [popup : Popups \cup {NoPopup}, enabled : BOOLEAN,
                    timeout : -1..MenuTimeout]
  <2>1. new \in SUBSET (Popups \ {"LeavePopup"})
    BY <1>5 DEF Popups
  <2>2. MenuAfterAdding(new)
    BY DEF MonitorPacket
  <2>3. "LeavePopup" \in Registered(registry') <=>
           "LeavePopup" \in Registered(registry)
    BY <1>5
  <2> QED BY <1>6, <2>1, <2>2, <2>3, MenuKept
<1>9. TypeOK'
  <2>1. /\ UNCHANGED <<startLoad, tries, thread, late, cursor, passSize, netHash,
                       inbox, reset, keys, process>>
    BY DEF MonitorPacket
  <2> QED BY <1>1, <1>4, <1>5, <1>6, <1>7, <1>8, <2>1 DEF TypeOK
<1>10. EntriesDistinct'
  BY <1>4 DEF EntriesDistinct
<1>11. LoadingAlone'
  BY <1>6 DEF LoadingAlone
<1>12. WatchedConnection'
  BY <1>5, <1>6 DEF ClientInv, WatchedConnection, Connected
<1>13. WatchingMonitor'
  BY <1>5, <1>6, <1>7 DEF ClientInv, WatchingMonitor
<1>14. RequestsCounted'
  BY DEF ClientInv, RequestsCounted, MonitorPacket
<1>15. monitor' # monitor => "ConnShutdown" \in Registered(registry')
  BY <1>1, <1>2, <1>3, AddOnceRegisters
<1> QED BY <1>5, <1>8, <1>9, <1>10, <1>11, <1>12, <1>13, <1>14, <1>15 DEF ClientInv

\* The menu opens its popup when none is open, and closes the one it points at.
LEMMA MenuPreserves ==
    ASSUME ClientInv, Menu
    PROVE  ClientInv' /\ Connected' = Connected
<1> USE DEF loadVars, passVars, netVars
<1> DEFINE opens == "F9" \in keys /\ menu.timeout < 0 /\ menu.popup = NoPopup
           opened == IF opens THEN [popup |-> "LeavePopup", enabled |-> TRUE,
                                    timeout |-> MenuTimeout]
                              ELSE menu
           added == IF opens THEN Add(registry, "LeavePopup") ELSE registry
           closes == opened.enabled /\ "ESCAPE" \in keys
<1>1. /\ TypeOK /\ registry \in Registries(ComponentNames) /\ Distinct(registry)
      /\ Len(registry.cell) \in Nat /\ MenuPointer
      /\ "LeavePopup" \in ComponentNames /\ NoPopup \notin Popups
      /\ "LeavePopup" \in Popups
  BY DEF ClientInv, TypeOK, EntriesDistinct, Registries, ComponentNames, Popups,
         NoPopup
<1>2. /\ monitor.state # "absent" /\ ~startLoad /\ pc' = "frame"
      /\ UNCHANGED <<startLoad, tries, thread, late, cursor, passSize, netHash,
                     inbox, reset, monitor, resetsLeft, keys, process>>
  BY DEF ClientInv, LoadingAlone, Menu
<1>3. /\ opened \in [popup : Popups \cup {NoPopup}, enabled : BOOLEAN,
                     timeout : -1..MenuTimeout]
      /\ opened.enabled <=> opened.popup # NoPopup
  BY <1>1, ClientAssumption DEF TypeOK, MenuPointer
<1>4. /\ added \in Registries(ComponentNames) /\ Distinct(added)
      /\ Len(added.cell) >= Len(registry.cell) /\ Len(added.cell) \in Nat
      /\ Registered(added) =
            Registered(registry) \cup (IF opens THEN {"LeavePopup"} ELSE {})
      /\ "LeavePopup" \in Registered(added) => opened.popup = "LeavePopup"
      /\ opened.popup # NoPopup /\ "LeavePopup" \notin Registered(added)
            => "ESCAPE" \in keys
  <2>1. CASE opens
    <3>1. "LeavePopup" \notin Registered(registry)
      BY <1>1, <2>1 DEF MenuPointer, NoPopup
    <3>2. added = Add(registry, "LeavePopup") /\ opened.popup = "LeavePopup"
      BY <2>1
    <3> HIDE DEF added, opened, opens
    <3>3. /\ added \in Registries(ComponentNames) /\ Distinct(added)
          /\ Registered(added) = Registered(registry) \cup {"LeavePopup"}
          /\ Len(added.cell) >= Len(registry.cell)
      BY <1>1, <3>1, <3>2, AddNew
    <3>4. Len(added.cell) \in Nat
      BY <3>3 DEF Registries
    <3> QED BY <2>1, <3>2, <3>3, <3>4
  <2>2. CASE ~opens
    <3>1. added = registry /\ opened = menu
      BY <2>2
    <3> HIDE DEF added, opened, opens
    <3> QED BY <1>1, <2>2, <3>1 DEF MenuPointer
  <2> QED BY <2>1, <2>2
<1>5. /\ registry' = IF closes THEN Unregister(added, opened.popup) ELSE added
      /\ menu'.popup = IF closes THEN NoPopup ELSE opened.popup
      /\ menu'.enabled = IF closes THEN FALSE ELSE opened.enabled
      /\ menu' \in [popup : Popups \cup {NoPopup}, enabled : BOOLEAN,
                    timeout : -1..MenuTimeout]
  <2> DEFINE closed == IF closes THEN MenuClosed(opened) ELSE opened
  <2>1. /\ registry' = IF closes THEN Unregister(added, opened.popup) ELSE added
        /\ menu' = [closed EXCEPT !.timeout = IF @ < 0 THEN @ ELSE @ - 1]
    BY DEF Menu
  <2> HIDE DEF opened, added
  <2>2. /\ closed \in [popup : Popups \cup {NoPopup}, enabled : BOOLEAN,
                       timeout : -1..MenuTimeout]
        /\ closed.popup = IF closes THEN NoPopup ELSE opened.popup
        /\ closed.enabled = IF closes THEN FALSE ELSE opened.enabled
    BY <1>3 DEF MenuClosed
  <2> HIDE DEF closed, closes
  <2>3. /\ menu'.popup = closed.popup /\ menu'.enabled = closed.enabled
        /\ menu' \in [popup : Popups \cup {NoPopup}, enabled : BOOLEAN,
                      timeout : -1..MenuTimeout]
    <3>1. closed.timeout \in -1..MenuTimeout
      BY <2>2
    <3>2. (IF closed.timeout < 0 THEN closed.timeout ELSE closed.timeout - 1)
             \in -1..MenuTimeout
      BY <3>1, ClientAssumption
    <3> QED BY <2>1, <2>2, <3>2
  <2> QED BY <2>1, <2>2, <2>3
<1> HIDE DEF opened, added, opens
<1>6. /\ registry' \in Registries(ComponentNames) /\ Distinct(registry')
      /\ Len(registry'.cell) >= Len(registry.cell) /\ Len(registry'.cell) \in Nat
      /\ Registered(registry') =
            Registered(added) \ (IF closes THEN {opened.popup} ELSE {})
  <2>1. CASE closes
    <3>1. registry' = Unregister(added, opened.popup)
      BY <1>5, <2>1
    <3>2. /\ registry' \in Registries(ComponentNames) /\ Distinct(registry')
          /\ Len(registry'.cell) = Len(added.cell)
          /\ Registered(registry') = Registered(added) \ {opened.popup}
      BY <1>4, <3>1, RemoveUnregisters
    <3> QED BY <1>1, <1>4, <2>1, <3>2
  <2>2. CASE ~closes
    BY <1>4, <1>5, <2>2
  <2> QED BY <2>1, <2>2
<1>7. TypeOK'
  BY <1>1, <1>2, <1>5, <1>6 DEF TypeOK
<1>8. EntriesDistinct'
  BY <1>6 DEF EntriesDistinct
<1>9. LoadingAlone'
  BY <1>2 DEF LoadingAlone
<1>14. Connected' = Connected
  <2>1. opened.popup # "NetworkComponent"
    BY <1>3 DEF Popups, NoPopup
  <2> QED BY <1>4, <1>6, <2>1 DEF Connected
<1>10. WatchedConnection'
  BY <1>2, <1>14 DEF ClientInv, WatchedConnection
<1>11. WatchingMonitor'
  BY <1>2, <1>4, <1>6 DEF ClientInv, WatchingMonitor
<1>12. MenuPointer'
  BY <1>2, <1>3, <1>4, <1>5, <1>6 DEF MenuPointer
<1>13. RequestsCounted'
  BY <1>2 DEF ClientInv, RequestsCounted
<1> QED BY <1>7, <1>8, <1>9, <1>10, <1>11, <1>12, <1>13, <1>14 DEF ClientInv

LEMMA EventsPreserve ==
    ASSUME ClientInv, Events
    PROVE  ClientInv'
<1> USE DEF loadVars, passVars, netVars
<1>1. TypeOK /\ RequestsCounted /\ LoadingAlone
  BY DEF ClientInv
<1>2. CASE MonitorDeaf
  <2>1. TypeOK' /\ RequestsCounted'
    BY <1>1, <1>2 DEF TypeOK, RequestsCounted, MonitorDeaf, Monitoring, eventVars
  <2>2. monitor.state # "absent" /\ pc' # "frame"
    BY <1>2 DEF MonitorDeaf, Monitoring
  <2> QED BY <1>2, <2>1, <2>2, QuietStep DEF MonitorDeaf
<1>3. CASE MonitorReset
  <2>1. resetsLeft' \in 0..ResetTimeout /\ monitor.state = "watching"
    BY <1>1, <1>3, ClientAssumption
    DEF ClientInv, WatchingMonitor, MonitorReset, TypeOK
  <2> QED BY <1>3, <2>1, AbortPreserves DEF MonitorReset
<1>4. CASE MonitorKick
  <2>1. resetsLeft' \in 0..ResetTimeout /\ monitor.state = "watching"
    BY <1>1, <1>4, ClientAssumption
    DEF ClientInv, WatchingMonitor, MonitorKick, CountResets, TypeOK
  <2> QED BY <1>4, <2>1, AbortPreserves DEF MonitorKick
<1>5. CASE MonitorPacket
  BY <1>5, PacketPreserves
<1>6. CASE Move
  <2>1. TypeOK' /\ RequestsCounted'
    BY <1>1, <1>6 DEF TypeOK, RequestsCounted, Move, Undefined, eventVars
  <2>2. monitor.state # "absent" /\ pc' # "frame"
    BY <1>1, <1>6 DEF LoadingAlone, Move
  <2> QED BY <1>6, <2>1, <2>2, QuietStep DEF Move
<1>7. CASE Menu
  BY <1>7, MenuPreserves
<1> QED BY <1>2, <1>3, <1>4, <1>5, <1>6, <1>7 DEF Events

\* A frame begins with a pass over the registry as it is then.
LEMMA FramePreserves ==
    ASSUME ClientInv, Frame
    PROVE  ClientInv'
<1> USE DEF loadVars, passVars, netVars, eventVars
<1>1. /\ TypeOK /\ registry \in Registries(ComponentNames) /\ Distinct(registry)
      /\ registry.size \in Nat
  BY DEF ClientInv, TypeOK, EntriesDistinct, Registries
<1>2. /\ registry' \in Registries(ComponentNames) /\ Distinct(registry')
      /\ Len(registry'.cell) = registry.size
      /\ Registered(registry') = Registered(registry)
  BY <1>1, SettledRegistry DEF Frame
<1>3. TypeOK'
  BY <1>1, <1>2 DEF TypeOK, Frame
<1>4. EntriesDistinct'
  BY <1>2 DEF EntriesDistinct
<1>5. LoadingAlone' /\ WatchedConnection' /\ WatchingMonitor'
  BY <1>2 DEF ClientInv, LoadingAlone, WatchedConnection, Connected,
              WatchingMonitor, Frame
<1>6. MenuPointer'
  BY <1>2 DEF ClientInv, MenuPointer, Frame
<1>7. RequestsCounted'
  BY DEF ClientInv, RequestsCounted, Frame
<1> QED BY <1>3, <1>4, <1>5, <1>6, <1>7 DEF ClientInv

-----------------------------------------------------------------------------
(* The theorems *)

LEMMA ClientInvInit ==
    ASSUME Init
    PROVE  ClientInv
<1> DEFINE names == <<"NetworkComponent", "LocalCameraComponent",
                      "LoadingScreenComponent">>
<1>1. /\ registry.cell = names /\ registry.size = 3 /\ Len(names) = 3
      /\ names \in Seq(ComponentNames)
  BY DEF Init, Registry, ComponentNames
<1>2. registry \in Registries(ComponentNames)
  <2>1. registry = [cell |-> names, size |-> 3]
    BY DEF Init, Registry
  <2>2. names \in Seq(ComponentNames) /\ Len(names) = 3
    BY <1>1
  <2> HIDE DEF names
  <2>3. registry \in [cell : Seq(ComponentNames), size : Nat]
    BY <2>1, <2>2
  <2>4. registry.size <= Len(registry.cell)
    BY <2>1, <2>2
  <2> HIDE DEF names
  <2> QED BY <2>3, <2>4 DEF Registries
<1>3. /\ Distinct(registry)
      /\ Registered(registry) = {"NetworkComponent", "LocalCameraComponent",
                                 "LoadingScreenComponent"}
  BY <1>1 DEF Distinct, Registered
<1>4. TypeOK
  <2>1. /\ passSize \in 0..Len(registry.cell) /\ cursor \in 1..(passSize + 1)
    BY <1>1 DEF Init
  <2>2. inbox \in Packets /\ netHash \in Int /\ reset \in BOOLEAN
    <3>1. NoPacket \in Packets
      <4>1. {} \in SUBSET {"ACCEPT", "KICK", "BAN", "STOP"} /\ 0 \in Int
        OBVIOUS
      <4> QED BY <4>1, Zenon DEF NoPacket, Packets
    <3>2. inbox = NoPacket /\ netHash = -1 /\ reset \in BOOLEAN
      BY DEF Init, InvalidHash
    <3>3. netHash \in Int
      BY <3>2
    <3> QED BY <3>1, <3>2, <3>3, Zenon
  <2>3. menu \in [popup : Popups \cup {NoPopup}, enabled : BOOLEAN,
                  timeout : -1..MenuTimeout]
    <3>1. /\ menu = [popup |-> NoPopup, enabled |-> FALSE, timeout |-> 0]
          /\ 0 \in -1..MenuTimeout
      BY ClientAssumption DEF Init
    <3> QED BY <3>1
  <2>4. /\ monitor \in [state : {"absent", "watching", "deaf"}, hash : Int,
                        publicHash : Int]
        /\ resetsLeft \in 0..ResetTimeout /\ tries \in 0..ConnectTimeout
    BY ClientAssumption DEF Init
  <2>5. /\ startLoad \in BOOLEAN /\ thread \in {"test", "send", "sleep", "done"}
        /\ late \in 0..2 /\ keys \in SUBSET Keys
        /\ pc \in {"components", "monitor", "move", "menu", "frame"}
        /\ process \in {"running", "exited", "died"}
    BY DEF Init
  <2> QED BY <1>2, <2>1, <2>2, <2>3, <2>4, <2>5 DEF TypeOK
<1>5. EntriesDistinct /\ WatchedConnection /\ RequestsCounted
  BY <1>3 DEF Init, EntriesDistinct, WatchedConnection, RequestsCounted
<1>6. LoadingAlone /\ WatchingMonitor
  BY <1>3, ClientAssumption DEF Init, LoadingAlone, WatchingMonitor
<1>7. MenuPointer
  BY <1>3 DEF Init, MenuPointer
<1> QED BY <1>4, <1>5, <1>6, <1>7 DEF ClientInv

LEMMA ClientInvStutter ==
    ASSUME ClientInv, UNCHANGED vars
    PROVE  ClientInv'
<1> USE DEF vars, loadVars, passVars, netVars, eventVars
<1>1. TypeOK' /\ EntriesDistinct' /\ LoadingAlone' /\ WatchedConnection'
  BY DEF ClientInv, TypeOK, EntriesDistinct, LoadingAlone, WatchedConnection,
         Connected
<1>2. WatchingMonitor' /\ MenuPointer' /\ RequestsCounted'
  BY DEF ClientInv, WatchingMonitor, MenuPointer, RequestsCounted
<1> QED BY <1>1, <1>2 DEF ClientInv

\* The invariant of the client holds in every reachable state, whatever the
\* server sends and whenever the threads run.
THEOREM ClientInvariance == Spec => []ClientInv
<1>1. ClientInv /\ [Next]_vars => ClientInv'
  BY PassPreserves, EventsPreserve, FramePreserves, ConnectPreserves,
     ClientInvStutter
  DEF Next, Main, Ended
<1> QED BY <1>1, ClientInvInit, PTL DEF Spec

\* Every variable of the client keeps its type.
THEOREM ClientTypeCorrectness == Spec => []TypeOK
<1>1. ClientInv => TypeOK
  BY DEF ClientInv
<1> QED BY <1>1, ClientInvariance, PTL

\* No component is registered twice, although popups are added in five places
\* and the monitor adds two of them again and again.
THEOREM NothingRegisteredTwice == Spec => []EntriesDistinct
<1>1. ClientInv => EntriesDistinct
  BY DEF ClientInv
<1> QED BY <1>1, ClientInvariance, PTL

\* A monitor that watches always has its connection.
THEOREM MonitorKeepsConnection == Spec => []WatchedConnection
<1>1. ClientInv => WatchedConnection
  BY DEF ClientInv
<1> QED BY <1>1, ClientInvariance, PTL

\* Between frames the leave menu and the registry agree about its popup.
THEOREM MenuNeverDangles == Spec => []MenuAgrees
<1>1. ClientInv => MenuAgrees
  BY DEF ClientInv, MenuPointer, MenuAgrees, NoPopup
<1> QED BY <1>1, ClientInvariance, PTL

\* At most one login request leaves after the loading screen has decided.
THEOREM OneLateRequest == Spec => []LastLoginRequest
<1>1. ClientInv => LastLoginRequest
  BY DEF ClientInv, TypeOK, RequestsCounted, LastLoginRequest
<1> QED BY <1>1, ClientInvariance, PTL

-----------------------------------------------------------------------------
(* The client implements ClientSession *)

LEMMA SessionInitially == Init => Session!SessionInit
<1> SUFFICES ASSUME Init
             PROVE  Session!SessionInit
  OBVIOUS
<1>1. /\ startLoad = TRUE /\ late = 0
      /\ registry = Registry(<<"NetworkComponent", "LocalCameraComponent",
                               "LoadingScreenComponent">>)
  BY DEF Init
<1>2. Registered(registry) = {"NetworkComponent", "LocalCameraComponent",
                              "LoadingScreenComponent"}
  BY <1>1 DEF Registered, Registry
<1>3. Connected = TRUE /\ Notice = FALSE
  BY <1>2 DEF Connected, Notice, Popups
<1> QED BY <1>1, <1>3 DEF Session!SessionInit, SessionPhase

\* A session stays in its phase, with its connection, its requests and its
\* notice, when nothing of the state they are read from changes.
LEMMA SessionStutter ==
    ASSUME UNCHANGED <<startLoad, monitor, late, registry>>
    PROVE  UNCHANGED Session!sessionVars
BY DEF Session!sessionVars, SessionPhase, Connected, Notice

\* The notice comes and goes with the popups while the session is in one phase.
LEMMA SessionNotice ==
    ASSUME UNCHANGED <<startLoad, monitor, late>>, ~startLoad,
           Connected' = Connected,
           monitor.state = "absent" => Notice' = FALSE \/ Notice' = Notice,
           monitor.state \in {"absent", "watching", "deaf"}
    PROVE  [Session!SessionNext]_(Session!sessionVars)
<1>1. SessionPhase' = SessionPhase
  BY DEF SessionPhase
<1>2. SessionPhase # "loading"
  BY DEF SessionPhase
<1>3. monitor.state # "absent" => SessionPhase \in {"playing", "over"}
  BY DEF SessionPhase
<1>4. Notice' \in BOOLEAN /\ Notice \in BOOLEAN
  BY DEF Notice
<1>5. CASE Notice' = FALSE
  BY <1>1, <1>2, <1>5 DEF Session!SessionNext, Session!Dismiss
<1>6. CASE Notice' = TRUE /\ monitor.state # "absent"
  BY <1>1, <1>3, <1>6 DEF Session!SessionNext, Session!Show
<1>7. CASE Notice' = Notice
  BY <1>1, <1>7 DEF Session!sessionVars
<1> QED BY <1>4, <1>5, <1>6, <1>7

\* The connect thread: a request after the decision is the only one.
LEMMA SessionConnect ==
    ASSUME ClientInv, ClientInv', Connect
    PROVE  [Session!SessionNext]_(Session!sessionVars)
<1>1. CASE ConnectLoop \/ ConnectSleep
  BY <1>1, SessionStutter DEF ConnectLoop, ConnectSleep, eventVars
<1>2. CASE ConnectSend
  <2>1. UNCHANGED <<startLoad, monitor, registry>>
    BY <1>2 DEF ConnectSend, eventVars
  <2>2. CASE late' = late
    BY <2>1, <2>2, SessionStutter
  <2>3. CASE late' # late
    <3>1. ~startLoad /\ late = 0 /\ late' = 1
      BY <1>2, <2>3 DEF ClientInv, TypeOK, RequestsCounted, ConnectSend
    <3>2. SessionPhase # "loading" /\ SessionPhase' = SessionPhase
      BY <2>1, <3>1 DEF SessionPhase, ClientInv, TypeOK
    <3>3. Connected' = Connected /\ Notice' = Notice
      BY <2>1 DEF Connected, Notice
    <3> QED BY <3>1, <3>2, <3>3 DEF Session!SessionNext, Session!Request
  <2> QED BY <2>2, <2>3
<1> QED BY <1>1, <1>2 DEF Connect

\* A loading screen that gives up refuses, with a popup and without connection.
LEMMA SessionRefused ==
    ASSUME ClientInv, Loading, NEW popup \in {"StopPopup", "TimeoutPopup"},
           GiveUp(popup), UNCHANGED eventVars
    PROVE  [Session!SessionNext]_(Session!sessionVars)
<1>1. /\ startLoad /\ ~startLoad' /\ late' = late /\ monitor' = monitor
      /\ monitor.state = "absent"
  BY DEF ClientInv, LoadingAlone, Loading, Visit, GiveUp, eventVars
<1>2. /\ popup \in ComponentNames /\ "NetworkComponent" \in ComponentNames
      /\ popup \notin Registered(registry) /\ popup \in Popups
      /\ registry \in Registries(ComponentNames) /\ Distinct(registry)
  BY <1>1 DEF ClientInv, LoadingAlone, ComponentNames, Popups, TypeOK,
              EntriesDistinct
<1>3. Registered(registry') =
         (Registered(registry) \cup {popup}) \ {"NetworkComponent"}
  BY <1>2, AddRemove DEF GiveUp
<1>4. Connected' = FALSE /\ Notice' = TRUE
  BY <1>2, <1>3 DEF Connected, Notice
<1>5. SessionPhase = "loading" /\ SessionPhase' = "refused"
  BY <1>1 DEF SessionPhase
<1> QED BY <1>1, <1>4, <1>5 DEF Session!SessionNext, Session!Refuse

\* The pass over the components.
LEMMA SessionPass ==
    ASSUME ClientInv, ClientInv', Pass
    PROVE  [Session!SessionNext]_(Session!sessionVars)
<1> USE DEF loadVars, netVars, eventVars, passVars
<1>1. CASE VisitSender \/ VisitReader \/ VisitFreed \/ EndPass
  BY <1>1, SessionStutter DEF VisitSender, VisitReader, VisitFreed, EndPass, Visit
<1>2. ASSUME NEW c \in Popups, VisitPopup(c)
      PROVE  [Session!SessionNext]_(Session!sessionVars)
  <2>1. /\ UNCHANGED <<startLoad, monitor, late>>
        /\ c \in Registered(registry) /\ c \in ComponentNames
        /\ monitor.state \in {"absent", "watching", "deaf"}
    BY <1>2 DEF VisitPopup, Visit, ComponentNames, ClientInv, TypeOK
  <2>2. ~startLoad
    BY <2>1 DEF ClientInv, LoadingAlone, Popups
  <2>3. /\ Registered(registry') \subseteq Registered(registry)
        /\ "NetworkComponent" \in Registered(registry) =>
              "NetworkComponent" \in Registered(registry')
    BY <1>2, <2>1, RegistrySteps DEF VisitPopup, Popups
  <2>4. Connected' = Connected /\ (Notice' = FALSE \/ Notice' = Notice)
    BY <2>3 DEF Connected, Notice
  <2> QED BY <2>1, <2>2, <2>4, SessionNotice
<1>3. CASE LoadingDone \/ LoadingNothing
  BY <1>3, SessionStutter DEF LoadingDone, LoadingNothing, Loading, Visit
<1>4. ASSUME NEW p \in ServerPackets, LoadingBanned(p)
      PROVE  [Session!SessionNext]_(Session!sessionVars)
  BY <1>4, SessionRefused DEF LoadingBanned
<1>5. ASSUME NEW p \in ServerPackets, LoadingAccepted(p)
      PROVE  [Session!SessionNext]_(Session!sessionVars)
  <2>1. /\ startLoad /\ ~startLoad' /\ late' = late /\ Connected
        /\ monitor'.state = "watching"
    BY <1>5 DEF LoadingAccepted, Loading, Visit
  <2>2. Connected'
    BY <2>1 DEF ClientInv, WatchedConnection
  <2>3. Notice' = FALSE
    BY <1>5, AcceptedPreserves DEF Notice
  <2>4. Notice = FALSE
    BY <2>1 DEF ClientInv, LoadingAlone, Notice, Popups
  <2>5. SessionPhase = "loading" /\ SessionPhase' = "playing"
    BY <2>1 DEF SessionPhase
  <2>6. Connected' = Connected
    BY <2>1, <2>2 DEF Connected
  <2> QED BY <2>1, <2>3, <2>4, <2>5, <2>6 DEF Session!SessionNext, Session!Accept
<1>6. ASSUME NEW p \in ServerPackets, LoadingOther(p)
      PROVE  [Session!SessionNext]_(Session!sessionVars)
  <2>1. CASE tries >= ConnectTimeout
    BY <1>6, <2>1, SessionRefused DEF LoadingOther
  <2>2. CASE ~(tries >= ConnectTimeout)
    BY <1>6, <2>2, SessionStutter DEF LoadingOther, Loading, Visit
  <2> QED BY <2>1, <2>2
<1> QED BY <1>1, <1>2, <1>3, <1>4, <1>5, <1>6 DEF Pass, Load, LoadingReads

\* An abort ends the session, with a popup.
LEMMA SessionAborted ==
    ASSUME ClientInv, monitor.state = "watching",
           NEW popup \in {"ResetPopup", "KickPopup"}, Abort(popup),
           UNCHANGED <<startLoad, late>>
    PROVE  [Session!SessionNext]_(Session!sessionVars)
<1>1. ~startLoad /\ monitor'.state = "deaf"
  BY DEF ClientInv, LoadingAlone, Abort, TypeOK
<1>2. /\ popup \in ComponentNames /\ "NetworkComponent" \in ComponentNames
      /\ popup \notin Registered(registry) /\ popup \in Popups
      /\ registry \in Registries(ComponentNames) /\ Distinct(registry)
  BY DEF ClientInv, WatchingMonitor, ComponentNames, Popups, TypeOK, EntriesDistinct
<1>3. Registered(registry') =
         (Registered(registry) \cup {popup}) \ {"NetworkComponent"}
  BY <1>2, AddRemove DEF Abort
<1>4. Connected' \in BOOLEAN /\ Notice' = TRUE
  BY <1>2, <1>3 DEF Connected, Notice, Popups
<1>5. SessionPhase = "playing" /\ SessionPhase' = "over"
  BY <1>1 DEF SessionPhase
<1> QED BY <1>4, <1>5 DEF Session!SessionNext, Session!End

\* The events.
LEMMA SessionEvents ==
    ASSUME ClientInv, ClientInv', Events
    PROVE  [Session!SessionNext]_(Session!sessionVars)
<1> USE DEF loadVars, netVars, eventVars, passVars
<1>1. CASE MonitorDeaf \/ Move
  BY <1>1, SessionStutter DEF MonitorDeaf, Move
<1>2. CASE MonitorReset
  BY <1>2, SessionAborted DEF MonitorReset
<1>3. CASE MonitorKick
  BY <1>3, SessionAborted DEF MonitorKick
<1>4. CASE MonitorPacket
  <2>1. /\ UNCHANGED <<startLoad, late>> /\ monitor.state = "watching"
        /\ ~startLoad
    BY <1>4 DEF MonitorPacket, ClientInv, LoadingAlone
  <2>2. /\ Registered(registry) \subseteq Registered(registry')
        /\ Registered(registry') \subseteq
              Registered(registry) \cup {"BanPopup", "ConnShutdown"}
        /\ monitor' # monitor => "ConnShutdown" \in Registered(registry')
    BY <1>4, PacketPreserves
  <2>3. Connected' = Connected
    BY <2>2 DEF Connected
  <2>4. CASE monitor' = monitor
    BY <2>1, <2>3, <2>4, SessionNotice
  <2>5. CASE monitor' # monitor
    <3>1. monitor'.state = "deaf"
      BY <1>4, <2>1, <2>5 DEF MonitorPacket, ClientInv, TypeOK
    <3>2. SessionPhase = "playing" /\ SessionPhase' = "over"
      BY <2>1, <3>1 DEF SessionPhase
    <3>3. Notice' = TRUE /\ Connected' \in BOOLEAN
      BY <2>2, <2>5 DEF Notice, Popups, Connected
    <3> QED BY <2>1, <3>2, <3>3 DEF Session!SessionNext, Session!End
  <2> QED BY <2>4, <2>5
<1>5. CASE Menu
  <2>1. /\ UNCHANGED <<startLoad, late, monitor>> /\ ~startLoad
        /\ monitor.state \in {"watching", "deaf"}
    BY <1>5 DEF Menu, ClientInv, LoadingAlone, TypeOK
  <2> QED BY <1>5, <2>1, MenuPreserves, SessionNotice
<1> QED BY <1>1, <1>2, <1>3, <1>4, <1>5 DEF Events

\* Every step of the client is one of the session, or none.
LEMMA SessionStep ==
    ASSUME ClientInv, ClientInv', [Next]_vars
    PROVE  [Session!SessionNext]_(Session!sessionVars)
<1>1. CASE Frame
  <2>1. UNCHANGED <<startLoad, late, monitor>>
    BY <1>1 DEF Frame, loadVars, eventVars
  <2>2. Registered(registry') = Registered(registry)
    BY <1>1, SettledRegistry DEF Frame, ClientInv, TypeOK, EntriesDistinct
  <2> QED BY <2>1, <2>2 DEF Session!sessionVars, SessionPhase, Connected, Notice
<1>2. CASE Ended \/ UNCHANGED vars
  BY <1>2, SessionStutter DEF Ended, vars, loadVars, eventVars
<1> QED BY <1>1, <1>2, SessionPass, SessionEvents, SessionConnect DEF Next, Main

\* The client implements ClientSession: one decision, one end that is never
\* silent, no connection regained or lost on the way, and one late request.
THEOREM ImplementsSession == Spec => SessionSpec
<1>1. ClientInv /\ ClientInv' /\ [Next]_vars
         => [Session!SessionNext]_(Session!sessionVars)
  BY SessionStep
<1> QED BY SessionInitially, <1>1, ClientInvariance, PTL
        DEF Spec, SessionSpec, Session!SessionSpec

\* The promise of ClientSession, carried over to the client: whatever is removed
\* under it, a session that is loading or played is connected, a refused one is
\* not, nothing that has ended begins again, and no connection comes back.
THEOREM SessionsAreDecidedOnce ==
    Spec => []Session!SessionSound /\ Session!SessionFinal
<1> USE DEF Session!sessionVars
<1>1. Session!SessionInit => Session!SessionSound
    BY DEF Session!SessionInit, Session!SessionSound
<1>2. Session!SessionSound /\ [Session!SessionNext]_(Session!sessionVars)
         => Session!SessionSound'
    BY DEF Session!SessionSound, Session!SessionNext, Session!Refuse,
           Session!Accept, Session!End, Session!Request, Session!Show,
           Session!Dismiss
<1>3. Session!SessionSound /\ [Session!SessionNext]_(Session!sessionVars)
         => [/\ SessionPhase \in {"refused", "over"} => SessionPhase' = SessionPhase
             /\ ~Connected => ~Connected']_(Session!sessionVars)
    BY DEF Session!SessionSound, Session!SessionNext, Session!Refuse,
           Session!Accept, Session!End, Session!Request, Session!Show,
           Session!Dismiss
<1> QED
    BY <1>1, <1>2, <1>3, ImplementsSession, PTL
       DEF SessionSpec, Session!SessionSpec, Session!SessionFinal

=============================================================================
