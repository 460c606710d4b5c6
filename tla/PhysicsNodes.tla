---------------------------- MODULE PhysicsNodes ------------------------------
(***************************************************************************)
(* NpPhysicsEvent: the nodes of the world, the PhysX actor each node has   *)
(* as its delegate, and the detached threads that release the actors of    *)
(* removed nodes.                                                          *)
(*                                                                         *)
(* The main thread inserts and removes nodes between two frames and runs   *)
(* a frame as two loops over the nodes with the simulation between them.   *)
(* A release thread waits until its actor can be released and may run at   *)
(* any time, the simulation included.  The actors, their memory and when   *)
(* they can be released are PhysX's; it is not in the repository.          *)
(***************************************************************************)
EXTENDS Naturals, SequencesExt

CONSTANTS
    Nodes,        \* the XPXAttribute objects
    Actors,       \* the rigid bodies PhysX has room for
    NoActor,      \* a null delegate
    MaxWorld      \* bound on the length of mWorldNodes

ASSUME PhysicsAssumption == NoActor \notin Actors /\ MaxWorld \in Nat

VARIABLES
    worldNodes,   \* mWorldNodes
    delegate,     \* f_PhysicsDelegate of each node
    actor,        \* what became of each actor
    lost,         \* the actors that lost their node without a release thread
    frame         \* what the main thread is doing

physicsVars == <<worldNodes, delegate, actor, lost, frame>>

ActorStates == {"free", "scene", "releasing"}
FrameSteps  == {"between", "simulating"}

InWorld(n) == \E k \in DOMAIN worldNodes : worldNodes[k] = n

-----------------------------------------------------------------------------
(* NpPhysicsEvent::insert_node and remove_node *)

\* A node that is inserted again gets a second actor and forgets its first.
Forgotten(n) == {delegate[n]} \ {NoActor}

InsertNode(n, a) ==
    /\ frame = "between"
    /\ actor[a] = "free"
    /\ Len(worldNodes) < MaxWorld
    /\ delegate' = [delegate EXCEPT ![n] = a]
    /\ actor' = [actor EXCEPT ![a] = "scene"]
    /\ lost' = lost \cup Forgotten(n)
    /\ worldNodes' = Append(worldNodes, n)
    /\ UNCHANGED frame

\* PhysX gives no actor, because it has none or for a reason of its own.
InsertFails(n) ==
    /\ frame = "between"
    /\ delegate' = [delegate EXCEPT ![n] = NoActor]
    /\ lost' = lost \cup Forgotten(n)
    /\ UNCHANGED <<worldNodes, actor, frame>>

DelegateKept(n) == delegate

DelegateCleared(n) == [delegate EXCEPT ![n] = NoActor]

FirstPlace(n) ==
    CHOOSE k \in DOMAIN worldNodes :
        worldNodes[k] = n /\ \A j \in 1..(k - 1) : worldNodes[j] # n

ReleaseForgotten(n) == actor

ReleaseStarted(n) ==
    IF delegate[n] = NoActor THEN actor
    ELSE [actor EXCEPT ![delegate[n]] = "releasing"]

RemoveNode(n) ==
    /\ frame = "between"
    /\ InWorld(n)
    /\ delegate' = DelegateCleared(n)
    /\ actor' = ReleaseStarted(n)
    /\ worldNodes' = RemoveAt(worldNodes, FirstPlace(n))
    /\ UNCHANGED <<lost, frame>>

\* The detached thread, when isReleasable says so.
Release(a) ==
    /\ actor[a] = "releasing"
    /\ actor' = [actor EXCEPT ![a] = "free"]
    /\ UNCHANGED <<worldNodes, delegate, lost, frame>>

-----------------------------------------------------------------------------
(* NpPhysicsEvent::operator() *)

\* The first loop gives up the delegates that are not heap pointers: all those
\* of a debug build that allocates elsewhere, none in a release build.
BeginFrame(invalid) ==
    /\ frame = "between"
    /\ \A n \in invalid : InWorld(n) /\ delegate[n] # NoActor
    /\ delegate' = [n \in Nodes |-> IF n \in invalid THEN NoActor ELSE delegate[n]]
    /\ lost' = lost \cup {delegate[n] : n \in invalid}
    /\ frame' = "simulating"
    /\ UNCHANGED <<worldNodes, actor>>

\* fetchResults, and the positions of all delegates go to the clients.
EndFrame ==
    /\ frame = "simulating"
    /\ frame' = "between"
    /\ UNCHANGED <<worldNodes, delegate, actor, lost>>

-----------------------------------------------------------------------------
(* The specification *)

PhysicsInit ==
    /\ worldNodes = <<>>
    /\ delegate = [n \in Nodes |-> NoActor]
    /\ actor = [a \in Actors |-> "free"]
    /\ lost = {}
    /\ frame = "between"

PhysicsNext ==
    \/ \E n \in Nodes : InsertFails(n) \/ RemoveNode(n)
    \/ \E n \in Nodes, a \in Actors : InsertNode(n, a)
    \/ \E invalid \in SUBSET Nodes : BeginFrame(invalid)
    \/ EndFrame
    \/ \E a \in Actors : Release(a)

PhysicsSpec == PhysicsInit /\ [][PhysicsNext]_physicsVars

-----------------------------------------------------------------------------
(* Properties *)

PhysicsTypeOK ==
    /\ worldNodes \in Seq(Nodes)
    /\ delegate \in [Nodes -> Actors \cup {NoActor}]
    /\ actor \in [Actors -> ActorStates]
    /\ lost \subseteq Actors
    /\ frame \in FrameSteps

\* The delegates a frame pushes and whose positions it sends are in the scene:
\* none is an actor that a release thread is about to free or has freed.
DelegatesInScene == \A n \in Nodes : delegate[n] # NoActor => actor[delegate[n]] = "scene"

\* No two nodes share an actor, so none is released twice.
ActorsNotShared ==
    \A m, n \in Nodes : delegate[m] = delegate[n] /\ delegate[m] # NoActor => m = n

\* An actor stays in the scene without a node only if its node was inserted
\* again, or if a frame took its address for no heap pointer; whatever remove_node
\* takes away is left to a release thread.
SceneAccounted ==
    \A a \in Actors :
        actor[a] = "scene" <=> (a \in lost \/ \E n \in Nodes : delegate[n] = a)

\* A node that has a delegate is in the world: every frame updates it and
\* remove_node finds it.
DelegatesInWorld == \A n \in Nodes : delegate[n] # NoActor => InWorld(n)

\* The inductive invariant; an actor that was lost is no node's again.
LostForGood == \A n \in Nodes : delegate[n] \notin lost

PhysicsInv ==
    /\ PhysicsTypeOK
    /\ DelegatesInScene
    /\ ActorsNotShared
    /\ SceneAccounted
    /\ DelegatesInWorld
    /\ LostForGood

=============================================================================
