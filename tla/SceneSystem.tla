----------------------------- MODULE SceneSystem ------------------------------
(***************************************************************************)
(* SceneSystem, the registry of the nodes a scene file is made of.         *)
(*                                                                         *)
(* A node is found and removed by its identifier, and identifiers are      *)
(* drawn from a counter that every removal takes one back from.  A loader  *)
(* registers each node as it reads it and the identifiers are given when   *)
(* the whole file is read, so a load that throws half-way leaves nodes     *)
(* behind that still have the identifier of a new component, 0.            *)
(***************************************************************************)
EXTENDS Integers, SequencesExt

CONSTANTS
    MaxNodes,     \* bound on the nodes of a scene
    SceneIdLimit  \* 2^64, the identifiers a size_t has

ASSUME SceneAssumption ==
    /\ MaxNodes \in Nat
    /\ SceneIdLimit \in Nat
    /\ MaxNodes < SceneIdLimit

VARIABLES
    nodeIds,        \* f_iSceneId of each component of m_system, in its order
    sceneCounter,   \* m_scene_counter
    abandoned,      \* how many nodes failed loads have left behind so far
    disordered      \* whether a node other than the newest was ever removed

sceneVars == <<nodeIds, sceneCounter, abandoned, disordered>>

SceneIds == 0..(SceneIdLimit - 1)

\* BaseRenderableComponent::f_iSceneId of a component nobody has numbered.
UnnumberedId == 0

\* std::find_if: the first node with an identifier, in a sequence that has one.
FirstWith(ids, id) ==
    CHOOSE k \in DOMAIN ids : ids[k] = id /\ \A j \in 1..(k - 1) : ids[j] # id

-----------------------------------------------------------------------------
(* SceneSystem::add_scene_node and SceneLoaderXSD::from_disk *)

\* The identifiers the k nodes of a file are given.
NumberedFromOne(k) == [j \in 1..k |-> (sceneCounter + j) % SceneIdLimit]

Numbered(k) == [j \in 1..k |-> (sceneCounter + j - 1) % SceneIdLimit]

AddSceneNode(k) ==
    /\ Len(nodeIds) + k <= MaxNodes
    /\ nodeIds' = nodeIds \o Numbered(k)
    /\ sceneCounter' = (sceneCounter + k) % SceneIdLimit
    /\ UNCHANGED <<abandoned, disordered>>

\* ThrowIfFailed on a mesh that does not load, behind k that did.
AddThrows(k) ==
    /\ Len(nodeIds) + k <= MaxNodes
    /\ abandoned + k <= MaxNodes
    /\ nodeIds' = nodeIds \o [j \in 1..k |-> UnnumberedId]
    /\ abandoned' = abandoned + k
    /\ UNCHANGED <<sceneCounter, disordered>>

-----------------------------------------------------------------------------
(* SceneSystem::remove_scene_node *)

CounterKept == sceneCounter

CounterAfterRemove == (sceneCounter - 1) % SceneIdLimit

\* Without a node of that identifier nothing happens.
RemoveSceneNode(id) ==
    /\ id \in {nodeIds[k] : k \in DOMAIN nodeIds}
    /\ nodeIds' = RemoveAt(nodeIds, FirstWith(nodeIds, id))
    /\ sceneCounter' = CounterAfterRemove
    /\ disordered' = (disordered \/ FirstWith(nodeIds, id) # Len(nodeIds))
    /\ UNCHANGED abandoned

-----------------------------------------------------------------------------
(* The specification *)

SceneInit ==
    /\ nodeIds = <<>>
    /\ sceneCounter = 0
    /\ abandoned = 0
    /\ disordered = FALSE

SceneNext ==
    \/ \E k \in 1..MaxNodes : AddSceneNode(k) \/ AddThrows(k)
    \/ \E id \in SceneIds : RemoveSceneNode(id)

SceneSpec == SceneInit /\ [][SceneNext]_sceneVars

-----------------------------------------------------------------------------
(* Properties *)

SceneTypeOK ==
    /\ nodeIds \in Seq(SceneIds)
    /\ Len(nodeIds) <= MaxNodes
    /\ sceneCounter \in SceneIds
    /\ abandoned \in 0..MaxNodes
    /\ disordered \in BOOLEAN

\* The counter is the number of nodes less those that failed loads have ever
\* left behind, and it is below zero, a huge identifier, when those are removed
\* like any other (SceneSystem.cpp:44).
CounterCountsNodes ==
    sceneCounter = (Len(nodeIds) - abandoned) % SceneIdLimit

\* As long as every load succeeds and every removal takes the newest node away,
\* the k-th node has the identifier k - 1: no two share one, and the identifier
\* that add_scene_node returned finds the node that it was returned for.
IdentifiersInOrder ==
    abandoned = 0 /\ ~disordered =>
        \A k \in DOMAIN nodeIds : nodeIds[k] = k - 1

\* The inductive invariant.
SceneInv == SceneTypeOK /\ CounterCountsNodes /\ IdentifiersInOrder

=============================================================================
