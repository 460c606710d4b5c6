----------------------- MODULE EngineCompositionProofs ------------------------
(***************************************************************************)
(* The engine's libraries together.  They share no state: a step of the    *)
(* composition is a step of each component or leaves it alone, so each     *)
(* component keeps its own specification and with it all that is proved    *)
(* about it.                                                               *)
(***************************************************************************)
EXTENDS MCEngine, EngineProofs, TargaImageProofs, ArchiveProofs

\* Whatever the subject, a step of the engine is one that each of the
\* libraries may take.
LEMMA EngineStepIsEachOnes ==
    ASSUME [EngineNext]_engineVars
    PROVE  /\ [SceneNext]_sceneVars
           /\ [UpdateNext]_updateVars
           /\ [PhysicsNext]_physicsVars
           /\ [DownloadNext]_downloadVars
           /\ [TargaNext]_targaVars
           /\ [ArchiveNext]_archiveVars
<1>1. CASE EngineNext
    BY <1>1 DEF EngineNext
<1>2. CASE UNCHANGED engineVars
    BY <1>2 DEF engineVars
<1> QED
    BY <1>1, <1>2

\* Composed with the others, every library still behaves as specified.
LEMMA EngineKeepsItsParts ==
    EngineSpec => /\ SceneSpec
                  /\ UpdateSpec
                  /\ PhysicsSpec
                  /\ DownloadSpec
                  /\ TargaSpec
                  /\ ArchiveSpec
<1>1. EngineInit => /\ SceneInit
                    /\ UpdateInit
                    /\ PhysicsInit
                    /\ DownloadInit
                    /\ TargaInit
                    /\ ArchiveInit
    BY DEF EngineInit
<1>2. [EngineNext]_engineVars => /\ [SceneNext]_sceneVars
                                 /\ [UpdateNext]_updateVars
                                 /\ [PhysicsNext]_physicsVars
                                                       /\ [DownloadNext]_downloadVars
                                 /\ [TargaNext]_targaVars
                                 /\ [ArchiveNext]_archiveVars
    BY EngineStepIsEachOnes
<1> QED
    BY <1>1, <1>2, PTL DEF EngineSpec, SceneSpec, UpdateSpec, PhysicsSpec,
                           DownloadSpec, TargaSpec, ArchiveSpec

\* The inductive invariants of all the libraries hold together, for scenes,
\* registries, worlds, responses, images and archives of any size.
THEOREM EngineInvariance == EngineSpec => []EngineInv
<1>1. EngineSpec => []SceneInv
    BY EngineKeepsItsParts, SceneInvariance, PTL
<1>2. EngineSpec => []LoopInv
    BY EngineKeepsItsParts, LoopInvariance, PTL
<1>3. EngineSpec => []PhysicsInv
    BY EngineKeepsItsParts, PhysicsInvariance, PTL
<1>4. EngineSpec => []DownloadInv
    BY EngineKeepsItsParts, DownloadInvariance, PTL
<1>5. EngineSpec => []TargaInv
    BY EngineKeepsItsParts, TargaInvariance, PTL
<1>6. EngineSpec => []ArchiveInv
    BY EngineKeepsItsParts, ArchiveInvariance, PTL
<1> QED
    BY <1>1, <1>2, <1>3, <1>4, <1>5, <1>6, PTL DEF EngineInv

=============================================================================
