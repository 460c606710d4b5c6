------------------------------- MODULE MCEngine -------------------------------
(***************************************************************************)
(* The engine's own libraries for TLC, each on a small instance.  They do  *)
(* not call each other, so a behaviour runs one of them, its subject.      *)
(***************************************************************************)
EXTENDS SceneSystem, SystemUpdate, PhysicsNodes, AssetDownload, TargaImage,
        Archive, TLC

VARIABLE subject

Subjects == {"scene", "update", "physics", "download", "targa", "archive"}

engineVars == <<subject, sceneVars, updateVars, physicsVars, downloadVars,
                targaVars, archiveVars>>

EngineInit ==
    /\ subject \in Subjects
    /\ SceneInit
    /\ UpdateInit /\ (subject # "update" => loopOver = "systems")
    /\ PhysicsInit
    /\ DownloadInit
    /\ TargaInit /\ (subject # "targa" => width = 1 /\ height = 1)
    /\ ArchiveInit

EngineNext ==
    /\ UNCHANGED subject
    /\ IF subject = "scene"    THEN SceneNext    ELSE UNCHANGED sceneVars
    /\ IF subject = "update"   THEN UpdateNext   ELSE UNCHANGED updateVars
    /\ IF subject = "physics"  THEN PhysicsNext  ELSE UNCHANGED physicsVars
    /\ IF subject = "download" THEN DownloadNext ELSE UNCHANGED downloadVars
    /\ IF subject = "targa"    THEN TargaNext    ELSE UNCHANGED targaVars
    /\ IF subject = "archive"  THEN ArchiveNext  ELSE UNCHANGED archiveVars

EngineSpec == EngineInit /\ [][EngineNext]_engineVars

EngineInv ==
    /\ SceneInv /\ LoopInv /\ PhysicsInv /\ DownloadInv /\ TargaInv /\ ArchiveInv

=============================================================================
