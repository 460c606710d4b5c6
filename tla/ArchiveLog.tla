------------------------------ MODULE ArchiveLog -------------------------------
(***************************************************************************)
(* What an archive promises the one caller it can be used by as a log: one *)
(* who puts records of one byte behind the header and never seeks back.    *)
(*                                                                         *)
(* A record may be lost until the next one is begun or the file is synced  *)
(* or closed.  From then on it is in the file, whatever happens to the     *)
(* process, until the file is made anew; a crash never leaves a later      *)
(* record without an earlier one.  A caller who uses the archive in any    *)
(* other way is promised nothing about this file any more.                 *)
(***************************************************************************)
EXTENDS Naturals

VARIABLES
    sound,        \* the caller has used this file as a log
    open,         \* the file is being written
    begun,        \* the records that were begun, 0 when it is no log
    kept          \* how many of them, from the first on, are in the file

logVars == <<sound, open, begun, kept>>

LogInit == sound = TRUE /\ open = FALSE /\ begun = 0 /\ kept = 0

Create ==
    /\ ~open
    /\ sound' = TRUE
    /\ open' = TRUE
    /\ begun' = 0
    /\ kept' = 0

Begin ==
    /\ open /\ sound
    /\ begun' = begun + 1
    /\ kept' \in {begun, begun + 1}
    /\ UNCHANGED <<sound, open>>

Sync ==
    /\ open
    /\ kept' = begun
    /\ UNCHANGED <<sound, open, begun>>

Stop ==
    /\ open
    /\ open' = FALSE
    /\ kept' = begun
    /\ UNCHANGED <<sound, begun>>

Die ==
    /\ open
    /\ open' = FALSE
    /\ kept' \in {kept, begun}
    /\ UNCHANGED <<sound, begun>>

Misuse ==
    /\ open
    /\ sound' = FALSE
    /\ begun' = 0
    /\ kept' = 0
    /\ UNCHANGED open

LogNext == Create \/ Begin \/ Sync \/ Stop \/ Die \/ Misuse

LogSpec == LogInit /\ [][LogNext]_logVars

=============================================================================
