---------------------------- MODULE ClientSession ----------------------------
(***************************************************************************)
(* What the client promises about a session, without frames, components,   *)
(* packets or a connect thread.                                            *)
(*                                                                         *)
(* A session is loading until it is decided, and it is decided once: it is *)
(* refused, and then it has lost its connection and says so, or it is      *)
(* played on the connection it was accepted on.  A session that is played  *)
(* ends at most once, never without a notice on the screen, and only in    *)
(* that step may it give up its connection.  No session comes back to life *)
(* or gets a connection again, a refused one shows nothing new, and at     *)
(* most one login request leaves after the decision.                       *)
(***************************************************************************)
EXTENDS Naturals

VARIABLES
    phase,        \* "loading", "refused", "playing" or "over"
    connected,    \* whether there is a connection
    requests,     \* login requests sent after the decision
    notice        \* whether a popup is on the screen

sessionVars == <<phase, connected, requests, notice>>

SessionInit ==
    /\ phase = "loading"
    /\ connected = TRUE
    /\ requests = 0
    /\ notice = FALSE

Refuse ==
    /\ phase = "loading"
    /\ phase' = "refused"
    /\ connected' = FALSE
    /\ notice' = TRUE
    /\ UNCHANGED requests

Accept ==
    /\ phase = "loading"
    /\ connected
    /\ phase' = "playing"
    /\ UNCHANGED <<connected, requests, notice>>

End ==
    /\ phase = "playing"
    /\ phase' = "over"
    /\ connected' \in BOOLEAN
    /\ notice' = TRUE
    /\ UNCHANGED requests

Request ==
    /\ phase # "loading"
    /\ requests = 0
    /\ requests' = 1
    /\ UNCHANGED <<phase, connected, notice>>

Show ==
    /\ phase \in {"playing", "over"}
    /\ notice' = TRUE
    /\ UNCHANGED <<phase, connected, requests>>

Dismiss ==
    /\ phase # "loading"
    /\ notice' = FALSE
    /\ UNCHANGED <<phase, connected, requests>>

SessionNext == Refuse \/ Accept \/ End \/ Request \/ Show \/ Dismiss

SessionSpec == SessionInit /\ [][SessionNext]_sessionVars

-----------------------------------------------------------------------------
(* What follows from it *)

\* A session that is loading or played has its connection and a refused one has
\* not; nothing is shown and no request is late before the decision, and no more
\* than one is after it.
SessionSound ==
    /\ phase \in {"loading", "playing"} => connected
    /\ phase = "refused" => ~connected
    /\ phase = "loading" => requests = 0 /\ ~notice
    /\ requests \in {0, 1}

\* What is refused or over stays so, and a connection that is gone stays gone.
SessionFinal ==
    [][/\ phase \in {"refused", "over"} => phase' = phase
       /\ ~connected => ~connected']_sessionVars

=============================================================================
