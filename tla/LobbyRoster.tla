----------------------------- MODULE LobbyRoster -----------------------------
(***************************************************************************)
(* What the lobby server promises about its players, without packets,      *)
(* statuses, timeouts or a main loop.                                      *)
(*                                                                         *)
(* The server owns a fixed set of characters and a fixed set of peer       *)
(* slots.  A login seats one slot at one free character and gives the slot *)
(* a badge (the private hash that later authenticates a departure); a      *)
(* logoff takes character and badge back together.  Nothing else ever      *)
(* happens: no slot is seated twice, no character changes hands without a  *)
(* logoff in between, a badge does not change while its owner is seated,   *)
(* and only one player enters or leaves at a time.                         *)
(***************************************************************************)

CONSTANTS
    Characters,   \* the character components LoginEvent preallocates
    Slots,        \* the NetworkPeer slots the server preallocates
    Badges,       \* the hashes a login may hand out
    NoPeer,       \* a character whose mPeer is nullptr
    NoBadge       \* XPLICIT_INVALID_HASH

VARIABLES
    seat,         \* seat[c]: the slot character c is bound to, or NoPeer
    badge         \* badge[s]: the private hash of slot s, or NoBadge

rosterVars == <<seat, badge>>

Free(c) == seat[c] = NoPeer

SeatedAt(s) == {c \in Characters : seat[c] = s}

RosterInit ==
    /\ seat = [c \in Characters |-> NoPeer]
    /\ badge = [s \in Slots |-> NoBadge]

Login(c, s, b) ==
    /\ Free(c)
    /\ SeatedAt(s) = {}
    /\ badge[s] = NoBadge
    /\ seat' = [seat EXCEPT ![c] = s]
    /\ badge' = [badge EXCEPT ![s] = b]

Logoff(c) ==
    /\ ~Free(c)
    /\ seat' = [seat EXCEPT ![c] = NoPeer]
    /\ badge' = [badge EXCEPT ![seat[c]] = NoBadge]

RosterNext ==
    \/ \E c \in Characters, s \in Slots, b \in Badges : Login(c, s, b)
    \/ \E c \in Characters : Logoff(c)

RosterSpec == RosterInit /\ [][RosterNext]_rosterVars

=============================================================================
