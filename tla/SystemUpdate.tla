----------------------------- MODULE SystemUpdate -----------------------------
(***************************************************************************)
(* The three loops of the engine that call what is registered with them:   *)
(* ComponentSystem::update, EventSystem::update, and the listeners in      *)
(* Event::update.                                                          *)
(*                                                                         *)
(* What a loop calls may register and remove components, events and        *)
(* listeners.  The two systems go on to the size they read before the      *)
(* first call, the loop over the listeners reads the size every time.      *)
(* Registries are those of ComponentSystem: a loop that goes past the end  *)
(* reads what the vector held there before.                                *)
(***************************************************************************)
EXTENDS ComponentSystem, FiniteSets

CONSTANTS
    Entries,      \* names for what is registered
    MaxCells,     \* bound on the size of a registry
    MaxRemovals   \* bound on the removals during one loop

ASSUME UpdateAssumption == MaxCells \in Nat /\ MaxRemovals \in Nat \ {0}

VARIABLES
    loopOver,     \* "systems" or "listeners": which loop it is
    entries,      \* mComponents, mEvents or mListeners
    at,           \* the loop's index, 0 outside the loop
    until,        \* the size the loop read before it began
    begun,        \* the registry at that moment
    called,       \* what the loop called so far, in order
    pastEnd,      \* how many of those calls were behind the end
    removals      \* how many entries were removed since the loop began

walkVars == <<at, until, begun, called, pastEnd>>
updateVars == <<loopOver, entries, walkVars, removals>>

LoopsOver == {"systems", "listeners"}

Outside == at = 0

-----------------------------------------------------------------------------
(* add and remove, from inside the loop or outside of it *)

Cells(r) == {r.cell[k] : k \in DOMAIN r.cell}

\* Components and events are new objects, and a name the loop knows stands for
\* the object it had then.
Unused == Entries \ (Cells(entries) \cup Cells(begun))

\* Event::add takes any listener, one that is registered and one that was removed.
AddEntry(x) ==
    /\ loopOver = "listeners" \/ x \in Unused
    /\ entries.size < MaxCells
    /\ entries' = Add(entries, x)
    /\ UNCHANGED <<loopOver, walkVars, removals>>

RemoveEntry(x) ==
    /\ x \in Registered(entries)
    /\ removals < MaxRemovals
    /\ IF Outside
       THEN entries' = Settled(Unregister(entries, x)) /\ UNCHANGED removals
       ELSE entries' = Unregister(entries, x) /\ removals' = removals + 1
    /\ UNCHANGED <<loopOver, walkVars>>

-----------------------------------------------------------------------------
(* The loop *)

\* Both update functions return at once when nothing is registered.
Begin ==
    /\ Outside
    /\ entries.size > 0
    /\ at' = 1
    /\ until' = entries.size
    /\ entries' = Settled(entries)
    /\ begun' = Settled(entries)
    /\ called' = <<>>
    /\ pastEnd' = 0
    /\ removals' = 0
    /\ UNCHANGED loopOver

EndReadEveryTime == entries.size

EndReadOnce == until

EndOneBefore == IF loopOver = "systems" THEN until - 1 ELSE entries.size

EndOfLoop == IF loopOver = "systems" THEN until ELSE entries.size

Call ==
    /\ ~Outside
    /\ at <= EndOfLoop
    /\ called' = Append(called, entries.cell[at])
    /\ pastEnd' = IF at <= entries.size THEN pastEnd ELSE pastEnd + 1
    /\ at' = at + 1
    /\ UNCHANGED <<loopOver, entries, until, begun, removals>>

Finish ==
    /\ ~Outside
    /\ at > EndOfLoop
    /\ at' = 0
    /\ until' = 0
    /\ entries' = Settled(entries)
    /\ begun' = Registry(<<>>)
    /\ called' = <<>>
    /\ pastEnd' = 0
    /\ removals' = 0
    /\ UNCHANGED loopOver

-----------------------------------------------------------------------------
(* The specification *)

UpdateInit ==
    /\ loopOver \in LoopsOver
    /\ entries = Registry(<<>>)
    /\ at = 0
    /\ until = 0
    /\ begun = Registry(<<>>)
    /\ called = <<>>
    /\ pastEnd = 0
    /\ removals = 0

UpdateNext ==
    \/ \E x \in Entries : AddEntry(x) \/ RemoveEntry(x)
    \/ Begin \/ Call \/ Finish

UpdateSpec == UpdateInit /\ [][UpdateNext]_updateVars

-----------------------------------------------------------------------------
(* Properties *)

UpdateTypeOK ==
    /\ loopOver \in LoopsOver
    /\ entries \in Registries(Entries)
    /\ begun \in Registries(Entries)
    /\ at \in Nat
    /\ until \in Nat
    /\ called \in Seq(Entries)
    /\ pastEnd \in Nat
    /\ removals \in 0..MaxRemovals

\* While nothing is removed, a system's loop calls everything that was
\* registered when it began, once and in order, and nothing that was registered
\* since: a component that another one adds is first updated in the next frame.
\* The loop over the listeners calls those that were added during it as well.
CallsWhatItFound ==
    removals = 0 /\ ~Outside =>
        LET found == IF loopOver = "systems" THEN begun ELSE entries
        IN  /\ at - 1 <= found.size
            /\ called = SubSeq(found.cell, 1, at - 1)

\* Every removal makes a system's loop call at most one entry behind the end,
\* where there may be none; the loop over the listeners never does.
PastEndBounded ==
    pastEnd <= IF loopOver = "systems" THEN removals ELSE 0

\* When a loop is through, whoever was registered at its begin and is at its end
\* was called, but for one for every removal: the one that moved up into the cell
\* the loop had just left (Component.cpp:25, Event.cpp:28 and 55), or a listener
\* that was removed and came back behind the loop.
Skipped ==
    {x \in Registered(begun) \cap Registered(entries) :
        \A k \in DOMAIN called : called[k] # x}

SkippedBounded ==
    ~Outside /\ at > EndOfLoop => Cardinality(Skipped) <= removals

\* The inductive invariant: the registry has lost no more entries than were
\* removed, and its storage none, since the loop read its size.
Shrunk ==
    /\ until = begun.size
    /\ until <= Len(entries.cell)
    /\ until - removals <= entries.size

SystemsLoop ==
    loopOver = "systems" =>
        /\ at <= until + 1
        /\ pastEnd = 0 \/ pastEnd < at - (until - removals)
        /\ removals = 0 => \A k \in 1..until : entries.cell[k] = begun.cell[k]

\* Those that have moved behind the loop uncalled or are not registered now; in a
\* system the others wait in the cells it will visit.
Behind(x) ==
    \/ x \notin Registered(entries)
    \/ \E k \in 1..(at - 1) : k <= entries.size /\ entries.cell[k] = x

Passed ==
    {x \in Registered(begun) : Behind(x) /\ \A k \in DOMAIN called : called[k] # x}

PassedBounded ==
    /\ IsFiniteSet(Passed)
    /\ Cardinality(Passed) <= removals
    /\ loopOver = "systems" =>
          \A k \in 1..entries.size : entries.cell[k] \in Registered(begun) => k <= until

LoopInv ==
    /\ UpdateTypeOK
    /\ Len(called) = IF Outside THEN 0 ELSE at - 1
    /\ ~Outside => Shrunk /\ SystemsLoop /\ PassedBounded
    /\ Outside \/ loopOver = "listeners" => pastEnd = 0
    /\ CallsWhatItFound

=============================================================================
