--------------------------- MODULE ComponentSystem ---------------------------
(***************************************************************************)
(* ComponentSystem, the registry every engine object is updated from.      *)
(*                                                                         *)
(* mComponents is a std::vector that is traversed by index up to a size    *)
(* read before the traversal, while the components it updates add and      *)
(* remove entries.  A registry is therefore the vector's cells and its     *)
(* size: after an erase the cells past the size still hold what was there, *)
(* for the raw pointers in an accessor survive its destruction, and the    *)
(* traversal still reads them.  Components are identified by their names.  *)
(***************************************************************************)
EXTENDS Naturals, Sequences

\* The registries of components that are named by N.
Registries(N) ==
    {r \in [cell : Seq(N), size : Nat] : r.size <= Len(r.cell)}

Registry(names) == [cell |-> names, size |-> Len(names)]

Registered(r) == {r.cell[k] : k \in 1..r.size}

\* Nothing is registered twice.
Distinct(r) ==
    \A j, k \in 1..r.size : r.cell[j] = r.cell[k] => j = k

\* push_back: into a cell the vector no longer uses, or into new storage.
Add(r, x) ==
    [cell |-> IF r.size < Len(r.cell) THEN [r.cell EXCEPT ![r.size + 1] = x]
                                      ELSE Append(r.cell, x),
     size |-> r.size + 1]

\* Where std::find_if finds x.
Position(r, x) ==
    CHOOSE k \in 1..r.size :
        r.cell[k] = x /\ \A j \in 1..(k - 1) : r.cell[j] # x

\* remove: nothing when x is not registered, otherwise the entries behind x
\* move up one cell and the last of them also stays where it was.
Unregister(r, x) ==
    IF x \notin Registered(r) THEN r
    ELSE [cell |-> [k \in DOMAIN r.cell |->
                        IF Position(r, x) <= k /\ k < r.size
                        THEN r.cell[k + 1] ELSE r.cell[k]],
          size |-> r.size - 1]

\* What the next traversal can read of a registry: nothing behind its size.
Settled(r) == Registry(SubSeq(r.cell, 1, r.size))

=============================================================================
