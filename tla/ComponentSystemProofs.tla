------------------------ MODULE ComponentSystemProofs ------------------------
(***************************************************************************)
(* What the operations of the component registry do to the set of          *)
(* components that are registered.                                         *)
(***************************************************************************)
EXTENDS ComponentSystem, Integers, TLAPS

\* Adding registers one more component and keeps the registry well-formed
\* (ComponentSystem::add).
LEMMA AddRegisters ==
    ASSUME NEW N, NEW r \in Registries(N), NEW x \in N
    PROVE  /\ Add(r, x) \in Registries(N)
           /\ Add(r, x).size = r.size + 1
           /\ Len(Add(r, x).cell) >= Len(r.cell)
           /\ Registered(Add(r, x)) = Registered(r) \cup {x}
           /\ Distinct(r) /\ x \notin Registered(r) => Distinct(Add(r, x))
<1> DEFINE a == Add(r, x)
<1>1. /\ r.cell \in Seq(N) /\ r.size \in Nat /\ r.size <= Len(r.cell)
      /\ r = [cell |-> r.cell, size |-> r.size]
  BY DEF Registries
<1>2. /\ a.size = r.size + 1
      /\ a.cell \in Seq(N)
      /\ Len(a.cell) >= Len(r.cell) /\ Len(a.cell) >= r.size + 1
      /\ a \in [cell : Seq(N), size : Nat]
      /\ \A k \in 1..r.size : a.cell[k] = r.cell[k]
      /\ a.cell[r.size + 1] = x
  <2>1. CASE r.size < Len(r.cell)
    <3>1. a = [cell |-> [r.cell EXCEPT ![r.size + 1] = x], size |-> r.size + 1]
      BY <2>1 DEF Add
    <3>2. r.size + 1 \in DOMAIN r.cell
      BY <1>1, <2>1
    <3>3. /\ [r.cell EXCEPT ![r.size + 1] = x] \in Seq(N)
          /\ Len([r.cell EXCEPT ![r.size + 1] = x]) = Len(r.cell)
      BY <1>1, <3>2
    <3> QED BY <1>1, <2>1, <3>1, <3>2, <3>3
  <2>2. CASE ~(r.size < Len(r.cell))
    <3>1. a = [cell |-> Append(r.cell, x), size |-> r.size + 1]
      BY <2>2 DEF Add
    <3>2. r.size = Len(r.cell)
      BY <1>1, <2>2
    <3> QED BY <1>1, <3>1, <3>2
  <2> QED BY <2>1, <2>2
<1>3. Registered(a) = Registered(r) \cup {x}
  <2>1. Registered(a) \subseteq Registered(r) \cup {x}
    BY <1>1, <1>2 DEF Registered
  <2>2. x \in Registered(a)
    BY <1>1, <1>2 DEF Registered
  <2>3. Registered(r) \subseteq Registered(a)
    BY <1>1, <1>2 DEF Registered
  <2> QED BY <2>1, <2>2, <2>3
<1>4. ASSUME Distinct(r), x \notin Registered(r)
      PROVE  Distinct(a)
  <2> SUFFICES ASSUME NEW j \in 1..a.size, NEW k \in 1..a.size,
                      a.cell[j] = a.cell[k], j # k
               PROVE  FALSE
    BY DEF Distinct
  <2>1. CASE j \in 1..r.size /\ k \in 1..r.size
    BY <1>2, <1>4, <2>1 DEF Distinct
  <2>2. CASE j = r.size + 1 /\ k \in 1..r.size
    BY <1>1, <1>2, <1>4, <2>2 DEF Registered
  <2>3. CASE k = r.size + 1 /\ j \in 1..r.size
    BY <1>1, <1>2, <1>4, <2>3 DEF Registered
  <2> QED BY <1>1, <1>2, <2>1, <2>2, <2>3
<1> QED BY <1>1, <1>2, <1>3, <1>4 DEF Registries

\* Removing a component from a registry without duplicates takes away that
\* component and nothing else (ComponentSystem::remove).
LEMMA RemoveUnregisters ==
    ASSUME NEW N, NEW r \in Registries(N), NEW x, Distinct(r)
    PROVE  /\ Unregister(r, x) \in Registries(N)
           /\ Len(Unregister(r, x).cell) = Len(r.cell)
           /\ Registered(Unregister(r, x)) = Registered(r) \ {x}
           /\ Distinct(Unregister(r, x))
<1> DEFINE q == Unregister(r, x)
<1>1. /\ r.cell \in Seq(N) /\ r.size \in Nat /\ r.size <= Len(r.cell)
      /\ DOMAIN r.cell = 1..Len(r.cell) /\ Len(r.cell) \in Nat
  BY DEF Registries
<1>2. CASE x \notin Registered(r)
  BY <1>2 DEF Unregister
<1>3. CASE x \in Registered(r)
  <2> DEFINE p == Position(r, x)
  <2>1. p \in 1..r.size /\ r.cell[p] = x
    <3>1. PICK k \in 1..r.size : r.cell[k] = x
      BY <1>3 DEF Registered
    <3>2. \A j \in 1..(k - 1) : r.cell[j] # x
      BY <1>1, <3>1 DEF Distinct
    <3> QED BY <3>1, <3>2 DEF Position
  <2> HIDE DEF p
  <2>2. q = [cell |-> [k \in DOMAIN r.cell |->
                         IF p <= k /\ k < r.size THEN r.cell[k + 1]
                                                 ELSE r.cell[k]],
             size |-> r.size - 1]
    BY <1>3 DEF Unregister, p
  <2> HIDE DEF q
  <2>3. /\ q.size = r.size - 1 /\ q.size \in Nat
        /\ \A k \in 1..Len(r.cell) :
              q.cell[k] = IF p <= k /\ k < r.size THEN r.cell[k + 1]
                                                  ELSE r.cell[k]
    BY <1>1, <2>1, <2>2
  <2>4. q.cell \in Seq(N) /\ Len(q.cell) = Len(r.cell)
    <3> DEFINE f(k) == IF p <= k /\ k < r.size THEN r.cell[k + 1] ELSE r.cell[k]
    <3>1. \A k \in 1..Len(r.cell) : f(k) \in N
      BY <1>1, <2>1
    <3>2. q.cell = [k \in 1..Len(r.cell) |-> f(k)]
      BY <1>1, <2>2
    <3> HIDE DEF f
    <3>3. q.cell \in [1..Len(r.cell) -> N]
      BY <3>1, <3>2
    <3> QED BY <1>1, <3>3
  <2>5. q \in Registries(N)
    BY <1>1, <2>2, <2>3, <2>4 DEF Registries
  <2>6. Registered(q) = Registered(r) \ {x}
    <3>1. ASSUME NEW k \in 1..q.size PROVE q.cell[k] \in Registered(r) \ {x}
      <4>1. CASE k < p
        BY <1>1, <2>1, <2>3, <4>1 DEF Registered, Distinct
      <4>2. CASE p <= k
        <5>1. q.cell[k] = r.cell[k + 1] /\ k + 1 \in 1..r.size /\ k + 1 # p
          BY <1>1, <2>1, <2>3, <4>2
        <5> QED BY <2>1, <5>1 DEF Registered, Distinct
      <4> QED BY <1>1, <2>1, <2>3, <4>1, <4>2
    <3>2. ASSUME NEW k \in 1..r.size, r.cell[k] # x
          PROVE  r.cell[k] \in Registered(q)
      <4>1. CASE k < p
        <5>1. k \in 1..q.size /\ q.cell[k] = r.cell[k]
          BY <1>1, <2>1, <2>3, <4>1
        <5> QED BY <5>1 DEF Registered
      <4>2. CASE p < k
        <5>1. k - 1 \in 1..q.size /\ q.cell[k - 1] = r.cell[k]
          BY <1>1, <2>1, <2>3, <4>2
        <5> QED BY <5>1 DEF Registered
      <4> QED BY <1>1, <2>1, <3>2, <4>1, <4>2
    <3>3. Registered(q) \subseteq Registered(r) \ {x}
      BY <3>1 DEF Registered
    <3>4. Registered(r) \ {x} \subseteq Registered(q)
      BY <3>2 DEF Registered
    <3> QED BY <3>3, <3>4
  <2>7. Distinct(q)
    <3> SUFFICES ASSUME NEW j \in 1..q.size, NEW k \in 1..q.size,
                        q.cell[j] = q.cell[k]
                 PROVE  j = k
      BY DEF Distinct
    <3> DEFINE at(i) == IF p <= i THEN i + 1 ELSE i
    <3>1. ASSUME NEW i \in 1..q.size
          PROVE  at(i) \in 1..r.size /\ q.cell[i] = r.cell[at(i)]
      <4>1. i \in 1..Len(r.cell) /\ i < r.size
        BY <1>1, <2>1, <2>3
      <4>2. q.cell[i] = IF p <= i /\ i < r.size THEN r.cell[i + 1] ELSE r.cell[i]
        BY <2>3, <4>1
      <4> QED BY <1>1, <2>1, <4>1, <4>2
    <3>2. at(j) = at(k)
      BY <3>1 DEF Distinct
    <3> QED BY <2>1, <2>3, <3>2
  <2> QED BY <2>4, <2>5, <2>6, <2>7 DEF q
<1> QED BY <1>2, <1>3

\* Forgetting what lies behind the end changes nothing that is registered.
LEMMA SettledRegistry ==
    ASSUME NEW N, NEW r \in Registries(N)
    PROVE  /\ Settled(r) \in Registries(N)
           /\ Len(Settled(r).cell) = r.size
           /\ Registered(Settled(r)) = Registered(r)
           /\ Distinct(r) => Distinct(Settled(r))
<1> DEFINE c == SubSeq(r.cell, 1, r.size)
<1>1. /\ r.cell \in Seq(N) /\ r.size \in Nat /\ r.size <= Len(r.cell)
  BY DEF Registries
<1>2. /\ c \in Seq(N) /\ Len(c) = r.size
      /\ \A k \in 1..r.size : c[k] = r.cell[k]
  BY <1>1
<1> HIDE DEF c
<1>3. Settled(r) = [cell |-> c, size |-> r.size]
  BY <1>2 DEF Settled, Registry, c
<1>4. Registered(Settled(r)) = Registered(r)
  BY <1>2, <1>3 DEF Registered
<1> QED BY <1>1, <1>2, <1>3, <1>4 DEF Registries, Distinct

=============================================================================
