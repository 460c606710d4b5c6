----------------------------- MODULE EngineProofs -----------------------------
(***************************************************************************)
(* Proofs about the engine's libraries: scenes of any length, registries   *)
(* of any size, any number of physics nodes and actors, and responses and  *)
(* files of any length.                                                    *)
(***************************************************************************)
EXTENDS SceneSystem, SystemUpdate, PhysicsNodes, AssetDownload,
        FiniteSetTheorems, SequenceTheorems, WellFoundedInduction, TLAPS

-----------------------------------------------------------------------------
(* Facts about sequences *)

\* std::find_if has a first element to find when it has one at all.
LEMMA FirstExists ==
    ASSUME NEW S, NEW s \in Seq(S), NEW x, NEW m \in DOMAIN s, s[m] = x
    PROVE  \E k \in DOMAIN s : s[k] = x /\ \A j \in 1..(k - 1) : s[j] # x
<1> DEFINE places == {k \in DOMAIN s : s[k] = x}
<1>1. DOMAIN s = 1..Len(s) /\ Len(s) \in Nat
    OBVIOUS
<1>2. places \subseteq Nat /\ places # {}
    BY <1>1
<1>3. \E k \in places : \A j \in places : ~(<<j, k>> \in OpToRel(<, Nat))
    <2> HIDE DEF places
    <2> QED
        BY <1>2, NatLessThanWellFounded, WFMin
<1>4. PICK k \in places : \A j \in places : ~(<<j, k>> \in OpToRel(<, Nat))
    BY <1>3
<1>5. \A j \in places : ~(j < k)
    BY <1>2, <1>4 DEF OpToRel
<1> QED
    BY <1>1, <1>5

\* The length and the elements of a sequence without its k-th.
LEMMA RemoveAtFacts ==
    ASSUME NEW S, NEW s \in Seq(S), NEW k \in DOMAIN s
    PROVE  /\ RemoveAt(s, k) \in Seq(S)
           /\ Len(RemoveAt(s, k)) = Len(s) - 1
           /\ \A j \in 1..(k - 1) : RemoveAt(s, k)[j] = s[j]
           /\ \A j \in k..(Len(s) - 1) : RemoveAt(s, k)[j] = s[j + 1]
<1> DEFINE head == SubSeq(s, 1, k - 1)
           tail == SubSeq(s, k + 1, Len(s))
<1>1. k \in 1..Len(s) /\ Len(s) \in Nat
    OBVIOUS
<1>2. /\ head \in Seq(S) /\ Len(head) = k - 1
      /\ \A j \in 1..(k - 1) : head[j] = s[j]
    BY <1>1
<1>3. /\ tail \in Seq(S) /\ Len(tail) = Len(s) - k
      /\ \A j \in 1..(Len(s) - k) : tail[j] = s[k + j]
    BY <1>1
<1>4. RemoveAt(s, k) = head \o tail
    BY DEF RemoveAt
<1> HIDE DEF head, tail
<1>5. /\ head \o tail \in Seq(S)
      /\ Len(head \o tail) = Len(s) - 1
      /\ \A j \in 1..(k - 1) : (head \o tail)[j] = s[j]
    BY <1>1, <1>2, <1>3
<1>6. ASSUME NEW j \in k..(Len(s) - 1)
      PROVE  (head \o tail)[j] = s[j + 1]
    <2>1. (head \o tail)[j] = tail[j - (k - 1)]
        BY <1>1, <1>2, <1>3
    <2>2. tail[j - (k - 1)] = s[k + (j - (k - 1))]
        BY <1>1, <1>3
    <2> QED
        BY <1>1, <2>1, <2>2
<1> QED
    BY <1>4, <1>5, <1>6

-----------------------------------------------------------------------------
(* SceneSystem *)

\* What an unsigned counter makes of a number that is a little out of range.
LEMMA Wraps ==
    ASSUME NEW n \in Int, -SceneIdLimit <= n, n < SceneIdLimit,
           NEW q, q = n % SceneIdLimit
    PROVE  q \in SceneIds /\ q = IF n < 0 THEN n + SceneIdLimit ELSE n
BY SceneAssumption DEF SceneIds

LEMMA WrapsAbove ==
    ASSUME NEW n \in Int, 0 <= n, n < SceneIdLimit + SceneIdLimit,
           NEW q, q = n % SceneIdLimit
    PROVE  q \in SceneIds /\ q = IF n < SceneIdLimit THEN n ELSE n - SceneIdLimit
BY SceneAssumption DEF SceneIds

\* What the counter is when it counts.
LEMMA CounterValue ==
    ASSUME SceneInv, NEW n, n = Len(nodeIds) - abandoned
    PROVE  /\ nodeIds \in Seq(SceneIds)
           /\ Len(nodeIds) \in 0..MaxNodes
           /\ abandoned \in 0..MaxNodes
           /\ n \in Int /\ -SceneIdLimit < n /\ n < SceneIdLimit
           /\ sceneCounter \in Int
           /\ sceneCounter = IF n < 0 THEN n + SceneIdLimit ELSE n
<1> USE SceneAssumption
<1>1. nodeIds \in Seq(SceneIds) /\ Len(nodeIds) <= MaxNodes /\ abandoned \in 0..MaxNodes
    BY DEF SceneInv, SceneTypeOK
<1>2. Len(nodeIds) \in Nat
    BY <1>1
<1>3. n \in Int /\ -SceneIdLimit < n /\ n < SceneIdLimit
    BY <1>1, <1>2
<1>4. sceneCounter = n % SceneIdLimit
    BY DEF SceneInv, CounterCountsNodes
<1>5. -SceneIdLimit <= n
    BY <1>3
<1>6. sceneCounter = IF n < 0 THEN n + SceneIdLimit ELSE n
    BY <1>3, <1>4, <1>5, Wraps, Zenon
<1>7. sceneCounter \in Int
    BY <1>3, <1>6
<1> QED
    BY <1>1, <1>2, <1>3, <1>6, <1>7

LEMMA SceneInitInv == SceneInit => SceneInv
<1> SUFFICES ASSUME SceneInit PROVE SceneInv
    OBVIOUS
<1> USE SceneAssumption DEF SceneInit
<1>1. SceneTypeOK
    <2>1. nodeIds \in Seq(SceneIds)
        OBVIOUS
    <2>2. Len(nodeIds) <= MaxNodes
        OBVIOUS
    <2>3. sceneCounter \in SceneIds
        BY DEF SceneIds
    <2>4. abandoned \in 0..MaxNodes
        OBVIOUS
    <2> QED
        BY <2>1, <2>2, <2>3, <2>4 DEF SceneTypeOK
<1>2. CounterCountsNodes
    BY Wraps DEF CounterCountsNodes
<1>3. IdentifiersInOrder
    BY DEF IdentifiersInOrder
<1> QED
    BY <1>1, <1>2, <1>3 DEF SceneInv

LEMMA AddSceneNodeInv ==
    ASSUME SceneInv, NEW k \in 1..MaxNodes, AddSceneNode(k)
    PROVE  SceneInv'
<1> DEFINE n == Len(nodeIds) - abandoned
           new == Numbered(k)
<1>1. /\ nodeIds' = nodeIds \o new
      /\ sceneCounter' = (sceneCounter + k) % SceneIdLimit
      /\ UNCHANGED <<abandoned, disordered>>
      /\ Len(nodeIds) + k <= MaxNodes
    BY DEF AddSceneNode
<1>2. /\ nodeIds \in Seq(SceneIds)
      /\ Len(nodeIds) \in 0..MaxNodes
      /\ abandoned \in 0..MaxNodes
      /\ n \in Int /\ -SceneIdLimit < n /\ n < SceneIdLimit
      /\ sceneCounter \in Int
      /\ sceneCounter = IF n < 0 THEN n + SceneIdLimit ELSE n
    BY CounterValue
<1>3. k \in Int /\ 1 <= k /\ k <= MaxNodes /\ MaxNodes < SceneIdLimit
      /\ SceneIdLimit \in Nat /\ MaxNodes \in Nat
    BY SceneAssumption
<1>4. ASSUME NEW j \in 1..k
      PROVE  new[j] \in SceneIds
    <2> DEFINE m == sceneCounter + j - 1
    <2>1. m \in Int /\ 0 <= m /\ m < SceneIdLimit + SceneIdLimit
        <3> HIDE DEF n, new
        <3> QED
            BY <1>2, <1>3
    <2>2. new[j] = m % SceneIdLimit
        BY DEF Numbered
    <2> HIDE DEF m, new
    <2> QED
        BY <2>1, <2>2, WrapsAbove
<1>5. new = [j \in 1..k |-> new[j]] /\ DOMAIN new = 1..k
    BY DEF Numbered
<1> HIDE DEF new
<1>6. new \in Seq(SceneIds) /\ Len(new) = k
    BY <1>3, <1>4, <1>5
<1>7. /\ nodeIds' \in Seq(SceneIds)
      /\ Len(nodeIds') = Len(nodeIds) + k
      /\ \A j \in 1..Len(nodeIds) : nodeIds'[j] = nodeIds[j]
      /\ \A j \in 1..k : nodeIds'[Len(nodeIds) + j] = new[j]
    BY <1>1, <1>2, <1>6
<1>8. /\ Len(nodeIds') - abandoned' = n + k
      /\ n + k \in Int /\ -SceneIdLimit < n + k /\ n + k < SceneIdLimit
    BY <1>1, <1>2, <1>3, <1>7
<1>9. /\ sceneCounter' \in SceneIds
      /\ sceneCounter' = IF n + k < 0 THEN n + k + SceneIdLimit ELSE n + k
    <2> DEFINE m == sceneCounter + k
    <2> HIDE DEF n
    <2>1. m \in Int /\ 0 <= m /\ m < SceneIdLimit + SceneIdLimit
        BY <1>2, <1>3
    <2>2. m = IF n < 0 THEN n + k + SceneIdLimit ELSE n + k
        BY <1>2, <1>3
    <2>3. sceneCounter' = m % SceneIdLimit
        BY <1>1
    <2> HIDE DEF m
    <2>4. /\ sceneCounter' \in SceneIds
          /\ sceneCounter' = IF m < SceneIdLimit THEN m ELSE m - SceneIdLimit
        BY <2>1, <2>3, WrapsAbove
    <2> QED
        BY <1>2, <1>3, <1>8, <2>2, <2>4
<1>10. SceneTypeOK'
    <2>1. Len(nodeIds') <= MaxNodes
        BY <1>1, <1>7
    <2> QED
        BY <1>1, <1>2, <1>7, <1>9, <2>1 DEF SceneTypeOK, SceneInv
<1>11. CounterCountsNodes'
    <2> DEFINE q == (n + k) % SceneIdLimit
    <2>1. q = IF n + k < 0 THEN n + k + SceneIdLimit ELSE n + k
        <3> DEFINE m == n + k
        <3>1. m \in Int /\ -SceneIdLimit <= m /\ m < SceneIdLimit /\ q = m % SceneIdLimit
            BY <1>3, <1>8
        <3> HIDE DEF m, q
        <3>2. q = IF m < 0 THEN m + SceneIdLimit ELSE m
            BY <3>1, Wraps
        <3> QED
            BY <3>2 DEF m
    <2>2. sceneCounter' = q
        <3> HIDE DEF q, n
        <3> QED
            BY <1>9, <2>1
    <2> QED
        BY <1>8, <2>2 DEF CounterCountsNodes
<1>12. IdentifiersInOrder'
    <2> SUFFICES ASSUME abandoned' = 0, ~disordered', NEW j \in DOMAIN nodeIds'
                 PROVE  nodeIds'[j] = j - 1
        BY DEF IdentifiersInOrder
    <2>1. abandoned = 0 /\ ~disordered /\ sceneCounter = Len(nodeIds)
        BY <1>1, <1>2
    <2>2. j \in 1..(Len(nodeIds) + k)
        BY <1>7
    <2>3. CASE j <= Len(nodeIds)
        BY <1>2, <1>7, <2>1, <2>2, <2>3 DEF SceneInv, IdentifiersInOrder
    <2>4. CASE j > Len(nodeIds)
        <3> DEFINE i == j - Len(nodeIds)
        <3>1. i \in 1..k /\ j = Len(nodeIds) + i
            BY <1>2, <1>3, <2>2, <2>4
        <3>2. new[i] = (sceneCounter + i - 1) % SceneIdLimit
            BY <3>1 DEF new, Numbered
        <3>3. sceneCounter + i - 1 = j - 1
            BY <2>1, <3>1, <1>2
        <3>4. nodeIds'[j] = (j - 1) % SceneIdLimit
            BY <1>7, <3>1, <3>2, <3>3
        <3>5. j - 1 \in Int /\ 0 <= j - 1 /\ j - 1 < SceneIdLimit
            BY <1>1, <1>2, <1>3, <2>2
        <3> QED
            BY <1>3, <3>4, <3>5
    <2> QED
        BY <1>2, <2>2, <2>3, <2>4
<1> QED
    BY <1>10, <1>11, <1>12 DEF SceneInv

LEMMA AddThrowsInv ==
    ASSUME SceneInv, NEW k \in 1..MaxNodes, AddThrows(k)
    PROVE  SceneInv'
<1> DEFINE unnumbered == [j \in 1..k |-> UnnumberedId]
<1> USE SceneAssumption DEF SceneInv
<1>1. unnumbered \in Seq(SceneIds) /\ Len(unnumbered) = k
    <2>1. k \in Nat /\ UnnumberedId \in SceneIds
        BY DEF SceneIds, UnnumberedId
    <2> QED
        BY <2>1
<1>2. /\ nodeIds' = nodeIds \o unnumbered
      /\ abandoned' = abandoned + k
      /\ Len(nodeIds) + k <= MaxNodes /\ abandoned + k <= MaxNodes
      /\ UNCHANGED <<sceneCounter, disordered>>
    BY DEF AddThrows
<1>3. nodeIds \in Seq(SceneIds) /\ Len(nodeIds) \in Nat /\ abandoned \in Nat
    BY DEF SceneTypeOK
<1> HIDE DEF unnumbered
<1>4. nodeIds' \in Seq(SceneIds) /\ Len(nodeIds') = Len(nodeIds) + k
    <2>1. nodeIds \o unnumbered \in Seq(SceneIds)
        BY <1>1, <1>3
    <2>2. Len(nodeIds \o unnumbered) = Len(nodeIds) + Len(unnumbered)
        BY <1>1, <1>3
    <2> QED
        BY <1>1, <1>2, <2>1, <2>2
<1>5. SceneTypeOK'
    BY <1>2, <1>3, <1>4 DEF SceneTypeOK
<1>6. CounterCountsNodes'
    <2>1. Len(nodeIds') - abandoned' = Len(nodeIds) - abandoned
        BY <1>2, <1>3, <1>4
    <2> QED
        BY <1>2, <2>1 DEF CounterCountsNodes
<1>7. IdentifiersInOrder'
    BY <1>2, <1>3 DEF IdentifiersInOrder
<1> QED
    BY <1>5, <1>6, <1>7

LEMMA RemoveSceneNodeInv ==
    ASSUME SceneInv, NEW id \in SceneIds, RemoveSceneNode(id)
    PROVE  SceneInv'
<1> DEFINE n == Len(nodeIds) - abandoned
           k == FirstWith(nodeIds, id)
<1>1. /\ nodeIds \in Seq(SceneIds)
      /\ Len(nodeIds) \in 0..MaxNodes
      /\ abandoned \in 0..MaxNodes
      /\ n \in Int /\ -SceneIdLimit < n /\ n < SceneIdLimit
      /\ sceneCounter \in Int
      /\ sceneCounter = IF n < 0 THEN n + SceneIdLimit ELSE n
    BY CounterValue
<1>2. PICK w \in DOMAIN nodeIds : nodeIds[w] = id
    BY DEF RemoveSceneNode
<1>3. k \in DOMAIN nodeIds /\ nodeIds[k] = id
    <2>1. \E p \in DOMAIN nodeIds :
              nodeIds[p] = id /\ \A j \in 1..(p - 1) : nodeIds[j] # id
        BY <1>1, <1>2, FirstExists
    <2> QED
        BY <2>1 DEF FirstWith
<1>4. /\ nodeIds' = RemoveAt(nodeIds, k)
      /\ sceneCounter' = (sceneCounter - 1) % SceneIdLimit
      /\ disordered' = (disordered \/ k # Len(nodeIds))
      /\ UNCHANGED abandoned
    BY DEF RemoveSceneNode, CounterAfterRemove
<1> HIDE DEF k
<1>5. /\ nodeIds' \in Seq(SceneIds) /\ Len(nodeIds') = Len(nodeIds) - 1
      /\ \A j \in 1..(k - 1) : nodeIds'[j] = nodeIds[j]
    BY <1>1, <1>3, <1>4, RemoveAtFacts
<1>6. k \in 1..Len(nodeIds) /\ SceneIdLimit \in Nat /\ MaxNodes \in Nat
      /\ MaxNodes < SceneIdLimit
    BY <1>1, <1>3, SceneAssumption
<1>7. /\ Len(nodeIds') - abandoned' = n - 1
      /\ n - 1 \in Int /\ -SceneIdLimit <= n - 1 /\ n - 1 < SceneIdLimit
    <2>1. Len(nodeIds') - abandoned' = n - 1
        BY <1>1, <1>4, <1>5
    <2>2. n - 1 \in Int /\ -SceneIdLimit <= n - 1 /\ n - 1 < SceneIdLimit
        <3>1. n \in Int /\ -SceneIdLimit < n /\ n < SceneIdLimit
            BY <1>1
        <3> HIDE DEF n
        <3> QED
            BY <1>6, <3>1
    <2> QED
        BY <2>1, <2>2
<1>8. /\ sceneCounter' \in SceneIds
      /\ sceneCounter' = IF n - 1 < 0 THEN n - 1 + SceneIdLimit ELSE n - 1
    <2> DEFINE m == sceneCounter - 1
    <2>1. sceneCounter' = m % SceneIdLimit
        BY <1>4
    <2> HIDE DEF n
    <2>2. m \in Int /\ -SceneIdLimit <= m /\ m < SceneIdLimit
        BY <1>1, <1>6
    <2>3. m = IF n < 0 THEN n - 1 + SceneIdLimit ELSE n - 1
        BY <1>1, <1>6
    <2> HIDE DEF m
    <2>4. /\ sceneCounter' \in SceneIds
          /\ sceneCounter' = IF m < 0 THEN m + SceneIdLimit ELSE m
        BY <2>1, <2>2, Wraps
    <2>5. SceneIdLimit \in Int /\ n \in Int /\ -SceneIdLimit < n /\ n < SceneIdLimit
        BY <1>1, <1>6
    <2> QED
        BY <2>3, <2>4, <2>5
<1>9. SceneTypeOK'
    <2>1. Len(nodeIds') <= MaxNodes
        BY <1>1, <1>5, <1>6
    <2>2. disordered' \in BOOLEAN
        BY <1>4 DEF SceneInv, SceneTypeOK
    <2> QED
        BY <1>1, <1>4, <1>5, <1>8, <2>1, <2>2 DEF SceneTypeOK
<1>10. CounterCountsNodes'
    <2> DEFINE m == n - 1
               q == m % SceneIdLimit
    <2>1. m \in Int /\ -SceneIdLimit <= m /\ m < SceneIdLimit
        BY <1>7
    <2>2. q = IF m < 0 THEN m + SceneIdLimit ELSE m
        <3> HIDE DEF m
        <3> QED
            BY <2>1, Wraps
    <2>3. sceneCounter' = q
        <3> HIDE DEF q, n
        <3> QED
            BY <1>8, <2>2
    <2> QED
        BY <1>7, <2>3 DEF CounterCountsNodes
<1>11. IdentifiersInOrder'
    <2> SUFFICES ASSUME abandoned' = 0, ~disordered', NEW j \in DOMAIN nodeIds'
                 PROVE  nodeIds'[j] = j - 1
        BY DEF IdentifiersInOrder
    <2>1. abandoned = 0 /\ ~disordered /\ k = Len(nodeIds)
        BY <1>4
    <2>2. j \in 1..(k - 1) /\ j \in DOMAIN nodeIds
        BY <1>1, <1>5, <2>1
    <2> QED
        BY <1>5, <2>1, <2>2 DEF SceneInv, IdentifiersInOrder
<1> QED
    BY <1>9, <1>10, <1>11 DEF SceneInv

LEMMA SceneStepInv == SceneInv /\ [SceneNext]_sceneVars => SceneInv'
<1> SUFFICES ASSUME SceneInv, [SceneNext]_sceneVars PROVE SceneInv'
    OBVIOUS
<1>1. CASE SceneNext
    BY <1>1, AddSceneNodeInv, AddThrowsInv, RemoveSceneNodeInv DEF SceneNext
<1>2. CASE UNCHANGED sceneVars
    BY <1>2 DEF sceneVars, SceneInv, SceneTypeOK, CounterCountsNodes, IdentifiersInOrder
<1> QED
    BY <1>1, <1>2

\* The scene's invariant, for scenes of any length and counters of any width.
THEOREM SceneInvariance == SceneSpec => []SceneInv
BY SceneInitInv, SceneStepInv, PTL DEF SceneSpec

\* The counter is the number of nodes less those that failed loads left behind,
\* wrapped as a size_t, whatever is added and removed in whatever order.
THEOREM CounterAlwaysCounts == SceneSpec => []CounterCountsNodes
<1>1. SceneInv => CounterCountsNodes
    BY DEF SceneInv
<1> QED
    BY <1>1, SceneInvariance, PTL

\* Identifiers are positions as long as no load fails and only the newest node
\* is ever removed.
THEOREM IdentifiersStayInOrder == SceneSpec => []IdentifiersInOrder
<1>1. SceneInv => IdentifiersInOrder
    BY DEF SceneInv
<1> QED
    BY <1>1, SceneInvariance, PTL

\* As long as identifiers are positions, std::find_if finds the node that an
\* identifier belongs to, and no other; so remove_scene_node removes that one.
THEOREM IdentifiersFindTheirNodes ==
    SceneSpec =>
        [](abandoned = 0 /\ ~disordered =>
              \A k \in DOMAIN nodeIds : FirstWith(nodeIds, nodeIds[k]) = k)
<1>1. SceneInv =>
        (abandoned = 0 /\ ~disordered =>
            \A k \in DOMAIN nodeIds : FirstWith(nodeIds, nodeIds[k]) = k)
    <2> SUFFICES ASSUME SceneInv, abandoned = 0, ~disordered,
                        NEW k \in DOMAIN nodeIds
                 PROVE  FirstWith(nodeIds, nodeIds[k]) = k
        OBVIOUS
    <2>1. /\ DOMAIN nodeIds = 1..Len(nodeIds)
          /\ Len(nodeIds) \in Nat
          /\ \A j \in DOMAIN nodeIds : nodeIds[j] = j - 1
        BY DEF SceneInv, SceneTypeOK, IdentifiersInOrder
    <2>2. \A j \in DOMAIN nodeIds : nodeIds[j] = nodeIds[k] => j = k
        BY <2>1
    <2>3. \A j \in 1..(k - 1) : nodeIds[j] # nodeIds[k]
        BY <2>1
    <2>4. \E j \in DOMAIN nodeIds :
            nodeIds[j] = nodeIds[k] /\ \A i \in 1..(j - 1) : nodeIds[i] # nodeIds[k]
        BY <2>3
    <2>5. /\ FirstWith(nodeIds, nodeIds[k]) \in DOMAIN nodeIds
          /\ nodeIds[FirstWith(nodeIds, nodeIds[k])] = nodeIds[k]
        BY <2>4, Zenon DEF FirstWith
    <2> QED
        BY <2>2, <2>5
<1> QED
    BY <1>1, SceneInvariance, PTL

-----------------------------------------------------------------------------
(* AssetDownload *)

\* What two reads took one after the other.
LEMMA ItemsAppend ==
    ASSUME NEW a \in Nat, NEW b \in Nat, NEW c \in Nat, a <= b, b <= c
    PROVE  Items(a, b) \o Items(b, c) = Items(a, c)
<1> DEFINE p == Items(a, b)
           q == Items(b, c)
           r == Items(a, c)
<1>1. /\ p \in Seq(Nat) /\ Len(p) = b - a
      /\ \A k \in 1..(b - a) : p[k] = a + k
    BY DEF Items
<1>2. /\ q \in Seq(Nat) /\ Len(q) = c - b
      /\ \A k \in 1..(c - b) : q[k] = b + k
    BY DEF Items
<1>3. /\ r \in Seq(Nat) /\ Len(r) = c - a
      /\ \A k \in 1..(c - a) : r[k] = a + k
    BY DEF Items
<1> HIDE DEF p, q, r
<1>4. /\ p \o q \in Seq(Nat) /\ Len(p \o q) = Len(p) + Len(q)
      /\ \A k \in 1..(Len(p) + Len(q)) :
            (p \o q)[k] = IF k <= Len(p) THEN p[k] ELSE q[k - Len(p)]
    BY <1>1, <1>2, ConcatProperties
<1>5. Len(p \o q) = Len(r)
    BY <1>1, <1>2, <1>3, <1>4
<1>6. ASSUME NEW k \in 1..Len(r)
      PROVE  (p \o q)[k] = r[k]
    <2>1. k \in 1..(Len(p) + Len(q)) /\ r[k] = a + k
        BY <1>1, <1>2, <1>3
    <2>2. CASE k <= Len(p)
        BY <1>1, <1>4, <2>1, <2>2
    <2>3. CASE k > Len(p)
        <3> DEFINE j == k - (b - a)
        <3>1. j \in 1..(c - b) /\ b + j = a + k /\ k - Len(p) = j
            BY <1>1, <1>2, <2>1, <2>3
        <3>2. (p \o q)[k] = q[j]
            BY <1>1, <1>4, <2>1, <2>3, <3>1
        <3> QED
            BY <1>2, <2>1, <3>1, <3>2
    <2> QED
        BY <1>1, <2>1, <2>2, <2>3
<1>7. p \o q = r
    BY <1>3, <1>4, <1>5, <1>6, SeqEqual
<1> QED
    BY <1>7 DEF p, q, r

\* The items of a part of the response.
LEMMA ItemsType ==
    ASSUME NEW a \in Nat, NEW b \in 0..Response, a <= b
    PROVE  /\ Items(a, b) \in Seq(0..Response)
           /\ a = b => Items(a, b) = <<>>
BY DownloadAssumption DEF Items, Response

LEMMA DownloadInitInv == DownloadInit => DownloadInv
<1> SUFFICES ASSUME DownloadInit PROVE DownloadInv
    OBVIOUS
<1>1. Response \in Nat
    BY DownloadAssumption DEF Response
<1>2. DownloadTypeOK
    BY <1>1 DEF DownloadInit, DownloadTypeOK, NewFile, Steps, Results
<1> QED
    BY <1>2 DEF DownloadInit, DownloadInv, TailAppended, FailureKeepsFile

LEMMA DownloadStepInv == DownloadInv /\ [DownloadNext]_downloadVars => DownloadInv'
<1> SUFFICES ASSUME DownloadInv, [DownloadNext]_downloadVars PROVE DownloadInv'
    OBVIOUS
<1>1. Response \in Nat /\ HeaderItems \in Nat /\ HeaderItems # 0
    BY DownloadAssumption DEF Response
<1>2. /\ step \in Steps /\ taken \in 0..Response /\ first \in 0..taken
      /\ chunk \in Seq(0..Response) /\ room \in 0..Response
      /\ file \in Seq(0..Response) /\ before \in Seq(0..Response) /\ result \in Results
    BY DEF DownloadInv, DownloadTypeOK
<1>3. CASE UNCHANGED downloadVars
    BY <1>3 DEF downloadVars, fileVars, DownloadInv, DownloadTypeOK, TailAppended, FailureKeepsFile
<1>4. CASE OpenFile
    <2>1. DownloadTypeOK'
        <3>1. PICK held \in {file, NewFile, OldContents} :
                     before' = held /\ file' = FileOpened(held)
            BY <1>4 DEF OpenFile
        <3>2. held \in Seq(0..Response)
            <4>1. NewFile \in Seq(0..Response)
                BY DEF NewFile
            <4>2. 0 \in 0..Response
                BY <1>1
            <4>3. OldContents \in Seq(0..Response)
                BY <4>2 DEF OldContents
            <4> QED
                BY <1>2, <3>1, <4>1, <4>3
        <3> QED
            BY <1>1, <1>4, <3>1, <3>2 DEF OpenFile, FileOpened, DownloadTypeOK, Steps, Results
    <2> QED
        BY <1>4, <2>1 DEF OpenFile, FileOpened, DownloadInv, TailAppended,
                          FailureKeepsFile
<1>5. CASE Connect \/ SendRequest
    <2>1. DownloadTypeOK'
        BY <1>2, <1>5 DEF Connect, SendRequest, fileVars, DownloadTypeOK, Steps, Results
    <2> QED
        BY <1>5, <2>1 DEF Connect, SendRequest, fileVars, DownloadInv, TailAppended,
                          FailureKeepsFile
<1>6. ASSUME NEW r \in {"true", "false", "terminated"}, ReturnWith(r), UNCHANGED fileVars,
             \/ r = "true" /\ step = "body"
             \/ r # "true" /\ step \in {"opened", "connected", "sent"}
      PROVE  DownloadInv'
    <2>1. DownloadTypeOK'
        BY <1>2, <1>6 DEF ReturnWith, fileVars, DownloadTypeOK, Steps, Results
    <2>2. TailAppended'
        BY <1>6 DEF ReturnWith, fileVars, DownloadInv, TailAppended
    <2>3. FailureKeepsFile'
        BY <1>6 DEF ReturnWith, fileVars, DownloadInv, FailureKeepsFile
    <2> QED
        BY <1>6, <2>1, <2>2, <2>3 DEF ReturnWith, fileVars, DownloadInv
<1>7. CASE ConnectFails \/ SendNothing \/ ReadEnds
    BY <1>6, <1>7 DEF ConnectFails, SendNothing, ReadEnds
<1>8. ASSUME NEW n \in 0..Response, ReadUnsized(n) \/ ReadNoHeader(n)
      PROVE  DownloadInv'
    BY <1>6, <1>8 DEF ReadUnsized, ReadNoHeader
<1>9. ASSUME NEW n \in 0..Response, NEW length \in 1..Response, ReadHeader(n, length)
      PROVE  DownloadInv'
    <2>1. /\ step = "sent" /\ step' = "body" /\ taken' = n /\ first' = n /\ room' = length
          /\ chunk' = chunk /\ file' = file /\ before' = before /\ result' = result
        BY <1>9 DEF ReadHeader, fileVars
    <2>2. /\ file = before /\ chunk = <<>> /\ result = "none"
        BY <2>1 DEF DownloadInv
    <2>3. DownloadTypeOK'
        BY <1>1, <1>2, <2>1 DEF DownloadTypeOK, Steps
    <2>4. file' \o chunk' = before' \o Items(first', taken')
        <3>1. n \in Nat
            BY <1>1
        <3>2. Items(n, n) = <<>>
            BY <3>1, ItemsType
        <3> QED
            BY <2>1, <2>2, <3>2
    <2> QED
        BY <2>1, <2>2, <2>3, <2>4 DEF DownloadInv, TailAppended, FailureKeepsFile
<1>10. ASSUME NEW n \in 1..Response, ReadBody(n)
       PROVE  DownloadInv'
    <2> DEFINE m == taken + n
    <2>1. /\ step = "body" /\ step' = "chunk" /\ taken' = m /\ first' = first /\ room' = room
          /\ n <= Response - taken
          /\ chunk' = Items(taken, m) /\ file' = file /\ before' = before
          /\ result' = result
        BY <1>10 DEF ReadBody, fileVars
    <2>2. /\ chunk = <<>> /\ result = "none" /\ file \o chunk = before \o Items(first, taken)
        BY <2>1 DEF DownloadInv, TailAppended
    <2>3. file = before \o Items(first, taken)
        BY <1>2, <2>2
    <2>4. m \in 0..Response /\ m \in Nat /\ taken \in Nat /\ first \in Nat
          /\ taken <= m /\ first <= taken
        BY <1>1, <1>2, <2>1
    <2> HIDE DEF m
    <2>5. Items(taken, m) \in Seq(0..Response) /\ Items(first, taken) \in Seq(0..Response)
        BY <1>2, <2>4, ItemsType
    <2>6. DownloadTypeOK'
        BY <1>1, <1>2, <2>1, <2>4, <2>5 DEF DownloadTypeOK, Steps
    <2>7. file' \o chunk' = before' \o Items(first', taken')
        <3>1. Items(first, taken) \o Items(taken, m) = Items(first, m)
            BY <2>4, ItemsAppend
        <3>2. (before \o Items(first, taken)) \o Items(taken, m)
                = before \o (Items(first, taken) \o Items(taken, m))
            <4> DEFINE t == Items(first, taken)
                       u == Items(taken, m)
                       A == 0..Response
            <4>1. before \in Seq(A) /\ t \in Seq(A) /\ u \in Seq(A)
                BY <1>2, <2>5
            <4> HIDE DEF t, u, A
            <4>2. (before \o t) \o u = before \o (t \o u)
                BY <4>1, ConcatAssociative
            <4> QED
                BY <4>2 DEF t, u
        <3> QED
            BY <2>1, <2>3, <3>1, <3>2
    <2> QED
        BY <2>1, <2>2, <2>6, <2>7 DEF DownloadInv, TailAppended, FailureKeepsFile
<1>11. CASE WriteBody
    <2>1. /\ step = "chunk" /\ step' = "body" /\ file' = file \o chunk /\ chunk' = <<>>
          /\ taken' = taken /\ first' = first /\ room' = room /\ before' = before
          /\ result' = result
        BY <1>11 DEF WriteBody, FileAndChunk
    <2>2. result = "none" /\ file \o chunk = before \o Items(first, taken)
        BY <2>1 DEF DownloadInv, TailAppended
    <2>3. file' \in Seq(0..Response)
        BY <1>2, <2>1
    <2>4. DownloadTypeOK'
        BY <1>2, <2>1, <2>3 DEF DownloadTypeOK, Steps
    <2>5. file' \o chunk' = before' \o Items(first', taken')
        BY <2>1, <2>2, <2>3
    <2> QED
        BY <2>1, <2>2, <2>4, <2>5 DEF DownloadInv, TailAppended, FailureKeepsFile
<1> QED
    BY <1>3, <1>4, <1>5, <1>7, <1>8, <1>9, <1>10, <1>11 DEF DownloadNext

LEMMA DownloadInvariance == DownloadSpec => []DownloadInv
BY DownloadInitInv, DownloadStepInv, PTL DEF DownloadSpec

\* Whatever the file held and whatever the sizes of the header, the body and the
\* reads: what a download adds to it are the items behind the first read, without
\* a gap or a repetition.
THEOREM TailsAreAppended == DownloadSpec => []TailAppended
<1>1. DownloadInv => TailAppended
    BY DEF DownloadInv
<1> QED
    BY <1>1, DownloadInvariance, PTL

\* A download that does not succeed leaves the file as it found it.
THEOREM FailuresKeepFiles == DownloadSpec => []FailureKeepsFile
<1>1. DownloadInv => FailureKeepsFile
    BY DEF DownloadInv
<1> QED
    BY <1>1, DownloadInvariance, PTL

-----------------------------------------------------------------------------
(* PhysicsNodes *)

LEMMA PhysicsInitInv == PhysicsInit => PhysicsInv
<1> SUFFICES ASSUME PhysicsInit PROVE PhysicsInv
    OBVIOUS
<1>1. PhysicsTypeOK
    BY DEF PhysicsInit, PhysicsTypeOK, ActorStates, FrameSteps
<1> QED
    BY <1>1, PhysicsAssumption
    DEF PhysicsInit, PhysicsInv, DelegatesInScene, ActorsNotShared, SceneAccounted,
        DelegatesInWorld, LostForGood

\* What the invariant says of one node and one actor.
LEMMA PhysicsFacts ==
    ASSUME PhysicsInv
    PROVE  /\ NoActor \notin Actors
           /\ worldNodes \in Seq(Nodes)
           /\ delegate \in [Nodes -> Actors \cup {NoActor}]
           /\ actor \in [Actors -> ActorStates]
           /\ lost \subseteq Actors /\ frame \in FrameSteps
           /\ \A n \in Nodes : delegate[n] # NoActor => actor[delegate[n]] = "scene"
           /\ \A m, n \in Nodes :
                 delegate[m] = delegate[n] /\ delegate[m] # NoActor => m = n
           /\ \A a \in Actors :
                 actor[a] = "scene" <=> (a \in lost \/ \E n \in Nodes : delegate[n] = a)
           /\ \A n \in Nodes : delegate[n] # NoActor => InWorld(n)
           /\ \A n \in Nodes : delegate[n] \notin lost
BY PhysicsAssumption, Zenon
DEF PhysicsInv, PhysicsTypeOK, DelegatesInScene, ActorsNotShared, SceneAccounted,
    DelegatesInWorld, LostForGood

\* How the invariant follows from that.
LEMMA PhysicsFactsSuffice ==
    ASSUME worldNodes' \in Seq(Nodes),
           delegate' \in [Nodes -> Actors \cup {NoActor}],
           actor' \in [Actors -> ActorStates],
           lost' \subseteq Actors, frame' \in FrameSteps,
           \A n \in Nodes : delegate'[n] # NoActor => actor'[delegate'[n]] = "scene",
           \A m, n \in Nodes :
                 delegate'[m] = delegate'[n] /\ delegate'[m] # NoActor => m = n,
           \A a \in Actors :
                 actor'[a] = "scene" <=> (a \in lost' \/ \E n \in Nodes : delegate'[n] = a),
           \A n \in Nodes : delegate'[n] # NoActor => InWorld(n)',
           \A n \in Nodes : delegate'[n] \notin lost'
    PROVE  PhysicsInv'
BY Zenon
DEF PhysicsInv, PhysicsTypeOK, DelegatesInScene, ActorsNotShared, SceneAccounted,
    DelegatesInWorld, LostForGood

LEMMA InsertNodeInv ==
    ASSUME PhysicsInv, NEW n \in Nodes, NEW a \in Actors, InsertNode(n, a)
    PROVE  PhysicsInv'
<1>1. /\ actor[a] = "free"
      /\ delegate' = [delegate EXCEPT ![n] = a]
      /\ actor' = [actor EXCEPT ![a] = "scene"]
      /\ lost' = lost \cup ({delegate[n]} \ {NoActor})
      /\ worldNodes' = Append(worldNodes, n)
      /\ frame' = frame
    BY DEF InsertNode, Forgotten
<1>2. /\ worldNodes' \in Seq(Nodes)
      /\ \A m \in Nodes : InWorld(m) \/ m = n => InWorld(m)'
    <2>1. worldNodes \in Seq(Nodes)
        BY PhysicsFacts
    <2>2. /\ worldNodes' \in Seq(Nodes)
          /\ Len(worldNodes') = Len(worldNodes) + 1
          /\ \A k \in 1..Len(worldNodes) : worldNodes'[k] = worldNodes[k]
          /\ worldNodes'[Len(worldNodes) + 1] = n
        BY <1>1, <2>1
    <2>3. DOMAIN worldNodes = 1..Len(worldNodes) /\ DOMAIN worldNodes' = 1..(Len(worldNodes) + 1)
          /\ Len(worldNodes) \in Nat
        BY <2>1, <2>2
    <2> QED
        BY <2>2, <2>3 DEF InWorld
<1>3. \A m \in Nodes : delegate[m] # a
    BY <1>1, PhysicsFacts
<1>4. a \notin lost
    BY <1>1, PhysicsFacts
<1>5. /\ delegate' \in [Nodes -> Actors \cup {NoActor}]
      /\ \A m \in Nodes : delegate'[m] = IF m = n THEN a ELSE delegate[m]
    BY <1>1, PhysicsFacts
<1>6. /\ actor' \in [Actors -> ActorStates]
      /\ \A b \in Actors : actor'[b] = IF b = a THEN "scene" ELSE actor[b]
    BY <1>1, PhysicsFacts DEF ActorStates
<1>7. lost' \subseteq Actors /\ frame' \in FrameSteps
    BY <1>1, PhysicsFacts
<1>8. \A m \in Nodes : delegate'[m] # NoActor => actor'[delegate'[m]] = "scene"
    BY <1>3, <1>5, <1>6, PhysicsFacts
<1>9. \A m, l \in Nodes : delegate'[m] = delegate'[l] /\ delegate'[m] # NoActor => m = l
    BY <1>3, <1>5, PhysicsFacts
<1>10. ASSUME NEW b \in Actors
       PROVE  actor'[b] = "scene" <=> (b \in lost' \/ \E m \in Nodes : delegate'[m] = b)
    <2>1. CASE b = a
        BY <1>5, <1>6, <2>1
    <2>2. CASE b # a
        <3>1. actor'[b] = actor[b]
            BY <1>6, <2>2
        <3>2. b \in lost' <=> b \in lost \/ b = delegate[n]
            BY <1>1, PhysicsFacts
        <3>3. (\E m \in Nodes : delegate'[m] = b) <=> \E m \in Nodes \ {n} : delegate[m] = b
            BY <1>5, <2>2
        <3> QED
            BY <3>1, <3>2, <3>3, PhysicsFacts
    <2> QED
        BY <2>1, <2>2
<1>11. \A m \in Nodes : delegate'[m] # NoActor => InWorld(m)'
    BY <1>2, <1>5, PhysicsFacts
<1>12. \A m \in Nodes : delegate'[m] \notin lost'
    BY <1>1, <1>3, <1>4, <1>5, PhysicsFacts
<1> QED
    BY <1>2, <1>5, <1>6, <1>7, <1>8, <1>9, <1>10, <1>11, <1>12, PhysicsFactsSuffice

\* A node or more lose their actors, which nobody releases.
LEMMA GiveUpInv ==
    ASSUME PhysicsInv, NEW gone \in SUBSET Nodes,
           delegate' = [n \in Nodes |-> IF n \in gone THEN NoActor ELSE delegate[n]],
           lost' = lost \cup ({delegate[n] : n \in gone} \ {NoActor}),
           frame' \in FrameSteps, UNCHANGED <<worldNodes, actor>>
    PROVE  PhysicsInv'
<1>1. /\ delegate' \in [Nodes -> Actors \cup {NoActor}]
      /\ \A m \in Nodes : delegate'[m] = IF m \in gone THEN NoActor ELSE delegate[m]
    BY PhysicsFacts
<1>2. lost' \subseteq Actors
    BY PhysicsFacts
<1>3. \A m \in Nodes : delegate'[m] # NoActor => actor'[delegate'[m]] = "scene"
    BY <1>1, PhysicsFacts
<1>4. \A m, l \in Nodes : delegate'[m] = delegate'[l] /\ delegate'[m] # NoActor => m = l
    BY <1>1, PhysicsFacts
<1>5. ASSUME NEW b \in Actors
      PROVE  actor'[b] = "scene" <=> (b \in lost' \/ \E m \in Nodes : delegate'[m] = b)
    <2>1. b # NoActor
        BY PhysicsFacts
    <2>2. b \in lost' <=> b \in lost \/ \E m \in gone : delegate[m] = b
        BY <2>1
    <2>3. (\E m \in Nodes : delegate'[m] = b) <=> \E m \in Nodes \ gone : delegate[m] = b
        BY <1>1, <2>1
    <2> QED
        BY <2>2, <2>3, PhysicsFacts
<1>6. \A m \in Nodes : delegate'[m] # NoActor => InWorld(m)'
    BY <1>1, PhysicsFacts DEF InWorld
<1>7. \A m \in Nodes : delegate'[m] \notin lost'
    BY <1>1, PhysicsFacts
<1> QED
    BY <1>1, <1>2, <1>3, <1>4, <1>5, <1>6, <1>7, PhysicsFacts, PhysicsFactsSuffice

LEMMA InsertFailsInv ==
    ASSUME PhysicsInv, NEW n \in Nodes, InsertFails(n)
    PROVE  PhysicsInv'
<1>1. delegate' = [m \in Nodes |-> IF m \in {n} THEN NoActor ELSE delegate[m]]
    BY PhysicsFacts DEF InsertFails
<1>2. lost' = lost \cup ({delegate[m] : m \in {n}} \ {NoActor})
    BY DEF InsertFails, Forgotten
<1>3. {n} \in SUBSET Nodes /\ frame' \in FrameSteps /\ UNCHANGED <<worldNodes, actor>>
    BY PhysicsFacts DEF InsertFails
<1> DEFINE gone == {n}
<1> HIDE DEF gone
<1>4. /\ gone \in SUBSET Nodes
      /\ delegate' = [m \in Nodes |-> IF m \in gone THEN NoActor ELSE delegate[m]]
      /\ lost' = lost \cup ({delegate[m] : m \in gone} \ {NoActor})
    BY <1>1, <1>2, <1>3 DEF gone
<1> QED
    BY <1>3, <1>4, GiveUpInv

LEMMA BeginFrameInv ==
    ASSUME PhysicsInv, NEW invalid \in SUBSET Nodes, BeginFrame(invalid)
    PROVE  PhysicsInv'
<1>1. lost' = lost \cup ({delegate[n] : n \in invalid} \ {NoActor})
    BY DEF BeginFrame
<1> QED
    BY <1>1, GiveUpInv DEF BeginFrame, FrameSteps

LEMMA RemoveNodeInv ==
    ASSUME PhysicsInv, NEW n \in Nodes, RemoveNode(n)
    PROVE  PhysicsInv'
<1> DEFINE p == FirstPlace(n)
<1>1. /\ delegate' = [delegate EXCEPT ![n] = NoActor]
      /\ actor' = ReleaseStarted(n)
      /\ worldNodes' = RemoveAt(worldNodes, p)
      /\ lost' = lost /\ frame' = frame
      /\ InWorld(n)
    BY DEF RemoveNode, DelegateCleared
<1>2. worldNodes \in Seq(Nodes)
    BY PhysicsFacts
<1>3. p \in DOMAIN worldNodes /\ worldNodes[p] = n
    <2>1. PICK m \in DOMAIN worldNodes : worldNodes[m] = n
        BY <1>1 DEF InWorld
    <2>2. \E k \in DOMAIN worldNodes :
              worldNodes[k] = n /\ \A j \in 1..(k - 1) : worldNodes[j] # n
        BY <1>2, <2>1, FirstExists
    <2> QED
        BY <2>2 DEF FirstPlace
<1> HIDE DEF p
<1>4. /\ worldNodes' \in Seq(Nodes)
      /\ Len(worldNodes') = Len(worldNodes) - 1
      /\ \A j \in 1..(p - 1) : worldNodes'[j] = worldNodes[j]
      /\ \A j \in p..(Len(worldNodes) - 1) : worldNodes'[j] = worldNodes[j + 1]
    BY <1>1, <1>2, <1>3, RemoveAtFacts
<1>5. ASSUME NEW m \in Nodes, m # n, InWorld(m)
      PROVE  InWorld(m)'
    <2>1. PICK k \in DOMAIN worldNodes : worldNodes[k] = m
        BY <1>5 DEF InWorld
    <2>2. k \in 1..Len(worldNodes) /\ p \in 1..Len(worldNodes) /\ k # p
          /\ Len(worldNodes) \in Nat
        BY <1>2, <1>3, <1>5, <2>1
    <2>3. DOMAIN worldNodes' = 1..(Len(worldNodes) - 1)
        BY <1>4
    <2>4. CASE k < p
        <3>1. k \in DOMAIN worldNodes' /\ worldNodes'[k] = m
            BY <1>4, <2>1, <2>2, <2>3, <2>4
        <3> QED
            BY <3>1 DEF InWorld
    <2>5. CASE k > p
        <3> DEFINE j == k - 1
        <3>1. j \in p..(Len(worldNodes) - 1) /\ j + 1 = k
            BY <2>2, <2>5
        <3>2. j \in DOMAIN worldNodes' /\ worldNodes'[j] = m
            BY <1>4, <2>1, <2>2, <2>3, <3>1
        <3> QED
            BY <3>2 DEF InWorld
    <2> QED
        BY <2>2, <2>4, <2>5
<1>6. /\ delegate' \in [Nodes -> Actors \cup {NoActor}]
      /\ \A m \in Nodes : delegate'[m] = IF m = n THEN NoActor ELSE delegate[m]
    BY <1>1, PhysicsFacts
<1>7. /\ actor' \in [Actors -> ActorStates]
      /\ \A b \in Actors : actor'[b] = IF b = delegate[n] THEN "releasing" ELSE actor[b]
    <2>1. CASE delegate[n] = NoActor
        BY <1>1, <2>1, PhysicsFacts DEF ReleaseStarted
    <2>2. CASE delegate[n] # NoActor
        <3>1. actor' = [actor EXCEPT ![delegate[n]] = "releasing"]
            BY <1>1, <2>2 DEF ReleaseStarted
        <3> QED
            BY <3>1, PhysicsFacts DEF ActorStates
    <2> QED
        BY <2>1, <2>2
<1>8. \A m \in Nodes : delegate'[m] # NoActor => actor'[delegate'[m]] = "scene"
    BY <1>6, <1>7, PhysicsFacts
<1>9. \A m, l \in Nodes : delegate'[m] = delegate'[l] /\ delegate'[m] # NoActor => m = l
    BY <1>6, PhysicsFacts
<1>10. ASSUME NEW b \in Actors
       PROVE  actor'[b] = "scene" <=> (b \in lost' \/ \E m \in Nodes : delegate'[m] = b)
    <2>1. b # NoActor
        BY PhysicsFacts
    <2>2. CASE b = delegate[n]
        BY <1>1, <1>6, <1>7, <2>1, <2>2, PhysicsFacts
    <2>3. CASE b # delegate[n]
        BY <1>1, <1>6, <1>7, <2>1, <2>3, PhysicsFacts
    <2> QED
        BY <2>2, <2>3
<1>11. \A m \in Nodes : delegate'[m] # NoActor => InWorld(m)'
    BY <1>5, <1>6, PhysicsFacts
<1>12. \A m \in Nodes : delegate'[m] \notin lost'
    BY <1>1, <1>6, PhysicsFacts
<1>13. lost' \subseteq Actors /\ frame' \in FrameSteps
    BY <1>1, PhysicsFacts
<1> QED
    BY <1>4, <1>6, <1>7, <1>8, <1>9, <1>10, <1>11, <1>12, <1>13, PhysicsFactsSuffice

LEMMA ReleaseInv ==
    ASSUME PhysicsInv, NEW a \in Actors, Release(a)
    PROVE  PhysicsInv'
<1>1. /\ actor[a] = "releasing"
      /\ actor' = [actor EXCEPT ![a] = "free"]
      /\ UNCHANGED <<worldNodes, delegate, lost, frame>>
    BY DEF Release
<1>2. /\ actor' \in [Actors -> ActorStates]
      /\ \A b \in Actors : actor'[b] = IF b = a THEN "free" ELSE actor[b]
    BY <1>1, PhysicsFacts DEF ActorStates
<1>3. \A n \in Nodes : delegate[n] # a
    BY <1>1, PhysicsFacts
<1>4. \A n \in Nodes : InWorld(n) => InWorld(n)'
    BY <1>1 DEF InWorld
<1>5. ASSUME NEW b \in Actors
      PROVE  actor'[b] = "scene" <=> (b \in lost' \/ \E m \in Nodes : delegate'[m] = b)
    BY <1>1, <1>2, PhysicsFacts
<1>6. \A n \in Nodes : delegate'[n] # NoActor => actor'[delegate'[n]] = "scene"
    BY <1>1, <1>2, <1>3, PhysicsFacts
<1> QED
    BY <1>1, <1>2, <1>4, <1>5, <1>6, PhysicsFacts, PhysicsFactsSuffice

LEMMA PhysicsStepInv == PhysicsInv /\ [PhysicsNext]_physicsVars => PhysicsInv'
<1> SUFFICES ASSUME PhysicsInv, [PhysicsNext]_physicsVars PROVE PhysicsInv'
    OBVIOUS
<1>1. CASE UNCHANGED physicsVars
    BY <1>1 DEF physicsVars, PhysicsInv, PhysicsTypeOK, DelegatesInScene,
                ActorsNotShared, SceneAccounted, DelegatesInWorld, LostForGood, InWorld
<1>2. CASE EndFrame
    BY <1>2 DEF EndFrame, PhysicsInv, PhysicsTypeOK, DelegatesInScene, FrameSteps,
                ActorsNotShared, SceneAccounted, DelegatesInWorld, LostForGood, InWorld
<1> QED
    BY <1>1, <1>2, InsertNodeInv, InsertFailsInv, RemoveNodeInv, BeginFrameInv, ReleaseInv
    DEF PhysicsNext

LEMMA PhysicsInvariance == PhysicsSpec => []PhysicsInv
BY PhysicsInitInv, PhysicsStepInv, PTL DEF PhysicsSpec

\* No frame pushes or reads the position of an actor that a release thread frees,
\* for any number of nodes, actors and threads.
THEOREM DelegatesAlwaysInScene == PhysicsSpec => []DelegatesInScene
<1>1. PhysicsInv => DelegatesInScene
    BY DEF PhysicsInv
<1> QED
    BY <1>1, PhysicsInvariance, PTL

\* An actor without a node stays in the scene only when its node was inserted
\* again or a frame gave it up.
THEOREM SceneAlwaysAccounted == PhysicsSpec => []SceneAccounted
<1>1. PhysicsInv => SceneAccounted
    BY DEF PhysicsInv
<1> QED
    BY <1>1, PhysicsInvariance, PTL

-----------------------------------------------------------------------------
(* SystemUpdate *)

\* What the operations do to the cells of a registry with or without duplicates.
LEMMA CellFacts ==
    ASSUME NEW N, NEW r \in Registries(N)
    PROVE  /\ r.cell \in Seq(N) /\ r.size \in Nat /\ r.size <= Len(r.cell)
           /\ Len(r.cell) \in Nat /\ r = [cell |-> r.cell, size |-> r.size]
           /\ \A k \in 1..Len(r.cell) : r.cell[k] \in N
BY DEF Registries

\* What a loop has called grows by the entry it is at.
LEMMA CalledOneMore ==
    ASSUME NEW S, NEW b \in Seq(S), NEW n \in 1..Len(b)
    PROVE  SubSeq(b, 1, n) = Append(SubSeq(b, 1, n - 1), b[n])
<1> DEFINE s == SubSeq(b, 1, n)
           t == SubSeq(b, 1, n - 1)
           u == Append(t, b[n])
<1>1. s \in Seq(S) /\ Len(s) = n /\ \A k \in 1..n : s[k] = b[k]
    OBVIOUS
<1>2. t \in Seq(S) /\ Len(t) = n - 1 /\ \A k \in 1..(n - 1) : t[k] = b[k]
    OBVIOUS
<1>3. b[n] \in S /\ n \in Nat /\ n # 0
    OBVIOUS
<1> HIDE DEF s, t
<1>4. /\ u \in Seq(S) /\ Len(u) = n
      /\ \A k \in 1..(n - 1) : u[k] = b[k]
      /\ u[n] = b[n]
    BY <1>2, <1>3
<1> HIDE DEF u
<1>5. \A k \in 1..n : s[k] = u[k]
    BY <1>1, <1>3, <1>4
<1>6. s = u
    BY <1>1, <1>4, <1>5, SeqEqual
<1> QED
    BY <1>6 DEF s, t, u

\* What a loop has called depends on the cells behind it only.
LEMMA CalledTheSame ==
    ASSUME NEW S, NEW b \in Seq(S), NEW c \in Seq(S), NEW n \in Nat,
           n <= Len(b), n <= Len(c), \A k \in 1..n : b[k] = c[k]
    PROVE  SubSeq(b, 1, n) = SubSeq(c, 1, n)
<1> DEFINE s == SubSeq(b, 1, n)
           t == SubSeq(c, 1, n)
<1>1. s \in Seq(S) /\ Len(s) = n /\ \A k \in 1..n : s[k] = b[k]
    OBVIOUS
<1>2. t \in Seq(S) /\ Len(t) = n /\ \A k \in 1..n : t[k] = c[k]
    OBVIOUS
<1> HIDE DEF s, t
<1>3. s = t
    BY <1>1, <1>2, SeqEqual
<1> QED
    BY <1>3 DEF s, t

LEMMA AddKeepsCells ==
    ASSUME NEW N, NEW r \in Registries(N), NEW x \in N, NEW q, q = Add(r, x)
    PROVE  /\ q \in Registries(N)
           /\ q.size = r.size + 1
           /\ Len(q.cell) >= Len(r.cell)
           /\ \A k \in 1..r.size : q.cell[k] = r.cell[k]
           /\ q.cell[r.size + 1] = x
<1>1. /\ r.cell \in Seq(N) /\ r.size \in Nat /\ r.size <= Len(r.cell)
      /\ Len(r.cell) \in Nat
    BY CellFacts
<1>2. CASE r.size < Len(r.cell)
    <2> DEFINE c == [r.cell EXCEPT ![r.size + 1] = x]
    <2>1. q = [cell |-> c, size |-> r.size + 1]
        BY <1>2 DEF Add
    <2>2. /\ c \in Seq(N) /\ Len(c) = Len(r.cell)
          /\ \A k \in 1..r.size : c[k] = r.cell[k]
          /\ c[r.size + 1] = x
        BY <1>1, <1>2
    <2> QED
        BY <1>1, <1>2, <2>1, <2>2 DEF Registries
<1>3. CASE ~(r.size < Len(r.cell))
    <2> DEFINE c == Append(r.cell, x)
    <2>1. q = [cell |-> c, size |-> r.size + 1]
        BY <1>3 DEF Add
    <2>2. /\ c \in Seq(N) /\ Len(c) = Len(r.cell) + 1
          /\ \A k \in 1..r.size : c[k] = r.cell[k]
          /\ c[r.size + 1] = x
        BY <1>1, <1>3
    <2> QED
        BY <1>1, <1>3, <2>1, <2>2 DEF Registries
<1> QED
    BY <1>2, <1>3

LEMMA UnregisterShrinks ==
    ASSUME NEW N, NEW r \in Registries(N), NEW x \in Registered(r),
           NEW q, q = Unregister(r, x)
    PROVE  /\ q \in Registries(N)
           /\ q.size = r.size - 1
           /\ r.size > 0
           /\ Len(q.cell) = Len(r.cell)
           /\ \E p \in 1..r.size :
                 /\ r.cell[p] = x
                 /\ \A k \in 1..q.size :
                       q.cell[k] = IF p <= k THEN r.cell[k + 1] ELSE r.cell[k]
<1>1. /\ r.cell \in Seq(N) /\ r.size \in Nat /\ r.size <= Len(r.cell)
      /\ Len(r.cell) \in Nat /\ \A k \in 1..Len(r.cell) : r.cell[k] \in N
    BY CellFacts
<1>2. r.size > 0
    BY <1>1 DEF Registered
<1> DEFINE p == Position(r, x)
           Moved(k) == p <= k /\ k < r.size
           c == [k \in 1..Len(r.cell) |-> IF Moved(k) THEN r.cell[k + 1] ELSE r.cell[k]]
<1>3. q = [cell |-> c, size |-> r.size - 1]
    <2>1. DOMAIN r.cell = 1..Len(r.cell)
        BY <1>1
    <2> QED
        BY <2>1, Zenon DEF Unregister
<1>4. p \in 1..r.size /\ r.cell[p] = x
    <2>1. PICK m \in 1..r.size : r.cell[m] = x
        BY DEF Registered
    <2>2. m \in DOMAIN r.cell
        BY <1>1, <2>1
    <2> DEFINE s == r.cell
    <2> HIDE DEF c, Moved, p, s
    <2>3. PICK k \in DOMAIN s : s[k] = x /\ \A j \in 1..(k - 1) : s[j] # x
        <3>1. s \in Seq(N) /\ m \in DOMAIN s /\ s[m] = x
            BY <1>1, <2>1, <2>2 DEF s
        <3> QED
            BY <3>1, FirstExists
    <2> USE DEF s
    <2>4. k \in 1..r.size
        BY <1>1, <2>1, <2>3
    <2>5. \E n \in 1..r.size : r.cell[n] = x /\ \A j \in 1..(n - 1) : r.cell[j] # x
        BY <2>3, <2>4
    <2> QED
        BY <2>5, Zenon DEF Position, p
<1> HIDE DEF p
<1>5. c \in [1..Len(r.cell) -> N]
    <2>1. \A k \in 1..Len(r.cell) : Moved(k) => k + 1 \in 1..Len(r.cell)
        BY <1>1
    <2> HIDE DEF Moved
    <2> QED
        BY <1>1, <2>1
<1>6. \A k \in 1..(r.size - 1) : c[k] = IF p <= k THEN r.cell[k + 1] ELSE r.cell[k]
    BY <1>1
<1> HIDE DEF c
<1>7. c \in Seq(N) /\ Len(c) = Len(r.cell)
    BY <1>1, <1>5
<1> QED
    BY <1>1, <1>2, <1>3, <1>4, <1>6, <1>7 DEF Registries

LEMMA SettledFacts ==
    ASSUME NEW N, NEW r \in Registries(N), NEW q, q = Settled(r)
    PROVE  q \in Registries(N) /\ q.size = r.size /\ Len(q.cell) = r.size
<1> DEFINE c == SubSeq(r.cell, 1, r.size)
<1>1. r.cell \in Seq(N) /\ r.size \in Nat /\ r.size <= Len(r.cell)
    BY CellFacts
<1>2. c \in Seq(N) /\ Len(c) = r.size
    BY <1>1
<1>3. q = [cell |-> c, size |-> Len(c)]
    BY DEF Settled, Registry
<1> QED
    BY <1>1, <1>2, <1>3 DEF Registries

LEMMA NothingRegistered ==
    ASSUME NEW N, NEW q, q = Registry(<<>>)
    PROVE  q \in Registries(N) /\ q.size = 0 /\ q.cell = <<>>
BY DEF Registries, Registry

\* Nobody else, or one more, is behind the loop uncalled.
LEMMA PassedGrows ==
    ASSUME IsFiniteSet(Passed), NEW y, Passed' \subseteq Passed \cup {y}
    PROVE  /\ IsFiniteSet(Passed')
           /\ Cardinality(Passed') <= Cardinality(Passed) + 1
           /\ Passed' \subseteq Passed => Cardinality(Passed') <= Cardinality(Passed)
<1>1. /\ IsFiniteSet(Passed \cup {y})
      /\ Cardinality(Passed) \in Nat
      /\ Cardinality(Passed \cup {y}) <= Cardinality(Passed) + 1
    BY FS_AddElement, FS_CardinalityType
<1>2. /\ IsFiniteSet(Passed')
      /\ Cardinality(Passed') \in Nat
      /\ Cardinality(Passed') <= Cardinality(Passed \cup {y})
    BY <1>1, FS_Subset, FS_CardinalityType
<1>3. Cardinality(Passed \cup {y}) \in Nat
    BY <1>1, FS_CardinalityType
<1>4. Passed' \subseteq Passed => Cardinality(Passed') <= Cardinality(Passed)
    BY FS_Subset
<1> QED
    BY <1>1, <1>2, <1>3, <1>4

LEMMA UpdateInitInv == UpdateInit => LoopInv
<1> SUFFICES ASSUME UpdateInit PROVE LoopInv
    OBVIOUS
<1>1. entries \in Registries(Entries) /\ begun \in Registries(Entries)
    BY NothingRegistered DEF UpdateInit
<1>2. UpdateTypeOK
    BY <1>1, UpdateAssumption DEF UpdateInit, UpdateTypeOK
<1>3. Len(called) = 0 /\ Outside /\ pastEnd = 0
    BY DEF UpdateInit, Outside
<1> QED
    BY <1>2, <1>3 DEF LoopInv, CallsWhatItFound

LEMMA AddEntryInv ==
    ASSUME LoopInv, NEW x \in Entries, AddEntry(x)
    PROVE  LoopInv'
<1>1. /\ entries' = Add(entries, x)
      /\ loopOver = "listeners" \/ x \notin Cells(begun)
      /\ UNCHANGED <<loopOver, at, until, begun, called, pastEnd, removals>>
    BY DEF AddEntry, walkVars, Unused
<1>2. entries \in Registries(Entries) /\ UpdateTypeOK
    BY DEF LoopInv, UpdateTypeOK
<1>3. /\ entries' \in Registries(Entries)
      /\ entries'.size = entries.size + 1
      /\ Len(entries'.cell) >= Len(entries.cell)
      /\ \A k \in 1..entries.size : entries'.cell[k] = entries.cell[k]
      /\ entries'.cell[entries.size + 1] = x
    BY <1>1, <1>2, AddKeepsCells
<1>4. UpdateTypeOK'
    BY <1>1, <1>2, <1>3 DEF UpdateTypeOK
<1>5. entries.size \in Nat /\ Len(entries.cell) \in Nat /\ Len(entries'.cell) \in Nat
      /\ until \in Nat /\ removals \in Nat
    <2>1. entries.size \in Nat /\ Len(entries.cell) \in Nat
        BY <1>2, CellFacts
    <2>2. Len(entries'.cell) \in Nat
        BY <1>3, CellFacts
    <2> QED
        BY <1>2, <2>1, <2>2 DEF UpdateTypeOK
<1>6. ASSUME ~Outside
      PROVE  Shrunk' /\ SystemsLoop'
    <2>1. Shrunk /\ SystemsLoop
        BY <1>6 DEF LoopInv
    <2>2. Shrunk'
        BY <1>1, <1>3, <1>5, <2>1 DEF Shrunk
    <2>3. SystemsLoop'
        <3> SUFFICES ASSUME loopOver = "systems"
                     PROVE  SystemsLoop'
            BY <1>1 DEF SystemsLoop
        <3>1. /\ at <= until + 1
              /\ pastEnd = 0 \/ pastEnd < at - (until - removals)
            BY <2>1 DEF SystemsLoop
        <3>2. ASSUME removals = 0, NEW k \in 1..until
              PROVE  entries'.cell[k] = begun.cell[k]
            <4>1. k \in 1..entries.size
                BY <1>5, <2>1, <3>2 DEF Shrunk
            <4> QED
                BY <1>3, <2>1, <3>2, <4>1 DEF SystemsLoop
        <3> QED
            BY <1>1, <3>1, <3>2 DEF SystemsLoop
    <2> QED
        BY <2>2, <2>3
<1>7. loopOver = "listeners" \/ x \notin Registered(begun)
    <2>1. Registered(begun) \subseteq Cells(begun)
        BY <1>2, CellFacts DEF UpdateTypeOK, Registered, Cells
    <2> QED
        BY <1>1, <2>1
<1>8. ASSUME ~Outside
      PROVE  PassedBounded'
    <2>1. PassedBounded
        BY <1>8 DEF LoopInv
    <2>2. \A k \in 1..entries'.size :
              \/ k \in 1..entries.size /\ entries'.cell[k] = entries.cell[k]
              \/ entries'.cell[k] = x
        BY <1>3, <1>5
    <2>3. ASSUME NEW y \in Passed'
          PROVE  y \in Passed
        <3>1. /\ y \in Registered(begun)
              /\ \A k \in DOMAIN called : called[k] # y
            BY <1>1, <2>3 DEF Passed
        <3>2. CASE y \notin Registered(entries)
            BY <3>1, <3>2 DEF Passed, Behind
        <3>3. CASE y \in Registered(entries)
            <4>1. PICK m \in 1..entries.size : entries.cell[m] = y
                BY <3>3 DEF Registered
            <4>2. y \in Registered(entries')
                BY <1>3, <1>5, <4>1 DEF Registered
            <4>3. PICK k \in 1..(at - 1) : k <= entries'.size /\ entries'.cell[k] = y
                BY <1>1, <2>3, <4>2 DEF Passed, Behind
            <4>4. at \in Nat
                BY <1>2 DEF UpdateTypeOK
            <4>5. CASE k \in 1..entries.size
                BY <1>3, <3>1, <4>3, <4>5 DEF Passed, Behind
            <4>6. CASE k = entries.size + 1
                <5>1. m \in 1..(at - 1) /\ m <= entries.size
                    BY <1>5, <4>1, <4>3, <4>4, <4>6
                <5> QED
                    BY <3>1, <4>1, <5>1 DEF Passed, Behind
            <4> QED
                BY <1>3, <1>5, <4>3, <4>4, <4>5, <4>6
        <3> QED
            BY <3>2, <3>3
    <2>4. IsFiniteSet(Passed') /\ Cardinality(Passed') <= Cardinality(Passed)
        BY <2>1, <2>3, PassedGrows DEF PassedBounded
    <2>5. Cardinality(Passed') <= removals'
        <3>1. Cardinality(Passed) \in Nat /\ Cardinality(Passed') \in Nat
            BY <2>1, <2>4, FS_CardinalityType DEF PassedBounded
        <3> QED
            BY <1>1, <1>5, <2>1, <2>4, <3>1 DEF PassedBounded
    <2>6. loopOver = "systems" =>
              \A k \in 1..entries'.size : entries'.cell[k] \in Registered(begun) => k <= until
        BY <1>7, <2>1, <2>2 DEF PassedBounded
    <2> QED
        BY <1>1, <2>4, <2>5, <2>6 DEF PassedBounded
<1>9. CallsWhatItFound'
    <2> SUFFICES ASSUME removals = 0, ~Outside, loopOver # "systems"
                 PROVE  /\ at - 1 <= entries'.size
                        /\ called = SubSeq(entries'.cell, 1, at - 1)
        BY <1>1 DEF LoopInv, CallsWhatItFound, Outside
    <2>1. at - 1 <= entries.size /\ called = SubSeq(entries.cell, 1, at - 1)
        BY DEF LoopInv, CallsWhatItFound
    <2>2. at - 1 \in Nat
        BY <1>2 DEF UpdateTypeOK, Outside
    <2>3. SubSeq(entries.cell, 1, at - 1) = SubSeq(entries'.cell, 1, at - 1)
        <3>1. /\ entries.cell \in Seq(Entries) /\ entries'.cell \in Seq(Entries)
              /\ entries.size <= Len(entries.cell)
            BY <1>2, <1>3, CellFacts
        <3> QED
            BY <1>3, <1>5, <2>1, <2>2, <3>1, CalledTheSame
    <2> QED
        BY <1>3, <1>5, <2>1, <2>2, <2>3
<1> QED
    BY <1>1, <1>4, <1>6, <1>8, <1>9 DEF LoopInv, Outside

LEMMA RemoveEntryInv ==
    ASSUME LoopInv, NEW x \in Entries, RemoveEntry(x)
    PROVE  LoopInv'
<1> DEFINE q == Unregister(entries, x)
<1>1. /\ x \in Registered(entries) /\ removals < MaxRemovals
      /\ UNCHANGED <<loopOver, at, until, begun, called, pastEnd>>
    BY DEF RemoveEntry, walkVars
<1>2. entries \in Registries(Entries) /\ UpdateTypeOK
    BY DEF LoopInv, UpdateTypeOK
<1>3. /\ q \in Registries(Entries) /\ q.size = entries.size - 1
      /\ entries.size > 0 /\ Len(q.cell) = Len(entries.cell)
      /\ \E p \in 1..entries.size :
            /\ entries.cell[p] = x
            /\ \A k \in 1..q.size :
                  q.cell[k] = IF p <= k THEN entries.cell[k + 1] ELSE entries.cell[k]
    BY <1>1, <1>2, UnregisterShrinks
<1> HIDE DEF q
<1>4. CASE Outside
    <2>1. entries' = Settled(q) /\ removals' = removals
        BY <1>4 DEF RemoveEntry, q
    <2>2. entries' \in Registries(Entries)
        BY <1>3, <2>1, SettledFacts
    <2>3. UpdateTypeOK'
        BY <1>1, <1>2, <2>1, <2>2 DEF UpdateTypeOK
    <2> QED
        BY <1>1, <1>4, <2>1, <2>3 DEF LoopInv, Outside, CallsWhatItFound
<1>5. CASE ~Outside
    <2>1. entries' = q /\ removals' = removals + 1
        BY <1>5 DEF RemoveEntry, q
    <2>2. UpdateTypeOK'
        BY <1>1, <1>2, <1>3, <2>1, UpdateAssumption DEF UpdateTypeOK
    <2>3. /\ entries.size \in Nat /\ Len(entries.cell) \in Nat
          /\ until \in Nat /\ removals \in Nat /\ at \in Nat /\ pastEnd \in Nat
        BY <1>2, CellFacts DEF UpdateTypeOK
    <2>4. Shrunk /\ SystemsLoop
        BY <1>5 DEF LoopInv
    <2>5. Shrunk'
        BY <1>1, <1>3, <2>1, <2>3, <2>4 DEF Shrunk
    <2>6. SystemsLoop'
        BY <1>1, <2>1, <2>3, <2>4 DEF SystemsLoop
    <2>7. CallsWhatItFound'
        BY <2>1, <2>3 DEF CallsWhatItFound
    <2>8. PassedBounded
        BY <1>5 DEF LoopInv
    <2>9. PICK p \in 1..entries.size :
              /\ entries.cell[p] = x
              /\ \A k \in 1..q.size :
                    q.cell[k] = IF p <= k THEN entries.cell[k + 1] ELSE entries.cell[k]
        BY <1>3
    <2> DEFINE w == IF p < at THEN entries.cell[at] ELSE x
    <2>10. ASSUME NEW y \in Passed'
           PROVE  y \in Passed \cup {w}
        <3>1. /\ y \in Registered(begun)
              /\ \A k \in DOMAIN called : called[k] # y
              /\ \/ y \notin Registered(q)
                 \/ \E k \in 1..(at - 1) : k <= q.size /\ q.cell[k] = y
            BY <1>1, <2>1, <2>10 DEF Passed, Behind
        <3>2. CASE y \notin Registered(entries)
            BY <3>1, <3>2 DEF Passed, Behind
        <3>3. CASE y \in Registered(entries) /\ y \notin Registered(q)
            <4>1. PICK m \in 1..entries.size : entries.cell[m] = y
                BY <3>3 DEF Registered
            <4>2. \A k \in 1..q.size : q.cell[k] # y
                BY <3>3 DEF Registered
            <4>3. ~(m < p)
                <5>1. m < p => m \in 1..q.size /\ ~(p <= m)
                    BY <1>3, <2>3
                <5> QED
                    BY <2>9, <4>1, <4>2, <5>1
            <4>4. ~(m > p)
                <5>1. m > p => m - 1 \in 1..q.size /\ p <= m - 1 /\ (m - 1) + 1 = m
                    BY <1>3, <2>3
                <5> QED
                    BY <2>9, <4>1, <4>2, <5>1
            <4>5. m = p /\ y = x
                BY <2>3, <2>9, <4>1, <4>3, <4>4
            <4>6. CASE p < at
                <5>1. p \in 1..(at - 1) /\ p <= entries.size
                    BY <2>3, <4>6
                <5> QED
                    BY <2>9, <3>1, <4>5, <5>1 DEF Passed, Behind
            <4> QED
                BY <4>5, <4>6
        <3>4. CASE \E k \in 1..(at - 1) : k <= q.size /\ q.cell[k] = y
            <4>1. PICK k \in 1..(at - 1) : k <= q.size /\ q.cell[k] = y
                BY <3>4
            <4>2. k \in 1..q.size /\ k <= entries.size /\ k + 1 <= entries.size
                BY <1>3, <2>3, <4>1
            <4>3. CASE ~(p <= k)
                <5>1. entries.cell[k] = y
                    BY <2>9, <4>1, <4>2, <4>3
                <5> QED
                    BY <3>1, <4>1, <4>2, <5>1 DEF Passed, Behind
            <4>4. CASE p <= k
                <5>1. entries.cell[k + 1] = y
                    BY <2>9, <4>1, <4>2, <4>4
                <5>2. \/ k + 1 = at /\ p < at
                      \/ k + 1 \in 1..(at - 1)
                    BY <2>3, <4>1, <4>4
                <5> QED
                    BY <3>1, <4>2, <5>1, <5>2 DEF Passed, Behind
            <4> QED
                BY <4>3, <4>4
        <3> QED
            BY <3>1, <3>2, <3>3, <3>4
    <2> HIDE DEF w
    <2>11. IsFiniteSet(Passed') /\ Cardinality(Passed') <= removals'
        <3>1. /\ IsFiniteSet(Passed')
              /\ Cardinality(Passed') <= Cardinality(Passed) + 1
            BY <2>8, <2>10, PassedGrows DEF PassedBounded
        <3>2. Cardinality(Passed) \in Nat /\ Cardinality(Passed') \in Nat
            BY <2>8, <3>1, FS_CardinalityType DEF PassedBounded
        <3> QED
            BY <2>1, <2>3, <2>8, <3>1, <3>2 DEF PassedBounded
    <2>12. ASSUME loopOver = "systems", NEW k \in 1..q.size, q.cell[k] \in Registered(begun)
           PROVE  k <= until
        <3>1. k \in 1..entries.size /\ k + 1 \in 1..entries.size
            BY <1>3, <2>3
        <3>2. \A m \in 1..entries.size : entries.cell[m] \in Registered(begun) => m <= until
            BY <2>8, <2>12 DEF PassedBounded
        <3>3. CASE p <= k
            BY <2>3, <2>9, <2>12, <3>1, <3>2, <3>3
        <3>4. CASE ~(p <= k)
            BY <2>3, <2>9, <2>12, <3>1, <3>2, <3>4
        <3> QED
            BY <3>3, <3>4
    <2>13. PassedBounded'
        BY <1>1, <2>1, <2>11, <2>12 DEF PassedBounded
    <2> QED
        BY <1>1, <1>5, <2>2, <2>5, <2>6, <2>7, <2>13 DEF LoopInv, Outside
<1> QED
    BY <1>4, <1>5

LEMMA BeginInv ==
    ASSUME LoopInv, Begin
    PROVE  LoopInv'
<1>1. /\ at' = 1 /\ until' = entries.size /\ entries' = Settled(entries)
      /\ begun' = entries' /\ called' = <<>> /\ pastEnd' = 0 /\ removals' = 0
      /\ loopOver' = loopOver
    BY DEF Begin
<1>2. entries \in Registries(Entries) /\ UpdateTypeOK
    BY DEF LoopInv, UpdateTypeOK
<1>3. /\ entries' \in Registries(Entries) /\ entries'.size = entries.size
      /\ Len(entries'.cell) = entries.size /\ entries.size \in Nat
    BY <1>1, <1>2, SettledFacts, CellFacts
<1>4. UpdateTypeOK'
    BY <1>1, <1>2, <1>3, UpdateAssumption DEF UpdateTypeOK
<1>5. Shrunk'
    BY <1>1, <1>3 DEF Shrunk
<1>6. SystemsLoop'
    BY <1>1, <1>3 DEF SystemsLoop
<1>7. CallsWhatItFound'
    <2>1. SubSeq(begun'.cell, 1, 0) = <<>>
        BY <1>1, <1>3, CellFacts
    <2> QED
        BY <1>1, <1>3, <2>1 DEF CallsWhatItFound
<1>8. PassedBounded'
    <2>1. \A y : y \notin Passed'
        BY <1>1, <1>3 DEF Passed, Behind
    <2>2. IsFiniteSet(Passed') /\ Cardinality(Passed') = 0
        <3>1. Passed' = {}
            BY <2>1
        <3> QED
            BY <3>1, FS_EmptySet
    <2> QED
        BY <1>1, <1>3, <2>2 DEF PassedBounded
<1> QED
    BY <1>1, <1>4, <1>5, <1>6, <1>7, <1>8 DEF LoopInv, Outside

LEMMA CallInv ==
    ASSUME LoopInv, Call
    PROVE  LoopInv'
<1>1. /\ ~Outside /\ at <= EndOfLoop
      /\ called' = Append(called, entries.cell[at])
      /\ pastEnd' = IF at <= entries.size THEN pastEnd ELSE pastEnd + 1
      /\ at' = at + 1
      /\ UNCHANGED <<loopOver, entries, until, begun, removals>>
    BY DEF Call
<1>2. /\ UpdateTypeOK /\ Shrunk /\ SystemsLoop /\ CallsWhatItFound
      /\ Len(called) = at - 1
      /\ loopOver = "listeners" => pastEnd = 0
    BY <1>1 DEF LoopInv
<1>3. /\ entries \in Registries(Entries) /\ begun \in Registries(Entries)
      /\ at \in Nat /\ at # 0 /\ until \in Nat /\ removals \in Nat /\ pastEnd \in Nat
      /\ called \in Seq(Entries) /\ loopOver \in {"systems", "listeners"}
    BY <1>1, <1>2 DEF UpdateTypeOK, Outside, LoopsOver
<1>4. /\ entries.size \in Nat /\ Len(entries.cell) \in Nat
      /\ entries.size <= Len(entries.cell)
      /\ \A k \in 1..Len(entries.cell) : entries.cell[k] \in Entries
    BY <1>3, CellFacts
<1>5. at \in 1..Len(entries.cell)
    BY <1>1, <1>2, <1>3, <1>4 DEF EndOfLoop, Shrunk
<1>6. called' \in Seq(Entries) /\ Len(called') = at' - 1
    BY <1>1, <1>2, <1>3, <1>4, <1>5
<1>7. UpdateTypeOK'
    BY <1>1, <1>2, <1>3, <1>6 DEF UpdateTypeOK
<1>8. Shrunk'
    BY <1>1, <1>2 DEF Shrunk
<1>9. loopOver' = "listeners" => pastEnd' = 0
    BY <1>1, <1>2 DEF EndOfLoop
<1>10. ASSUME loopOver = "systems"
       PROVE  SystemsLoop' /\ CallsWhatItFound'
    <2>1. /\ at <= until
          /\ pastEnd = 0 \/ pastEnd < at - (until - removals)
          /\ removals = 0 => \A k \in 1..until : entries.cell[k] = begun.cell[k]
        BY <1>1, <1>2, <1>10 DEF EndOfLoop, SystemsLoop
    <2>2. pastEnd' = 0 \/ pastEnd' < at' - (until' - removals')
        <3>1. CASE at <= entries.size
            BY <1>1, <1>3, <2>1, <3>1
        <3>2. CASE ~(at <= entries.size)
            <4>1. at > until - removals
                BY <1>2, <1>3, <1>4, <3>2 DEF Shrunk
            <4> QED
                BY <1>1, <1>3, <2>1, <3>2, <4>1
        <3> QED
            BY <3>1, <3>2
    <2>3. SystemsLoop'
        BY <1>1, <1>3, <2>1, <2>2 DEF SystemsLoop
    <2>4. ASSUME removals = 0
          PROVE  at <= begun.size /\ called' = SubSeq(begun.cell, 1, at)
        <3>1. called = SubSeq(begun.cell, 1, at - 1) /\ until = begun.size
            BY <1>1, <1>2, <1>10, <2>4 DEF CallsWhatItFound, Shrunk
        <3>2. begun.cell \in Seq(Entries) /\ begun.size <= Len(begun.cell)
              /\ begun.size \in Nat /\ Len(begun.cell) \in Nat
            BY <1>3, CellFacts
        <3>3. entries.cell[at] = begun.cell[at]
            BY <1>3, <2>1, <2>4
        <3>4. called' = Append(SubSeq(begun.cell, 1, at - 1), begun.cell[at])
            BY <1>1, <3>1, <3>3
        <3>5. SubSeq(begun.cell, 1, at) = Append(SubSeq(begun.cell, 1, at - 1), begun.cell[at])
            <4>1. at \in 1..Len(begun.cell)
                BY <1>3, <2>1, <3>1, <3>2
            <4> QED
                BY <3>2, <4>1, CalledOneMore
        <3> QED
            BY <2>1, <3>1, <3>4, <3>5
    <2>5. CallsWhatItFound'
        <3>1. at' - 1 = at
            BY <1>1, <1>3
        <3> QED
            BY <1>1, <1>10, <2>4, <3>1 DEF CallsWhatItFound
    <2> QED
        BY <2>3, <2>5
<1>11. ASSUME loopOver = "listeners"
       PROVE  SystemsLoop' /\ CallsWhatItFound'
    <2>1. SystemsLoop'
        BY <1>1, <1>11 DEF SystemsLoop
    <2>2. ASSUME removals = 0
          PROVE  at <= entries.size /\ called' = SubSeq(entries.cell, 1, at)
        <3>1. at <= entries.size /\ called = SubSeq(entries.cell, 1, at - 1)
            BY <1>1, <1>2, <1>11, <2>2 DEF CallsWhatItFound, EndOfLoop
        <3>2. entries.cell \in Seq(Entries)
            BY <1>3, CellFacts
        <3> QED
            BY <1>1, <1>5, <3>1, <3>2, CalledOneMore
    <2>3. at' - 1 = at
        BY <1>1, <1>3
    <2> QED
        BY <1>1, <1>11, <2>1, <2>2, <2>3 DEF CallsWhatItFound
<1>12. ~Outside'
    BY <1>1, <1>3 DEF Outside
<1>13. PassedBounded'
    <2>1. PassedBounded
        BY <1>1 DEF LoopInv
    <2>2. ASSUME NEW y \in Passed'
          PROVE  y \in Passed
        <3>1. /\ y \in Registered(begun)
              /\ \A k \in DOMAIN called' : called'[k] # y
              /\ \/ y \notin Registered(entries)
                 \/ \E k \in 1..at : k <= entries.size /\ entries.cell[k] = y
            BY <1>1, <1>3, <2>2 DEF Passed, Behind
        <3>2. /\ Len(called) + 1 \in DOMAIN called'
              /\ called'[Len(called) + 1] = entries.cell[at]
              /\ \A m \in DOMAIN called : m \in DOMAIN called' /\ called'[m] = called[m]
            BY <1>1, <1>3, <1>4, <1>5
        <3>3. entries.cell[at] # y /\ \A m \in DOMAIN called : called[m] # y
            BY <3>1, <3>2
        <3>4. Behind(y)
            BY <1>3, <3>1, <3>3 DEF Behind
        <3> QED
            BY <3>1, <3>3, <3>4 DEF Passed
    <2>3. IsFiniteSet(Passed') /\ Cardinality(Passed') <= Cardinality(Passed)
        BY <2>1, <2>2, PassedGrows DEF PassedBounded
    <2>4. Cardinality(Passed) \in Nat /\ Cardinality(Passed') \in Nat
        BY <2>1, <2>3, FS_CardinalityType DEF PassedBounded
    <2> QED
        BY <1>1, <1>3, <2>1, <2>3, <2>4 DEF PassedBounded
<1> QED
    BY <1>3, <1>6, <1>7, <1>8, <1>9, <1>10, <1>11, <1>12, <1>13 DEF LoopInv

LEMMA FinishInv ==
    ASSUME LoopInv, Finish
    PROVE  LoopInv'
<1>1. /\ at' = 0 /\ until' = 0 /\ entries' = Settled(entries)
      /\ begun' = Registry(<<>>) /\ called' = <<>> /\ pastEnd' = 0 /\ removals' = 0
      /\ loopOver' = loopOver
    BY DEF Finish
<1>2. entries \in Registries(Entries) /\ UpdateTypeOK
    BY DEF LoopInv, UpdateTypeOK
<1>3. entries' \in Registries(Entries) /\ begun' \in Registries(Entries)
    BY <1>1, <1>2, SettledFacts, NothingRegistered
<1>4. UpdateTypeOK'
    BY <1>1, <1>2, <1>3, UpdateAssumption DEF UpdateTypeOK
<1> QED
    BY <1>1, <1>4 DEF LoopInv, Outside, CallsWhatItFound

LEMMA UpdateStepInv == LoopInv /\ [UpdateNext]_updateVars => LoopInv'
<1> SUFFICES ASSUME LoopInv, [UpdateNext]_updateVars PROVE LoopInv'
    OBVIOUS
<1>1. CASE UNCHANGED updateVars
    BY <1>1 DEF updateVars, walkVars, LoopInv, UpdateTypeOK, Outside, Shrunk, SystemsLoop,
                CallsWhatItFound, PassedBounded, Passed, Behind
<1> QED
    BY <1>1, AddEntryInv, RemoveEntryInv, BeginInv, CallInv, FinishInv DEF UpdateNext

\* The invariant of the loops, for any number of entries, cells and removals.
THEOREM LoopInvariance == UpdateSpec => []LoopInv
BY UpdateInitInv, UpdateStepInv, PTL DEF UpdateSpec

\* Without removals a system's loop calls what was registered when it began, in
\* order, whatever is registered meanwhile and however much; the loop over the
\* listeners calls what is registered meanwhile as well.
THEOREM LoopsCallWhatTheyFound == UpdateSpec => []CallsWhatItFound
<1>1. LoopInv => CallsWhatItFound
    BY DEF LoopInv
<1> QED
    BY <1>1, LoopInvariance, PTL

\* A loop calls no more entries behind the end than were removed during it.
THEOREM PastEndAlwaysBounded == UpdateSpec => []PastEndBounded
<1>1. LoopInv => PastEndBounded
    <2> SUFFICES ASSUME LoopInv PROVE PastEndBounded
        OBVIOUS
    <2>1. /\ removals \in Nat /\ pastEnd \in Nat /\ at \in Nat /\ until \in Nat
          /\ loopOver \in {"systems", "listeners"}
        BY DEF LoopInv, UpdateTypeOK, LoopsOver
    <2>2. CASE Outside \/ loopOver = "listeners"
        BY <2>1, <2>2 DEF LoopInv, PastEndBounded
    <2>3. CASE ~Outside /\ loopOver = "systems"
        <3>1. /\ at <= until + 1
              /\ pastEnd = 0 \/ pastEnd < at - (until - removals)
            BY <2>3 DEF LoopInv, SystemsLoop
        <3> QED
            BY <2>1, <2>3, <3>1 DEF PastEndBounded
    <2> QED
        BY <2>1, <2>2, <2>3
<1> QED
    BY <1>1, LoopInvariance, PTL

\* A loop that is through has called everything that was registered all the time,
\* but for at most one entry for every removal.
THEOREM SkippedAlwaysBounded == UpdateSpec => []SkippedBounded
<1>1. LoopInv => SkippedBounded
    <2> SUFFICES ASSUME LoopInv, ~Outside, at > EndOfLoop
                 PROVE  Cardinality(Skipped) <= removals
        BY DEF SkippedBounded
    <2>1. /\ PassedBounded
          /\ at \in Nat /\ until \in Nat /\ entries.size \in Nat
          /\ loopOver \in {"systems", "listeners"}
        BY CellFacts DEF LoopInv, UpdateTypeOK, LoopsOver
    <2>2. ASSUME NEW x \in Skipped
          PROVE  x \in Passed
        <3>1. PICK k \in 1..entries.size : entries.cell[k] = x
            BY <2>2 DEF Skipped, Registered
        <3>2. loopOver = "systems" => k <= until
            BY <2>1, <2>2, <3>1 DEF PassedBounded, Skipped
        <3>3. k \in 1..(at - 1)
            BY <2>1, <3>1, <3>2 DEF EndOfLoop
        <3> QED
            BY <2>1, <2>2, <3>1, <3>3 DEF Passed, Skipped, Behind
    <2>3. /\ Cardinality(Skipped) <= Cardinality(Passed)
          /\ Cardinality(Passed) <= removals
        BY <2>1, <2>2, FS_Subset DEF PassedBounded
    <2>4. /\ Cardinality(Skipped) \in Nat /\ Cardinality(Passed) \in Nat
          /\ removals \in Nat
        BY <2>1, <2>2, FS_Subset, FS_CardinalityType DEF PassedBounded, LoopInv, UpdateTypeOK
    <2> QED
        BY <2>3, <2>4
<1> QED
    BY <1>1, LoopInvariance, PTL

=============================================================================
