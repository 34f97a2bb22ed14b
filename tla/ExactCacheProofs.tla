-------------------------- MODULE ExactCacheProofs --------------------------
(***************************************************************************)
(* The exact tier for any number of tenants, requests and entries: its     *)
(* list, maps and count always describe one set of nodes, and it           *)
(* implements the bounded, expiring LRU cache it promises.                 *)
(*                                                                         *)
(* ListIntact speaks of the walk along the links, which a step on the      *)
(* links says little about.  The invariant is instead that there is a      *)
(* sequence of nodes that the links run through in both directions; each   *)
(* operation is then one on that sequence, and the walk is it.             *)
(***************************************************************************)
EXTENDS ExactCache, SumsProofs, SequenceTheorems

-----------------------------------------------------------------------------
(* The list *)

\* What the links of the nodes can be.
Links == [head: Nodes \cup {Nil}, tail: Nodes \cup {Nil},
          next: [Nodes -> Nodes \cup {Nil}], prev: [Nodes -> Nodes \cup {Nil}]]

\* The links of l run through the k nodes of s, each of them once, in both directions.
Threads(s, k, l) ==
    /\ s \in [1..k -> Nodes]
    /\ \A i, j \in 1..k : s[i] = s[j] => i = j
    /\ l.head = IF k = 0 THEN Nil ELSE s[1]
    /\ l.tail = IF k = 0 THEN Nil ELSE s[k]
    /\ \A i \in 1..k : l.next[s[i]] = IF i = k THEN Nil ELSE s[i + 1]
    /\ \A i \in 1..k : l.prev[s[i]] = IF i = 1 THEN Nil ELSE s[i - 1]

\* s without its element at p, and s with n before it.
Omitting(s, k, p) == [i \in 1..(k - 1) |-> IF i < p THEN s[i] ELSE s[i + 1]]
Prefixed(s, k, n) == [i \in 1..(k + 1) |-> IF i = 1 THEN n ELSE s[i - 1]]

\* No node is the missing one.
LEMMA NodesAreReal == \A n \in Nodes : n # Nil
BY ExactAssumption DEF Nodes

\* unlink takes one node out of the list and leaves the others in their order.
LEMMA UnlinkThreads ==
  ASSUME NEW k \in Nat, NEW s, NEW l \in Links, Threads(s, k, l), NEW p \in 1..k
  PROVE  Threads(Omitting(s, k, p), k - 1, unlink(l, s[p]))
<1> DEFINE n == s[p]
           u == unlink(l, n)
           o == Omitting(s, k, p)
<1>1. /\ \A i \in 1..k : s[i] \in Nodes /\ s[i] # Nil
      /\ \A i, j \in 1..k : s[i] = s[j] => i = j
      /\ l.head = s[1] /\ l.tail = s[k]
      /\ \A i \in 1..k : l.next[s[i]] = IF i = k THEN Nil ELSE s[i + 1]
      /\ \A i \in 1..k : l.prev[s[i]] = IF i = 1 THEN Nil ELSE s[i - 1]
  <2>1. k # 0
    OBVIOUS
  <2> QED BY <2>1, NodesAreReal DEF Threads
<1>2. /\ u.head = IF l.prev[n] = Nil /\ l.head = n THEN l.next[n] ELSE l.head
      /\ u.tail = IF l.next[n] = Nil /\ l.tail = n THEN l.prev[n] ELSE l.tail
      /\ \A m \in Nodes : u.next[m] = IF m = n THEN Nil
                               ELSE IF m = l.prev[n] THEN l.next[n] ELSE l.next[m]
      /\ \A m \in Nodes : u.prev[m] = IF m = n THEN Nil
                               ELSE IF m = l.next[n] THEN l.prev[n] ELSE l.prev[m]
  BY DEF unlink
<1>3. /\ DOMAIN o = 1..(k - 1)
      /\ \A i \in 1..(k - 1) : o[i] = IF i < p THEN s[i] ELSE s[i + 1]
      /\ o = [i \in 1..(k - 1) |-> o[i]]
  BY DEF Omitting
<1> HIDE DEF u, o
<1>4. l.next[n] = (IF p = k THEN Nil ELSE s[p + 1]) /\ l.prev[n] = IF p = 1 THEN Nil ELSE s[p - 1]
  BY <1>1
<1>5. o \in [1..(k - 1) -> Nodes]
  BY <1>1, <1>3
<1>6. ASSUME NEW i \in 1..(k - 1), NEW j \in 1..(k - 1), o[i] = o[j] PROVE i = j
  <2>1. /\ i \in 1..k /\ i + 1 \in 1..k /\ j \in 1..k /\ j + 1 \in 1..k
    OBVIOUS
  <2>2. PICK x \in 1..k, y \in 1..k : o[i] = s[x] /\ o[j] = s[y] /\ x = (IF i < p THEN i ELSE i + 1)
                                    /\ y = (IF j < p THEN j ELSE j + 1)
    BY <1>3, <2>1
  <2>3. s[x] = s[y]
    BY <1>6, <2>2
  <2>4. x = y
    BY <1>1, <2>3
  <2> QED BY <2>2, <2>4
<1>7. u.head = IF k - 1 = 0 THEN Nil ELSE o[1]
  BY <1>1, <1>2, <1>3, <1>4
<1>8. u.tail = IF k - 1 = 0 THEN Nil ELSE o[k - 1]
  BY <1>1, <1>2, <1>3, <1>4
<1>9. ASSUME NEW i \in 1..(k - 1) PROVE u.next[o[i]] = IF i = k - 1 THEN Nil ELSE o[i + 1]
  <2>1. CASE i < p - 1
    <3>1. /\ i \in 1..k /\ i + 1 \in 1..k /\ i # k /\ i # p /\ i # k - 1
          /\ i + 1 \in 1..(k - 1) /\ i + 1 < p /\ p - 1 \in 1..k /\ i # p - 1 /\ p # 1
      BY <2>1
    <3>2. s[i] # n /\ s[i] # l.prev[n] /\ o[i] = s[i] /\ o[i + 1] = s[i + 1] /\ s[i] \in Nodes
      BY <1>1, <1>3, <1>4, <3>1
    <3>3. u.next[s[i]] = l.next[s[i]]
      BY <1>2, <3>2
    <3> QED BY <1>1, <3>1, <3>2, <3>3
  <2>2. CASE i = p - 1
    BY <1>1, <1>2, <1>3, <1>4, <2>2
  <2>3. CASE i >= p
    <3>1. /\ i + 1 \in 1..k /\ i + 1 # p
          /\ p # 1 => p - 1 \in 1..k /\ i + 1 # p - 1
      BY <2>3
    <3>2. s[i + 1] # n /\ s[i + 1] # l.prev[n] /\ o[i] = s[i + 1] /\ s[i + 1] \in Nodes
      BY <1>1, <1>3, <1>4, <2>3, <3>1
    <3>3. u.next[s[i + 1]] = l.next[s[i + 1]]
      BY <1>2, <3>2
    <3>4. l.next[s[i + 1]] = IF i + 1 = k THEN Nil ELSE s[(i + 1) + 1]
      BY <1>1, <3>1
    <3>5. i # k - 1 => i + 1 \in 1..(k - 1) /\ ~(i + 1 < p)
      BY <2>3
    <3>6. i # k - 1 => o[i + 1] = s[(i + 1) + 1]
      BY <1>3, <3>5
    <3> QED BY <3>1, <3>2, <3>3, <3>4, <3>6
  <2> QED BY <2>1, <2>2, <2>3
<1>10. ASSUME NEW i \in 1..(k - 1) PROVE u.prev[o[i]] = IF i = 1 THEN Nil ELSE o[i - 1]
  <2>1. CASE i < p
    <3>1. /\ i \in 1..k /\ i # p
          /\ p # k => p + 1 \in 1..k /\ i # p + 1
      BY <2>1
    <3>2. s[i] # n /\ s[i] # l.next[n] /\ o[i] = s[i] /\ s[i] \in Nodes
      BY <1>1, <1>3, <1>4, <2>1, <3>1
    <3>3. u.prev[s[i]] = l.prev[s[i]]
      BY <1>2, <3>2
    <3>4. i # 1 => i - 1 \in 1..(k - 1) /\ i - 1 < p
      BY <2>1
    <3>5. i # 1 => o[i - 1] = s[i - 1]
      BY <1>3, <3>4
    <3> QED BY <1>1, <3>1, <3>2, <3>3, <3>5
  <2>2. CASE i = p
    BY <1>1, <1>2, <1>3, <1>4, <2>2
  <2>3. CASE i > p
    <3>1. /\ i + 1 \in 1..k /\ i + 1 # p /\ p + 1 \in 1..k /\ i + 1 # p + 1 /\ p # k
          /\ i # 1 /\ i - 1 \in 1..(k - 1) /\ ~(i - 1 < p) /\ i + 1 # 1
          /\ (i - 1) + 1 = i /\ (i + 1) - 1 = i
      BY <2>3
    <3>2. s[i + 1] # n /\ s[i + 1] # l.next[n] /\ o[i] = s[i + 1] /\ s[i + 1] \in Nodes
      BY <1>1, <1>3, <1>4, <2>3, <3>1
    <3>3. u.prev[s[i + 1]] = l.prev[s[i + 1]]
      BY <1>2, <3>2
    <3>4. l.prev[s[i + 1]] = s[i] /\ o[i - 1] = s[i]
      BY <1>1, <1>3, <3>1
    <3> QED BY <3>1, <3>2, <3>3, <3>4
  <2> QED BY <2>1, <2>2, <2>3
<1> QED BY <1>5, <1>6, <1>7, <1>8, <1>9, <1>10 DEF Threads, u, o

\* pushFront puts a node that is not in the list before the ones that are.
LEMMA PushThreads ==
  ASSUME NEW k \in Nat, NEW s, NEW l \in Links, Threads(s, k, l), NEW n \in Nodes,
         \A i \in 1..k : s[i] # n
  PROVE  Threads(Prefixed(s, k, n), k + 1, pushFront(l, n))
<1> DEFINE u == pushFront(l, n)
           o == Prefixed(s, k, n)
<1>1. /\ \A i \in 1..k : s[i] \in Nodes /\ s[i] # Nil
      /\ \A i, j \in 1..k : s[i] = s[j] => i = j
      /\ l.head = (IF k = 0 THEN Nil ELSE s[1]) /\ l.tail = IF k = 0 THEN Nil ELSE s[k]
      /\ \A i \in 1..k : l.next[s[i]] = IF i = k THEN Nil ELSE s[i + 1]
      /\ \A i \in 1..k : l.prev[s[i]] = IF i = 1 THEN Nil ELSE s[i - 1]
  BY NodesAreReal DEF Threads
<1>2. /\ u.head = n
      /\ u.tail = IF l.tail = Nil THEN n ELSE l.tail
      /\ \A m \in Nodes : u.next[m] = IF m = n THEN l.head ELSE l.next[m]
      /\ \A m \in Nodes : u.prev[m] = IF m = n THEN Nil ELSE IF m = l.head THEN n ELSE l.prev[m]
  BY DEF pushFront, Links
<1>3. /\ \A i \in 1..(k + 1) : o[i] = IF i = 1 THEN n ELSE s[i - 1]
      /\ o = [i \in 1..(k + 1) |-> o[i]]
  BY DEF Prefixed
<1> HIDE DEF u, o
<1>5. o \in [1..(k + 1) -> Nodes]
  BY <1>1, <1>3
<1>6. \A i, j \in 1..(k + 1) : o[i] = o[j] => i = j
  BY <1>1, <1>3
<1>7. u.head = o[1] /\ u.tail = o[k + 1]
  BY <1>1, <1>2, <1>3
<1>8. ASSUME NEW i \in 1..(k + 1) PROVE u.next[o[i]] = IF i = k + 1 THEN Nil ELSE o[i + 1]
  <2>1. CASE i = 1
    BY <1>1, <1>2, <1>3, <2>1
  <2>2. CASE i > 1
    <3>1. /\ i - 1 \in 1..k /\ i # 1
          /\ i # k + 1 => i + 1 \in 1..(k + 1) /\ i + 1 # 1 /\ (i + 1) - 1 = i /\ i - 1 # k
      BY <2>2
    <3>2. o[i] = s[i - 1] /\ s[i - 1] # n /\ s[i - 1] \in Nodes
      BY <1>1, <1>3, <3>1
    <3>3. u.next[s[i - 1]] = l.next[s[i - 1]]
      BY <1>2, <3>2
    <3>4. l.next[s[i - 1]] = IF i - 1 = k THEN Nil ELSE s[(i - 1) + 1]
      BY <1>1, <3>1
    <3>5. i # k + 1 => o[i + 1] = s[i] /\ (i - 1) + 1 = i
      BY <1>3, <3>1
    <3> QED BY <3>1, <3>2, <3>3, <3>4, <3>5
  <2> QED BY <2>1, <2>2
<1>9. ASSUME NEW i \in 1..(k + 1) PROVE u.prev[o[i]] = IF i = 1 THEN Nil ELSE o[i - 1]
  <2>1. CASE i = 1
    BY <1>1, <1>2, <1>3, <2>1
  <2>2. CASE i = 2
    BY <1>1, <1>2, <1>3, <2>2
  <2>3. CASE i > 2
    <3>1. i - 1 \in 1..k /\ i # 1 /\ i - 1 # 1 /\ i - 1 \in 1..(k + 1) /\ 1 \in 1..k /\ k # 0
      BY <2>3
    <3>2. o[i] = s[i - 1] /\ s[i - 1] # n /\ s[i - 1] \in Nodes /\ s[i - 1] # l.head
      BY <1>1, <1>3, <3>1
    <3>3. u.prev[s[i - 1]] = l.prev[s[i - 1]]
      BY <1>2, <3>2
    <3>4. l.prev[s[i - 1]] = s[(i - 1) - 1] /\ o[i - 1] = s[(i - 1) - 1]
      BY <1>1, <1>3, <3>1
    <3> QED BY <3>1, <3>2, <3>3, <3>4
  <2> QED BY <2>1, <2>2, <2>3
<1> QED BY <1>5, <1>6, <1>7, <1>8, <1>9 DEF Threads, u, o

-----------------------------------------------------------------------------
(* The walk *)

\* The walk of k nodes along the links l.
WalkOf(k, l) ==
    LET w[i \in 1..k] == IF i = 1 THEN l.head ELSE Follow(l.next, w[i - 1])
    IN  w

\* w is such a walk.
IsWalk(w, k, l) == w = [i \in 1..k |-> IF i = 1 THEN l.head ELSE Follow(l.next, w[i - 1])]

\* The walk of the cache, before and after a step.
LEMMA WalkView == Walk = WalkOf(size, list) /\ Walk' = WalkOf(size', list')
BY DEF Walk, WalkOf, Follow

\* There is one walk at most.
LEMMA WalkUnique ==
  ASSUME NEW k \in Nat, NEW l, NEW s, NEW u, IsWalk(s, k, l), IsWalk(u, k, l)
  PROVE  s = u
<1>1. /\ \A i \in 1..k : s[i] = IF i = 1 THEN l.head ELSE Follow(l.next, s[i - 1])
      /\ \A i \in 1..k : u[i] = IF i = 1 THEN l.head ELSE Follow(l.next, u[i - 1])
      /\ DOMAIN s = 1..k /\ DOMAIN u = 1..k
      /\ s = [i \in 1..k |-> s[i]] /\ u = [i \in 1..k |-> u[i]]
  BY DEF IsWalk
<1> DEFINE Bad == {i \in 1..k : s[i] # u[i]}
<1>2. ASSUME NEW b \in Bad PROVE FALSE
  <2>1. PICK i \in Bad : \A y \in Bad : i <= y
    <3>1. Bad \in SUBSET Nat /\ b \in Bad
      BY <1>2
    <3> HIDE DEF Bad
    <3> QED BY <3>1, LeastElement
  <2>2. CASE i = 1
    BY <1>1, <2>1, <2>2
  <2>3. CASE i # 1
    <3>1. i - 1 \in 1..k /\ i - 1 \notin Bad
      BY <2>1, <2>3
    <3>2. s[i - 1] = u[i - 1]
      BY <3>1
    <3>3. s[i] = Follow(l.next, s[i - 1]) /\ u[i] = Follow(l.next, u[i - 1]) /\ s[i] # u[i]
      BY <1>1, <2>1, <2>3
    <3> QED BY <3>2, <3>3, Zenon
  <2> QED BY <2>2, <2>3
<1>3. \A i \in 1..k : s[i] = u[i]
  BY <1>2
<1> QED BY <1>1, <1>3

\* Walking a list visits its nodes in order.
LEMMA WalkThreads ==
  ASSUME NEW k \in Nat, NEW l, NEW s, Threads(s, k, l)
  PROVE  WalkOf(k, l) = s
<1>1. IsWalk(s, k, l)
  <2>1. /\ s = [i \in 1..k |-> s[i]]
        /\ \A i \in 1..k : s[i] \in Nodes /\ s[i] # Nil
    BY NodesAreReal DEF Threads
  <2>2. ASSUME NEW i \in 1..k PROVE s[i] = IF i = 1 THEN l.head ELSE Follow(l.next, s[i - 1])
    <3>1. CASE i = 1
      <4>1. k # 0
        BY <3>1
      <4> QED BY <3>1, <4>1 DEF Threads
    <3>2. CASE i # 1
      <4>1. i - 1 \in 1..k /\ i - 1 # k /\ (i - 1) + 1 = i
        BY <3>2
      <4>2. l.next[s[i - 1]] = s[(i - 1) + 1]
        BY <4>1 DEF Threads
      <4> QED BY <2>1, <3>2, <4>1, <4>2 DEF Follow
    <3> QED BY <3>1, <3>2
  <2> QED BY <2>1, <2>2 DEF IsWalk
<1> DEFINE c == CHOOSE v : v = [i \in 1..k |-> IF i = 1 THEN l.head ELSE Follow(l.next, v[i - 1])]
<1>2. c = [i \in 1..k |-> IF i = 1 THEN l.head ELSE Follow(l.next, c[i - 1])]
  BY <1>1 DEF IsWalk
<1>3. c = s
  <2>1. IsWalk(c, k, l)
    BY <1>2 DEF IsWalk
  <2> HIDE DEF c
  <2> QED BY <1>1, <2>1, WalkUnique
<1> QED BY <1>3 DEF WalkOf

-----------------------------------------------------------------------------
(* The maps *)

\* What the maps hold.
In(maps) == {n \in Nodes : n[1] \in DOMAIN maps /\ n[2] \in maps[n[1]]}

\* Maps of tenants, none of them empty.
Mapped(maps) ==
    /\ DOMAIN maps \subseteq Tenants
    /\ \A t \in DOMAIN maps : maps[t] \subseteq Hashes /\ maps[t] # {}

\* A node is its tenant and its request.
LEMMA NodeIs ==
  ASSUME NEW n \in Nodes
  PROVE  /\ n[1] \in Tenants /\ n[2] \in Hashes
         /\ \A m \in Nodes : m = n <=> m[1] = n[1] /\ m[2] = n[2]
BY DEF Nodes

\* removed takes one node out of the maps, and the map that it leaves empty.
LEMMA MapsRemoved ==
  ASSUME NEW maps, Mapped(maps), NEW n \in In(maps)
  PROVE  Mapped(removed(maps, n)) /\ In(removed(maps, n)) = In(maps) \ {n}
<1> DEFINE t    == n[1]
           rest == maps[t] \ {n[2]}
           D    == IF rest = {} THEN DOMAIN maps \ {t} ELSE DOMAIN maps
           new  == removed(maps, n)
<1>1. n \in Nodes /\ t \in DOMAIN maps /\ n[2] \in maps[t]
  BY DEF In
<1>2. DOMAIN new = D /\ \A x \in D : new[x] = IF x = t THEN rest ELSE maps[x]
  BY DEF removed
<1> HIDE DEF new
<1>3. Mapped(new)
  BY <1>1, <1>2 DEF Mapped
<1>4. ASSUME NEW m \in Nodes PROVE m \in In(new) <=> m \in In(maps) /\ m # n
  <2>1. m = n <=> m[1] = t /\ m[2] = n[2]
    BY <1>1, NodeIs
  <2>2. CASE m[1] = t
    BY <1>1, <1>2, <2>1, <2>2 DEF In
  <2>3. CASE m[1] # t
    BY <1>1, <1>2, <2>1, <2>3 DEF In
  <2> QED BY <2>2, <2>3
<1>5. In(new) = In(maps) \ {n}
  <2>1. In(new) \subseteq Nodes /\ In(maps) \subseteq Nodes
    BY DEF In
  <2> QED BY <1>4, <2>1
<1> QED BY <1>3, <1>5 DEF new

\* added puts one node into the maps.
LEMMA MapsAdded ==
  ASSUME NEW maps, Mapped(maps), NEW n \in Nodes
  PROVE  Mapped(added(maps, n)) /\ In(added(maps, n)) = In(maps) \cup {n}
<1> DEFINE t   == n[1]
           D   == DOMAIN maps \cup {t}
           new == added(maps, n)
<1>1. /\ DOMAIN new = D
      /\ \A x \in D : new[x] = (IF x \in DOMAIN maps THEN maps[x] ELSE {})
                               \cup (IF x = t THEN {n[2]} ELSE {})
  BY DEF added
<1> HIDE DEF new
<1>2. t \in Tenants /\ n[2] \in Hashes
  BY NodeIs
<1>3. Mapped(new)
  BY <1>1, <1>2 DEF Mapped
<1>4. ASSUME NEW m \in Nodes PROVE m \in In(new) <=> m \in In(maps) \/ m = n
  <2>1. m = n <=> m[1] = t /\ m[2] = n[2]
    BY NodeIs
  <2>2. CASE m[1] = t
    BY <1>1, <2>1, <2>2 DEF In
  <2>3. CASE m[1] # t
    BY <1>1, <2>1, <2>3 DEF In
  <2> QED BY <2>2, <2>3
<1>5. In(new) = In(maps) \cup {n}
  <2>1. In(new) \subseteq Nodes /\ In(maps) \subseteq Nodes
    BY DEF In
  <2> QED BY <1>4, <2>1
<1> QED BY <1>3, <1>5 DEF new

-----------------------------------------------------------------------------
(* The invariant *)

\* The values of a sequence of k nodes.
Values(s, k) == {s[i] : i \in 1..k}

\* The list runs through the nodes that the maps hold.
Listed(s, k, l, maps) == Threads(s, k, l) /\ Values(s, k) = In(maps)

ExactInv ==
    /\ TypeOK /\ Mapped(byTenant)
    /\ \E s : Listed(s, size, list, byTenant)

\* The maps' nodes, before and after a step.
LEMMA StoredView == Stored = In(byTenant) /\ Stored' = In(byTenant')
BY DEF Stored, In

\* What the walk of an intact list is.
LEMMA WalkListed ==
  ASSUME ExactInv
  PROVE  /\ Listed(Walk, size, list, byTenant) /\ size \in Nat /\ list \in Links
         /\ Mapped(byTenant)
<1>1. size \in Nat /\ list \in Links
  BY ExactAssumption DEF ExactInv, TypeOK, Links
<1>2. PICK s : Listed(s, size, list, byTenant)
  BY DEF ExactInv
<1>3. Walk = s
  BY <1>1, <1>2, WalkView, WalkThreads DEF Listed
<1> QED BY <1>1, <1>2, <1>3 DEF ExactInv

\* A node that is taken out of the list and the maps.
LEMMA ListedWithout ==
  ASSUME NEW k \in Nat, NEW s, NEW l \in Links, NEW maps, Mapped(maps),
         Listed(s, k, l, maps), NEW p \in 1..k
  PROVE  /\ Listed(Omitting(s, k, p), k - 1, unlink(l, s[p]), removed(maps, s[p]))
         /\ Mapped(removed(maps, s[p])) /\ k - 1 \in Nat /\ unlink(l, s[p]) \in Links
         /\ Values(Omitting(s, k, p), k - 1) = Values(s, k) \ {s[p]}
<1>1. /\ \A i, j \in 1..k : s[i] = s[j] => i = j
      /\ \A i \in 1..k : s[i] \in Nodes
      /\ Threads(s, k, l)
  BY DEF Listed, Threads
<1>2. Values(Omitting(s, k, p), k - 1) = Values(s, k) \ {s[p]}
  <2> DEFINE o == Omitting(s, k, p)
  <2>1. \A i \in 1..(k - 1) : o[i] = IF i < p THEN s[i] ELSE s[i + 1]
    BY DEF Omitting
  <2> HIDE DEF o
  <2>2. ASSUME NEW i \in 1..(k - 1) PROVE o[i] \in Values(s, k) /\ o[i] # s[p]
    <3>1. PICK x \in 1..k : o[i] = s[x] /\ x # p
      <4>1. i \in 1..k /\ i + 1 \in 1..k
        OBVIOUS
      <4>2. CASE i < p
        BY <2>1, <4>1, <4>2
      <4>3. CASE ~(i < p)
        <5>1. i + 1 # p
          BY <4>3
        <5> QED BY <2>1, <4>1, <4>3, <5>1
      <4> QED BY <4>2, <4>3
    <3> QED BY <1>1, <3>1 DEF Values
  <2>3. ASSUME NEW x \in 1..k, x # p PROVE s[x] \in Values(o, k - 1)
    <3>1. CASE x < p
      <4>1. x \in 1..(k - 1)
        BY <3>1
      <4> QED BY <2>1, <3>1, <4>1 DEF Values
    <3>2. CASE x > p
      <4>1. x - 1 \in 1..(k - 1) /\ ~(x - 1 < p) /\ (x - 1) + 1 = x
        BY <3>2
      <4>2. o[x - 1] = s[x]
        BY <2>1, <4>1
      <4> QED BY <4>1, <4>2 DEF Values
    <3> QED BY <2>3, <3>1, <3>2
  <2>4. Values(o, k - 1) \subseteq Values(s, k) \ {s[p]}
    BY <2>2 DEF Values
  <2>5. Values(s, k) \ {s[p]} \subseteq Values(o, k - 1)
    <3> SUFFICES ASSUME NEW v \in Values(s, k), v # s[p] PROVE v \in Values(o, k - 1)
      OBVIOUS
    <3>1. PICK x \in 1..k : v = s[x]
      BY DEF Values
    <3> QED BY <2>3, <3>1
  <2> QED BY <2>4, <2>5 DEF o
<1>3. s[p] \in In(maps)
  BY DEF Listed, Values
<1>4. /\ Mapped(removed(maps, s[p])) /\ In(removed(maps, s[p])) = In(maps) \ {s[p]}
  BY <1>3, MapsRemoved
<1>5. Threads(Omitting(s, k, p), k - 1, unlink(l, s[p]))
  BY <1>1, UnlinkThreads
<1>6. unlink(l, s[p]) \in Links
  BY <1>1 DEF unlink, Links
<1>7. k - 1 \in Nat
  OBVIOUS
<1> QED BY <1>2, <1>4, <1>5, <1>6, <1>7 DEF Listed

\* A node that is put at the front of the list.
LEMMA ThreadsBefore ==
  ASSUME NEW k \in Nat, NEW s, NEW l \in Links, Threads(s, k, l), NEW n \in Nodes,
         n \notin Values(s, k)
  PROVE  /\ Threads(Prefixed(s, k, n), k + 1, pushFront(l, n)) /\ pushFront(l, n) \in Links
         /\ Values(Prefixed(s, k, n), k + 1) = Values(s, k) \cup {n}
<1>1. \A i \in 1..k : s[i] # n
  BY DEF Values
<1>2. Threads(Prefixed(s, k, n), k + 1, pushFront(l, n))
  BY <1>1, PushThreads
<1>3. pushFront(l, n) \in Links
  BY DEF pushFront, Links
<1>4. Values(Prefixed(s, k, n), k + 1) = Values(s, k) \cup {n}
  <2> DEFINE o == Prefixed(s, k, n)
  <2>1. \A i \in 1..(k + 1) : o[i] = IF i = 1 THEN n ELSE s[i - 1]
    BY DEF Prefixed
  <2> HIDE DEF o
  <2>2. ASSUME NEW i \in 1..(k + 1) PROVE o[i] \in Values(s, k) \cup {n}
    <3>1. i # 1 => i - 1 \in 1..k
      OBVIOUS
    <3> QED BY <2>1, <3>1 DEF Values
  <2>3. ASSUME NEW x \in 1..k PROVE s[x] \in Values(o, k + 1)
    <3>1. x + 1 \in 1..(k + 1) /\ x + 1 # 1 /\ (x + 1) - 1 = x
      OBVIOUS
    <3>2. o[x + 1] = s[x]
      BY <2>1, <3>1
    <3> QED BY <3>1, <3>2 DEF Values
  <2>4. n \in Values(o, k + 1)
    <3>1. 1 \in 1..(k + 1)
      OBVIOUS
    <3> QED BY <2>1, <3>1 DEF Values
  <2>5. Values(o, k + 1) \subseteq Values(s, k) \cup {n}
    BY <2>2 DEF Values
  <2>6. Values(s, k) \subseteq Values(o, k + 1)
    BY <2>3 DEF Values
  <2> QED BY <2>4, <2>5, <2>6 DEF o
<1> QED BY <1>2, <1>3, <1>4

\* A node that is used: out of its place, and to the front.
Fronted(s, k, p) == Prefixed(Omitting(s, k, p), k - 1, s[p])

\* Using a node keeps the list that of the maps' nodes.
LEMMA ListedUsed ==
  ASSUME NEW k \in Nat, NEW s, NEW l \in Links, NEW maps, Mapped(maps),
         Listed(s, k, l, maps), NEW p \in 1..k
  PROVE  Listed(Fronted(s, k, p), k, used(l, s[p]), maps) /\ used(l, s[p]) \in Links
<1> DEFINE o == Omitting(s, k, p)
           u == unlink(l, s[p])
<1>1. /\ Threads(o, k - 1, u) /\ k - 1 \in Nat /\ u \in Links
      /\ Values(o, k - 1) = Values(s, k) \ {s[p]}
  BY ListedWithout DEF Listed
<1>2. s[p] \in Nodes /\ s[p] \in Values(s, k) /\ Values(s, k) = In(maps)
  BY DEF Listed, Threads, Values
<1> HIDE DEF o, u
<1>3. /\ Threads(Prefixed(o, k - 1, s[p]), (k - 1) + 1, pushFront(u, s[p]))
      /\ pushFront(u, s[p]) \in Links
      /\ Values(Prefixed(o, k - 1, s[p]), (k - 1) + 1) = Values(o, k - 1) \cup {s[p]}
  BY <1>1, <1>2, ThreadsBefore
<1>4. (k - 1) + 1 = k
  OBVIOUS
<1>5. Values(o, k - 1) \cup {s[p]} = In(maps)
  BY <1>1, <1>2
<1> QED BY <1>3, <1>4, <1>5 DEF Listed, Fronted, used, o, u

\* A new node.
LEMMA ListedWith ==
  ASSUME NEW k \in Nat, NEW s, NEW l \in Links, NEW maps, Mapped(maps),
         Listed(s, k, l, maps), NEW n \in Nodes, n \notin In(maps)
  PROVE  /\ Listed(Prefixed(s, k, n), k + 1, pushFront(l, n), added(maps, n))
         /\ Mapped(added(maps, n)) /\ pushFront(l, n) \in Links /\ k + 1 \in Nat
<1>1. /\ Threads(Prefixed(s, k, n), k + 1, pushFront(l, n)) /\ pushFront(l, n) \in Links
      /\ Values(Prefixed(s, k, n), k + 1) = Values(s, k) \cup {n}
  BY ThreadsBefore DEF Listed
<1>2. Mapped(added(maps, n)) /\ In(added(maps, n)) = In(maps) \cup {n}
  BY MapsAdded
<1> QED BY <1>1, <1>2 DEF Listed

-----------------------------------------------------------------------------
(* The steps *)

\* Where a stored node is in the list.
LEMMA PlaceInList ==
  ASSUME ExactInv, NEW n \in Stored
  PROVE  \E p \in 1..size : Walk[p] = n
BY WalkListed, StoredView DEF Listed, Values

\* A step that leaves an intact list and the other variables of their type.
LEMMA Intact ==
  ASSUME NEW s, Listed(s, size', list', byTenant'), Mapped(byTenant'), list' \in Links,
         size' \in 0..MaxEntries, entry' \in [Nodes -> Answers \cup {Nil}],
         life' \in [Nodes -> 0..TTL], out' \in Answers \cup {Nil}
  PROVE  ExactInv' /\ Walk' = s
<1>1. ExactInv'
  <2>1. TypeOK'
    BY DEF TypeOK, Mapped, Links
  <2>2. \E u : Listed(u, size', list', byTenant')
    OBVIOUS
  <2> QED BY <2>1, <2>2 DEF ExactInv, Mapped, Listed, Threads, Values, In
<1>2. size' \in Nat
  BY ExactAssumption
<1>3. Walk' = s
  BY <1>2, WalkView, WalkThreads DEF Listed
<1> QED BY <1>1, <1>3

\* Get drops an answer that has expired.
LEMMA ExpiredStep ==
  ASSUME ExactInv, NEW n \in Nodes, GetExpired(n)
  PROVE  /\ ExactInv'
         /\ \E p \in 1..size : Walk[p] = n /\ Walk' = Omitting(Walk, size, p) /\ size' = size - 1
<1>1. PICK p \in 1..size : Walk[p] = n
  BY PlaceInList DEF GetExpired
<1>2. /\ Listed(Walk, size, list, byTenant) /\ size \in Nat /\ list \in Links
      /\ Mapped(byTenant)
  BY WalkListed
<1>3. /\ Listed(Omitting(Walk, size, p), size - 1, unlink(list, n), removed(byTenant, n))
      /\ Mapped(removed(byTenant, n)) /\ unlink(list, n) \in Links
  BY <1>1, <1>2, ListedWithout
<1>4. /\ byTenant' = removed(byTenant, n) /\ list' = unlink(list, n) /\ size' = size - 1
      /\ entry' = [entry EXCEPT ![n] = Nil] /\ out' = Nil /\ life' = life
  BY DEF GetExpired
<1>5. size' \in 0..MaxEntries /\ entry' \in [Nodes -> Answers \cup {Nil}]
      /\ life' \in [Nodes -> 0..TTL] /\ out' \in Answers \cup {Nil}
  BY <1>1, <1>2, <1>4, ExactAssumption DEF ExactInv, TypeOK
<1>6. ExactInv' /\ Walk' = Omitting(Walk, size, p)
  BY <1>3, <1>4, <1>5, Intact
<1> QED BY <1>1, <1>4, <1>6

\* Get and Put move a node that is stored to the front.
LEMMA UsedStep ==
  ASSUME ExactInv, NEW n \in Stored, list' = used(list, n), UNCHANGED <<byTenant, size>>,
         entry' \in [Nodes -> Answers \cup {Nil}],
         life' \in [Nodes -> 0..TTL], out' \in Answers \cup {Nil}
  PROVE  /\ ExactInv'
         /\ \E p \in 1..size : Walk[p] = n /\ Walk' = Fronted(Walk, size, p)
<1>1. PICK p \in 1..size : Walk[p] = n
  BY PlaceInList
<1>2. /\ Listed(Walk, size, list, byTenant) /\ size \in Nat /\ list \in Links
      /\ Mapped(byTenant)
  BY WalkListed
<1>3. Listed(Fronted(Walk, size, p), size, used(list, n), byTenant) /\ used(list, n) \in Links
  BY <1>1, <1>2, ListedUsed
<1>4. size' \in 0..MaxEntries
  BY DEF ExactInv, TypeOK
<1>5. ExactInv' /\ Walk' = Fronted(Walk, size, p)
  BY <1>2, <1>3, <1>4, Intact
<1> QED BY <1>1, <1>5

\* Put adds a node, in the place of the last one if there is no room.
LEMMA NewStep ==
  ASSUME ExactInv, NEW n \in Nodes, NEW a \in Answers, PutNew(n, a)
  PROVE  /\ ExactInv' /\ n \notin Values(Walk, size)
         /\ \/ /\ size + 1 <= MaxEntries /\ size' = size + 1
               /\ Walk' = Prefixed(Walk, size, n)
               /\ entry' = [entry EXCEPT ![n] = a]
            \/ /\ size = MaxEntries /\ size' = size
               /\ Walk' = Omitting(Prefixed(Walk, size, n), size + 1, size + 1)
               /\ entry' = [entry EXCEPT ![n] = a, ![Walk[size]] = Nil]
         /\ life' = [life EXCEPT ![n] = TTL] /\ out' = out
<1> DEFINE front == pushFront(list, n)
           maps  == added(byTenant, n)
           last  == front.tail
           s     == Prefixed(Walk, size, n)
<1>1. /\ Listed(Walk, size, list, byTenant) /\ size \in Nat /\ list \in Links
      /\ Mapped(byTenant)
  BY WalkListed
<1>2. n \notin In(byTenant) /\ n \notin Values(Walk, size)
  BY <1>1, StoredView DEF PutNew, Listed
<1>3. Listed(s, size + 1, front, maps) /\ Mapped(maps) /\ front \in Links /\ size + 1 \in Nat
  BY <1>1, <1>2, ListedWith
<1>4. /\ life' = [life EXCEPT ![n] = TTL] /\ out' = out
      /\ size \in 0..MaxEntries /\ entry \in [Nodes -> Answers \cup {Nil}]
      /\ life \in [Nodes -> 0..TTL] /\ out \in Answers \cup {Nil}
  BY DEF PutNew, ExactInv, TypeOK
<1>5. life' \in [Nodes -> 0..TTL] /\ out' \in Answers \cup {Nil}
  BY <1>4, ExactAssumption
<1>6. CASE ~Crowded(size + 1)
  <2>1. /\ byTenant' = maps /\ list' = front /\ size' = size + 1
        /\ entry' = [entry EXCEPT ![n] = a]
    BY <1>6 DEF PutNew
  <2>2. size' \in 0..MaxEntries /\ entry' \in [Nodes -> Answers \cup {Nil}] /\ size + 1 <= MaxEntries
    BY <1>4, <1>6, <2>1, ExactAssumption DEF Crowded
  <2>3. ExactInv' /\ Walk' = s
    <3> HIDE DEF s, front, maps
    <3> QED BY <1>3, <1>5, <2>1, <2>2, Intact
  <2> QED BY <1>2, <1>4, <2>1, <2>2, <2>3
<1>7. CASE Crowded(size + 1)
  <2>1. /\ byTenant' = removed(maps, last) /\ list' = unlink(front, last) /\ size' = size
        /\ entry' = [entry EXCEPT ![n] = a, ![last] = Nil]
    BY <1>7 DEF PutNew
  <2>2. size = MaxEntries /\ size # 0 /\ size + 1 \in 1..(size + 1) /\ (size + 1) - 1 = size /\ size + 1 # 0
    BY <1>4, <1>7, ExactAssumption DEF Crowded
  <2>3. last = s[size + 1]
    <3> HIDE DEF s, front
    <3> QED BY <1>3, <2>2 DEF Listed, Threads
  <2>4. s[size + 1] = Walk[size] /\ Walk[size] \in Nodes
    <3>1. size + 1 # 1 /\ size \in 1..size
      BY <2>2, <1>1
    <3> QED BY <1>1, <2>2, <3>1 DEF Prefixed, Listed, Threads
  <2> HIDE DEF s, front, maps
  <2>5. /\ Listed(Omitting(s, size + 1, size + 1), (size + 1) - 1, unlink(front, s[size + 1]),
                  removed(maps, s[size + 1]))
        /\ Mapped(removed(maps, s[size + 1])) /\ unlink(front, s[size + 1]) \in Links
    BY <1>3, <2>2, ListedWithout
  <2>6. /\ Listed(Omitting(s, size + 1, size + 1), size', list', byTenant')
        /\ Mapped(byTenant') /\ list' \in Links
    BY <2>1, <2>2, <2>3, <2>5
  <2>7. size' \in 0..MaxEntries /\ entry' \in [Nodes -> Answers \cup {Nil}]
    BY <1>4, <2>1, <2>3, <2>4
  <2>8. ExactInv' /\ Walk' = Omitting(s, size + 1, size + 1)
    BY <1>5, <2>6, <2>7, Intact
  <2>9. entry' = [entry EXCEPT ![n] = a, ![Walk[size]] = Nil]
    BY <2>1, <2>3, <2>4
  <2> QED BY <1>2, <1>4, <2>1, <2>2, <2>8, <2>9 DEF s
<1> QED BY <1>6, <1>7

\* The exact tier's invariant.
THEOREM ExactInvariant == Spec => []ExactInv
<1>1. Init => ExactInv
  <2> SUFFICES ASSUME Init PROVE ExactInv
    OBVIOUS
  <2>1. TypeOK /\ Mapped(byTenant) /\ size = 0
    BY ExactAssumption DEF Init, TypeOK, Mapped
  <2> DEFINE e == [i \in 1..0 |-> Nil]
  <2>2. 1..0 = {}
    OBVIOUS
  <2>3. Threads(e, 0, list)
    BY <2>2 DEF Threads, Init
  <2>4. Values(e, 0) = {} /\ In(byTenant) = {}
    BY <2>2 DEF Values, In, Init
  <2> QED BY <2>1, <2>3, <2>4 DEF ExactInv, Listed
<1>2. ExactInv /\ [Next]_vars => ExactInv'
  <2> SUFFICES ASSUME ExactInv, [Next]_vars PROVE ExactInv'
    OBVIOUS
  <2>1. /\ entry \in [Nodes -> Answers \cup {Nil}] /\ life \in [Nodes -> 0..TTL]
        /\ out \in Answers \cup {Nil} /\ size \in 0..MaxEntries /\ TTL \in Nat
    BY ExactAssumption DEF ExactInv, TypeOK
  <2>2. ASSUME UNCHANGED <<byTenant, list, size>>, entry' \in [Nodes -> Answers \cup {Nil}],
               life' \in [Nodes -> 0..TTL], out' \in Answers \cup {Nil}
        PROVE  ExactInv'
    BY <2>1, <2>2, WalkListed, Intact
  <2>3. ASSUME NEW n \in Nodes, GetMiss(n) PROVE ExactInv'
    BY <2>1, <2>2, <2>3 DEF GetMiss
  <2>4. ASSUME NEW n \in Nodes, GetHit(n) PROVE ExactInv'
    <3>1. out' \in Answers \cup {Nil} /\ n \in Stored /\ list' = used(list, n)
          /\ UNCHANGED <<byTenant, size, entry, life>>
      BY <2>1, <2>4 DEF GetHit
    <3> QED BY <2>1, <3>1, UsedStep
  <2>5. ASSUME NEW n \in Nodes, NEW a \in Answers, PutAgain(n, a) PROVE ExactInv'
    <3>1. /\ n \in Stored /\ list' = used(list, n) /\ UNCHANGED <<byTenant, size, out>>
          /\ entry' \in [Nodes -> Answers \cup {Nil}] /\ life' \in [Nodes -> 0..TTL]
      BY <2>1, <2>5 DEF PutAgain
    <3> QED BY <2>1, <3>1, UsedStep
  <2>6. ASSUME Tick PROVE ExactInv'
    <3>1. life' \in [Nodes -> 0..TTL]
      BY <2>1, <2>6 DEF Tick
    <3> QED BY <2>1, <2>2, <2>6, <3>1 DEF Tick
  <2>7. CASE UNCHANGED vars
    BY <2>1, <2>2, <2>7 DEF vars
  <2> QED BY <2>3, <2>4, <2>5, <2>6, <2>7, ExpiredStep, NewStep DEF Next
<1> QED BY <1>1, <1>2, PTL DEF Spec

\* Of their type, and whatever is put, used, evicted or expired, the list, the maps and
\* the size describe one set of nodes, for every number of tenants, requests and entries.
THEOREM ListStaysIntact == Spec => []ListIntact
<1>1. ExactInv => ListIntact
  <2> SUFFICES ASSUME ExactInv PROVE ListIntact
    OBVIOUS
  <2>1. Threads(Walk, size, list) /\ Values(Walk, size) = Stored /\ size \in Nat /\ Mapped(byTenant)
    BY WalkListed, StoredView DEF Listed
  <2>2. \A i \in 1..size : Walk[i] \in Nodes /\ Walk[i] # Nil
    BY <2>1, NodesAreReal DEF Threads
  <2>3. size # 0 => 1 \in 1..size /\ size \in 1..size
    BY <2>1
  <2>4. list.head = Nil <=> size = 0
    BY <2>1, <2>2, <2>3 DEF Threads
  <2>5. ASSUME NEW n \in Stored
        PROVE  /\ Follow(list.next, n) # Nil => list.prev[list.next[n]] = n
               /\ list.prev[n] = Nil <=> n = list.head
               /\ list.next[n] = Nil <=> n = list.tail
    <3>1. PICK i \in 1..size : n = Walk[i]
      BY <2>1 DEF Values
    <3>2. /\ list.next[n] = IF i = size THEN Nil ELSE Walk[i + 1]
          /\ list.prev[n] = IF i = 1 THEN Nil ELSE Walk[i - 1]
      BY <2>1, <3>1 DEF Threads
    <3>3. size # 0 /\ list.head = Walk[1] /\ list.tail = Walk[size] /\ n # Nil
      BY <2>1, <2>2, <3>1 DEF Threads
    <3>4. Follow(list.next, n) # Nil => list.prev[list.next[n]] = n
      <4>1. CASE i = size
        BY <3>2, <3>3, <4>1 DEF Follow
      <4>2. CASE i # size
        <5>1. i + 1 \in 1..size /\ i + 1 # 1 /\ (i + 1) - 1 = i
          BY <2>1, <4>2
        <5>2. list.prev[Walk[i + 1]] = Walk[(i + 1) - 1]
          BY <2>1, <5>1 DEF Threads
        <5> QED BY <3>1, <3>2, <4>2, <5>1, <5>2
      <4> QED BY <4>1, <4>2
    <3>5. list.prev[n] = Nil <=> n = list.head
      <4>1. i # 1 => i - 1 \in 1..size /\ 1 \in 1..size
        BY <2>1
      <4>2. n = Walk[1] <=> i = 1
        BY <2>1, <2>3, <3>1, <3>3 DEF Threads
      <4> QED BY <2>2, <3>2, <3>3, <4>1, <4>2
    <3>6. list.next[n] = Nil <=> n = list.tail
      <4>1. i # size => i + 1 \in 1..size
        BY <2>1
      <4>2. n = Walk[size] <=> i = size
        BY <2>1, <2>3, <3>1, <3>3 DEF Threads
      <4> QED BY <2>2, <3>2, <3>3, <4>1, <4>2
    <3> QED BY <3>4, <3>5, <3>6
  <2>6. /\ {Walk[i] : i \in 1..size} = Stored
        /\ \A i, j \in 1..size : Walk[i] = Walk[j] => i = j
        /\ list.tail = IF size = 0 THEN Nil ELSE Walk[size]
    BY <2>1 DEF Values, Threads
  <2>7. TypeOK /\ \A t \in DOMAIN byTenant : byTenant[t] # {}
    BY <2>1 DEF ExactInv, Mapped
  <2> HIDE DEF Walk
  <2> QED BY <2>4, <2>5, <2>6, <2>7 DEF ListIntact
<1> QED BY <1>1, ExactInvariant, PTL

-----------------------------------------------------------------------------
(* The cache it promises *)

\* What is held of a node, and of k nodes in the order w.
Row(n, en, lf) == [name |-> n, answer |-> en[n], life |-> lf[n]]
Rows(w, k, en, lf) == [i \in 1..k |-> Row(w[i], en, lf)]

Kept == [name: Nodes, answer: Answers \cup {Nil}, life: 0..TTL]

\* The refinement's answers, before and after a step.
LEMMA HeldView ==
  Held = Rows(Walk, size, entry, life) /\ Held' = Rows(Walk', size', entry', life')
BY DEF Held, Rows, Row

\* A function on 1..k is a sequence of length k.
LEMMA FunctionIsSeq ==
  ASSUME NEW k \in Nat, NEW R, NEW f \in [1..k -> R]
  PROVE  f \in Seq(R) /\ Len(f) = k
BY SeqDef, LenProperties

\* What is held: one row for each node of the list.
LEMMA HeldFacts ==
  ASSUME ExactInv
  PROVE  /\ Held \in Seq(Kept) /\ Len(Held) = size /\ size \in 0..MaxEntries /\ size \in Nat
         /\ Held \in [1..size -> Kept]
         /\ \A i \in 1..size : Held[i] = Row(Walk[i], entry, life) /\ Held[i].name = Walk[i]
                               /\ Walk[i] \in Nodes
         /\ \A i, j \in 1..size : Walk[i] = Walk[j] => i = j
<1>1. /\ entry \in [Nodes -> Answers \cup {Nil}] /\ life \in [Nodes -> 0..TTL]
      /\ size \in 0..MaxEntries
  BY DEF ExactInv, TypeOK
<1>2. /\ size \in Nat /\ \A i \in 1..size : Walk[i] \in Nodes
      /\ \A i, j \in 1..size : Walk[i] = Walk[j] => i = j
  BY WalkListed DEF Listed, Threads
<1>3. \A n \in Nodes : Row(n, entry, life) \in Kept /\ Row(n, entry, life).name = n
  BY <1>1 DEF Row, Kept
<1>4. Held = [i \in 1..size |-> Row(Walk[i], entry, life)]
  BY HeldView DEF Rows
<1>5. Held \in [1..size -> Kept]
  BY <1>2, <1>3, <1>4
<1>6. Held \in Seq(Kept) /\ Len(Held) = size
  BY <1>2, <1>5, FunctionIsSeq
<1> QED BY <1>1, <1>2, <1>3, <1>4, <1>5, <1>6

\* The rows without a node's own.
LEMMA WithoutIs ==
  ASSUME ExactInv, NEW p \in 1..size
  PROVE  /\ Lru!EntriesOf(Walk[p]) = {p}
         /\ Lru!Without(Walk[p]) = Omitting(Held, size, p)
<1>1. /\ Len(Held) = size
      /\ \A i \in 1..size : Held[i].name = Walk[i]
      /\ \A i, j \in 1..size : Walk[i] = Walk[j] => i = j
  BY HeldFacts
<1>2. Lru!EntriesOf(Walk[p]) = {p}
  BY <1>1 DEF Lru!EntriesOf
<1>3. (CHOOSE i \in {p} : TRUE) = p
  OBVIOUS
<1>4. Lru!Without(Walk[p]) = [i \in 1..(Len(Held) - 1) |-> IF i < p THEN Held[i] ELSE Held[i + 1]]
  BY <1>2, <1>3 DEF Lru!Without
<1> QED BY <1>1, <1>2, <1>4 DEF Omitting

\* A node that is not stored has no row.
LEMMA WithoutNone ==
  ASSUME ExactInv, NEW n, n \notin Values(Walk, size)
  PROVE  Lru!EntriesOf(n) = {} /\ Lru!Without(n) = Held
<1>1. /\ Len(Held) = size
      /\ \A i \in 1..size : Held[i].name = Walk[i]
  BY HeldFacts
<1>2. Lru!EntriesOf(n) = {}
  BY <1>1 DEF Lru!EntriesOf, Values
<1> QED BY <1>2 DEF Lru!Without

\* One row put before others.
LEMMA Preceded ==
  ASSUME NEW k \in Nat, NEW h \in [1..k -> Kept], NEW e \in Kept
  PROVE  <<e>> \o h = Prefixed(h, k, e) /\ Len(<<e>> \o h) = k + 1 /\ <<e>> \o h \in Seq(Kept)
<1> DEFINE c == <<e>> \o h
           q == Prefixed(h, k, e)
<1>1. h \in Seq(Kept) /\ Len(h) = k /\ <<e>> \in Seq(Kept) /\ Len(<<e>>) = 1 /\ <<e>>[1] = e
  BY FunctionIsSeq
<1>2. /\ c \in Seq(Kept) /\ Len(c) = 1 + k
      /\ \A i \in 1..(1 + k) : c[i] = IF i <= 1 THEN <<e>>[i] ELSE h[i - 1]
  BY <1>1, ConcatProperties
<1>3. q \in [1..(k + 1) -> Kept] /\ \A i \in 1..(k + 1) : q[i] = IF i = 1 THEN e ELSE h[i - 1]
  BY DEF Prefixed
<1> HIDE DEF c, q
<1>4. q \in Seq(Kept) /\ Len(q) = k + 1
  BY <1>3, FunctionIsSeq
<1>5. ASSUME NEW i \in 1..(k + 1) PROVE c[i] = q[i]
  <2>1. CASE i = 1
    BY <1>1, <1>2, <1>3, <2>1
  <2>2. CASE i # 1
    BY <1>2, <1>3, <2>2
  <2> QED BY <2>1, <2>2
<1>6. c = q
  BY <1>2, <1>4, <1>5, SeqEqual
<1> QED BY <1>2, <1>6 DEF c, q

\* The rows of a list without one of its nodes.
LEMMA RowsOmitting ==
  ASSUME NEW k \in Nat, NEW w, NEW p \in 1..k, NEW en, NEW lf
  PROVE  Rows(Omitting(w, k, p), k - 1, en, lf) = Omitting(Rows(w, k, en, lf), k, p)
<1>1. ASSUME NEW i \in 1..(k - 1)
      PROVE  Row(Omitting(w, k, p)[i], en, lf)
             = IF i < p THEN Rows(w, k, en, lf)[i] ELSE Rows(w, k, en, lf)[i + 1]
  <2>1. i \in 1..k /\ i + 1 \in 1..k
    OBVIOUS
  <2>2. Omitting(w, k, p)[i] = IF i < p THEN w[i] ELSE w[i + 1]
    BY DEF Omitting
  <2>3. Rows(w, k, en, lf)[i] = Row(w[i], en, lf) /\ Rows(w, k, en, lf)[i + 1] = Row(w[i + 1], en, lf)
    BY <2>1 DEF Rows
  <2> QED BY <2>2, <2>3
<1>2. /\ Rows(Omitting(w, k, p), k - 1, en, lf)
         = [i \in 1..(k - 1) |-> Row(Omitting(w, k, p)[i], en, lf)]
      /\ Omitting(Rows(w, k, en, lf), k, p)
         = [i \in 1..(k - 1) |-> IF i < p THEN Rows(w, k, en, lf)[i] ELSE Rows(w, k, en, lf)[i + 1]]
  BY DEF Rows, Omitting
<1> QED BY <1>1, <1>2

\* The rows of a list with a new node at the front.
LEMMA RowsPrefixed ==
  ASSUME NEW k \in Nat, NEW w, NEW n, NEW en, NEW lf
  PROVE  Rows(Prefixed(w, k, n), k + 1, en, lf) = Prefixed(Rows(w, k, en, lf), k, Row(n, en, lf))
<1>1. ASSUME NEW i \in 1..(k + 1)
      PROVE  Row(Prefixed(w, k, n)[i], en, lf)
             = IF i = 1 THEN Row(n, en, lf) ELSE Rows(w, k, en, lf)[i - 1]
  <2>1. i # 1 => i - 1 \in 1..k
    OBVIOUS
  <2>2. Prefixed(w, k, n)[i] = IF i = 1 THEN n ELSE w[i - 1]
    BY DEF Prefixed
  <2>3. i # 1 => Rows(w, k, en, lf)[i - 1] = Row(w[i - 1], en, lf)
    BY <2>1 DEF Rows
  <2> QED BY <2>2, <2>3
<1>2. /\ Rows(Prefixed(w, k, n), k + 1, en, lf)
         = [i \in 1..(k + 1) |-> Row(Prefixed(w, k, n)[i], en, lf)]
      /\ Prefixed(Rows(w, k, en, lf), k, Row(n, en, lf))
         = [i \in 1..(k + 1) |-> IF i = 1 THEN Row(n, en, lf) ELSE Rows(w, k, en, lf)[i - 1]]
  BY DEF Rows, Prefixed
<1> QED BY <1>1, <1>2

\* Rows of nodes whose answers are left alone.
LEMMA RowsSame ==
  ASSUME NEW k \in Nat, NEW w, NEW en, NEW lf, NEW eo, NEW lo,
         \A i \in 1..k : en[w[i]] = eo[w[i]] /\ lf[w[i]] = lo[w[i]]
  PROVE  Rows(w, k, en, lf) = Rows(w, k, eo, lo)
BY DEF Rows, Row

\* A list without one node does not hold it.
LEMMA OmittedGone ==
  ASSUME ExactInv, NEW p \in 1..size
  PROVE  \A i \in 1..(size - 1) : /\ Omitting(Walk, size, p)[i] \in Nodes
                                  /\ Omitting(Walk, size, p)[i] # Walk[p]
<1>1. /\ Listed(Walk, size, list, byTenant) /\ size \in Nat /\ list \in Links
      /\ Mapped(byTenant)
  BY WalkListed
<1>2. /\ Values(Omitting(Walk, size, p), size - 1) = Values(Walk, size) \ {Walk[p]}
      /\ Values(Walk, size) \subseteq Nodes
  BY <1>1, ListedWithout DEF Listed, In
<1> QED BY <1>2 DEF Values

\* A look for an answer that is not there, or is there no longer.
LEMMA GetNothing ==
  ASSUME ExactInv, NEW n \in Nodes, GetMiss(n) \/ GetExpired(n)
  PROVE  Lru!Next
<1>1. CASE GetMiss(n)
  <2>1. n \notin Values(Walk, size)
    BY <1>1, WalkListed, StoredView DEF GetMiss, Listed
  <2>2. Lru!EntriesOf(n) = {} /\ Lru!Without(n) = Held
    BY <2>1, WithoutNone
  <2>3. out' = Nil /\ Held' = Held
    BY <1>1, HeldView, WalkView DEF GetMiss
  <2>4. Lru!Get(n)
    BY <2>2, <2>3 DEF Lru!Get
  <2> QED BY <2>4 DEF Lru!Next
<1>2. CASE GetExpired(n)
  <2>1. PICK p \in 1..size : Walk[p] = n /\ Walk' = Omitting(Walk, size, p) /\ size' = size - 1
    BY <1>2, ExpiredStep
  <2>2. Lru!EntriesOf(n) = {p} /\ Lru!Without(n) = Omitting(Held, size, p)
    BY <2>1, WithoutIs
  <2>3. /\ size \in Nat /\ Held[p] = Row(n, entry, life)
    BY <2>1, HeldFacts
  <2>4. life[n] = 0 /\ entry' = [entry EXCEPT ![n] = Nil] /\ life' = life /\ out' = Nil
        /\ entry \in [Nodes -> Answers \cup {Nil}]
    BY <1>2 DEF GetExpired, Expired, ExactInv, TypeOK
  <2>5. Held' = Omitting(Held, size, p)
    <3> DEFINE o == Omitting(Walk, size, p)
    <3>1. \A i \in 1..(size - 1) : o[i] \in Nodes /\ o[i] # n
      BY <2>1, OmittedGone
    <3>2. size - 1 \in Nat
      BY <2>1, <2>3
    <3> HIDE DEF o
    <3>3. \A i \in 1..(size - 1) : entry'[o[i]] = entry[o[i]] /\ life'[o[i]] = life[o[i]]
      BY <2>4, <3>1
    <3>4. Rows(o, size - 1, entry', life') = Rows(o, size - 1, entry, life)
      BY <3>2, <3>3, RowsSame
    <3>5. Rows(o, size - 1, entry, life) = Omitting(Rows(Walk, size, entry, life), size, p)
      BY <2>3, RowsOmitting DEF o
    <3> QED BY <2>1, <3>4, <3>5, HeldView DEF o
  <2>6. Held[p].life = 0
    BY <2>3, <2>4 DEF Row
  <2>7. Lru!Get(n)
    BY <2>2, <2>4, <2>5, <2>6 DEF Lru!Get
  <2> QED BY <2>7 DEF Lru!Next
<1> QED BY <1>1, <1>2

\* Using a stored node puts its row, as it now is, before the others.
LEMMA HeldUsed ==
  ASSUME ExactInv, NEW p \in 1..size, Walk' = Fronted(Walk, size, p), size' = size,
         NEW e \in Kept, e = Row(Walk[p], entry', life'),
         \A m \in Nodes : m # Walk[p] => entry'[m] = entry[m] /\ life'[m] = life[m]
  PROVE  /\ Held' = <<e>> \o Lru!Without(Walk[p])
         /\ Len(<<e>> \o Lru!Without(Walk[p])) = size
<1> DEFINE o == Omitting(Walk, size, p)
           n == Walk[p]
<1>1. /\ size \in Nat /\ Held \in [1..size -> Kept] /\ size - 1 \in Nat /\ (size - 1) + 1 = size
      /\ Held = Rows(Walk, size, entry, life)
  BY HeldFacts, HeldView
<1>2. Rows(o, size - 1, entry', life') = Omitting(Held, size, p)
  <2>1. \A i \in 1..(size - 1) : o[i] \in Nodes /\ o[i] # n
    BY OmittedGone
  <2> HIDE DEF o, n
  <2>2. \A i \in 1..(size - 1) : entry'[o[i]] = entry[o[i]] /\ life'[o[i]] = life[o[i]]
    BY <2>1 DEF n
  <2>3. Rows(o, size - 1, entry', life') = Rows(o, size - 1, entry, life)
    BY <1>1, <2>2, RowsSame
  <2>4. Rows(o, size - 1, entry, life) = Omitting(Rows(Walk, size, entry, life), size, p)
    BY <1>1, RowsOmitting DEF o
  <2> QED BY <1>1, <2>3, <2>4
<1>3. Held' = Prefixed(Omitting(Held, size, p), size - 1, e)
  <2>1. Held' = Rows(Prefixed(o, size - 1, n), (size - 1) + 1, entry', life')
    BY <1>1, HeldView DEF Fronted
  <2> HIDE DEF o, n
  <2>2. Rows(Prefixed(o, size - 1, n), (size - 1) + 1, entry', life')
        = Prefixed(Rows(o, size - 1, entry', life'), size - 1, Row(n, entry', life'))
    BY <1>1, RowsPrefixed
  <2> QED BY <1>2, <2>1, <2>2 DEF n
<1>4. Omitting(Held, size, p) \in [1..(size - 1) -> Kept]
  BY <1>1 DEF Omitting
<1>5. Lru!Without(n) = Omitting(Held, size, p)
  BY WithoutIs
<1>6. /\ <<e>> \o Omitting(Held, size, p) = Prefixed(Omitting(Held, size, p), size - 1, e)
      /\ Len(<<e>> \o Omitting(Held, size, p)) = (size - 1) + 1
  <2> DEFINE k == size - 1
             t == Omitting(Held, size, p)
  <2>1. k \in Nat /\ t \in [1..k -> Kept]
    BY <1>1, <1>4
  <2> HIDE DEF k, t
  <2>2. <<e>> \o t = Prefixed(t, k, e) /\ Len(<<e>> \o t) = k + 1
    BY <2>1, Preceded
  <2> QED BY <2>2 DEF k, t
<1> QED BY <1>1, <1>3, <1>5, <1>6

\* A look that finds an answer, and the same request put again.
LEMMA GetOrPutAgain ==
  ASSUME ExactInv, NEW n \in Nodes, GetHit(n) \/ \E a \in Answers : PutAgain(n, a)
  PROVE  Lru!Next
<1>0. /\ entry \in [Nodes -> Answers \cup {Nil}] /\ life \in [Nodes -> 0..TTL] /\ TTL \in Nat
      /\ out \in Answers \cup {Nil} /\ size \in 0..MaxEntries /\ MaxEntries \in Nat
  BY ExactAssumption DEF ExactInv, TypeOK
<1>1. CASE GetHit(n)
  <2>1. /\ n \in Stored /\ life[n] # 0 /\ list' = used(list, n) /\ out' = entry[n]
        /\ UNCHANGED <<byTenant, size, entry, life>>
    BY <1>1 DEF GetHit, Expired
  <2>2. PICK p \in 1..size : Walk[p] = n /\ Walk' = Fronted(Walk, size, p)
    <3>1. out' \in Answers \cup {Nil} /\ entry' \in [Nodes -> Answers \cup {Nil}]
          /\ life' \in [Nodes -> 0..TTL]
      BY <1>0, <2>1
    <3> QED BY <2>1, <3>1, UsedStep
  <2>3. Held[p] = Row(n, entry, life) /\ Held[p] \in Kept
    BY <2>2, HeldFacts
  <2>4. Held' = <<Held[p]>> \o Lru!Without(n)
    BY <2>1, <2>2, <2>3, HeldUsed
  <2>5. Lru!EntriesOf(n) = {p}
    BY <2>2, WithoutIs
  <2>6. Held[p].life > 0 /\ out' = Held[p].answer
    BY <1>0, <2>1, <2>3 DEF Row
  <2>7. Lru!Get(n)
    BY <2>4, <2>5, <2>6 DEF Lru!Get
  <2> QED BY <2>7 DEF Lru!Next
<1>2. ASSUME NEW a \in Answers, PutAgain(n, a) PROVE Lru!Next
  <2>1. /\ n \in Stored /\ list' = used(list, n) /\ entry' = [entry EXCEPT ![n] = a]
        /\ life' = [life EXCEPT ![n] = TTL] /\ UNCHANGED <<byTenant, size, out>>
    BY <1>2 DEF PutAgain
  <2>2. PICK p \in 1..size : Walk[p] = n /\ Walk' = Fronted(Walk, size, p)
    <3>1. out' \in Answers \cup {Nil} /\ entry' \in [Nodes -> Answers \cup {Nil}]
          /\ life' \in [Nodes -> 0..TTL]
      BY <1>0, <2>1
    <3> QED BY <2>1, <3>1, UsedStep
  <2> DEFINE e == [name |-> n, answer |-> a, life |-> TTL]
  <2>3. e \in Kept /\ e = Row(n, entry', life')
    BY <1>0, <2>1 DEF Kept, Row
  <2>4. \A m \in Nodes : m # n => entry'[m] = entry[m] /\ life'[m] = life[m]
    BY <1>0, <2>1
  <2> HIDE DEF e
  <2>5. Held' = <<e>> \o Lru!Without(n) /\ Len(<<e>> \o Lru!Without(n)) = size
    BY <2>1, <2>2, <2>3, <2>4, HeldUsed
  <2>6. ~(size > MaxEntries)
    BY <1>0
  <2>7. Lru!Put(n, a)
    BY <2>1, <2>5, <2>6 DEF Lru!Put, e
  <2> QED BY <2>7 DEF Lru!Next
<1> QED BY <1>1, <1>2

\* A new answer is put first, and the last one goes where there is no room for both.
LEMMA PutFirst ==
  ASSUME ExactInv, NEW n \in Nodes, NEW a \in Answers, PutNew(n, a)
  PROVE  Lru!Next
<1> DEFINE e == [name |-> n, answer |-> a, life |-> TTL]
           all == <<e>> \o Lru!Without(n)
<1>0. /\ entry \in [Nodes -> Answers \cup {Nil}] /\ life \in [Nodes -> 0..TTL] /\ TTL \in Nat
      /\ MaxEntries \in Nat \ {0}
  BY ExactAssumption DEF ExactInv, TypeOK
<1>1. /\ n \notin Values(Walk, size) /\ life' = [life EXCEPT ![n] = TTL] /\ out' = out
      /\ \/ /\ size + 1 <= MaxEntries /\ size' = size + 1
            /\ Walk' = Prefixed(Walk, size, n)
            /\ entry' = [entry EXCEPT ![n] = a]
         \/ /\ size = MaxEntries /\ size' = size
            /\ Walk' = Omitting(Prefixed(Walk, size, n), size + 1, size + 1)
            /\ entry' = [entry EXCEPT ![n] = a, ![Walk[size]] = Nil]
  BY NewStep
<1>2. /\ size \in Nat /\ Held \in [1..size -> Kept] /\ Held = Rows(Walk, size, entry, life)
      /\ \A i \in 1..size : Walk[i] \in Nodes /\ Walk[i] # n
      /\ \A i, j \in 1..size : Walk[i] = Walk[j] => i = j
  BY <1>1, HeldFacts, HeldView DEF Values
<1>3. e \in Kept
  BY <1>0 DEF Kept
<1>4. Lru!Without(n) = Held
  BY <1>1, WithoutNone
<1> HIDE DEF e
<1>5. all = Prefixed(Held, size, e) /\ Len(all) = size + 1 /\ all \in Seq(Kept)
  <2>1. /\ <<e>> \o Held = Prefixed(Held, size, e) /\ Len(<<e>> \o Held) = size + 1
        /\ <<e>> \o Held \in Seq(Kept)
    BY <1>2, <1>3, Preceded
  <2> QED BY <1>4, <2>1
<1>6. \A i \in 1..size : life'[Walk[i]] = life[Walk[i]]
  BY <1>0, <1>1, <1>2
<1>7. CASE size + 1 <= MaxEntries /\ size' = size + 1 /\ Walk' = Prefixed(Walk, size, n)
           /\ entry' = [entry EXCEPT ![n] = a]
  <2>1. Rows(Walk, size, entry', life') = Held
    <3>1. \A i \in 1..size : entry'[Walk[i]] = entry[Walk[i]]
      BY <1>0, <1>2, <1>7
    <3> QED BY <1>2, <1>6, <3>1, RowsSame
  <2>2. Row(n, entry', life') = e
    BY <1>0, <1>1, <1>7 DEF Row, e
  <2>3. Held' = all
    <3>1. Held' = Rows(Prefixed(Walk, size, n), size + 1, entry', life')
      BY <1>7, HeldView
    <3>2. Rows(Prefixed(Walk, size, n), size + 1, entry', life')
          = Prefixed(Rows(Walk, size, entry', life'), size, Row(n, entry', life'))
      <4>1. size \in Nat
        BY <1>2
      <4> QED BY <4>1, RowsPrefixed
    <3> HIDE DEF all
    <3> QED BY <1>5, <2>1, <2>2, <3>1, <3>2
  <2>4. ~(Len(all) > MaxEntries)
    BY <1>0, <1>2, <1>5, <1>7
  <2>5. Lru!Put(n, a)
    BY <1>1, <2>3, <2>4 DEF Lru!Put, e
  <2> QED BY <2>5 DEF Lru!Next
<1>8. CASE /\ size = MaxEntries /\ size' = size
           /\ Walk' = Omitting(Prefixed(Walk, size, n), size + 1, size + 1)
           /\ entry' = [entry EXCEPT ![n] = a, ![Walk[size]] = Nil]
  <2>1. Len(all) > MaxEntries /\ size # 0 /\ size \in 1..size
    BY <1>0, <1>2, <1>5, <1>8
  <2>2. SubSeq(all, 1, MaxEntries) \in Seq(Kept) /\ Len(SubSeq(all, 1, MaxEntries)) = size
        /\ \A i \in 1..size : SubSeq(all, 1, MaxEntries)[i] = all[i]
    <3> HIDE DEF all
    <3>1. 1 \in 1..(Len(all) + 1) /\ size \in 0..Len(all) /\ 1 <= size + 1
      BY <1>2, <1>5
    <3> QED BY <1>2, <1>5, <1>8, <3>1, SubSeqProperties
  <2>3. ASSUME NEW i \in 1..size PROVE Held'[i] = all[i]
    <3>1. Held'[i] = Row(Walk'[i], entry', life')
      BY <1>8, HeldView DEF Rows
    <3>2. /\ i \in 1..(size + 1) /\ i \in 1..((size + 1) - 1) /\ i < size + 1
          /\ i # 1 => i - 1 \in 1..size /\ i - 1 # size
      BY <1>2
    <3>3. Walk'[i] = IF i = 1 THEN n ELSE Walk[i - 1]
      BY <1>8, <3>2 DEF Omitting, Prefixed
    <3>4. all[i] = IF i = 1 THEN e ELSE Held[i - 1]
      BY <1>5, <3>2 DEF Prefixed
    <3>5. CASE i = 1
      <4>1. entry'[n] = a /\ life'[n] = TTL
        BY <1>0, <1>1, <1>2, <1>8, <2>1
      <4> QED BY <3>1, <3>3, <3>4, <3>5, <4>1 DEF Row, e
    <3>6. CASE i # 1
      <4> DEFINE m == Walk[i - 1]
      <4>1. m \in Nodes /\ m # n /\ m # Walk[size]
        BY <1>2, <2>1, <3>2, <3>6
      <4>2. Held[i - 1] = Row(m, entry, life) /\ life'[m] = life[m]
        BY <1>2, <1>6, <3>2, <3>6 DEF Rows
      <4> HIDE DEF m
      <4>3. entry'[m] = entry[m]
        BY <1>0, <1>8, <4>1
      <4> QED BY <3>1, <3>3, <3>4, <3>6, <4>2, <4>3 DEF Row, m
    <3> QED BY <3>5, <3>6
  <2>4. Held' \in Seq(Kept) /\ Len(Held') = size
    <3>1. Held' = [i \in 1..size |-> Row(Walk'[i], entry', life')]
      BY <1>8, HeldView DEF Rows
    <3>2. \A i \in 1..size : all[i] \in Kept
      <4>1. \A i \in 1..size : i \in 1..Len(all)
        BY <1>2, <1>5
      <4> HIDE DEF all
      <4> QED BY <1>5, <4>1
    <3>3. Held' \in [1..size -> Kept]
      BY <2>3, <3>1, <3>2
    <3> QED BY <1>2, <3>3, FunctionIsSeq
  <2>5. Held' = SubSeq(all, 1, MaxEntries)
    <3> DEFINE q == SubSeq(all, 1, MaxEntries)
    <3> HIDE DEF all, q
    <3> QED BY <2>2, <2>3, <2>4, SeqEqual DEF q
  <2>6. Lru!Put(n, a)
    BY <1>1, <2>1, <2>5 DEF Lru!Put, e
  <2> QED BY <2>6 DEF Lru!Next
<1> QED BY <1>1, <1>7, <1>8

\* The exact tier implements the bounded, expiring LRU cache that it promises, for any
\* number of tenants, requests and entries and any lifetime.
THEOREM LruImplemented == Spec => ImplementsLru
<1>1. Init => Lru!Init
  <2> SUFFICES ASSUME Init PROVE Lru!Init
    OBVIOUS
  <2>1. size = 0 /\ out = Nil /\ 1..0 = {}
    BY DEF Init
  <2>2. Held = <<>>
    BY <2>1 DEF Held
  <2> QED BY <2>1, <2>2 DEF Lru!Init
<1>2. ExactInv /\ [Next]_vars => [Lru!Next]_(Lru!vars)
  <2> SUFFICES ASSUME ExactInv, [Next]_vars PROVE Lru!Next \/ UNCHANGED Lru!vars
    OBVIOUS
  <2>1. CASE UNCHANGED vars
    <3>1. Held' = Held /\ out' = out
      BY <2>1, HeldView, WalkView DEF vars
    <3> QED BY <3>1 DEF Lru!vars
  <2>2. ASSUME Tick PROVE Lru!Next
    <3>1. /\ life' = [n \in Nodes |-> IF life[n] > 0 THEN life[n] - 1 ELSE 0]
          /\ UNCHANGED <<byTenant, list, size, entry, out>>
      BY <2>2 DEF Tick
    <3>2. Walk' = Walk
      BY <3>1, WalkView
    <3>3. ASSUME NEW i \in 1..size
          PROVE  Row(Walk[i], entry', life')
                 = [Held[i] EXCEPT !.life = IF Held[i].life > 0 THEN Held[i].life - 1 ELSE 0]
      <4>1. Held[i] = Row(Walk[i], entry, life) /\ Walk[i] \in Nodes
        BY HeldFacts
      <4> QED BY <3>1, <4>1 DEF Row
    <3>4. Held' = [i \in 1..size |-> Row(Walk[i], entry', life')] /\ Len(Held) = size
      BY <3>1, <3>2, HeldView, HeldFacts DEF Rows
    <3>5. Lru!Age
      BY <3>1, <3>3, <3>4 DEF Lru!Age
    <3> QED BY <3>5 DEF Lru!Next
  <2> QED BY <2>1, <2>2, GetNothing, GetOrPutAgain, PutFirst DEF Next
<1> QED BY <1>1, <1>2, ExactInvariant, PTL DEF Spec, ImplementsLru, Lru!Spec
=============================================================================
