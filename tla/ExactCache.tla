----------------------------- MODULE ExactCache -----------------------------
(***************************************************************************)
(* internal/cache/exact.go: the exact tier.  Every operation runs under    *)
(* one mutex.  Answers live in a map per tenant and, across tenants, on    *)
(* one doubly linked list in order of use, threaded through the nodes      *)
(* themselves; both, and the count, must say the same.                     *)
(*                                                                         *)
(* A node is the tenant and the request it stores, of which there is at    *)
(* most one at a time.  An answer's expiry is kept as the time it has left.*)
(***************************************************************************)
EXTENDS Integers, Sequences

CONSTANTS
    Tenants,
    Hashes,       \* the requests, by model and hash
    Answers,
    MaxEntries,
    TTL,          \* ticks
    Nil           \* no node, no answer

ASSUME ExactAssumption ==
    /\ MaxEntries \in Nat \ {0}
    /\ TTL \in Nat \ {0}
    /\ Nil \notin Answers \cup (Tenants \X Hashes)

Nodes == Tenants \X Hashes

VARIABLES
    byTenant,   \* the tenants that have a map, and the requests in it
    list,       \* head, tail and the links of every node
    size,
    entry,      \* what a stored node holds
    life,       \* ticks until it expires
    out         \* what the last Get returned

vars == <<byTenant, list, size, entry, life, out>>

Stored == {n \in Nodes : n[1] \in DOMAIN byTenant /\ n[2] \in byTenant[n[1]]}

-----------------------------------------------------------------------------
(* The list *)

\* Mutant: the head keeps pointing at a node that moved.
unlink_StaleHead(l, n) ==
    [head |-> l.head,
     tail |-> IF l.tail = n THEN l.prev[n] ELSE l.tail,
     next |-> [m \in Nodes |-> IF m = n THEN Nil
                               ELSE IF m = l.prev[n] THEN l.next[n] ELSE l.next[m]],
     prev |-> [m \in Nodes |-> IF m = n THEN Nil
                               ELSE IF m = l.next[n] THEN l.prev[n] ELSE l.prev[m]]]

\* n's neighbours are joined, and n points nowhere.
unlink(l, n) ==
    [head |-> IF l.prev[n] = Nil /\ l.head = n THEN l.next[n] ELSE l.head,
     tail |-> IF l.next[n] = Nil /\ l.tail = n THEN l.prev[n] ELSE l.tail,
     next |-> [m \in Nodes |-> IF m = n THEN Nil
                               ELSE IF m = l.prev[n] THEN l.next[n] ELSE l.next[m]],
     prev |-> [m \in Nodes |-> IF m = n THEN Nil
                               ELSE IF m = l.next[n] THEN l.prev[n] ELSE l.prev[m]]]

pushFront(l, n) ==
    [head |-> n,
     tail |-> IF l.tail = Nil THEN n ELSE l.tail,
     next |-> [l.next EXCEPT ![n] = l.head],
     prev |-> [m \in Nodes |-> IF m = n THEN Nil ELSE IF m = l.head THEN n ELSE l.prev[m]]]

\* Move to the front: the most recently used.
used(l, n) == pushFront(unlink(l, n), n)

\* The maps without n; a tenant's map goes with its last entry.
removed(maps, n) ==
    LET rest == maps[n[1]] \ {n[2]}
    IN  [t \in (IF rest = {} THEN DOMAIN maps \ {n[1]} ELSE DOMAIN maps) |->
            IF t = n[1] THEN rest ELSE maps[t]]

\* The maps with n, in a new map if its tenant had none.
added(maps, n) ==
    [t \in DOMAIN maps \cup {n[1]} |->
        (IF t \in DOMAIN maps THEN maps[t] ELSE {}) \cup (IF t = n[1] THEN {n[2]} ELSE {})]

-----------------------------------------------------------------------------
(* Get *)

GetMiss(n) ==
    /\ n \notin Stored
    /\ out' = Nil
    /\ UNCHANGED <<byTenant, list, size, entry, life>>

\* Mutant: a stored answer never expires.
Expired_Never(n) == FALSE

Expired(n) == life[n] = 0

\* An expired answer is dropped on the way out.
GetExpired(n) ==
    /\ n \in Stored /\ Expired(n)
    /\ byTenant' = removed(byTenant, n)
    /\ list' = unlink(list, n)
    /\ size' = size - 1
    /\ entry' = [entry EXCEPT ![n] = Nil]
    /\ out' = Nil
    /\ UNCHANGED life

GetHit(n) ==
    /\ n \in Stored /\ ~Expired(n)
    /\ list' = used(list, n)
    /\ out' = entry[n]
    /\ UNCHANGED <<byTenant, size, entry, life>>

-----------------------------------------------------------------------------
(* Put *)

\* The same request again: its answer and its lifetime are renewed in place.
PutAgain(n, a) ==
    /\ n \in Stored
    /\ list' = used(list, n)
    /\ entry' = [entry EXCEPT ![n] = a]
    /\ life' = [life EXCEPT ![n] = TTL]
    /\ UNCHANGED <<byTenant, size, out>>

Crowded(n) == n > MaxEntries

\* A new node, and room for it.  The loop that evicts runs at most once, since
\* the size was within the limit before.
PutNew(n, a) ==
    LET front == pushFront(list, n)
        maps  == added(byTenant, n)
        last  == front.tail
    IN  /\ n \notin Stored
        /\ IF Crowded(size + 1)
           THEN /\ byTenant' = removed(maps, last)
                /\ list' = unlink(front, last)
                /\ size' = size
                /\ entry' = [entry EXCEPT ![n] = a, ![last] = Nil]
           ELSE /\ byTenant' = maps
                /\ list' = front
                /\ size' = size + 1
                /\ entry' = [entry EXCEPT ![n] = a]
        /\ life' = [life EXCEPT ![n] = TTL]
        /\ UNCHANGED out

\* Time passes.
Tick ==
    /\ life' = [n \in Nodes |-> IF life[n] > 0 THEN life[n] - 1 ELSE 0]
    /\ UNCHANGED <<byTenant, list, size, entry, out>>

-----------------------------------------------------------------------------

Init ==
    /\ byTenant = [t \in {} |-> {}]
    /\ list = [head |-> Nil, tail |-> Nil, next |-> [n \in Nodes |-> Nil],
               prev |-> [n \in Nodes |-> Nil]]
    /\ size = 0
    /\ entry = [n \in Nodes |-> Nil]
    /\ life = [n \in Nodes |-> 0]
    /\ out = Nil

Next ==
    \/ \E n \in Nodes :
          \/ GetMiss(n) \/ GetExpired(n) \/ GetHit(n)
          \/ \E a \in Answers : PutAgain(n, a) \/ PutNew(n, a)
    \/ Tick

Spec == Init /\ [][Next]_vars

-----------------------------------------------------------------------------
(* Properties *)

TypeOK ==
    /\ DOMAIN byTenant \subseteq Tenants
    /\ \A t \in DOMAIN byTenant : byTenant[t] \in SUBSET Hashes
    /\ list \in [head: Nodes \cup {Nil}, tail: Nodes \cup {Nil},
                 next: [Nodes -> Nodes \cup {Nil}], prev: [Nodes -> Nodes \cup {Nil}]]
    /\ size \in 0..MaxEntries
    /\ entry \in [Nodes -> Answers \cup {Nil}]
    /\ life \in [Nodes -> 0..TTL]
    /\ out \in Answers \cup {Nil}

Follow(link, n) == IF n = Nil THEN Nil ELSE link[n]

\* The nodes in order of use, as far as the size says.
Walk ==
    LET w[i \in 1..size] == IF i = 1 THEN list.head ELSE Follow(list.next, w[i - 1])
    IN  w

\* Of its type, and the list, the maps and the size describe one set of nodes: walking
\* the list visits each stored node once and ends at the tail, every link is matched by
\* the opposite one, and no tenant has an empty map.
ListIntact ==
    /\ TypeOK
    /\ {Walk[i] : i \in 1..size} = Stored
    /\ \A i, j \in 1..size : Walk[i] = Walk[j] => i = j
    /\ list.head = Nil <=> size = 0
    /\ list.tail = IF size = 0 THEN Nil ELSE Walk[size]
    /\ \A n \in Stored : /\ Follow(list.next, n) # Nil => list.prev[list.next[n]] = n
                         /\ list.prev[n] = Nil <=> n = list.head
                         /\ list.next[n] = Nil <=> n = list.tail
    /\ \A t \in DOMAIN byTenant : byTenant[t] # {}

\* The answers in order of use.
Held ==
    [i \in 1..size |-> [name |-> Walk[i], answer |-> entry[Walk[i]], life |-> life[Walk[i]]]]

Lru == INSTANCE LruCache WITH
    Names <- Nodes, Capacity <- MaxEntries, Lifetime <- TTL, NoAnswer <- Nil,
    held <- Held, found <- out

\* The exact tier is a bounded, expiring LRU: a lookup is answered with what was
\* last put under its own tenant and request, the entry evicted is the one
\* unused for longest, and an expired answer is never served.
ImplementsLru == Lru!Spec
=============================================================================
