---------------------------- MODULE SpanHeapProofs ----------------------------
(***************************************************************************)
(* What the operators of SpanHeap do, for every number and size of areas,   *)
(* segments, pages and free lists.                                          *)
(***************************************************************************)
EXTENDS SpanHeap, NatFacts

HeaderType ==
  [bitmap : SUBSET Int, cur_pos : Int, free_block_num : Int,
   wear_count : Nat, category : 0..LARGE, page_num : 0..LARGE]

\* The nodes of the lists of a heap whose list heads start at lowest.
Node(lowest) == lowest..AREA_NUM * AreaPages

HeapType(lowest) ==
  [next : [Node(lowest) -> Node(lowest)],
   prev : [Node(lowest) -> Node(lowest)],
   hdr  : [Spans -> HeaderType],
   span_map   : [Area -> UNION {[0..k - 1 -> Int] : k \in Nat}],
   entry      : [MapEntries -> Spans \cup {NULL}],
   free_start : [Area -> Nat],
   segments   : [Area -> Nat],
   max_wc     : [Area -> Nat],
   max_wear_page_index : [Area -> [ListIndex -> Spans \cup {NULL}]]]

\* The same heap but for the links.
SameButLinks(h, g) ==
  /\ g.hdr = h.hdr /\ g.span_map = h.span_map /\ g.entry = h.entry
  /\ g.free_start = h.free_start /\ g.segments = h.segments /\ g.max_wc = h.max_wc
  /\ g.max_wear_page_index = h.max_wear_page_index

\* The list of a head has exactly the nodes of S: they and the head are each
\* between their neighbours, and following next from the head leaves none out.
Ring(L, head, S) ==
  /\ head \notin S
  /\ \A n \in S \cup {head} : /\ L.next[n] \in S \cup {head} /\ L.prev[n] \in S \cup {head}
                              /\ Linked(L, n)
  /\ \A T \in SUBSET (S \cup {head}) :
       head \in T /\ (\A n \in T : L.next[n] \in T) => T = S \cup {head}

-----------------------------------------------------------------------------
\* What __list_add and __list_del change.
LEMMA LinkEffect ==
  ASSUME NEW lowest, NEW h \in HeapType(lowest),
         NEW new \in Node(lowest), NEW p \in Node(lowest), NEW q \in Node(lowest)
  PROVE  LET g == Link(h, new, p, q)
         IN  /\ g \in HeapType(lowest) /\ SameButLinks(h, g)
             /\ \A n \in Node(lowest) :
                  /\ g.next[n] = IF n = p THEN new ELSE IF n = new THEN q ELSE h.next[n]
                  /\ g.prev[n] = IF n = new THEN p ELSE IF n = q THEN new ELSE h.prev[n]
  BY DEF HeapType, Link, SameButLinks

\* list_del writes the two links around the node and nothing else.
LEMMA DelEffect ==
  ASSUME NEW lowest, NEW h \in HeapType(lowest), NEW e \in Node(lowest)
  PROVE  LET g == list_del(h, e)
         IN  /\ g \in HeapType(lowest) /\ SameButLinks(h, g)
             /\ \A n \in Node(lowest) :
                  /\ g.next[n] = IF n = h.prev[e] THEN h.next[e] ELSE h.next[n]
                  /\ g.prev[n] = IF n = h.next[e] THEN h.prev[e] ELSE h.prev[n]
  BY DEF HeapType, list_del, SameButLinks

\* A list stays as it is when the links of its nodes do.
LEMMA RingFrame ==
  ASSUME NEW h, NEW g, NEW head, NEW S, Ring(h, head, S),
         \A n \in S \cup {head} : g.next[n] = h.next[n] /\ g.prev[n] = h.prev[n]
  PROVE  Ring(g, head, S)
  <1>1. \A n \in S \cup {head} : Linked(g, n)  BY DEF Ring, Linked
  <1>2. ASSUME NEW T \in SUBSET (S \cup {head}), head \in T, \A n \in T : g.next[n] \in T
        PROVE  T = S \cup {head}
    <2>1. \A n \in T : h.next[n] \in T  BY <1>2
    <2> QED  BY <1>2, <2>1 DEF Ring
  <1> QED  BY <1>1, <1>2 DEF Ring

\* Linking a new node behind a node of a list adds it to the list.
LEMMA RingLink ==
  ASSUME NEW lowest, NEW h \in HeapType(lowest),
         NEW head \in Node(lowest), NEW S \in SUBSET Node(lowest), Ring(h, head, S),
         NEW new \in Node(lowest), new \notin S \cup {head},
         NEW p \in S \cup {head}
  PROVE  Ring(Link(h, new, p, h.next[p]), head, S \cup {new})
  <1> DEFINE q == h.next[p]
             g == Link(h, new, p, q)
             R == S \cup {head}
             R2 == (S \cup {new}) \cup {head}
  <1>1. /\ p \in Node(lowest) /\ q \in Node(lowest) /\ q \in R /\ h.prev[q] = p
        /\ R \subseteq Node(lowest)
    BY DEF Ring, Linked
  <1>2. /\ \A n \in R : h.next[n] \in R /\ h.prev[n] \in R
        /\ \A n \in R : h.next[h.prev[n]] = n /\ h.prev[h.next[n]] = n
    BY DEF Ring, Linked
  <1>3. \A n \in Node(lowest) :
          /\ g.next[n] = IF n = p THEN new ELSE IF n = new THEN q ELSE h.next[n]
          /\ g.prev[n] = IF n = new THEN p ELSE IF n = q THEN new ELSE h.prev[n]
    <2> HIDE DEF q
    <2> QED  BY <1>1, LinkEffect
  <1> HIDE DEF g, q
  <1>4. \A n \in R2 : g.next[n] \in R2 /\ g.prev[n] \in R2  BY <1>1, <1>2, <1>3
  <1>5. \A n \in R2 : Linked(g, n)
    <2>1. g.next[g.prev[new]] = new /\ g.prev[g.next[new]] = new
      BY <1>1, <1>3
    <2>2. ASSUME NEW n \in R  PROVE g.next[g.prev[n]] = n /\ g.prev[g.next[n]] = n
      <3>1. g.next[g.prev[n]] = n
        <4>1. CASE n = q  BY <1>1, <1>3, <4>1
        <4>2. CASE n # q
          <5>1. h.prev[n] # p  BY <1>1, <1>2, <4>2 DEF q
          <5> QED  BY <1>1, <1>2, <1>3, <4>2, <5>1
        <4> QED  BY <4>1, <4>2
      <3>2. g.prev[g.next[n]] = n
        <4>1. CASE n = p  BY <1>1, <1>3, <4>1
        <4>2. CASE n # p
          <5>1. h.next[n] # q  BY <1>1, <1>2, <4>2 DEF q
          <5> QED  BY <1>1, <1>2, <1>3, <4>2, <5>1
        <4> QED  BY <4>1, <4>2
      <3> QED  BY <3>1, <3>2
    <2> QED  BY <2>1, <2>2 DEF Linked
  <1>6. ASSUME NEW T \in SUBSET R2, head \in T, \A n \in T : g.next[n] \in T
        PROVE  T = R2
    <2> DEFINE U == T \ {new}
    <2>1. \A n \in U : h.next[n] \in U
      <3>1. TAKE n \in U
      <3>2. n \in R /\ h.next[n] \in R  BY <1>2
      <3>3. CASE n = p
        <4>1. new \in T  BY <1>1, <1>3, <1>6, <3>3
        <4>2. q \in T  BY <1>1, <1>3, <1>6, <4>1
        <4> QED  BY <1>1, <3>3, <4>2 DEF q
      <3>4. CASE n # p  BY <1>1, <1>3, <1>6, <3>2, <3>4
      <3> QED  BY <3>3, <3>4
    <2>2. U = R  BY <1>6, <2>1 DEF Ring
    <2>3. new \in T  BY <1>1, <1>3, <1>6, <2>2
    <2> QED  BY <2>2, <2>3
  <1> QED  BY <1>4, <1>5, <1>6 DEF Ring, g, q

\* list_add_tail and list_add, behind a node of the list.
LEMMA RingAddTail ==
  ASSUME NEW lowest, NEW h \in HeapType(lowest),
         NEW head \in Node(lowest), NEW S \in SUBSET Node(lowest), Ring(h, head, S),
         NEW new \in Node(lowest), new \notin S \cup {head}
  PROVE  Ring(list_add_tail(h, new, head), head, S \cup {new})
  <1>1. h.prev[head] \in S \cup {head} /\ h.next[h.prev[head]] = head  BY DEF Ring, Linked
  <1> QED  BY <1>1, RingLink DEF list_add_tail

\* list_add puts a node that is on no list after a node of the list.
LEMMA RingAdd ==
  ASSUME NEW lowest, NEW h \in HeapType(lowest),
         NEW head \in Node(lowest), NEW S \in SUBSET Node(lowest), Ring(h, head, S),
         NEW new \in Node(lowest), new \notin S \cup {head}, NEW at \in S
  PROVE  Ring(list_add(h, new, at), head, S \cup {new})
  BY RingLink DEF list_add

\* list_del of a node of a list takes it away, and only it.
LEMMA RingDel ==
  ASSUME NEW lowest, NEW h \in HeapType(lowest),
         NEW head \in Node(lowest), NEW S \in SUBSET Node(lowest), Ring(h, head, S),
         NEW e \in S
  PROVE  Ring(list_del(h, e), head, S \ {e})
  <1> DEFINE p == h.prev[e]
             q == h.next[e]
             g == list_del(h, e)
             R == S \cup {head}
             R2 == (S \ {e}) \cup {head}
  <1>1. /\ p \in R /\ q \in R /\ h.next[p] = e /\ h.prev[q] = e /\ R \subseteq Node(lowest)
        /\ e # head /\ R2 = R \ {e}
    BY DEF Ring, Linked
  <1>2. /\ \A n \in R : h.next[n] \in R /\ h.prev[n] \in R
        /\ \A n \in R : h.next[h.prev[n]] = n /\ h.prev[h.next[n]] = n
    BY DEF Ring, Linked
  <1>3. \A n \in Node(lowest) :
          /\ g.next[n] = IF n = p THEN q ELSE h.next[n]
          /\ g.prev[n] = IF n = q THEN p ELSE h.prev[n]
    <2>1. e \in Node(lowest)  OBVIOUS
    <2> QED  BY <2>1, DelEffect
  <1> HIDE DEF g
  <1>4. p # e /\ q # e
    <2>1. SUFFICES ASSUME p = e  PROVE FALSE  BY <1>1, <1>2
    <2>2. \A n \in R2 : h.next[n] \in R2  BY <1>1, <1>2, <2>1
    <2> QED  BY <1>1, <2>2 DEF Ring
  <1>5. \A n \in R2 : /\ g.next[n] \in R2 /\ g.prev[n] \in R2
    BY <1>1, <1>2, <1>3, <1>4
  <1>6. \A n \in R2 : Linked(g, n)
    <2>1. TAKE n \in R2
    <2>2. g.next[g.prev[n]] = n
      <3>1. CASE n = q  BY <1>1, <1>3, <1>4, <3>1
      <3>2. CASE n # q
        <4>1. h.prev[n] # p /\ h.prev[n] \in R /\ h.next[h.prev[n]] = n  BY <1>1, <1>2, <3>2
        <4> QED  BY <1>1, <1>3, <3>2, <4>1
      <3> QED  BY <3>1, <3>2
    <2>3. g.prev[g.next[n]] = n
      <3>1. CASE n = p  BY <1>1, <1>3, <1>4, <3>1
      <3>2. CASE n # p
        <4>1. h.next[n] # q /\ h.next[n] \in R /\ h.prev[h.next[n]] = n  BY <1>1, <1>2, <3>2
        <4> QED  BY <1>1, <1>3, <3>2, <4>1
      <3> QED  BY <3>1, <3>2
    <2> QED  BY <2>2, <2>3 DEF Linked
  <1>7. ASSUME NEW T \in SUBSET R2, head \in T, \A n \in T : g.next[n] \in T
        PROVE  T = R2
    <2> DEFINE U == IF p \in T THEN T \cup {e} ELSE T
    <2>1. U \subseteq R /\ head \in U /\ \A n \in U : n \in T \/ (n = e /\ p \in T)
      BY <1>1, <1>7
    <2>2. \A n \in U : h.next[n] \in U
      <3>1. TAKE n \in U
      <3>2. CASE n = e /\ p \in T
        <4>1. q \in T  BY <1>1, <1>3, <1>7, <3>2
        <4> QED  BY <3>2, <4>1
      <3>3. CASE n \in T /\ n = p  BY <1>1, <3>3
      <3>4. CASE n \in T /\ n # p
        <4>1. g.next[n] = h.next[n]  BY <1>1, <1>3, <1>7, <3>4
        <4> QED  BY <1>7, <3>4, <4>1
      <3> QED  BY <2>1, <3>2, <3>3, <3>4
    <2>3. U = R  BY <2>1, <2>2 DEF Ring
    <2>4. T \subseteq R2 /\ U \ {e} = T  BY <1>1
    <2> QED  BY <1>1, <2>3, <2>4
  <1> QED  BY <1>5, <1>6, <1>7 DEF Ring, g

\* A list is empty when list_empty says so, and its first node is on it.
LEMMA RingEmpty ==
  ASSUME NEW h, NEW head, NEW S, Ring(h, head, S)
  PROVE  /\ list_empty(h, head) <=> S = {}
         /\ S # {} => h.next[head] \in S
  <1>1. h.next[head] = head => S = {}
    <2> SUFFICES ASSUME h.next[head] = head  PROVE S = {}  OBVIOUS
    <2>1. {head} \in SUBSET (S \cup {head}) /\ \A n \in {head} : h.next[n] \in {head}  OBVIOUS
    <2>2. {head} = S \cup {head}  BY <2>1 DEF Ring
    <2> QED  BY <2>2 DEF Ring
  <1>2. h.next[head] \in S \cup {head} /\ h.prev[head] \in S \cup {head}  BY DEF Ring
  <1> QED  BY <1>1, <1>2 DEF list_empty

-----------------------------------------------------------------------------
\* Following next from the head: the nodes list_for_each comes to.
Follows(L, head, n, f) ==
  f = [k \in 0..n |-> IF k = 0 THEN head ELSE L.next[f[k - 1]]]

\* From every node a walk along next of any length can be written down.
LEMMA FollowsExists ==
  ASSUME NEW L, NEW head, NEW n \in Nat
  PROVE  \E f : Follows(L, head, n, f)
  <1> DEFINE P(m) == \E f : Follows(L, head, m, f)
             G == {m \in 0..n : P(m)}
  <1>1. 0 \in G
    <2> DEFINE f == [k \in 0..0 |-> head]
    <2>1. f = [k \in 0..0 |-> IF k = 0 THEN head ELSE L.next[f[k - 1]]]  OBVIOUS
    <2> HIDE DEF f
    <2> QED  BY <2>1 DEF Follows
  <1>2. \A m \in 0..n - 1 : m \in G => m + 1 \in G
    <2> SUFFICES ASSUME NEW m \in 0..n - 1, NEW f, Follows(L, head, m, f)
                 PROVE  P(m + 1)
      OBVIOUS
    <2> DEFINE g == [k \in 0..m + 1 |-> IF k = m + 1 THEN L.next[f[m]] ELSE f[k]]
    <2>1. f = [k \in 0..m |-> IF k = 0 THEN head ELSE L.next[f[k - 1]]]  BY DEF Follows
    <2>2. f[0] = head /\ \A k \in 1..m : f[k] = L.next[f[k - 1]]
      <3>1. 0 \in 0..m  OBVIOUS
      <3>2. \A k \in 1..m : k \in 0..m /\ k # 0  OBVIOUS
      <3> QED  BY <2>1, <3>1, <3>2
    <2>3. /\ \A k \in 0..m : g[k] = f[k]
          /\ g[m + 1] = L.next[f[m]]
      OBVIOUS
    <2>4. \A k \in 0..m + 1 : g[k] = IF k = 0 THEN head ELSE L.next[g[k - 1]]
      <3>1. TAKE k \in 0..m + 1
      <3>2. CASE k = 0  BY <2>2, <2>3, <3>2
      <3>3. CASE k = m + 1 /\ k # 0  BY <2>3, <3>3
      <3>4. CASE k \in 1..m  BY <2>2, <2>3, <3>4
      <3> QED  BY <3>2, <3>3, <3>4
    <2>5. g = [k \in 0..m + 1 |-> g[k]]  OBVIOUS
    <2> HIDE DEF g
    <2>6. g = [k \in 0..m + 1 |-> IF k = 0 THEN head ELSE L.next[g[k - 1]]]  BY <2>4, <2>5
    <2> QED  BY <2>6 DEF Follows
  <1>3. n \in G
    <2> HIDE DEF G
    <2> QED  BY <1>1, <1>2, InductionUpTo
  <1> QED  BY <1>3

\* How many nodes it comes to before it is back at the head, or bound.
Visits(f, head, bound) ==
  LET ends == {k \in 1..bound : f[k] = head}
  IN  IF ends = {} THEN bound ELSE Min(ends) - 1

\* The nodes of Entries are those f comes to before the head.
Visited(L, head, bound, f) ==
  /\ Follows(L, head, bound + 1, f)
  /\ Entries(L, head, bound) = [k \in 1..Visits(f, head, bound) |-> f[k]]

\* Entries is what such a walk visits before it is back at the head.
LEMMA EntriesFollow ==
  ASSUME NEW L, NEW head, NEW bound \in Nat
  PROVE  \E f : Visited(L, head, bound, f)
  <1> DEFINE at == CHOOSE f : f = [k \in 0..bound + 1 |-> IF k = 0 THEN head ELSE L.next[f[k - 1]]]
  <1>1. Follows(L, head, bound + 1, at)
    <2>1. bound + 1 \in Nat  OBVIOUS
    <2>2. \E f : f = [k \in 0..bound + 1 |-> IF k = 0 THEN head ELSE L.next[f[k - 1]]]
      <3>1. \E f : Follows(L, head, bound + 1, f)  BY <2>1, FollowsExists
      <3> QED  BY <3>1, Zenon DEF Follows
    <2> QED  BY <2>2 DEF Follows
  <1>2. Entries(L, head, bound) = [k \in 1..Visits(at, head, bound) |-> at[k]]
    BY DEF Entries, Visits
  <1> HIDE DEF at
  <1> QED  BY <1>1, <1>2 DEF Visited

\* Following next stays on the list, and until it is back at the head comes
\* to no node twice.
LEMMA FollowsRing ==
  ASSUME NEW L, NEW head, NEW S, Ring(L, head, S), NEW n \in Nat, NEW f, Follows(L, head, n, f)
  PROVE  /\ f \in [0..n -> S \cup {head}] /\ f[0] = head
         /\ \A k \in 1..n : f[k] = L.next[f[k - 1]]
  <1>1. f = [k \in 0..n |-> IF k = 0 THEN head ELSE L.next[f[k - 1]]]  BY DEF Follows
  <1>2. f[0] = head /\ \A k \in 1..n : f[k] = L.next[f[k - 1]]
    <2>1. 0 \in 0..n /\ \A k \in 1..n : k \in 0..n /\ k # 0  OBVIOUS
    <2> QED  BY <1>1, <2>1
  <1>3. 0..n \subseteq {k \in 0..n : f[k] \in S \cup {head}}
    <2> DEFINE G == {k \in 0..n : f[k] \in S \cup {head}}
    <2>1. 0 \in G  BY <1>2
    <2>2. \A k \in 0..n - 1 : k \in G => k + 1 \in G
      <3>1. TAKE k \in 0..n - 1
      <3>2. k + 1 \in 1..n /\ (k + 1) - 1 = k /\ k + 1 \in 0..n  OBVIOUS
      <3>3. f[k + 1] = L.next[f[k]]  BY <1>2, <3>2
      <3> QED  BY <3>2, <3>3 DEF Ring
    <2> HIDE DEF G
    <2>3. 0..n \subseteq G  BY <2>1, <2>2, InductionUpTo
    <2> QED  BY <2>3 DEF G
  <1> QED  BY <1>1, <1>2, <1>3

\* On a ring, a walk that has not come back to the head has met no node twice.
LEMMA FollowsOnce ==
  ASSUME NEW L, NEW head, NEW S, Ring(L, head, S), NEW n \in Nat, NEW f, Follows(L, head, n, f),
         NEW m \in 0..n, \A k \in 1..m : f[k] # head
  PROVE  \A i, j \in 0..m : f[i] = f[j] => i = j
  <1>1. /\ f \in [0..n -> S \cup {head}] /\ f[0] = head
        /\ \A k \in 1..n : f[k] = L.next[f[k - 1]]
    BY FollowsRing
  <1> DEFINE B == {i \in 0..m : \E j \in i + 1..m : f[i] = f[j]}
  <1>2. B = {}
    <2>1. SUFFICES ASSUME B # {}  PROVE FALSE  OBVIOUS
    <2>2. B \in SUBSET Nat  OBVIOUS
    <2>3. PICK i \in B : \A k \in B : i <= k
      <3> HIDE DEF B
      <3> QED  BY <2>1, <2>2, LeastNat
    <2>4. PICK j \in i + 1..m : f[i] = f[j]  OBVIOUS
    <2>5. i \in 0..m /\ j \in 1..m /\ i # 0
      <3>1. i \in 0..m /\ j \in 1..m  OBVIOUS
      <3> QED  BY <1>1, <2>4, <3>1
    <2>6. /\ i \in 1..n /\ j \in 1..n /\ i - 1 \in 0..n /\ j - 1 \in 0..n
          /\ i - 1 \in 0..m /\ j - 1 \in (i - 1) + 1..m
      BY <2>4, <2>5
    <2>7. L.prev[f[i]] = f[i - 1] /\ L.prev[f[j]] = f[j - 1]
      <3>1. f[i] = L.next[f[i - 1]] /\ f[j] = L.next[f[j - 1]]  BY <1>1, <2>6
      <3>2. f[i - 1] \in S \cup {head} /\ f[j - 1] \in S \cup {head}  BY <1>1, <2>6
      <3> QED  BY <3>1, <3>2 DEF Ring, Linked
    <2>8. i - 1 \in B  BY <2>4, <2>6, <2>7
    <2>9. i <= i - 1
      <3> HIDE DEF B
      <3> QED  BY <2>3, <2>8
    <2> QED  BY <2>5, <2>9
  <1>3. SUFFICES ASSUME NEW i \in 0..m, NEW j \in 0..m, f[i] = f[j], i # j  PROVE FALSE
    OBVIOUS
  <1>4. i \in B \/ j \in B
    <2>1. j \in i + 1..m \/ i \in j + 1..m  BY <1>3
    <2> QED  BY <1>3, <2>1
  <1> QED  BY <1>2, <1>4

\* list_for_each comes to all nodes of a list, given a bound that is not too
\* small.
LEMMA EntriesRing ==
  ASSUME NEW L, NEW head, NEW S, Ring(L, head, S), NEW bound \in Nat,
         IsFiniteSet(S), Cardinality(S) <= bound
  PROVE  EntrySet(L, head, bound) = S
  <1>1. PICK f : Visited(L, head, bound, f)  BY EntriesFollow
  <1>2. /\ Follows(L, head, bound + 1, f)
        /\ Entries(L, head, bound) = [k \in 1..Visits(f, head, bound) |-> f[k]]
    BY <1>1 DEF Visited
  <1>3. /\ f \in [0..bound + 1 -> S \cup {head}] /\ f[0] = head
        /\ \A k \in 1..bound + 1 : f[k] = L.next[f[k - 1]]
    <2>1. bound + 1 \in Nat  OBVIOUS
    <2> QED  BY <1>2, <2>1, FollowsRing
  <1> DEFINE ends == {k \in 1..bound : f[k] = head}
             last == IF ends = {} THEN bound ELSE Min(ends) - 1
  <1>4. last \in 0..bound /\ (\A k \in 1..last : f[k] # head)
        /\ (ends # {} => f[last + 1] = head)
    <2>1. CASE ends = {}  BY <2>1
    <2>2. CASE ends # {}
      <3>1. ends \in SUBSET Int /\ 1 \in Int /\ \A k \in ends : 1 <= k  OBVIOUS
      <3>2. Min(ends) \in ends /\ \A k \in ends : Min(ends) <= k
        <4> HIDE DEF ends
        <4> QED  BY <2>2, <3>1, MinOfSet
      <3>3. Min(ends) \in 1..bound /\ f[Min(ends)] = head  BY <3>2
      <3>4. last = Min(ends) - 1  BY <2>2
      <3>5. \A k \in 1..last : k \notin ends  
        <4> HIDE DEF ends
        <4> QED  BY <3>2, <3>3, <3>4
      <3>6. last \in 0..bound /\ last + 1 = Min(ends)
        <4> HIDE DEF ends
        <4> QED  BY <3>3, <3>4
      <3>7. \A k \in 1..last : k \in 1..bound
        <4> HIDE DEF ends
        <4> QED  BY <3>6
      <3> QED  BY <3>3, <3>5, <3>6, <3>7
    <2> QED  BY <2>1, <2>2
  <1>5. EntrySet(L, head, bound) = {f[k] : k \in 1..last}
    <2>1. Entries(L, head, bound) = [k \in 1..last |-> f[k]]  BY <1>2 DEF Visits
    <2> HIDE DEF last
    <2> QED  BY <2>1 DEF EntrySet
  <1>6. \A i, j \in 0..last : f[i] = f[j] => i = j
    <2> HIDE DEF ends, last
    <2>1. bound + 1 \in Nat /\ last \in 0..bound + 1  BY <1>4
    <2> QED  BY <1>2, <1>4, <2>1, FollowsOnce
  <1> DEFINE T == {f[k] : k \in 0..last}
  <1>7. T \in SUBSET (S \cup {head}) /\ head \in T
    <2> HIDE DEF ends, last
    <2>1. \A k \in 0..last : k \in 0..bound + 1  BY <1>4
    <2>2. 0 \in 0..last  BY <1>4
    <2> QED  BY <1>3, <2>1, <2>2
  <1>8. T = S \cup {head}
    <2>1. CASE ends # {}
      <3>1. f[last + 1] = head /\ last \in 0..bound  BY <1>4, <2>1
      <3> HIDE DEF last
      <3>2. ASSUME NEW k \in 0..last  PROVE L.next[f[k]] \in T
        <4>1. k + 1 \in 1..bound + 1 /\ (k + 1) - 1 = k  BY <3>1
        <4>2. f[k + 1] = L.next[f[k]]  BY <1>3, <4>1
        <4>3. k = last \/ k + 1 \in 0..last  BY <3>1
        <4> QED  BY <1>7, <3>1, <4>2, <4>3
      <3>3. \A x \in T : L.next[x] \in T  BY <3>2
      <3> HIDE DEF T
      <3> QED  BY <1>7, <3>3 DEF Ring
    <2>2. CASE ends = {}
      <3>1. last = bound  BY <2>2
      <3> HIDE DEF last, ends
      <3>2. IsFiniteSet(T) /\ Cardinality(T) = bound + 1
        <4> DEFINE t == [k \in 1..bound + 1 |-> f[k - 1]]
        <4>1. t \in [1..bound + 1 -> T]  BY <3>1
        <4>2. \A i, j \in 1..bound + 1 : t[i] = t[j] => i = j
          <5>1. TAKE i, j \in 1..bound + 1
          <5>2. i - 1 \in 0..last /\ j - 1 \in 0..last  BY <3>1
          <5>3. t[i] = f[i - 1] /\ t[j] = f[j - 1]  OBVIOUS
          <5>4. f[i - 1] = f[j - 1] => i - 1 = j - 1  BY <1>6, <5>2
          <5> QED  BY <5>3, <5>4
        <4>3. \A x \in T : \E i \in 1..bound + 1 : t[i] = x
          <5>1. SUFFICES ASSUME NEW k \in 0..bound  PROVE \E i \in 1..bound + 1 : t[i] = f[k]
            BY <3>1
          <5>2. k + 1 \in 1..bound + 1 /\ (k + 1) - 1 = k  OBVIOUS
          <5>3. t[k + 1] = f[k]  BY <5>2
          <5> QED  BY <5>2, <5>3
        <4>4. bound + 1 \in Nat  OBVIOUS
        <4> HIDE DEF t, T
        <4> QED  BY <4>1, <4>2, <4>3, <4>4, CountedSet
      <3>3. IsFiniteSet(S \cup {head}) /\ Cardinality(S \cup {head}) = Cardinality(S) + 1
        <4>1. head \notin S  BY DEF Ring
        <4> QED  BY <4>1, FS_AddElement
      <3>4. Cardinality(T) <= Cardinality(S \cup {head})
            /\ (Cardinality(T) = Cardinality(S \cup {head}) => T = S \cup {head})
        <4> HIDE DEF T
        <4> QED  BY <1>7, <3>3, FS_Subset
      <3>5. Cardinality(S) \in Nat  BY FS_CardinalityType
      <3> HIDE DEF T
      <3> QED  BY <3>2, <3>3, <3>4, <3>5
    <2> QED  BY <2>1, <2>2
  <1>9. {f[k] : k \in 1..last} = T \ {head}
    <2> HIDE DEF ends, last
    <2>1. \A k \in 0..last : k = 0 \/ k \in 1..last  BY <1>4
    <2>2. \A k \in 1..last : k \in 0..last  BY <1>4
    <2> QED  BY <1>3, <1>4, <2>1, <2>2
  <1>10. head \notin S  BY DEF Ring
  <1> HIDE DEF ends, last, T
  <1> QED  BY <1>5, <1>8, <1>9, <1>10

\* ... each once.
LEMMA EntriesCount ==
  ASSUME NEW L, NEW head, NEW S, Ring(L, head, S), NEW bound \in Nat,
         IsFiniteSet(S), Cardinality(S) <= bound
  PROVE  Len(Entries(L, head, bound)) = Cardinality(S)
  <1>1. PICK f : Visited(L, head, bound, f)  BY EntriesFollow
  <1> DEFINE n == Visits(f, head, bound)
  <1>2. /\ Follows(L, head, bound + 1, f)
        /\ Entries(L, head, bound) = [k \in 1..n |-> f[k]]
    BY <1>1 DEF Visited
  <1>3. bound + 1 \in Nat /\ f \in [0..bound + 1 -> S \cup {head}]
    <2>1. bound + 1 \in Nat  OBVIOUS
    <2> QED  BY <1>2, <2>1, FollowsRing
  <1>4. n \in 0..bound /\ \A k \in 1..n : f[k] # head
    <2> DEFINE ends == {k \in 1..bound : f[k] = head}
    <2>1. n = IF ends = {} THEN bound ELSE Min(ends) - 1  BY DEF Visits
    <2>2. CASE ends = {}  BY <2>1, <2>2
    <2>3. CASE ends # {}
      <3>1. ends \in SUBSET Int /\ 1 \in Int /\ \A k \in ends : 1 <= k  OBVIOUS
      <3>2. Min(ends) \in ends /\ \A k \in ends : Min(ends) <= k
        <4> HIDE DEF ends
        <4> QED  BY <2>3, <3>1, MinOfSet
      <3>3. Min(ends) \in 1..bound /\ n = Min(ends) - 1  BY <2>1, <2>3, <3>2
      <3>4. \A k \in 1..n : k \in 1..bound /\ k \notin ends
        <4> HIDE DEF ends, n
        <4> QED  BY <3>2, <3>3
      <3> HIDE DEF n
      <3> QED  BY <3>3, <3>4
    <2> QED  BY <2>2, <2>3
  <1> HIDE DEF n
  <1>5. \A i, j \in 0..n : f[i] = f[j] => i = j
    <2>1. n \in 0..bound + 1  BY <1>4
    <2> QED  BY SMTT(30), <1>2, <1>3, <1>4, <2>1, FollowsOnce
  <1> DEFINE t == [k \in 1..n |-> f[k]]
  <1>6. t \in [1..n -> S] /\ \A i, j \in 1..n : t[i] = t[j] => i = j
    <2>1. \A k \in 1..n : k \in 0..n /\ k \in 0..bound + 1  BY <1>4
    <2>2. \A k \in 1..n : f[k] \in S  BY <1>3, <1>4, <2>1
    <2> QED  BY <1>5, <2>1, <2>2
  <1>7. \A x \in S : \E i \in 1..n : t[i] = x
    <2>1. EntrySet(L, head, bound) = {t[i] : i \in 1..n}  BY <1>2 DEF EntrySet
    <2>2. S = {t[i] : i \in 1..n}  BY <2>1, EntriesRing
    <2> QED  BY <2>2
  <1>8. n \in Nat /\ Entries(L, head, bound) = t  BY <1>2, <1>4
  <1> HIDE DEF t
  <1>9. Cardinality(S) = n  BY <1>6, <1>7, <1>8, CountedSet
  <1>10. Len(t) = n
    <2>1. t \in Seq(S)  BY <1>6, <1>8
    <2>2. DOMAIN t = 1..n  BY <1>6
    <2> QED  BY <1>8, <2>1, <2>2
  <1> QED  BY <1>8, <1>9, <1>10

-----------------------------------------------------------------------------
\* Spans, areas and pages.
LEMMA Sizes ==
  /\ AREA_NUM \in Nat \ {0} /\ SegPages \in Nat \ {0} /\ MaxSegs \in Nat \ {0}
  /\ AreaPages \in Nat \ {0} /\ AreaPages = MaxSegs * SegPages
  /\ PageUnits \in Nat \ {0} /\ LARGE_BLOCK_NUM \in Nat /\ LARGE \in Nat \ {0}
  /\ LARGE <= SegPages /\ LARGE + 1 = LARGE_BLOCK_NUM
  BY AddressAssumption, HeapAssumption DEF AreaPages, LARGE

\* Page k of area a is a span: its number gives back the area and the page.
LEMMA SpanOfPage ==
  ASSUME NEW a \in Area, NEW k \in 0..AreaPages - 1
  PROVE  /\ SpanAt(a, k) \in Spans
         /\ AreaOf(SpanAt(a, k)) = a /\ PageOf(SpanAt(a, k)) = k
  <1>1. /\ a \in Nat /\ k \in Nat /\ AreaPages \in Nat \ {0} /\ k < AreaPages
        /\ a + 1 <= AREA_NUM /\ AREA_NUM \in Nat
    BY Sizes DEF Area
  <1>2. /\ (a * AreaPages + k) \div AreaPages = a
        /\ (a * AreaPages + k) % AreaPages = k
    BY <1>1
  <1>3. a * AreaPages + k + 1 <= AREA_NUM * AreaPages
    <2>1. (a + 1) * AreaPages <= AREA_NUM * AreaPages  BY <1>1
    <2>2. (a + 1) * AreaPages = a * AreaPages + AreaPages  BY <1>1
    <2>3. a * AreaPages \in Nat /\ AREA_NUM * AreaPages \in Nat  BY <1>1
    <2> QED  BY <1>1, <2>1, <2>2, <2>3
  <1>4. a * AreaPages \in Nat /\ AREA_NUM * AreaPages \in Nat  BY <1>1
  <1>5. (a * AreaPages + k + 1) - 1 = a * AreaPages + k  BY <1>1, <1>4
  <1> QED  BY <1>1, <1>2, <1>3, <1>4, <1>5 DEF SpanAt, AreaOf, PageOf, Spans

\* The other way round: every span is a page of its area.
LEMMA PageOfSpan ==
  ASSUME NEW s \in Spans
  PROVE  /\ AreaOf(s) \in Area /\ PageOf(s) \in 0..AreaPages - 1
         /\ SpanAt(AreaOf(s), PageOf(s)) = s
  <1>1. /\ AreaPages \in Nat \ {0} /\ AREA_NUM \in Nat /\ AREA_NUM * AreaPages \in Nat
        /\ s \in Nat /\ s - 1 \in Nat /\ s - 1 < AREA_NUM * AreaPages
    BY Sizes DEF Spans
  <1> DEFINE x == s - 1
             q == x \div AreaPages
             r == x % AreaPages
  <1>2. q \in Nat /\ r \in Nat /\ r < AreaPages /\ x = q * AreaPages + r  BY <1>1
  <1>3. q < AREA_NUM
    <2>1. SUFFICES ASSUME q >= AREA_NUM  PROVE FALSE  BY <1>1, <1>2
    <2>2. q * AreaPages >= AREA_NUM * AreaPages  BY <1>1, <1>2, <2>1
    <2>3. q * AreaPages \in Nat  BY <1>1, <1>2
    <2> QED  BY <1>1, <1>2, <2>2, <2>3
  <1>4. q * AreaPages + r + 1 = s
    <2>1. q * AreaPages \in Nat  BY <1>1, <1>2
    <2> QED  BY <1>1, <1>2, <2>1
  <1> QED  BY <1>1, <1>2, <1>3, <1>4 DEF AreaOf, PageOf, SpanAt, Area

\* The pages of an extent are those of one area, one after the other.
LEMMA PageOfNext ==
  ASSUME NEW s \in Spans, NEW n \in Nat, PageOf(s) + n < AreaPages
  PROVE  s + n \in Spans /\ AreaOf(s + n) = AreaOf(s) /\ PageOf(s + n) = PageOf(s) + n
  <1>1. AreaOf(s) \in Area /\ PageOf(s) \in 0..AreaPages - 1 /\ SpanAt(AreaOf(s), PageOf(s)) = s
    BY PageOfSpan
  <1>2. /\ AreaPages \in Nat \ {0} /\ AreaOf(s) \in Nat /\ PageOf(s) \in Nat
        /\ AreaOf(s) * AreaPages \in Nat
    BY <1>1, Sizes DEF Area
  <1>3. PageOf(s) + n \in 0..AreaPages - 1  BY <1>2
  <1>4. SpanAt(AreaOf(s), PageOf(s) + n) = s + n  BY <1>1, <1>2 DEF SpanAt
  <1> QED  BY <1>1, <1>3, <1>4, SpanOfPage

\* Each free list has a head of its own, below the spans.
LEMMA FreeListHead ==
  ASSUME NEW a \in Area, NEW i \in ListIndex
  PROVE  /\ FreeList(a, i) \in FreeLists /\ FreeList(a, i) \notin Spans \cup {NULL}
         /\ \A b \in Area, j \in ListIndex : FreeList(a, i) = FreeList(b, j) => a = b /\ i = j
  <1>1. /\ a \in Nat /\ i \in Nat /\ i < LARGE_BLOCK_NUM /\ LARGE_BLOCK_NUM \in Nat \ {0}
        /\ a + 1 <= AREA_NUM /\ AREA_NUM \in Nat
    BY Sizes DEF Area, ListIndex
  <1>2. a * LARGE_BLOCK_NUM \in Nat /\ AREA_NUM * LARGE_BLOCK_NUM \in Nat  BY <1>1
  <1>3. a * LARGE_BLOCK_NUM + i + 1 <= AREA_NUM * LARGE_BLOCK_NUM
    <2>1. (a + 1) * LARGE_BLOCK_NUM <= AREA_NUM * LARGE_BLOCK_NUM  BY <1>1
    <2>2. (a + 1) * LARGE_BLOCK_NUM = a * LARGE_BLOCK_NUM + LARGE_BLOCK_NUM  BY <1>1
    <2> QED  BY <1>1, <1>2, <2>1, <2>2
  <1>4. ASSUME NEW b \in Area, NEW j \in ListIndex, FreeList(a, i) = FreeList(b, j)
        PROVE  a = b /\ i = j
    <2>1. b \in Nat /\ j \in Nat /\ j < LARGE_BLOCK_NUM  BY <1>1 DEF Area, ListIndex
    <2>2. b * LARGE_BLOCK_NUM \in Nat  BY <1>1, <2>1
    <2>3. a * LARGE_BLOCK_NUM + i = b * LARGE_BLOCK_NUM + j
      BY <1>1, <1>2, <1>4, <2>1, <2>2 DEF FreeList
    <2>4. (a * LARGE_BLOCK_NUM + i) \div LARGE_BLOCK_NUM = a
          /\ (b * LARGE_BLOCK_NUM + j) \div LARGE_BLOCK_NUM = b
      BY <1>1, <2>1
    <2> QED  BY <1>1, <1>2, <2>1, <2>3, <2>4
  <1>5. FreeList(a, i) \in Int /\ FreeList(a, i) <= -1 /\ FreeList(a, i) >= -(AREA_NUM * LARGE_BLOCK_NUM)
    BY <1>1, <1>2, <1>3 DEF FreeList
  <1> QED  BY <1>1, <1>2, <1>4, <1>5 DEF FreeLists, Spans, NULL

-----------------------------------------------------------------------------
\* The tables of the span map of an area with n segments follow each other.
Tables(a, n) == [k \in 0..n - 1 |-> SPAN_MAP_POOL_START(a) + k * SegPages]

\* An address in the first page of a span leads to the span's place in the map.
LEMMA MapPlace ==
  ASSUME NEW s \in Spans, NEW x \in 0..PageUnits - 1, NEW n \in Nat,
         PageOf(s) < n * SegPages
  PROVE  /\ AreaOfAddress(AddressOf(s) + x) = AreaOf(s)
         /\ EntryAt(Tables(AreaOf(s), n), AddressOf(s) + x - RAW_POOL_START(AreaOf(s))) = s - 1
  <1> DEFINE a == AreaOf(s)
             k == PageOf(s)
             off == k * PageUnits + x
  <1>1. a \in Area /\ k \in 0..AreaPages - 1 /\ SpanAt(a, k) = s  BY PageOfSpan
  <1>2. /\ AreaPages \in Nat \ {0} /\ a \in Nat /\ k \in Nat /\ k < AreaPages
        /\ AREA_NUM \in Nat /\ PageUnits \in Nat \ {0} /\ SegPages \in Nat \ {0}
        /\ x \in Nat /\ x < PageUnits /\ a * AreaPages \in Nat /\ k * PageUnits \in Nat
    BY <1>1, Sizes DEF Area
  <1> HIDE DEF a, k
  <1> DEFINE U == AreaPages * PageUnits
  <1>3. U \in Nat \ {0} /\ off \in Nat /\ off < U
    <2>1. (k + 1) * PageUnits <= AreaPages * PageUnits  BY <1>2
    <2>2. (k + 1) * PageUnits = k * PageUnits + PageUnits  BY <1>2
    <2>3. AreaPages * PageUnits \in Nat \ {0}  BY <1>2
    <2> QED  BY <1>2, <2>1, <2>2, <2>3
  <1>4. \A b \in Area : RAW_POOL_START(b) = (b + 1) * 2 * AreaPages * PageUnits
                        /\ RAW_POOL_START(b) = (b + 1) * (2 * U) /\ b \in Nat
    BY <1>2 DEF RAW_POOL_START, Area
  <1>5. AddressOf(s) + x = RAW_POOL_START(a) + off /\ RAW_POOL_START(a) \in Nat
    <2>1. RAW_POOL_START(a) = (a + 1) * (2 * U) /\ (a + 1) * (2 * U) \in Nat
      BY <1>1, <1>2, <1>3, <1>4
    <2>2. AddressOf(s) = RAW_POOL_START(a) + k * PageUnits  BY DEF AddressOf, a, k
    <2> QED  BY <1>2, <2>1, <2>2
  <1>6. AreaOfAddress(AddressOf(s) + x) = a
    <2> DEFINE y == AddressOf(s) + x
               P(c) == /\ c = 0 \/ y >= RAW_POOL_START(c)
                       /\ \A b \in Area : b > c => y < RAW_POOL_START(b)
    <2> HIDE DEF U, off
    <2>1. y \in Nat /\ y = (a + 1) * (2 * U) + off  BY <1>1, <1>3, <1>4, <1>5
    <2> HIDE DEF y
    <2>2. ASSUME NEW b \in Area, b > a  PROVE y < RAW_POOL_START(b)
      <3>1. b \in Nat /\ b >= a + 1 /\ 2 * U \in Nat  BY <1>2, <1>3, <1>4, <2>2
      <3>2. (b + 1) * (2 * U) >= (a + 2) * (2 * U)  BY <1>2, <3>1
      <3>3. (a + 2) * (2 * U) = (a + 1) * (2 * U) + 2 * U  BY <1>2, <3>1
      <3>4. RAW_POOL_START(b) = (b + 1) * (2 * U) /\ (b + 1) * (2 * U) \in Nat
            /\ (a + 1) * (2 * U) \in Nat
        BY <1>2, <1>4, <3>1
      <3> QED  BY <1>3, <2>1, <3>1, <3>2, <3>3, <3>4
    <2>3. y >= RAW_POOL_START(a)  BY <1>1, <1>3, <1>4, <1>5, <2>1
    <2>4. P(a)  BY <2>2, <2>3
    <2>5. \A c \in Area : P(c) => c = a
      <3>1. SUFFICES ASSUME NEW c \in Area, P(c), c # a  PROVE FALSE  OBVIOUS
      <3>2. c \in Nat  BY <1>4
      <3>3. CASE c > a
        <4>1. y < RAW_POOL_START(c) /\ y >= RAW_POOL_START(c)  BY <1>2, <2>2, <3>1, <3>3
        <4>2. RAW_POOL_START(c) \in Nat
          <5>1. (c + 1) * (2 * U) \in Nat  BY <1>3, <3>2
          <5> QED  BY <1>4, <5>1
        <4> QED  BY <2>1, <4>1, <4>2
      <3>4. CASE a > c
        <4>1. y < RAW_POOL_START(a)  BY <1>1, <3>1, <3>4
        <4> QED  BY <1>5, <2>1, <2>3, <4>1
      <3> QED  BY <1>2, <3>1, <3>2, <3>3, <3>4
    <2> HIDE DEF P
    <2>6. (CHOOSE c \in Area : P(c)) = a  BY <1>1, <2>4, <2>5
    <2> QED  BY <2>6 DEF AreaOfAddress, P, y
  <1>7. AddressOf(s) + x - RAW_POOL_START(a) = off
    <2>1. AddressOf(s) = RAW_POOL_START(a) + k * PageUnits  BY DEF AddressOf, a, k
    <2> QED  BY <1>2, <1>5, <2>1
  <1>8. off \div PageUnits = k /\ off \div (SegPages * PageUnits) = k \div SegPages
    <2>1. off \div PageUnits = k  BY <1>2
    <2> DEFINE q == k \div SegPages
               r == k % SegPages
               W == SegPages * PageUnits
    <2>2. q \in Nat /\ r \in Nat /\ r < SegPages /\ k = q * SegPages + r  BY <1>2
    <2> HIDE DEF q, r
    <2>3. off = q * W + (r * PageUnits + x)
      <3>1. k * PageUnits = (q * SegPages) * PageUnits + r * PageUnits  BY <1>2, <2>2
      <3>2. (q * SegPages) * PageUnits = q * W  BY <1>2, <2>2
      <3>3. r * PageUnits \in Nat /\ q * W \in Nat  BY <1>2, <2>2
      <3> QED  BY <1>2, <3>1, <3>2, <3>3
    <2>4. r * PageUnits + x \in Nat /\ r * PageUnits + x < W /\ W \in Nat \ {0}
      <3>1. (r + 1) * PageUnits <= SegPages * PageUnits  BY <1>2, <2>2
      <3>2. (r + 1) * PageUnits = r * PageUnits + PageUnits  BY <1>2, <2>2
      <3>3. r * PageUnits \in Nat /\ W \in Nat \ {0}  BY <1>2, <2>2
      <3> QED  BY <1>2, <3>1, <3>2, <3>3
    <2> HIDE DEF W, off
    <2>5. off \div W = q  BY <2>2, <2>3, <2>4
    <2> QED  BY <2>1, <2>5 DEF W, q
  <1>9. k \div SegPages \in 0..n - 1
    <2> DEFINE q == k \div SegPages
               r == k % SegPages
    <2>1. q \in Nat /\ r \in Nat /\ r < SegPages /\ k = q * SegPages + r  BY <1>2
    <2>2. k < n * SegPages  BY DEF k
    <2> HIDE DEF q, r
    <2>3. q < n
      <3>1. SUFFICES ASSUME q >= n  PROVE FALSE  BY <2>1
      <3>2. q * SegPages >= n * SegPages  BY <1>2, <2>1, <3>1
      <3>3. q * SegPages \in Nat /\ n * SegPages \in Nat  BY <1>2, <2>1
      <3> QED  BY <1>2, <2>1, <2>2, <3>2, <3>3
    <2> QED  BY <2>1, <2>3 DEF q
  <1>10. EntryAt(Tables(a, n), off) = s - 1
    <2> DEFINE q == k \div SegPages
               r == k % SegPages
    <2>1. q \in Nat /\ r \in Nat /\ r < SegPages /\ k = q * SegPages + r  BY <1>2
    <2>2. Tables(a, n)[q] = a * AreaPages + q * SegPages
      BY <1>9 DEF Tables, SPAN_MAP_POOL_START
    <2>3. EntryAt(Tables(a, n), off) = Tables(a, n)[q] + r
      BY <1>8 DEF EntryAt, memory_index, span_index
    <2>4. s = a * AreaPages + k + 1  BY <1>1 DEF SpanAt
    <2> HIDE DEF q, r
    <2>5. q * SegPages \in Nat  BY <1>2, <2>1
    <2> QED  BY <1>2, <2>1, <2>2, <2>3, <2>4, <2>5
  <1> QED  BY <1>6, <1>7, <1>10 DEF a

-----------------------------------------------------------------------------
\* Which spans are on which free list.
Shelves == [Area -> [ListIndex -> SUBSET Spans]]
OnShelf(S, s) == \E a \in Area, i \in ListIndex : s \in S[a][i]

\* The free lists are coherent and hold the spans of S: those of the list's
\* page count, no more worn than their area, the list of larger spans none;
\* the index of a list is a span on it, and nothing is written through NULL.
Shelved(h, S) ==
  /\ \A a \in Area, i \in ListIndex : Ring(h, FreeList(a, i), S[a][i])
  /\ \A a \in Area : S[a][LARGE] = {}
  /\ \A a \in Area, i \in ListIndex : \A s \in S[a][i] :
       /\ h.hdr[s].page_num = i + 1 /\ AreaOf(s) = a
       /\ h.hdr[s].wear_count <= h.max_wc[a]
  /\ \A a \in Area, i \in ListIndex : h.max_wear_page_index[a][i] \in S[a][i] \cup {NULL}
  /\ h.next[NULL] = NULL /\ h.prev[NULL] = NULL

\* From h to g, the links of the nodes that are on no free list, no head of
\* one and not s are as they were.
Elsewhere(lowest, h, g, S, s) ==
  \A n \in Node(lowest) :
    n \notin FreeLists \cup {s} /\ ~OnShelf(S, n) => g.next[n] = h.next[n] /\ g.prev[n] = h.prev[n]

\* Spans, list heads and NULL are nodes, and NULL is no span.
LEMMA NodesIn ==
  ASSUME NEW lowest \in Int, FreeLists \subseteq Node(lowest)
  PROVE  /\ Spans \subseteq Node(lowest) /\ NULL \in Node(lowest) /\ NULL \notin Spans
         /\ \A a \in Area, i \in ListIndex : FreeList(a, i) \in Node(lowest)
  <1>1. AREA_NUM * AreaPages \in Nat \ {0} /\ AREA_NUM * LARGE_BLOCK_NUM \in Nat \ {0}
    BY Sizes
  <1>2. -1 \in FreeLists  BY <1>1 DEF FreeLists
  <1>3. lowest <= -1  BY <1>2 DEF Node
  <1>4. \A a \in Area, i \in ListIndex : FreeList(a, i) \in Node(lowest)  BY FreeListHead
  <1>5. Spans \subseteq Node(lowest) /\ NULL \in Node(lowest) /\ NULL \notin Spans
    BY <1>1, <1>3 DEF Node, Spans, NULL
  <1> QED  BY <1>4, <1>5

\* No node is on two free lists.
LEMMA ShelfApart ==
  ASSUME NEW h, NEW S \in Shelves, Shelved(h, S),
         NEW a \in Area, NEW i \in ListIndex, NEW b \in Area, NEW j \in ListIndex,
         <<a, i>> # <<b, j>>
  PROVE  (S[a][i] \cup {FreeList(a, i)}) \cap (S[b][j] \cup {FreeList(b, j)}) = {}
  <1>1. S[a][i] \cap S[b][j] = {}
    <2>1. SUFFICES ASSUME NEW s \in S[a][i], s \in S[b][j]  PROVE FALSE  OBVIOUS
    <2>2. i + 1 = j + 1 /\ a = b  BY <2>1 DEF Shelved
    <2>3. i \in Int /\ j \in Int  BY DEF ListIndex
    <2> QED  BY <2>2, <2>3
  <1>2. FreeList(a, i) # FreeList(b, j)  BY FreeListHead
  <1>3. S[a][i] \subseteq Spans /\ S[b][j] \subseteq Spans  BY DEF Shelves
  <1>4. FreeList(a, i) \notin Spans /\ FreeList(b, j) \notin Spans  BY FreeListHead
  <1> QED  BY <1>1, <1>2, <1>3, <1>4

\* The header span_init writes.
Initialised(v, index, category) ==
  IF category # LARGE
  THEN [SpanInit(v, TotalBlocks(index)) EXCEPT !.category = index]
  ELSE [v EXCEPT !.category = LARGE, !.page_num = index + 1]

\* span_init of a header keeps the wear and sets category and pages from the
\* class asked for.
LEMMA InitialisedHeader ==
  ASSUME NEW v \in HeaderType, NEW index \in 0..LARGE, NEW category \in 0..LARGE,
         category = LARGE => index < LARGE
  PROVE  LET n == Initialised(v, index, category)
         IN  /\ n \in HeaderType /\ n.wear_count = v.wear_count
             /\ n.category = (IF category # LARGE THEN index ELSE LARGE)
             /\ n.page_num = (IF category # LARGE THEN v.page_num ELSE index + 1)
  <1>1. PageUnits \in Nat \ {0} /\ LARGE \in Nat  BY Sizes
  <1>2. CASE category # LARGE
    <2> DEFINE N == TotalBlocks(index)
               u == [v EXCEPT !.bitmap = 1..N, !.cur_pos = 0, !.free_block_num = N]
               n == [u EXCEPT !.category = index]
    <2>1. Initialised(v, index, category) = n  BY <1>2 DEF Initialised, SpanInit
    <2>2. N \in Int /\ 1..N \subseteq Int
      <3>1. index \in Nat  BY <1>1
      <3> QED  BY <1>1, <3>1 DEF TotalBlocks
    <2>3. 1..N \in SUBSET Int  BY <2>2
    <2> HIDE DEF N
    <2>4. u \in HeaderType /\ u.wear_count = v.wear_count /\ u.page_num = v.page_num
      <3>1. ASSUME NEW B \in SUBSET Int, NEW c \in Int, NEW m \in Int
            PROVE  LET w == [v EXCEPT !.bitmap = B, !.cur_pos = c, !.free_block_num = m]
                   IN  w \in HeaderType /\ w.wear_count = v.wear_count /\ w.page_num = v.page_num
        BY DEF HeaderType
      <3>2. 0 \in Int  OBVIOUS
      <3> QED  BY <2>2, <2>3, <3>1, <3>2
    <2> HIDE DEF u
    <2>5. /\ n \in HeaderType /\ n.wear_count = v.wear_count
          /\ n.category = index /\ n.page_num = v.page_num
      BY <2>4 DEF HeaderType
    <2> HIDE DEF n
    <2> QED  BY <1>2, <2>1, <2>5
  <1>3. CASE category = LARGE
    <2> DEFINE n == [v EXCEPT !.category = LARGE, !.page_num = index + 1]
    <2>1. Initialised(v, index, category) = n  BY <1>3 DEF Initialised
    <2>2. index + 1 \in 0..LARGE /\ LARGE \in 0..LARGE  BY <1>1, <1>3
    <2>3. /\ n \in HeaderType /\ n.wear_count = v.wear_count
          /\ n.category = LARGE /\ n.page_num = index + 1
      BY <2>2 DEF HeaderType
    <2> HIDE DEF n
    <2> QED  BY <1>3, <2>1, <2>3
  <1> QED  BY <1>2, <1>3

\* For small blocks it makes every block free, for a large span it leaves them.
LEMMA InitialisedBlocks ==
  ASSUME NEW v \in HeaderType, NEW index \in 0..LARGE, NEW category \in 0..LARGE
  PROVE  LET n == Initialised(v, index, category)
             N == TotalBlocks(index)
         IN  /\ category # LARGE => n.bitmap = 1..N /\ n.free_block_num = N /\ n.cur_pos = 0
             /\ category = LARGE => n.bitmap = v.bitmap /\ n.free_block_num = v.free_block_num
  <1> DEFINE N == TotalBlocks(index)
  <1>1. CASE category # LARGE
    <2>1. ASSUME NEW B, NEW c, NEW m
          PROVE  LET w == [[v EXCEPT !.bitmap = B, !.cur_pos = c, !.free_block_num = m] EXCEPT !.category = index]
                 IN  w.bitmap = B /\ w.free_block_num = m /\ w.cur_pos = c
      BY DEF HeaderType
    <2>2. Initialised(v, index, category)
            = [[v EXCEPT !.bitmap = 1..N, !.cur_pos = 0, !.free_block_num = N] EXCEPT !.category = index]
      BY <1>1 DEF Initialised, SpanInit
    <2> HIDE DEF N
    <2> QED  BY <1>1, <2>1, <2>2 DEF N
  <1>2. CASE category = LARGE
    <2>1. ASSUME NEW m
          PROVE  LET w == [v EXCEPT !.category = LARGE, !.page_num = m]
                 IN  w.bitmap = v.bitmap /\ w.free_block_num = v.free_block_num
      BY DEF HeaderType
    <2>2. Initialised(v, index, category) = [v EXCEPT !.category = LARGE, !.page_num = index + 1]
      BY <1>2 DEF Initialised
    <2> QED  BY <1>2, <2>1, <2>2
  <1> QED  BY <1>1, <1>2

\* The map of an area has its tables one after the other, and no place in the
\* map leads to another page's header.
Mapped(h) ==
  /\ \A a \in Area :
       /\ h.segments[a] \in 1..MaxSegs
       /\ h.free_start[a] \in (h.segments[a] - 1) * SegPages..h.segments[a] * SegPages
       /\ h.span_map[a] = Tables(a, h.segments[a])
  /\ \A e \in MapEntries : h.entry[e] \in {NULL, e + 1}

\* From h to g, the header of span s has become v, its links lead to itself
\* and the map leads to it.
Inited(lowest, h, g, s, v) ==
  /\ g \in HeapType(lowest)
  /\ g.next = [h.next EXCEPT ![s] = s] /\ g.prev = [h.prev EXCEPT ![s] = s]
  /\ g.hdr = [h.hdr EXCEPT ![s] = v] /\ g.entry = [h.entry EXCEPT ![s - 1] = s]
  /\ g.span_map = h.span_map /\ g.free_start = h.free_start
  /\ g.segments = h.segments /\ g.max_wc = h.max_wc
  /\ g.max_wear_page_index = h.max_wear_page_index

\* What span_init changes.
LEMMA SpanInitEffect ==
  ASSUME NEW lowest \in Int, FreeLists \subseteq Node(lowest),
         NEW h \in HeapType(lowest), Mapped(h),
         NEW s \in Spans, PageOf(s) < h.segments[AreaOf(s)] * SegPages,
         NEW index \in 0..LARGE, NEW category \in 0..LARGE,
         category = LARGE => index < LARGE
  PROVE  /\ Inited(lowest, h, span_init(h, s, index, category), s,
                   Initialised(h.hdr[s], index, category))
         /\ s - 1 \in MapEntries
  <1> DEFINE n == Initialised(h.hdr[s], index, category)
             k == [h EXCEPT !.hdr[s] = n]
             p == INIT_LIST_HEAD(k, s)
             g == span_init(h, s, index, category)
  <1>1. h.hdr[s] \in HeaderType  BY DEF HeapType
  <1>2. /\ n \in HeaderType /\ n.wear_count = h.hdr[s].wear_count
        /\ n.category = (IF category # LARGE THEN index ELSE LARGE)
        /\ n.page_num = (IF category # LARGE THEN h.hdr[s].page_num ELSE index + 1)
    BY <1>1, InitialisedHeader
  <1> HIDE DEF n
  <1>3. /\ k \in HeapType(lowest) /\ k.hdr = [h.hdr EXCEPT ![s] = n]
        /\ k.next = h.next /\ k.prev = h.prev /\ k.entry = h.entry
        /\ k.span_map = h.span_map /\ k.free_start = h.free_start
        /\ k.segments = h.segments /\ k.max_wc = h.max_wc
        /\ k.max_wear_page_index = h.max_wear_page_index
    BY <1>2 DEF HeapType
  <1> HIDE DEF k
  <1>4. s \in Node(lowest)  BY NodesIn
  <1>5. /\ p \in HeapType(lowest) /\ p.hdr = k.hdr
        /\ p.next = [k.next EXCEPT ![s] = s] /\ p.prev = [k.prev EXCEPT ![s] = s]
        /\ p.entry = k.entry
        /\ p.span_map = k.span_map /\ p.free_start = k.free_start
        /\ p.segments = k.segments /\ p.max_wc = k.max_wc
        /\ p.max_wear_page_index = k.max_wear_page_index
    BY <1>3, <1>4 DEF HeapType, INIT_LIST_HEAD
  <1> HIDE DEF p
  <1>6. s - 1 \in MapEntries /\ s \in Spans \cup {NULL}
    <2>1. AREA_NUM * AreaPages \in Nat  BY Sizes
    <2> QED  BY <2>1 DEF Spans, MapEntries
  <1>7. EntryAt(p.span_map[AreaOf(s)], AddressOf(s) - RAW_POOL_START(AreaOf(s))) = s - 1
    <2>1. AreaOf(s) \in Area  BY PageOfSpan
    <2>2. p.span_map[AreaOf(s)] = Tables(AreaOf(s), h.segments[AreaOf(s)])
          /\ h.segments[AreaOf(s)] \in Nat
      BY <1>3, <1>5, <2>1 DEF Mapped
    <2>3. 0 \in 0..PageUnits - 1  BY Sizes
    <2>4. EntryAt(Tables(AreaOf(s), h.segments[AreaOf(s)]),
                  AddressOf(s) + 0 - RAW_POOL_START(AreaOf(s))) = s - 1
      BY <2>2, <2>3, MapPlace
    <2>5. AddressOf(s) + 0 - RAW_POOL_START(AreaOf(s)) = AddressOf(s) - RAW_POOL_START(AreaOf(s))
      <3>1. PageOf(s) \in Nat /\ AreaOf(s) \in Nat /\ PageUnits \in Nat /\ AreaPages \in Nat
        BY PageOfSpan, Sizes DEF Area
      <3>2. RAW_POOL_START(AreaOf(s)) \in Nat  BY <3>1 DEF RAW_POOL_START
      <3>3. AddressOf(s) \in Nat  BY <3>1, <3>2 DEF AddressOf
      <3> QED  BY <3>2, <3>3
    <2> QED  BY <2>2, <2>4, <2>5
  <1>8. g = [p EXCEPT !.entry[s - 1] = s]
    BY <1>7 DEF span_init, reset_span_map, p, k, n, Initialised
  <1>9. /\ g \in HeapType(lowest) /\ g.hdr = p.hdr /\ g.next = p.next /\ g.prev = p.prev
        /\ g.entry = [p.entry EXCEPT ![s - 1] = s]
        /\ g.span_map = p.span_map /\ g.free_start = p.free_start
        /\ g.segments = p.segments /\ g.max_wc = p.max_wc
        /\ g.max_wear_page_index = p.max_wear_page_index
    <2> HIDE DEF g
    <2>1. p.entry \in [MapEntries -> Spans \cup {NULL}]  BY <1>5 DEF HeapType
    <2>2. [p.entry EXCEPT ![s - 1] = s] \in [MapEntries -> Spans \cup {NULL}]
      BY <1>6, <2>1
    <2> QED  BY <1>5, <1>8, <2>2 DEF HeapType
  <1> HIDE DEF g
  <1>10. Inited(lowest, h, g, s, n)  BY <1>3, <1>5, <1>9 DEF Inited
  <1> QED  BY <1>6, <1>10 DEF g, n

\* Initialising a span that is on no free list leaves the lists alone.
LEMMA SpanInitShelved ==
  ASSUME NEW lowest \in Int, FreeLists \subseteq Node(lowest),
         NEW h \in HeapType(lowest), Mapped(h), NEW S \in Shelves, Shelved(h, S),
         NEW s \in Spans, ~OnShelf(S, s), PageOf(s) < h.segments[AreaOf(s)] * SegPages,
         NEW index \in 0..LARGE, NEW category \in 0..LARGE,
         category = LARGE => index < LARGE
  PROVE  LET g == span_init(h, s, index, category)
         IN  Shelved(g, S) /\ Mapped(g)
  <1> DEFINE g == span_init(h, s, index, category)
  <1>1. /\ g \in HeapType(lowest)
        /\ g.next = [h.next EXCEPT ![s] = s] /\ g.prev = [h.prev EXCEPT ![s] = s]
        /\ g.hdr = [h.hdr EXCEPT ![s] = Initialised(h.hdr[s], index, category)]
        /\ g.entry = [h.entry EXCEPT ![s - 1] = s] /\ s - 1 \in MapEntries
        /\ g.span_map = h.span_map /\ g.free_start = h.free_start
        /\ g.segments = h.segments /\ g.max_wc = h.max_wc
        /\ g.max_wear_page_index = h.max_wear_page_index
    <2>1. Inited(lowest, h, g, s, Initialised(h.hdr[s], index, category)) /\ s - 1 \in MapEntries
      BY SpanInitEffect
    <2> HIDE DEF g
    <2> QED  BY <2>1 DEF Inited
  <1> HIDE DEF g
  <1>2. /\ h.next \in [Node(lowest) -> Node(lowest)] /\ h.prev \in [Node(lowest) -> Node(lowest)]
        /\ h.hdr \in [Spans -> HeaderType] /\ h.entry \in [MapEntries -> Spans \cup {NULL}]
    BY DEF HeapType
  <1>3. /\ Spans \subseteq Node(lowest) /\ NULL \in Node(lowest) /\ NULL \notin Spans
        /\ \A a \in Area, i \in ListIndex :
             FreeList(a, i) \in Node(lowest) /\ FreeList(a, i) \notin Spans
    BY NodesIn, FreeListHead
  <1>4. \A a \in Area, i \in ListIndex : S[a][i] \subseteq Spans /\ s \notin S[a][i]
    BY DEF Shelves, OnShelf
  <1>5. \A a \in Area, i \in ListIndex : Ring(g, FreeList(a, i), S[a][i])
    <2>1. TAKE a \in Area, i \in ListIndex
    <2>2. \A n \in S[a][i] \cup {FreeList(a, i)} : g.next[n] = h.next[n] /\ g.prev[n] = h.prev[n]
      BY <1>1, <1>2, <1>3, <1>4
    <2>3. Ring(h, FreeList(a, i), S[a][i])  BY DEF Shelved
    <2> QED  BY <2>2, <2>3, RingFrame
  <1>6. \A a \in Area, i \in ListIndex : \A x \in S[a][i] : g.hdr[x] = h.hdr[x]
    BY <1>1, <1>2, <1>4
  <1>7. g.next[NULL] = NULL /\ g.prev[NULL] = NULL  BY <1>1, <1>2, <1>3 DEF Shelved
  <1>8. Shelved(g, S)  BY <1>1, <1>5, <1>6, <1>7 DEF Shelved
  <1>9. \A e \in MapEntries : g.entry[e] \in {NULL, e + 1}
    <2>1. TAKE e \in MapEntries
    <2>2. CASE e = s - 1
      <3>1. s - 1 + 1 = s  BY DEF Spans
      <3> QED  BY <1>1, <1>2, <2>2, <3>1
    <2>3. CASE e # s - 1  BY <1>1, <1>2, <2>3 DEF Mapped
    <2> QED  BY <2>2, <2>3
  <1>10. Mapped(g)  BY <1>1, <1>9 DEF Mapped
  <1> QED  BY <1>8, <1>10 DEF g

\* The free lists with span s on list i of area a, or off it.
Shelve(S, a, i, s)   == [S EXCEPT ![a][i] = @ \cup {s}]
Unshelve(S, a, i, s) == [S EXCEPT ![a][i] = @ \ {s}]

\* R is S with the list i of area a set to T.
OneList(R, S, a, i, T) ==
  /\ R \in Shelves
  /\ \A b \in Area, j \in ListIndex : R[b][j] = IF b = a /\ j = i THEN T ELSE S[b][j]

\* Shelve changes one list of one area, ...
LEMMA ShelveAt ==
  ASSUME NEW S \in Shelves, NEW a \in Area, NEW i \in ListIndex, NEW s \in Spans
  PROVE  OneList(Shelve(S, a, i, s), S, a, i, S[a][i] \cup {s})
  BY DEF Shelves, Shelve, OneList

\* ... and so does Unshelve.
LEMMA UnshelveAt ==
  ASSUME NEW S \in Shelves, NEW a \in Area, NEW i \in ListIndex, NEW s
  PROVE  OneList(Unshelve(S, a, i, s), S, a, i, S[a][i] \ {s})
  BY DEF Shelves, Unshelve, OneList

\* acquire_span's first step on a list that is not empty: its first span is
\* on the list, and the index is then on another span of it or on none.
LEMMA SkipFirstShelved ==
  ASSUME NEW lowest \in Int, FreeLists \subseteq Node(lowest),
         NEW h \in HeapType(lowest), NEW S \in Shelves, Shelved(h, S),
         NEW a \in Area, NEW i \in ListIndex, S[a][i] # {}
  PROVE  LET first == h.next[FreeList(a, i)]
             g     == SkipFirst(h, a, i)
         IN  /\ first \in S[a][i] /\ g \in HeapType(lowest) /\ Shelved(g, S)
             /\ g.max_wear_page_index[a][i] # first
             /\ g.next = h.next /\ g.prev = h.prev /\ g.hdr = h.hdr /\ g.entry = h.entry
             /\ g.span_map = h.span_map /\ g.free_start = h.free_start
             /\ g.segments = h.segments /\ g.max_wc = h.max_wc
  <1> DEFINE head  == FreeList(a, i)
             first == h.next[head]
             after == h.next[first]
             g     == SkipFirst(h, a, i)
             new   == IF h.max_wear_page_index[a][i] # first THEN h.max_wear_page_index[a][i]
                      ELSE IF after = head THEN NULL ELSE after
  <1>1. Ring(h, head, S[a][i])  BY DEF Shelved
  <1> HIDE DEF head
  <1>2. first \in S[a][i] /\ after \in S[a][i] \cup {head} /\ head \notin S[a][i]
    <2>1. first \in S[a][i]  BY <1>1, RingEmpty
    <2> QED  BY <1>1, <2>1 DEF Ring
  <1>3. after # first
    <2>1. h.prev[first] = head /\ h.prev[after] = first  BY <1>1, <1>2 DEF Ring, Linked
    <2> QED  BY <1>2, <2>1
  <1>4. new \in S[a][i] \cup {NULL} /\ new # first /\ new \in Spans \cup {NULL}
    <2>1. h.max_wear_page_index[a][i] \in S[a][i] \cup {NULL}  BY DEF Shelved
    <2>2. S[a][i] \subseteq Spans /\ NULL \notin Spans  BY NodesIn DEF Shelves
    <2> QED  BY <1>2, <1>3, <2>1, <2>2
  <1>5. g = [h EXCEPT !.max_wear_page_index[a][i] = new]  BY DEF SkipFirst, head
  <1> HIDE DEF new, first, after, g
  <1>6. /\ g \in HeapType(lowest)
        /\ g.next = h.next /\ g.prev = h.prev /\ g.hdr = h.hdr /\ g.entry = h.entry
        /\ g.span_map = h.span_map /\ g.free_start = h.free_start
        /\ g.segments = h.segments /\ g.max_wc = h.max_wc
        /\ g.max_wear_page_index = [h.max_wear_page_index EXCEPT ![a][i] = new]
    BY <1>4, <1>5 DEF HeapType
  <1>7. \A b \in Area, j \in ListIndex :
          g.max_wear_page_index[b][j] = IF b = a /\ j = i THEN new ELSE h.max_wear_page_index[b][j]
    BY <1>6 DEF HeapType
  <1>8. \A b \in Area, j \in ListIndex : Ring(g, FreeList(b, j), S[b][j])
    <2>1. TAKE b \in Area, j \in ListIndex
    <2>2. Ring(h, FreeList(b, j), S[b][j])  BY DEF Shelved
    <2> QED  BY <1>6, <2>2, RingFrame
  <1>9. \A b \in Area, j \in ListIndex : g.max_wear_page_index[b][j] \in S[b][j] \cup {NULL}
    BY <1>4, <1>7 DEF Shelved
  <1>10. Shelved(g, S)  BY <1>6, <1>8, <1>9 DEF Shelved
  <1> QED  BY <1>2, <1>4, <1>6, <1>7, <1>10 DEF first, g, head

\* list_del of a span on a free list that the index is not on.
LEMMA DelShelved ==
  ASSUME NEW lowest \in Int, FreeLists \subseteq Node(lowest),
         NEW h \in HeapType(lowest), NEW S \in Shelves, Shelved(h, S),
         NEW a \in Area, NEW i \in ListIndex, NEW s \in S[a][i],
         h.max_wear_page_index[a][i] # s
  PROVE  LET g == list_del(h, s)
         IN  /\ g \in HeapType(lowest) /\ SameButLinks(h, g)
             /\ Unshelve(S, a, i, s) \in Shelves /\ Shelved(g, Unshelve(S, a, i, s))
             /\ Elsewhere(lowest, h, g, S, s)
  <1> DEFINE g == list_del(h, s)
             R == Unshelve(S, a, i, s)
  <1>1. /\ Spans \subseteq Node(lowest) /\ NULL \in Node(lowest) /\ NULL \notin Spans
        /\ \A b \in Area, j \in ListIndex : FreeList(b, j) \in Node(lowest)
    BY NodesIn
  <1>2. \A b \in Area, j \in ListIndex : S[b][j] \subseteq Spans  BY DEF Shelves
  <1>3. s \in Node(lowest) /\ s \in Spans  BY <1>1, <1>2
  <1>4. /\ g \in HeapType(lowest) /\ SameButLinks(h, g)
        /\ \A n \in Node(lowest) :
             /\ g.next[n] = IF n = h.prev[s] THEN h.next[s] ELSE h.next[n]
             /\ g.prev[n] = IF n = h.next[s] THEN h.prev[s] ELSE h.prev[n]
    BY <1>3, DelEffect
  <1>5. /\ R \in Shelves
        /\ \A b \in Area, j \in ListIndex : R[b][j] = IF b = a /\ j = i THEN S[a][i] \ {s} ELSE S[b][j]
    <2>1. OneList(R, S, a, i, S[a][i] \ {s})  BY UnshelveAt
    <2> HIDE DEF R
    <2> QED  BY <2>1 DEF OneList
  <1>6. Ring(g, FreeList(a, i), S[a][i] \ {s})
    <2>1. Ring(h, FreeList(a, i), S[a][i])  BY DEF Shelved
    <2>2. FreeList(a, i) \in Node(lowest) /\ S[a][i] \in SUBSET Node(lowest)  BY <1>1, <1>2
    <2> QED  BY <2>1, <2>2, RingDel
  <1> HIDE DEF g, R
  <1>7. h.prev[s] \in S[a][i] \cup {FreeList(a, i)} /\ h.next[s] \in S[a][i] \cup {FreeList(a, i)}
    BY DEF Shelved, Ring
  <1>8. \A b \in Area, j \in ListIndex : Ring(g, FreeList(b, j), R[b][j])
    <2>1. TAKE b \in Area, j \in ListIndex
    <2>2. CASE b = a /\ j = i  BY <1>5, <1>6, <2>2
    <2>3. CASE <<a, i>> # <<b, j>>
      <3>1. (S[a][i] \cup {FreeList(a, i)}) \cap (S[b][j] \cup {FreeList(b, j)}) = {}
        BY <2>3, ShelfApart
      <3>2. S[b][j] \cup {FreeList(b, j)} \subseteq Node(lowest)  BY <1>1, <1>2
      <3>3. \A n \in S[b][j] \cup {FreeList(b, j)} : g.next[n] = h.next[n] /\ g.prev[n] = h.prev[n]
        BY <1>4, <1>7, <3>1, <3>2
      <3>4. Ring(h, FreeList(b, j), S[b][j])  BY DEF Shelved
      <3>5. Ring(g, FreeList(b, j), S[b][j])  BY <3>3, <3>4, RingFrame
      <3> QED  BY <1>5, <2>3, <3>5
    <2> QED  BY <2>2, <2>3
  <1>9. g.next[NULL] = NULL /\ g.prev[NULL] = NULL
    <2>1. NULL \notin S[a][i] \cup {FreeList(a, i)}  BY <1>1, <1>2, FreeListHead
    <2> QED  BY <1>1, <1>4, <1>7, <2>1 DEF Shelved
  <1>10. \A b \in Area, j \in ListIndex : R[b][j] \subseteq S[b][j]  BY <1>5
  <1>11. \A b \in Area : R[b][LARGE] = {}
    <2>1. LARGE \in ListIndex  BY Sizes DEF ListIndex, LARGE
    <2> QED  BY <1>10, <2>1 DEF Shelved
  <1>12. \A b \in Area, j \in ListIndex : g.max_wear_page_index[b][j] \in R[b][j] \cup {NULL}
    BY <1>4, <1>5 DEF Shelved, SameButLinks
  <1>13. Shelved(g, R)
    <2>1. \A b \in Area, j \in ListIndex : \A x \in R[b][j] :
            /\ g.hdr[x].page_num = j + 1 /\ AreaOf(x) = b
            /\ g.hdr[x].wear_count <= g.max_wc[b]
      BY <1>4, <1>10 DEF Shelved, SameButLinks
    <2> QED  BY <1>8, <1>9, <1>11, <1>12, <2>1 DEF Shelved
  <1>14. Elsewhere(lowest, h, g, S, s)
    <2>1. FreeList(a, i) \in FreeLists  BY FreeListHead
    <2> QED  BY <1>4, <1>7, <2>1 DEF Elsewhere, OnShelf
  <1> QED  BY <1>4, <1>5, <1>13, <1>14 DEF g, R

\* The header of a span that goes back has its page count, and a large one is
\* as it was.
LEMMA ReturnedHeader ==
  ASSUME NEW v \in HeaderType
  PROVE  LET u == Returned(v)
         IN  /\ u \in HeaderType
             /\ u.page_num = (IF v.category # LARGE THEN 1 ELSE v.page_num)
             /\ u.wear_count = v.wear_count /\ u.category = v.category
             /\ u.free_block_num = v.free_block_num
             /\ u.bitmap \subseteq v.bitmap \cup {1}
             /\ v.category = LARGE => u = v
  <1>1. CASE v.category = LARGE  BY <1>1 DEF Returned
  <1>2. CASE v.category # LARGE
    <2> DEFINE B == {1} \cup {b \in v.bitmap : b > 16}
    <2>1. 1 \in 0..LARGE  BY Sizes DEF LARGE
    <2>2. B \in SUBSET Int /\ B \subseteq v.bitmap \cup {1}  BY DEF HeaderType
    <2>3. Returned(v) = [v EXCEPT !.page_num = 1, !.bitmap = B]  BY <1>2 DEF Returned
    <2> HIDE DEF B
    <2> QED  BY <1>2, <2>1, <2>2, <2>3 DEF HeaderType
  <1> QED  BY <1>1, <1>2

\* From h to g, span s is linked behind node p of the list of i + 1 pages, with
\* m as the new max_wc of its area and x as the new index of the list.
Placed(h, g, s, i, p, x, m) ==
  /\ g.next = Link(h, s, p, h.next[p]).next /\ g.prev = Link(h, s, p, h.next[p]).prev
  /\ g.hdr = [h.hdr EXCEPT ![s] = Returned(@)] /\ Returned(h.hdr[s]).page_num = i + 1
  /\ g.max_wc = [h.max_wc EXCEPT ![AreaOf(s)] = m]
  /\ g.max_wear_page_index = [h.max_wear_page_index EXCEPT ![AreaOf(s)][i] = x]

\* A span linked into the list of its page count, the wear of the area and the
\* index of the list as span_back_to_centralpool may set them.
LEMMA PlaceShelved ==
  ASSUME NEW lowest \in Int, FreeLists \subseteq Node(lowest),
         NEW h \in HeapType(lowest), NEW S \in Shelves, Shelved(h, S),
         NEW s \in Spans, ~OnShelf(S, s), NEW i \in 0..LARGE - 1,
         NEW p \in S[AreaOf(s)][i] \cup {FreeList(AreaOf(s), i)},
         NEW x \in {NULL, s, h.max_wear_page_index[AreaOf(s)][i]},
         NEW m \in Nat, m >= h.max_wc[AreaOf(s)], m >= h.hdr[s].wear_count,
         NEW g, Placed(h, g, s, i, p, x, m)
  PROVE  Shelved(g, Shelve(S, AreaOf(s), i, s))
  <1> DEFINE a == AreaOf(s)
             q == h.next[p]
             R == Shelve(S, a, i, s)
             k == Link(h, s, p, q)
  <1>1. /\ Spans \subseteq Node(lowest) /\ NULL \in Node(lowest) /\ NULL \notin Spans
        /\ \A b \in Area, j \in ListIndex :
             FreeList(b, j) \in Node(lowest) /\ FreeList(b, j) \notin Spans \cup {NULL}
    BY NodesIn, FreeListHead
  <1>2. /\ a \in Area /\ i \in ListIndex /\ LARGE \in ListIndex /\ i # LARGE /\ i \in Int
    BY PageOfSpan, Sizes DEF ListIndex
  <1>3. \A b \in Area, j \in ListIndex : S[b][j] \subseteq Spans /\ s \notin S[b][j]
    BY DEF Shelves, OnShelf
  <1>4. /\ R \in Shelves
        /\ \A b \in Area, j \in ListIndex : R[b][j] = IF b = a /\ j = i THEN S[a][i] \cup {s} ELSE S[b][j]
    <2> HIDE DEF a
    <2>1. OneList(R, S, a, i, S[a][i] \cup {s})  BY <1>2, ShelveAt
    <2> HIDE DEF R
    <2> QED  BY <2>1 DEF OneList
  <1>5. /\ s \in Node(lowest) /\ p \in Node(lowest) /\ q \in Node(lowest)
        /\ q \in S[a][i] \cup {FreeList(a, i)}
    BY <1>1, <1>2, <1>3 DEF Shelved, Ring
  <1>6. \A n \in Node(lowest) :
          /\ k.next[n] = IF n = p THEN s ELSE IF n = s THEN q ELSE h.next[n]
          /\ k.prev[n] = IF n = s THEN p ELSE IF n = q THEN s ELSE h.prev[n]
    <2> HIDE DEF q
    <2> QED  BY <1>5, LinkEffect
  <1>7. Ring(k, FreeList(a, i), S[a][i] \cup {s})
    <2>1. Ring(h, FreeList(a, i), S[a][i])  BY <1>2 DEF Shelved
    <2>2. s \notin S[a][i] \cup {FreeList(a, i)}  BY <1>1, <1>2, <1>3
    <2>3. FreeList(a, i) \in Node(lowest) /\ S[a][i] \in SUBSET Node(lowest)  BY <1>1, <1>2, <1>3
    <2> QED  BY <1>5, <2>1, <2>2, <2>3, RingLink
  <1> HIDE DEF k, q, R, a
  <1>8. g.next = k.next /\ g.prev = k.prev  BY DEF k, q, a, Placed
  <1>9. \A b \in Area, j \in ListIndex : Ring(g, FreeList(b, j), R[b][j])
    <2>1. TAKE b \in Area, j \in ListIndex
    <2>2. CASE b = a /\ j = i
      <3>1. Ring(g, FreeList(a, i), S[a][i] \cup {s})  BY <1>7, <1>8, RingFrame
      <3> QED  BY <1>4, <2>2, <3>1
    <2>3. CASE <<a, i>> # <<b, j>>
      <3>1. (S[a][i] \cup {FreeList(a, i)}) \cap (S[b][j] \cup {FreeList(b, j)}) = {}
        BY <1>2, <2>3, ShelfApart
      <3>2. S[b][j] \cup {FreeList(b, j)} \subseteq Node(lowest) /\ s \notin S[b][j] \cup {FreeList(b, j)}
        BY <1>1, <1>3
      <3>3. p \in S[a][i] \cup {FreeList(a, i)}  BY DEF a
      <3>4. \A n \in S[b][j] \cup {FreeList(b, j)} : g.next[n] = h.next[n] /\ g.prev[n] = h.prev[n]
        BY <1>5, <1>6, <1>8, <3>1, <3>2, <3>3
      <3>5. Ring(h, FreeList(b, j), S[b][j])  BY DEF Shelved
      <3>6. Ring(g, FreeList(b, j), S[b][j])  BY <3>4, <3>5, RingFrame
      <3> QED  BY <1>4, <2>3, <3>6
    <2> QED  BY <2>2, <2>3
  <1>10. g.next[NULL] = NULL /\ g.prev[NULL] = NULL
    <2>1. p # NULL /\ q # NULL /\ s # NULL
      <3>1. p \in S[a][i] \cup {FreeList(a, i)}  BY DEF a
      <3> QED  BY <1>1, <1>2, <1>3, <1>5, <3>1
    <2> QED  BY <1>1, <1>6, <1>8, <2>1 DEF Shelved
  <1>11. \A b \in Area : R[b][LARGE] = {}  BY ZenonT(60), <1>2, <1>4 DEF Shelved
  <1>12. \A b \in Area, j \in ListIndex : g.max_wear_page_index[b][j] \in R[b][j] \cup {NULL}
    <2>1. TAKE b \in Area, j \in ListIndex
    <2>2. g.max_wear_page_index = [h.max_wear_page_index EXCEPT ![a][i] = x]  BY DEF a, Placed
    <2>3. h.max_wear_page_index \in [Area -> [ListIndex -> Spans \cup {NULL}]]  BY DEF HeapType
    <2>4. g.max_wear_page_index[b][j] = IF b = a /\ j = i THEN x ELSE h.max_wear_page_index[b][j]
      BY <1>2, <2>2, <2>3
    <2>5. x \in {NULL, s, h.max_wear_page_index[a][i]}  BY DEF a
    <2>6. h.max_wear_page_index[b][j] \in S[b][j] \cup {NULL}
          /\ h.max_wear_page_index[a][i] \in S[a][i] \cup {NULL}
      BY <1>2 DEF Shelved
    <2> QED  BY <1>4, <2>4, <2>5, <2>6
  <1>13. ASSUME NEW b \in Area, NEW j \in ListIndex, NEW y \in R[b][j]
         PROVE  /\ g.hdr[y].page_num = j + 1 /\ AreaOf(y) = b
                /\ g.hdr[y].wear_count <= g.max_wc[b]
    <2>1. y \in R[b][j]  BY <1>13
    <2>2. h.hdr \in [Spans -> HeaderType] /\ h.max_wc \in [Area -> Nat]  BY DEF HeapType
    <2>3. y \in Spans  BY <1>4, <2>1 DEF Shelves
    <2>4. g.max_wc = [h.max_wc EXCEPT ![a] = m] /\ m >= h.max_wc[a]  BY DEF a, Placed
    <2>5. g.max_wc[b] \in Nat /\ g.max_wc[b] >= h.max_wc[b] /\ g.max_wc[a] = m
      BY <1>2, <2>2, <2>4
    <2>6. CASE y = s
      <3>1. b = a /\ j = i  BY <1>3, <1>4, <1>13, <2>6
      <3>2. g.hdr[s].page_num = i + 1 /\ g.hdr[s].wear_count = h.hdr[s].wear_count
        <4>1. g.hdr[s] = Returned(h.hdr[s]) /\ h.hdr[s] \in HeaderType  BY <2>2 DEF Placed
        <4> QED  BY <4>1, ReturnedHeader DEF Placed
      <3> QED  BY <2>5, <2>6, <3>1, <3>2 DEF a
    <2>7. CASE y # s
      <3>1. y \in S[b][j]  BY <1>4, <1>13, <2>7
      <3>2. g.hdr[y] = h.hdr[y]  BY <2>2, <2>3, <2>7 DEF Placed
      <3>3. h.hdr[y].wear_count \in Nat  BY <2>2, <2>3 DEF HeaderType
      <3>4. h.hdr[y].page_num = j + 1 /\ AreaOf(y) = b /\ h.hdr[y].wear_count <= h.max_wc[b]
        BY <3>1 DEF Shelved
      <3>5. h.max_wc[b] \in Nat  BY <2>2
      <3>6. \A u, v, z \in Nat : u <= v /\ z >= v => u <= z  OBVIOUS
      <3>7. h.hdr[y].wear_count <= g.max_wc[b]  BY <2>5, <3>3, <3>4, <3>5, <3>6, Zenon
      <3> QED  BY <3>2, <3>4, <3>7, Zenon
    <2> QED  BY <2>6, <2>7
  <1> QED  BY <1>9, <1>10, <1>11, <1>12, <1>13 DEF Shelved, R, a

\* span_back_to_centralpool by the header it writes and the list it computes.
BackAs(h, s, v, i) ==
  LET a    == AreaOf(s)
      head == FreeList(a, i)
      w    == v.wear_count
      max  == h.max_wear_page_index[a][i]
      g    == [h EXCEPT !.hdr[s] = v]
  IN  CASE w > h.max_wc[a] -> NewMax(list_add_tail(g, s, head), a, i, w)
        [] w = h.max_wc[a] ->
             [list_add_tail(g, s, head) EXCEPT
                !.max_wear_page_index[a][i] = IF max = NULL THEN s ELSE @]
        [] w < h.max_wc[a] /\ max = NULL -> list_add_tail(g, s, head)
        [] OTHER                         -> list_add(g, s, max)

\* From h to g, span s has come to the list of n pages.
CameBack(lowest, h, g, s, n) ==
  LET a == AreaOf(s)
      w == h.hdr[s].wear_count
  IN  /\ g \in HeapType(lowest)
      /\ g.hdr = [h.hdr EXCEPT ![s] = Returned(@)] /\ Returned(h.hdr[s]).page_num = n
      /\ g.span_map = h.span_map /\ g.entry = h.entry
      /\ g.free_start = h.free_start /\ g.segments = h.segments
      /\ g.max_wc = [h.max_wc EXCEPT ![a] = IF w > h.max_wc[a] THEN w ELSE h.max_wc[a]]
      /\ \A b \in Area, j \in ListIndex :
           g.max_wear_page_index[b][j] \in {NULL, s, h.max_wear_page_index[b][j]}

\* span_back_to_centralpool of a span that is on no free list: it is then on
\* the list of its page count, and max_wc of its area bounds its wear.
LEMMA BackShelved ==
  ASSUME NEW lowest \in Int, FreeLists \subseteq Node(lowest),
         NEW h \in HeapType(lowest), NEW S \in Shelves, Shelved(h, S),
         NEW s \in Spans, ~OnShelf(S, s), NEW n \in 1..LARGE,
         n = IF h.hdr[s].category # LARGE THEN 1 ELSE h.hdr[s].page_num
  PROVE  LET g == span_back_to_centralpool(h, s)
         IN  /\ CameBack(lowest, h, g, s, n) /\ Shelved(g, Shelve(S, AreaOf(s), n - 1, s))
             /\ Elsewhere(lowest, h, g, S, s)
  <1> DEFINE a    == AreaOf(s)
             i    == n - 1
             head == FreeList(a, i)
             w    == h.hdr[s].wear_count
             old  == h.max_wc[a]
             max  == h.max_wear_page_index[a][i]
             v    == Returned(h.hdr[s])
             k    == [h EXCEPT !.hdr[s] = v]
             g    == span_back_to_centralpool(h, s)
             new  == IF w > old THEN w ELSE old
  <1>1. a \in Area /\ i \in ListIndex /\ i \in 0..LARGE - 1 /\ IndexFor(n) = i
        /\ n \in 0..LARGE /\ i + 1 = n
    BY SMTT(30), PageOfSpan, Sizes DEF ListIndex, IndexFor
  <1>2. /\ k \in HeapType(lowest) /\ k.hdr = [h.hdr EXCEPT ![s] = v]
        /\ v.page_num = n /\ v.wear_count = w
        /\ k.next = h.next /\ k.prev = h.prev /\ k.entry = h.entry
        /\ k.span_map = h.span_map /\ k.free_start = h.free_start
        /\ k.segments = h.segments /\ k.max_wc = h.max_wc
        /\ k.max_wear_page_index = h.max_wear_page_index
    <2>1. h.hdr \in [Spans -> HeaderType]  BY DEF HeapType
    <2>2. v \in HeaderType /\ v.page_num = n /\ v.wear_count = w  BY <2>1, ReturnedHeader
    <2> HIDE DEF v
    <2>3. [h.hdr EXCEPT ![s] = v] \in [Spans -> HeaderType]  BY <2>1, <2>2
    <2> QED  BY <2>2, <2>3 DEF HeapType
  <1>3. w \in Nat /\ old \in Nat /\ max \in Spans \cup {NULL} /\ max \in S[a][i] \cup {NULL}
        /\ NULL \notin Spans
    <2>1. w \in Nat /\ old \in Nat /\ max \in Spans \cup {NULL}
      BY SMTT(30), <1>1 DEF HeapType, HeaderType
    <2>2. max \in S[a][i] \cup {NULL}  BY <1>1 DEF Shelved
    <2> QED  BY <2>1, <2>2, NodesIn
  <1>4. Ring(h, head, S[a][i]) /\ head \notin Spans
    BY <1>1, FreeListHead DEF Shelved
  <1>5. g = BackAs(h, s, v, i)
    <2>1. g = BackAs(h, s, v, IndexFor(v.page_num))  BY DEF BackAs, span_back_to_centralpool
    <2>2. IndexFor(v.page_num) = i  BY <1>1, <1>2
    <2> HIDE DEF v, g, i
    <2> QED  BY <2>1, <2>2
  <1> DEFINE tail == Link(k, s, h.prev[head], head)
             wide == Link(k, s, max, h.next[max])
             P(f, p, x, m) ==
               /\ f \in HeapType(lowest)
               /\ f.next = Link(h, s, p, h.next[p]).next /\ f.prev = Link(h, s, p, h.next[p]).prev
               /\ f.hdr = k.hdr /\ f.span_map = k.span_map /\ f.entry = k.entry
               /\ f.free_start = k.free_start /\ f.segments = k.segments
               /\ f.max_wc = [h.max_wc EXCEPT ![a] = m]
               /\ f.max_wear_page_index = [h.max_wear_page_index EXCEPT ![a][i] = x]
  <1>6. BackAs(h, s, v, i) =
          CASE w > old -> NewMax(tail, a, i, w)
            [] w = old -> [tail EXCEPT !.max_wear_page_index[a][i] = IF max = NULL THEN s ELSE @]
            [] w < old /\ max = NULL -> tail
            [] OTHER                 -> wide
    <2>1. list_add_tail(k, s, head) = tail /\ list_add(k, s, max) = wide
      <3> HIDE DEF k, head, max
      <3> QED  BY <1>2 DEF list_add_tail, list_add
    <2>2. BackAs(h, s, v, i) =
            CASE w > old -> NewMax(list_add_tail(k, s, head), a, i, w)
              [] w = old -> [list_add_tail(k, s, head) EXCEPT
                               !.max_wear_page_index[a][i] = IF max = NULL THEN s ELSE @]
              [] w < old /\ max = NULL -> list_add_tail(k, s, head)
              [] OTHER                 -> list_add(k, s, max)
      <3>1. v.wear_count = w  BY <1>2
      <3> HIDE DEF v, w
      <3> QED  BY <3>1 DEF BackAs
    <2> HIDE DEF tail, wide, k, head, w, old, max, a, i, v
    <2> QED  BY <2>1, <2>2
  <1> HIDE DEF k, head, g, w, old, i, max, a, v
  <1>7. h.max_wc \in [Area -> Nat] /\ h.max_wear_page_index \in [Area -> [ListIndex -> Spans \cup {NULL}]]
        /\ h.max_wc = [h.max_wc EXCEPT ![a] = old]
        /\ h.max_wear_page_index = [h.max_wear_page_index EXCEPT ![a][i] = max]
    <2>1. h.max_wc \in [Area -> Nat] /\ h.max_wear_page_index \in [Area -> [ListIndex -> Spans \cup {NULL}]]
      BY DEF HeapType
    <2> QED  BY <1>1, <2>1 DEF old, max
  <1>8. ASSUME NEW p \in S[a][i] \cup {head}
        PROVE  P(Link(k, s, p, h.next[p]), p, max, old)
    <2>1. p \in Node(lowest) /\ h.next[p] \in Node(lowest) /\ s \in Node(lowest)
      <3>1. S[a][i] \subseteq Spans /\ h.next \in [Node(lowest) -> Node(lowest)]
        BY <1>1 DEF Shelves, HeapType
      <3> QED  BY <1>1, <3>1, NodesIn DEF head
    <2> DEFINE q == h.next[p]
               L == Link(k, s, p, q)
    <2>2. q \in Node(lowest)  BY <2>1
    <2> HIDE DEF q
    <2>3. L \in HeapType(lowest) /\ SameButLinks(k, L)  BY <1>2, <2>2, <2>1, LinkEffect
    <2>4. L.next = Link(h, s, p, q).next /\ L.prev = Link(h, s, p, q).prev
      BY <1>2 DEF Link, HeapType
    <2> HIDE DEF L
    <2> QED  BY <1>2, <1>7, <2>3, <2>4 DEF SameButLinks, L, q
  <1>9. ASSUME NEW f \in HeapType(lowest), NEW m \in Nat
        PROVE  LET e == NewMax(f, a, i, m)
               IN  /\ e \in HeapType(lowest)
                   /\ e.next = f.next /\ e.prev = f.prev /\ e.hdr = f.hdr
                   /\ e.span_map = f.span_map /\ e.entry = f.entry
                   /\ e.free_start = f.free_start /\ e.segments = f.segments
                   /\ e.max_wc = [f.max_wc EXCEPT ![a] = m]
                   /\ e.max_wear_page_index = [f.max_wear_page_index EXCEPT ![a][i] = NULL]
    <2>1. NULL \in Spans \cup {NULL}  OBVIOUS
    <2> QED  BY <2>1 DEF HeapType, NewMax
  <1>10. ASSUME NEW f \in HeapType(lowest), NEW x \in Spans \cup {NULL}
        PROVE  LET e == [f EXCEPT !.max_wear_page_index[a][i] = x]
               IN  /\ e \in HeapType(lowest)
                   /\ e.next = f.next /\ e.prev = f.prev /\ e.hdr = f.hdr
                   /\ e.span_map = f.span_map /\ e.entry = f.entry
                   /\ e.free_start = f.free_start /\ e.segments = f.segments
                   /\ e.max_wc = f.max_wc
                   /\ e.max_wear_page_index = [f.max_wear_page_index EXCEPT ![a][i] = x]
    BY DEF HeapType
  <1>11. \E p \in S[a][i] \cup {head} : tail = Link(k, s, p, h.next[p])
    <2>1. h.prev[head] \in S[a][i] \cup {head} /\ h.next[h.prev[head]] = head
      BY <1>4 DEF Ring, Linked
    <2> QED  BY <2>1
  <1> HIDE DEF P
  <1>12. \E p \in S[a][i] \cup {head}, x \in {NULL, s, max} : P(g, p, x, new)
    <2>1. NULL \in Spans \cup {NULL} /\ s \in Spans \cup {NULL}  OBVIOUS
    <2>2. CASE w > old
      <3>1. g = NewMax(tail, a, i, w) /\ new = w
        <4> HIDE DEF tail, wide
        <4> QED  BY <1>3, <1>5, <1>6, <2>2
      <3>2. PICK p \in S[a][i] \cup {head} : tail = Link(k, s, p, h.next[p])  BY <1>11
      <3>3. P(tail, p, max, old)  BY <1>8, <3>2
      <3>4. P(g, p, NULL, w)
        <4> HIDE DEF tail
        <4>1. /\ tail \in HeapType(lowest) /\ tail.max_wc = h.max_wc
              /\ tail.max_wear_page_index = h.max_wear_page_index
          BY <1>7, <3>3 DEF P
        <4>2. /\ g \in HeapType(lowest)
              /\ g.next = tail.next /\ g.prev = tail.prev /\ g.hdr = tail.hdr
              /\ g.span_map = tail.span_map /\ g.entry = tail.entry
              /\ g.free_start = tail.free_start /\ g.segments = tail.segments
              /\ g.max_wc = [tail.max_wc EXCEPT ![a] = w]
              /\ g.max_wear_page_index = [tail.max_wear_page_index EXCEPT ![a][i] = NULL]
          BY <1>3, <1>9, <3>1, <4>1
        <4> QED  BY <3>3, <4>1, <4>2 DEF P
      <3> QED  BY <3>1, <3>4
    <2>3. CASE w = old
      <3> DEFINE x == IF max = NULL THEN s ELSE max
      <3>1. PICK p \in S[a][i] \cup {head} : tail = Link(k, s, p, h.next[p])  BY <1>11
      <3>2. P(tail, p, max, old)  BY <1>8, <3>1
      <3> HIDE DEF tail, wide
      <3>3. tail.max_wear_page_index[a][i] = max /\ tail \in HeapType(lowest)
        BY <1>1, <1>7, <3>2 DEF P
      <3>4. g = [tail EXCEPT !.max_wear_page_index[a][i] = x] /\ new = old
        BY <1>3, <1>5, <1>6, <2>3, <3>3
      <3>5. x \in Spans \cup {NULL} /\ x \in {NULL, s, max}  BY <1>3, <2>1
      <3> HIDE DEF x
      <3>6. /\ tail.max_wc = h.max_wc /\ tail.max_wear_page_index = h.max_wear_page_index
        BY <1>7, <3>2 DEF P
      <3>7. /\ g \in HeapType(lowest)
            /\ g.next = tail.next /\ g.prev = tail.prev /\ g.hdr = tail.hdr
            /\ g.span_map = tail.span_map /\ g.entry = tail.entry
            /\ g.free_start = tail.free_start /\ g.segments = tail.segments
            /\ g.max_wc = tail.max_wc
            /\ g.max_wear_page_index = [tail.max_wear_page_index EXCEPT ![a][i] = x]
        BY <1>10, <3>3, <3>4, <3>5, Zenon
      <3>8. P(g, p, x, old)  BY <1>7, <3>2, <3>6, <3>7 DEF P
      <3> QED  BY <3>4, <3>5, <3>8
    <2>4. CASE w < old /\ max = NULL
      <3>1. g = tail /\ new = old
        <4> HIDE DEF tail, wide
        <4> QED  BY <1>3, <1>5, <1>6, <2>4
      <3>2. PICK p \in S[a][i] \cup {head} : tail = Link(k, s, p, h.next[p])  BY <1>11
      <3>3. P(tail, p, max, old)  BY <1>8, <3>2
      <3> HIDE DEF tail
      <3> QED  BY <3>1, <3>3
    <2>5. CASE w < old /\ max # NULL
      <3>1. g = wide /\ new = old
        <4> HIDE DEF tail, wide
        <4> QED  BY <1>3, <1>5, <1>6, <2>5
      <3>2. max \in S[a][i]  BY <1>3, <2>5
      <3>3. P(wide, max, max, old)  BY <1>8, <3>2
      <3> HIDE DEF wide
      <3> QED  BY <3>1, <3>2, <3>3
    <2> QED  BY <1>3, <2>2, <2>3, <2>4, <2>5
  <1>13. PICK p \in S[a][i] \cup {head}, x \in {NULL, s, max} : P(g, p, x, new)  BY <1>12
  <1>14. new \in Nat /\ new >= old /\ new >= w  BY <1>3
  <1> HIDE DEF new, tail, wide
  <1>15. Shelved(g, Shelve(S, a, i, s))
    <2>1. /\ p \in S[AreaOf(s)][i] \cup {FreeList(AreaOf(s), i)}
          /\ x \in {NULL, s, h.max_wear_page_index[AreaOf(s)][i]}
          /\ new >= h.max_wc[AreaOf(s)] /\ new >= h.hdr[s].wear_count
      BY <1>14 DEF a, head, max, old, w
    <2>2. Placed(h, g, s, i, p, x, new)  BY <1>1, <1>2, <1>13 DEF P, a, Placed, v
    <2> QED  BY <1>1, <1>14, <2>1, <2>2, PlaceShelved DEF a
  <1>16. \A b \in Area, j \in ListIndex :
           g.max_wear_page_index[b][j] \in {NULL, s, h.max_wear_page_index[b][j]}
    <2>1. g.max_wear_page_index = [h.max_wear_page_index EXCEPT ![a][i] = x]  BY <1>13 DEF P
    <2>2. h.max_wear_page_index \in [Area -> [ListIndex -> Spans \cup {NULL}]]
      BY DEF HeapType
    <2>3. x \in {NULL, s, h.max_wear_page_index[a][i]}  BY DEF max
    <2>4. ASSUME NEW b \in Area, NEW j \in ListIndex
          PROVE  g.max_wear_page_index[b][j] \in {NULL, s, h.max_wear_page_index[b][j]}
      <3>1. g.max_wear_page_index[b][j] = IF b = a /\ j = i THEN x ELSE h.max_wear_page_index[b][j]
        BY SMTT(30), <1>1, <2>1, <2>2
      <3> QED  BY <2>3, <3>1
    <2> QED  BY <2>4
  <1>17. CameBack(lowest, h, g, s, n)
    BY <1>2, <1>13, <1>16 DEF CameBack, P, a, i, new, w, old, v
  <1>18. Elsewhere(lowest, h, g, S, s)
    <2> DEFINE q == h.next[p]
    <2>1. p \in S[a][i] \cup {head} /\ q \in S[a][i] \cup {head} /\ head \in FreeLists
      BY <1>1, <1>4, FreeListHead DEF Ring, head
    <2>2. p \in Node(lowest) /\ q \in Node(lowest) /\ s \in Node(lowest)
      BY <1>1, <2>1, NodesIn DEF head, Shelves
    <2>3. g.next = Link(h, s, p, q).next /\ g.prev = Link(h, s, p, q).prev  BY <1>13 DEF P
    <2> HIDE DEF q
    <2>4. \A y \in Node(lowest) :
            /\ g.next[y] = IF y = p THEN s ELSE IF y = s THEN q ELSE h.next[y]
            /\ g.prev[y] = IF y = s THEN p ELSE IF y = q THEN s ELSE h.prev[y]
      BY <2>2, <2>3, LinkEffect
    <2> QED  BY <1>1, <2>1, <2>4 DEF Elsewhere, OnShelf
  <1> QED  BY <1>15, <1>17, <1>18 DEF g, a, i

-----------------------------------------------------------------------------
\* The pages cut from the segments as pieces, each an extent within a segment.
Piece         == [at : Spans, pages : 1..LARGE]
PagesOf(e)    == ExtentOf(e.at, e.pages)
CutSpans(free) == {s \in Spans : PageOf(s) < free[AreaOf(s)]}
Fits(free, e) == /\ PageOf(e.at) + e.pages <= free[AreaOf(e.at)]
                 /\ (PageOf(e.at) % SegPages) + e.pages <= SegPages

\* Every page cut is in one piece of E or lost, and in no more than one.
Divides(free, E, lost) ==
  /\ E \subseteq Piece /\ lost \subseteq CutSpans(free)
  /\ \A e \in E : Fits(free, e)
  /\ \A e \in E : PagesOf(e) \cap lost = {}
  /\ \A e, f \in E : e # f => PagesOf(e) \cap PagesOf(f) = {}
  /\ \A s \in CutSpans(free) : s \in lost \/ \E e \in E : s \in PagesOf(e)

\* How far each area is cut, within its bound; area a cut as far as page m.
FreeStarts == [Area -> 0..AreaPages]
CutTo(free, a, m) == [free EXCEPT ![a] = m]

\* The pages of a piece are cut pages of its area, those behind its first.
LEMMA PieceSpans ==
  ASSUME NEW free \in FreeStarts, NEW e \in Piece, Fits(free, e)
  PROVE  /\ e.at \in PagesOf(e) /\ PagesOf(e) \subseteq CutSpans(free)
         /\ \A x \in PagesOf(e) :
              /\ x - e.at \in 0..e.pages - 1
              /\ AreaOf(x) = AreaOf(e.at) /\ PageOf(x) = PageOf(e.at) + (x - e.at)
  <1> DEFINE s == e.at
             n == e.pages
  <1>1. /\ s \in Spans /\ n \in 1..LARGE /\ PageOf(s) + n <= free[AreaOf(s)]
        /\ s \in Nat /\ LARGE \in Nat
    BY Sizes DEF Piece, Fits, Spans
  <1>2. AreaOf(s) \in Area /\ PageOf(s) \in 0..AreaPages - 1 /\ AreaPages \in Nat
        /\ free[AreaOf(s)] \in 0..AreaPages
    BY <1>1, PageOfSpan, Sizes DEF FreeStarts
  <1> HIDE DEF s, n
  <1>3. ASSUME NEW x \in ExtentOf(s, n)
        PROVE  /\ x - s \in 0..n - 1 /\ x \in CutSpans(free)
               /\ AreaOf(x) = AreaOf(s) /\ PageOf(x) = PageOf(s) + (x - s)
    <2>1. x \in Int /\ x - s \in 0..n - 1 /\ s + (x - s) = x  BY <1>1 DEF ExtentOf
    <2>2. x - s \in Nat /\ PageOf(s) + (x - s) < AreaPages  BY <1>1, <1>2, <2>1
    <2>3. x \in Spans /\ AreaOf(x) = AreaOf(s) /\ PageOf(x) = PageOf(s) + (x - s)
      BY <1>1, <2>1, <2>2, PageOfNext
    <2>4. PageOf(x) < free[AreaOf(x)]  BY <1>1, <1>2, <2>1, <2>3
    <2> QED  BY <2>1, <2>3, <2>4 DEF CutSpans
  <1>4. s \in ExtentOf(s, n)  BY <1>1 DEF ExtentOf
  <1> QED  BY <1>3, <1>4 DEF PagesOf, s, n

\* The pages at the cut of an area become a piece.
LEMMA DividesCut ==
  ASSUME NEW free \in FreeStarts, NEW E, NEW lost, Divides(free, E, lost),
         NEW a \in Area, NEW n \in 1..LARGE, free[a] + n <= AreaPages,
         (free[a] % SegPages) + n <= SegPages,
         NEW e, e = [at |-> SpanAt(a, free[a]), pages |-> n]
  PROVE  LET cut == CutTo(free, a, free[a] + n)
         IN  /\ e \in Piece /\ e.at \notin CutSpans(free) /\ AreaOf(e.at) = a
             /\ cut \in FreeStarts /\ Fits(cut, e) /\ Divides(cut, E \cup {e}, lost)
  <1> DEFINE cut == CutTo(free, a, free[a] + n)
             s == SpanAt(a, free[a])
  <1>1. /\ LARGE \in Nat /\ AreaPages \in Nat \ {0} /\ n \in Nat \ {0} /\ free[a] \in 0..AreaPages
        /\ free[a] + n \in 0..AreaPages /\ free[a] \in 0..AreaPages - 1
    BY Sizes DEF FreeStarts
  <1>2. s \in Spans /\ AreaOf(s) = a /\ PageOf(s) = free[a]  BY <1>1, SpanOfPage
  <1> HIDE DEF s
  <1>3. /\ cut \in FreeStarts /\ cut[a] = free[a] + n
        /\ \A b \in Area : cut[b] >= free[b] /\ (b # a => cut[b] = free[b]) /\ free[b] \in Nat /\ cut[b] \in Nat
    BY <1>1 DEF FreeStarts, CutTo
  <1> HIDE DEF cut
  <1>4. e \in Piece /\ e.at = s /\ e.pages = n  BY <1>2 DEF Piece, s
  <1>5. Fits(cut, e) /\ e.at \notin CutSpans(free)
    <2>1. PageOf(s) + n <= cut[a] /\ (PageOf(s) % SegPages) + n <= SegPages
      BY <1>1, <1>2, <1>3
    <2> QED  BY <1>1, <1>2, <1>4, <2>1 DEF Fits, CutSpans
  <1>6. \A x \in Spans : AreaOf(x) \in Area /\ PageOf(x) \in Nat  BY PageOfSpan
  <1>7. CutSpans(free) \subseteq CutSpans(cut)
    <2>1. SUFFICES ASSUME NEW x \in Spans, PageOf(x) < free[AreaOf(x)]
                   PROVE  PageOf(x) < cut[AreaOf(x)]
      BY DEF CutSpans
    <2> QED  BY <1>3, <1>6, <2>1
  <1>8. ASSUME NEW f \in E  PROVE Fits(cut, f) /\ f \in Piece
    <2>1. f \in Piece /\ Fits(free, f) /\ f.at \in Spans /\ f.pages \in Nat
      BY <1>1 DEF Divides, Piece
    <2>2. AreaOf(f.at) \in Area /\ PageOf(f.at) \in Nat  BY <1>6, <2>1
    <2> QED  BY <1>3, <2>1, <2>2 DEF Fits
  <1>9. PagesOf(e) \cap CutSpans(free) = {}
    <2>1. SUFFICES ASSUME NEW x \in PagesOf(e), PageOf(x) < free[AreaOf(x)]  PROVE FALSE
      BY DEF CutSpans
    <2>2. AreaOf(x) = a /\ PageOf(x) = free[a] + (x - s) /\ x - s \in 0..n - 1
      BY <1>2, <1>3, <1>4, <1>5, PieceSpans
    <2> QED  BY <1>1, <2>1, <2>2
  <1>10. ASSUME NEW x \in CutSpans(cut)
         PROVE  x \in lost \/ \E f \in E \cup {e} : x \in PagesOf(f)
    <2>1. x \in Spans /\ PageOf(x) < cut[AreaOf(x)]  BY DEF CutSpans
    <2>2. CASE x \in CutSpans(free)  BY <2>2 DEF Divides
    <2>3. CASE x \notin CutSpans(free)
      <3>1. AreaOf(x) = a /\ PageOf(x) \in free[a]..free[a] + n - 1
        BY <1>1, <1>3, <1>6, <2>1, <2>3 DEF CutSpans
      <3>2. x = a * AreaPages + PageOf(x) + 1 /\ s = a * AreaPages + free[a] + 1
        BY <2>1, <3>1, PageOfSpan DEF SpanAt, s
      <3>3. a * AreaPages \in Nat
        <4>1. a \in Nat  BY DEF Area
        <4> QED  BY <1>1, <4>1
      <3>4. x \in s..s + n - 1  BY <1>1, <3>1, <3>2, <3>3
      <3> QED  BY <1>4, <3>4 DEF PagesOf, ExtentOf
    <2> QED  BY <2>2, <2>3
  <1>11. lost \subseteq CutSpans(free) /\ \A f \in E : PagesOf(f) \subseteq CutSpans(free)
    <2>1. ASSUME NEW f \in E  PROVE PagesOf(f) \subseteq CutSpans(free)
      <3>1. f \in Piece /\ Fits(free, f)  BY DEF Divides
      <3> QED  BY <3>1, PieceSpans
    <2> QED  BY <2>1 DEF Divides
  <1>12. \A f, g \in E \cup {e} : f # g => PagesOf(f) \cap PagesOf(g) = {}
    <2>1. \A f, g \in E : f # g => PagesOf(f) \cap PagesOf(g) = {}  BY DEF Divides
    <2>2. \A f \in E : PagesOf(f) \cap PagesOf(e) = {}  BY <1>9, <1>11
    <2> QED  BY <2>1, <2>2
  <1>13. \A f \in E \cup {e} : PagesOf(f) \cap lost = {}
    <2>1. \A f \in E : PagesOf(f) \cap lost = {}  BY DEF Divides
    <2> QED  BY <1>9, <1>11, <2>1
  <1>14. Divides(cut, E \cup {e}, lost)
    BY <1>4, <1>5, <1>7, <1>8, <1>10, <1>11, <1>12, <1>13 DEF Divides
  <1> QED  BY <1>2, <1>3, <1>4, <1>5, <1>14 DEF cut

\* A growth leaves the rest of the segment behind.
LEMMA DividesGrow ==
  ASSUME NEW free \in FreeStarts, NEW E, NEW lost, Divides(free, E, lost),
         NEW a \in Area, NEW m \in free[a]..AreaPages
  PROVE  LET grown == CutTo(free, a, m)
             rest  == {SpanAt(a, k) : k \in free[a]..m - 1}
         IN  grown \in FreeStarts /\ Divides(grown, E, lost \cup rest)
  <1> DEFINE grown == CutTo(free, a, m)
             rest  == {SpanAt(a, k) : k \in free[a]..m - 1}
  <1>1. LARGE \in Nat /\ AreaPages \in Nat \ {0} /\ free[a] \in 0..AreaPages /\ m \in 0..AreaPages
    BY Sizes DEF FreeStarts
  <1>2. /\ grown \in FreeStarts /\ grown[a] = m
        /\ \A b \in Area : grown[b] >= free[b] /\ (b # a => grown[b] = free[b])
                           /\ free[b] \in Nat /\ grown[b] \in Nat
    BY <1>1 DEF FreeStarts, CutTo
  <1>3. \A x \in Spans : AreaOf(x) \in Area /\ PageOf(x) \in Nat  BY PageOfSpan
  <1>4. ASSUME NEW x
        PROVE  x \in rest <=> x \in CutSpans(grown) /\ x \notin CutSpans(free)
    <2>1. ASSUME NEW k \in free[a]..m - 1
          PROVE  SpanAt(a, k) \in CutSpans(grown) /\ SpanAt(a, k) \notin CutSpans(free)
      <3>1. k \in 0..AreaPages - 1  BY <1>1
      <3>2. SpanAt(a, k) \in Spans /\ AreaOf(SpanAt(a, k)) = a /\ PageOf(SpanAt(a, k)) = k
        BY <3>1, SpanOfPage
      <3> HIDE DEF grown
      <3> QED  BY <1>1, <1>2, <3>2 DEF CutSpans
    <2>2. ASSUME x \in CutSpans(grown), x \notin CutSpans(free)  PROVE x \in rest
      <3> HIDE DEF grown
      <3>1. x \in Spans /\ AreaOf(x) = a /\ PageOf(x) \in free[a]..m - 1
        BY <1>1, <1>2, <1>3, <2>2 DEF CutSpans
      <3>2. SpanAt(a, PageOf(x)) = x  BY <3>1, PageOfSpan
      <3> QED  BY <3>1, <3>2
    <2> QED  BY <2>1, <2>2
  <1> HIDE DEF grown, rest
  <1>5. CutSpans(free) \subseteq CutSpans(grown)  BY <1>2, <1>3 DEF CutSpans
  <1>6. ASSUME NEW e \in E
        PROVE  Fits(grown, e) /\ PagesOf(e) \cap (lost \cup rest) = {}
    <2>1. e \in Piece /\ Fits(free, e) /\ e.at \in Spans /\ e.pages \in Nat /\ PagesOf(e) \cap lost = {}
      BY <1>1 DEF Divides, Piece
    <2>2. AreaOf(e.at) \in Area /\ PageOf(e.at) \in Nat  BY <1>3, <2>1
    <2>3. Fits(grown, e)  BY <1>2, <2>1, <2>2 DEF Fits
    <2>4. PagesOf(e) \subseteq CutSpans(free)  BY <2>1, PieceSpans
    <2> QED  BY <1>4, <2>1, <2>3, <2>4
  <1>7. Divides(grown, E, lost \cup rest)  BY <1>4, <1>5, <1>6 DEF Divides
  <1> QED  BY <1>2, <1>7 DEF grown, rest

\* A piece divided after n of its pages.
LEMMA DividesSplit ==
  ASSUME NEW free \in FreeStarts, NEW E, NEW lost, Divides(free, E, lost),
         NEW e \in E, NEW n \in 1..LARGE, n < e.pages,
         NEW kept, kept = [at |-> e.at, pages |-> n],
         NEW rest, rest = [at |-> e.at + n, pages |-> e.pages - n]
  PROVE  /\ kept \in Piece /\ rest \in Piece /\ kept # rest
         /\ AreaOf(rest.at) = AreaOf(e.at) /\ PageOf(rest.at) = PageOf(e.at) + n
         /\ PagesOf(kept) \cup PagesOf(rest) = PagesOf(e)
         /\ Divides(free, (E \ {e}) \cup {kept, rest}, lost)
  <1> DEFINE s == e.at
             m == e.pages
             D == (E \ {e}) \cup {kept, rest}
  <1>1. /\ s \in Spans /\ s \in Int /\ m \in 1..LARGE /\ n \in Nat \ {0} /\ LARGE \in Nat
        /\ e \in Piece /\ Fits(free, e) /\ SegPages \in Nat \ {0} /\ n < m
    BY Sizes DEF Divides, Piece, Spans
  <1>2. /\ PageOf(s) + m <= free[AreaOf(s)] /\ (PageOf(s) % SegPages) + m <= SegPages
        /\ AreaOf(s) \in Area /\ PageOf(s) \in Nat /\ free[AreaOf(s)] \in Nat
    BY <1>1, PageOfSpan, Sizes DEF Fits, FreeStarts
  <1>3. PagesOf(e) = s..s + m - 1  BY DEF PagesOf, ExtentOf
  <1>4. s + n \in PagesOf(e)
    <2> HIDE DEF s, m
    <2> QED  BY <1>1, <1>3
  <1>5. /\ s + n \in CutSpans(free) /\ (s + n) - s = n
        /\ AreaOf(s + n) = AreaOf(s) /\ PageOf(s + n) = PageOf(s) + n
    <2>1. /\ s + n \in CutSpans(free)
          /\ AreaOf(s + n) = AreaOf(s) /\ PageOf(s + n) = PageOf(s) + ((s + n) - s)
      BY <1>1, <1>4, PieceSpans
    <2>2. (s + n) - s = n
      <3> HIDE DEF s
      <3> QED  BY <1>1
    <2> QED  BY <2>1, <2>2
  <1> HIDE DEF s, m
  <1>6. /\ kept \in Piece /\ kept.at = s /\ kept.pages = n
        /\ rest \in Piece /\ rest.at = s + n /\ rest.pages = m - n
    <2>1. s + n \in Spans /\ m - n \in 1..LARGE  BY <1>1, <1>5 DEF CutSpans
    <2> QED  BY <1>1, <2>1 DEF Piece, s, m
  <1>7. kept # rest  BY <1>1, <1>6
  <1>8. PagesOf(kept) = s..s + n - 1 /\ PagesOf(rest) = s + n..s + m - 1
    <2>1. (s + n) + (m - n) - 1 = s + m - 1  BY <1>1
    <2> QED  BY <1>6, <2>1 DEF PagesOf, ExtentOf
  <1>9. /\ PagesOf(kept) \cup PagesOf(rest) = PagesOf(e)
        /\ PagesOf(kept) \cap PagesOf(rest) = {}
    BY SMTT(30), <1>1, <1>3, <1>8
  <1>10. Fits(free, kept) /\ Fits(free, rest)
    <2>1. Fits(free, kept)  BY <1>1, <1>2, <1>6 DEF Fits
    <2>2. ((PageOf(s) + n) % SegPages) + (m - n) <= SegPages
      <3> DEFINE y == PageOf(s)
                 q == y \div SegPages
                 r == y % SegPages
      <3>1. y \in Nat /\ (y % SegPages) + m <= SegPages  BY <1>2
      <3> HIDE DEF y
      <3>2. q \in Nat /\ r \in Nat /\ y = q * SegPages + r  BY <1>1, <3>1
      <3>3. r + m <= SegPages  BY <3>1
      <3> HIDE DEF q, r
      <3>4. y + n = q * SegPages + (r + n) /\ r + n < SegPages /\ r + n \in Nat
        <4>1. q * SegPages \in Nat  BY <1>1, <3>2
        <4> QED  BY <1>1, <3>2, <3>3, <4>1
      <3>5. (y + n) % SegPages = r + n  BY <1>1, <3>2, <3>4
      <3> QED  BY <1>1, <3>2, <3>3, <3>5 DEF y
    <2>3. (PageOf(s) + n) + (m - n) <= free[AreaOf(s)]  BY <1>1, <1>2
    <2> QED  BY <1>5, <1>6, <2>1, <2>2, <2>3 DEF Fits
  <1>11. \A f, g \in D : f # g => PagesOf(f) \cap PagesOf(g) = {}
    <2>1. \A f, g \in E : f # g => PagesOf(f) \cap PagesOf(g) = {}  BY DEF Divides
    <2>2. \A f \in E \ {e} : PagesOf(f) \cap PagesOf(kept) = {} /\ PagesOf(f) \cap PagesOf(rest) = {}
      BY <1>9, <2>1
    <2> QED  BY <1>9, <2>1, <2>2
  <1>12. \A f \in D : PagesOf(f) \cap lost = {}
    <2>1. \A f \in E : PagesOf(f) \cap lost = {}  BY DEF Divides
    <2> QED  BY <1>9, <2>1
  <1>13. \A x \in CutSpans(free) : x \in lost \/ \E f \in D : x \in PagesOf(f)
    <2>1. SUFFICES ASSUME NEW x \in CutSpans(free), x \notin lost
                   PROVE  \E f \in D : x \in PagesOf(f)
      OBVIOUS
    <2>2. PICK f \in E : x \in PagesOf(f)  BY <2>1 DEF Divides
    <2>3. CASE f = e  BY <1>9, <2>2, <2>3
    <2>4. CASE f # e  BY <2>2, <2>4
    <2> QED  BY <2>3, <2>4
  <1>14. Divides(free, D, lost)
    <2>1. D \subseteq Piece /\ \A f \in D : Fits(free, f)  BY <1>6, <1>10 DEF Divides
    <2> HIDE DEF D
    <2> QED  BY <1>11, <1>12, <1>13, <2>1 DEF Divides
  <1> QED  BY <1>5, <1>6, <1>7, <1>9, <1>14 DEF s

\* The pieces on the free lists.
Shelf(S) == {e \in Piece : e.at \in S[AreaOf(e.at)][e.pages - 1]}

\* A span on a free list is a piece of the page count of the list.
LEMMA ShelfPieces ==
  ASSUME NEW h, NEW S \in Shelves, Shelved(h, S),
         NEW a \in Area, NEW i \in ListIndex, NEW s \in S[a][i]
  PROVE  i \in 0..LARGE - 1 /\ AreaOf(s) = a /\ [at |-> s, pages |-> i + 1] \in Shelf(S)
  <1>1. AreaOf(s) = a /\ S[a][LARGE] = {} /\ s \in Spans  BY DEF Shelved, Shelves
  <1>2. LARGE \in Nat /\ i \in 0..LARGE /\ i # LARGE  BY <1>1, Sizes DEF ListIndex
  <1>3. i + 1 \in 1..LARGE /\ (i + 1) - 1 = i  BY <1>2
  <1> QED  BY <1>1, <1>2, <1>3 DEF Shelf, Piece

\* Putting a span on a list adds one piece to those shelved, ...
LEMMA ShelfShelve ==
  ASSUME NEW S \in Shelves, NEW s \in Spans, NEW i \in 0..LARGE - 1
  PROVE  Shelf(Shelve(S, AreaOf(s), i, s)) = Shelf(S) \cup {[at |-> s, pages |-> i + 1]}
  <1> DEFINE a == AreaOf(s)
             p == [at |-> s, pages |-> i + 1]
             R == Shelve(S, a, i, s)
  <1>1. a \in Area /\ i \in ListIndex /\ LARGE \in Nat  BY PageOfSpan, Sizes DEF ListIndex
  <1>2. /\ R \in Shelves
        /\ \A b \in Area, j \in ListIndex : R[b][j] = IF b = a /\ j = i THEN S[a][i] \cup {s} ELSE S[b][j]
    <2>1. S \in Shelves /\ a \in Area /\ i \in ListIndex /\ s \in Spans  BY <1>1
    <2> HIDE DEF a
    <2>2. OneList(R, S, a, i, S[a][i] \cup {s})  BY <2>1, ShelveAt
    <2> HIDE DEF R
    <2> QED  BY <2>2 DEF OneList
  <1>3. p \in Piece /\ p.at = s /\ p.pages = i + 1 /\ p.pages - 1 = i
    <2>1. i + 1 \in 1..LARGE /\ (i + 1) - 1 = i  BY <1>1
    <2> QED  BY <2>1 DEF Piece
  <1>4. ASSUME NEW e \in Piece
        PROVE  e.at \in R[AreaOf(e.at)][e.pages - 1] <=> e \in Shelf(S) \/ e = p
    <2>1. e.at \in Spans /\ e.pages \in 1..LARGE /\ e.pages - 1 \in ListIndex
      BY <1>1, Sizes DEF Piece, ListIndex
    <2>2. AreaOf(e.at) \in Area  BY <2>1, PageOfSpan
    <2>3. (e.at = s /\ e.pages - 1 = i) <=> e = p
      <3>1. e = [at |-> e.at, pages |-> e.pages]  BY DEF Piece
      <3>2. e.pages - 1 = i <=> e.pages = i + 1  BY <1>1, <2>1
      <3> QED  BY <3>1, <3>2
    <2>4. e.at = s => AreaOf(e.at) = a  OBVIOUS
    <2> HIDE DEF R, a, p
    <2> QED  BY <1>2, <2>1, <2>2, <2>3, <2>4 DEF Shelf
  <1> HIDE DEF R, p
  <1>5. Shelf(R) = Shelf(S) \cup {p}  BY <1>3, <1>4 DEF Shelf
  <1> QED  BY <1>5 DEF R, p

\* ... and taking it off removes that one.
LEMMA ShelfUnshelve ==
  ASSUME NEW S \in Shelves, NEW s \in Spans, NEW i \in 0..LARGE - 1
  PROVE  Shelf(Unshelve(S, AreaOf(s), i, s)) = Shelf(S) \ {[at |-> s, pages |-> i + 1]}
  <1> DEFINE a == AreaOf(s)
             p == [at |-> s, pages |-> i + 1]
             R == Unshelve(S, a, i, s)
  <1>1. a \in Area /\ i \in ListIndex /\ LARGE \in Nat  BY PageOfSpan, Sizes DEF ListIndex
  <1>2. /\ R \in Shelves
        /\ \A b \in Area, j \in ListIndex : R[b][j] = IF b = a /\ j = i THEN S[a][i] \ {s} ELSE S[b][j]
    <2>1. S \in Shelves /\ a \in Area /\ i \in ListIndex /\ s \in Spans  BY <1>1
    <2> HIDE DEF a
    <2>2. OneList(R, S, a, i, S[a][i] \ {s})  BY <2>1, UnshelveAt
    <2> HIDE DEF R
    <2> QED  BY <2>2 DEF OneList
  <1>3. ASSUME NEW e \in Piece
        PROVE  e.at \in R[AreaOf(e.at)][e.pages - 1] <=> e \in Shelf(S) /\ e # p
    <2>1. e.at \in Spans /\ e.pages \in 1..LARGE /\ e.pages - 1 \in ListIndex
      BY <1>1, Sizes DEF Piece, ListIndex
    <2>2. AreaOf(e.at) \in Area  BY <2>1, PageOfSpan
    <2>3. (e.at = s /\ e.pages - 1 = i) <=> e = p
      <3>1. e = [at |-> e.at, pages |-> e.pages]  BY DEF Piece
      <3>2. e.pages - 1 = i <=> e.pages = i + 1  BY <1>1, <2>1
      <3> QED  BY <3>1, <3>2
    <2>4. e.at = s => AreaOf(e.at) = a  OBVIOUS
    <2> HIDE DEF R, a, p
    <2> QED  BY <1>2, <2>1, <2>2, <2>3, <2>4 DEF Shelf
  <1> HIDE DEF R, p
  <1>4. Shelf(R) = Shelf(S) \ {p}  BY <1>3 DEF Shelf
  <1> QED  BY <1>4 DEF R, p

-----------------------------------------------------------------------------
\* The pools when the pieces of H are out of them: the free lists hold the
\* rest of what was cut, but for the pages lost.
Pool(lowest, h, S, H, lost) ==
  /\ h \in HeapType(lowest) /\ S \in Shelves
  /\ Shelved(h, S) /\ Mapped(h)
  /\ H \cap Shelf(S) = {}
  /\ Divides(h.free_start, H \cup Shelf(S), lost)

\* What taking span s of area a leaves alone, and what it may set: no wear is
\* invented, what H holds is untouched, the map forgets nothing.
Taken(h, g, H, a, s) ==
  /\ \A e \in H : g.hdr[e.at] = h.hdr[e.at]
  /\ g.max_wc = h.max_wc /\ g.hdr[s].wear_count <= h.max_wc[a]
  /\ \A x \in Spans : /\ g.hdr[x].category \in {h.hdr[x].category, LARGE}
                      /\ g.hdr[x].wear_count \in {0} \cup {h.hdr[y].wear_count : y \in Spans}
                      /\ g.hdr[x].bitmap = h.hdr[x].bitmap
                      /\ g.hdr[x].free_block_num = h.hdr[x].free_block_num
  /\ \A k \in MapEntries : h.entry[k] = k + 1 => g.entry[k] = k + 1

\* From h to g, only heads of free lists and spans that start no piece of H
\* have other links.
Outside(lowest, h, g, H) ==
  \A n \in Node(lowest) :
    n \notin FreeLists \cup Spans \/ (\E e \in H : n = e.at)
      => g.next[n] = h.next[n] /\ g.prev[n] = h.prev[n]

\* No more is cut than the segments have.
LEMMA PoolBounds ==
  ASSUME NEW h, Mapped(h), NEW a \in Area
  PROVE  /\ h.segments[a] \in 1..MaxSegs /\ FreeEnd(h, a) \in 0..AreaPages
         /\ h.free_start[a] \in 0..FreeEnd(h, a)
         /\ h.free_start[a] % SegPages \in Nat
         /\ \A n \in Nat : n > 0 /\ h.free_start[a] + n <= FreeEnd(h, a)
                             => (h.free_start[a] % SegPages) + n <= SegPages
  <1> DEFINE m == h.segments[a]
             f == h.free_start[a]
  <1>1. m \in 1..MaxSegs /\ f \in (m - 1) * SegPages..m * SegPages /\ FreeEnd(h, a) = m * SegPages
    BY DEF Mapped, FreeEnd
  <1>2. SegPages \in Nat \ {0} /\ MaxSegs \in Nat \ {0} /\ AreaPages = MaxSegs * SegPages  BY Sizes
  <1> HIDE DEF m, f
  <1>3. m * SegPages \in 0..AreaPages /\ (m - 1) * SegPages \in Nat
        /\ m * SegPages = (m - 1) * SegPages + SegPages
    <2>1. m * SegPages <= MaxSegs * SegPages /\ m * SegPages \in Nat  BY <1>1, <1>2
    <2>2. (m - 1) * SegPages \in Nat /\ m * SegPages = (m - 1) * SegPages + SegPages
      BY <1>1, <1>2
    <2>3. MaxSegs * SegPages \in Nat  BY <1>2
    <2> QED  BY <1>2, <2>1, <2>2, <2>3
  <1>4. f \in 0..m * SegPages  BY <1>1, <1>3
  <1>5. ASSUME NEW n \in Nat, n > 0, f + n <= m * SegPages
        PROVE  (f % SegPages) + n <= SegPages
    <2> DEFINE r == f - (m - 1) * SegPages
    <2>1. r \in Nat /\ r < SegPages /\ f = (m - 1) * SegPages + r /\ m - 1 \in Nat
          /\ r + n <= SegPages
      BY <1>1, <1>2, <1>3, <1>4, <1>5
    <2> HIDE DEF r
    <2> DEFINE q == m - 1
    <2>2. q \in Nat /\ f = q * SegPages + r  BY <2>1
    <2> HIDE DEF q
    <2>3. (q * SegPages + r) % SegPages = r
      <3>1. r \in 0..SegPages - 1  BY <1>2, <2>1
      <3> QED  BY <1>2, <2>2, <3>1, DivMod
    <2> QED  BY <2>1, <2>2, <2>3
  <1>6. f % SegPages \in Nat  BY <1>2, <1>4
  <1> QED  BY <1>1, <1>3, <1>4, <1>5, <1>6 DEF m, f

\* A span not yet cut is on no free list.
LEMMA UncutUnlisted ==
  ASSUME NEW lowest, NEW h, NEW S, NEW H, NEW lost, Pool(lowest, h, S, H, lost),
         NEW s, OnShelf(S, s)
  PROVE  s \in CutSpans(h.free_start)
  <1>1. PICK a \in Area, i \in ListIndex : s \in S[a][i]  BY DEF OnShelf
  <1>2. [at |-> s, pages |-> i + 1] \in Shelf(S)  BY <1>1, ShelfPieces DEF Pool
  <1> DEFINE e == [at |-> s, pages |-> i + 1]
  <1>3. h.free_start \in FreeStarts
    <2>1. \A b \in Area : h.free_start[b] \in 0..AreaPages
      <3>1. TAKE b \in Area
      <3>2. FreeEnd(h, b) \in 0..AreaPages /\ h.free_start[b] \in 0..FreeEnd(h, b)
        BY PoolBounds DEF Pool
      <3>3. AreaPages \in Nat  BY Sizes
      <3> QED  BY <3>2, <3>3
    <2> QED  BY <2>1 DEF Pool, HeapType, FreeStarts
  <1>4. e \in Piece /\ Fits(h.free_start, e)
    <2>1. e \in H \cup Shelf(S)  BY <1>2
    <2> HIDE DEF e
    <2> QED  BY <2>1 DEF Pool, Divides
  <1>5. e.at = s  OBVIOUS
  <1> HIDE DEF e
  <1>6. s \in PagesOf(e) /\ PagesOf(e) \subseteq CutSpans(h.free_start)  BY <1>3, <1>4, <1>5, PieceSpans
  <1> QED  BY <1>6

\* Where an area was used up to is a page of it, or its end.
LEMMA PoolFree ==
  ASSUME NEW lowest, NEW h, NEW S, NEW H, NEW lost, Pool(lowest, h, S, H, lost)
  PROVE  h.free_start \in FreeStarts
  <1>1. ASSUME NEW b \in Area  PROVE h.free_start[b] \in 0..AreaPages
    <2>1. FreeEnd(h, b) \in 0..AreaPages /\ h.free_start[b] \in 0..FreeEnd(h, b)
      BY PoolBounds DEF Pool
    <2>2. AreaPages \in Nat  BY Sizes
    <2> QED  BY <2>1, <2>2
  <1> QED  BY <1>1 DEF Pool, HeapType, FreeStarts

\* A held piece starts at a cut page of its area that is on no free list, and
\* no other held piece starts there.
LEMMA HeldPiece ==
  ASSUME NEW lowest, NEW h, NEW S, NEW H, NEW lost, Pool(lowest, h, S, H, lost), NEW e \in H
  PROVE  /\ e \in Piece /\ e.at \in Spans /\ AreaOf(e.at) \in Area /\ e.pages \in 1..LARGE
         /\ ~OnShelf(S, e.at) /\ PageOf(e.at) < h.segments[AreaOf(e.at)] * SegPages
         /\ \A f \in H : f.at = e.at => f = e
  <1>1. /\ H \cap Shelf(S) = {} /\ Divides(h.free_start, H \cup Shelf(S), lost) /\ Mapped(h)
        /\ h.free_start \in FreeStarts
    BY PoolFree DEF Pool
  <1>2. \A f \in H \cup Shelf(S) : f \in Piece /\ f.at \in PagesOf(f)
                                   /\ PagesOf(f) \subseteq CutSpans(h.free_start)
    <2>1. TAKE f \in H \cup Shelf(S)
    <2>2. f \in Piece /\ Fits(h.free_start, f)  BY <1>1 DEF Divides
    <2> QED  BY <1>1, <2>2, PieceSpans
  <1>3. e \in Piece /\ e.at \in Spans /\ e.pages \in 1..LARGE  BY <1>2 DEF Piece
  <1>4. AreaOf(e.at) \in Area /\ PageOf(e.at) \in Nat  BY <1>3, PageOfSpan
  <1>5. \A f \in H \cup Shelf(S) : f.at = e.at => f = e
    <2>1. TAKE f \in H \cup Shelf(S)
    <2>2. f # e => PagesOf(f) \cap PagesOf(e) = {}  BY <1>1 DEF Divides
    <2> QED  BY <1>2, <2>2
  <1>6. ~OnShelf(S, e.at)
    <2>1. SUFFICES ASSUME OnShelf(S, e.at)  PROVE FALSE  OBVIOUS
    <2>2. PICK a \in Area, i \in ListIndex : e.at \in S[a][i]  BY <2>1 DEF OnShelf
    <2> DEFINE f == [at |-> e.at, pages |-> i + 1]
    <2>3. f \in Shelf(S) /\ f.at = e.at  BY <2>2, ShelfPieces DEF Pool
    <2> HIDE DEF f
    <2> QED  BY <1>1, <1>5, <2>3
  <1>7. PageOf(e.at) < h.segments[AreaOf(e.at)] * SegPages
    <2> DEFINE b == AreaOf(e.at)
               end == h.segments[b] * SegPages
    <2>1. PageOf(e.at) < h.free_start[b]  BY <1>2 DEF CutSpans
    <2>2. FreeEnd(h, b) \in 0..AreaPages /\ h.free_start[b] \in 0..FreeEnd(h, b)
      BY <1>1, <1>4, PoolBounds
    <2>3. FreeEnd(h, b) = end /\ AreaPages \in Nat  BY Sizes DEF FreeEnd
    <2> HIDE DEF b, end
    <2>4. PageOf(e.at) < end  BY <1>4, <2>1, <2>2, <2>3
    <2> QED  BY <2>4 DEF end, b
  <1> QED  BY <1>3, <1>4, <1>5, <1>6, <1>7

\* Heaps with the same links, and headers alike where there are spans listed.
LEMMA SameShelved ==
  ASSUME NEW h, NEW g, NEW S, Shelved(h, S),
         g.next = h.next, g.prev = h.prev, g.max_wc = h.max_wc,
         g.max_wear_page_index = h.max_wear_page_index,
         \A s : OnShelf(S, s) => g.hdr[s] = h.hdr[s]
  PROVE  Shelved(g, S)
  <1>1. ASSUME NEW a \in Area, NEW i \in ListIndex  PROVE Ring(g, FreeList(a, i), S[a][i])
    <2>1. Ring(h, FreeList(a, i), S[a][i])  BY DEF Shelved
    <2> QED  BY <2>1, RingFrame
  <1>2. \A a \in Area, i \in ListIndex : \A s \in S[a][i] : g.hdr[s] = h.hdr[s]  BY DEF OnShelf
  <1> QED  BY <1>1, <1>2 DEF Shelved

\* A cut further on leaves the pages cut before.
LEMMA CutMore ==
  ASSUME NEW free \in FreeStarts, NEW a \in Area, NEW m \in Nat, free[a] <= m
  PROVE  CutSpans(free) \subseteq CutSpans(CutTo(free, a, m))
  <1> SUFFICES ASSUME NEW s \in CutSpans(free)  PROVE s \in CutSpans(CutTo(free, a, m))
    OBVIOUS
  <1>1. s \in Spans /\ PageOf(s) < free[AreaOf(s)]  BY DEF CutSpans
  <1>2. PageOf(s) \in Nat /\ AreaOf(s) \in Area /\ AreaPages \in Nat
    BY <1>1, PageOfSpan, Sizes
  <1>3. free[AreaOf(s)] \in Nat /\ free[a] \in Nat  BY <1>2 DEF FreeStarts
  <1>4. CutTo(free, a, m)[AreaOf(s)] = IF AreaOf(s) = a THEN m ELSE free[AreaOf(s)]
    BY <1>2 DEF CutTo, FreeStarts
  <1>5. PageOf(s) < CutTo(free, a, m)[AreaOf(s)]
    <2>1. CASE AreaOf(s) = a  BY <1>1, <1>2, <1>3, <1>4, <2>1
    <2>2. CASE AreaOf(s) # a  BY <1>1, <1>4, <2>2
    <2> QED  BY <2>1, <2>2
  <1> QED  BY <1>1, <1>5 DEF CutSpans

\* From h to g, the piece e of area a has left the pool, which R then describes.
Got(lowest, h, g, R, H, lost, a, e) ==
  /\ e \in Piece /\ e \notin H /\ AreaOf(e.at) = a
  /\ CutSpans(h.free_start) \subseteq CutSpans(g.free_start)
  /\ Pool(lowest, g, R, H \cup {e}, lost)
  /\ Taken(h, g, H, a, e.at) /\ g.segments = h.segments
  /\ Outside(lowest, h, g, H)

\* Pages cut from the end of a segment that has room for them.
LEMMA CutPool ==
  ASSUME NEW lowest \in Int, FreeLists \subseteq Node(lowest),
         NEW h, NEW S, NEW H, NEW lost, Pool(lowest, h, S, H, lost),
         NEW a \in Area, NEW index \in 0..LARGE - 1,
         h.free_start[a] + index + 1 <= FreeEnd(h, a),
         NEW e, e = [at |-> SpanAt(a, h.free_start[a]), pages |-> index + 1]
  PROVE  LET r == Cut(h, a, index)
         IN  r.span = e.at /\ Got(lowest, h, r.heap, S, H, lost, a, e)
  <1> DEFINE f == h.free_start[a]
             n == index + 1
             s == SpanAt(a, f)
             g == Cut(h, a, index).heap
             E == H \cup Shelf(S)
             cut == CutTo(h.free_start, a, f + n)
  <1>1. /\ h \in HeapType(lowest) /\ S \in Shelves /\ Shelved(h, S) /\ Mapped(h)
        /\ H \cap Shelf(S) = {} /\ Divides(h.free_start, E, lost) /\ h.free_start \in FreeStarts
    BY PoolFree DEF Pool
  <1>2. /\ h.segments[a] \in 1..MaxSegs /\ FreeEnd(h, a) \in 0..AreaPages /\ f \in 0..FreeEnd(h, a)
        /\ n \in 1..LARGE /\ n \in Nat /\ n > 0 /\ f + n <= FreeEnd(h, a) /\ f + index + 1 = f + n
        /\ AreaPages \in Nat /\ f \in Nat
    <2>1. h.segments[a] \in 1..MaxSegs /\ FreeEnd(h, a) \in 0..AreaPages /\ f \in 0..FreeEnd(h, a)
      BY <1>1, PoolBounds
    <2>2. LARGE \in Nat /\ AreaPages \in Nat /\ f + index + 1 <= FreeEnd(h, a)  BY Sizes
    <2> HIDE DEF f
    <2> QED  BY <2>1, <2>2
  <1>3. (f % SegPages) + n <= SegPages /\ f + n <= AreaPages
    <2>1. (f % SegPages) + n <= SegPages
      <3> HIDE DEF n
      <3> QED  BY <1>1, <1>2, PoolBounds
    <2> HIDE DEF f, n
    <2> QED  BY <1>2, <2>1
  <1> HIDE DEF n
  <1>4. /\ e \in Piece /\ e.at \notin CutSpans(h.free_start) /\ AreaOf(e.at) = a
        /\ cut \in FreeStarts /\ Divides(cut, E \cup {e}, lost)
    <2> DEFINE free == h.free_start
    <2>1. /\ free \in FreeStarts /\ Divides(free, E, lost) /\ n \in 1..LARGE
          /\ free[a] + n <= AreaPages /\ (free[a] % SegPages) + n <= SegPages
          /\ e = [at |-> SpanAt(a, free[a]), pages |-> n]
      BY <1>1, <1>2, <1>3 DEF n
    <2>2. cut = CutTo(free, a, free[a] + n)  OBVIOUS
    <2> HIDE DEF E, free, cut
    <2>3. /\ e \in Piece /\ e.at \notin CutSpans(free) /\ AreaOf(e.at) = a
          /\ CutTo(free, a, free[a] + n) \in FreeStarts
          /\ Divides(CutTo(free, a, free[a] + n), E \cup {e}, lost)
      BY <2>1, DividesCut
    <2> QED  BY <2>2, <2>3 DEF free
  <1>5. Cut(h, a, index).span = s /\ e.at = s /\ s \in Spans
    <2>1. e.at \in Spans  BY <1>4 DEF Piece
    <2> QED  BY <2>1 DEF Cut
  <1> HIDE DEF s
  <1>6. /\ g \in HeapType(lowest) /\ g.next = h.next /\ g.prev = h.prev
        /\ g.hdr = [h.hdr EXCEPT ![s].wear_count = 0] /\ g.entry = h.entry
        /\ g.span_map = h.span_map /\ g.segments = h.segments /\ g.max_wc = h.max_wc
        /\ g.max_wear_page_index = h.max_wear_page_index
        /\ g.free_start = cut
    <2> DEFINE k(c, m) == [h EXCEPT !.hdr[s].wear_count = c, !.free_start[a] = m]
               v(c) == [h.hdr EXCEPT ![s].wear_count = c]
    <2>1. g = k(0, f + n)
      <3>1. Cut(h, a, index).heap = [h EXCEPT !.hdr[s].wear_count = 0, !.free_start[a] = f + index + 1]
        BY DEF Cut, s
      <3> QED  BY <1>2, <3>1
    <2>2. ASSUME NEW c \in Nat, NEW m \in Nat
          PROVE  /\ k(c, m) \in HeapType(lowest) /\ k(c, m).next = h.next /\ k(c, m).prev = h.prev
                 /\ k(c, m).hdr = v(c) /\ k(c, m).entry = h.entry
                 /\ k(c, m).span_map = h.span_map /\ k(c, m).segments = h.segments
                 /\ k(c, m).max_wc = h.max_wc
                 /\ k(c, m).max_wear_page_index = h.max_wear_page_index
                 /\ k(c, m).free_start = CutTo(h.free_start, a, m)
      <3>1. [h.hdr EXCEPT ![s].wear_count = c] \in [Spans -> HeaderType]
        <4>1. h.hdr \in [Spans -> HeaderType]  BY <1>1 DEF HeapType
        <4>2. [h.hdr[s] EXCEPT !.wear_count = c] \in HeaderType  BY <1>5, <4>1 DEF HeaderType
        <4> QED  BY <4>1, <4>2
      <3> QED  BY <1>1, <3>1 DEF HeapType, CutTo
    <2>3. f + n \in Nat /\ 0 \in Nat
      <3> HIDE DEF f
      <3> QED  BY <1>2
    <2>4. v(0) = [h.hdr EXCEPT ![s].wear_count = 0]  OBVIOUS
    <2> HIDE DEF g, k, f, v
    <2>5. /\ g \in HeapType(lowest) /\ g.next = h.next /\ g.prev = h.prev
          /\ g.hdr = v(0) /\ g.entry = h.entry
          /\ g.span_map = h.span_map /\ g.segments = h.segments /\ g.max_wc = h.max_wc
          /\ g.max_wear_page_index = h.max_wear_page_index /\ g.free_start = cut
      BY <2>1, <2>2, <2>3
    <2> QED  BY <2>4, <2>5, Zenon
  <1> HIDE DEF g
  <1>7. \A x \in Spans : x # s => g.hdr[x] = h.hdr[x]
    BY <1>1, <1>6 DEF HeapType
  <1>8. ~OnShelf(S, s)  BY <1>4, <1>5, UncutUnlisted
  <1>9. Shelved(g, S)
    <2>1. \A x : OnShelf(S, x) => g.hdr[x] = h.hdr[x]
      <3>1. \A x : OnShelf(S, x) => x \in Spans /\ x # s  BY <1>1, <1>8 DEF OnShelf, Shelves
      <3> QED  BY <1>7, <3>1
    <2> QED  BY <1>1, <1>6, <2>1, SameShelved
  <1>10. Mapped(g)
    <2>1. ASSUME NEW b \in Area
          PROVE  g.free_start[b] \in (g.segments[b] - 1) * SegPages..g.segments[b] * SegPages
      <3>1. h.free_start[b] \in (h.segments[b] - 1) * SegPages..h.segments[b] * SegPages
            /\ h.segments[b] \in 1..MaxSegs
        BY <1>1 DEF Mapped
      <3>2. g.free_start[b] = IF b = a THEN f + n ELSE h.free_start[b]
        BY <1>1, <1>6 DEF FreeStarts, CutTo
      <3>3. CASE b = a
        <4>1. (h.segments[a] - 1) * SegPages \in Int /\ FreeEnd(h, a) = h.segments[a] * SegPages
          BY <1>2, Sizes DEF FreeEnd
        <4>2. f + n \in (h.segments[a] - 1) * SegPages..FreeEnd(h, a)
          <5>1. f >= (h.segments[a] - 1) * SegPages  BY <3>1, <3>3
          <5> DEFINE z == (h.segments[a] - 1) * SegPages
          <5> HIDE DEF f, z
          <5> QED  BY <1>2, <4>1, <5>1 DEF z
        <4> QED  BY <1>6, <3>2, <3>3, <4>1, <4>2
      <3>4. CASE b # a  BY <1>6, <3>1, <3>2, <3>4
      <3> QED  BY <3>3, <3>4
    <2> QED  BY <1>1, <1>6, <2>1 DEF Mapped
  <1>11. e \notin E
    <2>1. SUFFICES ASSUME e \in E  PROVE FALSE  OBVIOUS
    <2>2. e \in Piece /\ Fits(h.free_start, e)  BY <1>1, <2>1 DEF Divides
    <2>3. e.at \in PagesOf(e) /\ PagesOf(e) \subseteq CutSpans(h.free_start)
      BY <1>1, <2>2, PieceSpans
    <2> QED  BY <1>4, <2>3
  <1>12. Pool(lowest, g, S, H \cup {e}, lost)
    <2>1. (H \cup {e}) \cap Shelf(S) = {} /\ (H \cup {e}) \cup Shelf(S) = E \cup {e}
      BY <1>1, <1>11
    <2> QED  BY <1>1, <1>4, <1>6, <1>9, <1>10, <2>1 DEF Pool
  <1>13. Taken(h, g, H, a, s)
    <2>1. h.hdr \in [Spans -> HeaderType] /\ h.max_wc \in [Area -> Nat]  BY <1>1 DEF HeapType
    <2>2. /\ g.hdr[s].wear_count = 0 /\ g.hdr[s].category = h.hdr[s].category
          /\ g.hdr[s].bitmap = h.hdr[s].bitmap /\ g.hdr[s].free_block_num = h.hdr[s].free_block_num
      <3>1. h.hdr[s] \in HeaderType  BY <1>5, <2>1
      <3>2. g.hdr[s] = [h.hdr[s] EXCEPT !.wear_count = 0]  BY <1>5, <1>6, <2>1
      <3>3. ASSUME NEW c \in Nat
            PROVE  LET v == [h.hdr[s] EXCEPT !.wear_count = c]
                   IN  /\ v.wear_count = c /\ v.category = h.hdr[s].category
                       /\ v.bitmap = h.hdr[s].bitmap /\ v.free_block_num = h.hdr[s].free_block_num
        BY <3>1 DEF HeaderType
      <3>4. 0 \in Nat  OBVIOUS
      <3> QED  BY <3>2, <3>3, <3>4
    <2>3. ASSUME NEW d \in H  PROVE g.hdr[d.at] = h.hdr[d.at]
      <3>1. d \in Piece /\ Fits(h.free_start, d)  BY <1>1 DEF Divides
      <3>2. d.at \in CutSpans(h.free_start) /\ d.at \in Spans
        <4>1. d.at \in PagesOf(d) /\ PagesOf(d) \subseteq CutSpans(h.free_start)
          BY <1>1, <3>1, PieceSpans
        <4> QED  BY <4>1 DEF CutSpans
      <3> QED  BY <1>4, <1>5, <1>7, <3>2
    <2>4. ASSUME NEW x \in Spans
          PROVE  /\ g.hdr[x].category \in {h.hdr[x].category, LARGE}
                 /\ g.hdr[x].wear_count \in {0} \cup {h.hdr[y].wear_count : y \in Spans}
                 /\ g.hdr[x].bitmap = h.hdr[x].bitmap
                 /\ g.hdr[x].free_block_num = h.hdr[x].free_block_num
      BY <1>7, <2>2
    <2>5. g.hdr[s].wear_count <= h.max_wc[a]  BY <2>1, <2>2
    <2> QED  BY <1>6, <2>3, <2>4, <2>5 DEF Taken
  <1>14. e.at = s /\ g.segments = h.segments /\ Outside(lowest, h, g, H)
    BY <1>5, <1>6 DEF Outside
  <1> HIDE DEF g, s, f
  <1>15. CutSpans(h.free_start) \subseteq CutSpans(g.free_start)
    <2>1. f + n \in Nat /\ f <= f + n  BY <1>2
    <2>2. CutSpans(h.free_start) \subseteq CutSpans(CutTo(h.free_start, a, f + n))
      BY <1>1, <2>1, CutMore DEF f
    <2> QED  BY <1>6, <2>2
  <1>16. Got(lowest, h, g, S, H, lost, a, e)
    BY <1>4, <1>5, <1>6, <1>11, <1>12, <1>13, <1>14, <1>15 DEF Got
  <1> QED  BY <1>4, <1>5, <1>14, <1>16 DEF g

\* The pages a growth of area a leaves behind at the end of its last segment.
Left(h, a) == {SpanAt(a, k) : k \in h.free_start[a]..FreeEnd(h, a) - 1}

\* A growth adds a segment with a table of its own behind the others, and
\* puts the cut at its start.
LEMMA GrowPool ==
  ASSUME NEW lowest \in Int, FreeLists \subseteq Node(lowest),
         NEW h, NEW S, NEW H, NEW lost, Pool(lowest, h, S, H, lost),
         NEW a \in Area, h.segments[a] < MaxSegs
  PROVE  LET g == central_pool_grow(h, a)
         IN  /\ Pool(lowest, g, S, H, lost \cup Left(h, a))
             /\ g.hdr = h.hdr /\ g.entry = h.entry /\ g.max_wc = h.max_wc
             /\ g.next = h.next /\ g.prev = h.prev
             /\ g.segments = [h.segments EXCEPT ![a] = @ + 1]
             /\ g.free_start[a] = FreeEnd(h, a) /\ FreeEnd(g, a) = FreeEnd(h, a) + SegPages
             /\ g.free_start = CutTo(h.free_start, a, FreeEnd(h, a))
  <1> DEFINE m == h.segments[a]
             end == FreeEnd(h, a)
             index == memory_index(end * PageUnits)
             table == [k \in DOMAIN h.span_map[a] \cup {index} |->
                         IF k = index THEN SPAN_MAP_POOL_START(a) + end ELSE h.span_map[a][k]]
             g == central_pool_grow(h, a)
             E == H \cup Shelf(S)
  <1>1. /\ h \in HeapType(lowest) /\ S \in Shelves /\ Shelved(h, S) /\ Mapped(h)
        /\ H \cap Shelf(S) = {} /\ Divides(h.free_start, E, lost) /\ h.free_start \in FreeStarts
    BY PoolFree DEF Pool
  <1>2. /\ m \in 1..MaxSegs /\ m < MaxSegs /\ m \in Nat /\ end = m * SegPages /\ end \in 0..AreaPages
        /\ h.free_start[a] \in 0..end /\ SegPages \in Nat \ {0} /\ PageUnits \in Nat \ {0}
        /\ end \in Nat /\ AreaPages \in Nat
    <2>1. h.segments[a] \in 1..MaxSegs /\ FreeEnd(h, a) \in 0..AreaPages
          /\ h.free_start[a] \in 0..FreeEnd(h, a)
      BY <1>1, PoolBounds
    <2> QED  BY <2>1, Sizes DEF FreeEnd
  <1>3. index = m
    <2> HIDE DEF m, end
    <2>1. end * PageUnits = m * (SegPages * PageUnits)  BY <1>2
    <2> DEFINE W == SegPages * PageUnits
    <2>2. W \in Nat \ {0} /\ 0 \in 0..W - 1  BY <1>2
    <2> HIDE DEF W
    <2>3. (m * W + 0) \div W = m  BY <1>2, <2>2, DivMod
    <2>4. m * W + 0 = m * W
      <3>1. m * W \in Nat  BY <1>2, <2>2
      <3> QED  BY <3>1
    <2> QED  BY <2>1, <2>3, <2>4 DEF memory_index, W
  <1>4. table = Tables(a, m + 1)
    <2>1. h.span_map[a] = [k \in 0..m - 1 |-> SPAN_MAP_POOL_START(a) + k * SegPages]
      BY <1>1 DEF Mapped, Tables
    <2>2. 0..m - 1 \cup {m} = 0..(m + 1) - 1  
      <3> HIDE DEF m
      <3> QED  BY <1>2
    <2>3. DOMAIN h.span_map[a] = 0..m - 1  BY <2>1
    <2> HIDE DEF m, end, index
    <2>4. table = [k \in 0..(m + 1) - 1 |->
                     IF k = m THEN SPAN_MAP_POOL_START(a) + end ELSE h.span_map[a][k]]
      BY <1>3, <2>2, <2>3
    <2>5. \A k \in 0..(m + 1) - 1 : k # m => k \in 0..m - 1  BY <1>2
    <2>6. \A k \in 0..(m + 1) - 1 :
            (IF k = m THEN SPAN_MAP_POOL_START(a) + end ELSE h.span_map[a][k])
              = SPAN_MAP_POOL_START(a) + k * SegPages
      BY <1>2, <2>1, <2>5
    <2> HIDE DEF table
    <2> QED  BY <2>4, <2>6 DEF Tables
  <1>5. Tables(a, m + 1) \in UNION {[0..k - 1 -> Int] : k \in Nat}
    <2>1. m + 1 \in Nat  BY <1>2
    <2>2. \A k \in 0..(m + 1) - 1 : SPAN_MAP_POOL_START(a) + k * SegPages \in Int
      <3>1. a * AreaPages \in Int
        <4>1. a \in Nat  BY DEF Area
        <4> QED  BY <1>2, <4>1
      <3> QED  BY <1>2, <3>1 DEF SPAN_MAP_POOL_START
    <2>3. Tables(a, m + 1) \in [0..(m + 1) - 1 -> Int]  BY <2>2 DEF Tables
    <2> QED  BY <2>1, <2>3
  <1>6. g = [h EXCEPT !.free_start[a] = end, !.segments[a] = m + 1, !.span_map[a] = table]
    BY DEF central_pool_grow
  <1> HIDE DEF end, table
  <1>7. /\ g \in HeapType(lowest) /\ g.next = h.next /\ g.prev = h.prev
        /\ g.hdr = h.hdr /\ g.entry = h.entry /\ g.max_wc = h.max_wc
        /\ g.max_wear_page_index = h.max_wear_page_index
        /\ g.free_start = CutTo(h.free_start, a, end)
        /\ g.segments = [h.segments EXCEPT ![a] = m + 1]
        /\ g.span_map = [h.span_map EXCEPT ![a] = table]
    <2> DEFINE v == m + 1
    <2>1. v \in Nat /\ end \in Nat /\ table \in UNION {[0..k - 1 -> Int] : k \in Nat}
      BY SMTT(30), <1>2, <1>4, <1>5
    <2>2. g = [h EXCEPT !.free_start[a] = end, !.segments[a] = v, !.span_map[a] = table]  BY <1>6
    <2> HIDE DEF v, g
    <2>3. [h.span_map EXCEPT ![a] = table] \in [Area -> UNION {[0..k - 1 -> Int] : k \in Nat}]
      BY <1>1, <2>1 DEF HeapType
    <2>4. /\ [h.free_start EXCEPT ![a] = end] \in [Area -> Nat]
          /\ [h.segments EXCEPT ![a] = v] \in [Area -> Nat]
      BY <1>1, <2>1 DEF HeapType
    <2>5. /\ g \in HeapType(lowest) /\ g.next = h.next /\ g.prev = h.prev
          /\ g.hdr = h.hdr /\ g.entry = h.entry /\ g.max_wc = h.max_wc
          /\ g.max_wear_page_index = h.max_wear_page_index
          /\ g.free_start = [h.free_start EXCEPT ![a] = end]
          /\ g.segments = [h.segments EXCEPT ![a] = v]
          /\ g.span_map = [h.span_map EXCEPT ![a] = table]
      BY <1>1, <2>2, <2>3, <2>4 DEF HeapType
    <2> QED  BY <2>5 DEF CutTo, v
  <1> HIDE DEF g
  <1>8. Shelved(g, S)  BY <1>1, <1>7, SameShelved
  <1>9. h.segments \in [Area -> Nat] /\ h.span_map \in [Area -> UNION {[0..k - 1 -> Int] : k \in Nat}]
    BY <1>1 DEF HeapType
  <1>10. Mapped(g)
    <2>1. ASSUME NEW b \in Area
          PROVE  /\ g.segments[b] \in 1..MaxSegs
                 /\ g.free_start[b] \in (g.segments[b] - 1) * SegPages..g.segments[b] * SegPages
                 /\ g.span_map[b] = Tables(b, g.segments[b])
      <3>1. CASE b = a
        <4>1. g.segments[a] = m + 1 /\ g.free_start[a] = end /\ g.span_map[a] = Tables(a, m + 1)
          BY <1>1, <1>4, <1>7, <1>9 DEF FreeStarts, CutTo
        <4> HIDE DEF m
        <4>2. m + 1 \in 1..MaxSegs /\ (m + 1) - 1 = m  BY <1>2, Sizes
        <4>3. m * SegPages \in Int /\ (m + 1) * SegPages \in Int /\ m * SegPages <= (m + 1) * SegPages
          BY <1>2
        <4>4. end \in (m + 1 - 1) * SegPages..(m + 1) * SegPages  BY <1>2, <4>2, <4>3
        <4> QED  BY <3>1, <4>1, <4>2, <4>4
      <3>2. CASE b # a
        <4>1. /\ g.segments[b] = h.segments[b] /\ g.free_start[b] = h.free_start[b]
              /\ g.span_map[b] = h.span_map[b]
          BY <1>1, <1>7, <1>9, <3>2 DEF FreeStarts, CutTo
        <4> QED  BY <1>1, <4>1 DEF Mapped
      <3> QED  BY <3>1, <3>2
    <2> QED  BY <1>1, <1>7, <2>1 DEF Mapped
  <1>11. Divides(g.free_start, E, lost \cup Left(h, a))
    <2> DEFINE free == h.free_start
    <2>1. free \in FreeStarts /\ Divides(free, E, lost) /\ end \in free[a]..AreaPages
      BY <1>1, <1>2
    <2>2. Left(h, a) = {SpanAt(a, k) : k \in free[a]..end - 1} /\ g.free_start = CutTo(free, a, end)
      BY <1>7 DEF Left, end
    <2> HIDE DEF free, E
    <2> QED  BY <2>1, <2>2, DividesGrow
  <1>12. g.free_start[a] = end /\ FreeEnd(g, a) = end + SegPages
    <2>1. g.free_start[a] = end /\ g.segments[a] = m + 1
      BY <1>1, <1>7, <1>9 DEF FreeStarts, CutTo
    <2> HIDE DEF m
    <2> QED  BY <1>2, <2>1 DEF FreeEnd
  <1>13. Pool(lowest, g, S, H, lost \cup Left(h, a))
    BY <1>1, <1>7, <1>8, <1>10, <1>11 DEF Pool
  <1> QED  BY <1>7, <1>12, <1>13 DEF g, end

\* What a growth leaves behind was never cut.
LEMMA LeftUncut ==
  ASSUME NEW h, Mapped(h), h.free_start \in FreeStarts, NEW a \in Area
  PROVE  Left(h, a) \cap CutSpans(h.free_start) = {}
  <1> SUFFICES ASSUME NEW s \in Left(h, a), s \in CutSpans(h.free_start)  PROVE FALSE
    OBVIOUS
  <1>1. /\ h.free_start[a] \in 0..FreeEnd(h, a) /\ FreeEnd(h, a) \in 0..AreaPages
        /\ AreaPages \in Nat
    BY PoolBounds, Sizes
  <1>2. PICK k \in h.free_start[a]..FreeEnd(h, a) - 1 : s = SpanAt(a, k)  BY DEF Left
  <1>3. k \in 0..AreaPages - 1 /\ k >= h.free_start[a]  BY <1>1, <1>2
  <1>4. AreaOf(s) = a /\ PageOf(s) = k  BY <1>2, <1>3, SpanOfPage
  <1>5. PageOf(s) < h.free_start[a]  BY <1>4 DEF CutSpans
  <1> QED  BY <1>1, <1>3, <1>4, <1>5

\* The map is as it was when nothing it depends on has changed.
LEMMA SameMapped ==
  ASSUME NEW h, NEW g, Mapped(h), g.segments = h.segments, g.free_start = h.free_start,
         g.span_map = h.span_map, g.entry = h.entry
  PROVE  Mapped(g)
  BY DEF Mapped

\* A piece of a free list, and those it does not overlap.
LEMMA ListedPiece ==
  ASSUME NEW lowest, NEW h, NEW S, NEW H, NEW lost, Pool(lowest, h, S, H, lost),
         NEW a \in Area, NEW i \in ListIndex, NEW s \in S[a][i],
         NEW e, e = [at |-> s, pages |-> i + 1]
  PROVE  /\ e \in Shelf(S) /\ e \notin H /\ e \in Piece /\ Fits(h.free_start, e)
         /\ AreaOf(s) = a /\ i \in 0..LARGE - 1 /\ s \in PagesOf(e)
         /\ \A f \in H \cup Shelf(S) : f # e => PagesOf(f) \cap PagesOf(e) = {}
         /\ \A f \in H : f.at \notin PagesOf(e) /\ f.at \in PagesOf(f)
         /\ \A x \in PagesOf(e) : OnShelf(S, x) => x = s
  <1>1. i \in 0..LARGE - 1 /\ AreaOf(s) = a /\ e \in Shelf(S)  BY ShelfPieces DEF Pool
  <1>2. /\ H \cap Shelf(S) = {} /\ Divides(h.free_start, H \cup Shelf(S), lost)
        /\ h.free_start \in FreeStarts
    BY PoolFree DEF Pool
  <1>3. \A f \in H \cup Shelf(S) : f \in Piece /\ Fits(h.free_start, f) /\ f.at \in PagesOf(f)
    <2>1. TAKE f \in H \cup Shelf(S)
    <2>2. f \in Piece /\ Fits(h.free_start, f)  BY <1>2 DEF Divides
    <2> QED  BY <1>2, <2>2, PieceSpans
  <1>4. \A f \in H \cup Shelf(S) : f # e => PagesOf(f) \cap PagesOf(e) = {}
    BY <1>1, <1>2 DEF Divides
  <1>5. ASSUME NEW x \in PagesOf(e), OnShelf(S, x)  PROVE x = s
    <2>1. PICK b \in Area, j \in ListIndex : x \in S[b][j]  BY <1>5 DEF OnShelf
    <2> DEFINE f == [at |-> x, pages |-> j + 1]
    <2>2. f \in Shelf(S) /\ f.at = x  BY <2>1, ShelfPieces DEF Pool
    <2> HIDE DEF f
    <2>3. x \in PagesOf(f)  BY <1>3, <2>2
    <2>4. f = e  BY <1>4, <1>5, <2>2, <2>3
    <2> QED  BY <2>2, <2>4
  <1>6. e \notin H  BY <1>1, <1>2
  <1>7. \A f \in H : f.at \notin PagesOf(e) /\ f.at \in PagesOf(f)  BY <1>3, <1>4, <1>6
  <1>8. e.at = s  OBVIOUS
  <1>9. s \in PagesOf(e)  BY <1>1, <1>3, <1>8
  <1> QED  BY <1>1, <1>3, <1>4, <1>5, <1>6, <1>7, <1>9

\* Changing the links of listed spans and of one nobody holds leaves the links
\* of held spans, of NULL and of other lists.
LEMMA ListedOutside ==
  ASSUME NEW lowest \in Int, FreeLists \subseteq Node(lowest),
         NEW h, NEW S, NEW H, NEW lost, Pool(lowest, h, S, H, lost),
         NEW k, NEW g, NEW s \in Spans, k.next = h.next, k.prev = h.prev,
         Elsewhere(lowest, k, g, S, s), \A e \in H : e.at # s
  PROVE  Outside(lowest, h, g, H)
  <1>1. S \in Shelves  BY DEF Pool
  <1>2. \A n : OnShelf(S, n) => n \in Spans  BY <1>1 DEF OnShelf, Shelves
  <1>3. \A e \in H : ~OnShelf(S, e.at)  BY HeldPiece
  <1>4. \A e \in H : e.at \notin FreeLists
    <2>1. \A e \in H : e.at \in Spans  BY HeldPiece
    <2>2. AREA_NUM * AreaPages \in Nat /\ AREA_NUM * LARGE_BLOCK_NUM \in Nat  BY Sizes
    <2> QED  BY <2>1, <2>2 DEF FreeLists, Spans
  <1>5. ASSUME NEW n \in Node(lowest), n \notin FreeLists \cup Spans \/ \E e \in H : n = e.at
        PROVE  g.next[n] = h.next[n] /\ g.prev[n] = h.prev[n]
    <2>1. n \notin FreeLists \cup {s} /\ ~OnShelf(S, n)  BY <1>2, <1>3, <1>4, <1>5
    <2> QED  BY <2>1 DEF Elsewhere
  <1> QED  BY <1>5 DEF Outside

\* The first span of a list, taken whole.
LEMMA WholePool ==
  ASSUME NEW lowest \in Int, FreeLists \subseteq Node(lowest),
         NEW h, NEW S, NEW H, NEW lost, Pool(lowest, h, S, H, lost),
         NEW a \in Area, NEW i \in ListIndex, S[a][i] # {},
         NEW s, s = h.next[FreeList(a, i)],
         NEW e, e = [at |-> s, pages |-> i + 1],
         NEW g, g = list_del(SkipFirst(h, a, i), s)
  PROVE  Got(lowest, h, g, Unshelve(S, a, i, s), H, lost, a, e)
  <1> DEFINE k == SkipFirst(h, a, i)
             R == Unshelve(S, a, i, s)
  <1>1. /\ h \in HeapType(lowest) /\ S \in Shelves /\ Shelved(h, S) /\ Mapped(h)
        /\ H \cap Shelf(S) = {} /\ Divides(h.free_start, H \cup Shelf(S), lost)
    BY DEF Pool
  <1>2. /\ s \in S[a][i] /\ k \in HeapType(lowest) /\ Shelved(k, S)
        /\ k.max_wear_page_index[a][i] # s
        /\ k.next = h.next /\ k.prev = h.prev /\ k.hdr = h.hdr /\ k.entry = h.entry
        /\ k.span_map = h.span_map /\ k.free_start = h.free_start
        /\ k.segments = h.segments /\ k.max_wc = h.max_wc
    BY <1>1, SkipFirstShelved
  <1> HIDE DEF k
  <1>3. /\ g \in HeapType(lowest) /\ SameButLinks(k, g) /\ R \in Shelves /\ Shelved(g, R)
        /\ Elsewhere(lowest, k, g, S, s)
    BY <1>1, <1>2, DelShelved DEF k
  <1>4. /\ e \in Shelf(S) /\ e \notin H /\ e \in Piece /\ AreaOf(s) = a /\ i \in 0..LARGE - 1
    BY <1>2, ListedPiece
  <1>5. s \in Spans  BY <1>1, <1>2 DEF Shelves
  <1>6. Shelf(R) = Shelf(S) \ {e}  BY <1>1, <1>4, <1>5, ShelfUnshelve
  <1> HIDE DEF R
  <1>7. Mapped(g)  BY <1>1, <1>2, <1>3, SameMapped DEF SameButLinks
  <1>8. Pool(lowest, g, R, H \cup {e}, lost)
    <2>1. (H \cup {e}) \cap Shelf(R) = {} /\ (H \cup {e}) \cup Shelf(R) = H \cup Shelf(S)
      BY <1>1, <1>4, <1>6
    <2>2. g.free_start = h.free_start  BY <1>2, <1>3 DEF SameButLinks
    <2> QED  BY <1>1, <1>3, <1>7, <2>1, <2>2 DEF Pool
  <1>9. Taken(h, g, H, a, s)
    <2>1. g.hdr = h.hdr /\ g.max_wc = h.max_wc /\ g.entry = h.entry
      BY <1>2, <1>3 DEF SameButLinks
    <2>2. h.hdr[s].wear_count <= h.max_wc[a]  BY <1>1, <1>2 DEF Shelved
    <2> QED  BY <2>1, <2>2 DEF Taken
  <1>10. g.segments = h.segments  BY <1>2, <1>3 DEF SameButLinks
  <1>11. e.at = s  OBVIOUS
  <1>12. Outside(lowest, h, g, H)
    <2>1. \A f \in H : f.at # s  BY <1>2, ListedPiece
    <2> QED  BY <1>2, <1>3, <1>5, <2>1, ListedOutside
  <1>13. CutSpans(h.free_start) \subseteq CutSpans(g.free_start)
    BY <1>2, <1>3 DEF SameButLinks
  <1>14. Got(lowest, h, g, R, H, lost, a, e)
    BY <1>4, <1>8, <1>9, <1>10, <1>11, <1>12, <1>13 DEF Got
  <1> QED  BY <1>14 DEF R

\* From h to g, rest has been split off span s.
HasSplit(lowest, h, g, s, rest) ==
  /\ g \in HeapType(lowest)
  /\ g.span_map = h.span_map /\ g.free_start = h.free_start
  /\ g.segments = h.segments /\ g.max_wc = h.max_wc
  /\ g.entry = [h.entry EXCEPT ![rest - 1] = rest] /\ rest - 1 \in MapEntries
  /\ \A x \in Spans : x # rest => g.hdr[x] = h.hdr[x]
  /\ g.hdr[rest].category = LARGE /\ g.hdr[rest].wear_count = h.hdr[s].wear_count
  /\ g.hdr[rest].bitmap = h.hdr[rest].bitmap /\ g.hdr[rest].free_block_num = h.hdr[rest].free_block_num
  /\ \A b \in Area, j \in ListIndex :
       g.max_wear_page_index[b][j] \in {NULL, rest, h.max_wear_page_index[b][j]}

\* span_split of a listed span: the rest becomes a span of its own on the list
\* of its page count, as worn as the whole.
LEMMA SplitShelved ==
  ASSUME NEW lowest \in Int, FreeLists \subseteq Node(lowest),
         NEW h \in HeapType(lowest), NEW S \in Shelves, Shelved(h, S), Mapped(h),
         NEW a \in Area, NEW i \in 0..LARGE - 1, NEW s \in S[a][i],
         NEW index \in 0..i - 1,
         NEW rest \in Spans, rest = SpanAt(AreaOf(s), PageOf(s) + index + 1),
         AreaOf(rest) = a, ~OnShelf(S, rest), PageOf(rest) < h.segments[a] * SegPages
  PROVE  LET g == span_split(h, s, i, index)
         IN  /\ HasSplit(lowest, h, g, s, rest)
             /\ Shelved(g, Shelve(S, a, i - index - 1, rest)) /\ Mapped(g)
             /\ Elsewhere(lowest, h, g, S, rest)
  <1> DEFINE w  == h.hdr[s].wear_count
             n  == i - index
             j  == i - index - 1
             k0 == [h EXCEPT !.hdr[rest].wear_count = w]
             k1 == span_init(k0, rest, j, LARGE)
             g  == span_split(h, s, i, index)
  <1>1. /\ LARGE \in Nat \ {0} /\ i \in ListIndex /\ i # LARGE /\ LARGE \in 0..LARGE
        /\ j \in 0..LARGE - 1 /\ j \in 0..LARGE /\ j < LARGE /\ n \in 1..LARGE
        /\ j + 1 = n /\ n - 1 = j
    BY Sizes DEF ListIndex
  <1>2. g = span_back_to_centralpool(k1, rest)  BY <1>1 DEF span_split
  <1> HIDE DEF n, j, g
  <1>3. /\ s \in Spans /\ AreaOf(s) = a /\ w \in Nat /\ w <= h.max_wc[a] /\ h.max_wc[a] \in Nat
        /\ h.hdr \in [Spans -> HeaderType]
    <2>1. s \in Spans /\ AreaOf(s) = a /\ w <= h.max_wc[a]  BY <1>1 DEF Shelved, Shelves
    <2>2. h.hdr \in [Spans -> HeaderType] /\ h.max_wc \in [Area -> Nat]  BY DEF HeapType
    <2> QED  BY <2>1, <2>2 DEF HeaderType
  <1> HIDE DEF w
  <1>4. /\ k0 \in HeapType(lowest) /\ k0.hdr = [h.hdr EXCEPT ![rest].wear_count = w]
        /\ k0.next = h.next /\ k0.prev = h.prev /\ k0.entry = h.entry
        /\ k0.span_map = h.span_map /\ k0.free_start = h.free_start
        /\ k0.segments = h.segments /\ k0.max_wc = h.max_wc
        /\ k0.max_wear_page_index = h.max_wear_page_index
    <2>1. [h.hdr EXCEPT ![rest].wear_count = w] \in [Spans -> HeaderType]
      <3>1. [h.hdr[rest] EXCEPT !.wear_count = w] \in HeaderType  BY <1>3 DEF HeaderType
      <3> QED  BY <1>3, <3>1
    <2> QED  BY <2>1 DEF HeapType
  <1> HIDE DEF k0
  <1>5. /\ k0.hdr[rest].wear_count = w /\ \A x \in Spans : x # rest => k0.hdr[x] = h.hdr[x]
        /\ k0.hdr[rest].bitmap = h.hdr[rest].bitmap
        /\ k0.hdr[rest].free_block_num = h.hdr[rest].free_block_num
    <2>1. k0.hdr[rest] = [h.hdr[rest] EXCEPT !.wear_count = w]  BY <1>3, <1>4
    <2>2. h.hdr[rest] \in HeaderType  BY <1>3
    <2>3. /\ k0.hdr[rest].wear_count = w
          /\ k0.hdr[rest].bitmap = h.hdr[rest].bitmap
          /\ k0.hdr[rest].free_block_num = h.hdr[rest].free_block_num
      BY <2>1, <2>2 DEF HeaderType
    <2> QED  BY <1>3, <1>4, <2>3
  <1>6. Shelved(k0, S) /\ Mapped(k0)
    <2>1. \A x : OnShelf(S, x) => k0.hdr[x] = h.hdr[x]
      <3>1. \A x : OnShelf(S, x) => x \in Spans /\ x # rest  BY DEF OnShelf, Shelves
      <3> QED  BY <1>5, <3>1
    <2> QED  BY <1>4, <2>1, SameShelved, SameMapped
  <1>7. PageOf(rest) < k0.segments[AreaOf(rest)] * SegPages  BY <1>4
  <1>8. /\ k1 \in HeapType(lowest)
        /\ k1.hdr = [k0.hdr EXCEPT ![rest] = Initialised(k0.hdr[rest], j, LARGE)]
        /\ k1.entry = [k0.entry EXCEPT ![rest - 1] = rest] /\ rest - 1 \in MapEntries
        /\ k1.span_map = k0.span_map /\ k1.free_start = k0.free_start
        /\ k1.segments = k0.segments /\ k1.max_wc = k0.max_wc
        /\ k1.max_wear_page_index = k0.max_wear_page_index
        /\ k1.next = [k0.next EXCEPT ![rest] = rest] /\ k1.prev = [k0.prev EXCEPT ![rest] = rest]
    <2>1. Inited(lowest, k0, k1, rest, Initialised(k0.hdr[rest], j, LARGE)) /\ rest - 1 \in MapEntries
      BY <1>1, <1>4, <1>6, <1>7, SpanInitEffect
    <2> HIDE DEF k1
    <2> QED  BY <2>1 DEF Inited
  <1>9. Shelved(k1, S) /\ Mapped(k1)
    BY <1>1, <1>4, <1>6, <1>7, SpanInitShelved
  <1>10. LET v == Initialised(k0.hdr[rest], j, LARGE)
         IN  /\ v.wear_count = w /\ v.category = LARGE /\ v.page_num = n
             /\ v.bitmap = h.hdr[rest].bitmap /\ v.free_block_num = h.hdr[rest].free_block_num
    <2>1. k0.hdr[rest] \in HeaderType  BY <1>4 DEF HeapType
    <2> DEFINE u == k0.hdr[rest]
               v == Initialised(u, j, LARGE)
    <2>2. /\ u \in HeaderType /\ u.wear_count = w
          /\ u.bitmap = h.hdr[rest].bitmap /\ u.free_block_num = h.hdr[rest].free_block_num
      BY <1>5, <2>1
    <2> HIDE DEF u
    <2>3. v.wear_count = u.wear_count /\ v.category = LARGE /\ v.page_num = j + 1
      <3>1. u \in HeaderType /\ j \in 0..LARGE /\ LARGE \in 0..LARGE /\ j < LARGE  BY <1>1, <2>2
      <3> QED  BY SMTT(30), <3>1, InitialisedHeader
    <2>4. v.bitmap = u.bitmap /\ v.free_block_num = u.free_block_num
      BY <1>1, <2>2, InitialisedBlocks
    <2> HIDE DEF v
    <2> QED  BY <1>1, <2>2, <2>3, <2>4 DEF u, v
  <1> HIDE DEF k1
  <1>11. /\ k1.hdr[rest].wear_count = w /\ k1.hdr[rest].category = LARGE /\ k1.hdr[rest].page_num = n
         /\ k1.hdr[rest].bitmap = h.hdr[rest].bitmap
         /\ k1.hdr[rest].free_block_num = h.hdr[rest].free_block_num
         /\ \A x \in Spans : x # rest => k1.hdr[x] = h.hdr[x]
    <2>1. k0.hdr \in [Spans -> HeaderType]  BY <1>4 DEF HeapType
    <2> QED  BY <1>5, <1>8, <1>10, <2>1
  <1>12. n = IF k1.hdr[rest].category # LARGE THEN 1 ELSE k1.hdr[rest].page_num  BY <1>11
  <1>13. /\ g \in HeapType(lowest)
         /\ g.hdr = [k1.hdr EXCEPT ![rest] = Returned(@)]
         /\ g.span_map = k1.span_map /\ g.entry = k1.entry
         /\ g.free_start = k1.free_start /\ g.segments = k1.segments
         /\ g.max_wc = [k1.max_wc EXCEPT ![a] = IF k1.hdr[rest].wear_count > k1.max_wc[a]
                                                THEN k1.hdr[rest].wear_count ELSE k1.max_wc[a]]
         /\ \A b \in Area, l \in ListIndex :
              g.max_wear_page_index[b][l] \in {NULL, rest, k1.max_wear_page_index[b][l]}
         /\ Shelved(g, Shelve(S, a, n - 1, rest)) /\ Elsewhere(lowest, k1, g, S, rest)
    <2>1. /\ CameBack(lowest, k1, g, rest, n) /\ Shelved(g, Shelve(S, a, n - 1, rest))
          /\ Elsewhere(lowest, k1, g, S, rest)
      BY <1>1, <1>2, <1>8, <1>9, <1>12, BackShelved
    <2> QED  BY <2>1 DEF CameBack
  <1>14. g.max_wc = h.max_wc
    <2>1. k1.max_wc = h.max_wc /\ h.max_wc \in [Area -> Nat]  BY <1>4, <1>8 DEF HeapType
    <2>2. ~(w > h.max_wc[a])  BY SMTT(30), <1>3
    <2> QED  BY <1>11, <1>13, <2>1, <2>2
  <1>15. /\ \A x \in Spans : x # rest => g.hdr[x] = h.hdr[x]
         /\ g.hdr[rest].category = LARGE /\ g.hdr[rest].wear_count = w
         /\ g.hdr[rest].bitmap = h.hdr[rest].bitmap
         /\ g.hdr[rest].free_block_num = h.hdr[rest].free_block_num
    <2>1. k1.hdr \in [Spans -> HeaderType]  BY <1>8 DEF HeapType
    <2>2. g.hdr[rest] = Returned(k1.hdr[rest]) /\ k1.hdr[rest] \in HeaderType
      BY <1>13, <2>1
    <2>3. g.hdr[rest] = k1.hdr[rest]  BY <1>11, <2>2, ReturnedHeader
    <2> QED  BY <1>11, <1>13, <2>1, <2>3
  <1>16. Mapped(g)  BY <1>9, <1>13, SameMapped
  <1>17. n - 1 = i - index - 1  BY SMTT(30), <1>1 DEF n, j
  <1>18. /\ g.span_map = h.span_map /\ g.free_start = h.free_start /\ g.segments = h.segments
         /\ g.entry = [h.entry EXCEPT ![rest - 1] = rest]
    BY SMTT(30), <1>4, <1>8, <1>13
  <1>19. \A b \in Area, l \in ListIndex :
           g.max_wear_page_index[b][l] \in {NULL, rest, h.max_wear_page_index[b][l]}
    BY SMTT(30), <1>4, <1>8, <1>13
  <1>20. HasSplit(lowest, h, g, s, rest)
    BY <1>8, <1>13, <1>14, <1>15, <1>18, <1>19 DEF HasSplit, w
  <1>21. Elsewhere(lowest, h, g, S, rest)
    <2>1. \A x \in Node(lowest) : x # rest => k1.next[x] = h.next[x] /\ k1.prev[x] = h.prev[x]
      BY <1>4, <1>8 DEF HeapType
    <2> QED  BY <1>13, <2>1 DEF Elsewhere
  <1> QED  BY <1>13, <1>16, <1>17, <1>20, <1>21 DEF g

\* The first span of a list of larger spans, taken after what is not needed of
\* it was split off.
LEMMA PartPool ==
  ASSUME NEW lowest \in Int, FreeLists \subseteq Node(lowest),
         NEW h, NEW S, NEW H, NEW lost, Pool(lowest, h, S, H, lost),
         NEW a \in Area, NEW i \in ListIndex, S[a][i] # {}, NEW index \in 0..LARGE - 1, index < i,
         NEW s, s = h.next[FreeList(a, i)],
         NEW e, e = [at |-> s, pages |-> index + 1],
         NEW g, g = list_del(span_split(SkipFirst(h, a, i), s, i, index), s)
  PROVE  \E R : Got(lowest, h, g, R, H, lost, a, e)
  <1> DEFINE k == SkipFirst(h, a, i)
             n == index + 1
             rest == SpanAt(AreaOf(s), PageOf(s) + index + 1)
             k1 == span_split(k, s, i, index)
             whole == [at |-> s, pages |-> i + 1]
             r == [at |-> s + n, pages |-> whole.pages - n]
             S1 == Shelve(S, a, i - index - 1, rest)
             R == Unshelve(S1, a, i, s)
             E == H \cup Shelf(S)
             j == i - index - 1
  <1>1. /\ h \in HeapType(lowest) /\ S \in Shelves /\ Shelved(h, S) /\ Mapped(h)
        /\ H \cap Shelf(S) = {} /\ Divides(h.free_start, E, lost) /\ h.free_start \in FreeStarts
    BY PoolFree DEF Pool
  <1>2. /\ s \in S[a][i] /\ k \in HeapType(lowest) /\ Shelved(k, S)
        /\ k.max_wear_page_index[a][i] # s
        /\ k.hdr = h.hdr /\ k.entry = h.entry /\ k.next = h.next /\ k.prev = h.prev
        /\ k.span_map = h.span_map /\ k.free_start = h.free_start
        /\ k.segments = h.segments /\ k.max_wc = h.max_wc
    BY <1>1, SkipFirstShelved
  <1>3. /\ whole \in Shelf(S) /\ whole \notin H /\ whole \in Piece /\ Fits(h.free_start, whole)
        /\ AreaOf(s) = a /\ i \in 0..LARGE - 1 /\ s \in PagesOf(whole)
        /\ \A f \in E : f # whole => PagesOf(f) \cap PagesOf(whole) = {}
        /\ \A f \in H : f.at \notin PagesOf(whole) /\ f.at \in PagesOf(f)
        /\ \A x \in PagesOf(whole) : OnShelf(S, x) => x = s
    <2> HIDE DEF whole
    <2> QED  BY <1>2, ListedPiece DEF whole
  <1>4. /\ LARGE \in Nat /\ i \in Nat /\ index \in 0..i - 1 /\ n \in 1..LARGE /\ n < whole.pages
        /\ j \in 0..LARGE - 1 /\ j \in ListIndex /\ whole.pages - n = j + 1 /\ j # i
        /\ whole.at = s /\ whole.pages = i + 1 /\ s \in Spans /\ s \in Nat /\ n \in Nat
    BY SMTT(30), <1>1, <1>2, <1>3, Sizes DEF ListIndex, Shelves, Spans
  <1> HIDE DEF whole, k, k1, j, n
  <1>5. /\ e \in Piece /\ r \in Piece /\ e # r
        /\ AreaOf(r.at) = a /\ PageOf(r.at) = PageOf(s) + n
        /\ PagesOf(e) \cup PagesOf(r) = PagesOf(whole)
        /\ Divides(h.free_start, (E \ {whole}) \cup {e, r}, lost)
    <2> DEFINE free == h.free_start
    <2>1. /\ free \in FreeStarts /\ Divides(free, E, lost) /\ whole \in E
          /\ e = [at |-> whole.at, pages |-> n] /\ r = [at |-> whole.at + n, pages |-> whole.pages - n]
      BY <1>1, <1>3, <1>4 DEF n
    <2> HIDE DEF free, E, r
    <2>2. /\ e \in Piece /\ r \in Piece /\ e # r
          /\ AreaOf(r.at) = AreaOf(whole.at) /\ PageOf(r.at) = PageOf(whole.at) + n
          /\ PagesOf(e) \cup PagesOf(r) = PagesOf(whole)
          /\ Divides(free, (E \ {whole}) \cup {e, r}, lost)
      BY SMTT(30), <1>4, <2>1, DividesSplit
    <2> QED  BY <1>3, <1>4, <2>2 DEF free
  <1>6. rest = r.at /\ r.at = s + n /\ rest \in Spans /\ r = [at |-> rest, pages |-> j + 1]
    <2>1. SpanAt(a, PageOf(s)) = s /\ PageOf(s) \in Nat /\ a \in Nat /\ AreaPages \in Nat
      BY <1>3, <1>4, PageOfSpan, Sizes DEF Area
    <2>2. a * AreaPages \in Nat  BY <2>1
    <2>3. rest = s + n  BY <1>3, <1>4, <2>1, <2>2 DEF SpanAt, n
    <2>4. r.at = s + n /\ s + n \in Spans  BY <1>5 DEF Piece
    <2> QED  BY <1>4, <2>3, <2>4
  <1> HIDE DEF rest
  <1>7. r.at \in PagesOf(r) /\ e.at \in PagesOf(e) /\ e.at = s
    <2>1. e \in Piece /\ Fits(h.free_start, e) /\ r \in Piece /\ Fits(h.free_start, r)
      BY <1>5 DEF Divides
    <2> HIDE DEF r
    <2> QED  BY <1>1, <2>1, PieceSpans
  <1> HIDE DEF r
  <1>8. rest \in PagesOf(whole) /\ rest # s
    BY <1>4, <1>5, <1>6, <1>7
  <1>9. ~OnShelf(S, rest)  BY <1>3, <1>8
  <1>10. AreaOf(rest) = a /\ PageOf(rest) < h.segments[a] * SegPages
    <2>1. PagesOf(whole) \subseteq CutSpans(h.free_start)  BY <1>1, <1>3, PieceSpans
    <2>2. PageOf(rest) < h.free_start[a] /\ AreaOf(rest) = a  BY <1>5, <1>6, <1>8, <2>1 DEF CutSpans
    <2>3. h.free_start[a] \in 0..FreeEnd(h, a) /\ FreeEnd(h, a) \in 0..AreaPages /\ AreaPages \in Nat
          /\ FreeEnd(h, a) = h.segments[a] * SegPages
      BY <1>1, PoolBounds, Sizes DEF FreeEnd
    <2>4. PageOf(rest) \in Nat  BY <1>6, PageOfSpan, Sizes
    <2> DEFINE end == h.segments[a] * SegPages
    <2> HIDE DEF end
    <2> QED  BY <2>2, <2>3, <2>4 DEF end
  <1>11. /\ k1 \in HeapType(lowest) /\ Shelved(k1, S1) /\ Mapped(k1)
         /\ k1.span_map = k.span_map /\ k1.free_start = k.free_start
         /\ k1.segments = k.segments /\ k1.max_wc = k.max_wc
         /\ k1.entry = [k.entry EXCEPT ![rest - 1] = rest] /\ rest - 1 \in MapEntries
         /\ \A x \in Spans : x # rest => k1.hdr[x] = k.hdr[x]
         /\ k1.hdr[rest].category = LARGE /\ k1.hdr[rest].wear_count = k.hdr[s].wear_count
         /\ k1.hdr[rest].bitmap = k.hdr[rest].bitmap
         /\ k1.hdr[rest].free_block_num = k.hdr[rest].free_block_num
         /\ Elsewhere(lowest, k, k1, S, rest)
         /\ \A b \in Area, l \in ListIndex :
              k1.max_wear_page_index[b][l] \in {NULL, rest, k.max_wear_page_index[b][l]}
    <2>1. k.hdr = h.hdr /\ PageOf(rest) < k.segments[a] * SegPages  BY <1>2, <1>10
    <2>2. rest = SpanAt(AreaOf(s), PageOf(s) + index + 1)  BY DEF rest
    <2>3. Mapped(k)  BY <1>1, <1>2, SameMapped
    <2>4. /\ HasSplit(lowest, k, k1, s, rest) /\ Shelved(k1, S1) /\ Mapped(k1)
          /\ Elsewhere(lowest, k, k1, S, rest)
      BY <1>1, <1>2, <1>3, <1>4, <1>6, <1>9, <1>10, <2>1, <2>2, <2>3, SplitShelved DEF k1
    <2> QED  BY <2>4 DEF HasSplit
  <1>12. /\ S1 \in Shelves /\ s \in S1[a][i] /\ Shelf(S1) = Shelf(S) \cup {r}
         /\ \A n2 \in Spans : OnShelf(S1, n2) => OnShelf(S, n2) \/ n2 = rest
    <2>1. S1 = Shelve(S, a, j, rest)  BY DEF j
    <2>2. /\ Shelve(S, a, j, rest) \in Shelves
          /\ \A b \in Area, l \in ListIndex :
               Shelve(S, a, j, rest)[b][l] = IF b = a /\ l = j THEN S[a][j] \cup {rest} ELSE S[b][l]
      <3>1. S \in Shelves /\ a \in Area /\ j \in ListIndex /\ rest \in Spans  BY <1>1, <1>4, <1>6
      <3>2. Shelve(S, a, j, rest) \in Shelves
        <4>1. OneList(Shelve(S, a, j, rest), S, a, j, S[a][j] \cup {rest})  BY <3>1, ShelveAt
        <4> QED  BY <4>1 DEF OneList
      <3>3. Shelve(S, a, j, rest) = [S EXCEPT ![a] = [S[a] EXCEPT ![j] = S[a][j] \cup {rest}]]
        BY DEF Shelve
      <3>4. S \in [Area -> [ListIndex -> SUBSET Spans]]  BY <3>1 DEF Shelves
      <3> QED  BY <3>1, <3>2, <3>3, <3>4
    <2>3. Shelf(Shelve(S, AreaOf(rest), j, rest)) = Shelf(S) \cup {[at |-> rest, pages |-> j + 1]}
      BY <1>1, <1>4, <1>6, ShelfShelve
    <2> HIDE DEF S1
    <2>4. \A b \in Area, l \in ListIndex : S1[b][l] \subseteq S[b][l] \cup {rest}  BY <2>1, <2>2
    <2>5. \A n2 \in Spans : OnShelf(S1, n2) => OnShelf(S, n2) \/ n2 = rest  BY <2>4 DEF OnShelf
    <2> QED  BY <1>2, <1>4, <1>6, <1>10, <2>1, <2>2, <2>3, <2>5
  <1> HIDE DEF S1
  <1>13. k1.max_wear_page_index[a][i] # s
    <2>1. k1.max_wear_page_index[a][i] \in {NULL, rest, k.max_wear_page_index[a][i]}  BY <1>11
    <2>2. s # NULL  BY SMTT(30), <1>4, NodesIn
    <2> QED  BY <1>2, <1>8, <2>1, <2>2
  <1>14. /\ g \in HeapType(lowest) /\ SameButLinks(k1, g) /\ R \in Shelves /\ Shelved(g, R)
         /\ Elsewhere(lowest, k1, g, S1, s)
    BY <1>11, <1>12, <1>13, DelShelved DEF k1, k
  <1>15. Shelf(R) = (Shelf(S) \cup {r}) \ {whole}
    <2>1. Shelf(Unshelve(S1, AreaOf(s), i, s)) = Shelf(S1) \ {[at |-> s, pages |-> i + 1]}
      BY <1>3, <1>4, <1>12, ShelfUnshelve
    <2> QED  BY <1>3, <1>12, <2>1 DEF whole
  <1> HIDE DEF R
  <1>16. e \notin E /\ r \notin E /\ r # whole /\ e # whole
    <2>1. e # whole /\ r # whole
      <3>1. e.pages = n /\ r.pages = j + 1 /\ whole.pages = i + 1
        BY <1>4, <1>6 DEF n
      <3> QED  BY <1>4, <1>6, <1>7, <1>8, <3>1
    <2>2. e.at \in PagesOf(whole) /\ r.at \in PagesOf(whole)  BY <1>5, <1>7
    <2> QED  BY <1>3, <1>7, <2>1, <2>2
  <1>17. (H \cup {e}) \cap Shelf(R) = {} /\ (H \cup {e}) \cup Shelf(R) = (E \ {whole}) \cup {e, r}
    BY SMTT(30), <1>1, <1>3, <1>5, <1>15, <1>16
  <1>18. Mapped(g) /\ g.free_start = h.free_start /\ g.segments = h.segments
    BY <1>2, <1>11, <1>14, SameMapped DEF SameButLinks
  <1>19. Pool(lowest, g, R, H \cup {e}, lost)
    BY <1>5, <1>14, <1>17, <1>18 DEF Pool
  <1>20. Taken(h, g, H, a, s)
    <2>1. /\ g.hdr = k1.hdr /\ g.max_wc = h.max_wc
          /\ \A x \in Spans : x # rest => g.hdr[x] = h.hdr[x]
          /\ g.hdr[rest].category = LARGE /\ g.hdr[rest].wear_count = h.hdr[s].wear_count
          /\ g.entry = [h.entry EXCEPT ![rest - 1] = rest]
          /\ g.hdr[rest].bitmap = h.hdr[rest].bitmap
          /\ g.hdr[rest].free_block_num = h.hdr[rest].free_block_num
      BY <1>2, <1>11, <1>14 DEF SameButLinks
    <2>2. \A d \in H : g.hdr[d.at] = h.hdr[d.at]
      <3>1. TAKE d \in H
      <3>2. d.at \in Spans /\ d.at # rest
        BY <1>1, <1>3, <1>8 DEF Divides, Piece
      <3> QED  BY <2>1, <3>2
    <2>3. g.hdr[s].wear_count <= h.max_wc[a]
      <3>1. h.hdr[s].wear_count <= h.max_wc[a]  BY <1>1, <1>2 DEF Shelved
      <3>2. g.hdr[s] = h.hdr[s]  BY <1>4, <1>8, <2>1
      <3> QED  BY <3>1, <3>2
    <2>4. ASSUME NEW x \in Spans
          PROVE  /\ g.hdr[x].category \in {h.hdr[x].category, LARGE}
                 /\ g.hdr[x].wear_count \in {0} \cup {h.hdr[y].wear_count : y \in Spans}
                 /\ g.hdr[x].bitmap = h.hdr[x].bitmap
                 /\ g.hdr[x].free_block_num = h.hdr[x].free_block_num
      BY <1>4, <2>1
    <2>5. ASSUME NEW x \in MapEntries, h.entry[x] = x + 1  PROVE g.entry[x] = x + 1
      <3>1. h.entry \in [MapEntries -> Spans \cup {NULL}]  BY <1>1 DEF HeapType
      <3>2. CASE x = rest - 1
        <4>1. rest \in Nat  BY <1>6 DEF Spans
        <4>2. rest = x + 1  BY <3>2, <4>1
        <4> QED  BY <2>1, <3>1, <3>2, <4>2
      <3>3. CASE x # rest - 1  BY <2>1, <2>5, <3>1, <3>3
      <3> QED  BY <3>2, <3>3
    <2> QED  BY <2>1, <2>2, <2>3, <2>4, <2>5 DEF Taken
  <1>21. Outside(lowest, h, g, H)
    <2>1. S \in Shelves /\ OnShelf(S, s)  BY <1>1, <1>2, <1>4 DEF OnShelf
    <2>2. \A m : OnShelf(S, m) => m \in Spans  BY <2>1 DEF OnShelf, Shelves
    <2>3. \A f \in H : f.at # rest /\ f.at \in Spans /\ ~OnShelf(S, f.at)
      BY <1>3, <1>8, HeldPiece
    <2>4. \A m \in Spans : m \notin FreeLists
      <3>1. AREA_NUM * AreaPages \in Nat /\ AREA_NUM * LARGE_BLOCK_NUM \in Nat  BY Sizes
      <3> QED  BY <3>1 DEF FreeLists, Spans
    <2>5. \A m : OnShelf(S1, m) => m \in Spans  BY <1>12 DEF OnShelf, Shelves
    <2>6. ASSUME NEW m \in Node(lowest), m \notin FreeLists \cup Spans \/ \E f \in H : m = f.at
          PROVE  g.next[m] = h.next[m] /\ g.prev[m] = h.prev[m]
      <3>1. m \notin FreeLists /\ m # rest /\ m # s /\ ~OnShelf(S, m)
        BY <1>4, <1>6, <2>1, <2>2, <2>3, <2>4, <2>6
      <3>2. ~OnShelf(S1, m)  BY <1>12, <2>5, <3>1
      <3>3. k1.next[m] = k.next[m] /\ k1.prev[m] = k.prev[m]  BY <1>11, <3>1 DEF Elsewhere
      <3>4. g.next[m] = k1.next[m] /\ g.prev[m] = k1.prev[m]  BY <1>14, <3>1, <3>2 DEF Elsewhere
      <3> QED  BY <1>2, <3>3, <3>4
    <2> QED  BY <2>6 DEF Outside
  <1>22. CutSpans(h.free_start) \subseteq CutSpans(g.free_start)  BY <1>18
  <1> QED  BY <1>3, <1>5, <1>7, <1>16, <1>18, <1>19, <1>20, <1>21, <1>22 DEF Got

\* A list is empty for list_empty just when nothing is shelved on it.
LEMMA ShelfEmpty ==
  ASSUME NEW h, NEW S, Shelved(h, S), NEW a \in Area, NEW i \in ListIndex
  PROVE  list_empty(h, FreeList(a, i)) <=> S[a][i] = {}
  <1>1. Ring(h, FreeList(a, i), S[a][i])  BY DEF Shelved
  <1> QED  BY <1>1, RingEmpty

\* The pages cut that are in a piece of the pool or held.
Retained(free, lost) == CutSpans(free) \ lost

\* From h to r.heap, acquire_span has taken the piece e of area a, and no page
\* is lost that was not.
Acquired(lowest, h, r, a, e, H, lost) ==
  /\ e \in Piece /\ e \notin H /\ e.at = r.span /\ AreaOf(e.at) = a
  /\ Taken(h, r.heap, H, a, e.at) /\ Outside(lowest, h, r.heap, H)
  /\ \E R, M : /\ Pool(lowest, r.heap, R, H \cup {e}, M)
               /\ M = lost \cup (IF r.heap.segments[a] = h.segments[a] THEN {} ELSE Left(h, a))
               /\ Retained(h.free_start, lost) \subseteq Retained(r.heap.free_start, M)

\* A piece got without a growth.
LEMMA GotAcquired ==
  ASSUME NEW lowest, NEW h, NEW r, NEW R, NEW H, NEW lost, NEW a, NEW e, e.at = r.span,
         Got(lowest, h, r.heap, R, H, lost, a, e)
  PROVE  Acquired(lowest, h, r, a, e, H, lost)
  <1>1. Retained(h.free_start, lost) \subseteq Retained(r.heap.free_start, lost)
    BY DEF Got, Retained
  <1>2. r.heap.segments[a] = h.segments[a] /\ Pool(lowest, r.heap, R, H \cup {e}, lost)
    BY DEF Got
  <1>3. lost = lost \cup (IF r.heap.segments[a] = h.segments[a] THEN {} ELSE Left(h, a))
    BY <1>2
  <1> QED  BY <1>1, <1>2, <1>3 DEF Acquired, Got

\* acquire_span takes index + 1 pages that nobody holds, from the uncut end of
\* the segment, from a free list or after a growth.
LEMMA AcquirePool ==
  ASSUME NEW lowest \in Int, FreeLists \subseteq Node(lowest),
         NEW h, NEW S, NEW H, NEW lost, Pool(lowest, h, S, H, lost),
         NEW a \in Area, NEW index \in 0..LARGE - 1, CanAcquire(h, a, index),
         NEW r, r = acquire_span(h, a, index),
         NEW e, e = [at |-> r.span, pages |-> index + 1]
  PROVE  Acquired(lowest, h, r, a, e, H, lost)
  <1> DEFINE fit == FittingLists(h, a, index)
             f == h.free_start[a]
  <1>1. /\ h \in HeapType(lowest) /\ S \in Shelves /\ Shelved(h, S) /\ Mapped(h)
        /\ h.free_start \in FreeStarts /\ h.segments \in [Area -> Nat]
        /\ LARGE \in Nat /\ index \in Nat /\ f \in Nat
        /\ FreeEnd(h, a) \in 0..AreaPages /\ f \in 0..FreeEnd(h, a) /\ AreaPages \in Nat
        /\ SegPages \in Nat /\ LARGE <= SegPages
    <2>1. h \in HeapType(lowest) /\ S \in Shelves /\ Shelved(h, S) /\ Mapped(h)
          /\ h.free_start \in FreeStarts /\ h.segments \in [Area -> Nat]
      BY PoolFree DEF Pool, HeapType
    <2>2. FreeEnd(h, a) \in 0..AreaPages /\ h.free_start[a] \in 0..FreeEnd(h, a)
      BY <2>1, PoolBounds
    <2>3. LARGE \in Nat /\ AreaPages \in Nat /\ SegPages \in Nat /\ LARGE <= SegPages
      BY Sizes, HeapAssumption DEF LARGE
    <2> QED  BY <2>1, <2>2, <2>3
  <1>2. CASE HasUncut(h, a, index)
    <2>1. r = Cut(h, a, index)  BY <1>2 DEF acquire_span
    <2>2. h.free_start[a] + index + 1 <= FreeEnd(h, a)  BY <1>1, <1>2 DEF HasUncut
    <2>3. e = [at |-> SpanAt(a, h.free_start[a]), pages |-> index + 1]  BY <2>1 DEF Cut
    <2>4. r.span = e.at /\ Got(lowest, h, r.heap, S, H, lost, a, e)
      BY <2>1, <2>2, <2>3, CutPool
    <2> QED  BY <2>4, GotAcquired
  <1>3. CASE ~HasUncut(h, a, index) /\ fit # {}
    <2> DEFINE i == Min(fit)
               s == h.next[FreeList(a, i)]
               g == SkipFirst(h, a, i)
    <2>1. i \in fit
      <3>1. fit \in SUBSET Int /\ \A y \in fit : 0 <= y  BY <1>1 DEF FittingLists, ListIndex
      <3> HIDE DEF fit
      <3> QED  BY <1>3, <3>1, MinOfSet
    <2> HIDE DEF i
    <2>2. i \in ListIndex /\ i >= index /\ S[a][i] # {}
      BY <1>1, <2>1, ShelfEmpty DEF FittingLists
    <2>3. r = [span |-> s,
               heap |-> list_del(IF i = index THEN g ELSE span_split(g, s, i, index), s)]
      BY <1>3 DEF acquire_span, i
    <2>4. r.span = s /\ e = [at |-> s, pages |-> index + 1] /\ e.at = s  BY <2>3
    <2> HIDE DEF s, g
    <2>5. CASE i = index
      <3>1. r.heap = list_del(SkipFirst(h, a, i), s) /\ s = h.next[FreeList(a, i)]
            /\ e = [at |-> s, pages |-> i + 1]
        BY <2>3, <2>4, <2>5 DEF s, g
      <3>2. Got(lowest, h, r.heap, Unshelve(S, a, i, s), H, lost, a, e)
        BY <2>2, <3>1, WholePool
      <3> QED  BY <2>4, <3>2, GotAcquired
    <2>6. CASE i # index
      <3>1. index < i  BY <1>1, <2>2, <2>6 DEF ListIndex
      <3>2. r.heap = list_del(span_split(SkipFirst(h, a, i), s, i, index), s)
            /\ s = h.next[FreeList(a, i)]
        BY <2>3, <2>6 DEF s, g
      <3>3. \E R : Got(lowest, h, r.heap, R, H, lost, a, e)
        BY <2>2, <2>4, <3>1, <3>2, PartPool
      <3> QED  BY <2>4, <3>3, GotAcquired
    <2> QED  BY <2>5, <2>6
  <1>4. CASE ~HasUncut(h, a, index) /\ fit = {}
    <2> DEFINE g == central_pool_grow(h, a)
               more == lost \cup Left(h, a)
    <2>1. r = Cut(g, a, index) /\ h.segments[a] < MaxSegs
      BY <1>4 DEF acquire_span, CanAcquire
    <2>2. /\ Pool(lowest, g, S, H, more)
          /\ g.hdr = h.hdr /\ g.entry = h.entry /\ g.max_wc = h.max_wc
          /\ g.next = h.next /\ g.prev = h.prev
          /\ g.segments = [h.segments EXCEPT ![a] = @ + 1]
          /\ g.free_start[a] = FreeEnd(h, a) /\ FreeEnd(g, a) = FreeEnd(h, a) + SegPages
          /\ g.free_start = CutTo(h.free_start, a, FreeEnd(h, a))
      BY <2>1, GrowPool
    <2> HIDE DEF g, more
    <2>3. g.free_start[a] + index + 1 <= FreeEnd(g, a)  BY <1>1, <2>2
    <2>4. e = [at |-> SpanAt(a, g.free_start[a]), pages |-> index + 1]  BY <2>1 DEF Cut
    <2>5. r.span = e.at /\ Got(lowest, g, r.heap, S, H, more, a, e)
      BY <2>1, <2>2, <2>3, <2>4, CutPool
    <2>6. r.heap.segments[a] # h.segments[a]  BY SMTT(30), <1>1, <2>2, <2>5 DEF Got
    <2>7. Taken(h, r.heap, H, a, e.at) /\ Outside(lowest, h, r.heap, H)
      <3>1. Taken(g, r.heap, H, a, e.at) /\ Outside(lowest, g, r.heap, H)  BY <2>5 DEF Got
      <3>2. Taken(h, r.heap, H, a, e.at)  BY ONLY SMTT(30), <2>2, <3>1 DEF Taken
      <3> QED  BY ONLY <2>2, <3>1, <3>2 DEF Outside
    <2>8. Retained(h.free_start, lost) \subseteq Retained(r.heap.free_start, more)
      <3>1. CutSpans(h.free_start) \subseteq CutSpans(g.free_start)
        BY <1>1, <2>2, CutMore
      <3>2. CutSpans(g.free_start) \subseteq CutSpans(r.heap.free_start)  BY <2>5 DEF Got
      <3>3. Left(h, a) \cap CutSpans(h.free_start) = {}  BY <1>1, LeftUncut
      <3> QED  BY <3>1, <3>2, <3>3 DEF Retained, more
    <2>9. Pool(lowest, r.heap, S, H \cup {e}, more)
          /\ more = lost \cup (IF r.heap.segments[a] = h.segments[a] THEN {} ELSE Left(h, a))
      BY <2>5, <2>6 DEF Got, more
    <2> QED  BY <2>5, <2>7, <2>8, <2>9 DEF Acquired, Got
  <1> QED  BY <1>2, <1>3, <1>4

-----------------------------------------------------------------------------
\* The wear a cache has put into the header of a held piece.
Worn(h, s, w) == [h EXCEPT !.hdr[s].wear_count = w]

\* The wear of a held span may take any value: the pool does not look at it
\* before the span is back.
LEMMA WornPool ==
  ASSUME NEW lowest \in Int, NEW h, NEW S, NEW H, NEW lost, Pool(lowest, h, S, H, lost),
         NEW e \in H, NEW w \in Nat
  PROVE  LET g == Worn(h, e.at, w)
         IN  /\ Pool(lowest, g, S, H, lost)
             /\ g.hdr[e.at] = [h.hdr[e.at] EXCEPT !.wear_count = w]
             /\ \A x \in Spans : x # e.at => g.hdr[x] = h.hdr[x]
             /\ g.max_wc = h.max_wc /\ g.entry = h.entry /\ g.segments = h.segments
  <1> DEFINE g == Worn(h, e.at, w)
             s == e.at
  <1>1. h \in HeapType(lowest) /\ Shelved(h, S) /\ Mapped(h) /\ S \in Shelves  BY DEF Pool
  <1>2. s \in Spans /\ ~OnShelf(S, s)  BY HeldPiece
  <1> HIDE DEF s
  <1>3. h.hdr \in [Spans -> HeaderType] /\ h.hdr[s] \in HeaderType  BY <1>1, <1>2 DEF HeapType
  <1>4. [h.hdr[s] EXCEPT !.wear_count = w] \in HeaderType  BY <1>3 DEF HeaderType
  <1>5. [h.hdr EXCEPT ![s].wear_count = w] \in [Spans -> HeaderType]  BY <1>3, <1>4
  <1>6. g = [h EXCEPT !.hdr[s].wear_count = w]  BY DEF Worn, s
  <1> HIDE DEF g
  <1>7. /\ g \in HeapType(lowest) /\ g.next = h.next /\ g.prev = h.prev
        /\ g.hdr = [h.hdr EXCEPT ![s].wear_count = w] /\ g.entry = h.entry
        /\ g.span_map = h.span_map /\ g.segments = h.segments /\ g.max_wc = h.max_wc
        /\ g.max_wear_page_index = h.max_wear_page_index /\ g.free_start = h.free_start
    BY <1>1, <1>5, <1>6 DEF HeapType
  <1>8. g.hdr[s] = [h.hdr[s] EXCEPT !.wear_count = w] /\ \A x \in Spans : x # s => g.hdr[x] = h.hdr[x]
    BY <1>2, <1>3, <1>7
  <1>9. \A x : OnShelf(S, x) => g.hdr[x] = h.hdr[x]
    BY <1>1, <1>2, <1>8 DEF OnShelf, Shelves
  <1>10. Shelved(g, S)  BY <1>1, <1>7, <1>9, SameShelved
  <1>11. Mapped(g)  BY <1>1, <1>7, SameMapped
  <1>12. Pool(lowest, g, S, H, lost)  BY <1>7, <1>10, <1>11 DEF Pool
  <1> QED  BY <1>7, <1>8, <1>12 DEF g, s

\* span_init of a held piece.
LEMMA InitedPool ==
  ASSUME NEW lowest \in Int, FreeLists \subseteq Node(lowest),
         NEW h, NEW S, NEW H, NEW lost, Pool(lowest, h, S, H, lost), NEW e \in H,
         NEW index \in 0..LARGE, NEW category \in 0..LARGE, category = LARGE => index < LARGE,
         NEW g, g = span_init(h, e.at, index, category)
  PROVE  /\ Pool(lowest, g, S, H, lost)
         /\ Inited(lowest, h, g, e.at, Initialised(h.hdr[e.at], index, category))
         /\ e.at - 1 \in MapEntries
  <1> DEFINE s == e.at
             v == Initialised(h.hdr[e.at], index, category)
  <1>1. /\ h \in HeapType(lowest) /\ S \in Shelves /\ Shelved(h, S) /\ Mapped(h)
        /\ s \in Spans /\ ~OnShelf(S, s) /\ PageOf(s) < h.segments[AreaOf(s)] * SegPages
    BY HeldPiece DEF Pool
  <1>2. Inited(lowest, h, g, s, v) /\ s - 1 \in MapEntries
    <2> HIDE DEF s
    <2> QED  BY <1>1, SpanInitEffect DEF s
  <1>3. Shelved(g, S) /\ Mapped(g)
    <2> HIDE DEF s
    <2> QED  BY <1>1, SpanInitShelved DEF s
  <1> HIDE DEF v, s
  <1>4. Pool(lowest, g, S, H, lost)  BY <1>2, <1>3 DEF Pool, Inited
  <1> QED  BY <1>2, <1>4 DEF s, v

\* span_back_to_centralpool of a held piece whose header has its page count.
LEMMA ReturnPool ==
  ASSUME NEW lowest \in Int, FreeLists \subseteq Node(lowest),
         NEW h, NEW S, NEW H, NEW lost, Pool(lowest, h, S, H, lost), NEW e \in H,
         e.pages = IF h.hdr[e.at].category # LARGE THEN 1 ELSE h.hdr[e.at].page_num,
         NEW g, g = span_back_to_centralpool(h, e.at)
  PROVE  /\ \E R : Pool(lowest, g, R, H \ {e}, lost)
         /\ CameBack(lowest, h, g, e.at, e.pages) /\ Outside(lowest, h, g, H \ {e})
  <1> DEFINE s == e.at
             n == e.pages
             R == Shelve(S, AreaOf(s), n - 1, s)
  <1>1. /\ h \in HeapType(lowest) /\ S \in Shelves /\ Shelved(h, S) /\ Mapped(h)
        /\ s \in Spans /\ ~OnShelf(S, s) /\ n \in 1..LARGE /\ AreaOf(s) \in Area
        /\ H \cap Shelf(S) = {} /\ Divides(h.free_start, H \cup Shelf(S), lost)
        /\ e = [at |-> s, pages |-> n]
    <2>1. e \in Piece  BY HeldPiece
    <2>2. e = [at |-> e.at, pages |-> e.pages]  BY <2>1 DEF Piece
    <2> QED  BY <2>2, HeldPiece DEF Pool
  <1>2. CameBack(lowest, h, g, s, n) /\ Shelved(g, R) /\ Elsewhere(lowest, h, g, S, s)
    <2>1. n = IF h.hdr[s].category # LARGE THEN 1 ELSE h.hdr[s].page_num  OBVIOUS
    <2>2. g = span_back_to_centralpool(h, s)  OBVIOUS
    <2> HIDE DEF s, n
    <2> QED  BY <1>1, <2>1, <2>2, BackShelved
  <1>3. n - 1 \in 0..LARGE - 1 /\ (n - 1) + 1 = n /\ n - 1 \in ListIndex
    <2> HIDE DEF n
    <2> QED  BY <1>1, Sizes DEF ListIndex
  <1>4. R \in Shelves
    <2> DEFINE a == AreaOf(s)
               i == n - 1
    <2>1. a \in Area /\ i \in ListIndex  BY <1>1, <1>3
    <2>2. R = Shelve(S, a, i, s)  OBVIOUS
    <2> HIDE DEF a, i, R, s
    <2>3. OneList(Shelve(S, a, i, s), S, a, i, S[a][i] \cup {s})  BY <1>1, <2>1, ShelveAt
    <2> QED  BY <2>2, <2>3 DEF OneList
  <1>5. Shelf(R) = Shelf(S) \cup {e}
    <2> DEFINE i == n - 1
    <2>1. i \in 0..LARGE - 1 /\ i + 1 = n  BY <1>3
    <2>2. R = Shelve(S, AreaOf(s), i, s)  OBVIOUS
    <2> HIDE DEF i, R, s, n
    <2>3. Shelf(Shelve(S, AreaOf(s), i, s)) = Shelf(S) \cup {[at |-> s, pages |-> i + 1]}
      BY <1>1, <2>1, ShelfShelve
    <2> QED  BY <1>1, <2>1, <2>2, <2>3
  <1> HIDE DEF R, s, n
  <1>6. Mapped(g)
    <2>1. g.segments = h.segments /\ g.free_start = h.free_start
          /\ g.span_map = h.span_map /\ g.entry = h.entry
      BY <1>2 DEF CameBack
    <2> QED  BY <1>1, <2>1, SameMapped
  <1>7. (H \ {e}) \cap Shelf(R) = {} /\ (H \ {e}) \cup Shelf(R) = H \cup Shelf(S)
    BY <1>1, <1>5
  <1>8. Pool(lowest, g, R, H \ {e}, lost)
    BY <1>1, <1>2, <1>4, <1>6, <1>7 DEF Pool, CameBack
  <1>9. Outside(lowest, h, g, H \ {e})
    <2>1. S \in Shelves  BY <1>1
    <2>2. \A m : OnShelf(S, m) => m \in Spans  BY <2>1 DEF OnShelf, Shelves
    <2>3. \A f \in H \ {e} : f.at # s /\ f.at \in Spans /\ ~OnShelf(S, f.at)
      BY HeldPiece DEF s
    <2>4. \A m \in Spans : m \notin FreeLists
      <3>1. AREA_NUM * AreaPages \in Nat /\ AREA_NUM * LARGE_BLOCK_NUM \in Nat  BY Sizes
      <3> QED  BY <3>1 DEF FreeLists, Spans
    <2> QED  BY <1>1, <1>2, <2>2, <2>3, <2>4 DEF Outside, Elsewhere
  <1> QED  BY <1>2, <1>8, <1>9 DEF s, n

\* Nothing on any free list.
NoneShelved == [a \in Area |-> [i \in ListIndex |-> {}]]

\* After central_pool_init nothing is cut, held or listed.
LEMMA InitPool ==
  ASSUME NEW lowest \in Int, FreeLists \subseteq Node(lowest)
  PROVE  Pool(lowest, HeapInit(lowest), NoneShelved, {}, {})
  <1> DEFINE h == HeapInit(lowest)
             S == NoneShelved
             N == Node(lowest)
             links == [n \in N |-> IF n < 0 THEN n ELSE NULL]
             blank == [bitmap |-> {}, cur_pos |-> 0, free_block_num |-> 0,
                       wear_count |-> 0, category |-> 0, page_num |-> 0]
  <1>1. NULL \in N /\ \A a \in Area, i \in ListIndex : FreeList(a, i) \in N
    BY NodesIn
  <1>2. /\ AREA_NUM \in Nat \ {0} /\ AreaPages \in Nat \ {0} /\ SegPages \in Nat \ {0}
        /\ MaxSegs \in Nat \ {0} /\ LARGE \in Nat /\ LARGE \in ListIndex
    BY Sizes DEF ListIndex
  <1>3. links \in [N -> N]  BY <1>1
  <1>4. [s \in Spans |-> blank] \in [Spans -> HeaderType]
    <2>1. blank \in HeaderType
      <3>1. ASSUME NEW c \in Nat, c <= LARGE
            PROVE  [bitmap |-> {}, cur_pos |-> c, free_block_num |-> c,
                    wear_count |-> c, category |-> c, page_num |-> c] \in HeaderType
        BY <1>2, <3>1 DEF HeaderType
      <3>2. 0 \in Nat /\ 0 <= LARGE  BY <1>2
      <3> QED  BY <3>1, <3>2
    <2> HIDE DEF blank
    <2> QED  BY <2>1
  <1>5. \A a \in Area : [k \in {0} |-> SPAN_MAP_POOL_START(a)] = Tables(a, 1)
    <2>1. TAKE a \in Area
    <2>2. 0..1 - 1 = {0}  OBVIOUS
    <2>3. a * AreaPages \in Int /\ SPAN_MAP_POOL_START(a) = a * AreaPages
      <3>1. a \in Nat  BY DEF Area
      <3> QED  BY <1>2, <3>1 DEF SPAN_MAP_POOL_START
    <2>4. \A k \in {0} : SPAN_MAP_POOL_START(a) + k * SegPages = SPAN_MAP_POOL_START(a)
      BY <1>2, <2>3
    <2>5. Tables(a, 1) = [k \in {0} |-> SPAN_MAP_POOL_START(a) + k * SegPages]
      BY <2>2 DEF Tables
    <2> QED  BY <2>4, <2>5
  <1>6. \A a \in Area : Tables(a, 1) \in UNION {[0..k - 1 -> Int] : k \in Nat}
    <2>1. TAKE a \in Area
    <2>2. 1 \in Nat  OBVIOUS
    <2>3. a \in Nat  BY DEF Area
    <2>4. a * AreaPages \in Int  BY <1>2, <2>3
    <2>5. \A k \in 0..1 - 1 : SPAN_MAP_POOL_START(a) + k * SegPages \in Int
      BY <1>2, <2>4 DEF SPAN_MAP_POOL_START
    <2>6. Tables(a, 1) \in [0..1 - 1 -> Int]  BY <2>5 DEF Tables
    <2> QED  BY <2>2, <2>6
  <1>7. /\ h.next = links /\ h.prev = links /\ h.hdr = [s \in Spans |-> blank]
        /\ h.span_map = [a \in Area |-> [k \in {0} |-> SPAN_MAP_POOL_START(a)]]
        /\ h.entry = [e \in MapEntries |-> NULL] /\ h.free_start = [a \in Area |-> 0]
        /\ h.segments = [a \in Area |-> 1] /\ h.max_wc = [a \in Area |-> 0]
        /\ h.max_wear_page_index = [a \in Area |-> [i \in ListIndex |-> NULL]]
    BY DEF HeapInit, Node
  <1> HIDE DEF links, blank
  <1>8. h \in HeapType(lowest)
    <2>1. h.span_map \in [Area -> UNION {[0..k - 1 -> Int] : k \in Nat}]
      <3> DEFINE T == UNION {[0..k - 1 -> Int] : k \in Nat}
                 m(a) == [k \in {0} |-> SPAN_MAP_POOL_START(a)]
      <3>1. h.span_map = [a \in Area |-> m(a)]  BY <1>7
      <3>2. \A a \in Area : m(a) \in T
        <4>1. TAKE a \in Area
        <4>2. m(a) = Tables(a, 1) /\ Tables(a, 1) \in T  BY <1>5, <1>6
        <4> HIDE DEF m, T
        <4> QED  BY <4>2
      <3> HIDE DEF m, T, h
      <3>3. h.span_map \in [Area -> T]  BY <3>1, <3>2
      <3> QED  BY <3>3 DEF T
    <2>2. h = [next |-> h.next, prev |-> h.prev, hdr |-> h.hdr, span_map |-> h.span_map,
               entry |-> h.entry, free_start |-> h.free_start, segments |-> h.segments,
               max_wc |-> h.max_wc, max_wear_page_index |-> h.max_wear_page_index]
      BY DEF HeapInit
    <2> HIDE DEF h
    <2>3. /\ h.next \in [N -> N] /\ h.prev \in [N -> N] /\ h.hdr \in [Spans -> HeaderType]
          /\ h.entry \in [MapEntries -> Spans \cup {NULL}]
          /\ h.free_start \in [Area -> Nat] /\ h.segments \in [Area -> Nat]
          /\ h.max_wc \in [Area -> Nat]
          /\ h.max_wear_page_index \in [Area -> [ListIndex -> Spans \cup {NULL}]]
      BY <1>3, <1>4, <1>7
    <2> QED  BY <2>1, <2>2, <2>3 DEF HeapType
  <1> HIDE DEF h
  <1>9. S \in Shelves /\ \A a \in Area, i \in ListIndex : S[a][i] = {}
    BY DEF Shelves, NoneShelved
  <1> HIDE DEF S
  <1>10. Shelved(h, S)
    <2>1. ASSUME NEW a \in Area, NEW i \in ListIndex
          PROVE  Ring(h, FreeList(a, i), {})
      <3> DEFINE p == FreeList(a, i)
      <3>1. p \in N /\ p < 0
        <4>1. p \in FreeLists  BY FreeListHead
        <4>2. AREA_NUM * LARGE_BLOCK_NUM \in Nat  BY Sizes
        <4> HIDE DEF p
        <4> QED  BY <1>1, <4>1, <4>2 DEF FreeLists, p
      <3> HIDE DEF p
      <3>2. h.next[p] = p /\ h.prev[p] = p  BY <1>7, <3>1 DEF links
      <3>3. \A T \in SUBSET ({} \cup {p}) : p \in T => T = {} \cup {p}  OBVIOUS
      <3>4. Ring(h, p, {})  BY <3>2, <3>3 DEF Ring, Linked
      <3> QED  BY <3>4 DEF p
    <2>2. h.next[NULL] = NULL /\ h.prev[NULL] = NULL
      <3>1. ~(NULL < 0)  BY DEF NULL
      <3> QED  BY <1>1, <1>7, <3>1 DEF links
    <2>3. \A a \in Area, i \in ListIndex : h.max_wear_page_index[a][i] = NULL  BY <1>7
    <2> QED  BY <1>2, <1>9, <2>1, <2>2, <2>3 DEF Shelved
  <1>11. Mapped(h)
    <2>1. \A a \in Area : h.segments[a] = 1 /\ h.free_start[a] = 0 /\ h.span_map[a] = Tables(a, 1)
      BY <1>5, <1>7
    <2>2. 1 \in 1..MaxSegs /\ 0 \in (1 - 1) * SegPages..1 * SegPages  BY <1>2
    <2>3. \A e \in MapEntries : h.entry[e] = NULL  BY <1>7
    <2> QED  BY <2>1, <2>2, <2>3 DEF Mapped
  <1>12. Shelf(S) = {}
    <2>1. SUFFICES ASSUME NEW e \in Shelf(S)  PROVE FALSE  OBVIOUS
    <2>2. e.at \in Spans /\ e.pages \in 1..LARGE /\ e.at \in S[AreaOf(e.at)][e.pages - 1]
      BY <2>1 DEF Shelf, Piece
    <2>3. AreaOf(e.at) \in Area /\ e.pages - 1 \in ListIndex
      BY <2>2, PageOfSpan, Sizes DEF ListIndex
    <2> QED  BY <1>9, <2>2, <2>3
  <1>13. CutSpans(h.free_start) = {}
    <2>1. SUFFICES ASSUME NEW s \in CutSpans(h.free_start)  PROVE FALSE  OBVIOUS
    <2>2. s \in Spans /\ PageOf(s) < h.free_start[AreaOf(s)]  BY <2>1 DEF CutSpans
    <2>3. AreaOf(s) \in Area /\ PageOf(s) \in 0..AreaPages - 1  BY <2>2, PageOfSpan
    <2>4. PageOf(s) < 0  BY <1>7, <2>2, <2>3
    <2> QED  BY <1>2, <2>3, <2>4
  <1>14. Divides(h.free_start, {} \cup Shelf(S), {})  BY <1>12, <1>13 DEF Divides
  <1> QED  BY <1>8, <1>9, <1>10, <1>11, <1>14 DEF Pool, h, S
=============================================================================
