-------------------------- MODULE AlgorithmsProofs --------------------------
(***************************************************************************)
(* The order of the areas, for any limits and any wear of the areas; the    *)
(* queue of worn chunks, for any number of chunks and any wear; the scan of *)
(* a bitmap for its lowest free block, for any bitmap; and the size         *)
(* classes, for any size.                                                   *)
(***************************************************************************)
EXTENDS MCAlgorithms, Sequences, NatFacts

-----------------------------------------------------------------------------
(* The order of the areas *)

Areas == 1..4

\* The area at place i is not above the one at place j.
NotAbove(a, b) == ~ Select!Above(a, b)
InOrder(i, j)  == NotAbove(nvm[i], nvm[j])

\* What the comparisons made so far have reached: the last of the first two,
\* three and four places, then the next to last, then the order of all.
SortedSoFar ==
  /\ compared = 1 => InOrder(1, 2)
  /\ compared = 2 => InOrder(1, 3) /\ InOrder(2, 3)
  /\ compared = 3 => \A i \in 1..3 : InOrder(i, 4)
  /\ compared = 4 => (\A i \in 1..3 : InOrder(i, 4)) /\ InOrder(1, 2)
  /\ compared = 5 => (\A i \in 1..3 : InOrder(i, 4)) /\ InOrder(1, 3) /\ InOrder(2, 3)
  /\ compared = 6 => \A i, j \in Areas : i < j => InOrder(i, j)

\* Every area is at a place of the list.
AllListed == \A a \in Areas : \E i \in Areas : nvm[i] = a

SelectInv ==
  /\ worn \in [Areas -> Nat]
  /\ nvm \in [Areas -> Areas]
  /\ AllListed
  /\ compared \in 0..6
  /\ undisturbed \in BOOLEAN
  /\ undisturbed => SortedSoFar

\* Priorities are compared by cross multiplication.  With positive limits the
\* comparison is a total order, also of areas without wear.
LEMMA PriorityOrder ==
  ASSUME worn \in [Areas -> Nat]
  PROVE  /\ \A a, b \in Areas : NotAbove(a, b) \/ NotAbove(b, a)
         /\ \A a, b, c \in Areas : NotAbove(a, b) /\ NotAbove(b, c) => NotAbove(a, c)
  <1>1. \A a \in Areas : memory_wear_limit[a] \in Nat /\ memory_wear_limit[a] > 0 /\ worn[a] \in Nat
    BY AlgorithmsAssumption DEF Areas
  <1>2. \A a, b \in Areas :
          NotAbove(a, b) <=> memory_wear_limit[a] * worn[b] <= memory_wear_limit[b] * worn[a]
    <2>1. TAKE a, b \in Areas
    <2>2. \A x, y \in Nat : x * y \in Nat  OBVIOUS
    <2>3. memory_wear_limit[a] * worn[b] \in Nat /\ memory_wear_limit[b] * worn[a] \in Nat
      BY <1>1, <2>2
    <2> QED  BY <2>3 DEF NotAbove, Select!Above
  <1>3. ASSUME NEW l \in Nat, NEW m \in Nat, NEW n \in Nat, NEW x \in Nat, NEW y \in Nat, NEW z \in Nat,
               l > 0, m > 0, n > 0, l * y <= m * x, m * z <= n * y
        PROVE  l * z <= n * x
    <2>1. l * z \in Nat /\ n * x \in Nat /\ m * z \in Nat /\ n * y \in Nat /\ l * y \in Nat /\ m * x \in Nat
      OBVIOUS
    <2>2. \A p, q, k \in Nat : p <= q => k * p <= k * q  OBVIOUS
    <2>3. l * (m * z) <= l * (n * y) /\ n * (l * y) <= n * (m * x)  BY <1>3, <2>1, <2>2
    <2>4. l * (m * z) = m * (l * z) /\ n * (m * x) = m * (n * x) /\ l * (n * y) = n * (l * y)
      OBVIOUS
    <2>5. m * (l * z) <= m * (n * x)  BY <2>1, <2>3, <2>4
    <2>6. \A p, q \in Nat : p > q => m * p > m * q  BY <1>3
    <2> QED  BY <2>1, <2>5, <2>6
  <1>4. \A a, b \in Areas : NotAbove(a, b) \/ NotAbove(b, a)
    <2>1. TAKE a, b \in Areas
    <2>2. \A x, y \in Nat : x * y \in Nat  OBVIOUS
    <2> QED  BY <1>1, <1>2, <2>2
  <1>5. \A a, b, c \in Areas : NotAbove(a, b) /\ NotAbove(b, c) => NotAbove(a, c)
    BY <1>1, <1>2, <1>3
  <1> QED  BY <1>4, <1>5

\* A comparison brings the sort one step on.
LEMMA CompareSorts ==
  ASSUME SelectInv, Select!Compare
  PROVE  SelectInv'
  <1>1. /\ worn \in [Areas -> Nat] /\ nvm \in [Areas -> Areas] /\ compared \in 0..5
        /\ undisturbed \in BOOLEAN /\ worn' = worn /\ undisturbed' = undisturbed
        /\ compared' = compared + 1
    BY DEF SelectInv, Select!Compare
  <1>2. \A a, b \in Areas : NotAbove(a, b)' <=> NotAbove(a, b)
    BY <1>1 DEF NotAbove, Select!Above
  <1>3. /\ \A a, b \in Areas : NotAbove(a, b) \/ NotAbove(b, a)
        /\ \A a, b, c \in Areas : NotAbove(a, b) /\ NotAbove(b, c) => NotAbove(a, c)
    BY <1>1, PriorityOrder
  <1> DEFINE i == Select!Exchange[compared + 1]
  <1>4. i = CASE compared = 0 -> 1 [] compared = 1 -> 2 [] compared = 2 -> 3
              [] compared = 3 -> 1 [] compared = 4 -> 2 [] compared = 5 -> 1
    BY <1>1 DEF Select!Exchange
  <1>5. i \in 1..3  BY <1>1, <1>4
  <1>6. IF NotAbove(nvm[i], nvm[i + 1]) THEN nvm' = nvm
        ELSE nvm' = [nvm EXCEPT ![i] = nvm[i + 1], ![i + 1] = nvm[i]]
    BY DEF Select!Compare, NotAbove
  <1> HIDE DEF i
  <1>7. /\ nvm' \in [Areas -> Areas]
        /\ NotAbove(nvm'[i], nvm'[i + 1])
        /\ \/ nvm' = nvm
           \/ /\ nvm'[i] = nvm[i + 1] /\ nvm'[i + 1] = nvm[i]
              /\ \A j \in Areas : j # i /\ j # i + 1 => nvm'[j] = nvm[j]
    <2>1. nvm[i] \in Areas /\ nvm[i + 1] \in Areas /\ i \in Areas /\ i + 1 \in Areas
      BY <1>1, <1>5 DEF Areas
    <2> QED  BY <1>1, <1>3, <1>5, <1>6, <2>1
  <1>8. \A j, k \in Areas : InOrder(j, k)' <=> NotAbove(nvm'[j], nvm'[k])
    BY <1>2, <1>7, <1>1 DEF InOrder, NotAbove, Select!Above
  <1>9. ASSUME undisturbed, NEW n \in 0..5, compared = n
        PROVE  SortedSoFar'
    <2>1. SortedSoFar  BY <1>9 DEF SelectInv
    <2>2. 1 \in Areas /\ 2 \in Areas /\ 3 \in Areas /\ 4 \in Areas /\ Areas = {1, 2, 3, 4} /\ 1..3 = {1, 2, 3}
      BY DEF Areas
    <2>3. /\ nvm[1] \in Areas /\ nvm[2] \in Areas /\ nvm[3] \in Areas /\ nvm[4] \in Areas
      BY <1>1, <2>2
    <2>4. CASE n = 0
      BY <1>1, <1>3, <1>4, <1>7, <1>8, <1>9, <2>1, <2>2, <2>3, <2>4 DEF SortedSoFar, InOrder
    <2>5. CASE n = 1
      BY <1>1, <1>3, <1>4, <1>7, <1>8, <1>9, <2>1, <2>2, <2>3, <2>5 DEF SortedSoFar, InOrder
    <2>6. CASE n = 2
      BY <1>1, <1>3, <1>4, <1>7, <1>8, <1>9, <2>1, <2>2, <2>3, <2>6 DEF SortedSoFar, InOrder
    <2>7. CASE n = 3
      BY <1>1, <1>3, <1>4, <1>7, <1>8, <1>9, <2>1, <2>2, <2>3, <2>7 DEF SortedSoFar, InOrder
    <2>8. CASE n = 4
      BY <1>1, <1>3, <1>4, <1>7, <1>8, <1>9, <2>1, <2>2, <2>3, <2>8 DEF SortedSoFar, InOrder
    <2>9. CASE n = 5
      BY <1>1, <1>3, <1>4, <1>7, <1>8, <1>9, <2>1, <2>2, <2>3, <2>9 DEF SortedSoFar, InOrder
    <2> QED  BY <1>9, <2>4, <2>5, <2>6, <2>7, <2>8, <2>9
  <1>10. AllListed'
    <2> SUFFICES ASSUME NEW a \in Areas  PROVE \E j \in Areas : nvm'[j] = a
      BY DEF AllListed
    <2>1. PICK j \in Areas : nvm[j] = a  BY DEF SelectInv, AllListed
    <2>2. i \in Areas /\ i + 1 \in Areas  BY <1>5 DEF Areas
    <2> QED  BY <1>7, <2>1, <2>2
  <1> QED  BY <1>1, <1>7, <1>9, <1>10 DEF SelectInv

\* Another thread that changes a priority disturbs the sort; one that does not
\* leaves it as it is.
LEMMA RecalculateKeeps ==
  ASSUME SelectInv, NEW a \in Areas, Select!Recalculate(a)
  PROVE  SelectInv'
  <1>1. PICK w \in (IF a \in recalculated THEN worn[a] ELSE 0)..MaxWear :
          /\ worn' = [worn EXCEPT ![a] = w]
          /\ undisturbed' = (undisturbed /\ w = worn[a])
    BY DEF Select!Recalculate
  <1>2. /\ worn \in [Areas -> Nat] /\ nvm \in [Areas -> Areas] /\ compared \in 0..6
        /\ nvm' = nvm /\ compared' = compared
    BY DEF SelectInv, Select!Recalculate
  <1>3. w \in Nat  BY <1>1, <1>2, AlgorithmsAssumption
  <1>4. worn' \in [Areas -> Nat]  BY <1>1, <1>2, <1>3
  <1>5. undisturbed' \in BOOLEAN  BY <1>1
  <1>6. ASSUME undisturbed'  PROVE SortedSoFar'
    <2>1. undisturbed /\ w = worn[a]  BY <1>1, <1>6
    <2>2. worn' = worn  BY <1>1, <1>2, <2>1
    <2>3. SortedSoFar  BY <2>1 DEF SelectInv
    <2> QED  BY <1>2, <2>2, <2>3 DEF SortedSoFar, InOrder, NotAbove, Select!Above
  <1>7. AllListed'  BY <1>2 DEF SelectInv, AllListed
  <1> QED  BY <1>2, <1>4, <1>5, <1>6, <1>7 DEF SelectInv
-----------------------------------------------------------------------------
(* The queue of worn chunks *)

\* The entries of heap h are the chunks of Q, each once.
Filed(h, Q) ==
  /\ h \in Seq(Chunk)
  /\ \A i, j \in 1..Len(h) : h[i] = h[j] => i = j
  /\ Q = {h[i] : i \in 1..Len(h)}

\* No entry beats its parent; h but for the entry at k, whose parent yet does
\* not beat its children; h but for the children of k, with the same proviso.
Yields(h, w, i, j) == w[h[i]] <= w[h[j]]
Ordered(h, w)      == \A i \in 2..Len(h) : Yields(h, w, i \div 2, i)
Bridged(h, w, k)   == \A i \in 2..Len(h) : i \div 2 = k /\ k > 1 => Yields(h, w, k \div 2, i)
OrderedBut(h, w, k)   == Bridged(h, w, k) /\ \A i \in 2..Len(h) : i # k => Yields(h, w, i \div 2, i)
OrderedAbove(h, w, k) == Bridged(h, w, k) /\ \A i \in 2..Len(h) : i \div 2 # k => Yields(h, w, i \div 2, i)

QueueInv ==
  /\ wear_tot \in [Chunk -> Nat]
  /\ pq \in [heap : Seq(Chunk), size : Nat]
  /\ Filed(pq.heap, queued)
  /\ Ordered(pq.heap, wear_tot)
  /\ Len(pq.heap) < pq.size

\* Half of a place is a place before it.
LEMMA Halves ==
  ASSUME NEW i \in Nat
  PROVE  /\ i \div 2 \in Nat /\ (i >= 2 => i \div 2 >= 1 /\ i \div 2 < i)
         /\ 2 * (i \div 2) <= i /\ i <= 2 * (i \div 2) + 1
  OBVIOUS

\* Heap g is h with the entries at i and j swapped.
Exchanged(g, h, i, j) ==
  /\ Len(g) = Len(h) /\ g[i] = h[j] /\ g[j] = h[i]
  /\ \A k \in 1..Len(h) : k # i /\ k # j => g[k] = h[k]

\* An exchange swaps two entries, and the heap holds what it held.
LEMMA ExchFiled ==
  ASSUME NEW h, NEW Q, Filed(h, Q), NEW i \in 1..Len(h), NEW j \in 1..Len(h)
  PROVE  Filed(Queue!exch(h, i, j), Q) /\ Exchanged(Queue!exch(h, i, j), h, i, j)
  <1> DEFINE g == Queue!exch(h, i, j)
  <1>1. h \in Seq(Chunk) /\ Len(h) \in Nat /\ h \in [1..Len(h) -> Chunk]  BY DEF Filed
  <1>2. g = [h EXCEPT ![i] = h[j], ![j] = h[i]]  BY DEF Queue!exch
  <1>3. g \in [1..Len(h) -> Chunk]  BY <1>1, <1>2
  <1>4. g \in Seq(Chunk) /\ Len(g) = Len(h)  BY <1>1, <1>3
  <1>5. /\ g[i] = h[j] /\ g[j] = h[i]
        /\ \A k \in 1..Len(h) : k # i /\ k # j => g[k] = h[k]
    BY <1>1, <1>2
  <1> HIDE DEF g
  <1>6. \A a, b \in 1..Len(g) : g[a] = g[b] => a = b
    <2>1. \A a, b \in 1..Len(h) : h[a] = h[b] => a = b  BY DEF Filed
    <2> QED  BY <1>4, <1>5, <2>1
  <1>7. Q = {g[k] : k \in 1..Len(g)}
    <2>1. Q = {h[k] : k \in 1..Len(h)}  BY DEF Filed
    <2>2. \A k \in 1..Len(h) : \E l \in 1..Len(h) : h[k] = g[l]
      <3>1. TAKE k \in 1..Len(h)
      <3> QED  BY <1>5
    <2>3. \A k \in 1..Len(h) : \E l \in 1..Len(h) : g[k] = h[l]
      <3>1. TAKE k \in 1..Len(h)
      <3> QED  BY <1>5
    <2>4. ASSUME NEW x \in Q  PROVE x \in {g[k] : k \in 1..Len(g)}
      <3>1. PICK k \in 1..Len(h) : x = h[k]  BY <2>1
      <3>2. PICK l \in 1..Len(h) : h[k] = g[l]  BY <2>2
      <3> QED  BY <1>4, <3>1, <3>2
    <2>5. {g[k] : k \in 1..Len(g)} \subseteq Q  BY <1>4, <2>1, <2>3
    <2> QED  BY <2>4, <2>5
  <1>8. Filed(g, Q) /\ Exchanged(g, h, i, j)  BY <1>4, <1>5, <1>6, <1>7 DEF Filed, Exchanged
  <1> QED  BY <1>8 DEF g

\* An entry that beats its parent and takes its place leaves the heap in
\* order but for that place.
LEMMA RiseOrdered ==
  ASSUME NEW w \in [Chunk -> Nat], NEW h, NEW Q, Filed(h, Q), NEW k \in 2..Len(h),
         OrderedBut(h, w, k), w[h[k]] < w[h[k \div 2]]
  PROVE  OrderedBut(Queue!exch(h, k, k \div 2), w, k \div 2)
  <1> DEFINE p == k \div 2
             g == Queue!exch(h, k, p)
             n == Len(h)
  <1>1. n \in Nat /\ \A i \in 1..n : h[i] \in Chunk /\ w[h[i]] \in Nat  BY DEF Filed
  <1>2. p \in 1..n /\ p < k /\ k \in 1..n  BY <1>1, Halves
  <1>3. /\ Len(g) = n /\ g[k] = h[p] /\ g[p] = h[k]
        /\ \A i \in 1..n : i # k /\ i # p => g[i] = h[i]
    <2>1. Exchanged(g, h, k, p)  BY <1>2, ExchFiled
    <2> HIDE DEF g
    <2> QED  BY <2>1 DEF Exchanged
  <1>4. \A i \in 2..n : i \in 1..n /\ i \div 2 \in 1..n /\ i \div 2 < i
    BY <1>1, Halves
  <1>5. /\ \A i \in 2..n : i # k => w[h[i \div 2]] <= w[h[i]]
        /\ \A i \in 2..n : i \div 2 = k /\ k > 1 => w[h[p]] <= w[h[i]]
    BY DEF OrderedBut, Bridged, Yields
  <1>6. w[h[k]] < w[h[p]]  OBVIOUS
  <1> HIDE DEF g
  <1>7. \A i \in 2..n : i # p => w[g[i \div 2]] <= w[g[i]]
    <2> SUFFICES ASSUME NEW i \in 2..n, i # p  PROVE w[g[i \div 2]] <= w[g[i]]
      OBVIOUS
    <2>1. i \in 1..n /\ i \div 2 \in 1..n /\ i \div 2 < i  BY <1>4
    <2>2. k \div 2 = p  OBVIOUS
    <2> HIDE DEF p, n
    <2>3. CASE i = k  BY <1>1, <1>2, <1>3, <1>6, <2>2, <2>3
    <2>4. CASE i \div 2 = k
      <3>1. w[h[p]] <= w[h[i]]  BY <1>2, <1>5, <2>4
      <3>2. g[i] = h[i] /\ g[k] = h[p]  BY <1>2, <1>3, <2>1, <2>4
      <3> QED  BY <2>4, <3>1, <3>2
    <2>5. CASE i \div 2 = p /\ i # k
      <3>1. w[h[p]] <= w[h[i]]  BY <1>5, <2>5
      <3>2. g[i] = h[i] /\ g[p] = h[k]  BY <1>2, <1>3, <2>1, <2>5
      <3>3. w[h[p]] \in Nat /\ w[h[k]] \in Nat /\ w[h[i]] \in Nat  BY <1>1, <1>2, <2>1
      <3> QED  BY SMTT(30), <1>6, <2>5, <3>1, <3>2, <3>3
    <2>6. CASE i # k /\ i \div 2 # k /\ i \div 2 # p  BY <1>3, <1>5, <2>1, <2>6
    <2> QED  BY <2>3, <2>4, <2>5, <2>6
  <1>8. \A i \in 2..n : i \div 2 = p /\ p > 1 => w[g[p \div 2]] <= w[g[i]]
    <2> SUFFICES ASSUME NEW i \in 2..n, i \div 2 = p, p > 1  PROVE w[g[p \div 2]] <= w[g[i]]
      OBVIOUS
    <2>1. i \in 1..n /\ p \in 2..n /\ p # k /\ i # p /\ p \div 2 \in 1..n /\ p \div 2 < p
      BY <1>2, <1>4
    <2>2. w[h[p \div 2]] <= w[h[p]]  BY <1>5, <2>1
    <2>3. g[p \div 2] = h[p \div 2]  BY <1>2, <1>3, <2>1
    <2>4. CASE i = k  BY <1>3, <2>2, <2>3, <2>4
    <2>5. CASE i # k
      <3>1. w[h[p]] <= w[h[i]]  BY <1>5, <2>5
      <3>2. g[i] = h[i]  BY <1>3, <2>1, <2>5
      <3> HIDE DEF p
      <3>3. w[h[p \div 2]] \in Nat /\ w[h[p]] \in Nat /\ w[h[i]] \in Nat  BY <1>1, <1>2, <2>1
      <3>4. w[h[p \div 2]] <= w[h[i]]  BY ONLY SMTT(30), <2>2, <3>1, <3>3
      <3> QED  BY ONLY <2>3, <3>2, <3>4
    <2> QED  BY <2>4, <2>5
  <1> QED  BY <1>3, <1>7, <1>8 DEF OrderedBut, Bridged, Yields, g
\* An entry whose first child beats it and takes its place leaves the heap in
\* order but for the place of that child.
LEMMA FallOrdered ==
  ASSUME NEW h, NEW Q, Filed(h, Q), wear_tot \in [Chunk -> Nat],
         NEW k \in 1..Len(h), 2 * k <= Len(h), OrderedAbove(h, wear_tot, k),
         wear_tot[h[Queue!Child(h, k)]] < wear_tot[h[k]]
  PROVE  /\ Queue!Child(h, k) \in k + 1..Len(h)
         /\ OrderedAbove(Queue!exch(h, k, Queue!Child(h, k)), wear_tot, Queue!Child(h, k))
  <1> DEFINE c == Queue!Child(h, k)
             w == wear_tot
             g == Queue!exch(h, k, c)
             n == Len(h)
  <1>1. n \in Nat /\ \A i \in 1..n : h[i] \in Chunk /\ w[h[i]] \in Nat  BY DEF Filed
  <1>2. c \in {2 * k, 2 * k + 1} /\ c \in k + 1..n /\ c \div 2 = k
    <2>1. c \in {2 * k, 2 * k + 1} /\ c <= n  BY <1>1 DEF Queue!Child
    <2> HIDE DEF c
    <2>2. k \in Nat /\ k >= 1  BY <1>1
    <2> QED  BY <1>1, <2>1, <2>2
  <1>3. \A i \in 2..n : i \div 2 = k => w[h[c]] <= w[h[i]]
    <2>1. TAKE i \in 2..n
    <2>2. HAVE i \div 2 = k
    <2>3. i \in {2 * k, 2 * k + 1}  BY <2>2
    <2>4. w[h[2 * k]] \in Nat /\ w[h[i]] \in Nat /\ (2 * k + 1 <= n => w[h[2 * k + 1]] \in Nat)
      BY <1>1
    <2> QED  BY <1>1, <2>3, <2>4 DEF Queue!Child, Queue!chunk_comp
  <1>4. /\ Len(g) = n /\ g[k] = h[c] /\ g[c] = h[k]
        /\ \A i \in 1..n : i # k /\ i # c => g[i] = h[i]
    <2>1. c \in 1..n  BY <1>1, <1>2
    <2> HIDE DEF c
    <2>2. Exchanged(g, h, k, c)  BY <2>1, ExchFiled
    <2> HIDE DEF g
    <2> QED  BY <2>2 DEF Exchanged
  <1>5. \A i \in 2..n : i \in 1..n /\ i \div 2 \in 1..n /\ i \div 2 < i
    BY <1>1, Halves
  <1>6. /\ \A i \in 2..n : i \div 2 # k => w[h[i \div 2]] <= w[h[i]]
        /\ \A i \in 2..n : i \div 2 = k /\ k > 1 => w[h[k \div 2]] <= w[h[i]]
    BY DEF OrderedAbove, Bridged, Yields
  <1>7. w[h[c]] < w[h[k]]  OBVIOUS
  <1> HIDE DEF g, c
  <1>8. ASSUME NEW i \in 2..n, i \div 2 # c  PROVE w[g[i \div 2]] <= w[g[i]]
    <2>1. i \in 1..n /\ i \div 2 \in 1..n /\ i \div 2 < i  BY <1>5
    <2>2. k \in 1..n /\ c \in 1..n /\ k < c  BY <1>1, <1>2
    <2> HIDE DEF n
    <2>3. CASE i = c  BY SMTT(30), <1>1, <1>2, <1>4, <1>7, <2>2, <2>3
    <2>4. CASE i \div 2 = k /\ i # c
      <3>1. g[i] = h[i]  BY <1>4, <2>1, <2>4
      <3> QED  BY <1>3, <1>4, <2>4, <3>1
    <2>5. CASE i = k
      <3>1. c \in 2..n /\ k > 1  BY <1>1, <1>2, <2>2, <2>5
      <3>2. w[h[k \div 2]] <= w[h[c]]  BY <1>2, <1>6, <3>1
      <3>3. g[k \div 2] = h[k \div 2]  BY <1>4, <1>8, <2>1, <2>5
      <3> QED  BY <1>4, <2>5, <3>2, <3>3
    <2>6. CASE i # c /\ i # k /\ i \div 2 # k  BY <1>4, <1>6, <1>8, <2>1, <2>6
    <2> QED  BY <2>3, <2>4, <2>5, <2>6
  <1>9. ASSUME NEW i \in 2..n, i \div 2 = c, c > 1  PROVE w[g[c \div 2]] <= w[g[i]]
    <2>1. i \in 1..n /\ i # c /\ i # k /\ c # k
      <3>1. i \in 1..n /\ c < i  BY <1>5, <1>9
      <3>2. k < c /\ c \in Nat /\ k \in Nat  BY <1>1, <1>2
      <3> QED  BY <1>1, <3>1, <3>2
    <2>2. g[i] = h[i]  BY <1>4, <2>1
    <2>3. w[h[c]] <= w[h[i]]  BY <1>6, <1>9, <2>1
    <2> QED  BY <1>2, <1>4, <2>2, <2>3
  <1> QED  BY <1>2, <1>4, <1>8, <1>9 DEF OrderedAbove, Bridged, Yields, g, c

\* Order but for the entry at k, and its parent not above it, is order.
LEMMA RisenOrdered ==
  ASSUME NEW w \in [Chunk -> Nat], NEW h, NEW Q, Filed(h, Q), NEW k \in 1..Len(h),
         OrderedBut(h, w, k), ~ (k > 1 /\ w[h[k]] < w[h[k \div 2]])
  PROVE  Ordered(h, w)
  <1>1. \A i \in 2..Len(h) : w[h[i]] \in Nat /\ w[h[i \div 2]] \in Nat
    <2>1. TAKE i \in 2..Len(h)
    <2>2. Len(h) \in Nat /\ \A j \in 1..Len(h) : h[j] \in Chunk  BY DEF Filed
    <2>3. i \in 1..Len(h) /\ i \div 2 \in 1..Len(h)  BY <2>2, Halves
    <2> QED  BY <2>2, <2>3
  <1> QED  BY SMTT(30), <1>1 DEF OrderedBut, Ordered, Yields

\* Order but for the children of k, and none of them above it, is order.
LEMMA FallenOrdered ==
  ASSUME NEW h, NEW Q, Filed(h, Q), wear_tot \in [Chunk -> Nat],
         NEW k \in 1..Len(h), OrderedAbove(h, wear_tot, k),
         ~ (2 * k <= Len(h) /\ Queue!chunk_comp(h[Queue!Child(h, k)], h[k]))
  PROVE  Ordered(h, wear_tot)
  <1>1. Len(h) \in Nat /\ \A j \in 1..Len(h) : h[j] \in Chunk /\ wear_tot[h[j]] \in Nat
    BY DEF Filed
  <1>2. ASSUME NEW i \in 2..Len(h), i \div 2 = k  PROVE wear_tot[h[k]] <= wear_tot[h[i]]
    <2>1. i \in {2 * k, 2 * k + 1} /\ 2 * k <= Len(h) /\ 2 * k \in 1..Len(h) /\ i \in 1..Len(h)
      BY <1>1, <1>2
    <2>2. ~ (wear_tot[h[Queue!Child(h, k)]] < wear_tot[h[k]])  BY <2>1 DEF Queue!chunk_comp
    <2>3. /\ wear_tot[h[2 * k]] \in Nat /\ wear_tot[h[i]] \in Nat /\ wear_tot[h[k]] \in Nat
          /\ 2 * k + 1 <= Len(h) => wear_tot[h[2 * k + 1]] \in Nat
      BY <1>1, <2>1
    <2> QED  BY <1>1, <2>1, <2>2, <2>3 DEF Queue!Child, Queue!chunk_comp
  <1> QED  BY <1>1, <1>2 DEF OrderedAbove, Ordered, Yields
-----------------------------------------------------------------------------
\* What swim and sink work on: a heap of the chunks of Q, and a place in it
\* from which on it may be out of order.
Places(Q)     == {p \in [heap : Seq(Chunk), at : Nat] : p.at \in 1..Len(p.heap) /\ Filed(p.heap, Q)}
Rising(Q, w)  == {p \in Places(Q) : OrderedBut(p.heap, w, p.at)}
Sinking(Q, n) == {p \in Places(Q) : Len(p.heap) = n /\ OrderedAbove(p.heap, wear_tot, p.at)}

Rises(p, w) == p.at > 1 /\ w[p.heap[p.at]] < w[p.heap[p.at \div 2]]
Risen(p, w) ==
  IF Rises(p, w) THEN [heap |-> Queue!exch(p.heap, p.at, p.at \div 2), at |-> p.at \div 2] ELSE p
Sinks(p, n) ==
  2 * p.at <= n /\ Queue!chunk_comp(p.heap[Queue!Child(p.heap, p.at)], p.heap[p.at])
Sunk(p, n) ==
  IF Sinks(p, n) THEN [heap |-> Queue!exch(p.heap, p.at, Queue!Child(p.heap, p.at)),
                    at   |-> Queue!Child(p.heap, p.at)] ELSE p

\* A step of swim halves the place and loses no chunk.
LEMMA RisenRising ==
  ASSUME NEW w \in [Chunk -> Nat], NEW Q, NEW p \in Rising(Q, w)
  PROVE  /\ Risen(p, w) \in Rising(Q, w)
         /\ Rises(p, w) => Risen(p, w).at < p.at
  <1>1. /\ p.heap \in Seq(Chunk) /\ p.at \in 1..Len(p.heap) /\ Filed(p.heap, Q)
        /\ OrderedBut(p.heap, w, p.at) /\ p.at \in Nat /\ Len(p.heap) \in Nat
    BY DEF Rising, Places
  <1>2. CASE ~ Rises(p, w)  BY <1>2 DEF Risen
  <1>3. CASE Rises(p, w)
    <2> DEFINE g == Queue!exch(p.heap, p.at, p.at \div 2)
               m == p.at \div 2
    <2>1. p.at \in 2..Len(p.heap) /\ w[p.heap[p.at]] < w[p.heap[p.at \div 2]]
      BY <1>1, <1>3 DEF Rises
    <2>2. m \in 1..Len(p.heap) /\ m < p.at /\ m \in Nat  BY SMTT(30), <1>1, <2>1, Halves
    <2>3. OrderedBut(g, w, m)  BY <1>1, <2>1, RiseOrdered
    <2>4. Filed(g, Q) /\ Len(g) = Len(p.heap)
      <3>1. Filed(g, Q) /\ Exchanged(g, p.heap, p.at, m)  BY <1>1, <2>2, ExchFiled
      <3> QED  BY <3>1 DEF Exchanged
    <2>5. Risen(p, w) = [heap |-> g, at |-> m]  BY <1>3 DEF Risen
    <2> HIDE DEF g, m
    <2> QED  BY SMTT(30), <2>2, <2>3, <2>4, <2>5 DEF Rising, Places, Filed
  <1> QED  BY <1>2, <1>3

\* A step of sink goes down to a child and loses no chunk.
LEMMA SunkSinking ==
  ASSUME wear_tot \in [Chunk -> Nat], NEW Q, NEW n, NEW p \in Sinking(Q, n)
  PROVE  /\ Sunk(p, n) \in Sinking(Q, n)
         /\ Sinks(p, n) => Sunk(p, n).at > p.at
  <1>1. /\ p.heap \in Seq(Chunk) /\ p.at \in 1..Len(p.heap) /\ Filed(p.heap, Q)
        /\ OrderedAbove(p.heap, wear_tot, p.at) /\ p.at \in Nat /\ Len(p.heap) \in Nat
        /\ Len(p.heap) = n
    BY DEF Sinking, Places
  <1>2. CASE ~ Sinks(p, n)  BY <1>2 DEF Sunk
  <1>3. CASE Sinks(p, n)
    <2> DEFINE m == Queue!Child(p.heap, p.at)
               g == Queue!exch(p.heap, p.at, m)
    <2>1. 2 * p.at <= Len(p.heap) /\ wear_tot[p.heap[m]] < wear_tot[p.heap[p.at]]
      BY <1>1, <1>3 DEF Sinks, Queue!chunk_comp
    <2>2. m \in p.at + 1..Len(p.heap) /\ OrderedAbove(g, wear_tot, m)
      BY <1>1, <2>1, FallOrdered
    <2>3. m \in 1..Len(p.heap) /\ m > p.at /\ m \in Nat
      <3> HIDE DEF m
      <3> QED  BY <1>1, <2>2
    <2>4. Filed(g, Q) /\ Len(g) = Len(p.heap)
      <3> HIDE DEF m
      <3>1. Filed(g, Q) /\ Exchanged(g, p.heap, p.at, m)  BY <1>1, <2>3, ExchFiled
      <3> QED  BY <3>1 DEF Exchanged
    <2>5. Sunk(p, n) = [heap |-> g, at |-> m]  BY <1>3 DEF Sunk
    <2> HIDE DEF g, m
    <2> DEFINE q == [heap |-> g, at |-> m]
    <2>6. q.heap = g /\ q.at = m /\ g \in Seq(Chunk) /\ q \in [heap : Seq(Chunk), at : Nat]
      BY <2>3, <2>4 DEF Filed
    <2>7. q.at \in 1..Len(q.heap)  BY <2>3, <2>4, <2>6
    <2> HIDE DEF q
    <2>8. q \in Sinking(Q, n)  BY SMTT(30), <1>1, <2>2, <2>4, <2>6, <2>7 DEF Sinking, Places
    <2> QED  BY <2>3, <2>5, <2>6, <2>8 DEF q
  <1> QED  BY <1>2, <1>3

\* The ways of an entry as swim and sink spell them out.
Climbs(h, k, w, f) ==
  f = [i \in 0..k |->
         IF i = 0 THEN [heap |-> h, at |-> k]
         ELSE CHOOSE s \in {IF p.at > 1 /\ w[p.heap[p.at]] < w[p.heap[p.at \div 2]]
                            THEN [heap |-> Queue!exch(p.heap, p.at, p.at \div 2), at |-> p.at \div 2]
                            ELSE p : p \in {f[i - 1]}} : TRUE]
Dives(h, k, f) ==
  f = [i \in 0..Len(h) |->
         IF i = 0 THEN [heap |-> h, at |-> k]
         ELSE CHOOSE s \in {IF 2 * p.at <= Len(h) /\ Queue!chunk_comp(p.heap[Queue!Child(p.heap, p.at)], p.heap[p.at])
                            THEN [heap |-> Queue!exch(p.heap, p.at, Queue!Child(p.heap, p.at)),
                                  at   |-> Queue!Child(p.heap, p.at)]
                            ELSE p : p \in {f[i - 1]}} : TRUE]

\* The same in steps of Risen and Sunk, ...
RisesBySteps(h, k, w, f) ==
  f = [i \in 0..k |-> IF i = 0 THEN [heap |-> h, at |-> k] ELSE Risen(f[i - 1], w)]
SinksBySteps(h, k, f) ==
  f = [i \in 0..Len(h) |-> IF i = 0 THEN [heap |-> h, at |-> k] ELSE Sunk(f[i - 1], Len(h))]

\* ... for swim ...
LEMMA ClimbsStep ==
  ASSUME NEW h, NEW k \in Nat, NEW w, NEW f
  PROVE  Climbs(h, k, w, f) <=> RisesBySteps(h, k, w, f)
  <1>1. \A q : (CHOOSE s \in {IF p.at > 1 /\ w[p.heap[p.at]] < w[p.heap[p.at \div 2]]
                              THEN [heap |-> Queue!exch(p.heap, p.at, p.at \div 2), at |-> p.at \div 2]
                              ELSE p : p \in {q}} : TRUE) = Risen(q, w)
    <2>1. TAKE q
    <2>2. {IF p.at > 1 /\ w[p.heap[p.at]] < w[p.heap[p.at \div 2]]
           THEN [heap |-> Queue!exch(p.heap, p.at, p.at \div 2), at |-> p.at \div 2]
           ELSE p : p \in {q}} = {Risen(q, w)}
      BY DEF Risen, Rises
    <2> QED  BY <2>2
  <1> QED  BY <1>1 DEF Climbs, RisesBySteps

\* ... and for sink.
LEMMA DivesStep ==
  ASSUME NEW h, NEW k \in Nat, NEW f
  PROVE  Dives(h, k, f) <=> SinksBySteps(h, k, f)
  <1>1. \A q : (CHOOSE s \in {IF 2 * p.at <= Len(h) /\ Queue!chunk_comp(p.heap[Queue!Child(p.heap, p.at)], p.heap[p.at])
                              THEN [heap |-> Queue!exch(p.heap, p.at, Queue!Child(p.heap, p.at)),
                                    at   |-> Queue!Child(p.heap, p.at)]
                              ELSE p : p \in {q}} : TRUE) = Sunk(q, Len(h))
    <2>1. TAKE q
    <2>2. {IF 2 * p.at <= Len(h) /\ Queue!chunk_comp(p.heap[Queue!Child(p.heap, p.at)], p.heap[p.at])
           THEN [heap |-> Queue!exch(p.heap, p.at, Queue!Child(p.heap, p.at)),
                 at   |-> Queue!Child(p.heap, p.at)]
           ELSE p : p \in {q}} = {Sunk(q, Len(h))}
      BY DEF Sunk, Sinks
    <2> QED  BY <2>2
  <1> QED  BY <1>1 DEF Dives, SinksBySteps

\* swim of an entry leaves a heap of the same chunks, in order.
LEMMA SwimOrders ==
  ASSUME NEW w \in [Chunk -> Nat], NEW h, NEW Q, Filed(h, Q), NEW k \in 1..Len(h),
         OrderedBut(h, w, k)
  PROVE  Filed(Queue!swim(h, k, w), Q) /\ Ordered(Queue!swim(h, k, w), w)
  <1> DEFINE T == Rising(Q, w)
             F == [p \in T |-> Risen(p, w)]
             x == [heap |-> h, at |-> k]
             up == CHOOSE f : f = [i \in 0..k |->
                     IF i = 0 THEN [heap |-> h, at |-> k]
                     ELSE CHOOSE s \in {IF p.at > 1 /\ w[p.heap[p.at]] < w[p.heap[p.at \div 2]]
                                        THEN [heap |-> Queue!exch(p.heap, p.at, p.at \div 2),
                                              at |-> p.at \div 2]
                                        ELSE p : p \in {f[i - 1]}} : TRUE]
  <1>1. k \in Nat /\ Len(h) \in Nat /\ x \in T
    <2> HIDE DEF up, F
    <2>1. k \in Nat /\ Len(h) \in Nat  BY DEF Filed, Places
    <2>2. x.heap = h /\ x.at = k  OBVIOUS
    <2> QED  BY <2>1, SMTT(30) DEF Filed, Rising, Places
  <1>2. F \in [T -> T]  BY RisenRising
  <1>3. Queue!swim(h, k, w) = up[k].heap  BY DEF Queue!swim
  <1>4. PICK f \in [0..k -> T] : Iterates(F, x, k, f)
    <2> HIDE DEF T, F, x
    <2> QED  BY <1>1, <1>2, IteratesExists
  <1>5. Climbs(h, k, w, f)
    <2>1. \A i \in 0..k : i # 0 => F[f[i - 1]] = Risen(f[i - 1], w)
      <3>1. \A i \in 0..k : i # 0 => i - 1 \in 0..k  BY <1>1
      <3>2. \A i \in 0..k : i # 0 => f[i - 1] \in T
        <4> HIDE DEF T
        <4> QED  BY <3>1
      <3> HIDE DEF T
      <3> QED  BY <3>2 DEF F
    <2>2. f = [i \in 0..k |-> IF i = 0 THEN x ELSE F[f[i - 1]]]  BY <1>4 DEF Iterates
    <2> HIDE DEF F, T
    <2>3. f = [i \in 0..k |-> IF i = 0 THEN x ELSE Risen(f[i - 1], w)]  BY <2>1, <2>2
    <2>4. RisesBySteps(h, k, w, f)  BY <2>3 DEF RisesBySteps
    <2> QED  BY <1>1, <2>4, ClimbsStep
  <1>6. Climbs(h, k, w, up)
    <2>1. \E g : Climbs(h, k, w, g)  BY <1>5
    <2> QED  BY <2>1, Zenon DEF Climbs
  <1> HIDE DEF up, F
  <1>7. up = [i \in 0..k |-> IF i = 0 THEN x ELSE Risen(up[i - 1], w)]
    <2>1. RisesBySteps(h, k, w, up)  BY <1>1, <1>6, ClimbsStep
    <2> QED  BY <2>1 DEF RisesBySteps
  <1>8. up[0] = x /\ \A i \in 0..k - 1 : up[i + 1] = Risen(up[i], w)
    <2>1. 0 \in 0..k /\ \A i \in 0..k - 1 : i + 1 \in 0..k /\ i + 1 # 0 /\ (i + 1) - 1 = i  BY <1>1
    <2> HIDE DEF x
    <2> QED  BY <1>7, <2>1
  <1> DEFINE G == {i \in 0..k : up[i] \in T /\ (up[i].at <= k - i \/ ~ Rises(up[i], w))}
  <1>9. 0 \in G
    <2>1. x.at = k /\ k <= k - 0 /\ 0 \in 0..k  BY <1>1
    <2> HIDE DEF x
    <2> QED  BY <1>1, <1>8, <2>1
  <1>10. ASSUME NEW i \in 0..k - 1, i \in G  PROVE i + 1 \in G
    <2>1. up[i + 1] = Risen(up[i], w) /\ up[i] \in T /\ i + 1 \in 0..k /\ i \in Nat
      BY <1>1, <1>8, <1>10
    <2>2. up[i + 1] \in T /\ (Rises(up[i], w) => up[i + 1].at < up[i].at)
      BY <2>1, RisenRising
    <2>3. up[i].at \in Nat /\ up[i + 1].at \in Nat  BY <2>1, <2>2 DEF Rising, Places
    <2>4. CASE Rises(up[i], w)
      <3>1. up[i].at <= k - i /\ up[i + 1].at < up[i].at  BY <1>10, <2>2, <2>4
      <3> HIDE DEF T
      <3> QED  BY <1>1, <2>1, <2>2, <2>3, <3>1
    <2>5. CASE ~ Rises(up[i], w)
      <3>1. up[i + 1] = up[i]  BY <2>1, <2>5 DEF Risen
      <3> QED  BY <2>1, <2>2, <2>5, <3>1
    <2> QED  BY <2>4, <2>5
  <1>11. k \in G
    <2>1. \A i \in 0..k - 1 : i \in G => i + 1 \in G  BY <1>10
    <2> HIDE DEF G
    <2>2. 0..k \subseteq G  BY <1>1, <1>9, <2>1, InductionUpTo
    <2> QED  BY <1>1, <2>2
  <1>12. up[k] \in T /\ ~ Rises(up[k], w)
    <2>1. up[k] \in T /\ (up[k].at <= k - k \/ ~ Rises(up[k], w))  BY <1>11
    <2>2. up[k].at \in 1..Len(up[k].heap) /\ Len(up[k].heap) \in Nat
      BY SMTT(30), <2>1 DEF Rising, Places
    <2> QED  BY <1>1, <2>1, <2>2
  <1> DEFINE g == up[k].heap
             m == up[k].at
  <1>13. m \in 1..Len(g) /\ Filed(g, Q) /\ OrderedBut(g, w, m) /\ ~ (m > 1 /\ w[g[m]] < w[g[m \div 2]])
    BY <1>12 DEF Rising, Places, Rises
  <1> HIDE DEF g, m
  <1>14. Ordered(g, w)  BY <1>13, RisenOrdered
  <1> QED  BY <1>3, <1>13, <1>14 DEF g
\* sink of an entry leaves a heap of the same chunks, in order.
LEMMA SinkOrders ==
  ASSUME wear_tot \in [Chunk -> Nat], NEW h, NEW Q, Filed(h, Q), NEW k \in 1..Len(h),
         OrderedAbove(h, wear_tot, k)
  PROVE  Filed(Queue!sink(h, k), Q) /\ Ordered(Queue!sink(h, k), wear_tot)
  <1> DEFINE n == Len(h)
             T == Sinking(Q, n)
             F == [p \in T |-> Sunk(p, n)]
             x == [heap |-> h, at |-> k]
             down == CHOOSE f : f = [i \in 0..Len(h) |->
                       IF i = 0 THEN [heap |-> h, at |-> k]
                       ELSE CHOOSE s \in {IF 2 * p.at <= Len(h) /\ Queue!chunk_comp(p.heap[Queue!Child(p.heap, p.at)], p.heap[p.at])
                                          THEN [heap |-> Queue!exch(p.heap, p.at, Queue!Child(p.heap, p.at)),
                                                at   |-> Queue!Child(p.heap, p.at)]
                                          ELSE p : p \in {f[i - 1]}} : TRUE]
  <1>1. k \in Nat /\ n \in Nat /\ x \in T /\ k >= 1  BY DEF Filed, Sinking, Places
  <1>2. F \in [T -> T]  BY SunkSinking
  <1>3. Queue!sink(h, k) = down[n].heap  BY DEF Queue!sink
  <1>4. PICK f \in [0..n -> T] : Iterates(F, x, n, f)
    <2> HIDE DEF T, F, x
    <2> QED  BY <1>1, <1>2, IteratesExists
  <1>5. Dives(h, k, f)
    <2>1. \A i \in 0..n : i # 0 => F[f[i - 1]] = Sunk(f[i - 1], n)
      <3>1. \A i \in 0..n : i # 0 => i - 1 \in 0..n  BY <1>1
      <3>2. \A i \in 0..n : i # 0 => f[i - 1] \in T
        <4> HIDE DEF T
        <4> QED  BY <3>1
      <3> HIDE DEF T
      <3> QED  BY <3>2 DEF F
    <2>2. f = [i \in 0..n |-> IF i = 0 THEN x ELSE F[f[i - 1]]]  BY <1>4 DEF Iterates
    <2> HIDE DEF F, T
    <2>3. f = [i \in 0..n |-> IF i = 0 THEN x ELSE Sunk(f[i - 1], n)]  BY <2>1, <2>2
    <2>4. SinksBySteps(h, k, f)  BY <2>3 DEF SinksBySteps
    <2> QED  BY <1>1, <2>4, DivesStep
  <1>6. Dives(h, k, down)
    <2>1. \E g : Dives(h, k, g)  BY <1>5
    <2> QED  BY <2>1, Zenon DEF Dives
  <1> HIDE DEF down, F
  <1>7. down = [i \in 0..n |-> IF i = 0 THEN x ELSE Sunk(down[i - 1], n)]
    <2>1. SinksBySteps(h, k, down)  BY <1>1, <1>6, DivesStep
    <2> QED  BY <2>1 DEF SinksBySteps
  <1> HIDE DEF n
  <1>8. down[0] = x /\ \A i \in 0..n - 1 : down[i + 1] = Sunk(down[i], n)
    <2>1. 0 \in 0..n /\ \A i \in 0..n - 1 : i + 1 \in 0..n /\ i + 1 # 0 /\ (i + 1) - 1 = i  BY <1>1
    <2> HIDE DEF x
    <2> QED  BY <1>7, <2>1
  <1> DEFINE G == {i \in 0..n : down[i] \in T /\ (down[i].at > i \/ ~ Sinks(down[i], n))}
  <1>9. 0 \in G
    <2>1. x.at = k /\ k > 0 /\ 0 \in 0..n  BY <1>1
    <2> HIDE DEF x
    <2> QED  BY <1>1, <1>8, <2>1
  <1>10. ASSUME NEW i \in 0..n - 1, i \in G  PROVE i + 1 \in G
    <2>1. /\ down[i + 1] = Sunk(down[i], n) /\ down[i] \in T /\ i + 1 \in 0..n /\ i \in Nat
      BY <1>1, <1>8, <1>10
    <2>2. down[i + 1] \in T /\ (Sinks(down[i], n) => down[i + 1].at > down[i].at)
      BY <2>1, SunkSinking
    <2>3. down[i].at \in Nat /\ down[i + 1].at \in Nat  BY <2>1, <2>2 DEF Sinking, Places
    <2>4. CASE Sinks(down[i], n)
      <3>1. down[i].at > i /\ down[i + 1].at > down[i].at  BY <1>10, <2>2, <2>4
      <3> HIDE DEF T
      <3> QED  BY <1>1, <2>1, <2>2, <2>3, <3>1
    <2>5. CASE ~ Sinks(down[i], n)
      <3>1. down[i + 1] = down[i]  BY <2>1, <2>5 DEF Sunk
      <3> QED  BY <2>1, <2>2, <2>5, <3>1
    <2> QED  BY <2>4, <2>5
  <1>11. n \in G
    <2>1. \A i \in 0..n - 1 : i \in G => i + 1 \in G  BY <1>10
    <2> HIDE DEF G
    <2>2. 0..n \subseteq G  BY <1>1, <1>9, <2>1, InductionUpTo
    <2> QED  BY <1>1, <2>2
  <1>12. down[n] \in T /\ ~ Sinks(down[n], n)
    <2>1. down[n] \in T /\ (down[n].at > n \/ ~ Sinks(down[n], n))  BY <1>11
    <2>2. down[n].at \in 1..n  BY <2>1 DEF Sinking, Places
    <2> QED  BY <1>1, <2>1, <2>2
  <1> DEFINE g == down[n].heap
             m == down[n].at
  <1>13. /\ m \in 1..Len(g) /\ Filed(g, Q) /\ OrderedAbove(g, wear_tot, m)
         /\ ~ (2 * m <= Len(g) /\ Queue!chunk_comp(g[Queue!Child(g, m)], g[m]))
    BY <1>12 DEF Sinking, Places, Sinks
  <1> HIDE DEF g, m
  <1>14. Ordered(g, wear_tot)  BY <1>13, FallenOrdered
  <1> QED  BY <1>3, <1>13, <1>14 DEF g

\* Heaps of the same chunks are of the same length, their number.
LEMMA FiledCount ==
  ASSUME NEW h, NEW Q, Filed(h, Q)
  PROVE  IsFiniteSet(Q) /\ Cardinality(Q) = Len(h)
  <1>1. Len(h) \in Nat /\ h \in [1..Len(h) -> Q]  BY DEF Filed
  <1>2. \A i, j \in 1..Len(h) : h[i] = h[j] => i = j  BY DEF Filed
  <1>3. \A c \in Q : \E i \in 1..Len(h) : h[i] = c  BY DEF Filed
  <1> QED  BY <1>1, <1>2, <1>3, CountedSet

\* The first entry of a heap in order is a least worn one.
LEMMA LeastFirst ==
  ASSUME NEW w \in [Chunk -> Nat], NEW h, NEW Q, Filed(h, Q), Ordered(h, w)
  PROVE  \A i \in 1..Len(h) : w[h[1]] <= w[h[i]]
  <1>1. Len(h) \in Nat /\ \A j \in 1..Len(h) : h[j] \in Chunk /\ w[h[j]] \in Nat  BY DEF Filed
  <1> DEFINE S == {i \in 1..Len(h) : ~ (w[h[1]] <= w[h[i]])}
  <1>2. SUFFICES ASSUME S # {}  PROVE FALSE  OBVIOUS
  <1>3. PICK i \in S : \A j \in S : i <= j
    <2>1. S \in SUBSET Nat  BY <1>1
    <2> HIDE DEF S
    <2> QED  BY <1>2, <2>1, LeastNat
  <1>4. i \in 2..Len(h)  BY <1>1, <1>3
  <1>5. i \div 2 \in 1..Len(h) /\ i \div 2 < i  BY <1>1, <1>4, Halves
  <1>6. w[h[1]] <= w[h[i \div 2]]
    <2>1. i \div 2 \notin S  BY <1>1, <1>3, <1>4, <1>5
    <2> QED  BY <1>5, <2>1
  <1>7. w[h[i \div 2]] <= w[h[i]]  BY <1>4 DEF Ordered, Yields
  <1> QED  BY <1>1, <1>3, <1>4, <1>5, <1>6, <1>7

\* reap_chunk files a chunk with one more unit of wear.
LEMMA ReapKeeps ==
  ASSUME QueueInv, NEW c \in Chunk, Queue!Reap(c)
  PROVE  QueueInv' /\ queued \subseteq queued'
  <1> DEFINE h == pq.heap
             n == Len(h)
             w == wear_tot'
             a == Append(h, c)
  <1>1. /\ wear_tot \in [Chunk -> Nat] /\ h \in Seq(Chunk) /\ pq.size \in Nat /\ n \in Nat
        /\ Filed(h, queued) /\ Ordered(h, wear_tot) /\ n < pq.size
    BY DEF QueueInv
  <1>2. /\ c \notin queued /\ w = [wear_tot EXCEPT ![c] = @ + 1]
        /\ pq' = Queue!pq_insert(pq, c, w) /\ queued' = queued \cup {c}
    BY DEF Queue!Reap
  <1>3. w \in [Chunk -> Nat] /\ \A d \in Chunk : d # c => w[d] = wear_tot[d]  BY <1>1, <1>2
  <1> HIDE DEF w
  <1>4. /\ a \in Seq(Chunk) /\ Len(a) = n + 1 /\ a[n + 1] = c
        /\ \A i \in 1..n : a[i] = h[i]
    BY <1>1
  <1> HIDE DEF a, h, n
  <1>5. /\ \A i, j \in 1..n : h[i] = h[j] => i = j
        /\ queued = {h[i] : i \in 1..n}
    BY <1>1 DEF Filed, n
  <1>6. n = Len(h)  BY DEF n
  <1>7. \A i \in 1..n : h[i] # c /\ h[i] \in Chunk  BY <1>1, <1>2, <1>5, <1>6
  <1>8. Filed(a, queued \cup {c})
    <2>1. \A i, j \in 1..Len(a) : a[i] = a[j] => i = j
      <3>1. \A i \in 1..n + 1 : i \in 1..n \/ i = n + 1  BY <1>1
      <3> QED  BY <1>4, <1>5, <1>7, <3>1
    <2>2. queued \cup {c} = {a[i] : i \in 1..Len(a)}
      <3>1. 1..n + 1 = (1..n) \cup {n + 1}  BY <1>1
      <3>2. \A x \in queued \cup {c} : \E i \in 1..n + 1 : x = a[i]
        <4>1. TAKE x \in queued \cup {c}
        <4>2. CASE x = c  BY <1>4, <3>1, <4>2
        <4>3. CASE x \in queued
          <5>1. PICK i \in 1..n : x = h[i]  BY <1>5, <4>3
          <5> QED  BY <1>4, <3>1, <5>1
        <4> QED  BY <4>2, <4>3
      <3>3. \A i \in 1..n + 1 : a[i] \in queued \cup {c}  BY <1>4, <1>5, <3>1
      <3>4. queued \cup {c} \subseteq {a[i] : i \in 1..n + 1}  BY <3>2
      <3> QED  BY <1>4, <3>3, <3>4
    <2> QED  BY <1>4, <2>1, <2>2 DEF Filed
  <1>9. OrderedBut(a, w, n + 1)
    <2>1. \A i \in 2..n + 1 : i # n + 1 => w[a[i \div 2]] <= w[a[i]]
      <3>1. TAKE i \in 2..n + 1
      <3>2. HAVE i # n + 1
      <3>3. i \in 2..n /\ i \in 1..n /\ i \div 2 \in 1..n  BY <1>1, <3>2, Halves
      <3>4. wear_tot[h[i \div 2]] <= wear_tot[h[i]]  BY <1>1, <1>6, <3>3 DEF Ordered, Yields
      <3> QED  BY <1>3, <1>4, <1>7, <3>3, <3>4
    <2>2. \A i \in 2..n + 1 : i \div 2 # n + 1
      <3>1. TAKE i \in 2..n + 1
      <3> QED  BY <1>1, Halves
    <2> QED  BY <1>4, <2>1, <2>2 DEF OrderedBut, Bridged, Yields
  <1> DEFINE g == Queue!swim(a, n + 1, w)
  <1>10. Filed(g, queued \cup {c}) /\ Ordered(g, w)
    <2>1. n + 1 \in 1..Len(a)  BY <1>1, <1>4
    <2> QED  BY <1>3, <1>8, <1>9, <2>1, SwimOrders
  <1>11. Len(g) = n + 1  BY <1>4, <1>8, <1>10, FiledCount
  <1>12. pq' = [heap |-> g, size |-> IF n + 1 = pq.size THEN 2 * pq.size ELSE pq.size]
    BY <1>2 DEF Queue!pq_insert, Queue!nalloc, Queue!Grown, a, n, h
  <1> HIDE DEF g
  <1>13. g \in Seq(Chunk)  BY <1>10 DEF Filed
  <1>14. pq'.heap = g /\ pq' \in [heap : Seq(Chunk), size : Nat] /\ Len(g) < pq'.size
    BY <1>1, <1>11, <1>12, <1>13
  <1> QED  BY <1>2, <1>3, <1>10, <1>14 DEF QueueInv, w
\* gpool_acquire_chunk takes a least worn chunk out.
LEMMA TakeMinKeeps ==
  ASSUME QueueInv, Queue!TakeMin
  PROVE  /\ QueueInv'
         /\ \A c \in queued \ queued' : \A d \in queued : wear_tot[c] <= wear_tot[d]
  <1> DEFINE h == pq.heap
             n == Len(h)
             e == Queue!exch(h, 1, n)
             r == Queue!Front(e)
             Q == queued \ {h[1]}
  <1>1. /\ wear_tot \in [Chunk -> Nat] /\ h \in Seq(Chunk) /\ pq.size \in Nat /\ n \in Nat
        /\ Filed(h, queued) /\ Ordered(h, wear_tot) /\ n < pq.size
    BY DEF QueueInv
  <1>2. /\ n > 0 /\ pq' = Queue!pq_delmin(pq) /\ queued' = Q /\ wear_tot' = wear_tot
    BY DEF Queue!TakeMin, Queue!nalloc, Queue!pq_min
  <1>3. 1 \in 1..n /\ n \in 1..n  BY <1>1, <1>2
  <1>4. /\ Filed(e, queued) /\ Len(e) = n /\ e[1] = h[n] /\ e[n] = h[1]
        /\ \A k \in 1..n : k # 1 /\ k # n => e[k] = h[k]
    <2> HIDE DEF h
    <2>1. Len(h) = n  OBVIOUS
    <2> HIDE DEF n
    <2>2. 1 \in 1..Len(h) /\ n \in 1..Len(h)  BY <1>3, <2>1
    <2>3. Filed(e, queued) /\ Exchanged(e, h, 1, n)  BY <1>1, <2>2, ExchFiled
    <2> HIDE DEF e
    <2> QED  BY <2>1, <2>3 DEF Exchanged
  <1> HIDE DEF e
  <1>5. /\ e \in Seq(Chunk) /\ \A i, j \in 1..n : e[i] = e[j] => i = j
        /\ queued = {e[i] : i \in 1..n}
    BY <1>4 DEF Filed
  <1>6. r \in Seq(Chunk) /\ Len(r) = n - 1 /\ \A i \in 1..n - 1 : r[i] = e[i]
    <2>1. r = SubSeq(e, 1, n - 1)  BY <1>4 DEF Queue!Front
    <2> QED  BY <1>1, <1>2, <1>4, <1>5, <2>1
  <1> HIDE DEF r
  <1>7. Filed(r, Q)
    <2>1. 1..n = (1..n - 1) \cup {n} /\ n \notin 1..n - 1  BY <1>1, <1>2
    <2>2. \A i, j \in 1..n - 1 : r[i] = r[j] => i = j  BY <1>5, <1>6, <2>1
    <2>3. \A i \in 1..n - 1 : r[i] \in Q
      <3>1. TAKE i \in 1..n - 1
      <3>2. r[i] = e[i] /\ e[i] \in queued /\ e[i] # e[n]  BY <1>3, <1>5, <1>6, <2>1
      <3> QED  BY <1>4, <3>2
    <2>4. ASSUME NEW x \in Q  PROVE \E i \in 1..n - 1 : x = r[i]
      <3>1. PICK i \in 1..n : x = e[i]  BY <1>5
      <3>2. i # n  BY <1>4, <3>1
      <3> QED  BY <1>6, <2>1, <3>1, <3>2
    <2> HIDE DEF Q
    <2>5. Q = {r[i] : i \in 1..Len(r)}
      <3>1. Q \subseteq {r[i] : i \in 1..n - 1}  BY <2>4
      <3>2. {r[i] : i \in 1..n - 1} \subseteq Q  BY <2>3
      <3> QED  BY <1>6, <3>1, <3>2
    <2> QED  BY <1>6, <2>2, <2>5 DEF Filed
  <1>8. OrderedAbove(r, wear_tot, 1)
    <2>1. ASSUME NEW i \in 2..n - 1, i \div 2 # 1  PROVE wear_tot[r[i \div 2]] <= wear_tot[r[i]]
      <3>1. i \in 2..n /\ i \in 1..n - 1 /\ i # 1 /\ i # n  BY <1>1
      <3>2. i \div 2 \in 1..n - 1 /\ i \div 2 < i /\ i \div 2 # n  BY <1>1, <3>1, Halves
      <3>3. r[i] = h[i] /\ r[i \div 2] = h[i \div 2]
        <4>1. e[i] = h[i]  BY <1>1, <1>4, <3>1
        <4>2. i \div 2 \in 1..n /\ i \div 2 # 1  BY <1>1, <2>1, <3>2
        <4>3. e[i \div 2] = h[i \div 2]  BY <1>4, <3>2, <4>2
        <4> QED  BY <1>6, <3>1, <3>2, <4>1, <4>3
      <3> QED  BY <1>1, <3>1, <3>3 DEF Ordered, Yields
    <2> QED  BY <1>6, <2>1 DEF OrderedAbove, Bridged, Yields
  <1> DEFINE g == IF r = <<>> THEN <<>> ELSE Queue!sink(r, 1)
  <1>9. Filed(g, Q) /\ Ordered(g, wear_tot)
    <2>1. CASE r = <<>>
      <3>1. Len(g) = 0 /\ g = r  BY <2>1
      <3>2. Ordered(g, wear_tot)  BY <3>1 DEF Ordered
      <3> QED  BY <1>7, <3>1, <3>2
    <2>2. CASE r # <<>>
      <3>1. 1 \in 1..Len(r)  BY <1>6, <2>2
      <3>2. Filed(Queue!sink(r, 1), Q) /\ Ordered(Queue!sink(r, 1), wear_tot)
        BY <1>1, <1>7, <1>8, <3>1, SinkOrders
      <3> QED  BY <2>2, <3>2
    <2> QED  BY <2>1, <2>2
  <1>10. Len(g) = n - 1  BY <1>6, <1>7, <1>9, FiledCount
  <1>11. pq' = [heap |-> g, size |-> IF n - 1 > 0 /\ n - 1 <= (pq.size - 1) \div 4
                                     THEN pq.size \div 2 ELSE pq.size]
    <2> DEFINE q == [pq EXCEPT !.heap = r]
    <2>1. q.heap = r /\ q.size = pq.size  BY DEF QueueInv
    <2>2. pq' = [heap |-> IF q.heap = <<>> THEN <<>> ELSE Queue!sink(q.heap, 1),
                 size |-> Queue!Shrunk(q)]
      BY <1>2 DEF Queue!pq_delmin, Queue!nalloc, e, r
    <2> HIDE DEF q
    <2> QED  BY <1>6, <2>1, <2>2 DEF Queue!Shrunk, Queue!nalloc
  <1> HIDE DEF g
  <1>12. g \in Seq(Chunk)  BY <1>9 DEF Filed
  <1>13. pq'.heap = g /\ pq' \in [heap : Seq(Chunk), size : Nat] /\ Len(g) < pq'.size
    <2> DEFINE z == pq.size
    <2>1. z \in Nat /\ z > 0 /\ n <= z  BY <1>1
    <2> HIDE DEF z
    <2>2. z \div 2 \in Nat  BY <2>1
    <2>3. n - 1 > 0 /\ n - 1 <= (z - 1) \div 4 => n - 1 < z \div 2  BY <1>1, <2>1
    <2>4. n - 1 < z  BY <1>1, <2>1
    <2>5. pq' = [heap |-> g, size |-> IF n - 1 > 0 /\ n - 1 <= (z - 1) \div 4 THEN z \div 2 ELSE z]
      BY <1>11 DEF z
    <2> QED  BY <1>10, <1>12, <2>1, <2>2, <2>3, <2>4, <2>5
  <1>14. QueueInv'  BY <1>1, <1>2, <1>9, <1>13 DEF QueueInv
  <1>15. \A c \in queued \ queued' : \A d \in queued : wear_tot[c] <= wear_tot[d]
    <2>1. TAKE c \in queued \ queued'
    <2>2. c = h[1]  BY <1>2
    <2>3. TAKE d \in queued
    <2>4. PICK i \in 1..n : d = h[i]  BY <1>1 DEF Filed
    <2> QED  BY <1>1, <2>2, <2>4, LeastFirst
  <1> QED  BY <1>14, <1>15
-----------------------------------------------------------------------------
(* The scan of a bitmap *)

\* The place of bit k in the table of the de Bruijn multiplication has k + 1.
Reads(k) == Scan!bitmap_auxiliary_array[1 + Scan!TableIndex(k)] = k + 1

\* The multiplier is a de Bruijn sequence: the 32 powers of two have 32
\* different places in the table, and the table has their exponents there.
LEMMA TableReads == \A k \in 0..31 : Reads(k)
  <1>1. Reads(0) /\ Reads(1) /\ Reads(2) /\ Reads(3)
    BY DEF Reads, Scan!TableIndex, Scan!DeBruijn, Scan!bitmap_auxiliary_array
  <1>2. Reads(4) /\ Reads(5) /\ Reads(6) /\ Reads(7)
    BY DEF Reads, Scan!TableIndex, Scan!DeBruijn, Scan!bitmap_auxiliary_array
  <1>3. Reads(8) /\ Reads(9) /\ Reads(10) /\ Reads(11)
    BY DEF Reads, Scan!TableIndex, Scan!DeBruijn, Scan!bitmap_auxiliary_array
  <1>4. Reads(12) /\ Reads(13) /\ Reads(14) /\ Reads(15)
    BY DEF Reads, Scan!TableIndex, Scan!DeBruijn, Scan!bitmap_auxiliary_array
  <1>5. Reads(16) /\ Reads(17) /\ Reads(18) /\ Reads(19)
    BY DEF Reads, Scan!TableIndex, Scan!DeBruijn, Scan!bitmap_auxiliary_array
  <1>6. Reads(20) /\ Reads(21) /\ Reads(22) /\ Reads(23)
    BY DEF Reads, Scan!TableIndex, Scan!DeBruijn, Scan!bitmap_auxiliary_array
  <1>7. Reads(24) /\ Reads(25) /\ Reads(26) /\ Reads(27)
    BY DEF Reads, Scan!TableIndex, Scan!DeBruijn, Scan!bitmap_auxiliary_array
  <1>8. Reads(28) /\ Reads(29) /\ Reads(30) /\ Reads(31)
    BY DEF Reads, Scan!TableIndex, Scan!DeBruijn, Scan!bitmap_auxiliary_array
  <1> HIDE DEF Reads
  <1> QED  BY <1>1, <1>2, <1>3, <1>4, <1>5, <1>6, <1>7, <1>8

\* LOW1BIT gives the number of the one bit of a half.
LEMMA HalfRead ==
  ASSUME NEW k \in 0..31
  PROVE  Scan!LOW1BIT({k}) = k + 1
  <1>1. (CHOOSE j \in {k} : TRUE) = k  OBVIOUS
  <1>2. {k} # {}  OBVIOUS
  <1>3. Reads(k)  BY TableReads
  <1> QED  BY <1>1, <1>2, <1>3 DEF Scan!LOW1BIT, Reads

\* w & (~w + 1) is the lowest bit of w.
LEMMA LowestIsolated ==
  ASSUME NEW w \in SUBSET (0..63), w # {}
  PROVE  /\ Scan!Min(w) \in w /\ \A b \in w : Scan!Min(w) <= b
         /\ Scan!Isolated(w) = {Scan!Min(w)}
  <1>1. Scan!Min(w) = Min(w)  BY DEF Scan!Min, Min
  <1>2. w \in SUBSET Int /\ \A b \in w : 0 <= b  OBVIOUS
  <1>3. Min(w) \in w /\ \A b \in w : Min(w) <= b  BY <1>2, MinOfSet
  <1>4. PICK z \in 0..63 : z = Scan!Min(w)  BY <1>1, <1>3
  <1>5. z \in w /\ \A b \in w : z <= b  BY <1>1, <1>3, <1>4
  <1>6. PICK c : c = 0..63 \ w  OBVIOUS
  <1>7. c # 0..63 /\ 0..63 \ c = w  BY <1>6
  <1>8. Scan!PlusOne(c) = (c \ (0..z - 1)) \cup {z}
    BY <1>4, <1>7 DEF Scan!PlusOne, Scan!Bits
  <1>9. Scan!Isolated(w) = w \cap ((c \ (0..z - 1)) \cup {z})
    BY <1>6, <1>8 DEF Scan!Isolated, Scan!Bits
  <1>10. w \cap c = {}  BY <1>6
  <1>11. Scan!Isolated(w) = {z}  BY <1>5, <1>9, <1>10
  <1> QED  BY <1>4, <1>5, <1>11

\* The scan of a word gives the number of its lowest bit.
LEMMA LowestScanned ==
  ASSUME NEW w \in SUBSET (0..63), w # {}
  PROVE  Scan!Scan(w) = Scan!Min(w) + 1
  <1>1. PICK z \in 0..63 : z = Scan!Min(w) /\ Scan!Isolated(w) = {z}  BY LowestIsolated
  <1>2. CASE z \in 0..31
    <2>1. {z} \cap 0..31 = {z} /\ {z} # {}  BY <1>2
    <2>2. Scan!Scan(w) = Scan!LOW1BIT({z})  BY <1>1, <2>1 DEF Scan!Scan, Scan!Half
    <2> QED  BY <1>1, <1>2, <2>2, HalfRead
  <1>3. CASE z \notin 0..31
    <2>1. {z} \cap 0..31 = {}  BY <1>3
    <2>2. PICK k \in 0..31 : k = z - 32  BY <1>3
    <2>3. {b - 32 : b \in {z}} = {k}  BY <2>2
    <2>4. Scan!Scan(w) = Scan!LOW1BIT({k}) + 32
      BY <1>1, <2>1, <2>3 DEF Scan!Scan, Scan!Half
    <2>5. Scan!LOW1BIT({k}) = k + 1  BY HalfRead
    <2> QED  BY <1>1, <2>2, <2>4, <2>5
  <1> QED  BY <1>2, <1>3

\* The free blocks of a span are bits of its word.
ScanInv == bitmap \subseteq 0..63 /\ last_pos \in 0..64

\* A step of the scan keeps the bits in the word.
LEMMA ScanKeeps ==
  ASSUME ScanInv, Scan!Next
  PROVE  ScanInv'
  <1>1. CASE Scan!Malloc
    <2>1. bitmap' \subseteq bitmap /\ last_pos' = last_pos  BY <1>1 DEF Scan!Malloc
    <2> QED  BY <2>1 DEF ScanInv
  <1>2. ASSUME NEW b, Scan!Free(b)  PROVE ScanInv'
    <2>1. b \in 0..last_pos - 1 /\ bitmap' = bitmap \cup {b} /\ last_pos' = last_pos
      BY <1>2 DEF Scan!Free, Scan!Full
    <2> QED  BY <2>1 DEF ScanInv
  <1> QED  BY <1>1, <1>2 DEF Scan!Next

-----------------------------------------------------------------------------
(* The size classes *)

SizeOf(c) == Classes!cls2size[c]

\* The table of the class sizes, written out.
LEMMA SizeTable ==
  /\ \A c \in 0..30 : SizeOf(c) = 16 + 8 * c
  /\ SizeOf(31) = 384   /\ SizeOf(32) = 512   /\ SizeOf(33) = 768   /\ SizeOf(34) = 1024
  /\ SizeOf(35) = 1536  /\ SizeOf(36) = 2048  /\ SizeOf(37) = 3072  /\ SizeOf(38) = 4096
  /\ SizeOf(39) = 6144  /\ SizeOf(40) = 8192  /\ SizeOf(41) = 12288 /\ SizeOf(42) = 16384
  /\ SizeOf(43) = 24576 /\ SizeOf(44) = 32768 /\ SizeOf(45) = 49152 /\ SizeOf(46) = 65536
  <1>1. /\ 2^0 = 1  /\ 2^1 = 2  /\ 2^2 = 4  /\ 2^3 = 8
        /\ 2^4 = 16 /\ 2^5 = 32 /\ 2^6 = 64 /\ 2^7 = 128
    OBVIOUS
  <1>2. \A c \in 0..30 : SizeOf(c) = 16 + 8 * c
    BY DEF SizeOf, Classes!cls2size, Classes!Class
  <1>3. \A c \in 31..46 : SizeOf(c) = IF (c - 31) % 2 = 0 THEN 384 * 2^((c - 31) \div 2)
                                      ELSE 512 * 2^((c - 31) \div 2)
    BY DEF SizeOf, Classes!cls2size, Classes!Class
  <1>4. \A k \in 0..7 : SizeOf(31 + 2 * k) = 384 * 2^k /\ SizeOf(32 + 2 * k) = 512 * 2^k
    <2>1. SUFFICES ASSUME NEW k \in 0..7
                   PROVE  SizeOf(31 + 2 * k) = 384 * 2^k /\ SizeOf(32 + 2 * k) = 512 * 2^k
      OBVIOUS
    <2>2. /\ 31 + 2 * k \in 31..46 /\ 32 + 2 * k \in 31..46
          /\ (31 + 2 * k - 31) % 2 = 0 /\ (31 + 2 * k - 31) \div 2 = k
          /\ (32 + 2 * k - 31) % 2 # 0 /\ (32 + 2 * k - 31) \div 2 = k
      OBVIOUS
    <2>3. SizeOf(31 + 2 * k) = 384 * 2^k
      <3>1. PICK c \in 31..46 : c = 31 + 2 * k  BY <2>2
      <3>2. (c - 31) % 2 = 0 /\ (c - 31) \div 2 = k  BY <2>2, <3>1
      <3>3. SizeOf(c) = 384 * 2^k  BY ZenonT(60), <1>3, <3>2
      <3> QED  BY <3>1, <3>3
    <2>4. SizeOf(32 + 2 * k) = 512 * 2^k
      <3>1. PICK c \in 31..46 : c = 32 + 2 * k  BY <2>2
      <3>2. (c - 31) % 2 # 0 /\ (c - 31) \div 2 = k  BY <2>2, <3>1
      <3>3. SizeOf(c) = 512 * 2^k  BY ZenonT(60), <1>3, <3>2
      <3> QED  BY <3>1, <3>3
    <2> QED  BY <2>3, <2>4
  <1>5. /\ SizeOf(31) = 384 * 2^0 /\ SizeOf(32) = 512 * 2^0
        /\ SizeOf(33) = 384 * 2^1 /\ SizeOf(34) = 512 * 2^1
        /\ SizeOf(35) = 384 * 2^2 /\ SizeOf(36) = 512 * 2^2
        /\ SizeOf(37) = 384 * 2^3 /\ SizeOf(38) = 512 * 2^3
        /\ SizeOf(39) = 384 * 2^4 /\ SizeOf(40) = 512 * 2^4
        /\ SizeOf(41) = 384 * 2^5 /\ SizeOf(42) = 512 * 2^5
        /\ SizeOf(43) = 384 * 2^6 /\ SizeOf(44) = 512 * 2^6
        /\ SizeOf(45) = 384 * 2^7 /\ SizeOf(46) = 512 * 2^7
    BY <1>4
  <1> QED  BY <1>1, <1>2, <1>5

\* Sizes are multiples of 8, and of 512 from class 34 on, and lie that far
\* apart.
LEMMA SizesApart ==
  /\ \A c \in 0..46 : SizeOf(c) \in Nat /\ SizeOf(c) <= 65536 /\ SizeOf(c) % 8 = 0
  /\ \A c \in 34..46 : SizeOf(c) % 512 = 0 /\ SizeOf(c) >= 1024
  /\ \A c \in 0..45 : SizeOf(c + 1) >= SizeOf(c) + 8
  /\ \A c \in 34..45 : SizeOf(c + 1) >= SizeOf(c) + 512
  /\ \A c \in 0..33 : SizeOf(c) < 1024
  <1>1. \A c \in 0..30 : SizeOf(c) = 16 + 8 * c  BY SizeTable
  <1>2. \A c \in 31..46 : \/ c = 31 \/ c = 32 \/ c = 33 \/ c = 34 \/ c = 35 \/ c = 36
                          \/ c = 37 \/ c = 38 \/ c = 39 \/ c = 40 \/ c = 41 \/ c = 42
                          \/ c = 43 \/ c = 44 \/ c = 45 \/ c = 46
    OBVIOUS
  <1>3. \A c \in 0..46 : SizeOf(c) \in Nat /\ SizeOf(c) <= 65536 /\ SizeOf(c) % 8 = 0
    <2>1. ASSUME NEW c \in 0..30  PROVE SizeOf(c) \in Nat /\ SizeOf(c) <= 65536 /\ SizeOf(c) % 8 = 0
      BY <1>1
    <2>2. ASSUME NEW c \in 31..46  PROVE SizeOf(c) \in Nat /\ SizeOf(c) <= 65536 /\ SizeOf(c) % 8 = 0
      BY <1>2, SizeTable
    <2> QED  BY <2>1, <2>2
  <1>4. \A c \in 34..46 : SizeOf(c) % 512 = 0 /\ SizeOf(c) >= 1024  BY <1>2, SizeTable
  <1>5. ASSUME NEW c \in 0..45
        PROVE  SizeOf(c + 1) >= SizeOf(c) + 8 /\ (c >= 34 => SizeOf(c + 1) >= SizeOf(c) + 512)
    <2>1. CASE c <= 29  BY <1>1, <2>1
    <2>2. CASE c = 30  BY <1>1, <2>2, SizeTable
    <2>3. CASE c >= 31  BY <1>2, <2>3, SizeTable
    <2> QED  BY <2>1, <2>2, <2>3
  <1>6. \A c \in 0..33 : SizeOf(c) < 1024
    <2>1. ASSUME NEW c \in 31..33  PROVE SizeOf(c) < 1024
      <3>1. c = 31 \/ c = 32 \/ c = 33  OBVIOUS
      <3> QED  BY <3>1, SizeTable
    <2> QED  BY <1>1, <2>1
  <1> QED  BY <1>3, <1>4, <1>5, <1>6

\* Class c is the smallest that holds a size.
Least(c, size) == c \in 0..46 /\ size <= SizeOf(c) /\ (c = 0 \/ SizeOf(c - 1) < size)

\* The class reached before the next size is looked at, a step further on.
Reaching(c, size, step) ==
  c \in 0..46 /\ size <= SizeOf(c) + step /\ (c = 0 \/ SizeOf(c - 1) < size)

Filled8   == \A i \in Nat : i <= 127 => Least(sizemap[i], 8 * (i + 1))
Filled512 == \A i \in Nat : 1 <= i /\ i <= 127 => Least(sizemap2[i], 512 * (i + 1))

ClassesInv ==
  /\ phase \in {"sizemap", "sizemap2", "done"}
  /\ sizemap \in [Classes!Slot -> Nat] /\ sizemap2 \in [Classes!Slot2 -> Nat]
  /\ phase = "sizemap" => \E j \in Nat :
       /\ 1 <= j /\ j <= 128 /\ cur_size = 8 * j /\ Reaching(cur_class, 8 * j, 8)
       /\ \A i \in 0..j - 2 : Least(sizemap[i], 8 * (i + 1))
  /\ phase = "sizemap2" => \E j \in Nat :
       /\ 2 <= j /\ j <= 128 /\ cur_size = 512 * j /\ cur_class >= 34
       /\ IF j = 2 THEN Least(cur_class, 1024) ELSE Reaching(cur_class, 512 * j, 512)
       /\ \A i \in 1..j - 2 : Least(sizemap2[i], 512 * (i + 1))
  /\ phase # "sizemap" => Filled8
  /\ phase = "done" => Filled512

\* One step of the class is enough, as sizes are not closer than the step.
LEMMA AdvancedLeast ==
  /\ \A c, s \in Nat : s <= 65536 /\ Reaching(c, s, 8) => Least(Classes!Advanced(s, c), s)
  /\ \A c, s \in Nat : s <= 65536 /\ c >= 34 /\ Reaching(c, s, 512) => Least(Classes!Advanced(s, c), s)
  /\ \A c, s \in Nat : Least(c, s) => Classes!Advanced(s, c) = c
  /\ \A c, s \in Nat, step \in Nat : Least(c, s) => Reaching(c, s + step, step)
  <1>1. ASSUME NEW c \in Nat, NEW s \in Nat, NEW step \in {8, 512}, s <= 65536,
               Reaching(c, s, step), step = 8 \/ c >= 34
        PROVE  Least(Classes!Advanced(s, c), s)
    <2>1. c \in 0..46 /\ s <= SizeOf(c) + step /\ (c = 0 \/ SizeOf(c - 1) < s)
      BY <1>1 DEF Reaching
    <2>2. CASE s <= SizeOf(c)
      <3>1. Classes!Advanced(s, c) = c
        BY SMTT(30), <2>1, <2>2, SizesApart DEF Classes!Advanced, SizeOf
      <3> QED  BY <2>1, <2>2, <3>1 DEF Least
    <2>3. CASE s > SizeOf(c)
      <3>1. Classes!Advanced(s, c) = c + 1  BY <2>3 DEF Classes!Advanced, SizeOf
      <3>2. c # 46  BY <1>1, <2>3, SizeTable
      <3>3. c \in 0..45  BY <2>1, <3>2
      <3>4. SizeOf(c + 1) >= SizeOf(c) + step  BY <1>1, <3>3, SizesApart
      <3>5. SizeOf(c) \in Nat /\ SizeOf(c + 1) \in Nat  BY <3>3, SizesApart
      <3>6. s <= SizeOf(c + 1)  BY <2>1, <3>4, <3>5
      <3> QED  BY <2>3, <3>1, <3>3, <3>6 DEF Least
    <2>4. SizeOf(c) \in Nat  BY <2>1, SizesApart
    <2> QED  BY <2>2, <2>3, <2>4
  <1>2. ASSUME NEW c \in Nat, NEW s \in Nat, Least(c, s)
        PROVE  /\ Classes!Advanced(s, c) = c
               /\ \A step \in Nat : Reaching(c, s + step, step)
    <2>1. c \in 0..46 /\ s <= SizeOf(c) /\ (c = 0 \/ SizeOf(c - 1) < s)  BY <1>2 DEF Least
    <2>2. SizeOf(c) \in Nat /\ (c # 0 => SizeOf(c - 1) \in Nat)  BY <2>1, SizesApart
    <2>3. ~ (s > SizeOf(c))  BY <2>1, <2>2
    <2> QED  BY <2>1, <2>2, <2>3 DEF Classes!Advanced, SizeOf, Reaching
  <1> QED  BY <1>1, <1>2

\* Each loop leaves in the table the smallest class of every size it passes.
LEMMA ClassesKeep ==
  ASSUME ClassesInv, Classes!Next
  PROVE  ClassesInv'
  <1>1. CASE Classes!FillSizemap
    <2>1. phase = "sizemap"  BY <1>1 DEF Classes!FillSizemap
    <2>2. PICK j \in Nat : /\ 1 <= j /\ j <= 128 /\ cur_size = 8 * j /\ Reaching(cur_class, 8 * j, 8)
                        /\ \A i \in 0..j - 2 : Least(sizemap[i], 8 * (i + 1))
      BY <2>1 DEF ClassesInv
    <2>3. PICK c : c = Classes!Advanced(8 * j, cur_class)  OBVIOUS
    <2>4. Least(c, 8 * j) /\ c \in Nat
      <3>1. cur_class \in Nat /\ 8 * j \in Nat /\ 8 * j <= 65536  BY <2>2 DEF Reaching
      <3>2. Least(c, 8 * j)  BY <2>2, <2>3, <3>1, AdvancedLeast
      <3> QED  BY <3>2 DEF Least
    <2>5. (8 * j - 1) \div 8 = j - 1  BY <2>2
    <2>6. cur_class' = c /\ sizemap' = [sizemap EXCEPT ![j - 1] = c] /\ sizemap2' = sizemap2
      <3>1. /\ cur_class' = Classes!Advanced(cur_size, cur_class)
            /\ sizemap' = [sizemap EXCEPT ![(cur_size - 1) \div 8] = Classes!Advanced(cur_size, cur_class)]
            /\ sizemap2' = sizemap2
        BY <1>1, Zenon DEF Classes!FillSizemap
      <3>2. cur_size = 8 * j  BY <2>2
      <3> QED  BY <2>3, <2>5, <3>1, <3>2
    <2>7. sizemap' \in [Classes!Slot -> Nat] /\ \A i \in 0..j - 1 : Least(sizemap'[i], 8 * (i + 1))
      <3>1. j - 1 \in Classes!Slot  BY <2>2 DEF Classes!Slot
      <3>2. sizemap' \in [Classes!Slot -> Nat]
        <4>1. sizemap \in [Classes!Slot -> Nat]  BY DEF ClassesInv
        <4> QED  BY <2>4, <2>6, <4>1
      <3>3. ASSUME NEW i \in 0..j - 1  PROVE Least(sizemap'[i], 8 * (i + 1))
        <4>1. CASE i = j - 1
          <5>1. sizemap'[i] = c /\ 8 * (i + 1) = 8 * j  BY <2>2, <2>6, <3>1, <4>1 DEF ClassesInv
          <5> QED  BY <2>4, <5>1
        <4>2. CASE i # j - 1
          <5>1. i \in 0..j - 2 /\ i \in Classes!Slot  BY <2>2, <4>2 DEF Classes!Slot
          <5>2. sizemap'[i] = sizemap[i]  BY <2>6, <4>2, <5>1 DEF ClassesInv
          <5> QED  BY <2>2, <5>1, <5>2
        <4> QED  BY <4>1, <4>2
      <3> QED  BY <3>2, <3>3
    <2>8. CASE 8 * j + 8 <= 1024
      <3>1. cur_size' = 8 * (j + 1) /\ phase' = "sizemap" /\ j + 1 \in Nat /\ j + 1 <= 128
        BY <1>1, <2>1, <2>2, <2>8 DEF Classes!FillSizemap
      <3>2. Reaching(c, 8 * (j + 1), 8)
        <4>1. 8 * j \in Nat /\ 8 * (j + 1) = 8 * j + 8  BY <2>2
        <4> QED  BY <2>4, <4>1, AdvancedLeast
      <3>3. \A i \in 0..(j + 1) - 2 : Least(sizemap'[i], 8 * (i + 1))
        <4>1. (j + 1) - 2 = j - 1  BY <2>2
        <4> QED  BY <2>7, <4>1
      <3> QED  BY <2>6, <2>7, <3>1, <3>2, <3>3 DEF ClassesInv
    <2>9. CASE ~ (8 * j + 8 <= 1024)
      <3>1. j = 128  BY <2>2, <2>9
      <3>2. cur_size' = 512 * 2 /\ phase' = "sizemap2"
        BY <1>1, <2>2, <2>9 DEF Classes!FillSizemap
      <3>3. Filled8'  BY <2>7, <3>1 DEF Filled8
      <3>4. Least(c, 1024) /\ c >= 34
        <4>1. Least(c, 1024)  BY <2>4, <3>1
        <4>2. c \in 0..46 /\ 1024 <= SizeOf(c)  BY <4>1 DEF Least
        <4>3. ~ (c \in 0..33)
          <5> SUFFICES ASSUME c \in 0..33  PROVE FALSE  OBVIOUS
          <5>1. SizeOf(c) < 1024 /\ SizeOf(c) \in Nat  BY SizesApart
          <5> QED  BY <4>2, <5>1
        <4> QED  BY <4>1, <4>2, <4>3
      <3>5. \A i \in 1..2 - 2 : Least(sizemap2'[i], 512 * (i + 1))  OBVIOUS
      <3> QED  BY <2>6, <2>7, <3>2, <3>3, <3>4, <3>5 DEF ClassesInv
    <2> QED  BY <2>8, <2>9
  <1>2. CASE Classes!FillSizemap2
    <2>1. phase = "sizemap2"  BY <1>2 DEF Classes!FillSizemap2
    <2>2. PICK j \in Nat :
             /\ 2 <= j /\ j <= 128 /\ cur_size = 512 * j /\ cur_class >= 34
             /\ IF j = 2 THEN Least(cur_class, 1024) ELSE Reaching(cur_class, 512 * j, 512)
             /\ \A i \in 1..j - 2 : Least(sizemap2[i], 512 * (i + 1))
      BY <2>1 DEF ClassesInv
    <2>3. PICK c : c = Classes!Advanced(512 * j, cur_class)  OBVIOUS
    <2>4. Least(c, 512 * j) /\ c \in Nat /\ c >= 34
      <3>1. cur_class \in Nat /\ 512 * j \in Nat /\ 512 * j <= 65536  BY <2>2 DEF Reaching, Least
      <3>2. CASE j = 2
        <4>1. Least(cur_class, 512 * j)  BY <2>2, <3>2
        <4>2. c = cur_class  BY <2>3, <3>1, <4>1, AdvancedLeast
        <4> QED  BY <2>2, <3>1, <4>1, <4>2
      <3>3. CASE j # 2
        <4>1. Reaching(cur_class, 512 * j, 512)  BY <2>2, <3>3
        <4>2. Least(c, 512 * j)  BY <2>2, <2>3, <3>1, <4>1, AdvancedLeast
        <4>3. c = cur_class \/ c = cur_class + 1  BY <2>3 DEF Classes!Advanced
        <4> QED  BY <2>2, <3>1, <4>2, <4>3
      <3> QED  BY <3>2, <3>3
    <2>5. (512 * j - 1) \div 512 = j - 1  BY <2>2
    <2>6. /\ cur_class' = c /\ sizemap2' = [sizemap2 EXCEPT ![j - 1] = c] /\ sizemap' = sizemap
          /\ cur_size' = 512 * (j + 1)
      <3>1. /\ cur_class' = Classes!Advanced(cur_size, cur_class)
            /\ sizemap2' = [sizemap2 EXCEPT ![(cur_size - 1) \div 512] = Classes!Advanced(cur_size, cur_class)]
            /\ sizemap' = sizemap /\ cur_size' = cur_size + 512
        BY <1>2, SMT DEF Classes!FillSizemap2
      <3>2. cur_size = 512 * j /\ 512 * (j + 1) = 512 * j + 512  BY <2>2
      <3>3. cur_size' = 512 * (j + 1)  BY <3>1, <3>2
      <3>4. (cur_size - 1) \div 512 = j - 1  BY <2>5, <3>2
      <3>5. Classes!Advanced(cur_size, cur_class) = c  BY <2>3, <3>2
      <3> QED  BY <3>1, <3>3, <3>4, <3>5
    <2>7. sizemap2' \in [Classes!Slot2 -> Nat] /\ \A i \in 1..j - 1 : Least(sizemap2'[i], 512 * (i + 1))
      <3>1. j - 1 \in Classes!Slot2  BY <2>2 DEF Classes!Slot2
      <3>2. sizemap2' \in [Classes!Slot2 -> Nat]
        <4>1. sizemap2 \in [Classes!Slot2 -> Nat]  BY DEF ClassesInv
        <4> QED  BY <2>4, <2>6, <4>1
      <3>3. ASSUME NEW i \in 1..j - 1  PROVE Least(sizemap2'[i], 512 * (i + 1))
        <4>1. CASE i = j - 1
          <5>1. sizemap2'[i] = c /\ 512 * (i + 1) = 512 * j  BY <2>2, <2>6, <3>1, <4>1 DEF ClassesInv
          <5> QED  BY <2>4, <5>1
        <4>2. CASE i # j - 1
          <5>1. i \in 1..j - 2 /\ i \in Classes!Slot2  BY <2>2, <4>2 DEF Classes!Slot2
          <5>2. sizemap2'[i] = sizemap2[i]  BY <2>6, <4>2, <5>1 DEF ClassesInv
          <5> QED  BY <2>2, <5>1, <5>2
        <4> QED  BY <4>1, <4>2
      <3> QED  BY <3>2, <3>3
    <2>8. Filled8'  BY <2>1, <2>6 DEF ClassesInv, Filled8
    <2>9. CASE 512 * (j + 1) <= 65536
      <3>1. phase' = "sizemap2" /\ j + 1 \in Nat /\ j + 1 <= 128 /\ j + 1 >= 3
        BY <1>2, <2>1, <2>2, <2>9 DEF Classes!FillSizemap2
      <3>2. Reaching(c, 512 * (j + 1), 512)
        <4>1. 512 * j \in Nat /\ 512 * (j + 1) = 512 * j + 512  BY <2>2
        <4> QED  BY <2>4, <4>1, AdvancedLeast
      <3>3. \A i \in 1..(j + 1) - 2 : Least(sizemap2'[i], 512 * (i + 1))
        <4>1. (j + 1) - 2 = j - 1  BY <2>2
        <4> QED  BY <2>7, <4>1
      <3> QED  BY <2>4, <2>6, <2>7, <2>8, <3>1, <3>2, <3>3 DEF ClassesInv
    <2>10. CASE ~ (512 * (j + 1) <= 65536)
      <3>1. j = 128  BY <2>2, <2>10
      <3>2. phase' = "done"  BY <1>2, <2>2, <2>10 DEF Classes!FillSizemap2
      <3>3. Filled512'  BY <2>7, <3>1 DEF Filled512
      <3> QED  BY <2>6, <2>7, <2>8, <3>2, <3>3 DEF ClassesInv
    <2> QED  BY <2>9, <2>10
  <1> QED  BY <1>1, <1>2 DEF Classes!Next

-----------------------------------------------------------------------------
\* One of the algorithms runs; the others stay as they are.
IInv == SelectInv /\ QueueInv /\ ScanInv /\ ClassesInv

\* The areas start in the order they are listed, with wear 1, and the queue
\* starts empty.
LEMMA InitIInv == Init => IInv
  <1> SUFFICES ASSUME Init  PROVE IInv  OBVIOUS
  <1>1. Select!Init /\ Queue!Init  BY DEF Init
  <1>2. SelectInv  BY <1>1 DEF Select!Init, SelectInv, AllListed, Select!Area, Areas, SortedSoFar
  <1>3. /\ wear_tot = [c \in Chunk |-> 0] /\ pq = [heap |-> <<>>, size |-> InitSize + 1] /\ queued = {}
    BY <1>1 DEF Queue!Init
  <1>4. InitSize + 1 \in Nat /\ 0 < InitSize + 1  BY AlgorithmsAssumption
  <1>5. <<>> \in Seq(Chunk) /\ Len(<<>>) = 0  OBVIOUS
  <1>6. pq.heap = <<>> /\ pq.size = InitSize + 1 /\ pq \in [heap : Seq(Chunk), size : Nat]
    BY <1>3, <1>4, <1>5
  <1>7. QueueInv  BY <1>3, <1>4, <1>5, <1>6 DEF QueueInv, Filed, Ordered
  <1>8. ScanInv
    <2>1. CASE machine = "scan"
      <3>1. last_pos \in Scan!Totals /\ bitmap = 0..last_pos - 1
        BY <2>1 DEF Init, Scan!Init, Scan!Full
      <3>2. PICK k \in 1..64 : last_pos = 64 \div k  BY <3>1 DEF Scan!Totals
      <3>3. last_pos \in 0..64  BY <3>2
      <3> QED  BY <3>1, <3>3 DEF ScanInv
    <2>2. CASE machine # "scan"
      <3>1. bitmap = {} /\ last_pos = 1  BY <2>2 DEF Init
      <3> QED  BY <3>1 DEF ScanInv
    <2> QED  BY <2>1, <2>2
  <1>9. ClassesInv
    <2>1. /\ phase = "sizemap" /\ cur_size = 8 /\ cur_class = 0
          /\ sizemap = [i \in Classes!Slot |-> 0] /\ sizemap2 = [i \in Classes!Slot2 |-> 0]
      BY DEF Init, Classes!Init
    <2>2. Reaching(0, 8 * 1, 8)
      <3>1. SizeOf(0) \in Nat  BY SizesApart
      <3> QED  BY <3>1 DEF Reaching
    <2>3. cur_size = 8 * 1 /\ \A i \in 0..1 - 2 : Least(sizemap[i], 8 * (i + 1))  BY <2>1
    <2> QED  BY <2>1, <2>2, <2>3 DEF ClassesInv
  <1> QED  BY <1>2, <1>7, <1>8, <1>9 DEF IInv

\* The invariant of an algorithm speaks of its own variables.
LEMMA Unmoved ==
  /\ SelectInv /\ UNCHANGED selectVars => SelectInv'
  /\ QueueInv /\ UNCHANGED queueVars => QueueInv'
  /\ ScanInv /\ UNCHANGED scanVars => ScanInv'
  /\ ClassesInv /\ UNCHANGED classesVars => ClassesInv'
  <1>1. SelectInv /\ UNCHANGED selectVars => SelectInv'
    BY DEF SelectInv, AllListed, selectVars, SortedSoFar, InOrder, NotAbove, Select!Above
  <1>2. QueueInv /\ UNCHANGED queueVars => QueueInv'
    BY DEF QueueInv, queueVars
  <1>3. ScanInv /\ UNCHANGED scanVars => ScanInv'  BY DEF ScanInv, scanVars
  <1>4. ClassesInv /\ UNCHANGED classesVars => ClassesInv'
    BY DEF ClassesInv, classesVars, Filled8, Filled512
  <1> QED  BY <1>1, <1>2, <1>3, <1>4

\* Every step preserves the invariant, and one that takes a chunk out of the
\* queue takes a least worn one.
LEMMA StepIInv ==
  ASSUME IInv, [Next]_vars
  PROVE  /\ IInv'
         /\ \A c \in queued \ queued' : \A d \in queued : wear_tot[c] <= wear_tot[d]
  <1>1. SelectInv /\ QueueInv /\ ScanInv /\ ClassesInv  BY DEF IInv
  <1>2. CASE UNCHANGED selectVars /\ UNCHANGED queueVars /\ UNCHANGED scanVars /\ UNCHANGED classesVars
    BY <1>1, <1>2, Unmoved DEF IInv, queueVars
  <1>3. CASE RunSelect
    <2>1. Select!Next /\ UNCHANGED queueVars /\ UNCHANGED scanVars /\ UNCHANGED classesVars
      BY <1>3 DEF RunSelect
    <2>2. CASE Select!Compare  BY <1>1, <2>1, <2>2, CompareSorts, Unmoved DEF IInv, queueVars
    <2>3. CASE Select!Search
      <3>1. /\ worn' = worn /\ nvm' = [i \in Areas |-> i] /\ compared' = 0 /\ undisturbed' = TRUE
        BY <2>3 DEF Select!Search, Select!Area, Areas
      <3>2. SelectInv'  BY <1>1, <3>1 DEF SelectInv, AllListed, SortedSoFar, Areas
      <3> QED  BY <1>1, <2>1, <3>2, Unmoved DEF IInv, queueVars
    <2>4. ASSUME NEW a \in Areas, Select!Recalculate(a)  PROVE SelectInv'
      BY <1>1, <2>4, RecalculateKeeps
    <2> QED  BY <1>1, <2>1, <2>2, <2>3, <2>4, Unmoved DEF Select!Next, Select!Area, Areas, IInv, queueVars
  <1>4. CASE RunQueue
    <2>1. Queue!Next /\ UNCHANGED selectVars /\ UNCHANGED scanVars /\ UNCHANGED classesVars
      BY <1>4 DEF RunQueue
    <2>2. CASE Queue!TakeMin  BY <1>1, <2>1, <2>2, TakeMinKeeps, Unmoved DEF IInv
    <2>3. ASSUME NEW c \in Chunk, Queue!Reap(c)  PROVE QueueInv' /\ queued \subseteq queued'
      BY <1>1, <2>3, ReapKeeps
    <2> QED  BY <1>1, <2>1, <2>2, <2>3, Unmoved DEF Queue!Next, IInv
  <1>5. CASE RunScan
    <2>1. Scan!Next /\ UNCHANGED selectVars /\ UNCHANGED queueVars /\ UNCHANGED classesVars
      BY <1>5 DEF RunScan
    <2> QED  BY <1>1, <2>1, ScanKeeps, Unmoved DEF IInv, queueVars
  <1>6. CASE RunClasses
    <2>1. Classes!Next /\ UNCHANGED selectVars /\ UNCHANGED queueVars /\ UNCHANGED scanVars
      BY <1>6 DEF RunClasses
    <2> QED  BY <1>1, <2>1, ClassesKeep, Unmoved DEF IInv, queueVars
  <1> QED  BY <1>2, <1>3, <1>4, <1>5, <1>6 DEF Next, vars

\* Every reachable state satisfies the invariant.
LEMMA Invariant == Spec => []IInv
  <1>1. IInv /\ [Next]_vars => IInv'  BY StepIInv
  <1> QED  BY <1>1, InitIInv, PTL DEF Spec

\* span_clock_allocate hands out the lowest free block from the hand on, or
\* from the start: the two halves, the isolated bit and the table agree for
\* every bitmap and every place of the hand.
THEOREM ScanRight == Spec => []ScanFindsLowest
  <1>1. IInv => ScanFindsLowest
    <2> SUFFICES ASSUME IInv, bitmap # {}
                 PROVE  Scan!Scan(Scan!Ahead(bitmap, Scan!Start)) =
                          Scan!Min(Scan!Ahead(bitmap, Scan!Start)) + 1
      BY DEF ScanFindsLowest, Scan!ScanFindsLowest
    <2>1. bitmap \subseteq 0..63  BY DEF IInv, ScanInv
    <2>2. PICK w : w = Scan!Ahead(bitmap, Scan!Start)  OBVIOUS
    <2>3. w \subseteq 0..63 /\ w # {}
      <3>1. Scan!Ahead(bitmap, 0) = bitmap
        <4>1. Scan!Ahead(bitmap, 0) = bitmap \cap {b \in 0..63 : b >= 0}
          BY DEF Scan!Ahead, Scan!Bits
        <4>2. \A b \in 0..63 : b >= 0  OBVIOUS
        <4> QED  BY <2>1, <4>1, <4>2
      <3>2. CASE Scan!Restarts  BY <2>1, <2>2, <3>1, <3>2 DEF Scan!Start
      <3>3. CASE ~ Scan!Restarts
        <4>1. w = Scan!Ahead(bitmap, cur_pos)  BY <2>2, <3>3 DEF Scan!Start
        <4>2. w # {}  BY <3>3, <4>1 DEF Scan!Restarts
        <4> QED  BY <2>1, <4>1, <4>2 DEF Scan!Ahead
      <3> QED  BY <3>2, <3>3
    <2> QED  BY <2>2, <2>3, LowestScanned
  <1> QED  BY <1>1, Invariant, PTL

\* size2cls gives a request the smallest class that holds it, at every size
\* up to the largest class: the two loops of maps_init agree with the list of
\* the class sizes at the boundaries of the classes and of the tables.
THEOREM SmallestClassFound == Spec => []SmallestClass
  <1>1. IInv => SmallestClass
    <2> SUFFICES ASSUME IInv, phase = "done"
                 PROVE  /\ \A size \in 1..Classes!CHUNK_DATA_SIZE :
                             LET c == Classes!size2cls(size)
                             IN  /\ c < Classes!DEFAULT_BLOCK_CLASS
                                 /\ size <= Classes!cls2size[c]
                                 /\ c = 0 \/ Classes!cls2size[c - 1] < size
                                 /\ Classes!cls2size[c] <= Classes!CHUNK_DATA_SIZE
                        /\ Classes!size2cls(Classes!CHUNK_DATA_SIZE + 1) = Classes!LARGE_CLASS
      BY DEF SmallestClass, Classes!SmallestClass
    <2>1. Filled8 /\ Filled512  BY DEF IInv, ClassesInv
    <2>c. Classes!CHUNK_DATA_SIZE = 65536  BY DEF Classes!CHUNK_DATA_SIZE
    <2>2. ASSUME NEW size \in 1..Classes!CHUNK_DATA_SIZE, NEW c, c = Classes!size2cls(size)
          PROVE  Least(c, size)
      <3>n. size \in Nat \ {0} /\ size <= 65536  BY SMTT(30), <2>c
      <3>1. CASE size <= 1024
        <4>1. PICK i \in Nat : i <= 127 /\ i = (size - 1) \div 8 /\ size <= 8 * (i + 1) /\ 8 * i < size
          <5>1. (size - 1) \div 8 \in Nat /\ (size - 1) \div 8 <= 127  BY <3>1, <3>n
          <5>2. size <= 8 * ((size - 1) \div 8 + 1) /\ 8 * ((size - 1) \div 8) < size  BY <3>n
          <5> QED  BY <5>1, <5>2
        <4>2. c = sizemap[i]  BY <2>2, <3>1, <4>1 DEF Classes!size2cls
        <4>3. Least(c, 8 * (i + 1))  BY <2>1, <4>1, <4>2 DEF Filled8
        <4>4. c \in 0..46 /\ 8 * (i + 1) <= SizeOf(c) /\ (c = 0 \/ SizeOf(c - 1) < 8 * (i + 1))
          BY <4>3 DEF Least
        <4>5. SizeOf(c) \in Nat  BY <4>4, SizesApart
        <4>6. c # 0 => SizeOf(c - 1) < size
          <5>1. SUFFICES ASSUME c # 0  PROVE SizeOf(c - 1) < size  OBVIOUS
          <5>2. c - 1 \in 0..46  BY <4>4, <5>1
          <5>3. SizeOf(c - 1) \in Nat /\ SizeOf(c - 1) % 8 = 0  BY <5>2, SizesApart
          <5>4. SizeOf(c - 1) < 8 * (i + 1)  BY <4>4, <5>1
          <5>5. SizeOf(c - 1) <= 8 * i  BY <5>3, <5>4
          <5> QED  BY <3>n, <4>1, <5>3, <5>5
        <4> QED  BY <3>n, <4>1, <4>4, <4>5, <4>6 DEF Least
      <3>2. CASE size > 1024
        <4>1. PICK i \in Nat : 2 <= i /\ i <= 127 /\ i = (size - 1) \div 512 /\ size <= 512 * (i + 1) /\ 512 * i < size
          <5>1. /\ (size - 1) \div 512 \in Nat
                /\ 2 <= (size - 1) \div 512 /\ (size - 1) \div 512 <= 127
            BY <3>2, <3>n
          <5>2. size <= 512 * ((size - 1) \div 512 + 1) /\ 512 * ((size - 1) \div 512) < size
            BY <3>n
          <5> QED  BY <5>1, <5>2
        <4>2. c = sizemap2[i]  BY <2>2, <3>2, <4>1 DEF Classes!size2cls
        <4>3. Least(c, 512 * (i + 1))  BY <2>1, <4>1, <4>2 DEF Filled512
        <4>4. c \in 0..46 /\ 512 * (i + 1) <= SizeOf(c) /\ (c = 0 \/ SizeOf(c - 1) < 512 * (i + 1))
          BY <4>3 DEF Least
        <4>5. SizeOf(c) \in Nat  BY <4>4, SizesApart
        <4>6. c \in 35..46
          <5>1. SizeOf(c) > 1024  BY <3>n, <4>1, <4>4, <4>5
          <5>2. c \notin 0..33  BY <5>1, <4>5, SizesApart
          <5>3. c # 34  BY <5>1, SizeTable
          <5> QED  BY <4>4, <5>2, <5>3
        <4>7. c - 1 \in 34..46  BY <4>6
        <4>8. SizeOf(c - 1) \in Nat /\ SizeOf(c - 1) % 512 = 0  BY <4>7, SizesApart
        <4>9. SizeOf(c - 1) < 512 * (i + 1)  BY <4>4, <4>6
        <4>10. SizeOf(c - 1) <= 512 * i  BY <4>8, <4>9
        <4>11. SizeOf(c - 1) < size  BY SMTT(30), <3>n, <4>1, <4>8, <4>10
        <4> QED  BY <3>n, <4>1, <4>4, <4>5, <4>11 DEF Least
      <3> QED  BY SMTT(30), <3>1, <3>2
    <2>3. ASSUME NEW size \in 1..Classes!CHUNK_DATA_SIZE, NEW c, c = Classes!size2cls(size)
          PROVE  /\ c < Classes!DEFAULT_BLOCK_CLASS
                 /\ size <= Classes!cls2size[c]
                 /\ c = 0 \/ Classes!cls2size[c - 1] < size
                 /\ Classes!cls2size[c] <= Classes!CHUNK_DATA_SIZE
      <3>1. Least(c, size)  BY <2>2, <2>3
      <3>2. c \in 0..46  BY <3>1 DEF Least
      <3>3. SizeOf(c) <= 65536  BY <3>2, SizesApart
      <3>4. Classes!DEFAULT_BLOCK_CLASS = 48  BY DEF Classes!DEFAULT_BLOCK_CLASS
      <3> QED  BY SMTT(30), <2>c, <3>1, <3>2, <3>3, <3>4 DEF Least, SizeOf
    <2>4. Classes!size2cls(Classes!CHUNK_DATA_SIZE + 1) = Classes!LARGE_CLASS  BY <2>c DEF Classes!size2cls
    <2> QED  BY <2>3, <2>4
  <1> QED  BY <1>1, Invariant, PTL

\* The search of hpnmalloc comes to every area whatever other threads change,
\* and tries the areas by priority when no priority has changed since it copied
\* the list, whatever the limits and the wear.
THEOREM SortedByPriority == Spec => []TriedByPriority
  <1>1. IInv => TriedByPriority
    BY DEF IInv, SelectInv, AllListed, SortedSoFar, InOrder, NotAbove, TriedByPriority,
           Select!TriedByPriority, Select!Area, Areas
  <1> QED  BY <1>1, Invariant, PTL

\* pq.c neither loses nor copies a chunk, and its array never overflows,
\* whatever the number of chunks and the order they come and go in.
THEOREM QueueHolds == Spec => []HoldsQueued
  <1>1. ASSUME IInv  PROVE HoldsQueued
    <2>1. Filed(pq.heap, queued) /\ Len(pq.heap) < pq.size  BY <1>1 DEF IInv, QueueInv
    <2>2. Len(pq.heap) = Cardinality(queued)  BY <2>1, FiledCount
    <2>3. Queue!ToSet(pq.heap) = queued
      <3>1. DOMAIN pq.heap = 1..Len(pq.heap)  BY <2>1 DEF Filed
      <3> QED  BY <2>1, <3>1 DEF Queue!ToSet, Filed
    <2>4. Queue!Cardinality(queued) = Cardinality(queued)
      BY DEF Queue!Cardinality, Cardinality
    <2> QED  BY <2>1, <2>2, <2>3, <2>4 DEF HoldsQueued, Queue!HoldsQueued, Queue!nalloc
  <1> QED  BY <1>1, Invariant, PTL

\* The chunk pq.c hands out is never more worn than one that waits.
THEOREM LeastWornTaken == Spec => LeastWornFirst
  <1> DEFINE A == \A c \in queued \ queued' : \A d \in queued : wear_tot[c] <= wear_tot[d]
  <1>1. IInv /\ [Next]_vars => [A]_(Queue!vars)  BY StepIInv
  <1>2. LeastWornFirst <=> [][A]_(Queue!vars)  BY DEF LeastWornFirst, Queue!LeastWornFirst
  <1> HIDE DEF A
  <1> QED  BY <1>1, <1>2, Invariant, PTL DEF Spec
=============================================================================
