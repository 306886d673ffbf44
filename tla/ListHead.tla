------------------------------ MODULE ListHead ------------------------------
(***************************************************************************)
(* list.h: circular doubly linked lists threaded through the objects they   *)
(* link.  A memory L is a record whose fields next and prev are functions   *)
(* on the nodes (list heads and spans); the other fields are left alone.    *)
(* list_del leaves the links of the deleted node as they were: the line     *)
(* that would clear them is commented out in the code.                      *)
(***************************************************************************)
EXTENDS Integers, Sequences, FiniteSetsExt

INIT_LIST_HEAD(L, n) == [L EXCEPT !.next[n] = n, !.prev[n] = n]

\* __list_add: new between prv and nxt, in the order of the assignments.
Link(L, new, prv, nxt) ==
  [L EXCEPT !.next[new] = nxt,
            !.prev[nxt] = new,
            !.next[prv] = new,
            !.prev[new] = prv]

list_add(L, new, at)        == Link(L, new, at, L.next[at])
list_add_tail(L, new, head) == Link(L, new, L.prev[head], head)

\* __list_del on the links the entry holds, current or stale.
list_del(L, e) ==
  [L EXCEPT !.next[L.prev[e]] = L.next[e],
            !.prev[L.next[e]] = L.prev[e]]

list_empty(L, head) == L.next[head] = head /\ L.prev[head] = head

\* The entry is between two nodes that hold it as their neighbour: what the
\* comment of __list_del, "delete a entry to two consecutive entries", asks.
Linked(L, e) == L.next[L.prev[e]] = e /\ L.prev[L.next[e]] = e

\* list_del of an entry that is on no list writes into a list it has left,
\* and that list has changed since.
Strays(L, e) == ~Linked(L, e) /\ <<L.next[L.prev[e]], L.prev[L.next[e]]>> # <<L.next[e], L.prev[e]>>

\* The nodes list_for_each visits, in order, at most bound of them.
Entries(L, head, bound) ==
  LET at[k \in 0..bound + 1] == IF k = 0 THEN head ELSE L.next[at[k - 1]]
      ends == {k \in 1..bound : at[k] = head}
  IN  [k \in 1..(IF ends = {} THEN bound ELSE Min(ends) - 1) |-> at[k]]
EntrySet(L, head, bound) ==
  LET e == Entries(L, head, bound) IN {e[j] : j \in DOMAIN e}
=============================================================================
