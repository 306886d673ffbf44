----------------------------- MODULE AreaSelect -----------------------------
(***************************************************************************)
(* The order in which small_malloc and large_malloc (hpnmalloc.c) try the   *)
(* areas: six comparisons sort the four areas by priority, and the search   *)
(* starts with the last.  The priorities are read without a lock; another   *)
(* thread that has allocated in an area recalculates the area's at any time *)
(* between two comparisons.                                                 *)
(*                                                                         *)
(* The priority (init_priority of wtcpa.c) is limit / (limit - remain), the *)
(* wear limit over the wear; with no wear the division of doubles gives     *)
(* infinity.  Priorities are compared as fractions, without rounding.       *)
(***************************************************************************)
EXTENDS Naturals

CONSTANTS
  memory_wear_limit, \* of each area, a sequence
  MaxWear            \* bound of the model on max_wc_count

VARIABLES
  worn,         \* memory_wear_limit - memory_wear_remain of each area
  recalculated, \* areas whose priority was recalculated at all
  nvm,          \* the thread's copy of the list of areas
  compared,     \* comparisons made
  undisturbed   \* for checking: no priority has changed since the copy

vars == <<worn, recalculated, nvm, compared, undisturbed>>

Area == 1..4

\* make_init_nvm_area is given a remain of one less than the limit.
Init ==
  /\ worn = [a \in Area |-> 1]
  /\ recalculated = {}
  /\ nvm = [i \in Area |-> i]
  /\ compared = 0
  /\ undisturbed = TRUE

\* nvm[i]->priority > nvm[j]->priority, for areas a and b.
Above(a, b) == memory_wear_limit[a] * worn[b] > memory_wear_limit[b] * worn[a]

\* Mutant: one pass over the list after another, the second one short.
Exchange_short == <<1, 2, 3, 1, 1, 1>>

\* The first of the two places each comparison looks at.
Exchange == <<1, 2, 3, 1, 2, 1>>

Compare ==
  /\ compared < 6
  /\ LET i == Exchange[compared + 1]
     IN  nvm' = IF Above(nvm[i], nvm[i + 1])
                THEN [nvm EXCEPT ![i] = nvm[i + 1], ![i + 1] = nvm[i]] ELSE nvm
  /\ compared' = compared + 1
  /\ UNCHANGED <<worn, recalculated, undisturbed>>

\* The next search copies the list afresh.
Search ==
  /\ compared = 6
  /\ nvm' = [i \in Area |-> i]
  /\ compared' = 0
  /\ undisturbed' = TRUE
  /\ UNCHANGED <<worn, recalculated>>

\* recalculate_priority by another thread, with the max_wc_count that spans
\* given back meanwhile have raised; it starts from none.
Recalculate(a) ==
  /\ \E w \in (IF a \in recalculated THEN worn[a] ELSE 0)..MaxWear :
       /\ worn' = [worn EXCEPT ![a] = w]
       /\ undisturbed' = (undisturbed /\ w = worn[a])
  /\ recalculated' = recalculated \cup {a}
  /\ UNCHANGED <<nvm, compared>>

Next == Compare \/ Search \/ \E a \in Area : Recalculate(a)

Spec == Init /\ [][Next]_vars

-----------------------------------------------------------------------------
\* However other threads disturb the sort, it neither loses an area nor lists
\* one twice: the search, which goes round the four places, comes to every
\* area's lock.  If none disturbs it, six comparisons leave the areas in order
\* whatever their wear, so that the one tried first, and each one tried after
\* it, is the least worn for its limit of those left.
TriedByPriority ==
  /\ \A a \in Area : \E i \in Area : nvm[i] = a
  /\ compared = 6 /\ undisturbed =>
       \A i, j \in Area : i < j => ~Above(nvm[i], nvm[j])
=============================================================================
