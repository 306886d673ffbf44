---------------------------- MODULE MCAlgorithms ----------------------------
(***************************************************************************)
(* The allocators' self-contained algorithms for TLC, one per behaviour:    *)
(* the scan of a bitmap and the order of the areas of HPNMalloc, the size   *)
(* classes and the queue of worn chunks of TCNVMalloc.                      *)
(***************************************************************************)
EXTENDS Naturals, FiniteSets

CONSTANTS Chunk, InitSize, MaxWear, memory_wear_limit, FreedBits

ASSUME AlgorithmsAssumption ==
  /\ IsFiniteSet(Chunk) /\ InitSize \in Nat \ {0} /\ MaxWear \in Nat
  /\ \A a \in 1..4 : memory_wear_limit[a] \in Nat \ {0}

VARIABLES
  machine,                                               \* the algorithm that runs
  bitmap, cur_pos, last_pos,                             \* BitScan
  worn, recalculated, nvm, compared, undisturbed,        \* AreaSelect
  phase, cur_size, cur_class, sizemap, sizemap2,         \* SizeClasses
  pq, wear_tot, queued                                   \* PriorityQueue

\* The limits of the four areas, in the order the code gives them.
ScaledLimits == <<3, 3, 1, 2>>

Scan    == INSTANCE BitScan
Select  == INSTANCE AreaSelect
Classes == INSTANCE SizeClasses
Queue   == INSTANCE PriorityQueue

scanVars    == <<bitmap, cur_pos, last_pos>>
selectVars  == <<worn, recalculated, nvm, compared, undisturbed>>
classesVars == <<phase, cur_size, cur_class, sizemap, sizemap2>>
queueVars   == <<pq, wear_tot, queued>>

vars == <<machine, scanVars, selectVars, classesVars, queueVars>>

Init ==
  /\ machine \in {"scan", "select", "classes", "queue"}
  /\ IF machine = "scan" THEN Scan!Init ELSE bitmap = {} /\ cur_pos = 0 /\ last_pos = 1
  /\ Select!Init /\ Classes!Init /\ Queue!Init

RunScan    == machine = "scan" /\ Scan!Next
                /\ UNCHANGED <<machine, selectVars, classesVars, queueVars>>
RunSelect  == machine = "select" /\ Select!Next
                /\ UNCHANGED <<machine, scanVars, classesVars, queueVars>>
RunClasses == machine = "classes" /\ Classes!Next
                /\ UNCHANGED <<machine, scanVars, selectVars, queueVars>>
RunQueue   == machine = "queue" /\ Queue!Next
                /\ UNCHANGED <<machine, scanVars, selectVars, classesVars>>

Next == RunScan \/ RunSelect \/ RunClasses \/ RunQueue

Spec == Init /\ [][Next]_vars

-----------------------------------------------------------------------------
\* BitScan: the block handed out is the lowest free one from the hand on.
ScanFindsLowest == Scan!ScanFindsLowest

\* AreaSelect: the search comes to every area; undisturbed, to the least worn
\* one first.
TriedByPriority == Select!TriedByPriority

\* SizeClasses: a request gets the smallest class that holds it.
SmallestClass == Classes!SmallestClass

\* PriorityQueue: its array holds every chunk filed, once, ...
HoldsQueued == Queue!HoldsQueued

\* ... and yields a least worn one.
LeastWornFirst == Queue!LeastWornFirst
=============================================================================
