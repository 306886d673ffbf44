----------------------------- MODULE AddressMap -----------------------------
(***************************************************************************)
(* The arithmetic from addresses to headers (hpnmalloc.c): which area and   *)
(* segment an address lies in, and where the span map keeps the header of   *)
(* its page.  The map has two levels: span_map of the area gives the table  *)
(* of a segment, and the table has an entry for each page of the segment.   *)
(*                                                                         *)
(* An address counts units of 64 bytes, a place in the map counts entries.  *)
(***************************************************************************)
EXTENDS Integers

CONSTANTS
  AREA_NUM,  \* number of memory areas
  SegPages,  \* pages of a segment: APPLY_VIRTUAL_MEMORY / PAGE_SIZE
  MaxSegs,   \* bound of the model on the segments of an area
  PageUnits  \* 64-byte units of a page: PAGE_SIZE / MIN_STORE_UNIT

ASSUME AddressAssumption ==
  /\ AREA_NUM \in Nat \ {0} /\ SegPages \in Nat \ {0} /\ MaxSegs \in Nat \ {0}
  /\ PageUnits \in 1..64

Area      == 0..AREA_NUM - 1
AreaPages == SegPages * MaxSegs

\* The areas, and their maps, lie so far apart that they never meet.
RAW_POOL_START(a)      == (a + 1) * 2 * AreaPages * PageUnits
SPAN_MAP_POOL_START(a) == a * AreaPages
MapEntries             == 0..AREA_NUM * AreaPages - 1

\* The last area that starts at or before the address.
AreaOfAddress(addr) ==
  CHOOSE a \in Area :
    /\ a = 0 \/ addr >= RAW_POOL_START(a)
    /\ \A b \in Area : b > a => addr < RAW_POOL_START(b)

\* Of an offset into an area: its segment, and its page there.
memory_index(off) == off \div (SegPages * PageUnits)

\* Mutant: the division by the page size left out.
span_index_units(off) == off % SegPages

span_index(off) == (off \div PageUnits) % SegPages

\* The place in the map for the page at an offset, by the tables of the area.
EntryAt(tables, off) == tables[memory_index(off)] + span_index(off)
=============================================================================
