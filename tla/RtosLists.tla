---------------------------- MODULE RtosLists ----------------------------
(***************************************************************************)
(* The lists of the FreeRTOS kernel (list.c, list.h).                      *)
(*                                                                         *)
(* A list walked with pxIndex is the circular order of its items and its   *)
(* end marker, written so that the LAST element is the one pxIndex points  *)
(* at.  A list that is never walked (delayed tasks, waiting tasks) is the  *)
(* sequence of its items from the head.                                    *)
(***************************************************************************)
EXTENDS Integers, Sequences, SequencesExt, FiniteSetsExt

xListEnd == "xListEnd"

vListInitialise == <<xListEnd>>

\* The number of items: the end marker is none.
listCURRENT_LIST_LENGTH(l) == Len(l) - 1

\* A new item goes before the one pxIndex points at: it is visited last.
vListInsertEnd(l, t) == Front(l) \o <<t, Last(l)>>

\* Removing the item pxIndex points at moves pxIndex to its predecessor, which
\* is what the last element of the remaining order is.
uxListRemove(l, t) ==
  LET here == {i \in 1..Len(l) : l[i] = t}
  IN  IF here = {} THEN l ELSE RemoveAt(l, Min(here))

\* pxIndex moves on by one item and passes over the end marker.
listGET_OWNER_OF_NEXT_ENTRY(l) ==
  LET forward(s) == Tail(s) \o <<Head(s)>>
  IN  IF Head(l) = xListEnd THEN forward(forward(l)) ELSE forward(l)

\* Before the first item of a larger value: a sorted list stays sorted.
vListInsert(l, t, value) ==
  LET larger == {i \in 1..Len(l) : value[l[i]] > value[t]}
  IN  InsertAt(l, IF larger = {} THEN Len(l) + 1 ELSE Min(larger), t)

=============================================================================
