-------------------------------- MODULE SlList --------------------------------
(***************************************************************************)
(* The index-linked lists of the SimpleLink host driver (driver.c).        *)
(* The driver keeps its action objects in an array; each object has a      *)
(* NextIndex field, and a list is a head index in the control block.  An   *)
(* index that is not in the array (MAX_CONCURRENT_ACTIONS) ends a list.    *)
(*                                                                         *)
(* nx is the array of NextIndex fields, DOMAIN nx its indices.             *)
(***************************************************************************)
EXTENDS Integers

(***************************************************************************)
(* Closed(nx, S): following NextIndex from a member of S never leaves S    *)
(* except to the end of the list.                                          *)
(***************************************************************************)
Closed(nx, S) == \A x \in S : nx[x] \in DOMAIN nx => nx[x] \in S

(***************************************************************************)
(* The objects a walk  Idx = head; while (MAX > Idx) Idx = Next[Idx]       *)
(* visits: the least closed set that contains the head.                    *)
(***************************************************************************)
Chain(nx, head) ==
  IF head \in DOMAIN nx
  THEN {x \in DOMAIN nx :
          \A S \in SUBSET DOMAIN nx : head \in S /\ Closed(nx, S) => x \in S}
  ELSE {}

(***************************************************************************)
(* The objects at which such a walk stops when it looks for one in M: the  *)
(* first member of M on the list, if there is one.                         *)
(***************************************************************************)
FirstOf(nx, head, M) ==
  {m \in Chain(nx, head) \cap M :
     \A x \in (Chain(nx, head) \cap M) \ {m} : m \notin Chain(nx, x)}

(***************************************************************************)
(* A list without sharing: no two objects on it have the same successor    *)
(* and none has the head as its successor.  This is what excludes cycles.  *)
(***************************************************************************)
WellFormed(nx, head) ==
  /\ \A x, y \in Chain(nx, head) : nx[x] \in DOMAIN nx /\ nx[x] = nx[y] => x = y
  /\ \A x \in Chain(nx, head) : head \in DOMAIN nx => nx[x] # head

(***************************************************************************)
(* Insertion at the head:  Next[item] = head; head = item.                 *)
(***************************************************************************)
PushNext(nx, head, item) == [nx EXCEPT ![item] = head]

\* Mutated RemoveNext: an object in the middle of a list is not unlinked.
RemoveNext_HeadOnly(nx, head, item, end) == nx

(***************************************************************************)
(* _SlRemoveFromList(&head, item).  The first test of the code looks only  *)
(* at the head: when the head is the last object the list becomes empty,   *)
(* whatever the item is.  RemoveHead is the new value of the list index,   *)
(* RemoveNext the new NextIndex fields.                                    *)
(***************************************************************************)
RemoveHead(nx, head, item, end) ==
  IF nx[head] = end THEN end
  ELSE IF head = item THEN nx[item] ELSE head

RemoveNext(nx, head, item, end) ==
  IF nx[head] = end \/ head = item
  THEN nx
  ELSE [x \in DOMAIN nx |->
          IF x \in Chain(nx, head) /\ nx[x] = item THEN nx[item] ELSE nx[x]]
===============================================================================
