----------------------------- MODULE CyclicSet ------------------------------
(***************************************************************************)
(* The cyclic_unordered_node_set and _map of network_datastructure.h: the  *)
(* bounded memories of internal_rest, from which the oldest entry goes     *)
(* when one is inserted into a full one.                                   *)
(***************************************************************************)
EXTENDS Integers, SequencesExt

\* Room is made before the key is looked up.
EraseFront(s, cap) == IF Len(s) = cap THEN Tail(s) ELSE s

\* insert into a set
CyclicInsert(s, e, cap) ==
  LET kept == EraseFront(s, cap)
  IN IF e \in ToSet(kept) THEN kept ELSE Append(kept, e)

\* insert into a map, whose entries are pairs of a key and a value
CyclicMapInsert(s, e, cap) ==
  LET kept == EraseFront(s, cap)
  IN IF \E p \in ToSet(kept) : p[1] = e[1] THEN kept ELSE Append(kept, e)

\* An insert into s costs e its place.
Forgets(s, cap, e) == Len(s) = cap /\ s[1] = e
=============================================================================
