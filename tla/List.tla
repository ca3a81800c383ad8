-------------------------------- MODULE List --------------------------------
(***************************************************************************)
(* The doubly linked lists of lib/kernel/list.c as functions on the memory *)
(* m that holds the pointers: m.front[x] and m.next[x] of every element x. *)
(* The head and the tail of a list are elements too.  Each function that   *)
(* changes pointers runs with interrupts off; list_push and list_pop read  *)
(* head.next before that.                                                  *)
(***************************************************************************)
EXTENDS Integers, Sequences

CONSTANTS
  Lists,    \* the lists
  Elems,    \* what is put in them: the tags inside other structures
  NULL

head(l) == <<"head", l>>
tail(l) == <<"tail", l>>
heads == {head(l) : l \in Lists}
tails == {tail(l) : l \in Lists}
Nodes == Elems \cup heads \cup tails

Links == [front : [Nodes -> Nodes \cup {NULL}], next : [Nodes -> Nodes \cup {NULL}]]

(* All of the lists after list_init. *)
list_init ==
  [front |-> [x \in Nodes |-> IF x \in tails THEN head(x[2]) ELSE NULL],
   next |-> [x \in Nodes |-> IF x \in heads THEN tail(x[2]) ELSE NULL]]

(* A faulty variant: before keeps its old neighbour. *)
list_insert_half(m, before, elem) ==
  [front |-> [m.front EXCEPT ![elem] = m.front[before]],
   next |-> [m.next EXCEPT ![m.front[before]] = elem, ![elem] = before]]

list_insert_before(m, before, elem) ==
  [front |-> [m.front EXCEPT ![elem] = m.front[before], ![before] = elem],
   next |-> [m.next EXCEPT ![m.front[before]] = elem, ![elem] = before]]

list_push(m, l, elem) == list_insert_before(m, m.next[head(l)], elem)

list_append(m, l, elem) ==
  [front |-> [m.front EXCEPT ![elem] = m.front[tail(l)], ![tail(l)] = elem],
   next |-> [m.next EXCEPT ![m.front[tail(l)]] = elem, ![elem] = tail(l)]]

(* A faulty variant: the element that leaves is cut off as well. *)
list_remove_clear(m, elem) ==
  [front |-> [m.front EXCEPT ![m.next[elem]] = m.front[elem]],
   next |-> [m.next EXCEPT ![m.front[elem]] = m.next[elem], ![elem] = NULL]]

(* elem keeps its own pointers. *)
list_remove(m, elem) ==
  [front |-> [m.front EXCEPT ![m.next[elem]] = m.front[elem]],
   next |-> [m.next EXCEPT ![m.front[elem]] = m.next[elem]]]

(* list_pop: what it returns and what it does. *)
first(m, l) == m.next[head(l)]
list_pop(m, l) == list_remove(m, first(m, l))

list_empty(m, l) == m.next[head(l)] = tail(l)

(* The elements a walk from head.next meets before the tail, at most n of  *)
(* them.                                                                   *)
Walk(m, l, n) ==
  LET from[k \in 0 .. n, x \in Nodes \cup {NULL}] ==
        IF k = 0 \/ x \in {tail(l), NULL} THEN <<>> ELSE <<x>> \o from[k - 1, m.next[x]]
  IN from[n, m.next[head(l)]]

list_search(m, l, target, n) ==
  ~list_empty(m, l) /\ \E i \in DOMAIN Walk(m, l, n) : Walk(m, l, n)[i] = target

-----------------------------------------------------------------------------
(* Node i of list l when it holds the elements of s: 0 is the head.        *)
Node(l, s, i) == IF i = 0 THEN head(l) ELSE IF i = Len(s) + 1 THEN tail(l) ELSE s[i]

(* The pointers spell s, forward and backward. *)
Spells(m, l, s) ==
  \A i \in 0 .. Len(s) :
    /\ m.next[Node(l, s, i)] = Node(l, s, i + 1)
    /\ m.front[Node(l, s, i + 1)] = Node(l, s, i)
=============================================================================
