------------------------- MODULE LockClientsProofs --------------------------
(***************************************************************************)
(* Proofs about LockClients, for any threads, priorities, locks and        *)
(* nesting bound: IInv is inductive; NoPanic, MutualExclusion, ListsAgree  *)
(* and NoLostWakeup follow from it; and LockClients implements Mutex.      *)
(*                                                                         *)
(* Before that, what the functions of List do to a list that spells a      *)
(* sequence, for any number of lists and elements: insertion and removal   *)
(* change it as they change a sequence, and leave the other lists alone.   *)
(* This is what lets Sched, Sync and Heap take lists for sequences.        *)
(***************************************************************************)
EXTENDS LockClients, SyncProofs, SequenceTheorems, List

(* The prover of the leaves that name none, with time for a slow machine. *)
USE ZenonT(60)

(* Tags lie in other structures than the ends of a list. *)
Apart == Elems \cap (heads \cup tails) = {}

(* A list with the elements of s, each once. *)
Holds(m, l, s) ==
  /\ m \in Links /\ l \in Lists /\ s \in Seq(Elems)
  /\ \A i, j \in 1 .. Len(s) : s[i] = s[j] => i = j
  /\ Spells(m, l, s)

Insert(s, i, e) ==
  [j \in 1 .. Len(s) + 1 |-> IF j < i THEN s[j] ELSE IF j = i THEN e ELSE s[j - 1]]
Delete(s, i) == [j \in 1 .. Len(s) - 1 |-> IF j < i THEN s[j] ELSE s[j + 1]]

(* The head, the elements and the tail of a list are nodes, all different. *)
LEMMA NodesDiffer ==
  ASSUME NEW l \in Lists, NEW s \in Seq(Elems), Apart,
         \A i, j \in 1 .. Len(s) : s[i] = s[j] => i = j
  PROVE  /\ \A i \in 0 .. Len(s) + 1 : Node(l, s, i) \in Nodes
         /\ \A i, j \in 0 .. Len(s) + 1 : Node(l, s, i) = Node(l, s, j) => i = j
<1>1. Len(s) \in Nat /\ \A i \in 1 .. Len(s) : s[i] \in Elems
  BY SMT
<1>2. head(l) # tail(l) /\ head(l) \in heads /\ tail(l) \in tails
  BY DEF head, tail, heads, tails
<1>3. head(l) \notin Elems /\ tail(l) \notin Elems
  BY <1>2 DEF Apart
<1>4. \A i \in 0 .. Len(s) + 1 : Node(l, s, i) \in Nodes
  BY <1>1, <1>2, SMT DEF Node, Nodes
<1>5. \A i, j \in 0 .. Len(s) + 1 : Node(l, s, i) = Node(l, s, j) => i = j
  BY <1>1, <1>2, <1>3, SMTT(30) DEF Node
<1> QED
  BY <1>4, <1>5

(* Nodes of two lists with different elements differ. *)
LEMMA ListsDiffer ==
  ASSUME NEW l \in Lists, NEW k \in Lists \ {l}, NEW s \in Seq(Elems), NEW r \in Seq(Elems), Apart,
         \A i \in 1 .. Len(s), j \in 1 .. Len(r) : s[i] # r[j]
  PROVE  \A i \in 0 .. Len(s) + 1, j \in 0 .. Len(r) + 1 : Node(l, s, i) # Node(k, r, j)
<1>1. /\ Len(s) \in Nat /\ \A i \in 1 .. Len(s) : s[i] \in Elems
      /\ Len(r) \in Nat /\ \A i \in 1 .. Len(r) : r[i] \in Elems
  BY SMT
<1>2. /\ head(l) # tail(k) /\ head(l) # head(k) /\ tail(l) # tail(k) /\ tail(l) # head(k)
  BY DEF head, tail
<1>3. {head(l), head(k), tail(l), tail(k)} \cap Elems = {}
  BY DEF head, tail, heads, tails, Apart
<1> QED
  BY <1>1, <1>2, <1>3, SMT DEF Node

(* list_insert_before puts elem in front of the element before, or of the  *)
(* tail: the list then spells the sequence with elem inserted there.       *)
THEOREM InsertSpells ==
  ASSUME NEW m, NEW l, NEW s, NEW e \in Elems, NEW i \in 1 .. Len(s) + 1, Apart,
         Holds(m, l, s), \A j \in 1 .. Len(s) : s[j] # e
  PROVE  Holds(list_insert_before(m, Node(l, s, i), e), l, Insert(s, i, e))
<1> DEFINE n == Len(s)
           t == Insert(s, i, e)
           w == list_insert_before(m, Node(l, s, i), e)
<1>1. /\ m \in Links /\ l \in Lists /\ s \in Seq(Elems) /\ n \in Nat
      /\ \A a, b \in 1 .. n : s[a] = s[b] => a = b
      /\ Spells(m, l, s) /\ \A a \in 1 .. n : s[a] \in Elems
  BY SMT DEF Holds
<1>2. /\ \A a \in 0 .. n + 1 : Node(l, s, a) \in Nodes
      /\ \A a, b \in 0 .. n + 1 : Node(l, s, a) = Node(l, s, b) => a = b
  BY <1>1, NodesDiffer
<1>3. e \in Nodes /\ \A a \in 0 .. n + 1 : Node(l, s, a) # e
  <2>1. e \in Nodes /\ head(l) # e /\ tail(l) # e
    BY <1>1, SMT DEF Nodes, Apart, heads, tails
  <2> QED
    BY <2>1, <1>1, SMTT(30) DEF Node
<1>4. t \in Seq(Elems) /\ Len(t) = n + 1
      /\ \A a \in 1 .. n + 1 : t[a] = IF a < i THEN s[a] ELSE IF a = i THEN e ELSE s[a - 1]
  BY <1>1, SMT DEF Insert
<1> HIDE DEF n, t
<1>5. \A a, b \in 1 .. Len(t) : t[a] = t[b] => a = b
  <2> SUFFICES ASSUME NEW a \in 1 .. n + 1, NEW b \in 1 .. n + 1, t[a] = t[b], a < b
               PROVE  FALSE
    BY <1>1, <1>4, SMT
  <2>1. i \in 1 .. n + 1 /\ \A j \in 1 .. n : s[j] # e
    BY DEF n
  <2>2. CASE b < i
    BY <2>1, <2>2, <1>1, <1>4, SMTT(30)
  <2>3. CASE b = i
    <3>1. t[b] = e /\ t[a] = s[a] /\ a \in 1 .. n
      BY <2>1, <2>3, <1>1, <1>4, SMTT(30)
    <3> QED
      BY <3>1, <2>1
  <2>4. CASE b > i
    <3>1. t[b] = s[b - 1] /\ b - 1 \in 1 .. n
      BY <2>1, <2>4, <1>1, <1>4, SMTT(30)
    <3>2. CASE a < i
      <4>1. t[a] = s[a] /\ a \in 1 .. n /\ a # b - 1
        BY <3>2, <2>1, <2>4, <1>1, <1>4, SMTT(30)
      <4> QED
        BY <4>1, <3>1, <1>1
    <3>3. CASE a = i
      <4>1. t[a] = e
        BY <3>3, <1>1, <1>4, SMTT(30)
      <4> QED
        BY <4>1, <3>1, <2>1
    <3>4. CASE a > i
      <4>1. t[a] = s[a - 1] /\ a - 1 \in 1 .. n /\ a - 1 # b - 1
        BY <3>4, <2>1, <1>1, <1>4, SMTT(30)
      <4> QED
        BY <4>1, <3>1, <1>1
    <3> QED
      BY <3>2, <3>3, <3>4, <2>1, SMTT(30)
  <2> QED
    BY <2>1, <2>2, <2>3, <2>4, SMTT(30)
<1>6. \A a \in 0 .. n + 2 : Node(l, t, a) = IF a < i THEN Node(l, s, a) ELSE IF a = i THEN e ELSE Node(l, s, a - 1)
  <2> SUFFICES ASSUME NEW a \in 0 .. n + 2
               PROVE  Node(l, t, a) = IF a < i THEN Node(l, s, a) ELSE IF a = i THEN e ELSE Node(l, s, a - 1)
    OBVIOUS
  <2>1. i \in 1 .. n + 1
    BY DEF n
  <2>2. \A b \in Int : Node(l, s, b) = IF b = 0 THEN head(l) ELSE IF b = n + 1 THEN tail(l) ELSE s[b]
    BY DEF Node, n
  <2>3. Node(l, t, a) = IF a = 0 THEN head(l) ELSE IF a = n + 2 THEN tail(l) ELSE t[a]
    BY <1>1, <1>4, SMTT(30) DEF Node
  <2> QED
    BY <1>1, <1>4, <2>1, <2>2, <2>3, SMTT(30)
<1> USE DEF n
<1>7. m.front[Node(l, s, i)] = Node(l, s, i - 1)
  <2>1. i - 1 \in 0 .. n /\ (i - 1) + 1 = i
    BY <1>1, SMT
  <2> QED
    BY <2>1, <1>1 DEF Spells
<1>8. /\ w.next = [m.next EXCEPT ![Node(l, s, i - 1)] = e, ![e] = Node(l, s, i)]
      /\ w.front = [m.front EXCEPT ![e] = Node(l, s, i - 1), ![Node(l, s, i)] = e]
  BY <1>7 DEF list_insert_before
<1>9. w \in Links
  <2>1. Node(l, s, i) \in Nodes /\ Node(l, s, i - 1) \in Nodes
    BY <1>1, <1>2, SMTT(30)
  <2> QED
    BY <2>1, <1>1, <1>3, <1>7 DEF list_insert_before, Links
<1>10. Spells(w, l, t)
  <2> SUFFICES ASSUME NEW a \in 0 .. n + 1
               PROVE  /\ w.next[Node(l, t, a)] = Node(l, t, a + 1)
                      /\ w.front[Node(l, t, a + 1)] = Node(l, t, a)
    BY <1>4 DEF Spells
  <2>1. /\ DOMAIN m.next = Nodes /\ DOMAIN m.front = Nodes
    BY <1>1 DEF Links
  <2>2. CASE a < i - 1
    <3>1. Node(l, t, a) = Node(l, s, a) /\ Node(l, t, a + 1) = Node(l, s, a + 1)
      BY <2>2, <1>1, <1>6, SMTT(30)
    <3>2. m.next[Node(l, s, a)] = Node(l, s, a + 1) /\ m.front[Node(l, s, a + 1)] = Node(l, s, a)
      BY <2>2, <1>1, SMTT(30) DEF Spells
    <3>3. Node(l, s, a) # Node(l, s, i - 1) /\ Node(l, s, a + 1) # Node(l, s, i)
      BY <2>2, <1>1, <1>2, SMTT(30)
    <3> QED
      BY <3>1, <3>2, <3>3, <2>1, <2>2, <1>1, <1>2, <1>3, <1>8, SMTT(30)
  <2>3. CASE a = i - 1
    <3>1. Node(l, t, a) = Node(l, s, i - 1) /\ Node(l, t, a + 1) = e
      BY <2>3, <1>1, <1>6, SMTT(30)
    <3> QED
      BY <3>1, <2>1, <2>3, <1>1, <1>2, <1>3, <1>8, SMTT(30)
  <2>4. CASE a = i
    <3>1. Node(l, t, a) = e /\ Node(l, t, a + 1) = Node(l, s, i)
      BY <2>4, <1>1, <1>6, SMTT(30)
    <3> QED
      BY <3>1, <2>1, <2>4, <1>1, <1>2, <1>3, <1>8
  <2>5. CASE a > i
    <3>1. Node(l, t, a) = Node(l, s, a - 1) /\ Node(l, t, a + 1) = Node(l, s, a)
      BY <2>5, <1>1, <1>6, SMTT(30)
    <3>2. m.next[Node(l, s, a - 1)] = Node(l, s, a) /\ m.front[Node(l, s, a)] = Node(l, s, a - 1)
      <4>1. a - 1 \in 0 .. n /\ (a - 1) + 1 = a
        BY <2>5, <1>1, SMTT(30)
      <4> QED
        BY <4>1, <1>1 DEF Spells
    <3>3. Node(l, s, a - 1) # Node(l, s, i - 1) /\ Node(l, s, a) # Node(l, s, i)
      BY <2>5, <1>1, <1>2, SMTT(30)
    <3> QED
      BY <3>1, <3>2, <3>3, <2>1, <2>5, <1>1, <1>2, <1>3, <1>8, SMTT(30)
  <2> QED
    BY <2>2, <2>3, <2>4, <2>5, <1>1, SMTT(30)
<1> QED
  BY <1>1, <1>4, <1>5, <1>9, <1>10 DEF Holds, t

(* list_remove takes the i-th element out: the list spells the rest.       *)
THEOREM RemoveSpells ==
  ASSUME NEW m, NEW l, NEW s, NEW i \in 1 .. Len(s), Apart, Holds(m, l, s)
  PROVE  Holds(list_remove(m, s[i]), l, Delete(s, i))
<1> DEFINE n == Len(s)
           t == Delete(s, i)
           w == list_remove(m, s[i])
<1>1. /\ m \in Links /\ l \in Lists /\ s \in Seq(Elems) /\ n \in Nat
      /\ \A a, b \in 1 .. n : s[a] = s[b] => a = b
      /\ Spells(m, l, s) /\ \A a \in 1 .. n : s[a] \in Elems
  BY SMT DEF Holds
<1>2. /\ \A a \in 0 .. n + 1 : Node(l, s, a) \in Nodes
      /\ \A a, b \in 0 .. n + 1 : Node(l, s, a) = Node(l, s, b) => a = b
  BY <1>1, NodesDiffer
<1>3. i \in 1 .. n /\ s[i] = Node(l, s, i)
  BY <1>1, SMT DEF Node
<1>4. t \in Seq(Elems) /\ Len(t) = n - 1
      /\ \A a \in 1 .. n - 1 : t[a] = IF a < i THEN s[a] ELSE s[a + 1]
  BY <1>1, SMT DEF Delete
<1> HIDE DEF n, t
<1>5. \A a, b \in 1 .. Len(t) : t[a] = t[b] => a = b
  BY <1>1, <1>3, <1>4, SMTT(30)
<1>6. \A a \in 0 .. n : Node(l, t, a) = IF a < i THEN Node(l, s, a) ELSE Node(l, s, a + 1)
  <2> SUFFICES ASSUME NEW a \in 0 .. n
               PROVE  Node(l, t, a) = IF a < i THEN Node(l, s, a) ELSE Node(l, s, a + 1)
    OBVIOUS
  <2>1. \A b \in Int : Node(l, s, b) = IF b = 0 THEN head(l) ELSE IF b = n + 1 THEN tail(l) ELSE s[b]
    BY DEF Node, n
  <2>2. Node(l, t, a) = IF a = 0 THEN head(l) ELSE IF a = n THEN tail(l) ELSE t[a]
    BY <1>1, <1>4, SMT DEF Node
  <2> QED
    BY <1>1, <1>3, <1>4, <2>1, <2>2, SMTT(30)
<1>7. \A a \in 0 .. n : /\ m.next[Node(l, s, a)] = Node(l, s, a + 1)
                        /\ m.front[Node(l, s, a + 1)] = Node(l, s, a)
  BY <1>1 DEF Spells, n
<1>8. m.front[s[i]] = Node(l, s, i - 1) /\ m.next[s[i]] = Node(l, s, i + 1)
  <2>1. i - 1 \in 0 .. n /\ (i - 1) + 1 = i /\ i \in 0 .. n
    BY <1>1, <1>3, SMT
  <2> QED
    BY <2>1, <1>3, <1>7
<1>9. /\ w.next = [m.next EXCEPT ![Node(l, s, i - 1)] = Node(l, s, i + 1)]
      /\ w.front = [m.front EXCEPT ![Node(l, s, i + 1)] = Node(l, s, i - 1)]
  BY <1>8 DEF list_remove
<1>10. Node(l, s, i - 1) \in Nodes /\ Node(l, s, i + 1) \in Nodes
  BY <1>1, <1>2, <1>3, SMTT(30)
<1>11. w \in Links
  BY <1>1, <1>8, <1>10 DEF list_remove, Links
<1>12. Spells(w, l, t)
  <2> SUFFICES ASSUME NEW a \in 0 .. n - 1
               PROVE  /\ w.next[Node(l, t, a)] = Node(l, t, a + 1)
                      /\ w.front[Node(l, t, a + 1)] = Node(l, t, a)
    BY <1>1, <1>4 DEF Spells
  <2>1. /\ DOMAIN m.next = Nodes /\ DOMAIN m.front = Nodes
    BY <1>1 DEF Links
  <2>2. CASE a < i - 1
    <3>1. Node(l, t, a) = Node(l, s, a) /\ Node(l, t, a + 1) = Node(l, s, a + 1)
      BY <2>2, <1>1, <1>3, <1>6, SMTT(30)
    <3>2. Node(l, s, a) # Node(l, s, i - 1) /\ Node(l, s, a + 1) # Node(l, s, i + 1)
      BY <2>2, <1>1, <1>2, <1>3, SMTT(30)
    <3>3. Node(l, s, a) \in Nodes /\ Node(l, s, a + 1) \in Nodes /\ a \in 0 .. n
      BY <1>1, <1>2, SMTT(30)
    <3> QED
      BY <3>1, <3>2, <3>3, <2>1, <1>7, <1>9
  <2>3. CASE a = i - 1
    <3>1. Node(l, t, a) = Node(l, s, i - 1) /\ Node(l, t, a + 1) = Node(l, s, i + 1)
      BY <2>3, <1>1, <1>3, <1>6, SMTT(30)
    <3> QED
      BY <3>1, <2>1, <1>9, <1>10
  <2>4. CASE a > i - 1
    <3>1. Node(l, t, a) = Node(l, s, a + 1) /\ Node(l, t, a + 1) = Node(l, s, (a + 1) + 1)
      BY <2>4, <1>1, <1>3, <1>6, SMTT(30)
    <3>2. Node(l, s, a + 1) # Node(l, s, i - 1) /\ Node(l, s, (a + 1) + 1) # Node(l, s, i + 1)
      BY <2>4, <1>1, <1>2, <1>3, SMTT(30)
    <3>3. Node(l, s, a + 1) \in Nodes /\ Node(l, s, (a + 1) + 1) \in Nodes /\ a + 1 \in 0 .. n
      BY <1>1, <1>2, SMTT(30)
    <3> QED
      BY <3>1, <3>2, <3>3, <2>1, <1>7, <1>9, SMTT(30)
  <2> QED
    BY <2>2, <2>3, <2>4, <1>1, <1>3, SMTT(30)
<1> QED
  BY <1>1, <1>4, <1>5, <1>11, <1>12 DEF Holds, t

(* A change made in one list leaves every other list as it is, when no     *)
(* element is in two lists.                                                *)
THEOREM OthersKept ==
  ASSUME NEW m, NEW l, NEW k, NEW s, NEW r, Apart, k # l, Holds(m, l, s), Holds(m, k, r),
         \A i \in 1 .. Len(s), j \in 1 .. Len(r) : s[i] # r[j]
  PROVE  /\ \A i \in 1 .. Len(s) + 1, e \in Elems :
              (\A j \in 1 .. Len(r) : r[j] # e)
                => Spells(list_insert_before(m, Node(l, s, i), e), k, r)
         /\ \A i \in 1 .. Len(s) : Spells(list_remove(m, s[i]), k, r)
<1>1. /\ m \in Links /\ l \in Lists /\ k \in Lists \ {l} /\ s \in Seq(Elems) /\ r \in Seq(Elems)
      /\ Len(s) \in Nat /\ Len(r) \in Nat
      /\ \A a, b \in 1 .. Len(r) : r[a] = r[b] => a = b
      /\ Spells(m, l, s) /\ Spells(m, k, r)
  BY SMT DEF Holds
<1>2. \A i \in 0 .. Len(s) + 1, j \in 0 .. Len(r) + 1 : Node(l, s, i) # Node(k, r, j)
  BY <1>1, ListsDiffer
<1>3. \A j \in 0 .. Len(r) + 1 : Node(k, r, j) \in Nodes
  BY <1>1, NodesDiffer
<1>4. /\ DOMAIN m.next = Nodes /\ DOMAIN m.front = Nodes
  BY <1>1 DEF Links
<1>5. ASSUME NEW i \in 1 .. Len(s) + 1
      PROVE  m.front[Node(l, s, i)] = Node(l, s, i - 1) /\ i - 1 \in 0 .. Len(s) + 1
  <2>1. i - 1 \in 0 .. Len(s) /\ (i - 1) + 1 = i
    BY <1>1, SMT
  <2> QED
    BY <2>1, <1>1, SMTT(30) DEF Spells
<1>6. ASSUME NEW i \in 1 .. Len(s) + 1, NEW e \in Elems, \A j \in 1 .. Len(r) : r[j] # e
      PROVE  Spells(list_insert_before(m, Node(l, s, i), e), k, r)
  <2>1. \A j \in 0 .. Len(r) + 1 : Node(k, r, j) # e
    <3>1. head(k) # e /\ tail(k) # e
      BY <1>1, SMTT(30) DEF Apart, heads, tails
    <3> QED
      BY <3>1, <1>1, <1>6, SMTT(30) DEF Node
  <2>2. \A j \in 0 .. Len(r) + 1 : Node(k, r, j) # Node(l, s, i) /\ Node(k, r, j) # Node(l, s, i - 1)
    BY <1>1, <1>2, <1>5, SMTT(30)
  <2> SUFFICES ASSUME NEW j \in 0 .. Len(r)
               PROVE  LET w == list_insert_before(m, Node(l, s, i), e) IN
                      /\ w.next[Node(k, r, j)] = m.next[Node(k, r, j)]
                      /\ w.front[Node(k, r, j + 1)] = m.front[Node(k, r, j + 1)]
    BY <1>1 DEF Spells
  <2>3. j \in 0 .. Len(r) + 1 /\ j + 1 \in 0 .. Len(r) + 1
    BY <1>1, SMT
  <2> QED
    BY <2>1, <2>2, <2>3, <1>3, <1>4, <1>5 DEF list_insert_before
<1>7. ASSUME NEW i \in 1 .. Len(s)
      PROVE  Spells(list_remove(m, s[i]), k, r)
  <2>1. s[i] = Node(l, s, i) /\ i \in 1 .. Len(s) + 1 /\ i + 1 \in 0 .. Len(s) + 1
    BY <1>1, SMTT(30) DEF Node
  <2>2. m.next[s[i]] = Node(l, s, i + 1)
    BY <2>1, <1>1, SMTT(30) DEF Spells
  <2>3. \A j \in 0 .. Len(r) + 1 : Node(k, r, j) # m.next[s[i]] /\ Node(k, r, j) # m.front[s[i]]
    <3>1. m.front[s[i]] = Node(l, s, i - 1) /\ i - 1 \in 0 .. Len(s) + 1
      BY <2>1, <1>5
    <3> QED
      BY <3>1, <2>1, <2>2, <1>2
  <2> SUFFICES ASSUME NEW j \in 0 .. Len(r)
               PROVE  LET w == list_remove(m, s[i]) IN
                      /\ w.next[Node(k, r, j)] = m.next[Node(k, r, j)]
                      /\ w.front[Node(k, r, j + 1)] = m.front[Node(k, r, j + 1)]
    BY <1>1 DEF Spells
  <2>4. j \in 0 .. Len(r) + 1 /\ j + 1 \in 0 .. Len(r) + 1
    BY <1>1, SMT
  <2> QED
    BY <2>3, <2>4, <1>3, <1>4 DEF list_remove
<1> QED
  BY <1>6, <1>7

(* list_push, list_append, list_pop and list_empty are the operations on   *)
(* sequences that the scheduler, the semaphores and the heap take them     *)
(* for: at the front, at the end, the first one off, none left.            *)
THEOREM ListsAreSequences ==
  ASSUME NEW m, NEW l, NEW s, NEW e \in Elems, Apart,
         Holds(m, l, s), \A j \in 1 .. Len(s) : s[j] # e
  PROVE  /\ Holds(list_push(m, l, e), l, <<e>> \o s)
         /\ Holds(list_append(m, l, e), l, Append(s, e))
         /\ list_empty(m, l) <=> s = <<>>
         /\ s # <<>> => first(m, l) = Head(s) /\ Holds(list_pop(m, l), l, Tail(s))
<1>1. /\ m \in Links /\ l \in Lists /\ s \in Seq(Elems) /\ Len(s) \in Nat
      /\ \A a \in 1 .. Len(s) : s[a] \in Elems
      /\ Spells(m, l, s)
  BY SMT DEF Holds
<1>2. Node(l, s, 0) = head(l) /\ Node(l, s, Len(s) + 1) = tail(l)
  BY <1>1, SMT DEF Node
<1>3. m.next[head(l)] = Node(l, s, 1)
  <2>1. 0 \in 0 .. Len(s) /\ 0 + 1 = 1
    BY <1>1, SMT
  <2> QED
    BY <2>1, <1>1, <1>2 DEF Spells
<1>4. Holds(list_push(m, l, e), l, <<e>> \o s)
  <2>1. Insert(s, 1, e) = <<e>> \o s
    BY <1>1, SMT DEF Insert
  <2>2. 1 \in 1 .. Len(s) + 1
    BY <1>1, SMT
  <2> QED
    BY <2>1, <2>2, <1>3, InsertSpells DEF list_push
<1>5. Holds(list_append(m, l, e), l, Append(s, e))
  <2>1. Insert(s, Len(s) + 1, e) = Append(s, e)
    <3>1. /\ Append(s, e) \in Seq(Elems) /\ Len(Append(s, e)) = Len(s) + 1
          /\ \A j \in 1 .. Len(s) + 1 : Append(s, e)[j] = IF j = Len(s) + 1 THEN e ELSE s[j]
      BY <1>1, SMTT(30)
    <3>2. /\ Insert(s, Len(s) + 1, e) \in Seq(Elems) /\ Len(Insert(s, Len(s) + 1, e)) = Len(s) + 1
          /\ \A j \in 1 .. Len(s) + 1 : Insert(s, Len(s) + 1, e)[j] = IF j = Len(s) + 1 THEN e ELSE s[j]
      BY <1>1, SMTT(30) DEF Insert
    <3> QED
      BY <3>1, <3>2, SeqEqual, SMTT(30)
  <2>2. Len(s) + 1 \in 1 .. Len(s) + 1
    BY <1>1, SMT
  <2>3. list_append(m, l, e) = list_insert_before(m, tail(l), e)
    BY DEF list_append, list_insert_before
  <2> QED
    BY <2>1, <2>2, <2>3, <1>2, InsertSpells
<1>6. list_empty(m, l) <=> s = <<>>
  <2>1. CASE s = <<>>
    BY <2>1, <1>2, <1>3, SMTT(30) DEF list_empty
  <2>2. CASE s # <<>>
    <3>1. Len(s) >= 1 /\ Node(l, s, 1) = s[1] /\ s[1] \in Elems
      BY <2>2, <1>1, SMTT(30) DEF Node
    <3>2. tail(l) \notin Elems
      BY <1>1 DEF Apart, tails
    <3> QED
      BY <2>2, <3>1, <3>2, <1>3 DEF list_empty
  <2> QED
    BY <2>1, <2>2
<1>7. ASSUME s # <<>>
      PROVE  first(m, l) = Head(s) /\ Holds(list_pop(m, l), l, Tail(s))
  <2>1. 1 \in 1 .. Len(s) /\ Node(l, s, 1) = s[1] /\ s[1] = Head(s)
    BY <1>7, <1>1, SMTT(30) DEF Node
  <2>2. first(m, l) = s[1]
    BY <2>1, <1>3 DEF first
  <2>3. Delete(s, 1) = Tail(s)
    <3>1. /\ Tail(s) \in Seq(Elems) /\ Len(Tail(s)) = Len(s) - 1
          /\ \A j \in 1 .. Len(s) - 1 : Tail(s)[j] = s[j + 1]
      BY <1>7, <1>1, HeadTailProperties
    <3>2. /\ Delete(s, 1) \in Seq(Elems) /\ Len(Delete(s, 1)) = Len(s) - 1
          /\ \A j \in 1 .. Len(s) - 1 : Delete(s, 1)[j] = s[j + 1]
      BY <2>1, <1>1, SMTT(30) DEF Delete
    <3> QED
      BY <3>1, <3>2, SeqEqual, SMTT(30)
  <2> QED
    BY <2>1, <2>2, <2>3, RemoveSpells DEF list_pop
<1> QED
  BY <1>4, <1>5, <1>6, <1>7

-----------------------------------------------------------------------------
(* The clients of the locks.                                               *)

(* A step after which sync.c is as it was for the clients. *)
LEMMA ClientFrame ==
  ASSUME IInv, LockInv(nest)', Sleepers' = Sleepers, UNCHANGED <<lk, la, nest>>,
         cli' \subseteq cli
  PROVE  IInv'
<1>1. TypeOK'
  BY DEF IInv, TypeOK, LockInv
<1>2. ASSUME NEW t \in Threads PROVE ClientView(t)'
  <2>1. ClientView(t)
    BY DEF IInv
  <2>2. QED BY <2>1 DEF ClientView
<1>3. QED BY <1>1, <1>2 DEF IInv

(* lock_acquire is called: by a thread that uses no other lock. *)
LEMMA AcquireInv ==
  ASSUME IInv, NEW t \in Threads, t # Idle, NEW l \in Locks, Acquire(t, l)
  PROVE  IInv'
<1>1. /\ nest \in [Threads -> [Locks -> 0 .. MaxNest]] /\ MaxNest \in Nat
      /\ lk \in [Threads -> LockPC] /\ la \in [Threads -> AllSemas \cup {NoSema}]
      /\ cli \in SUBSET Threads /\ LockInv(nest) /\ Sleepers = {}
  BY NestAssumption DEF IInv, TypeOK, SyncTypeOK
<1>2. /\ lock_acquire(t, l) /\ nest' = [nest EXCEPT ![t][l] = @ + 1] /\ UNCHANGED cli
      /\ t \notin cli /\ nest[t][l] < MaxNest /\ \A k \in Locks \ {l} : nest[t][k] = 0
  BY DEF Acquire
<1>3. LockInv(nest)'
  <2>1. cli' \in SUBSET Threads
    BY <1>1, <1>2
  <2>2. QED BY <1>1, <1>2, <2>1, LockAcquireCall
<1>4. Sleepers' = Sleepers
  BY <1>1, <1>2, OtherStepFrame DEF lock_acquire
<1>5. TypeOK'
  BY <1>1, <1>2, <1>3, SMTT(30) DEF LockInv, TypeOK
<1>6. ASSUME NEW u \in Threads PROVE ClientView(u)'
  <2>1. ClientView(u)
    BY DEF IInv
  <2>2. CASE u # t
    BY <1>1, <1>2, <2>1, <2>2 DEF ClientView, lock_acquire, Call
  <2>3. CASE u = t
    BY <1>1, <1>2, <2>1, <2>3, SMTT(30) DEF ClientView, lock_acquire, Call
  <2>4. QED BY <2>2, <2>3
<1>7. QED BY <1>1, <1>3, <1>4, <1>5, <1>6 DEF IInv

(* lock_release is called. *)
LEMMA ReleaseInv ==
  ASSUME IInv, NEW t \in Threads, t # Idle, NEW l \in Locks, Release(t, l)
  PROVE  IInv'
<1>1. /\ nest \in [Threads -> [Locks -> 0 .. MaxNest]] /\ MaxNest \in Nat
      /\ lk \in [Threads -> LockPC] /\ la \in [Threads -> AllSemas \cup {NoSema}]
      /\ cli \in SUBSET Threads /\ LockInv(nest) /\ Sleepers = {}
  BY NestAssumption DEF IInv, TypeOK, SyncTypeOK
<1>2. /\ lock_release(t, l) /\ nest' = [nest EXCEPT ![t][l] = @ - 1] /\ UNCHANGED cli
      /\ nest[t][l] > 0
  BY DEF Release
<1>3. LockInv(nest)'
  <2>1. cli' \in SUBSET Threads
    BY <1>1, <1>2
  <2>2. QED BY <1>1, <1>2, <2>1, LockReleaseCall
<1>4. Sleepers' = Sleepers
  BY <1>1, <1>2, OtherStepFrame DEF lock_release
<1>5. TypeOK'
  BY <1>1, <1>2, <1>3, SMTT(30) DEF LockInv, TypeOK
<1>6. ASSUME NEW u \in Threads PROVE ClientView(u)'
  <2>1. ClientView(u)
    BY DEF IInv
  <2>2. CASE u # t
    BY <1>1, <1>2, <2>1, <2>2 DEF ClientView, lock_release, Call
  <2>3. CASE u = t
    BY <1>1, <1>2, <2>1, <2>3, SMTT(30) DEF ClientView, lock_release, Call
  <2>4. QED BY <2>2, <2>3
<1>7. QED BY <1>1, <1>3, <1>4, <1>5, <1>6 DEF IInv

(* A step inside sync.c. *)
LEMMA InsideInv ==
  ASSUME IInv, NEW t \in Threads, SyncStep(t), UNCHANGED nest
  PROVE  IInv'
<1>1. LockInv(nest) /\ Sleepers = {}
  BY DEF IInv
<1>2. LockInv(nest)'
  BY <1>1, SyncStepInv
<1>3. /\ lk[t] # "out" /\ UNCHANGED cli /\ Sleepers' = Sleepers
      /\ \A u \in Threads : u # t => lk'[u] = lk[u] /\ la'[u] = la[u]
      /\ la'[t] \in {la[t], NoSema}
  BY <1>1, SyncStepFrame
<1>4. TypeOK'
  BY <1>2 DEF IInv, LockInv, TypeOK
<1>5. ASSUME NEW u \in Threads PROVE ClientView(u)'
  <2>1. ClientView(u) /\ NoSema \notin Locks
    BY SyncAssumption DEF IInv
  <2>2. QED BY <1>3, <2>1, SMTT(30) DEF ClientView
<1>6. QED BY <1>1, <1>2, <1>3, <1>4, <1>5 DEF IInv

(* The state after the thread_start calls. *)
LEMMA InitInv == Init => IInv
<1> SUFFICES ASSUME Init PROVE IInv
  OBVIOUS
<1>1. SyncInit /\ nest = [t \in Threads |-> [l \in Locks |-> 0]]
  BY DEF Init
<1>2. LockInv(nest) /\ Blocked(sched) = {}
  BY <1>1, SyncInitInv
<1>3. Sleepers = {}
  BY <1>2 DEF Sleepers, Blocked
<1>4. TypeOK
  BY <1>1, <1>2, NestAssumption, SMTT(30) DEF TypeOK, LockInv
<1>5. \A t \in Threads : ClientView(t)
  BY <1>1, SyncAssumption DEF ClientView, SyncInit, LocksInit
<1>6. QED BY <1>2, <1>3, <1>4, <1>5 DEF IInv

(* Every step preserves the invariant. *)
LEMMA NextInv == IInv /\ [Next]_vars => IInv'
<1> SUFFICES ASSUME IInv, [Next]_vars PROVE IInv'
  OBVIOUS
<1>1. LockInv(nest)
  BY DEF IInv
<1>2. CASE Clock
  BY <1>1, <1>2, TickInv, OtherStepFrame, ClientFrame DEF Clock, Tick
<1>3. ASSUME NEW t \in Threads, Step(t) PROVE IInv'
  <2>1. CASE \E l \in Locks : t # Idle /\ (Acquire(t, l) \/ Release(t, l))
    BY <2>1, AcquireInv, ReleaseInv
  <2>2. CASE YieldCPU(t)
    BY <1>1, <2>2, YieldInv, OtherStepFrame, ClientFrame DEF YieldCPU, Yield
  <2>3. CASE kernel_thread(t) /\ UNCHANGED nest
    <3>1. /\ UNCHANGED <<sched, value, waiters, holder, repeat, lk, la, idlepc, nest>>
          /\ cli' \subseteq cli
      BY <2>3 DEF kernel_thread
    <3>2. /\ cli' \in SUBSET Threads /\ idlepc' \in {"block", "sti", "hlt"}
          /\ SchedOK(sched') /\ Sleepers' = Sleepers
      BY <1>1, <3>1 DEF LockInv, SyncTypeOK, Sleepers
    <3>3. LockInv(nest)'
      BY <1>1, <3>1, <3>2, ScheduleStep
    <3>4. QED BY <3>1, <3>2, <3>3, ClientFrame
  <2>4. CASE SyncStep(t) /\ UNCHANGED nest
    BY <2>4, InsideInv
  <2>5. CASE idle /\ UNCHANGED nest
    BY <1>1, <2>5, IdleInv, OtherStepFrame, ClientFrame DEF idle, IdleBlock, IdleHalt
  <2>6. QED BY <1>3, <2>1, <2>2, <2>3, <2>4, <2>5 DEF Step
<1>4. CASE UNCHANGED vars
  <2>1. UNCHANGED <<sched, value, waiters, holder, repeat, lk, la, cli, idlepc, nest>>
    BY <1>4 DEF vars
  <2>2. /\ cli' \in SUBSET Threads /\ idlepc' \in {"block", "sti", "hlt"}
        /\ SchedOK(sched') /\ Sleepers' = Sleepers
    BY <1>1, <2>1 DEF LockInv, SyncTypeOK, Sleepers
  <2>3. LockInv(nest)'
    BY <1>1, <2>1, <2>2, ScheduleStep
  <2>4. QED BY <2>1, <2>2, <2>3, ClientFrame
<1>5. QED BY <1>2, <1>3, <1>4 DEF Next

(* The types, the agreement of scheduler and waiters and every thread's    *)
(* view of the locks hold in every reachable state of the lock code.       *)
THEOREM Invariance == Spec => []IInv
BY InitInv, NextInv, PTL DEF Spec

(* The invariant implies the properties. *)
LEMMA IInvImplies == IInv => NoPanic /\ MutualExclusion /\ ListsAgree /\ NoLostWakeup
<1> SUFFICES ASSUME IInv PROVE NoPanic /\ MutualExclusion /\ ListsAgree /\ NoLostWakeup
  OBVIOUS
<1>1. NoPanic /\ NoLostWakeup
  BY DEF IInv, LockInv, SchedOK, NoPanic
<1>2. ListsAgree
  BY SMTT(60) DEF IInv, LockInv, SchedOK, WaitersAgree, ListsAgree
<1>3. MutualExclusion
  <2>1. \A t \in Threads, l \in Locks : nest[t][l] \in Nat /\ lk[t] \in LockPC
    BY SMTT(30) DEF IInv, LockInv, TypeOK, SyncTypeOK
  <2>2. ASSUME NEW t \in Threads, NEW l \in Locks, InCS(t, l)
        PROVE  holder[l] = t
    BY <2>1, <2>2, SyncAssumption, SMTT(30)
    DEF IInv, LockInv, ThreadView, LockView, InCS, Acquiring, LockPC
  <2>3. QED BY <2>2 DEF MutualExclusion
<1>4. QED BY <1>1, <1>2, <1>3

(* No ASSERT of thread.c or sync.c fails in any interleaving. *)
THEOREM NeverPanics == Spec => []NoPanic
BY Invariance, IInvImplies, PTL

(* lock_acquire and lock_release give mutual exclusion. *)
THEOREM LocksExclude == Spec => []MutualExclusion
BY Invariance, IInvImplies, PTL

(* general_tag is in one list at most, and the lists match the statuses. *)
THEOREM ListsStayConsistent == Spec => []ListsAgree
BY Invariance, IInvImplies, PTL

(* sema_up never leaves all waiters asleep on a free semaphore. *)
THEOREM WakeupsAreNotLost == Spec => []NoLostWakeup
BY Invariance, IInvImplies, PTL

-----------------------------------------------------------------------------
(* The refinement of Mutex. *)

(* In a state of IInv the owner the mapping chooses is the owner there is. *)
LEMMA OwnerOfUnique ==
  ASSUME IInv, NEW t \in Threads, NEW l \in Locks
  PROVE  /\ Owner(t, l) => OwnerOf(l) = t
         /\ OwnerOf(l) = t => Owner(t, l)
<1>1. ASSUME Owner(t, l) PROVE OwnerOf(l) = t
  <2>1. \A u \in Threads : Owner(u, l) => u = t
    BY <1>1, SMTT(60) DEF IInv, LockInv, OneOwner
  <2>2. QED BY <1>1, <2>1 DEF OwnerOf
<1>2. ASSUME OwnerOf(l) = t PROVE Owner(t, l)
  BY <1>2, SyncAssumption DEF OwnerOf
<1>3. QED BY <1>1, <1>2

(* A step that gives no lock a new owner and no thread a new wish is a     *)
(* stuttering step of Mutex.                                               *)
LEMMA Stutter ==
  ASSUME \A t \in Threads, l \in Locks : Owner(t, l)' <=> Owner(t, l),
         \A l \in Locks : Wanting(l)' = Wanting(l)
  PROVE  UNCHANGED M!mvars
<1>1. ASSUME NEW l \in Locks PROVE OwnerOf(l)' = OwnerOf(l)
  <2>1. \A t \in Threads : Owner(t, l)' <=> Owner(t, l)
    OBVIOUS
  <2>2. CASE \E t \in Threads : Owner(t, l)
    <3>1. (CHOOSE t \in Threads : Owner(t, l)') = CHOOSE t \in Threads : Owner(t, l)
      BY <2>1
    <3>2. QED BY <2>1, <2>2, <3>1, ZenonT(60) DEF OwnerOf
  <2>3. CASE ~ \E t \in Threads : Owner(t, l)
    BY <2>1, <2>3 DEF OwnerOf
  <2>4. QED BY <2>2, <2>3
<1>2. QED BY <1>1 DEF M!mvars

(* sema_down taking the semaphore is the grant of the lock. *)
LEMMA GrantStep ==
  ASSUME IInv, IInv', NEW t \in Threads, NEW l \in Locks,
         la[t] = l, sema_down(t), value[l] # 0
  PROVE  M!Grant(t, l)
<1>1. /\ l \in AllSemas /\ lk[t] \in {"down", "woken"}
      /\ value[l] = 1 /\ lk \in [Threads -> LockPC]
  <2>1. value \in [AllSemas -> {0, 1}] /\ lk \in [Threads -> LockPC]
    BY DEF IInv, LockInv, TypeOK, SyncTypeOK
  <2>2. l \in AllSemas
    BY DEF AllSemas
  <2>3. lk[t] \in {"down", "woken"}
    BY DEF sema_down
  <2>4. QED BY <2>1, <2>2, <2>3
<1>2. lk' = [lk EXCEPT ![t] = "own"] /\ UNCHANGED <<la, holder>>
  BY <1>1 DEF sema_down, Goto
<1>3. \A u \in Threads : ~Owner(u, l)
  BY <1>1, ZenonT(60) DEF IInv, LockInv, OneOwner
<1>4. OwnerOf(l) = NoThread /\ t \in Wanting(l)
  BY <1>1, <1>3 DEF OwnerOf, Wanting
<1>5. OwnerOf(l)' = t
  <2>1. Owner(t, l)'
    BY <1>1, <1>2, SMTT(30) DEF Owner
  <2>2. \A u \in Threads : Owner(u, l)' => u = t
    BY <1>1, <2>1, SMTT(60) DEF IInv, LockInv, OneOwner
  <2>3. QED BY <2>1, <2>2 DEF OwnerOf
<1>6. ASSUME NEW k \in Locks, k # l
      PROVE  OwnerOf(k)' = OwnerOf(k) /\ Wanting(k)' = Wanting(k)
  <2>1. \A u \in Threads : Owner(u, k)' <=> Owner(u, k)
    BY <1>1, <1>2, <1>6 DEF Owner
  <2>2. (CHOOSE u \in Threads : Owner(u, k)') = CHOOSE u \in Threads : Owner(u, k)
    BY <2>1
  <2>3. OwnerOf(k)' = OwnerOf(k)
    BY <2>1, <2>2, ZenonT(60) DEF OwnerOf
  <2>4. Wanting(k)' = Wanting(k)
    BY <1>1, <1>2, <1>6 DEF Wanting
  <2>5. QED BY <2>3, <2>4
<1>7. Wanting(l)' = Wanting(l) \ {t}
  BY <1>1, <1>2 DEF Wanting
<1>8. QED BY <1>1, <1>4, <1>5, <1>6, <1>7, ZenonT(60) DEF M!Grant

(* sema_up is the release of the lock. *)
LEMMA FreeStep ==
  ASSUME IInv, IInv', NEW t \in Threads, NEW l \in Locks,
         la[t] = l, sema_up(t)
  PROVE  M!Free(t, l)
<1>1. /\ l \in AllSemas /\ lk[t] = "up"
      /\ lk \in [Threads -> LockPC] /\ la \in [Threads -> AllSemas \cup {NoSema}]
      /\ value \in [AllSemas -> {0, 1}]
  BY ZenonT(60) DEF sema_up, At, IInv, LockInv, ThreadView, TypeOK, SyncTypeOK, AllSemas
<1>2. /\ lk' = [lk EXCEPT ![t] = "out"] /\ la' = [la EXCEPT ![t] = NoSema]
      /\ UNCHANGED holder
  BY DEF sema_up, Return
<1>3. value[l] = 0 /\ value'[l] = 1
  <2>1. value[l] = 0
    BY <1>1, ZenonT(60) DEF IInv, LockInv, OneOwner, Owner
  <2>2. QED BY <1>1, <2>1, SMTT(30) DEF sema_up, Up
<1>4. OwnerOf(l) = t
  BY <1>1, OwnerOfUnique DEF Owner
<1>5. OwnerOf(l)' = NoThread
  BY <1>1, <1>3, SMTT(60) DEF OwnerOf, IInv, LockInv, OneOwner
<1>6. ASSUME NEW k \in Locks
      PROVE  Wanting(k)' = Wanting(k) /\ (k # l => OwnerOf(k)' = OwnerOf(k))
  <2>1. k # l => \A u \in Threads : Owner(u, k)' <=> Owner(u, k)
    BY <1>1, <1>2, SyncAssumption DEF Owner
  <2>2. k # l => (CHOOSE u \in Threads : Owner(u, k)') = CHOOSE u \in Threads : Owner(u, k)
    BY <2>1
  <2>3. k # l => OwnerOf(k)' = OwnerOf(k)
    BY <2>1, <2>2, ZenonT(60) DEF OwnerOf
  <2>4. Wanting(k)' = Wanting(k)
    BY <1>1, <1>2, SyncAssumption DEF Wanting
  <2>5. QED BY <2>3, <2>4
<1>7. QED BY <1>1, <1>4, <1>5, <1>6, ZenonT(60) DEF M!Free

(* Finding somebody else in holder is the request. *)
LEMMA RequestStep ==
  ASSUME IInv, IInv', NEW t \in Threads, NEW l \in Locks,
         la[t] = l, AcquireCheck(t), holder[l] # t
  PROVE  M!Request(t, l)
<1>1. lk[t] = "check" /\ lk \in [Threads -> LockPC]
  BY ZenonT(60) DEF AcquireCheck, At, IInv, LockInv, ThreadView, TypeOK, SyncTypeOK
<1>2. lk' = [lk EXCEPT ![t] = "down"] /\ UNCHANGED <<holder, la>>
  BY DEF AcquireCheck, Goto
<1>3. ~Owner(t, l) /\ t \notin Wanting(l)
  BY <1>1 DEF Owner, Wanting
<1>4. OwnerOf(l) # t
  BY <1>1, <1>3, OwnerOfUnique
<1>5. \A k \in Locks : Wanting(k)' = IF k = l THEN Wanting(k) \cup {t} ELSE Wanting(k)
  BY <1>1, <1>2 DEF Wanting
<1>6. ASSUME NEW k \in Locks PROVE OwnerOf(k)' = OwnerOf(k)
  <2>1. \A u \in Threads : Owner(u, k)' <=> Owner(u, k)
    BY <1>1, <1>2 DEF Owner
  <2>2. (CHOOSE u \in Threads : Owner(u, k)') = CHOOSE u \in Threads : Owner(u, k)
    BY <2>1
  <2>3. QED BY <2>1, <2>2, ZenonT(60) DEF OwnerOf
<1>7. QED BY <1>1, <1>3, <1>4, <1>5, <1>6, ZenonT(60) DEF M!Request

(* Every step of the lock code is a step of Mutex or leaves it unchanged. *)
LEMMA RefineNext == IInv /\ IInv' /\ [Next]_vars => [M!Next]_(M!mvars)
<1> SUFFICES ASSUME IInv, IInv', [Next]_vars PROVE [M!Next]_(M!mvars)
  OBVIOUS
<1>1. ASSUME UNCHANGED <<holder, lk, la>> PROVE UNCHANGED M!mvars
  BY <1>1, Stutter DEF Owner, Wanting
<1>2. ASSUME NEW t \in Threads, NEW l \in Locks, Acquire(t, l) \/ Release(t, l)
      PROVE  UNCHANGED M!mvars
  <2>1. /\ lk[t] = "out" /\ la[t] = NoSema /\ lk'[t] \in {"check", "rel"}
        /\ UNCHANGED holder
        /\ \A u \in Threads : u # t => lk'[u] = lk[u] /\ la'[u] = la[u]
    <3>1. ThreadView(nest, t) /\ SyncTypeOK
      BY <1>2 DEF IInv, LockInv
    <3>2. QED
      BY <1>2, <3>1 DEF Acquire, Release, lock_acquire, lock_release, Call, At,
         ThreadView, SyncTypeOK
  <2>2. \A u \in Threads, k \in Locks : Owner(u, k)' <=> Owner(u, k)
    BY <2>1 DEF Owner
  <2>3. \A k \in Locks : Wanting(k)' = Wanting(k)
    BY <2>1 DEF Wanting
  <2>4. QED BY <2>2, <2>3, Stutter
<1>3. ASSUME NEW t \in Threads, SyncStep(t), UNCHANGED nest
      PROVE  [M!Next]_(M!mvars)
  <2>1. /\ lk[t] # "out" /\ la[t] \in Locks
        /\ lk \in [Threads -> LockPC] /\ la \in [Threads -> AllSemas \cup {NoSema}]
        /\ holder \in [Locks -> Threads \cup {NoThread}]
    <3>1. lk[t] # "out"
      BY <1>3 DEF SyncStep, AcquireCheck, AcquireAgain, sema_down, SetHolder,
         SetRepeat, ReleaseCheck, ReleaseOnce, ClearHolder, ClearRepeat, sema_up, At
    <3>2. ThreadView(nest, t) /\ ClientView(t) /\ SyncTypeOK
      BY <1>3 DEF IInv, LockInv
    <3>3. QED BY <1>3, <3>1, <3>2 DEF ThreadView, ClientView, SyncTypeOK
  <2>2. PICK l \in Locks : la[t] = l
    BY <2>1
  <2>3. CASE AcquireCheck(t) /\ holder[l] # t
    BY <2>2, <2>3, RequestStep DEF M!Next
  <2>4. CASE sema_down(t) /\ value[l] # 0
    BY <2>2, <2>4, GrantStep DEF M!Next
  <2>5. CASE sema_up(t)
    BY <2>2, <2>5, FreeStep DEF M!Next
  <2>6. ASSUME \/ AcquireCheck(t) /\ holder[l] = t
               \/ sema_down(t) /\ value[l] = 0
               \/ AcquireAgain(t) \/ SetHolder(t) \/ SetRepeat(t)
               \/ ReleaseCheck(t) \/ ReleaseOnce(t) \/ ClearHolder(t) \/ ClearRepeat(t)
        PROVE  UNCHANGED M!mvars
    <3>1. \A u \in Threads : u # t => lk'[u] = lk[u] /\ la'[u] = la[u]
      BY <2>1, <2>6 DEF AcquireCheck, AcquireAgain, sema_down, SetHolder, SetRepeat,
         ReleaseCheck, ReleaseOnce, ClearHolder, ClearRepeat, Goto, Return
    <3>2. \A k \in Locks : (t \in Wanting(k)') <=> (t \in Wanting(k))
      BY <2>1, <2>2, <2>6, SyncAssumption DEF AcquireCheck, AcquireAgain, sema_down,
         SetHolder, SetRepeat, ReleaseCheck, ReleaseOnce, ClearHolder, ClearRepeat,
         Goto, Return, At, Wanting
    <3>3. \A k \in Locks : Wanting(k)' = Wanting(k)
      BY <3>1, <3>2 DEF Wanting
    <3>4. \A u \in Threads, k \in Locks : Owner(u, k)' <=> Owner(u, k)
      <4>1. CASE ~SetHolder(t) /\ ~ClearHolder(t)
        <5>1. /\ UNCHANGED holder
              /\ \/ lk[t] \notin {"own", "zero", "up"} /\ lk'[t] \notin {"own", "zero", "up"}
                 \/ lk[t] = "zero" /\ lk'[t] = "up" /\ la'[t] = la[t]
          BY <2>1, <2>2, <2>6, <4>1 DEF AcquireCheck, AcquireAgain, sema_down,
             SetRepeat, ReleaseCheck, ReleaseOnce, ClearRepeat, At, Goto, Return
        <5>2. QED
          BY <2>1, <2>2, <3>1, <5>1 DEF Owner
      <4>2. CASE SetHolder(t)
        <5>1. /\ lk[t] = "own" /\ lk' = [lk EXCEPT ![t] = "count"] /\ UNCHANGED la
              /\ holder' = [holder EXCEPT ![l] = t]
          BY <2>2, <4>2 DEF SetHolder, At, Goto
        <5>2. holder[l] = NoThread
          <6>1. LockView(nest, t, l)
            BY DEF IInv, LockInv
          <6>2. QED BY <2>2, <5>1, <6>1 DEF LockView
        <5>3. QED BY <2>1, <2>2, <3>1, <5>1, <5>2, SyncAssumption DEF Owner
      <4>3. CASE ClearHolder(t)
        <5>1. /\ lk[t] = "clr" /\ lk' = [lk EXCEPT ![t] = "zero"] /\ UNCHANGED la
              /\ holder' = [holder EXCEPT ![l] = NoThread]
          BY <2>2, <4>3 DEF ClearHolder, At, Goto
        <5>2. holder[l] = t
          <6>1. LockView(nest, t, l)
            BY DEF IInv, LockInv
          <6>2. QED BY <2>2, <5>1, <6>1 DEF LockView
        <5>3. QED BY <2>1, <2>2, <3>1, <5>1, <5>2, SyncAssumption DEF Owner
      <4>4. QED BY <4>1, <4>2, <4>3
    <3>5. QED BY <3>3, <3>4, Stutter
  <2>7. QED BY <1>3, <2>3, <2>4, <2>5, <2>6 DEF SyncStep
<1>4. CASE Clock
  BY <1>1, <1>4 DEF Clock, Tick
<1>5. ASSUME NEW t \in Threads, Step(t) PROVE [M!Next]_(M!mvars)
  <2>1. CASE \E l \in Locks : t # Idle /\ (Acquire(t, l) \/ Release(t, l))
    BY <1>2, <2>1
  <2>2. CASE YieldCPU(t)
    BY <1>1, <2>2 DEF YieldCPU, Yield
  <2>3. CASE kernel_thread(t) /\ UNCHANGED nest
    BY <1>1, <2>3 DEF kernel_thread
  <2>4. CASE SyncStep(t) /\ UNCHANGED nest
    BY <1>3, <2>4
  <2>5. CASE idle /\ UNCHANGED nest
    BY <1>1, <2>5 DEF idle, IdleBlock, IdleHalt
  <2>6. QED BY <1>5, <2>1, <2>2, <2>3, <2>4, <2>5 DEF Step
<1>6. CASE UNCHANGED vars
  BY <1>1, <1>6 DEF vars
<1>7. QED BY <1>4, <1>5, <1>6 DEF Next

(* The initial states map to the initial state of Mutex. *)
LEMMA RefineInit == Init => M!Init
<1> SUFFICES ASSUME Init PROVE M!Init
  OBVIOUS
<1>1. /\ holder = [l \in Locks |-> NoThread] /\ lk = [t \in Threads |-> "out"]
  BY DEF Init, SyncInit, LocksInit
<1>2. \A l \in Locks, t \in Threads : ~Owner(t, l) /\ t \notin Wanting(l)
  BY <1>1, SyncAssumption DEF Owner, Wanting
<1>3. \A l \in Locks : OwnerOf(l) = NoThread /\ Wanting(l) = {}
  BY <1>2 DEF OwnerOf, Wanting
<1>4. QED BY <1>3 DEF M!Init

(* The lock code of sync.c, run by any number of threads under the         *)
(* scheduler and the clock, implements the safety part of the abstract     *)
(* mutex.                                                                  *)
THEOREM RefinesMutex == Spec => MutexSafety
BY Invariance, RefineInit, RefineNext, PTL DEF Spec, MutexSafety, M!Spec
=============================================================================
