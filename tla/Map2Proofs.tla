----------------------------- MODULE Map2Proofs -----------------------------
(***************************************************************************)
(* Proofs about the maps (Map2): for any number of receivers, keys and     *)
(* cells of memory the nodes stay a list that implements a map, receivers  *)
(* free their own values, and a walk meets whom it should.                 *)
(***************************************************************************)
EXTENDS Map2, Integers, TLAPS

USE Map2Assumption

-----------------------------------------------------------------------------
(* Sequences that grow at the head or lose one element.                    *)

(***************************************************************************)
(* The list after Prepend.                                                 *)
(***************************************************************************)
LEMMA ConsSeq ==
    ASSUME NEW S, NEW s \in Seq(S), NEW c \in S
    PROVE  /\ <<c>> \o s \in Seq(S)
           /\ Len(<<c>> \o s) = Len(s) + 1
           /\ (<<c>> \o s)[1] = c
           /\ \A i \in 1..Len(s) : (<<c>> \o s)[i + 1] = s[i]
           /\ \A i \in 1..(Len(s) + 1) : i = 1 \/ i - 1 \in 1..Len(s)
  OBVIOUS

(***************************************************************************)
(* The list after Unlink.                                                  *)
(***************************************************************************)
LEMMA WithoutSeq ==
    ASSUME order \in Seq(Cells), NEW i \in 1..Len(order)
    PROVE  /\ Without(i) \in Seq(Cells)
           /\ Len(Without(i)) = Len(order) - 1
           /\ \A j \in 1..(Len(order) - 1) :
                Without(i)[j] = IF j < i THEN order[j] ELSE order[j + 1]
  <1>1. Len(order) \in Nat /\ Len(order) - 1 \in Nat
    OBVIOUS
  <1>2. \A j \in 1..(Len(order) - 1) : j \in 1..Len(order) /\ j + 1 \in 1..Len(order)
    OBVIOUS
  <1>3. Without(i) \in [1..(Len(order) - 1) -> Cells]
    BY <1>1, <1>2 DEF Without
  <1>4. Without(i) \in Seq(Cells) /\ Len(Without(i)) = Len(order) - 1
    BY <1>1, <1>3
  <1> QED
    BY <1>4 DEF Without

-----------------------------------------------------------------------------
(* Types.                                                                  *)

(***************************************************************************)
(* Every variable keeps its shape.                                         *)
(***************************************************************************)
THEOREM TypeCorrect == Spec => []TypeOK
  <1>1. Init => TypeOK
    BY DEF Init, EmptyList, TypeOK, Callers
  <1>2. TypeOK /\ [Next]_vars => TypeOK'
    <2> SUFFICES ASSUME TypeOK, [Next]_vars PROVE TypeOK'
      OBVIOUS
    <2> USE DEF TypeOK, Callers, iter, list
    <2>1. ASSUME NEW r \in Receivers, NEW k \in Keys, Add(k, r)
          PROVE  /\ head' \in Cells \cup {NULL} /\ order' \in Seq(Cells)
                 /\ next' \in [Cells -> Cells \cup {NULL}]
                 /\ key' \in [Cells -> Keys \cup {NULL}]
                 /\ value' \in [Cells -> Receivers \cup {NULL}]
      <3> PICK c \in Cells : /\ key' = [key EXCEPT ![c] = k]
                             /\ value' = [value EXCEPT ![c] = r]
                             /\ Prepend(c)
        BY <2>1 DEF Add
      <3> QED
        BY ConsSeq DEF Prepend
    <2>2. CASE \E r \in Receivers, k \in Keys : Register(r, k) \/ Store(k, r)
      BY <2>1, <2>2 DEF Register, Store
    <2>3. CASE \E r \in Receivers : Unregister(r)
      <3> PICK r \in Receivers : Unregister(r)
        BY <2>3
      <3>1. CASE NoMatch(fd[r]) /\ answer' = [answer EXCEPT ![r] = NULL] /\ UNCHANGED list
        BY <3>1 DEF Unregister
      <3>2. CASE \E i \in 1..Len(order) : answer' = [answer EXCEPT ![r] = value[order[i]]] /\ Unlink(i)
        <4> PICK i \in 1..Len(order) : answer' = [answer EXCEPT ![r] = value[order[i]]] /\ Unlink(i)
          BY <3>2
        <4>1. order[i] \in Cells
          OBVIOUS
        <4>2. order' \in Seq(Cells)
          BY WithoutSeq DEF Unlink
        <4>3. head' \in Cells \cup {NULL}
          BY <4>1 DEF Unlink
        <4>4. next' \in [Cells -> Cells \cup {NULL}]
          BY <4>1 DEF Unlink
        <4>5. key' \in [Cells -> Keys \cup {NULL}] /\ value' \in [Cells -> Receivers \cup {NULL}]
          BY <4>1 DEF Unlink, Freed
        <4>6. answer' \in [Callers -> Receivers \cup {NULL}]
          BY <4>1
        <4> QED
          BY <4>2, <4>3, <4>4, <4>5, <4>6 DEF Unregister
      <3> QED
        BY <3>1, <3>2 DEF Unregister, Remove
    <2>4. CASE \E r \in Receivers : FreeAndClose(r)
      BY <2>4 DEF FreeAndClose
    <2>5. CASE \E k \in Keys : Lookup(k)
      <3> PICK k \in Keys : Lookup(k)
        BY <2>5
      <3>1. found' \in Cells \cup {NULL, "none"}
        BY DEF Lookup
      <3> QED
        BY <3>1 DEF Lookup
    <2>6. CASE ReadItem
      BY <2>6 DEF ReadItem, Read
    <2>7. CASE IteratorNew
      BY <2>7 DEF IteratorNew
    <2>8. CASE IteratorLock \/ IteratorDangles \/ IteratorUnlock
      BY <2>8 DEF IteratorLock, IteratorDangles, IteratorUnlock
    <2>9. CASE IteratorNext
      BY <2>9 DEF IteratorNext, After, InList
    <2>10. CASE UNCHANGED vars
      BY <2>10 DEF vars
    <2> QED
      BY <2>2, <2>3, <2>4, <2>5, <2>6, <2>7, <2>8, <2>9, <2>10 DEF Next
  <1> QED
    BY <1>1, <1>2, PTL DEF Spec

-----------------------------------------------------------------------------
(* The nodes.                                                              *)

(***************************************************************************)
(* LIST_prepend keeps the list: the cell is not in it.                     *)
(***************************************************************************)
LEMMA PrependLinked ==
    ASSUME TypeOK, Linked, NEW c \in Cells \ InList, Prepend(c)
    PROVE  Linked'
  <1> DEFINE n == Len(order)
  <1>1. /\ order \in Seq(Cells) /\ n \in Nat
        /\ next \in [Cells -> Cells \cup {NULL}]
    BY DEF TypeOK
  <1>2. /\ Len(order') = n + 1 /\ order'[1] = c
        /\ \A i \in 1..n : order'[i + 1] = order[i]
        /\ \A i \in 1..(n + 1) : i = 1 \/ i - 1 \in 1..n
    BY <1>1, ConsSeq DEF Prepend
  <1>3. \A i \in 1..n : order[i] # c /\ order[i] \in Cells
    BY <1>1 DEF InList
  <1>4. \A i \in 1..(n + 1) : i = 1 \/ (i - 1 \in 1..n /\ order'[i] = order[i - 1])
    <2> SUFFICES ASSUME NEW i \in 1..(n + 1), i # 1
                 PROVE  i - 1 \in 1..n /\ order'[i] = order[i - 1]
      OBVIOUS
    <2>1. i - 1 \in 1..n /\ (i - 1) + 1 = i
      BY <1>1, <1>2
    <2> QED
      BY <1>2, <2>1
  <1>5. head' = IF order' = <<>> THEN NULL ELSE order'[1]
    BY <1>1, <1>2 DEF Prepend
  <1>6. ASSUME NEW i \in 1..(n + 1)
        PROVE  next'[order'[i]] = IF i = n + 1 THEN NULL ELSE order'[i + 1]
    <2>1. CASE i = 1
      <3>1. next'[order'[i]] = head
        BY <1>1, <1>2, <2>1 DEF Prepend
      <3>2. CASE n = 0
        BY <3>1, <3>2, <2>1, <1>1 DEF Linked
      <3>3. CASE n # 0
        BY <3>1, <3>3, <2>1, <1>1, <1>2 DEF Linked
      <3> QED
        BY <3>2, <3>3
    <2>2. CASE i # 1
      <3>1. i - 1 \in 1..n /\ order'[i] = order[i - 1]
        BY <2>2, <1>4
      <3>2. next'[order'[i]] = next[order[i - 1]]
        BY <3>1, <1>1, <1>3 DEF Prepend
      <3>3. next[order[i - 1]] = IF i - 1 = n THEN NULL ELSE order[(i - 1) + 1]
        BY <3>1 DEF Linked
      <3>4. i # n + 1 => i \in 1..n /\ order'[i + 1] = order[i]
        BY <1>1, <1>2
      <3> QED
        BY <3>2, <3>3, <3>4, <1>1
    <2> QED
      BY <2>1, <2>2
  <1>7. ASSUME NEW i \in 1..(n + 1), NEW j \in 1..(n + 1), order'[i] = order'[j]
        PROVE  i = j
    <2>1. CASE i = 1 \/ j = 1
      BY <2>1, <1>2, <1>3, <1>4, <1>7
    <2>2. CASE i # 1 /\ j # 1
      <3>1. i - 1 \in 1..n /\ j - 1 \in 1..n /\ order[i - 1] = order[j - 1]
        BY <2>2, <1>4, <1>7
      <3> QED
        BY <3>1, <1>1 DEF Linked
    <2> QED
      BY <2>1, <2>2
  <1> QED
    BY <1>2, <1>5, <1>6, <1>7 DEF Linked

(***************************************************************************)
(* LIST_remove keeps the list.                                             *)
(***************************************************************************)
LEMMA UnlinkLinked ==
    ASSUME TypeOK, Linked, NEW i \in 1..Len(order), Unlink(i)
    PROVE  Linked'
  <1> DEFINE n == Len(order)
  <1> DEFINE at(j) == IF j < i THEN j ELSE j + 1
  <1>1. /\ order \in Seq(Cells) /\ n \in Nat /\ i \in Int
        /\ next \in [Cells -> Cells \cup {NULL}]
    BY DEF TypeOK
  <1>2. /\ order' \in Seq(Cells) /\ Len(order') = n - 1
        /\ \A j \in 1..(n - 1) : order'[j] = order[at(j)]
    BY <1>1, WithoutSeq DEF Unlink
  <1>3. \A j \in 1..(n - 1) : at(j) \in 1..n /\ at(j) # i
    BY <1>1
  <1>4. \A j \in 1..n : order[j] \in Cells
    BY <1>1
  <1>5. \A j, k \in 1..n : order[j] = order[k] => j = k
    BY DEF Linked
  <1>6. \A j \in 1..n : next[order[j]] = IF j = n THEN NULL ELSE order[j + 1]
    BY DEF Linked
  <1>7. head' = IF order' = <<>> THEN NULL ELSE order'[1]
    <2>1. CASE i = 1 /\ n = 1
      BY <2>1, <1>1, <1>2, <1>6 DEF Unlink
    <2>2. CASE i = 1 /\ n > 1
      <3>1. head' = next[order[1]]
        BY <2>2 DEF Unlink
      <3>2. next[order[1]] = order[2] /\ at(1) = 2 /\ 1 \in 1..(n - 1)
        BY <2>2, <1>1, <1>6
      <3>3. order' # <<>> /\ order'[1] = order[at(1)]
        BY <3>2, <2>2, <1>2, <1>1
      <3> QED
        BY <3>1, <3>2, <3>3
    <2>3. CASE i > 1
      <3>1. head' = head /\ head = order[1]
        BY <2>3, <1>1 DEF Unlink, Linked
      <3>2. at(1) = 1 /\ 1 \in 1..(n - 1)
        BY <2>3, <1>1
      <3>3. order' # <<>> /\ order'[1] = order[at(1)]
        BY <3>2, <2>3, <1>2, <1>1
      <3> QED
        BY <3>1, <3>2, <3>3
    <2>4. (i = 1 /\ n = 1) \/ (i = 1 /\ n > 1) \/ i > 1
      <3>1. n >= i /\ i >= 1 /\ n \in Nat /\ i \in Int
        BY <1>1
      <3> HIDE DEF n
      <3> QED
        BY <3>1
    <2> QED
      BY <2>1, <2>2, <2>3, <2>4
  <1>8. ASSUME NEW j \in 1..(n - 1)
        PROVE  next'[order'[j]] = IF j = n - 1 THEN NULL ELSE order'[j + 1]
    <2> DEFINE c == order[at(j)]
    <2>1. /\ order'[j] = c /\ c \in Cells /\ at(j) \in 1..n /\ c # order[i]
      BY <1>2, <1>3, <1>4, <1>5
    <2>2. next'[c] = IF i > 1 /\ c = order[i - 1] THEN next[order[i]] ELSE next[c]
      BY <2>1 DEF Unlink
    <2>3. j # n - 1 => order'[j + 1] = order[at(j + 1)]
      <3>1. j # n - 1 => j + 1 \in 1..(n - 1)
        BY <1>1
      <3> HIDE DEF at
      <3> QED
        BY <3>1, <1>2
    <2>4. CASE j = i - 1
      <3>1. c = order[i - 1] /\ i > 1
        BY <2>4, <1>1
      <3>2. next'[c] = IF i = n THEN NULL ELSE order[i + 1]
        BY <3>1, <2>2, <1>6
      <3>3. at(j + 1) = i + 1
        BY <2>4, <1>1
      <3> QED
        BY <3>2, <3>3, <2>1, <2>3, <2>4, <1>1
    <2>5. CASE j # i - 1
      <3>1. i > 1 => c # order[i - 1]
        <4> SUFFICES ASSUME i > 1 PROVE at(j) # i - 1 /\ i - 1 \in 1..n
          BY <1>5, <2>1
        <4> QED
          BY <2>5, <1>1
      <3>2. next'[c] = IF at(j) = n THEN NULL ELSE order[at(j) + 1]
        BY <3>1, <2>1, <2>2, <1>6
      <3>3. /\ at(j) = n <=> j = n - 1
            /\ j # n - 1 => at(j + 1) = at(j) + 1
        BY <2>5, <1>1
      <3> QED
        BY <3>2, <3>3, <2>1, <2>3
    <2> QED
      BY <2>4, <2>5
  <1>9. ASSUME NEW j \in 1..(n - 1), NEW k \in 1..(n - 1), order'[j] = order'[k]
        PROVE  j = k
    <2>1. at(j) = at(k)
      BY <1>2, <1>3, <1>5, <1>9
    <2> QED
      BY <2>1, <1>1
  <1> QED
    BY <1>2, <1>7, <1>8, <1>9 DEF Linked

(***************************************************************************)
(* The nodes form a list at all times, whatever memory pmalloc gives.      *)
(***************************************************************************)
THEOREM ListIsLinked == Spec => []Linked
  <1>1. Init => Linked
    BY DEF Init, EmptyList, Linked
  <1>2. TypeOK /\ Linked /\ [Next]_vars => Linked'
    <2> SUFFICES ASSUME TypeOK, Linked, [Next]_vars PROVE Linked'
      OBVIOUS
    <2>1. CASE \E r \in Receivers, k \in Keys : Register(r, k) \/ Store(k, r)
      BY <2>1, PrependLinked DEF Register, Store, Add
    <2>2. CASE \E r \in Receivers : Unregister(r)
      <3>1. CASE UNCHANGED list
        BY <3>1 DEF list, Linked
      <3>2. CASE \E i \in 1..Len(order) : Unlink(i)
        BY <3>2, UnlinkLinked
      <3> QED
        BY <2>2, <3>1, <3>2 DEF Unregister, Remove
    <2>3. CASE UNCHANGED list
      BY <2>3 DEF list, Linked
    <2> QED
      BY <2>1, <2>2, <2>3 DEF Next, FreeAndClose, Lookup, ReadItem, IteratorNew, IteratorLock,
                             IteratorNext, IteratorDangles, IteratorUnlock, vars, list
  <1> QED
    BY <1>1, <1>2, TypeCorrect, PTL DEF Spec

-----------------------------------------------------------------------------
(* The entries.                                                            *)

(***************************************************************************)
(* Position j of the list without position i is this one of the list.      *)
(***************************************************************************)
At(i, j) == IF j < i THEN j ELSE j + 1

(***************************************************************************)
(* What MAP_add does to the entries.                                       *)
(***************************************************************************)
LEMMA AddEntries ==
    ASSUME TypeOK, NEW k \in Keys, NEW r \in Receivers, Add(k, r)
    PROVE  /\ Len(order') = Len(order) + 1
           /\ order'[1] \notin InList /\ key'[order'[1]] = k /\ value'[order'[1]] = r
           /\ \A i \in 1..Len(order) : /\ order'[i + 1] = order[i]
                                       /\ key'[order[i]] = key[order[i]]
                                       /\ value'[order[i]] = value[order[i]]
           /\ \A i \in 1..(Len(order) + 1) :
                i = 1 \/ \E j \in 1..Len(order) : i = j + 1
           /\ head' = order'[1] /\ order' # <<>>
  <1>1. PICK c \in Cells \ InList : /\ key' = [key EXCEPT ![c] = k]
                                   /\ value' = [value EXCEPT ![c] = r]
                                   /\ Prepend(c)
    BY DEF Add
  <1>2. /\ order \in Seq(Cells) /\ Len(order) \in Nat
        /\ key \in [Cells -> Keys \cup {NULL}] /\ value \in [Cells -> Receivers \cup {NULL}]
    BY DEF TypeOK
  <1>3. /\ Len(order') = Len(order) + 1 /\ order'[1] = c
        /\ \A i \in 1..Len(order) : order'[i + 1] = order[i]
        /\ head' = c
    BY <1>1, <1>2, ConsSeq DEF Prepend
  <1>4. \A i \in 1..Len(order) : order[i] # c /\ order[i] \in Cells
    BY <1>2 DEF InList
  <1>5. \A i \in 1..(Len(order) + 1) : i = 1 \/ \E j \in 1..Len(order) : i = j + 1
    <2> SUFFICES ASSUME NEW i \in 1..(Len(order) + 1), i # 1
                 PROVE  i - 1 \in 1..Len(order) /\ i = (i - 1) + 1
      OBVIOUS
    <2> QED
      BY <1>2
  <1>6. \A i \in 1..Len(order) : key'[order[i]] = key[order[i]] /\ value'[order[i]] = value[order[i]]
    BY <1>1, <1>2, <1>4
  <1>7. order' # <<>>
    BY <1>2, <1>3
  <1>8. key'[c] = k /\ value'[c] = r
    BY <1>1, <1>2
  <1> QED
    BY <1>1, <1>3, <1>5, <1>6, <1>7, <1>8

(***************************************************************************)
(* What MAP_remove does to the entries when it finds the key.              *)
(***************************************************************************)
LEMMA UnlinkEntries ==
    ASSUME TypeOK, Linked, NEW i \in 1..Len(order), Unlink(i)
    PROVE  /\ Len(order') = Len(order) - 1
           /\ \A j \in 1..(Len(order) - 1) :
                /\ At(i, j) \in 1..Len(order) /\ At(i, j) # i
                /\ order'[j] = order[At(i, j)]
                /\ key'[order[At(i, j)]] = key[order[At(i, j)]]
                /\ value'[order[At(i, j)]] = value[order[At(i, j)]]
           /\ \A k \in 1..Len(order) :
                k = i \/ \E j \in 1..(Len(order) - 1) : At(i, j) = k
           /\ \A j, k \in 1..(Len(order) - 1) : j < k <=> At(i, j) < At(i, k)
  <1>1. /\ order \in Seq(Cells) /\ Len(order) \in Nat /\ i \in Int
        /\ key \in [Cells -> Keys \cup {NULL}] /\ value \in [Cells -> Receivers \cup {NULL}]
    BY DEF TypeOK
  <1>2. /\ Len(order') = Len(order) - 1
        /\ \A j \in 1..(Len(order) - 1) : order'[j] = order[At(i, j)]
    BY <1>1, WithoutSeq DEF Unlink, At
  <1>3. \A j \in 1..(Len(order) - 1) : At(i, j) \in 1..Len(order) /\ At(i, j) # i
    BY <1>1 DEF At
  <1>4. \A k \in 1..Len(order) :
          k # i => key'[order[k]] = key[order[k]] /\ value'[order[k]] = value[order[k]]
    <2> SUFFICES ASSUME NEW k \in 1..Len(order), k # i
                 PROVE  key'[order[k]] = key[order[k]] /\ value'[order[k]] = value[order[k]]
      OBVIOUS
    <2>1. order[k] # order[i] /\ order[k] \in Cells
      BY <1>1 DEF Linked
    <2> QED
      BY <2>1, <1>1 DEF Unlink, Freed
  <1>5. \A k \in 1..Len(order) : k = i \/ \E j \in 1..(Len(order) - 1) : At(i, j) = k
    <2> SUFFICES ASSUME NEW k \in 1..Len(order), k # i
                 PROVE  \E j \in 1..(Len(order) - 1) : At(i, j) = k
      OBVIOUS
    <2>1. CASE k < i
      <3>1. k \in 1..(Len(order) - 1) /\ At(i, k) = k
        BY <2>1, <1>1 DEF At
      <3> QED
        BY <3>1
    <2>2. CASE k > i
      <3>1. k - 1 \in 1..(Len(order) - 1) /\ At(i, k - 1) = k
        BY <2>2, <1>1 DEF At
      <3> QED
        BY <3>1
    <2> QED
      BY <2>1, <2>2, <1>1
  <1>6. \A j, k \in 1..(Len(order) - 1) : j < k <=> At(i, j) < At(i, k)
    BY <1>1 DEF At
  <1> QED
    BY <1>2, <1>3, <1>4, <1>5, <1>6

-----------------------------------------------------------------------------
(* globSoMap and its connections.                                          *)

(***************************************************************************)
(* The entries of globSoMap are the open connections, each once and under  *)
(* its descriptor.                                                         *)
(***************************************************************************)
Registered ==
    use = "glob" =>
        /\ \A i \in 1..Len(order) :
             /\ value[order[i]] \in Receivers
             /\ conn[value[order[i]]] = "open"
             /\ key[order[i]] = fd[value[order[i]]]
        /\ \A i, j \in 1..Len(order) : value[order[i]] = value[order[j]] => i = j
        /\ \A r \in Receivers :
             conn[r] = "open" => \E i \in 1..Len(order) : value[order[i]] = r

(***************************************************************************)
(* Connections that are not closed have different descriptors.             *)
(***************************************************************************)
OwnFd ==
    /\ \A r \in Receivers : conn[r] # "closed" => fd[r] \in Keys
    /\ \A r, s \in Receivers :
         conn[r] # "closed" /\ conn[s] # "closed" /\ fd[r] = fd[s] => r = s

(***************************************************************************)
(* A behaviour uses one of the maps, and what MAP_get has found stays.     *)
(***************************************************************************)
OneUse ==
    /\ use = "glob" => found = "none"
    /\ use = "tid" => walk = "none" /\ \A r \in Receivers : conn[r] = "closed"
    /\ found \in Cells => found \in InList
    /\ (mutex = "walk") = (walk \in {"locked", "undefined"})

MapInv == TypeOK /\ Linked /\ Registered /\ OwnFd /\ OneUse /\ FreesItsOwn

(***************************************************************************)
(* A walk that waits for the mutex has nobody it should meet before its    *)
(* cursor; one that has it has met exactly those before its cursor, but    *)
(* for some that it need not.                                              *)
(***************************************************************************)
WalkInv ==
    /\ \A r \in due : conn[r] = "open"
    /\ walk = "new" =>
         /\ seen = {}
         /\ cursor = NULL => due = {}
         /\ \A i \in 1..Len(order) :
              cursor = order[i] => \A j \in 1..(i - 1) : value[order[j]] \notin due
    /\ walk = "locked" =>
         /\ cursor = NULL => due \subseteq seen
         /\ \A i \in 1..Len(order) :
              cursor = order[i] =>
                /\ \A s \in seen : \E j \in 1..(i - 1) : s = value[order[j]]
                /\ \A j \in 1..(i - 1) : value[order[j]] \in due => value[order[j]] \in seen

(***************************************************************************)
(* A connection opens.                                                     *)
(***************************************************************************)
LEMMA RegisterMapInv ==
    ASSUME MapInv, NEW r \in Receivers, NEW k \in Keys, Register(r, k)
    PROVE  Registered' /\ OwnFd' /\ OneUse' /\ FreesItsOwn'
  <1> DEFINE n == Len(order)
  <1>1. /\ n \in Nat
        /\ conn \in [Receivers -> {"closed", "open", "removed"}]
        /\ fd \in [Receivers -> Keys \cup {NULL}]
    BY DEF MapInv, TypeOK
  <1>2. /\ use = "glob" /\ conn[r] = "closed"
        /\ conn' = [conn EXCEPT ![r] = "open"] /\ fd' = [fd EXCEPT ![r] = k]
        /\ Add(k, r) /\ UNCHANGED <<use, mutex, answer, found, walk>>
        /\ \A s \in Receivers : conn[s] # "closed" => fd[s] # k
    BY DEF Register, Taken, iter
  <1>3. /\ Len(order') = n + 1
        /\ key'[order'[1]] = k /\ value'[order'[1]] = r
        /\ \A i \in 1..n : /\ order'[i + 1] = order[i]
                           /\ key'[order[i]] = key[order[i]]
                           /\ value'[order[i]] = value[order[i]]
        /\ \A i \in 1..(n + 1) : i = 1 \/ \E j \in 1..n : i = j + 1
    BY <1>2, AddEntries DEF MapInv
  <1> HIDE DEF n
  <1>4. conn'[r] = "open" /\ fd'[r] = k
    BY <1>1, <1>2
  <1>5. \A i \in 1..n : /\ value[order[i]] \in Receivers /\ conn[value[order[i]]] = "open"
                         /\ value[order[i]] # r
                         /\ key[order[i]] = fd[value[order[i]]]
    BY <1>2 DEF MapInv, Registered, n
  <1>6. ASSUME NEW i \in 1..(n + 1)
        PROVE  /\ value'[order'[i]] \in Receivers
               /\ conn'[value'[order'[i]]] = "open"
               /\ key'[order'[i]] = fd'[value'[order'[i]]]
    <2>1. CASE i = 1
      BY <2>1, <1>3, <1>4
    <2>2. ASSUME NEW j \in 1..n, i = j + 1
          PROVE  <1>6!2
      <3>1. value'[order'[i]] = value[order[j]] /\ key'[order'[i]] = key[order[j]]
        BY <2>2, <1>3
      <3> QED
        BY <3>1, <1>1, <1>2, <1>5
    <2> QED
      BY <2>1, <2>2, <1>3
  <1>7. ASSUME NEW i \in 1..(n + 1), NEW j \in 1..(n + 1), value'[order'[i]] = value'[order'[j]]
        PROVE  i = j
    <2>1. \A a, b \in 1..n : value[order[a]] = value[order[b]] => a = b
      BY <1>2 DEF MapInv, Registered, n
    <2>2. CASE i = 1 \/ j = 1
      BY <2>2, <1>3, <1>5, <1>7
    <2>3. ASSUME NEW a \in 1..n, NEW b \in 1..n, i = a + 1, j = b + 1
          PROVE  i = j
      <3>1. value[order[a]] = value[order[b]]
        BY <2>3, <1>3, <1>7
      <3> QED
        BY <3>1, <2>1, <2>3
    <2> QED
      BY <2>2, <2>3, <1>3
  <1>8. ASSUME NEW s \in Receivers, conn'[s] = "open"
        PROVE  \E i \in 1..(n + 1) : value'[order'[i]] = s
    <2>1. CASE s = r
      <3>1. 1 \in 1..(n + 1)
        BY <1>1
      <3> QED
        BY <3>1, <2>1, <1>3
    <2>2. CASE s # r
      <3>1. PICK j \in 1..n : value[order[j]] = s
        BY <2>2, <1>1, <1>2, <1>8 DEF MapInv, Registered, n
      <3>2. j + 1 \in 1..(n + 1) /\ value'[order'[j + 1]] = s
        BY <3>1, <1>1, <1>3
      <3> QED
        BY <3>2
    <2> QED
      BY <2>1, <2>2
  <1>9. Registered'
    BY <1>3, <1>6, <1>7, <1>8 DEF Registered
  <1>10. OwnFd'
    BY <1>1, <1>2 DEF MapInv, OwnFd
  <1>11. OneUse'
    BY <1>2 DEF MapInv, OneUse
  <1>12. FreesItsOwn'
    BY <1>1, <1>2 DEF MapInv, FreesItsOwn
  <1> QED
    BY <1>9, <1>10, <1>11, <1>12

(***************************************************************************)
(* A connection ends: its own entry is the one that is found and removed.  *)
(***************************************************************************)
LEMMA OwnEntry ==
    ASSUME MapInv, NEW r \in Receivers, Unregister(r)
    PROVE  \E i \in 1..Len(order) :
             /\ Match(fd[r], i) /\ value[order[i]] = r
             /\ answer' = [answer EXCEPT ![r] = r] /\ Unlink(i)
  <1>1. use = "glob" /\ conn[r] = "open" /\ Remove(r, fd[r])
    BY DEF Unregister
  <1>2. PICK m \in 1..Len(order) : value[order[m]] = r /\ key[order[m]] = fd[r]
    BY <1>1 DEF MapInv, Registered
  <1>3. ~NoMatch(fd[r])
    BY <1>2 DEF NoMatch
  <1>4. PICK i \in 1..Len(order) : /\ Match(fd[r], i) /\ Unlink(i)
                                  /\ answer' = [answer EXCEPT ![r] = value[order[i]]]
    BY <1>1, <1>3 DEF Remove
  <1>5. value[order[i]] = r
    <2>1. /\ value[order[i]] \in Receivers /\ conn[value[order[i]]] = "open"
          /\ fd[value[order[i]]] = fd[r]
      BY <1>1, <1>4 DEF MapInv, Registered, Match
    <2> QED
      BY <2>1, <1>1 DEF MapInv, OwnFd
  <1> QED
    BY <1>4, <1>5

LEMMA UnregisterMapInv ==
    ASSUME MapInv, NEW r \in Receivers, Unregister(r)
    PROVE  Registered' /\ OwnFd' /\ OneUse' /\ FreesItsOwn'
  <1> DEFINE n == Len(order)
  <1>1. /\ n \in Nat
        /\ conn \in [Receivers -> {"closed", "open", "removed"}]
        /\ answer \in [Callers -> Receivers \cup {NULL}]
    BY DEF MapInv, TypeOK
  <1>2. /\ use = "glob" /\ conn[r] = "open"
        /\ conn' = [conn EXCEPT ![r] = "removed"]
        /\ UNCHANGED <<use, mutex, fd, found, walk>>
    BY DEF Unregister
  <1>3. PICK i \in 1..n : /\ value[order[i]] = r /\ Unlink(i)
                          /\ answer' = [answer EXCEPT ![r] = r]
    BY OwnEntry
  <1>4. /\ Len(order') = n - 1
        /\ \A j \in 1..(n - 1) :
             /\ At(i, j) \in 1..n /\ At(i, j) # i
             /\ order'[j] = order[At(i, j)]
             /\ key'[order[At(i, j)]] = key[order[At(i, j)]]
             /\ value'[order[At(i, j)]] = value[order[At(i, j)]]
        /\ \A k \in 1..n : k = i \/ \E j \in 1..(n - 1) : At(i, j) = k
        /\ \A j, k \in 1..(n - 1) : At(i, j) = At(i, k) => j = k
    <2>1. MapInv => TypeOK /\ Linked
      BY DEF MapInv
    <2>2. \A j, k \in 1..(n - 1) : At(i, j) = At(i, k) => j = k
      BY <1>1 DEF At
    <2> QED
      BY <2>1, <2>2, <1>3, UnlinkEntries
  <1>5. \A j, k \in 1..n : value[order[j]] = value[order[k]] => j = k
    BY <1>2 DEF MapInv, Registered
  <1>6. \A j \in 1..n : /\ value[order[j]] \in Receivers
                         /\ conn[value[order[j]]] = "open"
                         /\ key[order[j]] = fd[value[order[j]]]
    BY <1>2 DEF MapInv, Registered
  <1>7. ASSUME NEW j \in 1..(n - 1)
        PROVE  /\ value'[order'[j]] \in Receivers
               /\ conn'[value'[order'[j]]] = "open"
               /\ key'[order'[j]] = fd'[value'[order'[j]]]
               /\ value'[order'[j]] = value[order[At(i, j)]]
    <2>1. value'[order'[j]] = value[order[At(i, j)]] /\ key'[order'[j]] = key[order[At(i, j)]]
      BY <1>4
    <2>2. value[order[At(i, j)]] # r /\ At(i, j) \in 1..n
      BY <1>3, <1>4, <1>5
    <2> QED
      BY <2>1, <2>2, <1>1, <1>2, <1>6
  <1>8. ASSUME NEW s \in Receivers, conn'[s] = "open"
        PROVE  \E j \in 1..(n - 1) : value'[order'[j]] = s
    <2>1. s # r /\ conn[s] = "open"
      BY <1>1, <1>2, <1>8
    <2>2. PICK k \in 1..n : value[order[k]] = s
      BY <2>1, <1>2 DEF MapInv, Registered
    <2>3. PICK j \in 1..(n - 1) : At(i, j) = k
      BY <2>1, <2>2, <1>3, <1>4
    <2> QED
      BY <2>2, <2>3, <1>7
  <1>9. ASSUME NEW j \in 1..(n - 1), NEW k \in 1..(n - 1), value'[order'[j]] = value'[order'[k]]
        PROVE  j = k
    <2>1. At(i, j) \in 1..n /\ At(i, k) \in 1..n
      BY <1>4
    <2>2. value[order[At(i, j)]] = value[order[At(i, k)]]
      BY <1>7, <1>9
    <2>3. At(i, j) = At(i, k)
      BY <2>1, <2>2, <1>5
    <2> QED
      BY <2>3, <1>4
  <1>10. Registered'
    BY <1>4, <1>7, <1>8, <1>9 DEF Registered
  <1>11. OwnFd'
    BY <1>1, <1>2 DEF MapInv, OwnFd
  <1>12. OneUse'
    <2>1. found = "none" /\ found \notin Cells
      BY <1>2 DEF MapInv, OneUse
    <2> QED
      BY <2>1, <1>2 DEF MapInv, OneUse
  <1>13. FreesItsOwn'
    BY <1>1, <1>2, <1>3 DEF MapInv, FreesItsOwn, Callers
  <1> QED
    BY <1>10, <1>11, <1>12, <1>13

(***************************************************************************)
(* A transaction is added; what MAP_get has found is still in the list.    *)
(***************************************************************************)
LEMMA StoreMapInv ==
    ASSUME MapInv, NEW r \in Receivers, NEW k \in Keys, Store(k, r)
    PROVE  Registered' /\ OwnFd' /\ OneUse' /\ FreesItsOwn'
  <1>1. use = "tid" /\ Add(k, r) /\ UNCHANGED <<use, mutex, conn, fd, answer, found, walk>>
    BY DEF Store, iter
  <1>2. Registered'
    BY <1>1 DEF Registered
  <1>3. OwnFd' /\ FreesItsOwn'
    BY <1>1 DEF MapInv, OwnFd, FreesItsOwn
  <1>4. InList \subseteq InList'
    <2>1. /\ Len(order) \in Nat /\ Len(order') = Len(order) + 1
          /\ \A i \in 1..Len(order) : order'[i + 1] = order[i]
      BY <1>1, AddEntries DEF MapInv, TypeOK
    <2>2. \A i \in 1..Len(order) : i + 1 \in 1..Len(order')
      BY <2>1
    <2> QED
      BY <2>1, <2>2 DEF InList
  <1>5. OneUse'
    BY <1>1, <1>4 DEF MapInv, OneUse
  <1> QED
    BY <1>2, <1>3, <1>5

LEMMA StepMapInv ==
    ASSUME MapInv, [Next]_vars
    PROVE  Registered' /\ OwnFd' /\ OneUse' /\ FreesItsOwn'
  <1>1. CASE \E r \in Receivers, k \in Keys : Register(r, k) \/ Store(k, r)
    BY <1>1, RegisterMapInv, StoreMapInv
  <1>2. CASE \E r \in Receivers : Unregister(r)
    BY <1>2, UnregisterMapInv
  <1>3. CASE \E r \in Receivers : FreeAndClose(r)
    <2> PICK r \in Receivers : FreeAndClose(r)
      BY <1>3
    <2>1. /\ conn \in [Receivers -> {"closed", "open", "removed"}]
          /\ fd \in [Receivers -> Keys \cup {NULL}]
          /\ conn[r] = "removed" /\ conn' = [conn EXCEPT ![r] = "closed"]
          /\ fd' = [fd EXCEPT ![r] = NULL]
          /\ UNCHANGED <<use, head, order, next, key, value, mutex, answer, found, walk>>
      BY DEF MapInv, TypeOK, FreeAndClose, list, iter
    <2>2. Registered'
      BY <2>1 DEF MapInv, Registered
    <2>3. OwnFd' /\ FreesItsOwn'
      BY <2>1 DEF MapInv, OwnFd, FreesItsOwn
    <2>4. OneUse'
      BY <2>1 DEF MapInv, OneUse, InList
    <2> QED
      BY <2>2, <2>3, <2>4
  <1>4. CASE UNCHANGED <<use, list, conn, fd, answer>>
             /\ (UNCHANGED <<mutex, found, walk>> \/ (\E k \in Keys : Lookup(k)) \/ IteratorNew
                   \/ IteratorLock \/ IteratorDangles \/ IteratorUnlock)
    <2>1. Registered'
      <3>1. CASE use = "tid"
        BY <3>1, <1>4 DEF Registered
      <3>2. CASE use = "glob"
        <4>1. found' = "none"
          BY <3>2, <1>4 DEF MapInv, OneUse, Lookup, IteratorNew, IteratorLock, IteratorDangles,
                          IteratorUnlock
        <4> QED
          BY <1>4 DEF MapInv, Registered, list
      <3> QED
        BY <3>1, <3>2, <1>4 DEF MapInv, TypeOK
    <2>2. OwnFd' /\ FreesItsOwn'
      BY <1>4 DEF MapInv, OwnFd, FreesItsOwn
    <2>3. OneUse'
      <3>1. CASE UNCHANGED <<mutex, found, walk>>
        BY <3>1, <1>4 DEF MapInv, OneUse, InList, list
      <3>2. CASE \E k \in Keys : Lookup(k)
        <4>1. /\ use = "tid"
              /\ found' \in Cells => found' \in InList
              /\ UNCHANGED <<use, order, mutex, conn, walk>>
          BY <3>2 DEF Lookup, iter, list, InList
        <4> QED
          BY <4>1 DEF MapInv, OneUse, InList
      <3>3. CASE IteratorNew
        BY <3>3 DEF MapInv, OneUse, InList, IteratorNew, list
      <3>4. CASE IteratorLock
        BY <3>4 DEF MapInv, OneUse, InList, IteratorLock, list
      <3>5. CASE IteratorDangles
        BY <3>5 DEF MapInv, OneUse, InList, IteratorDangles, list
      <3>6. CASE IteratorUnlock
        BY <3>6 DEF MapInv, OneUse, InList, IteratorUnlock, list
      <3> QED
        BY <3>1, <3>2, <3>3, <3>4, <3>5, <3>6, <1>4
    <2> QED
      BY <2>1, <2>2, <2>3
  <1>5. CASE ReadItem
    <2>1. /\ found # "none" /\ found' = "none"
          /\ answer' = [answer EXCEPT ![Transmitter] = Read(found)]
          /\ UNCHANGED <<use, order, mutex, conn, fd, walk>>
      BY <1>5 DEF ReadItem, list, iter
    <2>2. use = "tid"
      BY <2>1 DEF MapInv, OneUse, TypeOK
    <2>3. Registered' /\ OwnFd'
      BY <2>1, <2>2 DEF MapInv, Registered, OwnFd
    <2>4. FreesItsOwn'
      BY <2>1, <2>2 DEF MapInv, FreesItsOwn, OneUse
    <2>5. OneUse'
      BY <2>1, <2>2 DEF MapInv, OneUse
    <2> QED
      BY <2>3, <2>4, <2>5
  <1>6. CASE IteratorNext
    BY <1>4, <1>6 DEF IteratorNext
  <1>7. CASE UNCHANGED vars
    BY <1>4, <1>7 DEF vars, iter
  <1> QED
    <2>1. CASE IteratorNew \/ IteratorLock \/ IteratorDangles \/ IteratorUnlock
               \/ \E k \in Keys : Lookup(k)
      BY <2>1, <1>4 DEF IteratorNew, IteratorLock, IteratorDangles, IteratorUnlock, Lookup
    <2> QED
      BY <2>1, <1>1, <1>2, <1>3, <1>5, <1>6, <1>7 DEF Next

(***************************************************************************)
(* The first of the two inductive invariants.                              *)
(***************************************************************************)
LEMMA MapInvHolds == Spec => []MapInv
  <1>1. Init => Registered /\ OwnFd /\ OneUse /\ FreesItsOwn
    BY DEF Init, EmptyList, Registered, OwnFd, OneUse, FreesItsOwn
  <1>2. TypeOK /\ Linked /\ TypeOK' /\ Linked' /\ Registered /\ OwnFd /\ OneUse /\ FreesItsOwn
        /\ [Next]_vars => Registered' /\ OwnFd' /\ OneUse' /\ FreesItsOwn'
    BY StepMapInv DEF MapInv
  <1>3. MapInv <=> TypeOK /\ Linked /\ Registered /\ OwnFd /\ OneUse /\ FreesItsOwn
    BY DEF MapInv
  <1> QED
    BY <1>1, <1>2, <1>3, TypeCorrect, ListIsLinked, PTL DEF Spec

(***************************************************************************)
(* A receiver frees the value of its own connection and no other.          *)
(***************************************************************************)
THEOREM ReceiversFreeTheirOwn == Spec => []FreesItsOwn
  <1>1. MapInv => FreesItsOwn
    BY DEF MapInv
  <1> QED
    BY <1>1, MapInvHolds, PTL

-----------------------------------------------------------------------------
(* The walk.                                                               *)

LEMMA RegisterWalkInv ==
    ASSUME MapInv, WalkInv, NEW r \in Receivers, NEW k \in Keys, Register(r, k)
    PROVE  WalkInv'
  <1> DEFINE n == Len(order)
  <1>1. /\ n \in Nat
        /\ conn \in [Receivers -> {"closed", "open", "removed"}] /\ due \subseteq Receivers
        /\ walk = "locked" => mutex = "walk"
    BY DEF MapInv, TypeOK, OneUse
  <1>2. /\ conn[r] = "closed" /\ conn' = [conn EXCEPT ![r] = "open"]
        /\ Add(k, r) /\ mutex = "free" /\ UNCHANGED <<walk, cursor, seen, due>>
    BY DEF Register, Add, iter
  <1>3. /\ Len(order') = n + 1 /\ value'[order'[1]] = r
        /\ \A i \in 1..n : order'[i + 1] = order[i] /\ value'[order[i]] = value[order[i]]
        /\ \A i \in 1..(n + 1) : i = 1 \/ \E j \in 1..n : i = j + 1
    BY <1>2, AddEntries DEF MapInv
  <1> HIDE DEF n
  <1>4. r \notin due /\ \A s \in due : conn'[s] = "open"
    BY <1>1, <1>2 DEF WalkInv
  <1>5. ASSUME walk = "new", NEW i \in 1..(n + 1), cursor = order'[i], NEW j \in 1..(i - 1)
        PROVE  value'[order'[j]] \notin due
    <2>1. CASE j = 1
      BY <2>1, <1>3, <1>4
    <2>2. CASE j # 1
      <3>1. i # 1 /\ j \in 1..(n + 1)
        BY <2>2, <1>1
      <3>2. PICK a \in 1..n : i = a + 1
        BY <3>1, <1>3
      <3>3. PICK b \in 1..n : j = b + 1
        BY <3>1, <2>2, <1>3
      <3>4. cursor = order[a] /\ value'[order'[j]] = value[order[b]]
        BY <3>2, <3>3, <1>3, <1>5
      <3>5. b \in 1..(a - 1)
        BY <3>2, <3>3, <1>1, <1>5
      <3> QED
        BY <3>4, <3>5, <1>5 DEF WalkInv, n
    <2> QED
      BY <2>1, <2>2
  <1>6. walk' # "locked"
    BY <1>1, <1>2
  <1> QED
    BY <1>2, <1>3, <1>4, <1>5, <1>6 DEF WalkInv

LEMMA UnregisterWalkInv ==
    ASSUME MapInv, WalkInv, NEW r \in Receivers, Unregister(r)
    PROVE  WalkInv'
  <1> DEFINE n == Len(order)
  <1>1. /\ n \in Nat
        /\ conn \in [Receivers -> {"closed", "open", "removed"}] /\ due \subseteq Receivers
        /\ walk = "locked" => mutex = "walk"
    BY DEF MapInv, TypeOK, OneUse
  <1>2. /\ conn' = [conn EXCEPT ![r] = "removed"] /\ due' = due \ {r}
        /\ mutex = "free" /\ UNCHANGED <<walk, cursor, seen>>
    BY DEF Unregister
  <1>3. PICK i \in 1..n : Unlink(i)
    BY OwnEntry
  <1>4. /\ Len(order') = n - 1
        /\ \A j \in 1..(n - 1) :
             /\ At(i, j) \in 1..n /\ order'[j] = order[At(i, j)]
             /\ value'[order[At(i, j)]] = value[order[At(i, j)]]
        /\ \A j, k \in 1..(n - 1) : j < k => At(i, j) < At(i, k)
    <2>1. MapInv => TypeOK /\ Linked
      BY DEF MapInv
    <2> QED
      BY <2>1, <1>3, UnlinkEntries
  <1> HIDE DEF n
  <1>5. \A s \in due' : conn'[s] = "open"
    BY <1>1, <1>2 DEF WalkInv
  <1>6. ASSUME walk = "new", NEW j \in 1..(n - 1), cursor = order'[j], NEW k \in 1..(j - 1)
        PROVE  value'[order'[k]] \notin due'
    <2>1. k \in 1..(n - 1) /\ k < j
      BY <1>1
    <2>2. cursor = order[At(i, j)] /\ value'[order'[k]] = value[order[At(i, k)]]
      BY <2>1, <1>4, <1>6
    <2>3. At(i, k) \in 1..(At(i, j) - 1) /\ At(i, j) \in 1..n
      <3>1. At(i, k) \in 1..n /\ At(i, j) \in 1..n /\ At(i, k) < At(i, j)
        BY <2>1, <1>4
      <3> QED
        BY <3>1, <1>1
    <2> QED
      BY <2>2, <2>3, <1>2, <1>6 DEF WalkInv, n
  <1>7. walk' # "locked"
    BY <1>1, <1>2
  <1> QED
    BY <1>2, <1>4, <1>5, <1>6, <1>7 DEF WalkInv

(***************************************************************************)
(* The walk goes on by one cell.                                           *)
(***************************************************************************)
LEMMA NextWalkInv ==
    ASSUME MapInv, WalkInv, IteratorNext
    PROVE  WalkInv'
  <1> DEFINE n == Len(order)
  <1>1. /\ n \in Nat /\ due \subseteq Receivers /\ order \in Seq(Cells) /\ use = "glob"
    BY DEF MapInv, TypeOK, OneUse, IteratorNext
  <1>2. /\ walk = "locked" /\ cursor \in InList
        /\ seen' = seen \cup {value[cursor]} /\ cursor' = next[cursor]
        /\ UNCHANGED <<order, value, conn, walk, due>>
    BY DEF IteratorNext, After, list
  <1>3. PICK i \in 1..n : cursor = order[i]
    BY <1>2 DEF InList
  <1>4. /\ \A s \in seen : \E j \in 1..(i - 1) : s = value[order[j]]
        /\ \A j \in 1..(i - 1) : value[order[j]] \in due => value[order[j]] \in seen
    BY <1>2, <1>3 DEF WalkInv
  <1>5. cursor' = IF i = n THEN NULL ELSE order[i + 1]
    BY <1>2, <1>3 DEF MapInv, Linked
  <1>6. \A j \in 1..i : value[order[j]] \in due => value[order[j]] \in seen'
    <2> SUFFICES ASSUME NEW j \in 1..i, value[order[j]] \in due PROVE value[order[j]] \in seen'
      OBVIOUS
    <2>1. j \in 1..(i - 1) \/ j = i
      BY <1>1
    <2> QED
      BY <2>1, <1>2, <1>3, <1>4
  <1>7. ASSUME cursor' = NULL PROVE due \subseteq seen'
    <2>1. i = n
      <3>1. i # n => order[i + 1] \in Cells
        BY <1>1
      <3> QED
        BY <3>1, <1>5, <1>7
    <2> SUFFICES ASSUME NEW r \in due PROVE r \in seen'
      OBVIOUS
    <2>2. PICK j \in 1..n : value[order[j]] = r
      BY <1>1 DEF MapInv, WalkInv, Registered
    <2> QED
      BY <2>1, <2>2, <1>6
  <1>8. ASSUME NEW k \in 1..n, cursor' = order[k]
        PROVE  /\ \A s \in seen' : \E j \in 1..(k - 1) : s = value[order[j]]
               /\ \A j \in 1..(k - 1) : value[order[j]] \in due => value[order[j]] \in seen'
    <2>1. order[k] # NULL
      BY <1>1
    <2>2. i # n /\ order[i + 1] = order[k] /\ i + 1 \in 1..n
      BY <2>1, <1>1, <1>5, <1>8
    <2>3. k = i + 1
      BY <2>2 DEF MapInv, Linked
    <2>4. k - 1 = i /\ i \in 1..i /\ \A j \in 1..(i - 1) : j \in 1..i
      BY <2>3, <1>1
    <2>5. ASSUME NEW s \in seen' PROVE \E j \in 1..i : s = value[order[j]]
      BY <2>4, <2>5, <1>2, <1>3, <1>4
    <2> QED
      BY <2>4, <2>5, <1>6
  <1>9. /\ order' = order /\ value' = value /\ conn' = conn /\ due' = due
        /\ walk' = "locked"
    BY <1>2
  <1>10. \A s \in due' : conn'[s] = "open"
    BY <1>9 DEF WalkInv
  <1>11. \A k \in 1..Len(order') :
           cursor' = order'[k] =>
             /\ \A s \in seen' : \E j \in 1..(k - 1) : s = value'[order'[j]]
             /\ \A j \in 1..(k - 1) : value'[order'[j]] \in due' => value'[order'[j]] \in seen'
    BY <1>8, <1>9
  <1> QED
    BY <1>7, <1>9, <1>10, <1>11 DEF WalkInv

(***************************************************************************)
(* Nobody but the walk changes the list while it has the mutex.            *)
(***************************************************************************)
LEMMA StepWalkInv ==
    ASSUME MapInv, WalkInv, [Next]_vars
    PROVE  WalkInv'
  <1>1. CASE \E r \in Receivers, k \in Keys : Register(r, k)
    BY <1>1, RegisterWalkInv
  <1>2. CASE \E r \in Receivers, k \in Keys : Store(k, r)
    BY <1>2 DEF MapInv, OneUse, WalkInv, Store, iter
  <1>3. CASE \E r \in Receivers : Unregister(r)
    BY <1>3, UnregisterWalkInv
  <1>4. CASE \E r \in Receivers : FreeAndClose(r)
    <2> PICK r \in Receivers : FreeAndClose(r)
      BY <1>4
    <2>1. /\ conn[r] = "removed" /\ conn' = [conn EXCEPT ![r] = "closed"]
          /\ UNCHANGED <<order, value, walk, cursor, seen, due>>
          /\ conn \in [Receivers -> {"closed", "open", "removed"}] /\ due \subseteq Receivers
      BY DEF MapInv, TypeOK, FreeAndClose, list, iter
    <2>2. \A s \in due : conn'[s] = "open"
      BY <2>1 DEF WalkInv
    <2> QED
      BY <2>1, <2>2 DEF WalkInv
  <1>5. CASE UNCHANGED <<order, value, conn, walk, cursor, seen, due>>
    BY <1>5 DEF WalkInv
  <1>6. CASE IteratorNew
    <2>1. /\ walk' = "new" /\ cursor' = head /\ seen' = {}
          /\ due' = {r \in Receivers : conn[r] = "open"}
          /\ UNCHANGED <<order, value, conn>> /\ use = "glob"
      BY <1>6 DEF IteratorNew, list
    <2>2. Len(order) \in Nat /\ order \in Seq(Cells)
      BY DEF MapInv, TypeOK
    <2>3. head = NULL => due' = {}
      <3>1. order # <<>> => order[1] \in Cells
        BY <2>2
      <3>2. head = NULL => order = <<>>
        BY <3>1 DEF MapInv, Linked
      <3> QED
        BY <3>2, <2>1, <2>2 DEF MapInv, Registered
    <2>4. \A i \in 1..Len(order) : head = order[i] => i = 1
      <3> SUFFICES ASSUME NEW i \in 1..Len(order), head = order[i] PROVE i = 1
        OBVIOUS
      <3>1. head = order[1] /\ 1 \in 1..Len(order)
        BY <2>2 DEF MapInv, Linked
      <3> QED
        BY <3>1 DEF MapInv, Linked
    <2> QED
      BY <2>1, <2>3, <2>4 DEF WalkInv
  <1>7. CASE IteratorLock
    <2>1. /\ walk = "new" /\ walk' = "locked"
          /\ UNCHANGED <<order, value, conn, cursor, seen, due>>
      BY <1>7 DEF IteratorLock, list
    <2> QED
      BY <2>1 DEF WalkInv
  <1>8. CASE IteratorNext
    BY <1>8, NextWalkInv
  <1>9. CASE IteratorDangles
    BY <1>9 DEF WalkInv, IteratorDangles, list
  <1>10. CASE IteratorUnlock
    BY <1>10 DEF WalkInv, IteratorUnlock, list
  <1> QED
    <2>1. CASE ReadItem \/ (\E k \in Keys : Lookup(k)) \/ UNCHANGED vars
      BY <2>1, <1>5 DEF ReadItem, Lookup, vars, list, iter
    <2> QED
      BY <2>1, <1>1, <1>2, <1>3, <1>4, <1>6, <1>7, <1>8, <1>9, <1>10 DEF Next

LEMMA WalkInvHolds == Spec => []WalkInv
  <1>1. Init => WalkInv
    BY DEF Init, WalkInv
  <1> QED
    BY <1>1, StepWalkInv, MapInvHolds, PTL DEF Spec

(***************************************************************************)
(* A walk meets connections whose values are there, each once.             *)
(***************************************************************************)
THEOREM WalkMeetsTheLiving == Spec => []WalkMeetsLive
  <1>1. MapInv /\ WalkInv => WalkMeetsLive
    <2> SUFFICES ASSUME MapInv, WalkInv, walk = "locked", cursor \in InList
                 PROVE  value[cursor] \in Receivers \ seen /\ conn[value[cursor]] = "open"
      BY DEF WalkMeetsLive
    <2>1. PICK i \in 1..Len(order) : cursor = order[i]
      BY DEF InList
    <2>2. use = "glob" /\ Len(order) \in Nat
      BY DEF MapInv, TypeOK, OneUse
    <2>3. value[order[i]] \in Receivers /\ conn[value[order[i]]] = "open"
      BY <2>2 DEF MapInv, Registered
    <2>4. ASSUME value[order[i]] \in seen PROVE FALSE
      <3>1. PICK j \in 1..(i - 1) : value[order[i]] = value[order[j]]
        BY <2>1, <2>4 DEF WalkInv
      <3>2. j \in 1..Len(order) /\ j # i
        BY <2>2
      <3> QED
        BY <3>1, <3>2, <2>2 DEF MapInv, Registered
    <2> QED
      BY <2>1, <2>3, <2>4
  <1> QED
    BY <1>1, MapInvHolds, WalkInvHolds, PTL

(***************************************************************************)
(* A walk misses no connection that stays.                                 *)
(***************************************************************************)
THEOREM WalkMissesNoOne == Spec => []WalkMissesNobody
  <1>1. WalkInv => WalkMissesNobody
    BY DEF WalkInv, WalkMissesNobody
  <1> QED
    BY <1>1, WalkInvHolds, PTL

-----------------------------------------------------------------------------
(* The list implements the map.                                            *)

LEMMA EntriesAre ==
    ASSUME TypeOK
    PROVE  /\ Entries \in Seq([key : Keys \cup {NULL}, value : Receivers \cup {NULL}])
           /\ Len(Entries) = Len(order)
           /\ \A i \in 1..Len(order) :
                Entries[i].key = key[order[i]] /\ Entries[i].value = value[order[i]]
  <1> DEFINE E == [key : Keys \cup {NULL}, value : Receivers \cup {NULL}]
  <1>1. Len(order) \in Nat /\ \A i \in 1..Len(order) : order[i] \in Cells
    BY DEF TypeOK
  <1>2. Entries \in [1..Len(order) -> E]
    BY <1>1 DEF Entries, TypeOK
  <1>3. Entries \in Seq(E) /\ Len(Entries) = Len(order)
    <2> DEFINE s == Entries
    <2> HIDE DEF E, s
    <2>1. s \in Seq(E) /\ Len(s) = Len(order)
      BY <1>1, <1>2 DEF s
    <2> QED
      BY <2>1 DEF s
  <1> QED
    BY <1>3 DEF Entries

(***************************************************************************)
(* MAP_add.                                                                *)
(***************************************************************************)
LEMMA AddIsAdd ==
    ASSUME TypeOK, TypeOK', NEW k \in Keys, NEW r \in Receivers, Add(k, r),
           UNCHANGED <<answer, found>>, found \in Cells => found \in InList
    PROVE  Map!Add(k, r)
  <1> DEFINE n == Len(order)
             e == [key |-> k, value |-> r]
             old == Entries
             new == [i \in 1..Len(order') |-> [key |-> key'[order'[i]], value |-> value'[order'[i]]]]
  <1>1. /\ Len(order') = n + 1 /\ n \in Nat
        /\ key'[order'[1]] = k /\ value'[order'[1]] = r
        /\ \A i \in 1..n : /\ order'[i + 1] = order[i]
                           /\ key'[order[i]] = key[order[i]]
                           /\ value'[order[i]] = value[order[i]]
        /\ \A i \in 1..(n + 1) : i = 1 \/ \E j \in 1..n : i = j + 1
    BY AddEntries DEF TypeOK
  <1>2. Entries' = new
    BY DEF Entries
  <1>3. /\ <<e>> \o old \in Seq([key : Keys \cup {NULL}, value : Receivers \cup {NULL}])
        /\ Len(<<e>> \o old) = n + 1
        /\ (<<e>> \o old)[1] = e
        /\ \A i \in 1..n : (<<e>> \o old)[i + 1] = old[i]
    BY EntriesAre, ConsSeq
  <1>4. \A i \in 1..(n + 1) : new[i] = (<<e>> \o old)[i]
    <2> SUFFICES ASSUME NEW i \in 1..(n + 1) PROVE new[i] = (<<e>> \o old)[i]
      OBVIOUS
    <2>1. new[i] = [key |-> key'[order'[i]], value |-> value'[order'[i]]]
      BY <1>1
    <2>2. CASE i = 1
      BY <2>1, <2>2, <1>1, <1>3
    <2>3. ASSUME NEW j \in 1..n, i = j + 1
          PROVE  new[i] = (<<e>> \o old)[i]
      <3>1. old[j] = [key |-> key[order[j]], value |-> value[order[j]]]
        BY DEF Entries
      <3>2. key'[order'[i]] = key[order[j]] /\ value'[order'[i]] = value[order[j]]
        BY <2>3, <1>1
      <3> QED
        BY <3>1, <3>2, <2>1, <2>3, <1>3
    <2> QED
      BY <2>2, <2>3, <1>1
  <1>5. new = <<e>> \o old
    <2> DEFINE a == <<e>> \o old
    <2>1. a = [i \in 1..(n + 1) |-> a[i]]
      BY <1>1, <1>3
    <2>2. new = [i \in 1..(n + 1) |-> new[i]]
      BY <1>1
    <2> HIDE DEF a, new
    <2> QED
      BY <2>1, <2>2, <1>4 DEF a
  <1>6. Answer' = Answer
    <2>1. CASE found \in InList
      <3>1. PICK i \in 1..n : found = order[i]
        BY <2>1 DEF InList
      <3>2. value'[found] = value[found]
        BY <3>1, <1>1
      <3> QED
        BY <3>2 DEF Answer, Read
    <2>2. CASE found \notin InList
      <3>1. found = NULL \/ found = "none"
        BY <2>2 DEF TypeOK
      <3> QED
        BY <3>1 DEF Answer, Read
    <2> QED
      BY <2>1, <2>2
  <1> QED
    BY <1>2, <1>5, <1>6 DEF Map!Add

(***************************************************************************)
(* The positions that match a key are the newest entries of it.            *)
(***************************************************************************)
LEMMA MatchIsNewest ==
    ASSUME TypeOK, NEW k \in Keys
    PROVE  /\ \A i \in 1..Len(order) : Match(k, i) <=> Map!IsNewest(k, i)
           /\ NoMatch(k) <=> ~Map!Has(k)
  <1>1. /\ Len(Entries) = Len(order) /\ Len(order) \in Nat
        /\ \A i \in 1..Len(order) : Entries[i].key = key[order[i]]
    BY EntriesAre DEF TypeOK
  <1>2. \A i \in 1..Len(order) : \A j \in 1..(i - 1) : j \in 1..Len(order)
    BY <1>1
  <1>3. \A i \in 1..Len(order) : Match(k, i) <=> Map!IsNewest(k, i)
    BY <1>1, <1>2 DEF Match, Map!IsNewest
  <1>4. NoMatch(k) <=> ~Map!Has(k)
    BY <1>1 DEF NoMatch, Map!Has
  <1> QED
    BY <1>3, <1>4

(***************************************************************************)
(* MAP_remove.                                                             *)
(***************************************************************************)
LEMMA UnregisterIsRemove ==
    ASSUME MapInv, NEW r \in Receivers, Unregister(r)
    PROVE  \E k \in Keys : Map!Remove(r, k)
  <1> DEFINE n == Len(order)
             k == fd[r]
             new == [j \in 1..Len(order') |-> [key |-> key'[order'[j]], value |-> value'[order'[j]]]]
  <1>1. /\ k \in Keys /\ TypeOK /\ Linked /\ found = "none" /\ found' = "none" /\ n \in Nat
    BY DEF MapInv, OwnFd, OneUse, Unregister, TypeOK
  <1>2. PICK i \in 1..n : /\ Match(k, i) /\ value[order[i]] = r
                          /\ answer' = [answer EXCEPT ![r] = r] /\ Unlink(i)
    BY OwnEntry
  <1>3. /\ Len(order') = n - 1
        /\ \A j \in 1..(n - 1) :
             /\ At(i, j) \in 1..n /\ order'[j] = order[At(i, j)]
             /\ key'[order[At(i, j)]] = key[order[At(i, j)]]
             /\ value'[order[At(i, j)]] = value[order[At(i, j)]]
    <2> HIDE DEF new, k
    <2> QED
      BY <1>1, <1>2, UnlinkEntries
  <1>4. /\ Len(Entries) = n
        /\ \A j \in 1..n : Entries[j] = [key |-> key[order[j]], value |-> value[order[j]]]
    BY <1>1, EntriesAre DEF Entries
  <1>5. Entries' = new
    BY DEF Entries
  <1>6. \A j \in 1..(n - 1) : new[j] = Entries[At(i, j)]
    BY <1>3, <1>4
  <1>7. new = [j \in 1..(n - 1) |-> Entries[At(i, j)]]
    <2>1. new = [j \in 1..(n - 1) |-> new[j]]
      BY <1>3
    <2> HIDE DEF new
    <2> QED
      BY <2>1, <1>6
  <1>8. [j \in 1..(n - 1) |-> Entries[At(i, j)]] = Map!Without(i)
    BY <1>4 DEF Map!Without, At
  <1>9. Map!IsNewest(k, i) /\ i \in 1..Len(Entries) /\ Entries[i].value = r
    <2>1. Map!IsNewest(k, i)
      <3> HIDE DEF new, k
      <3> QED
        BY <1>1, <1>2, MatchIsNewest
    <2>2. Entries[i].value = r
      <3>1. Entries[i].value = value[order[i]]
        BY <1>1, EntriesAre
      <3> QED
        BY <3>1, <1>2
    <2> QED
      BY <2>1, <2>2, <1>4
  <1>10. Answer' = [Answer EXCEPT ![r] = r]
    BY <1>1, <1>2 DEF Answer
  <1>11. Map!Remove(r, k)
    BY <1>5, <1>7, <1>8, <1>9, <1>10 DEF Map!Remove
  <1> QED
    BY <1>1, <1>11

(***************************************************************************)
(* MAP_get up to the read of the value, which then changes nothing.        *)
(***************************************************************************)
LEMMA LookupIsGet ==
    ASSUME TypeOK, NEW k \in Keys, Lookup(k)
    PROVE  Map!Get(Transmitter, k)
  <1>1. found = "none" /\ UNCHANGED <<order, key, value, answer>>
    BY DEF Lookup, list
  <1>2. Entries' = Entries
    BY <1>1 DEF Entries
  <1>3. CASE NoMatch(k) /\ found' = NULL
    <2>1. Answer' = [Answer EXCEPT ![Transmitter] = NULL]
      BY <1>1, <1>3 DEF Answer, Read
    <2> QED
      BY <2>1, <1>2, <1>3, MatchIsNewest DEF Map!Get
  <1>4. CASE \E i \in 1..Len(order) : Match(k, i) /\ found' = order[i]
    <2> PICK i \in 1..Len(order) : Match(k, i) /\ found' = order[i]
      BY <1>4
    <2>1. order[i] \in Cells
      BY DEF TypeOK
    <2>2. /\ Len(Entries) = Len(order) /\ Entries[i].value = value[order[i]]
      BY EntriesAre
    <2>3. Answer' = [Answer EXCEPT ![Transmitter] = value[order[i]]]
      BY <2>1, <1>1 DEF Answer, Read
    <2> QED
      BY <2>2, <2>3, <1>2, MatchIsNewest DEF Map!Get
  <1> QED
    BY <1>3, <1>4 DEF Lookup

(***************************************************************************)
(* Every step is one of the abstract map or changes nothing of it.         *)
(***************************************************************************)
LEMMA StepIsMap ==
    ASSUME MapInv, TypeOK', [Next]_vars
    PROVE  [Map!Next]_<<Entries, Answer>>
  <1>1. /\ TypeOK /\ (found \in Cells => found \in InList) /\ Transmitter \in Callers
        /\ Receivers \subseteq Callers
    BY DEF MapInv, OneUse, Callers
  <1>2. CASE \E r \in Receivers, k \in Keys : Register(r, k) \/ Store(k, r)
    <2> PICK r \in Receivers, k \in Keys : Register(r, k) \/ Store(k, r)
      BY <1>2
    <2>1. Map!Add(k, r)
      BY <1>1, AddIsAdd DEF Register, Store
    <2> QED
      BY <2>1 DEF Map!Next
  <1>3. CASE \E r \in Receivers : Unregister(r)
    BY <1>1, <1>3, UnregisterIsRemove DEF Map!Next
  <1>4. CASE \E k \in Keys : Lookup(k)
    BY <1>1, <1>4, LookupIsGet DEF Map!Next
  <1>5. CASE ReadItem
    <2>1. /\ found # "none" /\ found' = "none"
          /\ answer' = [answer EXCEPT ![Transmitter] = Read(found)]
          /\ UNCHANGED <<order, key, value>>
      BY <1>5 DEF ReadItem, list
    <2>2. Answer' = Answer
      BY <2>1 DEF Answer
    <2>3. Entries' = Entries
      BY <2>1 DEF Entries
    <2> QED
      BY <2>2, <2>3
  <1>6. CASE UNCHANGED <<order, key, value, answer, found>>
    <2>1. Entries' = Entries
      BY <1>6 DEF Entries
    <2>2. Answer' = Answer
      BY <1>6 DEF Answer, Read
    <2> QED
      BY <2>1, <2>2
  <1> QED
    <2>1. CASE (\E r \in Receivers : FreeAndClose(r)) \/ IteratorNew \/ IteratorLock \/ IteratorNext
               \/ IteratorDangles \/ IteratorUnlock \/ UNCHANGED vars
      BY <2>1, <1>6 DEF FreeAndClose, IteratorNew, IteratorLock, IteratorNext, IteratorDangles,
                        IteratorUnlock, vars, list
    <2> QED
      BY <2>1, <1>2, <1>3, <1>4, <1>5 DEF Next

(***************************************************************************)
(* A key of the maps finds its newest entry, also through the value that   *)
(* MAP_get reads without the mutex.                                        *)
(***************************************************************************)
THEOREM MapIsNewestFirst == Spec => IsMap
  <1>1. Init => Map!Init
    <2> SUFFICES ASSUME Init PROVE Map!Init
      OBVIOUS
    <2>1. order = <<>> /\ found = "none" /\ answer = [c \in Callers |-> NULL]
      BY DEF Init, EmptyList
    <2>2. Entries = <<>>
      BY <2>1 DEF Entries
    <2>3. Answer = answer
      BY <2>1 DEF Answer
    <2> QED
      BY <2>1, <2>2, <2>3 DEF Map!Init
  <1> QED
    BY <1>1, StepIsMap, MapInvHolds, TypeCorrect, PTL DEF Spec, IsMap, Map!Spec
=============================================================================
