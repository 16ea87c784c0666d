----------------------------- MODULE LbqProofs -----------------------------
(***************************************************************************)
(* For any number of producers and nodes and any size of the count: the    *)
(* list is a list, size() is its length modulo the size of the count, and  *)
(* what is dequeued was enqueued, in its turn.                             *)
(***************************************************************************)
EXTENDS Lbq, SequenceTheorems, TLAPS

USE LbqAssumption

(***************************************************************************)
(* What producers hold is theirs; what has been sent is what was taken and *)
(* what is still in the list.                                              *)
(***************************************************************************)
Held ==
    \A p \in Producers : node[p] # NULL => this_item[p] \in Item

Holds ==
    /\ Len(sent) = Len(taken) + Len(order)
    /\ \A i \in 1..Len(taken) : taken[i] = sent[i]
    /\ \A i \in 1..Len(order) : item[order[i]] = sent[Len(taken) + i]

Inv == TypeOK /\ Linked /\ SizeIsLength /\ NeverNull /\ Held /\ Holds

(***************************************************************************)
(* Counting with a count that turns over.                                  *)
(***************************************************************************)
LEMMA Division ==
    ASSUME NEW n \in Nat, NEW c \in Nat, c > 0
    PROVE  /\ n % c \in 0..(c - 1) /\ n \div c \in Nat
           /\ n = c * (n \div c) + (n % c)
  OBVIOUS

LEMMA Remainder ==
    ASSUME NEW c \in Nat, c > 0, NEW q \in Nat, NEW r \in 0..(c - 1)
    PROVE  (c * q + r) % c = r
  <1> DEFINE n == c * q + r
  <1>1. n \in Nat
    OBVIOUS
  <1>2. /\ n % c \in 0..(c - 1) /\ n \div c \in Nat
        /\ n = c * (n \div c) + (n % c)
    BY <1>1, Division
  <1>3. ASSUME NEW a \in Nat, NEW b \in Nat, a < b PROVE c * b >= c * a + c
    <2>1. b - 1 >= a /\ b - 1 \in Nat
      BY <1>3
    <2>2. c * (b - 1) >= c * a
      BY <2>1
    <2>3. c * (b - 1) = c * b - c
      BY <2>1
    <2> QED BY <2>2, <2>3
  <1>4. ~ (n \div c < q)
    BY <1>2, <1>3
  <1>5. ~ (q < n \div c)
    BY <1>2, <1>3
  <1>6. n \div c = q
    BY <1>2, <1>4, <1>5
  <1> QED BY <1>2, <1>6

LEMMA CountUp ==
    ASSUME NEW n \in Nat
    PROVE  ((n % CountSize) + 1) % CountSize = (n + 1) % CountSize
  <1> DEFINE r == n % CountSize
             q == n \div CountSize
  <1>1. r \in 0..(CountSize - 1) /\ q \in Nat /\ n = CountSize * q + r
    BY Division
  <1>2. CASE r + 1 < CountSize
    <2>1. r + 1 \in 0..(CountSize - 1)
      BY <1>1, <1>2
    <2>2. (CountSize * q + (r + 1)) % CountSize = r + 1
      BY <1>1, <2>1, Remainder
    <2>3. (CountSize * 0 + (r + 1)) % CountSize = r + 1
      BY <2>1, Remainder
    <2>4. CountSize * 0 + (r + 1) = r + 1 /\ CountSize * q + (r + 1) = n + 1
      BY <1>1
    <2> QED BY <2>2, <2>3, <2>4
  <1>3. CASE r + 1 = CountSize
    <2>1. (CountSize * (q + 1) + 0) % CountSize = 0
      BY <1>1, Remainder
    <2>2. (CountSize * 1 + 0) % CountSize = 0
      BY Remainder
    <2>3. CountSize * 1 + 0 = r + 1
      BY <1>3
    <2>4. CountSize * (q + 1) = CountSize * q + CountSize
      BY <1>1
    <2>5. CountSize * (q + 1) + 0 = n + 1
      BY <1>1, <1>3, <2>4
    <2> QED BY <2>1, <2>2, <2>3, <2>5
  <1> QED BY <1>1, <1>2, <1>3

LEMMA CountDown ==
    ASSUME NEW n \in Nat, n > 0
    PROVE  Pred(n % CountSize) = (n - 1) % CountSize
  <1> DEFINE m == n - 1
             r == m % CountSize
  <1>1. m \in Nat /\ m + 1 = n
    OBVIOUS
  <1>2. r \in 0..(CountSize - 1)
    BY <1>1, Division
  <1>3. n % CountSize = (r + 1) % CountSize
    BY <1>1, CountUp
  <1>4. CASE r + 1 < CountSize
    <2>1. (CountSize * 0 + (r + 1)) % CountSize = r + 1
      BY <1>2, <1>4, Remainder
    <2>2. CountSize * 0 + (r + 1) = r + 1
      OBVIOUS
    <2>3. (CountSize * 1 + r) % CountSize = r
      BY <1>2, Remainder
    <2>4. CountSize * 1 + r = (r + 1) + CountSize - 1
      BY <1>2
    <2> QED BY <1>3, <2>1, <2>2, <2>3, <2>4 DEF Pred
  <1>5. CASE r + 1 = CountSize
    <2>1. (CountSize * 1 + 0) % CountSize = 0
      BY Remainder
    <2>2. CountSize * 1 + 0 = r + 1
      BY <1>5
    <2>3. (CountSize * 0 + r) % CountSize = r
      BY <1>2, Remainder
    <2>4. CountSize * 0 + r = 0 + CountSize - 1
      BY <1>2, <1>5
    <2> QED BY <1>3, <2>1, <2>2, <2>3, <2>4 DEF Pred
  <1> QED BY <1>2, <1>4, <1>5

LEMMA CountZero == 0 % CountSize = 0
  <1>1. (CountSize * 0 + 0) % CountSize = 0
    BY Remainder
  <1> QED BY <1>1

-----------------------------------------------------------------------------
LEMMA InitInv == Init => Inv
  <1> SUFFICES ASSUME Init PROVE Inv
    OBVIOUS
  <1>1. order = <<>> /\ sent = <<>> /\ taken = <<>>
    BY DEF Init
  <1>2. TypeOK
    <2>1. /\ order \in Seq(Nodes) /\ taken \in Seq(Item \cup {NULL})
          /\ sent \in Seq(Item \cup {NULL})
      BY <1>1
    <2>2. /\ next \in [Nodes -> Nodes \cup {NULL}]
          /\ item \in [Nodes -> Item \cup {NULL}]
      BY DEF Init
    <2>3. 0 \in 0..(CountSize - 1)
      OBVIOUS
    <2> QED BY <2>1, <2>2, <2>3 DEF Init, TypeOK
  <1>3. Linked
    BY DEF Init, Linked, Ends, Chain, Distinct, Apart
  <1>4. SizeIsLength
    BY CountZero DEF Init, SizeIsLength
  <1> QED BY <1>1, <1>2, <1>3, <1>4 DEF Init, Inv, NeverNull, Held, Holds

LEMMA AllocStep ==
    ASSUME Inv, NEW p \in Producers, NEW i \in Item, NEW n \in Nodes, Alloc(p, i, n)
    PROVE  Inv'
  <1> USE DEF Alloc, queue
  <1>1. TypeOK'
    BY DEF Inv, TypeOK
  <1>2. InList' = InList
    BY DEF InList
  <1>3. Apart'
    <2> SUFFICES ASSUME NEW r \in Producers, NEW s \in Producers, node'[r] # NULL
                 PROVE  node'[r] \notin InList' /\ (node'[s] = node'[r] => s = r)
      BY DEF Apart
    <2>1. node \in [Producers -> Nodes \cup {NULL}]
      BY DEF Inv, TypeOK
    <2>2. node'[p] = n /\ \A t \in Producers : t # p => node'[t] = node[t]
      BY <2>1
    <2>3. n \notin InList /\ \A t \in Producers : node[t] # n
      BY DEF Owned
    <2> QED BY <1>2, <2>2, <2>3 DEF Inv, Linked, Apart
  <1>4. Held'
    BY DEF Inv, TypeOK, Held
  <1>5. (Ends /\ Chain /\ Distinct)'
    BY DEF Inv, Linked, Ends, Chain, Distinct
  <1> QED BY <1>1, <1>3, <1>4, <1>5 DEF Inv, Linked, SizeIsLength, NeverNull, Holds

LEMMA SizeStep == ASSUME Inv, Size PROVE Inv'
  <1> USE DEF Size, queue
  <1>1. TypeOK'
    BY DEF Inv, TypeOK
  <1>2. InList' = InList
    BY DEF InList
  <1>3. Linked'
    BY <1>2 DEF Inv, Linked, Ends, Chain, Distinct, Apart
  <1>4. head # NULL
    <2>1. Len(order) \in Nat
      BY DEF Inv, TypeOK
    <2>2. Len(order) > 0
      BY <2>1, CountZero DEF Inv, SizeIsLength
    <2> QED BY <2>2 DEF Inv, TypeOK, Linked, Ends
  <1> QED BY <1>1, <1>3, <1>4 DEF Inv, SizeIsLength, NeverNull, Held, Holds

(***************************************************************************)
(* A node is linked behind the last.                                       *)
(***************************************************************************)
LEMMA EnqueueStep ==
    ASSUME Inv, NEW p \in Producers, Enqueue(p) PROVE Inv'
  <1> DEFINE n == node[p]
             x == this_item[p]
             L == Len(order)
  <1>1. /\ n \in Nodes /\ n # NULL /\ x \in Item
        /\ order \in Seq(Nodes) /\ sent \in Seq(Item \cup {NULL}) /\ L \in Nat
        /\ taken \in Seq(Item \cup {NULL})
    BY DEF Inv, TypeOK, Held, Enqueue
  <1>2. /\ order' = Append(order, n) /\ sent' = Append(sent, x) /\ taken' = taken
        /\ item' = [item EXCEPT ![n] = x] /\ last' = n
        /\ head' = IF last = NULL THEN n ELSE head
        /\ next' = [m \in Nodes |-> IF m = n THEN NULL
                                    ELSE IF m = last THEN n ELSE next[m]]
        /\ node' = [node EXCEPT ![p] = NULL]
        /\ count' = (count + 1) % CountSize
        /\ this_item' = [this_item EXCEPT ![p] = NULL] /\ polled' = polled
    BY DEF Enqueue, Up
  <1>3. /\ order' \in Seq(Nodes) /\ Len(order') = L + 1 /\ order'[L + 1] = n
        /\ \A i \in 1..L : order'[i] = order[i] /\ order[i] \in Nodes
    BY <1>1, <1>2
  <1>4. /\ sent' \in Seq(Item \cup {NULL}) /\ Len(sent') = Len(sent) + 1
        /\ sent'[Len(sent) + 1] = x
        /\ \A i \in 1..Len(sent) : sent'[i] = sent[i]
    BY <1>1, <1>2
  <1>5. \A i \in 1..L : order[i] # n
    BY <1>1 DEF Inv, Linked, Apart, InList
  <1>6. TypeOK'
    <2>1. (count + 1) % CountSize \in 0..(CountSize - 1)
      BY Division DEF Inv, TypeOK
    <2>2. next' \in [Nodes -> Nodes \cup {NULL}]
      BY <1>1, <1>2 DEF Inv, TypeOK
    <2>3. item' \in [Nodes -> Item \cup {NULL}]
      BY <1>1, <1>2 DEF Inv, TypeOK
    <2>4. /\ node' \in [Producers -> Nodes \cup {NULL}]
          /\ this_item' \in [Producers -> Item \cup {NULL}]
      BY <1>2 DEF Inv, TypeOK
    <2> QED BY <1>1, <1>2, <1>3, <1>4, <2>1, <2>2, <2>3, <2>4 DEF Inv, TypeOK
  <1>7. Ends'
    <2>1. order' # <<>> /\ next'[n] = NULL
      <3> HIDE DEF n
      <3>1. next'[n] = NULL
        BY <1>1, <1>2
      <3>2. order' # <<>>
        BY <1>1, <1>3
      <3> QED BY <3>1, <3>2
    <2>2. head' = order'[1]
      <3>1. CASE order = <<>>
        BY <1>2, <1>3, <3>1 DEF Inv, Linked, Ends
      <3>2. CASE order # <<>>
        <4>1. 1 \in 1..L /\ L \in 1..L
          BY <1>1, <3>2
        <4>2. last # NULL /\ head = order[1]
          BY <1>3, <3>2, <4>1 DEF Inv, Linked, Ends
        <4> QED BY <1>2, <1>3, <4>1, <4>2
      <3> QED BY <3>1, <3>2
    <2> QED BY <1>2, <1>3, <2>1, <2>2 DEF Ends
  <1>8. Chain'
    <2> SUFFICES ASSUME NEW i \in 1..L PROVE next'[order'[i]] = order'[i + 1]
      BY <1>1, <1>3 DEF Chain
    <2>1. order'[i] = order[i] /\ order[i] \in Nodes /\ order[i] # n /\ order # <<>>
      BY <1>1, <1>3, <1>5
    <2>2. CASE i = L
      <3>1. last = order[L]
        BY <2>1 DEF Inv, Linked, Ends
      <3> QED BY <1>2, <1>3, <2>1, <2>2, <3>1
    <2>3. CASE i # L
      <3>1. i \in 1..(L - 1) /\ i + 1 \in 1..L /\ L \in 1..L
        BY <1>1, <2>3
      <3>2. last = order[L] /\ order[i] # order[L]
        BY <2>1, <2>3, <3>1 DEF Inv, Linked, Ends, Distinct
      <3>3. next'[order[i]] = next[order[i]]
        BY <1>2, <2>1, <3>2
      <3>4. next[order[i]] = order[i + 1]
        BY <3>1 DEF Inv, Linked, Chain
      <3> QED BY <1>3, <2>1, <3>1, <3>3, <3>4
    <2> QED BY <2>2, <2>3
  <1>9. Distinct'
    <2> SUFFICES ASSUME NEW i \in 1..(L + 1), NEW j \in 1..(L + 1),
                        order'[i] = order'[j]
                 PROVE  i = j
      BY <1>3 DEF Distinct
    <2>1. \A k \in 1..(L + 1) : k \in 1..L \/ k = L + 1
      BY <1>1
    <2>2. CASE i \in 1..L /\ j \in 1..L
      BY <1>3, <2>2 DEF Inv, Linked, Distinct
    <2> QED BY <1>3, <1>5, <2>1, <2>2
  <1>10. Apart'
    <2> SUFFICES ASSUME NEW r \in Producers, NEW s \in Producers, node'[r] # NULL
                 PROVE  node'[r] \notin InList' /\ (node'[s] = node'[r] => s = r)
      BY DEF Apart
    <2>1. node'[p] = NULL /\ \A t \in Producers : t # p => node'[t] = node[t]
      BY <1>2 DEF Inv, TypeOK
    <2>2. r # p /\ node[r] # NULL /\ node[r] # n
      BY <1>1, <2>1 DEF Inv, Linked, Apart
    <2>3. \A i \in 1..L : order[i] # node[r]
      BY <2>2 DEF Inv, Linked, Apart, InList
    <2>4. \A i \in 1..(L + 1) : order'[i] # node[r]
      BY <1>1, <1>3, <2>2, <2>3
    <2>5. node[r] \notin InList'
      BY <1>3, <2>4 DEF InList
    <2> QED BY <2>1, <2>2, <2>5 DEF Inv, Linked, Apart
  <1>11. SizeIsLength'
    BY <1>1, <1>2, <1>3, CountUp DEF Inv, SizeIsLength
  <1>12. NeverNull'
    BY <1>1, <1>2 DEF Inv, NeverNull
  <1>13. Held'
    BY <1>2 DEF Inv, TypeOK, Held
  <1>14. Holds'
    <2> HIDE DEF L, n, x
    <2>1. Len(taken) \in Nat /\ Len(sent) = Len(taken) + L
      BY <1>1 DEF Inv, Holds, L
    <2>2. \A i \in 1..Len(taken) : taken[i] = sent'[i]
      BY <1>1, <1>4, <2>1 DEF Inv, Holds
    <2>3. ASSUME NEW i \in 1..L PROVE item'[order'[i]] = sent'[Len(taken) + i]
      <3>1. order[i] \in Nodes /\ order[i] # n /\ order'[i] = order[i]
        BY <1>3, <1>5
      <3>2. item'[order[i]] = item[order[i]]
        BY <1>1, <1>2, <3>1 DEF Inv, TypeOK
      <3>3. Len(taken) + i \in 1..Len(sent)
        BY <1>1, <2>1
      <3> QED BY <1>4, <3>1, <3>2, <3>3 DEF Inv, Holds
    <2>4. item'[order'[L + 1]] = sent'[Len(taken) + (L + 1)]
      <3>1. Len(taken) + (L + 1) = Len(sent) + 1
        BY <1>1, <2>1
      <3>2. item'[n] = x
        BY <1>1, <1>2 DEF Inv, TypeOK
      <3> QED BY <1>3, <1>4, <3>1, <3>2
    <2>6. \A i \in 1..(L + 1) : i \in 1..L \/ i = L + 1
      BY <1>1
    <2>5. \A i \in 1..(L + 1) : item'[order'[i]] = sent'[Len(taken) + i]
      BY <2>3, <2>4, <2>6
    <2>7. Len(sent') = Len(taken') + Len(order')
      BY <1>1, <1>2, <1>3, <1>4, <2>1
    <2>8. \A i \in 1..Len(taken') : taken'[i] = sent'[i]
      BY <1>2, <2>2
    <2>9. \A i \in 1..Len(order') : item'[order'[i]] = sent'[Len(taken') + i]
      BY <1>2, <1>3, <2>5
    <2> QED BY <2>7, <2>8, <2>9 DEF Holds
  <1> QED BY <1>6, <1>7, <1>8, <1>9, <1>10, <1>11, <1>12, <1>13, <1>14 DEF Inv, Linked

(***************************************************************************)
(* The first node is taken off, and there is one.                          *)
(***************************************************************************)
LEMMA DequeueStep == ASSUME Inv, Dequeue PROVE Inv'
  <1> DEFINE L == Len(order)
  <1>1. /\ order \in Seq(Nodes) /\ sent \in Seq(Item \cup {NULL}) /\ L \in Nat
        /\ taken \in Seq(Item \cup {NULL}) /\ Len(taken) \in Nat
    BY DEF Inv, TypeOK
  <1>2. /\ head # NULL /\ order # <<>> /\ head = order[1] /\ last = order[L]
        /\ next[last] = NULL /\ L > 0
    BY <1>1 DEF Inv, Linked, Ends, NeverNull, Dequeue
  <1>3. /\ taken' = Append(taken, item[head]) /\ head' = next[head]
        /\ last' = IF next[head] = NULL THEN NULL ELSE last
        /\ count' = Pred(count) /\ order' = Tail(order) /\ polled' = FALSE
        /\ next' = next /\ item' = item /\ sent' = sent
        /\ node' = node /\ this_item' = this_item
    BY <1>2 DEF Dequeue, Unlink
  <1>4. /\ order' \in Seq(Nodes) /\ Len(order') = L - 1
        /\ \A i \in 1..(L - 1) : order'[i] = order[i + 1]
    BY <1>1, <1>2, <1>3, HeadTailProperties
  <1>5. \A i \in 1..L : order[i] \in Nodes
    BY <1>1
  <1>6. head \in Nodes /\ item[head] \in Item \cup {NULL}
    BY <1>1, <1>2, <1>5 DEF Inv, TypeOK
  <1>7. /\ taken' \in Seq(Item \cup {NULL}) /\ Len(taken') = Len(taken) + 1
        /\ taken'[Len(taken) + 1] = item[head]
        /\ \A i \in 1..Len(taken) : taken'[i] = taken[i]
    BY <1>1, <1>3, <1>6
  <1>8. TypeOK'
    <2>1. Pred(count) \in 0..(CountSize - 1)
      <3>1. count + CountSize - 1 \in Nat
        BY DEF Inv, TypeOK
      <3> QED BY <3>1, Division DEF Pred
    <2> QED BY <1>3, <1>4, <1>6, <1>7, <2>1 DEF Inv, TypeOK
  <1>9. Ends'
    <2>1. CASE L = 1
      <3>1. order' = <<>> /\ next[head] = NULL
        BY <1>2, <1>4, <2>1
      <3> QED BY <1>3, <3>1 DEF Ends
    <2>2. CASE L > 1
      <3>1. 1 \in 1..(L - 1) /\ 2 \in 1..L /\ L - 1 \in 1..(L - 1)
        BY <1>1, <2>2
      <3>2. next[order[1]] = order[2] /\ order[2] \in Nodes
        BY <1>5, <3>1 DEF Inv, Linked, Chain
      <3>3. head' = order'[1] /\ last' = last
        BY <1>2, <1>3, <1>4, <3>1, <3>2
      <3>4. order'[L - 1] = order[(L - 1) + 1] /\ (L - 1) + 1 = L
        BY <1>1, <1>4, <3>1
      <3>5. last = order'[Len(order')] /\ order' # <<>>
        BY <1>1, <1>2, <1>4, <2>2, <3>4
      <3> QED BY <1>2, <1>3, <3>3, <3>5 DEF Ends
    <2>3. L = 1 \/ L > 1
      <3> HIDE DEF L
      <3> QED BY <1>1, <1>2
    <2> QED BY <2>1, <2>2, <2>3, Zenon
  <1>10. Chain'
    <2> SUFFICES ASSUME NEW i \in 1..(L - 2) PROVE next[order'[i]] = order'[i + 1]
      BY <1>1, <1>3, <1>4 DEF Chain
    <2>1. i \in 1..(L - 1) /\ i + 1 \in 1..(L - 1)
      BY <1>1
    <2> QED BY <1>4, <2>1 DEF Inv, Linked, Chain
  <1>11. Distinct'
    <2> SUFFICES ASSUME NEW i \in 1..(L - 1), NEW j \in 1..(L - 1), order'[i] = order'[j]
                 PROVE  i = j
      BY <1>4 DEF Distinct
    <2>1. i + 1 \in 1..L /\ j + 1 \in 1..L /\ order[i + 1] = order[j + 1]
      BY <1>1, <1>4
    <2>2. i + 1 = j + 1
      BY <2>1 DEF Inv, Linked, Distinct
    <2> QED BY <2>2
  <1>12. Apart'
    <2>1. InList' \subseteq InList
      <3> SUFFICES ASSUME NEW i \in 1..(L - 1) PROVE order'[i] \in InList
        BY <1>4 DEF InList
      <3>1. order'[i] = order[i + 1] /\ i + 1 \in 1..L
        BY <1>1, <1>4
      <3> QED BY <3>1 DEF InList
    <2> QED BY <1>3, <2>1 DEF Inv, Linked, Apart
  <1>13. SizeIsLength'
    <2>1. Pred(L % CountSize) = (L - 1) % CountSize
      BY <1>1, <1>2, CountDown
    <2> QED BY <1>3, <1>4, <2>1 DEF Inv, SizeIsLength
  <1>14. Holds'
    <2>1. Len(sent) = Len(taken) + L
      BY DEF Inv, Holds
    <2>2. taken'[Len(taken) + 1] = sent[Len(taken) + 1]
      BY <1>1, <1>2, <1>7 DEF Inv, Holds
    <2>3. \A i \in 1..Len(taken') : i \in 1..Len(taken) \/ i = Len(taken) + 1
      BY <1>1, <1>7
    <2>4. \A i \in 1..Len(taken') : taken'[i] = sent[i]
      BY <1>7, <2>2, <2>3 DEF Inv, Holds
    <2>5. ASSUME NEW i \in 1..(L - 1) PROVE item[order'[i]] = sent[Len(taken') + i]
      <3>1. i + 1 \in 1..L /\ Len(taken') + i = Len(taken) + (i + 1)
        BY <1>1, <1>7
      <3> QED BY <1>4, <3>1 DEF Inv, Holds
    <2>6. Len(sent) = Len(taken') + Len(order')
      BY <1>1, <1>4, <1>7, <2>1
    <2> QED BY <1>3, <1>4, <2>4, <2>5, <2>6 DEF Holds
  <1> QED BY <1>3, <1>8, <1>9, <1>10, <1>11, <1>12, <1>13, <1>14
          DEF Inv, Linked, NeverNull, Held

LEMMA StepInv == ASSUME Inv, [Next]_vars PROVE Inv'
  <1>1. CASE UNCHANGED vars
    BY <1>1 DEF vars, queue, Inv, TypeOK, Linked, Ends, Chain, Distinct, Apart, InList,
                SizeIsLength, NeverNull, Held, Holds
  <1> QED BY <1>1, AllocStep, EnqueueStep, SizeStep, DequeueStep DEF Next

LEMMA AlwaysInv == Spec => []Inv
  BY InitInv, StepInv, PTL DEF Spec

(***************************************************************************)
(* Every variable has its shape.                                           *)
(***************************************************************************)
THEOREM TypeCorrect == Spec => []TypeOK
  <1>1. Inv => TypeOK
    BY DEF Inv
  <1> QED BY <1>1, AlwaysInv, PTL

(***************************************************************************)
(* The list holds no node twice, none that was freed and none that a       *)
(* producer has.                                                           *)
(***************************************************************************)
THEOREM ListIsLinked == Spec => []Linked
  <1>1. Inv => Linked
    BY DEF Inv
  <1> QED BY <1>1, AlwaysInv, PTL

(***************************************************************************)
(* size() is the length modulo the size of the count ...                   *)
(***************************************************************************)
THEOREM SizeIsRight == Spec => []SizeIsLength
  <1>1. Inv => SizeIsLength
    BY DEF Inv
  <1> QED BY <1>1, AlwaysInv, PTL

(***************************************************************************)
(* ... and a consumer that has seen something takes an element.            *)
(***************************************************************************)
THEOREM ConsumerFindsItem == Spec => []NeverNull
  <1>1. Inv => NeverNull
    BY DEF Inv
  <1> QED BY <1>1, AlwaysInv, PTL

(***************************************************************************)
(* What is dequeued was enqueued, once and in its turn.                    *)
(***************************************************************************)
THEOREM QueueIsInOrder == Spec => InOrder
  <1>1. Init => Channel!Init
    BY DEF Init, Channel!Init
  <1>2. ASSUME Inv, [Next]_vars PROVE [Channel!Next]_<<sent, taken>>
    <2>1. ASSUME NEW p \in Producers, Enqueue(p) PROVE Channel!Next
      <3>1. this_item[p] \in Item
        BY <1>2, <2>1 DEF Inv, Held, Enqueue
      <3> QED BY <2>1, <3>1 DEF Enqueue, Channel!Next, Channel!Send
    <2>2. CASE Dequeue
      <3>1. /\ order \in Seq(Nodes) /\ taken \in Seq(Item \cup {NULL})
            /\ Len(order) \in Nat /\ Len(taken) \in Nat
        BY <1>2 DEF Inv, TypeOK
      <3>2. head # NULL /\ Len(order) > 0 /\ head = order[1]
        BY <1>2, <2>2, <3>1 DEF Inv, Linked, Ends, NeverNull, Dequeue
      <3>3. Len(taken) < Len(sent) /\ item[head] = sent[Len(taken) + 1]
        BY <1>2, <3>1, <3>2 DEF Inv, Holds
      <3>4. taken' = Append(taken, item[head]) /\ sent' = sent
        BY <2>2, <3>2 DEF Dequeue
      <3> QED BY <3>3, <3>4 DEF Channel!Next, Channel!Deliver
    <2>3. ASSUME NEW p \in Producers, NEW i \in Item, NEW n \in Nodes, Alloc(p, i, n)
          PROVE  UNCHANGED <<sent, taken>>
      BY <2>3 DEF Alloc, queue
    <2>4. CASE Size \/ UNCHANGED vars
      BY <2>4 DEF Size, queue, vars
    <2> QED BY <1>2, <2>1, <2>2, <2>3, <2>4 DEF Next
  <1> QED BY <1>1, <1>2, AlwaysInv, PTL DEF Spec, InOrder
=============================================================================
