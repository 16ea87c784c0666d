-------------------------------- MODULE Lbq --------------------------------
(***************************************************************************)
(* LinkedBlockingQueue (lbq.c), by which the threads hand each other their *)
(* elements: a list of malloc'ed nodes, a head, a last and a count, and a  *)
(* mutex around each function.  A queue has several producers and, in this *)
(* program, one consumer, which asks for the size and takes an element     *)
(* when it is not 0.  The capacity is stored and never looked at.          *)
(*                                                                         *)
(* What a function does with the mutex is one step.  enqueue() allocates   *)
(* its node before it takes the mutex; sent and order are history.         *)
(***************************************************************************)
EXTENDS Naturals, Sequences, FiniteSets

CONSTANTS
    Producers,   \* the threads that enqueue
    Item,        \* what they enqueue
    Nodes,       \* the memory pmalloc() may give
    NULL,
    CountSize,   \* count has 16 bits: 65536 in the code
    MaxItems     \* calls of enqueue() in a run

ASSUME LbqAssumption ==
    /\ NULL \notin Nodes /\ NULL \notin Item
    /\ CountSize \in Nat /\ CountSize > 1
    /\ MaxItems \in Nat

VARIABLES
    head, last, count,   \* the queue
    next, item,          \* the fields of the nodes
    node, this_item,     \* producer -> the node it has allocated, the item it enqueues
    polled,              \* has the consumer seen a size that is not 0?
    taken,               \* what dequeue() has returned
    order,               \* the nodes in the list, oldest first
    sent                 \* the items that were enqueued

queue == <<head, last, count, next, item, order, sent>>
vars  == <<queue, node, this_item, polled, taken>>

InList == {order[i] : i \in 1..Len(order)}
Owned  == {node[p] : p \in Producers}

(***************************************************************************)
(* The calls of enqueue() so far, with those that wait for the mutex.      *)
(***************************************************************************)
Calls == Len(sent) + Cardinality({p \in Producers : node[p] # NULL})

Init ==
    /\ head = NULL /\ last = NULL /\ count = 0
    /\ next \in [Nodes -> {NULL}] /\ item \in [Nodes -> {NULL}]
    /\ node = [p \in Producers |-> NULL]
    /\ this_item = [p \in Producers |-> NULL]
    /\ polled = FALSE
    /\ taken = <<>> /\ order = <<>> /\ sent = <<>>

(***************************************************************************)
(* enqueue() up to the lock: any memory that is not in use.                *)
(***************************************************************************)
Alloc(p, i, n) ==
    /\ node[p] = NULL /\ Calls < MaxItems
    /\ n \notin InList \cup Owned
    /\ node' = [node EXCEPT ![p] = n]
    /\ this_item' = [this_item EXCEPT ![p] = i]
    /\ UNCHANGED <<queue, polled, taken>>

(***************************************************************************)
(* enqueue() with the mutex.  BadUp counts beyond 16 bits.                 *)
(***************************************************************************)
BadUp(c) == c + 1

Up(c) == (c + 1) % CountSize

Enqueue(p) ==
    LET n == node[p]
    IN  /\ n # NULL
        /\ item' = [item EXCEPT ![n] = this_item[p]]
        /\ next' = [m \in Nodes |-> IF m = n THEN NULL
                                    ELSE IF m = last THEN n ELSE next[m]]
        /\ head' = IF last = NULL THEN n ELSE head
        /\ last' = n
        /\ count' = Up(count)
        /\ node' = [node EXCEPT ![p] = NULL]
        /\ this_item' = [this_item EXCEPT ![p] = NULL]
        /\ order' = Append(order, n)
        /\ sent' = Append(sent, this_item[p])
        /\ UNCHANGED <<polled, taken>>

(***************************************************************************)
(* size() of a consumer that finds something; another asks again.  BadSize *)
(* leaves the last element.                                                *)
(***************************************************************************)
BadSize ==
    /\ ~polled /\ count > 1
    /\ polled' = TRUE
    /\ UNCHANGED <<queue, node, this_item, taken>>

Size ==
    /\ ~polled /\ count > 0
    /\ polled' = TRUE
    /\ UNCHANGED <<queue, node, this_item, taken>>

(***************************************************************************)
(* dequeue().  BadPred forgets to count down.                              *)
(***************************************************************************)
BadPred(c) == c

Pred(c) == (c + CountSize - 1) % CountSize

(***************************************************************************)
(* The element is taken off; BadUnlink leaves last where it is.            *)
(***************************************************************************)
BadUnlink ==
    /\ head' = next[head]
    /\ UNCHANGED last

Unlink ==
    /\ head' = next[head]
    /\ last' = IF next[head] = NULL THEN NULL ELSE last

Dequeue ==
    /\ polled /\ polled' = FALSE
    /\ \/ /\ head # NULL
          /\ taken' = Append(taken, item[head])
          /\ Unlink
          /\ count' = Pred(count)
          /\ order' = Tail(order)
       \/ /\ head = NULL
          /\ taken' = Append(taken, NULL)
          /\ UNCHANGED <<head, last, count, order>>
    /\ UNCHANGED <<next, item, sent, node, this_item>>

Next ==
    \/ \E p \in Producers : Enqueue(p) \/ \E i \in Item, n \in Nodes : Alloc(p, i, n)
    \/ Size \/ Dequeue

(***************************************************************************)
(* The consumer goes on; a producer need not call.                         *)
(***************************************************************************)
Spec == Init /\ [][Next]_vars /\ WF_vars(Size \/ Dequeue)
-----------------------------------------------------------------------------
(* Properties.                                                             *)

(***************************************************************************)
(* Every variable has its shape.                                           *)
(***************************************************************************)
TypeOK ==
    /\ head \in Nodes \cup {NULL} /\ last \in Nodes \cup {NULL}
    /\ count \in 0..(CountSize - 1)
    /\ next \in [Nodes -> Nodes \cup {NULL}] /\ item \in [Nodes -> Item \cup {NULL}]
    /\ node \in [Producers -> Nodes \cup {NULL}]
    /\ this_item \in [Producers -> Item \cup {NULL}]
    /\ polled \in BOOLEAN
    /\ taken \in Seq(Item \cup {NULL})
    /\ order \in Seq(Nodes) /\ sent \in Seq(Item \cup {NULL})

(***************************************************************************)
(* The pointers make one list of the nodes in the order they were linked,  *)
(* from head to last, and no node is in it twice or in the hands of a      *)
(* producer: no freed node is reached, and none that pmalloc gave again.   *)
(***************************************************************************)
Ends ==
    IF order = <<>> THEN head = NULL /\ last = NULL
    ELSE head = order[1] /\ last = order[Len(order)] /\ next[last] = NULL

Chain    == \A i \in 1..(Len(order) - 1) : next[order[i]] = order[i + 1]
Distinct == \A i, j \in 1..Len(order) : order[i] = order[j] => i = j
Apart    == \A p, q \in Producers : node[p] # NULL =>
                node[p] \notin InList /\ (node[q] = node[p] => q = p)

Linked == Ends /\ Chain /\ Distinct /\ Apart

(***************************************************************************)
(* size() is the number of elements modulo 2^16, so a consumer that sees   *)
(* something finds something; at 65536 elements the queue says it is empty.*)
(***************************************************************************)
SizeIsLength == count = Len(order) % CountSize

(***************************************************************************)
(* No consumer that has seen something dereferences a NULL.                *)
(***************************************************************************)
NeverNull == polled => head # NULL

(***************************************************************************)
(* Whatever the count does, what is dequeued was enqueued, once and in its *)
(* turn.                                                                   *)
(***************************************************************************)
Channel == INSTANCE FrameChannel WITH Frame <- Item, delivered <- taken
InOrder == Channel!Init /\ [][Channel!Next]_<<sent, taken>>

(***************************************************************************)
(* While the count does not turn over, whatever is enqueued is dequeued:   *)
(* the consumer that polls size() is never told of an empty queue with an  *)
(* element in it.                                                          *)
(***************************************************************************)
Fits == [](Len(order) < CountSize)

AllTaken == Fits => \A n \in 1..MaxItems : Len(sent) >= n ~> Len(taken) >= n
=============================================================================
