-------------------------------- MODULE Map2 --------------------------------
(***************************************************************************)
(* The maps of the program (map2.c) down to the nodes of their lists       *)
(* (list.c), with the threads that use them.  globSoMap has an entry for   *)
(* every connection: its receiver adds it, removes it at the end and frees *)
(* the value; SoTransmitter walks over it with an iterator.  tidSoMap has  *)
(* an entry for every transaction: GateIn adds it, SoTransmitter looks it  *)
(* up, nobody removes it.  A behaviour looks at one of the two.            *)
(*                                                                         *)
(* What a function does with the mutex is one step.  Outside it, and       *)
(* therefore steps of their own, are the read of the head that begins a    *)
(* walk, the read of the value that ends MAP_get, and the free() of a      *)
(* value that MAP_remove returned.                                         *)
(*                                                                         *)
(* A node and the MapItem it points to are allocated and freed together    *)
(* and are one cell here.  order is the sequence of cells that a scan from *)
(* head along next meets, which is what Linked says.                       *)
(***************************************************************************)
EXTENDS Naturals, Sequences

CONSTANTS
    Receivers,   \* the receiver threads, each with the memory of its value
    Keys,        \* descriptors, or transactions
    Cells,       \* the memory pmalloc() may give
    NULL,
    Uses         \* which maps to look at: "glob", "tid"

Transmitter == "transmitter"
Callers     == Receivers \cup {Transmitter}

ASSUME Map2Assumption ==
    /\ NULL \notin Cells \cup Receivers \cup Keys
    /\ "none" \notin Cells \cup {NULL}
    /\ Transmitter \notin Receivers
    /\ Uses \subseteq {"glob", "tid"}

VARIABLES
    use,                 \* the map of this behaviour; it does not change
    head, order,         \* the list
    next, key, value,    \* the fields of the cells
    mutex,               \* "free", or "walk" while the iterator has it
    conn,                \* receiver -> its state
    fd,                  \* receiver -> its descriptor, the key of its entry
    answer,              \* caller -> what MAP_remove or MAP_get returned
    found,               \* the cell MAP_get will read, or "none"
    walk, cursor,        \* the walk and its nextNode
    seen, due            \* connections the walk has met, and those it should

list  == <<head, order, next, key, value>>
iter  == <<walk, cursor, seen, due>>
vars  == <<use, list, mutex, conn, fd, answer, found, iter>>

InList == {order[i] : i \in 1..Len(order)}

EmptyList == head = NULL /\ order = <<>>

Init ==
    /\ use \in Uses
    /\ EmptyList
    /\ next = [c \in Cells |-> NULL]
    /\ key = [c \in Cells |-> NULL] /\ value = [c \in Cells |-> NULL]
    /\ mutex = "free"
    /\ conn = [r \in Receivers |-> "closed"]
    /\ fd = [r \in Receivers |-> NULL]
    /\ answer = [c \in Callers |-> NULL]
    /\ found = "none"
    /\ walk = "none" /\ cursor = NULL /\ seen = {} /\ due = {}

-----------------------------------------------------------------------------
(* The functions of map2.c, each with the mutex.                           *)

(***************************************************************************)
(* Add: a cell that is not in use becomes the head.                        *)
(***************************************************************************)
Prepend(c) ==
    /\ next' = [next EXCEPT ![c] = head]
    /\ head' = c
    /\ order' = <<c>> \o order

Add(k, v) ==
    /\ mutex = "free"
    /\ \E c \in Cells \ InList :
         /\ key' = [key EXCEPT ![c] = k]
         /\ value' = [value EXCEPT ![c] = v]
         /\ Prepend(c)

(***************************************************************************)
(* A scan stops at the first cell with the key; BadMatch goes on to the    *)
(* last.                                                                   *)
(***************************************************************************)
BadMatch(k, i) ==
    /\ key[order[i]] = k
    /\ \A j \in (i + 1)..Len(order) : key[order[j]] # k

Match(k, i) ==
    /\ key[order[i]] = k
    /\ \A j \in 1..(i - 1) : key[order[j]] # k

NoMatch(k) == \A i \in 1..Len(order) : key[order[i]] # k

(***************************************************************************)
(* LIST_remove and the free() of the cell, in which nothing is left that   *)
(* one could rely on: the cell before, if there is one, or the head is     *)
(* pointed to what follows.  BadUnlink forgets the cell before.            *)
(***************************************************************************)
Freed(i) ==
    /\ key' = [key EXCEPT ![order[i]] = NULL]
    /\ value' = [value EXCEPT ![order[i]] = NULL]

Without(i) ==
    [j \in 1..(Len(order) - 1) |-> IF j < i THEN order[j] ELSE order[j + 1]]

BadUnlink(i) ==
    /\ head' = next[order[i]]
    /\ next' = [next EXCEPT ![order[i]] = NULL]
    /\ order' = Without(i)
    /\ Freed(i)

Unlink(i) ==
    /\ head' = IF i = 1 THEN next[order[1]] ELSE head
    /\ next' = [c \in Cells |-> IF c = order[i] THEN NULL
                                ELSE IF i > 1 /\ c = order[i - 1] THEN next[order[i]]
                                ELSE next[c]]
    /\ order' = Without(i)
    /\ Freed(i)

(***************************************************************************)
(* MAP_remove.  It reads the value before it frees the item; BadRemove     *)
(* reads it afterwards.                                                    *)
(***************************************************************************)
BadRemove(r, k) ==
    \/ /\ NoMatch(k)
       /\ answer' = [answer EXCEPT ![r] = NULL]
       /\ UNCHANGED list
    \/ \E i \in 1..Len(order) :
         /\ Match(k, i)
         /\ Unlink(i)
         /\ answer' = [answer EXCEPT ![r] = value'[order[i]]]

Remove(r, k) ==
    \/ /\ NoMatch(k)
       /\ answer' = [answer EXCEPT ![r] = NULL]
       /\ UNCHANGED list
    \/ \E i \in 1..Len(order) :
         /\ Match(k, i)
         /\ answer' = [answer EXCEPT ![r] = value[order[i]]]
         /\ Unlink(i)

-----------------------------------------------------------------------------
(* The receivers and globSoMap.  A descriptor is taken from accept() to    *)
(* close().                                                                *)

Taken(k) == \E r \in Receivers : conn[r] # "closed" /\ fd[r] = k

Register(r, k) ==
    /\ use = "glob" /\ conn[r] = "closed" /\ ~Taken(k)
    /\ Add(k, r)
    /\ conn' = [conn EXCEPT ![r] = "open"]
    /\ fd' = [fd EXCEPT ![r] = k]
    /\ UNCHANGED <<use, mutex, answer, found, iter>>

(***************************************************************************)
(* The client has hung up.                                                 *)
(***************************************************************************)
Unregister(r) ==
    /\ use = "glob" /\ conn[r] = "open" /\ mutex = "free"
    /\ Remove(r, fd[r])
    /\ conn' = [conn EXCEPT ![r] = "removed"]
    /\ due' = due \ {r}
    /\ UNCHANGED <<use, mutex, fd, found, walk, cursor, seen>>

(***************************************************************************)
(* free(s), close(): the memory that MAP_remove returned is given back.    *)
(* BadFree gives it back while the entry is still there.                   *)
(***************************************************************************)
BadFree(r) ==
    /\ conn[r] # "closed"
    /\ conn' = [conn EXCEPT ![r] = "closed"]
    /\ fd' = [fd EXCEPT ![r] = NULL]
    /\ UNCHANGED <<use, list, mutex, answer, found, iter>>

FreeAndClose(r) ==
    /\ conn[r] = "removed"
    /\ conn' = [conn EXCEPT ![r] = "closed"]
    /\ fd' = [fd EXCEPT ![r] = NULL]
    /\ UNCHANGED <<use, list, mutex, answer, found, iter>>

-----------------------------------------------------------------------------
(* GateIn, SoTransmitter and tidSoMap.                                     *)

Store(k, r) ==
    /\ use = "tid"
    /\ Add(k, r)
    /\ UNCHANGED <<use, mutex, conn, fd, answer, found, iter>>

Lookup(k) ==
    /\ use = "tid" /\ found = "none" /\ mutex = "free"
    /\ \/ NoMatch(k) /\ found' = NULL
       \/ \E i \in 1..Len(order) : Match(k, i) /\ found' = order[i]
    /\ UNCHANGED <<use, list, mutex, conn, fd, answer, iter>>

(***************************************************************************)
(* item->value is read after the mutex has been given back.  BadRead gives *)
(* the item.                                                               *)
(***************************************************************************)
BadRead(c) == c

Read(c) == IF c = NULL THEN NULL ELSE value[c]

ReadItem ==
    /\ found # "none"
    /\ answer' = [answer EXCEPT ![Transmitter] = Read(found)]
    /\ found' = "none"
    /\ UNCHANGED <<use, list, mutex, conn, fd, iter>>

-----------------------------------------------------------------------------
(* SoTransmitter walks over globSoMap.                                     *)

IteratorNew ==
    /\ use = "glob" /\ walk = "none"
    /\ walk' = "new" /\ cursor' = head
    /\ seen' = {} /\ due' = {r \in Receivers : conn[r] = "open"}
    /\ UNCHANGED <<use, list, mutex, conn, fd, answer, found>>

IteratorLock ==
    /\ walk = "new" /\ mutex = "free"
    /\ walk' = "locked" /\ mutex' = "walk"
    /\ UNCHANGED <<use, list, conn, fd, answer, found, cursor, seen, due>>

(***************************************************************************)
(* MAP_ITERATOR_next on a cell of the list, and a form of it that steps    *)
(* twice.                                                                  *)
(***************************************************************************)
BadAfter(c) == IF next[c] = NULL THEN NULL ELSE next[next[c]]

After(c) == next[c]

IteratorNext ==
    /\ walk = "locked" /\ cursor \in InList
    /\ seen' = seen \cup {value[cursor]}
    /\ cursor' = After(cursor)
    /\ UNCHANGED <<use, list, mutex, conn, fd, answer, found, walk, due>>

(***************************************************************************)
(* The first cell was freed before the walk had the mutex.  What is read   *)
(* there, and what becomes of the walk, is undefined.                      *)
(***************************************************************************)
IteratorDangles ==
    /\ walk = "locked" /\ cursor \in Cells \ InList
    /\ walk' = "undefined"
    /\ UNCHANGED <<use, list, mutex, conn, fd, answer, found, cursor, seen, due>>

IteratorUnlock ==
    /\ walk = "locked" /\ cursor = NULL
    /\ walk' = "none" /\ mutex' = "free"
    /\ seen' = {} /\ due' = {}
    /\ UNCHANGED <<use, list, conn, fd, answer, found, cursor>>

-----------------------------------------------------------------------------
Next ==
    \/ \E r \in Receivers, k \in Keys : Register(r, k) \/ Store(k, r)
    \/ \E r \in Receivers : Unregister(r) \/ FreeAndClose(r)
    \/ \E k \in Keys : Lookup(k)
    \/ ReadItem
    \/ IteratorNew \/ IteratorLock \/ IteratorNext \/ IteratorDangles \/ IteratorUnlock

Spec == Init /\ [][Next]_vars
-----------------------------------------------------------------------------
(* Properties.                                                             *)

(***************************************************************************)
(* Every variable has its shape.                                           *)
(***************************************************************************)
TypeOK ==
    /\ use \in {"glob", "tid"}
    /\ head \in Cells \cup {NULL} /\ order \in Seq(Cells)
    /\ next \in [Cells -> Cells \cup {NULL}]
    /\ key \in [Cells -> Keys \cup {NULL}]
    /\ value \in [Cells -> Receivers \cup {NULL}]
    /\ mutex \in {"free", "walk"}
    /\ conn \in [Receivers -> {"closed", "open", "removed"}]
    /\ fd \in [Receivers -> Keys \cup {NULL}]
    /\ answer \in [Callers -> Receivers \cup {NULL}]
    /\ found \in Cells \cup {NULL, "none"}
    /\ walk \in {"none", "new", "locked", "undefined"}
    /\ cursor \in Cells \cup {NULL}
    /\ seen \subseteq Receivers \cup {NULL} /\ due \subseteq Receivers

(***************************************************************************)
(* A scan from head meets the cells of order, each once, and ends: a cell  *)
(* that LIST_remove has freed is not reached, also when pmalloc has given  *)
(* it again (list.c:47-71).                                                *)
(***************************************************************************)
Linked ==
    /\ head = IF order = <<>> THEN NULL ELSE order[1]
    /\ \A i \in 1..Len(order) :
         next[order[i]] = IF i = Len(order) THEN NULL ELSE order[i + 1]
    /\ \A i, j \in 1..Len(order) : order[i] = order[j] => i = j

(***************************************************************************)
(* The list is a map whose keys find their newest entries.  MAP_get gives  *)
(* what it found although it reads the value after the mutex is free again *)
(* (map2.c:27): nobody takes entries out of the map it is used on.         *)
(***************************************************************************)
Entries == [i \in 1..Len(order) |-> [key |-> key[order[i]], value |-> value[order[i]]]]

Answer ==
    IF found = "none" THEN answer ELSE [answer EXCEPT ![Transmitter] = Read(found)]

Map   == INSTANCE NewestFirst WITH entries <- Entries, answer <- Answer,
                                   Values <- Receivers
IsMap == Map!Spec

(***************************************************************************)
(* A receiver frees its own value and no other (so_receiver.c:93): the key *)
(* it removes is its descriptor, which nobody else has before it closes it.*)
(***************************************************************************)
FreesItsOwn == \A r \in Receivers : conn[r] = "removed" => answer[r] = r

(***************************************************************************)
(* A walk only meets connections whose value has not been freed, and each  *)
(* at most once (so_transmitter.c:31-33) ...                               *)
(***************************************************************************)
WalkMeetsLive ==
    walk = "locked" /\ cursor \in InList =>
        /\ value[cursor] \in Receivers \ seen
        /\ conn[value[cursor]] = "open"

(***************************************************************************)
(* ... and misses none that was registered when it began and still is when *)
(* it ends, although others come and go before it has the mutex and the    *)
(* memory of its first cell may be a new entry's by then.                  *)
(***************************************************************************)
WalkMissesNobody == walk = "locked" /\ cursor = NULL => due \subseteq seen
-----------------------------------------------------------------------------
(* What a comment says and the code does not do (README, section 5).       *)

(***************************************************************************)
(* With the iterator locked, any concurrent operation is blocked           *)
(* (map2.c:134-135): the walk never leaves the list.                       *)
(***************************************************************************)
WalkStaysInList == walk # "undefined"
=============================================================================
