---------------------------- MODULE MessageCache ----------------------------
(***************************************************************************)
(* The message cache (core/cache/message_cache.go), a list of messages per *)
(* sender.  A list is a Go slice: a window on an array that other lists    *)
(* may share, because getAllMessages gives every sender a prefix of one    *)
(* common list.  The engine pops by work; a worker pops by message type,   *)
(* which is the same with WorkOf read as the class of a message's type.    *)
(* Every call holds cacheLock.  AddMessage is one step; getAllMessages is  *)
(* one step per turn of its two loops, and no other call comes between.    *)
(***************************************************************************)
EXTENDS Integers, Sequences, FiniteSets

CONSTANTS
  Msgs,              \* the messages that reach the node
  Works,             \* their works
  WorkOf,            \* the work of each message
  Senders,           \* the nodes they come from
  From,              \* the sender of each message
  MaxMessagePerNode, \* the limit of a sender's list
  MaxPops,           \* bound: the number of pops
  Nil                \* an element that was never written; no work; no sender

ASSUME MessagesAssumption == WorkOf \in [Msgs -> Works] /\ From \in [Msgs -> Senders]
ASSUME SendersAssumption  == IsFiniteSet(Senders) /\ Senders # {}
ASSUME LimitAssumption    == MaxMessagePerNode \in Nat \ {0} /\ MaxPops \in Nat
ASSUME NilAssumption      == Nil \notin Works \cup Senders

VARIABLES
  heap,     \* the arrays, as sequences as long as their capacity
  list,     \* the slice of each sender: its array, its offset there and its length
  todo,     \* the messages that have not arrived
  given,    \* the messages the last call returned; it may return one several times
  work,     \* the work getAllMessages looks for, Nil if nobody is in it
  left,     \* the senders its outer loop has not come to
  cur,      \* the sender whose list its inner loop goes through, Nil between them
  idx,      \* how far it has gone through it
  newList,  \* the slice of what it keeps
  result,   \* what it has selected
  pops,     \* the number of pops
  limit     \* auxiliary: MaxMessagePerNode times the number of senders for each pop

lists == <<heap, list, newList>>
loop  == <<work, left, cur, idx, result>>
vars  == <<lists, loop, todo, given, pops, limit>>

Arrays == 1..(Cardinality(Senders) + 2)
Slices == [arr : Arrays \cup {0}, lo : Nat, len : Nat]
Empty  == [arr |-> 0, lo |-> 0, len |-> 0]

At(h, s, k) == h[s.arr][s.lo + k]
Items(h, s) == {At(h, s, k) : k \in 1..s.len}
Room(s)     == IF s.arr = 0 THEN 0 ELSE Len(heap[s.arr]) - s.lo
Used        == {list[s].arr : s \in Senders} \cup {newList.arr}
Known       == {From[m] : m \in Msgs \ todo}   \* the keys of the map

\* What the cache or a call inside it still has.
Held == result \cup Items(heap, newList) \cup UNION {Items(heap, list[s]) : s \in Senders}

Init ==
  /\ heap = [a \in Arrays |-> << >>]
  /\ list = [s \in Senders |-> Empty]
  /\ todo = Msgs
  /\ given = {}
  /\ work = Nil
  /\ left = {}
  /\ cur = Nil
  /\ idx = 0
  /\ newList = Empty
  /\ result = {}
  /\ pops = 0
  /\ limit = MaxMessagePerNode

-----------------------------------------------------------------------------
(* Go's append to slice s: in place if the array has room after the slice, *)
(* otherwise in a new array of twice the size.                             *)

Fits(s) == s.len < Room(s)
Free    == CHOOSE a \in Arrays : a \notin Used

AppendSlice(s) ==
  IF Fits(s) THEN [s EXCEPT !.len = @ + 1]
             ELSE [arr |-> Free, lo |-> 0, len |-> s.len + 1]

Copy(s, m) ==
  [i \in 1..(IF Room(s) = 0 THEN 1 ELSE 2 * Room(s)) |->
     IF i <= s.len THEN At(heap, s, i) ELSE IF i = s.len + 1 THEN m ELSE Nil]

AppendHeap(s, m) ==
  IF Fits(s) THEN [heap EXCEPT ![s.arr][s.lo + s.len + 1] = m]
             ELSE [heap EXCEPT ![Free] = Copy(s, m)]

\* An array to which no slice refers any more is garbage.
Collect(h) == heap' = [a \in Arrays |-> IF a \in Used' THEN h[a] ELSE << >>]

-----------------------------------------------------------------------------
(* AddMessage *)

\* The first element is removed one message too early.
TrimEarly(s) ==
  IF s.len >= MaxMessagePerNode - 1 /\ s.len > 0
  THEN [s EXCEPT !.lo = @ + 1, !.len = @ - 1] ELSE s

\* A full list loses its first element.
Trim(s) ==
  IF s.len >= MaxMessagePerNode
  THEN [s EXCEPT !.lo = @ + 1, !.len = @ - 1] ELSE s

AddMessage(m) ==
  LET s == Trim(list[From[m]])
  IN  /\ work = Nil
      /\ m \in todo
      /\ todo' = todo \ {m}
      /\ list' = [list EXCEPT ![From[m]] = AppendSlice(s)]
      /\ given' = {}
      /\ UNCHANGED <<loop, newList, pops, limit>>
      /\ Collect(AppendHeap(s, m))

-----------------------------------------------------------------------------
(* PopAllMessages(w, nil), which is getAllMessages(w, true, nil).  Go goes  *)
(* through the map in any order.                                            *)

PopAllMessages(w) ==
  /\ work = Nil
  /\ pops < MaxPops
  /\ pops' = pops + 1
  /\ limit' = limit * Cardinality(Senders)
  /\ work' = w
  /\ left' = Known
  /\ UNCHANGED <<lists, cur, idx, result, todo, given>>

NextValue(s) ==
  /\ work # Nil
  /\ cur = Nil
  /\ s \in left
  /\ left' = left \ {s}
  /\ cur' = s
  /\ idx' = 0
  /\ UNCHANGED <<lists, work, result, todo, given, pops, limit>>

\* The message is of the work.
Select ==
  /\ result' = result \cup {At(heap, list[cur], idx + 1)}
  /\ UNCHANGED lists

\* It is not, and stays in the cache.
Keep ==
  /\ newList' = AppendSlice(newList)
  /\ UNCHANGED <<list, result>>
  /\ Collect(AppendHeap(newList, At(heap, list[cur], idx + 1)))

\* What is selected stays in the cache, too.
NextMessageKeeping ==
  /\ cur # Nil
  /\ idx < list[cur].len
  /\ idx' = idx + 1
  /\ result' = IF WorkOf[At(heap, list[cur], idx + 1)] = work
               THEN result \cup {At(heap, list[cur], idx + 1)} ELSE result
  /\ newList' = AppendSlice(newList)
  /\ UNCHANGED <<list, work, left, cur, todo, given, pops, limit>>
  /\ Collect(AppendHeap(newList, At(heap, list[cur], idx + 1)))

NextMessage ==
  /\ cur # Nil
  /\ idx < list[cur].len
  /\ idx' = idx + 1
  /\ IF WorkOf[At(heap, list[cur], idx + 1)] = work THEN Select ELSE Keep
  /\ UNCHANGED <<work, left, cur, todo, given, pops, limit>>

\* Each sender gets the common list as it is when its own has been gone through.
SetList ==
  /\ cur # Nil
  /\ idx = list[cur].len
  /\ list' = [list EXCEPT ![cur] = newList]
  /\ cur' = Nil
  /\ idx' = 0
  /\ UNCHANGED <<newList, work, left, result, todo, given, pops, limit>>
  /\ Collect(heap)

Return ==
  /\ work # Nil
  /\ cur = Nil
  /\ left = {}
  /\ given' = result
  /\ work' = Nil
  /\ newList' = Empty
  /\ result' = {}
  /\ UNCHANGED <<list, left, cur, idx, todo, pops, limit>>
  /\ Collect(heap)

Next ==
  \/ \E m \in Msgs : AddMessage(m)
  \/ \E w \in Works : PopAllMessages(w)
  \/ \E s \in Senders : NextValue(s)
  \/ NextMessage
  \/ SetList
  \/ Return

Spec == Init /\ [][Next]_vars

-----------------------------------------------------------------------------
(* Properties *)

Abstract == INSTANCE CacheSpec WITH cached <- Held, given <- given

\* The slices behave as the engine takes the cache to behave: a pop returns
\* every message of the work, whichever list it has ended up in, and loses none
\* of the others although all senders are left with windows on common arrays.
ImplementsCache == Abstract!Spec

Shared(s) == list[s].arr # 0 /\ \E t \in Senders \ {s} : list[t].arr = list[s].arr

\* A message leaves the cache without being returned only if the list of the
\* sender of the new message is full, or shares its array with another list, so
\* that the append overwrites what the other list holds there.
LossOnlyAtLimitOrShared ==
  [][\A m \in Msgs : m \in Held /\ m \notin Held' /\ m \notin given' =>
       \E s \in Senders : /\ list'[s] # list[s]
                          /\ list[s].len >= MaxMessagePerNode \/ Shared(s)]_vars

\* The comment of the cache: it "has a limit of number of messages PER VALIDATOR".
\* Of each sender it holds MaxMessagePerNode messages at most.  This fails: a pop
\* leaves messages of one sender in the lists of others, where a later trim of the
\* sender's own list does not see them.
LimitPerValidator ==
  \A s \in Senders : Cardinality({m \in Held : From[m] = s}) <= MaxMessagePerNode

\* What is left of that limit: a list has no more than MaxMessagePerNode messages
\* until messages are popped, and as a pop leaves each sender with what is left of
\* the lists before its own as well, every pop may multiply the length of a list
\* by the number of senders, and no more.
GrowthBounded == \A s \in Senders : list[s].len <= limit

-----------------------------------------------------------------------------
(* What these rest on *)

TypeOK ==
  /\ heap \in [Arrays -> Seq(Msgs \cup {Nil})]
  /\ list \in [Senders -> Slices]
  /\ newList \in Slices
  /\ todo \subseteq Msgs
  /\ given \subseteq Msgs
  /\ result \subseteq Msgs
  /\ work \in Works \cup {Nil}
  /\ left \subseteq Senders
  /\ cur \in Senders \cup {Nil}
  /\ idx \in Nat
  /\ pops \in Nat
  /\ limit \in Nat

\* A slice is a window on its array, in which there are messages.
Valid(h, s) ==
  IF s.arr = 0 THEN s = Empty
  ELSE s.lo + s.len <= Len(h[s.arr]) /\ \A k \in 1..s.len : At(h, s, k) \in Msgs

SliceInv ==
  /\ \A s \in Senders : Valid(heap, list[s]) /\ (s \notin Known => list[s] = Empty)
  /\ Valid(heap, newList)

Waiting(s) == s \in left \/ s = cur

\* The lists the loops have not gone through are untouched by what is appended to
\* the new one, and the others are beginnings of it.
ApartInv ==
  \A s \in Senders :
    IF Waiting(s)
    THEN newList.arr # 0 => list[s].arr # newList.arr
    ELSE /\ list[s].arr = newList.arr => list[s].lo = 0 /\ list[s].len <= newList.len
         /\ Items(heap, list[s]) \subseteq Items(heap, newList)

\* The messages gone through are selected or kept, according to their work, and
\* the last sender gone through has the new list.
LoopInv ==
  /\ work = Nil => newList = Empty /\ result = {} /\ left = {} /\ cur = Nil
  /\ \A s \in Senders : Waiting(s) => s \in Known
  /\ newList.lo = 0
  /\ \A m \in result : WorkOf[m] = work
  /\ \A m \in Items(heap, newList) : WorkOf[m] # work
  /\ cur # Nil => /\ cur \notin left
                  /\ idx <= list[cur].len
                  /\ \A k \in 1..idx : At(heap, list[cur], k) \in result \cup Items(heap, newList)
  /\ cur = Nil /\ newList # Empty => \E s \in Senders : list[s] = newList

CacheInv == TypeOK /\ SliceInv /\ LoopInv /\ (work # Nil => ApartInv)

\* Between pops a list has at most limit messages.  Inside one the new list and
\* what may still be appended to it stay below the limit of the lists before,
\* once for each sender.
Rest == IF cur = Nil THEN 0 ELSE list[cur].len - idx

Growing(n) ==
  /\ limit = n * Cardinality(Senders)
  /\ n <= limit
  /\ \A s \in Senders : Waiting(s) => list[s].len <= n
  /\ \A s \in Senders : ~Waiting(s) => list[s].len <= newList.len
  /\ newList.len + Rest + n * Cardinality(left) <= limit

GrowthInv ==
  /\ limit >= MaxMessagePerNode
  /\ work = Nil => GrowthBounded
  /\ work # Nil => \E n \in Nat : Growing(n)
=============================================================================
