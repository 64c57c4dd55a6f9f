------------------------------- MODULE Dlist --------------------------------
(***************************************************************************)
(* The operations of inc/dlist.h, each as what its stores, one after the   *)
(* other, make of the fields next and prev, and any sequence of legal      *)
(* calls on a few heads and entries.  What the calls should have done is   *)
(* kept beside them as sequences.  What happens between the stores of a    *)
(* call, and to a reader without the lock, is in PendingList.              *)
(***************************************************************************)
EXTENDS Sequences, SequencesExt

CONSTANTS
  Heads,    \* list_heads that are used as heads
  Entries,  \* list_heads inside of something that can be in a list
  Poison1, Poison2   \* LIST_POISON1 and LIST_POISON2

ASSUME HeadsAssumption == Heads \cap Entries = {}

VARIABLES
  mem,    \* the fields next and prev of all of them
  lists,  \* the entries that should be in the list of each head
  valid,  \* the heads that are initialised
  alone   \* the entries that are in no list and initialised

dlistVars == <<mem, lists, valid, alone>>

-----------------------------------------------------------------------------
(* inc/dlist.h                                                             *)

SetNext(m, at, to) == [m EXCEPT !.next[at] = to]
SetPrev(m, at, to) == [m EXCEPT !.prev[at] = to]

InitList(m, list) == SetPrev(SetNext(m, list, list), list, list)

\* __list_add
Insert(m, new, before, after) ==
  SetNext(SetPrev(SetNext(SetPrev(m, after, new), new, after), new, before),
          before, new)
ListAdd(m, new, head) == Insert(m, new, head, m.next[head])
ListAddTail(m, new, head) == Insert(m, new, m.prev[head], head)

\* __list_del and __list_del_entry
Unlink(m, entry) ==
  SetNext(SetPrev(m, m.next[entry], m.prev[entry]),
          m.prev[entry], m.next[entry])
ListDel(m, entry) ==
  SetPrev(SetNext(Unlink(m, entry), entry, Poison1), entry, Poison2)
ListDelInit(m, entry) == InitList(Unlink(m, entry), entry)

ListReplace(m, old, new) ==
  LET m1 == SetNext(m, new, m.next[old])
      m2 == SetPrev(m1, m1.next[new], new)
      m3 == SetPrev(m2, new, m2.prev[old])
  IN SetNext(m3, m3.prev[new], new)
ListReplaceInit(m, old, new) == InitList(ListReplace(m, old, new), old)

ListMove(m, list, head) == ListAdd(Unlink(m, list), list, head)
ListMoveTail(m, list, head) == ListAddTail(Unlink(m, list), list, head)

IsLast(m, list, head) == m.next[list] = head
ListEmpty(m, head) == m.next[head] = head
ListEmptyCareful(m, head) ==
  m.next[head] = head /\ m.next[head] = m.prev[head]
IsSingular(m, head) == ~ListEmpty(m, head) /\ m.next[head] = m.prev[head]

RotateLeft(m, head) ==
  IF ListEmpty(m, head) THEN m ELSE ListMoveTail(m, m.next[head], head)

\* __list_cut_position
CutAfter(m, list, head, entry) ==
  LET newFirst == m.next[entry]
      m1 == SetNext(m, list, m.next[head])
      m2 == SetPrev(m1, m1.next[list], list)
      m3 == SetNext(SetPrev(m2, list, entry), entry, list)
  IN SetPrev(SetNext(m3, head, newFirst), newFirst, head)
\* Mutant: an entry that is the head is not told apart.
CutAnywhere(m, list, head, entry) ==
  IF ListEmpty(m, head) THEN m ELSE CutAfter(m, list, head, entry)
CutPosition(m, list, head, entry) ==
  CASE ListEmpty(m, head) -> m
    [] IsSingular(m, head) /\ m.next[head] # entry /\ head # entry -> m
    [] OTHER -> IF entry = head THEN InitList(m, list)
                ELSE CutAfter(m, list, head, entry)

\* __list_splice
SpliceBetween(m, list, before, after) ==
  LET first == m.next[list]
      last == m.prev[list]
      m1 == SetNext(SetPrev(m, first, before), before, first)
  IN SetPrev(SetNext(m1, last, after), after, last)
ListSplice(m, list, head) ==
  IF ListEmpty(m, list) THEN m ELSE SpliceBetween(m, list, head, m.next[head])
ListSpliceTail(m, list, head) ==
  IF ListEmpty(m, list) THEN m ELSE SpliceBetween(m, list, m.prev[head], head)
ListSpliceInit(m, list, head) ==
  IF ListEmpty(m, list) THEN m ELSE InitList(ListSplice(m, list, head), list)
ListSpliceTailInit(m, list, head) ==
  IF ListEmpty(m, list) THEN m
  ELSE InitList(ListSpliceTail(m, list, head), list)

-----------------------------------------------------------------------------
(* Any legal calls.  A head is used when it is initialised, and an entry   *)
(* is added when it is in no list.                                         *)

Listed == UNION {ToSet(lists[h]) : h \in Heads}
Free == Entries \ Listed
In(h, s) == lists' = [lists EXCEPT ![h] = s]
InBoth(h, s, g, t) == lists' = [lists EXCEPT ![h] = s, ![g] = t]

DlistInit ==
  LET all == Heads \cup Entries
  IN /\ mem = [next |-> [c \in all |-> c], prev |-> [c \in all |-> c]]
     /\ lists = [h \in Heads |-> <<>>]
     /\ valid = Heads
     /\ alone = Entries

InitStale(h) ==
  /\ h \notin valid
  /\ mem' = InitList(mem, h)
  /\ valid' = valid \cup {h}
  /\ UNCHANGED <<lists, alone>>

AddEntry(h, e) ==
  /\ h \in valid /\ e \in Free
  /\ \/ mem' = ListAdd(mem, e, h) /\ In(h, <<e>> \o lists[h])
     \/ mem' = ListAddTail(mem, e, h) /\ In(h, Append(lists[h], e))
  /\ alone' = alone \ {e}
  /\ UNCHANGED valid

DelEntry(h, e) ==
  /\ \E i \in DOMAIN lists[h] :
       lists[h][i] = e /\ In(h, RemoveAt(lists[h], i))
  /\ \/ mem' = ListDel(mem, e) /\ UNCHANGED alone
     \/ mem' = ListDelInit(mem, e) /\ alone' = alone \cup {e}
  /\ UNCHANGED valid

ReplaceEntry(h, e, new) ==
  /\ new \in Free
  /\ \E i \in DOMAIN lists[h] :
       lists[h][i] = e /\ In(h, ReplaceAt(lists[h], i, new))
  /\ \/ mem' = ListReplace(mem, e, new) /\ alone' = alone \ {new}
     \/ mem' = ListReplaceInit(mem, e, new) /\ alone' = (alone \ {new}) \cup {e}
  /\ UNCHANGED valid

\* "If @old was empty, it will be overwritten": h hands its list to g.
ReplaceHead(h, g) ==
  /\ h \in valid /\ h # g /\ lists[g] = <<>>
  /\ InBoth(g, lists[h], h, <<>>)
  /\ \/ mem' = ListReplace(mem, h, g) /\ valid' = (valid \ {h}) \cup {g}
     \/ mem' = ListReplaceInit(mem, h, g) /\ valid' = valid \cup {g}
  /\ UNCHANGED alone

MoveEntry(h, g, e) ==
  /\ g \in valid
  /\ \E i \in DOMAIN lists[h] :
       /\ lists[h][i] = e
       /\ LET without == [lists EXCEPT ![h] = RemoveAt(@, i)]
          IN \/ /\ mem' = ListMove(mem, e, g)
                /\ lists' = [without EXCEPT ![g] = <<e>> \o @]
             \/ /\ mem' = ListMoveTail(mem, e, g)
                /\ lists' = [without EXCEPT ![g] = Append(@, e)]
  /\ UNCHANGED <<valid, alone>>

Rotate(h) ==
  /\ h \in valid
  /\ mem' = RotateLeft(mem, h)
  /\ In(h, IF lists[h] = <<>> THEN <<>>
           ELSE Append(Tail(lists[h]), Head(lists[h])))
  /\ UNCHANGED <<valid, alone>>

\* The first k entries go to g, which is left as it is when h is empty.
Cut(h, g, k) ==
  /\ h \in valid /\ h # g /\ lists[g] = <<>> /\ k \in 0..Len(lists[h])
  /\ mem' = CutPosition(mem, g, h, IF k = 0 THEN h ELSE lists[h][k])
  /\ InBoth(g, SubSeq(lists[h], 1, k), h, SubSeq(lists[h], k+1, Len(lists[h])))
  /\ valid' = IF lists[h] = <<>> THEN valid ELSE valid \cup {g}
  /\ UNCHANGED alone

\* The variants without init leave the head of a list that was not empty as it
\* was.
Splice(h, g) ==
  /\ h \in valid /\ g \in valid /\ h # g
  /\ LET front == InBoth(g, lists[h] \o lists[g], h, <<>>)
         back == InBoth(g, lists[g] \o lists[h], h, <<>>)
     IN \/ /\ \/ mem' = ListSplice(mem, h, g) /\ front
              \/ mem' = ListSpliceTail(mem, h, g) /\ back
           /\ valid' = IF lists[h] = <<>> THEN valid ELSE valid \ {h}
        \/ /\ \/ mem' = ListSpliceInit(mem, h, g) /\ front
              \/ mem' = ListSpliceTailInit(mem, h, g) /\ back
           /\ UNCHANGED valid
  /\ UNCHANGED alone

DlistNext ==
  \E h \in Heads :
    \/ InitStale(h) \/ Rotate(h)
    \/ \E e \in Entries :
         \/ AddEntry(h, e) \/ DelEntry(h, e)
         \/ \E new \in Entries : ReplaceEntry(h, e, new)
         \/ \E g \in Heads : MoveEntry(h, g, e)
    \/ \E g \in Heads : ReplaceHead(h, g) \/ Splice(h, g)
    \/ \E g \in Heads, k \in 0..Len(lists[h]) : Cut(h, g, k)

-----------------------------------------------------------------------------
(* After any calls, the ring of a head is its sequence in both directions, *)
(* the tests answer for it, and a reinitialised entry is a list of its own *)
(* that can be added again.                                                *)
ListsAreSequences ==
  /\ \A h \in valid :
       LET s == lists[h]
           ring == <<h>> \o s
       IN /\ \A i \in DOMAIN ring :
               LET after == ring[IF i = Len(ring) THEN 1 ELSE i + 1]
               IN mem.next[ring[i]] = after /\ mem.prev[after] = ring[i]
          /\ ListEmpty(mem, h) <=> s = <<>>
          /\ ListEmptyCareful(mem, h) <=> s = <<>>
          /\ IsSingular(mem, h) <=> Len(s) = 1
          /\ \A i \in DOMAIN s : IsLast(mem, s[i], h) <=> i = Len(s)
  /\ \A e \in alone : ListEmptyCareful(mem, e)

=============================================================================
