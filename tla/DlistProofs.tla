---------------------------- MODULE DlistProofs ----------------------------
(***************************************************************************)
(* The operations of inc/dlist.h, for any heads and entries and any legal  *)
(* calls: the stores of each make of the ring of a head the ring of the    *)
(* list that the call should leave, and leave the other rings alone.       *)
(***************************************************************************)
EXTENDS Dlist, TLAPS

Cells == Heads \cup Entries
Values == Cells \cup {Poison1, Poison2}
Memory == [next : [Cells -> Values], prev : [Cells -> Values]]
Stores == [Heads -> Seq(Entries)]

\* The cells of the ring of a head h with the list s, in order: h itself is
\* before the first entry and after the last.
Spot(h, s, i) == IF i \in 1..Len(s) THEN s[i] ELSE h

Linked(m, a, b) == m.next[a] = b /\ m.prev[b] = a
Ring(m, h, s) == \A i \in 0..Len(s) : Linked(m, Spot(h, s, i), Spot(h, s, i + 1))

\* No entry is twice in a list, or in two lists.
Apart(ls) ==
  \A g, h \in Heads : \A i \in 1..Len(ls[g]), k \in 1..Len(ls[h]) :
    ls[g][i] = ls[h][k] => g = h /\ i = k
NotIn(e, ls) == \A h \in Heads : \A i \in 1..Len(ls[h]) : ls[h][i] # e

\* The memory m holds the lists ls of the heads v, and the entries al point to
\* themselves.
Holds(m, ls, v, al) ==
  /\ m \in Memory
  /\ ls \in Stores
  /\ Apart(ls)
  /\ v \subseteq Heads
  /\ \A h \in Heads \ v : ls[h] = <<>>
  /\ \A h \in v : Ring(m, h, ls[h])
  /\ al \subseteq Entries
  /\ \A e \in al : Linked(m, e, e) /\ NotIn(e, ls)

\* t is s without its element at i, with e as well after its first p elements,
\* and with e as its element at i.
Removed(t, s, i) ==
  /\ Len(t) = Len(s) - 1
  /\ \A k \in 1..Len(t) : t[k] = IF k < i THEN s[k] ELSE s[k + 1]
Inserted(t, s, p, e) ==
  /\ Len(t) = Len(s) + 1
  /\ \A k \in 1..Len(t) :
       t[k] = IF k <= p THEN s[k] ELSE IF k = p + 1 THEN e ELSE s[k - 1]
Replaced(t, s, i, e) ==
  /\ Len(t) = Len(s)
  /\ \A k \in 1..Len(t) : t[k] = IF k = i THEN e ELSE s[k]
\* t is u with s after its first p elements.
Spliced(t, s, u, p) ==
  /\ Len(t) = Len(u) + Len(s)
  /\ \A j \in 1..Len(t) :
       t[j] = IF j <= p THEN u[j]
              ELSE IF j <= p + Len(s) THEN s[j - p] ELSE u[j - Len(s)]

DlistInv == Holds(mem, lists, valid, alone)

\* The fields next outside of A and prev outside of B are the same in m and n.
Same(m, n, A, B) ==
  /\ \A c \in Cells \ A : n.next[c] = m.next[c]
  /\ \A c \in Cells \ B : n.prev[c] = m.prev[c]

-----------------------------------------------------------------------------
(* Cells of rings                                                          *)

\* A ring passes a cell once, and has no cell of another ring.
LEMMA SpotsDiffer ==
  ASSUME NEW ls \in Stores, Apart(ls), NEW h \in Heads
  PROVE  /\ Len(ls[h]) \in Nat
         /\ Spot(h, ls[h], 0) = h /\ Spot(h, ls[h], Len(ls[h]) + 1) = h
         /\ \A i \in 1..Len(ls[h]) : /\ Spot(h, ls[h], i) = ls[h][i]
                                     /\ ls[h][i] \in Entries /\ ls[h][i] # h
         /\ \A i \in 0..(Len(ls[h]) + 1) : Spot(h, ls[h], i) \in Cells
         /\ \A i, k \in 0..Len(ls[h]) :
              Spot(h, ls[h], i) = Spot(h, ls[h], k) => i = k
         /\ \A i, k \in 1..(Len(ls[h]) + 1) :
              Spot(h, ls[h], i) = Spot(h, ls[h], k) => i = k
<1> DEFINE s == ls[h]
<1>1. s \in Seq(Entries) /\ Len(s) \in Nat /\ \A i \in 1..Len(s) : s[i] \in Entries
  BY DEF Stores
<1>2. \A i \in 1..Len(s) : s[i] # h
  BY <1>1, HeadsAssumption
<1>3. \A i, k \in 1..Len(s) : s[i] = s[k] => i = k
  BY DEF Apart
<1> HIDE DEF s
<1>4. /\ Spot(h, s, 0) = h /\ Spot(h, s, Len(s) + 1) = h
      /\ \A i \in 1..Len(s) : Spot(h, s, i) = s[i]
      /\ \A i \in 0..(Len(s) + 1) : Spot(h, s, i) \in Cells
  BY <1>1 DEF Spot, Cells
<1>5. \A i, k \in 0..Len(s) : Spot(h, s, i) = Spot(h, s, k) => i = k
  BY <1>1, <1>2, <1>3 DEF Spot
<1>6. \A i, k \in 1..(Len(s) + 1) : Spot(h, s, i) = Spot(h, s, k) => i = k
  BY <1>1, <1>2, <1>3 DEF Spot
<1> QED
  BY <1>1, <1>2, <1>4, <1>5, <1>6 DEF s

\* Rings of two heads have no cell in common.
LEMMA RingsApart ==
  ASSUME NEW ls \in Stores, Apart(ls), NEW g \in Heads, NEW h \in Heads, g # h,
         NEW i \in Int, NEW k \in Int
  PROVE  Spot(g, ls[g], i) # Spot(h, ls[h], k)
<1>1. /\ \A j \in 1..Len(ls[g]) : ls[g][j] \in Entries /\ ls[g][j] # h
      /\ \A j \in 1..Len(ls[h]) : ls[h][j] \in Entries /\ ls[h][j] # g
  BY HeadsAssumption DEF Stores
<1>2. \A x \in 1..Len(ls[g]), y \in 1..Len(ls[h]) : ls[g][x] # ls[h][y]
  BY DEF Apart
<1> QED
  BY <1>1, <1>2 DEF Spot

\* An entry in no list is in no ring.
LEMMA NotInRing ==
  ASSUME NEW ls \in Stores, NEW e \in Entries, NotIn(e, ls), NEW h \in Heads,
         NEW i \in Int
  PROVE  Spot(h, ls[h], i) # e
BY HeadsAssumption DEF NotIn, Spot

\* A ring stays when none of its cells is stored to.
LEMMA RingKept ==
  ASSUME NEW m, NEW n, NEW A, NEW B, Same(m, n, A, B),
         NEW ls \in Stores, Apart(ls), NEW h \in Heads,
         Ring(m, h, ls[h]),
         \A i \in 0..(Len(ls[h]) + 1) : Spot(h, ls[h], i) \notin A \cup B
  PROVE  Ring(n, h, ls[h])
<1>1. \A i \in 0..(Len(ls[h]) + 1) : Spot(h, ls[h], i) \in Cells
  BY SpotsDiffer
<1>2. Len(ls[h]) \in Nat
  BY DEF Stores
<1> QED
  BY <1>1, <1>2 DEF Ring, Linked, Same

\* An entry that points to itself does so until it is stored to.
LEMMA AloneKept ==
  ASSUME NEW m, NEW n, NEW A, NEW B, Same(m, n, A, B),
         NEW e \in Cells, e \notin A \cup B, Linked(m, e, e)
  PROVE  Linked(n, e, e)
BY DEF Linked, Same

-----------------------------------------------------------------------------
(* What the stores of an operation, one after the other, come to           *)

\* One store.
LEMMA SetNextDoes ==
  ASSUME NEW m \in Memory, NEW at \in Cells, NEW to \in Values
  PROVE  LET n == SetNext(m, at, to)
         IN /\ n \in Memory /\ n.prev = m.prev /\ n.next[at] = to
            /\ \A c \in Cells \ {at} : n.next[c] = m.next[c]
BY DEF SetNext, Memory

\* And one to the other field.
LEMMA SetPrevDoes ==
  ASSUME NEW m \in Memory, NEW at \in Cells, NEW to \in Values
  PROVE  LET n == SetPrev(m, at, to)
         IN /\ n \in Memory /\ n.next = m.next /\ n.prev[at] = to
            /\ \A c \in Cells \ {at} : n.prev[c] = m.prev[c]
BY DEF SetPrev, Memory

\* INIT_LIST_HEAD
LEMMA InitDoes ==
  ASSUME NEW m \in Memory, NEW c \in Cells
  PROVE  LET n == InitList(m, c)
         IN n \in Memory /\ Linked(n, c, c) /\ Same(m, n, {c}, {c})
<1> DEFINE m1 == SetNext(m, c, c)
           n == SetPrev(m1, c, c)
<1>1. c \in Values
  BY DEF Values
<1>2. /\ m1 \in Memory /\ m1.prev = m.prev /\ m1.next[c] = c
      /\ \A d \in Cells \ {c} : m1.next[d] = m.next[d]
  BY <1>1, SetNextDoes
<1> HIDE DEF m1
<1>3. /\ n \in Memory /\ n.next = m1.next /\ n.prev[c] = c
      /\ \A d \in Cells \ {c} : n.prev[d] = m1.prev[d]
  <2>1. m1 \in Memory
    BY <1>2
  <2> QED
    BY <1>1, <2>1, SetPrevDoes
<1>4. n = InitList(m, c)
  BY DEF InitList, m1
<1> HIDE DEF n
<1> QED
  BY <1>2, <1>3, <1>4 DEF Linked, Same

\* __list_add
LEMMA InsertDoes ==
  ASSUME NEW m \in Memory, NEW new \in Cells, NEW before \in Cells,
         NEW after \in Cells, new # before, new # after
  PROVE  LET n == Insert(m, new, before, after)
         IN /\ n \in Memory /\ Linked(n, before, new) /\ Linked(n, new, after)
            /\ Same(m, n, {before, new}, {after, new})
<1> DEFINE m1 == SetPrev(m, after, new)
           m2 == SetNext(m1, new, after)
           m3 == SetPrev(m2, new, before)
           n == SetNext(m3, before, new)
<1>1. new \in Values /\ before \in Values /\ after \in Values
  BY DEF Values
<1>2. /\ m1 \in Memory /\ m1.next = m.next /\ m1.prev[after] = new
      /\ \A d \in Cells \ {after} : m1.prev[d] = m.prev[d]
  BY <1>1, SetPrevDoes
<1> HIDE DEF m1
<1>3. /\ m2 \in Memory /\ m2.prev = m1.prev /\ m2.next[new] = after
      /\ \A d \in Cells \ {new} : m2.next[d] = m1.next[d]
  <2>1. m1 \in Memory
    BY <1>2
  <2> QED
    BY <1>1, <2>1, SetNextDoes
<1> HIDE DEF m2
<1>4. /\ m3 \in Memory /\ m3.next = m2.next /\ m3.prev[new] = before
      /\ \A d \in Cells \ {new} : m3.prev[d] = m2.prev[d]
  <2>1. m2 \in Memory
    BY <1>3
  <2> QED
    BY <1>1, <2>1, SetPrevDoes
<1> HIDE DEF m3
<1>5. /\ n \in Memory /\ n.prev = m3.prev /\ n.next[before] = new
      /\ \A d \in Cells \ {before} : n.next[d] = m3.next[d]
  <2>1. m3 \in Memory
    BY <1>4
  <2> QED
    BY <1>1, <2>1, SetNextDoes
<1>6. n = Insert(m, new, before, after)
  BY DEF Insert, m1, m2, m3
<1> HIDE DEF n
<1> QED
  BY <1>2, <1>3, <1>4, <1>5, <1>6 DEF Linked, Same

\* __list_del_entry
LEMMA UnlinkDoes ==
  ASSUME NEW m \in Memory, NEW e \in Cells, NEW before \in Cells,
         NEW after \in Cells, m.prev[e] = before, m.next[e] = after
  PROVE  LET n == Unlink(m, e)
         IN /\ n \in Memory /\ Linked(n, before, after)
            /\ Same(m, n, {before}, {after})
<1> DEFINE m1 == SetPrev(m, after, before)
           n == SetNext(m1, before, after)
<1>1. before \in Values /\ after \in Values
  BY DEF Values
<1>2. /\ m1 \in Memory /\ m1.next = m.next /\ m1.prev[after] = before
      /\ \A d \in Cells \ {after} : m1.prev[d] = m.prev[d]
  BY <1>1, SetPrevDoes
<1> HIDE DEF m1
<1>3. /\ n \in Memory /\ n.prev = m1.prev /\ n.next[before] = after
      /\ \A d \in Cells \ {before} : n.next[d] = m1.next[d]
  <2>1. m1 \in Memory
    BY <1>2
  <2> QED
    BY <1>1, <2>1, SetNextDoes
<1>4. n = Unlink(m, e)
  BY DEF Unlink, m1
<1> HIDE DEF n
<1> QED
  BY <1>2, <1>3, <1>4 DEF Linked, Same

\* list_del, beyond __list_del_entry
LEMMA PoisonDoes ==
  ASSUME NEW m \in Memory, NEW e \in Cells
  PROVE  LET n == SetPrev(SetNext(m, e, Poison1), e, Poison2)
         IN n \in Memory /\ Same(m, n, {e}, {e})
<1> DEFINE m1 == SetNext(m, e, Poison1)
           n == SetPrev(m1, e, Poison2)
<1>1. Poison1 \in Values /\ Poison2 \in Values
  BY DEF Values
<1>2. /\ m1 \in Memory /\ m1.prev = m.prev
      /\ \A d \in Cells \ {e} : m1.next[d] = m.next[d]
  BY <1>1, SetNextDoes
<1> HIDE DEF m1
<1>3. /\ n \in Memory /\ n.next = m1.next
      /\ \A d \in Cells \ {e} : n.prev[d] = m1.prev[d]
  <2>1. m1 \in Memory
    BY <1>2
  <2> QED
    BY <1>1, <2>1, SetPrevDoes
<1> HIDE DEF n
<1> QED
  BY <1>2, <1>3 DEF Same, n, m1

\* list_replace, in a ring of more than the cell that is replaced
LEMMA ReplaceDoes ==
  ASSUME NEW m \in Memory, NEW old \in Cells, NEW new \in Cells,
         NEW before \in Cells, NEW after \in Cells,
         m.prev[old] = before, m.next[old] = after,
         new \notin {old, before, after}, old # after
  PROVE  LET n == ListReplace(m, old, new)
         IN /\ n \in Memory /\ Linked(n, before, new) /\ Linked(n, new, after)
            /\ Same(m, n, {before, new}, {after, new})
<1> DEFINE m1 == SetNext(m, new, after)
           m2 == SetPrev(m1, after, new)
           m3 == SetPrev(m2, new, before)
           n == SetNext(m3, before, new)
<1>1. new \in Values /\ before \in Values /\ after \in Values
  BY DEF Values
<1>2. /\ m1 \in Memory /\ m1.prev = m.prev /\ m1.next[new] = after
      /\ \A d \in Cells \ {new} : m1.next[d] = m.next[d]
  BY <1>1, SetNextDoes
<1>3. /\ m2 \in Memory /\ m2.next = m1.next /\ m2.prev[after] = new
      /\ \A d \in Cells \ {after} : m2.prev[d] = m1.prev[d]
  <2>1. m1 \in Memory
    BY <1>2
  <2> HIDE DEF m1
  <2> QED
    BY <1>1, <2>1, SetPrevDoes
<1>4. /\ m3 \in Memory /\ m3.next = m2.next /\ m3.prev[new] = before
      /\ \A d \in Cells \ {new} : m3.prev[d] = m2.prev[d]
  <2>1. m2 \in Memory
    BY <1>3
  <2> HIDE DEF m2
  <2> QED
    BY <1>1, <2>1, SetPrevDoes
<1>5. /\ n \in Memory /\ n.prev = m3.prev /\ n.next[before] = new
      /\ \A d \in Cells \ {before} : n.next[d] = m3.next[d]
  <2>1. m3 \in Memory
    BY <1>4
  <2> HIDE DEF m3
  <2> QED
    BY <1>1, <2>1, SetNextDoes
<1>6. n = ListReplace(m, old, new)
  <2>1. m1.next[new] = after
    BY <1>2
  <2>2. m2.prev[old] = before
    <3> HIDE DEF m1, m2
    <3> QED
      BY <1>2, <1>3
  <2>3. m3.prev[new] = before
    BY <1>4
  <2> DEFINE M1 == SetNext(m, new, m.next[old])
             M2 == SetPrev(M1, M1.next[new], new)
             M3 == SetPrev(M2, new, M2.prev[old])
  <2>4. ListReplace(m, old, new) = SetNext(M3, M3.prev[new], new)
    BY DEF ListReplace
  <2>5. M1 = m1
    OBVIOUS
  <2> HIDE DEF M1, m1
  <2>6. M2 = m2
    BY <2>1, <2>5
  <2> HIDE DEF M2, m2
  <2>7. M3 = m3
    BY <2>2, <2>6
  <2> HIDE DEF M3, m3
  <2> QED
    BY <2>3, <2>4, <2>7
<1> HIDE DEF n, m1, m2, m3
<1> QED
  BY <1>2, <1>3, <1>4, <1>5, <1>6 DEF Linked, Same

\* list_replace of a head without entries: "it will be overwritten"
LEMMA ReplaceEmptyDoes ==
  ASSUME NEW m \in Memory, NEW old \in Cells, NEW new \in Cells, old # new,
         m.next[old] = old
  PROVE  LET n == ListReplace(m, old, new)
         IN /\ n \in Memory /\ Linked(n, new, new)
            /\ Same(m, n, {new}, {old, new})
<1> DEFINE m1 == SetNext(m, new, old)
           m2 == SetPrev(m1, old, new)
           m3 == SetPrev(m2, new, new)
           n == SetNext(m3, new, new)
<1>1. new \in Values /\ old \in Values
  BY DEF Values
<1>2. /\ m1 \in Memory /\ m1.prev = m.prev /\ m1.next[new] = old
      /\ \A d \in Cells \ {new} : m1.next[d] = m.next[d]
  BY <1>1, SetNextDoes
<1>3. /\ m2 \in Memory /\ m2.next = m1.next /\ m2.prev[old] = new
      /\ \A d \in Cells \ {old} : m2.prev[d] = m1.prev[d]
  <2>1. m1 \in Memory
    BY <1>2
  <2> HIDE DEF m1
  <2> QED
    BY <1>1, <2>1, SetPrevDoes
<1>4. /\ m3 \in Memory /\ m3.next = m2.next /\ m3.prev[new] = new
      /\ \A d \in Cells \ {new} : m3.prev[d] = m2.prev[d]
  <2>1. m2 \in Memory
    BY <1>3
  <2> HIDE DEF m2
  <2> QED
    BY <1>1, <2>1, SetPrevDoes
<1>5. /\ n \in Memory /\ n.prev = m3.prev /\ n.next[new] = new
      /\ \A d \in Cells \ {new} : n.next[d] = m3.next[d]
  <2>1. m3 \in Memory
    BY <1>4
  <2> HIDE DEF m3
  <2> QED
    BY <1>1, <2>1, SetNextDoes
<1>6. n = ListReplace(m, old, new)
  <2> DEFINE M1 == SetNext(m, new, m.next[old])
             M2 == SetPrev(M1, M1.next[new], new)
             M3 == SetPrev(M2, new, M2.prev[old])
  <2>1. ListReplace(m, old, new) = SetNext(M3, M3.prev[new], new)
    BY DEF ListReplace
  <2>2. M1 = m1
    OBVIOUS
  <2> HIDE DEF M1, m1
  <2>3. M2 = m2
    BY <1>2, <2>2
  <2> HIDE DEF M2, m2
  <2>4. M3 = m3
    BY <1>3, <2>3
  <2> HIDE DEF M3, m3
  <2> QED
    BY <1>4, <2>1, <2>4
<1> HIDE DEF n, m1, m2, m3
<1> QED
  BY <1>2, <1>3, <1>4, <1>5, <1>6 DEF Linked, Same

\* The stores of __list_cut_position, and what it comes to.
LEMMA CutStores ==
  ASSUME NEW m \in Memory, NEW list \in Cells, NEW head \in Cells,
         NEW entry \in Cells, NEW first \in Cells, NEW newFirst \in Cells,
         list # head, list # entry, list # first, list # newFirst, head # entry,
         first # newFirst
  PROVE  LET m1 == SetNext(m, list, first)
             m4 == SetNext(SetPrev(SetPrev(m1, first, list), list, entry), entry, list)
             n == SetPrev(SetNext(m4, head, newFirst), newFirst, head)
         IN /\ m1.next[list] = first
            /\ n \in Memory /\ Linked(n, list, first) /\ Linked(n, entry, list)
            /\ Linked(n, head, newFirst)
            /\ Same(m, n, {list, entry, head}, {first, list, newFirst})
<1> DEFINE m1 == SetNext(m, list, first)
           m2 == SetPrev(m1, first, list)
           m3 == SetPrev(m2, list, entry)
           m4 == SetNext(m3, entry, list)
           m5 == SetNext(m4, head, newFirst)
           n == SetPrev(m5, newFirst, head)
<1>1. /\ list \in Values /\ entry \in Values /\ first \in Values
      /\ newFirst \in Values /\ head \in Values
  BY DEF Values
<1>2. /\ m1 \in Memory /\ m1.prev = m.prev /\ m1.next[list] = first
      /\ \A d \in Cells \ {list} : m1.next[d] = m.next[d]
  BY <1>1, SetNextDoes
<1>3. /\ m2 \in Memory /\ m2.next = m1.next /\ m2.prev[first] = list
      /\ \A d \in Cells \ {first} : m2.prev[d] = m1.prev[d]
  <2>1. m1 \in Memory
    BY <1>2
  <2> HIDE DEF m1
  <2> QED
    BY <1>1, <2>1, SetPrevDoes
<1>4. /\ m3 \in Memory /\ m3.next = m2.next /\ m3.prev[list] = entry
      /\ \A d \in Cells \ {list} : m3.prev[d] = m2.prev[d]
  <2>1. m2 \in Memory
    BY <1>3
  <2> HIDE DEF m2
  <2> QED
    BY <1>1, <2>1, SetPrevDoes
<1>5. /\ m4 \in Memory /\ m4.prev = m3.prev /\ m4.next[entry] = list
      /\ \A d \in Cells \ {entry} : m4.next[d] = m3.next[d]
  <2>1. m3 \in Memory
    BY <1>4
  <2> HIDE DEF m3
  <2> QED
    BY <1>1, <2>1, SetNextDoes
<1>6. /\ m5 \in Memory /\ m5.prev = m4.prev /\ m5.next[head] = newFirst
      /\ \A d \in Cells \ {head} : m5.next[d] = m4.next[d]
  <2>1. m4 \in Memory
    BY <1>5
  <2> HIDE DEF m4
  <2> QED
    BY <1>1, <2>1, SetNextDoes
<1>7. /\ n \in Memory /\ n.next = m5.next /\ n.prev[newFirst] = head
      /\ \A d \in Cells \ {newFirst} : n.prev[d] = m5.prev[d]
  <2>1. m5 \in Memory
    BY <1>6
  <2> HIDE DEF m5
  <2> QED
    BY <1>1, <2>1, SetPrevDoes
<1> HIDE DEF n, m1, m2, m3, m4, m5
<1>8. /\ \A d \in Cells \ {list, entry, head} : n.next[d] = m.next[d]
      /\ \A d \in Cells \ {first, list, newFirst} : n.prev[d] = m.prev[d]
  BY <1>2, <1>3, <1>4, <1>5, <1>6, <1>7
<1>9. n.next[list] = first /\ n.next[entry] = list /\ n.next[head] = newFirst
  BY <1>2, <1>3, <1>4, <1>5, <1>6, <1>7
<1>10. n.prev[first] = list /\ n.prev[list] = entry /\ n.prev[newFirst] = head
  BY <1>2, <1>3, <1>4, <1>5, <1>6, <1>7
<1> QED
  <2>1. Linked(n, list, first) /\ Linked(n, entry, list) /\ Linked(n, head, newFirst)
    BY <1>9, <1>10 DEF Linked
  <2>2. Same(m, n, {list, entry, head}, {first, list, newFirst})
    BY <1>8 DEF Same
  <2> QED
    BY <1>2, <1>7, <2>1, <2>2 DEF n, m1, m2, m3, m4, m5

\* __list_cut_position
LEMMA CutDoes ==
  ASSUME NEW m \in Memory, NEW list \in Cells, NEW head \in Cells,
         NEW entry \in Cells, NEW first \in Cells, NEW newFirst \in Cells,
         Linked(m, head, first), Linked(m, entry, newFirst),
         list # head, list # entry, list # first, list # newFirst, head # entry,
         first # newFirst
  PROVE  LET n == CutAfter(m, list, head, entry)
         IN /\ n \in Memory /\ Linked(n, list, first) /\ Linked(n, entry, list)
            /\ Linked(n, head, newFirst)
            /\ Same(m, n, {list, entry, head}, {first, list, newFirst})
<1> DEFINE m1 == SetNext(m, list, first)
           m4 == SetNext(SetPrev(SetPrev(m1, first, list), list, entry), entry, list)
           n == SetPrev(SetNext(m4, head, newFirst), newFirst, head)
<1>1. /\ m1.next[list] = first
      /\ n \in Memory /\ Linked(n, list, first) /\ Linked(n, entry, list)
      /\ Linked(n, head, newFirst)
      /\ Same(m, n, {list, entry, head}, {first, list, newFirst})
  BY CutStores
<1>2. CutAfter(m, list, head, entry) = n
  <2>1. CutAfter(m, list, head, entry)
          = SetPrev(SetNext(SetNext(SetPrev(SetPrev(m1, m1.next[list], list), list, entry),
                                    entry, list), head, newFirst), newFirst, head)
    BY DEF CutAfter, Linked
  <2> HIDE DEF m1
  <2> QED
    BY <1>1, <2>1
<1> QED
  BY <1>1, <1>2

\* The stores of __list_splice, and what it comes to.
LEMMA SpliceStores ==
  ASSUME NEW m \in Memory, NEW before \in Cells, NEW after \in Cells,
         NEW first \in Cells, NEW last \in Cells, before # last, after # first
  PROVE  LET n == SetPrev(SetNext(SetNext(SetPrev(m, first, before), before, first),
                                  last, after), after, last)
         IN /\ n \in Memory /\ Linked(n, before, first) /\ Linked(n, last, after)
            /\ Same(m, n, {before, last}, {first, after})
<1> DEFINE m1 == SetPrev(m, first, before)
           m2 == SetNext(m1, before, first)
           m3 == SetNext(m2, last, after)
           n == SetPrev(m3, after, last)
<1>1. before \in Values /\ after \in Values /\ first \in Values /\ last \in Values
  BY DEF Values
<1>2. /\ m1 \in Memory /\ m1.next = m.next /\ m1.prev[first] = before
      /\ \A d \in Cells \ {first} : m1.prev[d] = m.prev[d]
  BY <1>1, SetPrevDoes
<1> HIDE DEF m1
<1>3. /\ m2 \in Memory /\ m2.prev = m1.prev /\ m2.next[before] = first
      /\ \A d \in Cells \ {before} : m2.next[d] = m1.next[d]
  <2>1. m1 \in Memory
    BY <1>2
  <2> QED
    BY <1>1, <2>1, SetNextDoes
<1> HIDE DEF m2
<1>4. /\ m3 \in Memory /\ m3.prev = m2.prev /\ m3.next[last] = after
      /\ \A d \in Cells \ {last} : m3.next[d] = m2.next[d]
  <2>1. m2 \in Memory
    BY <1>3
  <2> QED
    BY <1>1, <2>1, SetNextDoes
<1> HIDE DEF m3
<1>5. /\ n \in Memory /\ n.next = m3.next /\ n.prev[after] = last
      /\ \A d \in Cells \ {after} : n.prev[d] = m3.prev[d]
  <2>1. m3 \in Memory
    BY <1>4
  <2> QED
    BY <1>1, <2>1, SetPrevDoes
<1> HIDE DEF n
<1>6. n \in Memory /\ Linked(n, before, first) /\ Linked(n, last, after)
  BY <1>2, <1>3, <1>4, <1>5 DEF Linked
<1>7. Same(m, n, {before, last}, {first, after})
  BY <1>2, <1>3, <1>4, <1>5 DEF Same
<1> QED
  BY <1>6, <1>7 DEF n, m1, m2, m3

\* __list_splice
LEMMA SpliceDoes ==
  ASSUME NEW m \in Memory, NEW list \in Cells, NEW before \in Cells,
         NEW after \in Cells, NEW first \in Cells, NEW last \in Cells,
         m.next[list] = first, m.prev[list] = last,
         before # last, after # first
  PROVE  LET n == SpliceBetween(m, list, before, after)
         IN /\ n \in Memory /\ Linked(n, before, first) /\ Linked(n, last, after)
            /\ Same(m, n, {before, last}, {first, after})
<1>1. SpliceBetween(m, list, before, after)
        = SetPrev(SetNext(SetNext(SetPrev(m, first, before), before, first),
                          last, after), after, last)
  BY DEF SpliceBetween
<1> QED
  BY <1>1, SpliceStores

-----------------------------------------------------------------------------
(* What those stores make of a ring                                        *)

\* A link that is not stored to stays.
LEMMA LinkKept ==
  ASSUME NEW m, NEW n, NEW A, NEW B, Same(m, n, A, B),
         NEW a \in Cells, NEW b \in Cells, a \notin A, b \notin B, Linked(m, a, b)
  PROVE  Linked(n, a, b)
BY DEF Linked, Same

\* The ring without its cell at i.
LEMMA RingRemove ==
  ASSUME NEW ls \in Stores, Apart(ls), NEW h \in Heads,
         NEW i \in 1..Len(ls[h]), NEW t \in Seq(Entries),
         Removed(t, ls[h], i),
         NEW m, NEW n, Ring(m, h, ls[h]),
         Linked(n, Spot(h, ls[h], i - 1), Spot(h, ls[h], i + 1)),
         Same(m, n, {Spot(h, ls[h], i - 1)}, {Spot(h, ls[h], i + 1)})
  PROVE  Ring(n, h, t)
<1> DEFINE s == ls[h]
           last == Len(s)
           P(k) == Spot(h, s, k)
           Q(k) == Spot(h, t, k)
<1>1. /\ last \in Nat /\ i \in 1..last /\ Len(t) = last - 1
      /\ \A k \in 0..(last + 1) : P(k) \in Cells
      /\ \A j, k \in 0..last : P(j) = P(k) => j = k
      /\ \A j, k \in 1..(last + 1) : P(j) = P(k) => j = k
  BY SpotsDiffer DEF Removed
<1>2. \A k \in 0..last : Linked(m, P(k), P(k + 1))
  BY DEF Ring
<1>3. \A k \in 0..last : Q(k) = IF k < i THEN P(k) ELSE P(k + 1)
  BY <1>1 DEF Spot, Removed
<1>4. Linked(n, P(i - 1), P(i + 1)) /\ Same(m, n, {P(i - 1)}, {P(i + 1)})
  OBVIOUS
<1> SUFFICES ASSUME NEW k \in 0..(last - 1) PROVE Linked(n, Q(k), Q(k + 1))
  BY <1>1 DEF Ring
<1> HIDE DEF P, Q, s, last
<1>5. CASE k < i - 1
  <2>1. k \in 0..last /\ k + 1 \in 1..last /\ i - 1 \in 0..last /\ i + 1 \in 1..(last + 1)
    BY <1>1, <1>5
  <2>2. P(k) # P(i - 1) /\ P(k + 1) # P(i + 1)
    BY <1>1, <1>5, <2>1
  <2>3. Linked(n, P(k), P(k + 1))
    <3>1. P(k) \in Cells /\ P(k + 1) \in Cells /\ Linked(m, P(k), P(k + 1))
      BY <1>1, <1>2, <2>1
    <3> QED
      BY <1>4, <2>2, <3>1 DEF Linked, Same
  <2>4. Q(k) = P(k) /\ Q(k + 1) = P(k + 1)
    BY <1>1, <1>3, <1>5, <2>1
  <2> QED
    BY <2>3, <2>4
<1>6. CASE k = i - 1
  BY <1>1, <1>3, <1>4, <1>6
<1>7. CASE k > i - 1
  <2>1. k + 1 \in 0..last /\ k + 2 \in 1..(last + 1) /\ i - 1 \in 0..last
        /\ i + 1 \in 1..(last + 1) /\ (k + 1) + 1 = k + 2
    BY <1>1, <1>7
  <2>2. P(k + 1) # P(i - 1) /\ P(k + 2) # P(i + 1)
    BY <1>1, <1>7, <2>1
  <2>3. Linked(n, P(k + 1), P(k + 2))
    BY <1>1, <1>2, <1>4, <2>1, <2>2, LinkKept
  <2>4. Q(k) = P(k + 1) /\ Q(k + 1) = P(k + 2)
    BY <1>1, <1>3, <1>7, <2>1
  <2> QED
    BY <2>3, <2>4
<1> QED
  BY <1>1, <1>5, <1>6, <1>7

\* The ring with a cell more, after the one at p.
LEMMA RingInsert ==
  ASSUME NEW ls \in Stores, Apart(ls), NEW h \in Heads,
         NEW p \in 0..Len(ls[h]), NEW e \in Entries, NotIn(e, ls),
         NEW t \in Seq(Entries), Inserted(t, ls[h], p, e),
         NEW m, NEW n, Ring(m, h, ls[h]),
         Linked(n, Spot(h, ls[h], p), e), Linked(n, e, Spot(h, ls[h], p + 1)),
         Same(m, n, {Spot(h, ls[h], p), e}, {Spot(h, ls[h], p + 1), e})
  PROVE  Ring(n, h, t)
<1> DEFINE s == ls[h]
           last == Len(s)
           P(k) == Spot(h, s, k)
           Q(k) == Spot(h, t, k)
<1>1. /\ last \in Nat /\ p \in 0..last /\ Len(t) = last + 1
      /\ \A k \in 0..(last + 1) : P(k) \in Cells
      /\ \A j, k \in 0..last : P(j) = P(k) => j = k
      /\ \A j, k \in 1..(last + 1) : P(j) = P(k) => j = k
  BY SpotsDiffer DEF Inserted
<1>2. \A k \in 0..last : Linked(m, P(k), P(k + 1))
  BY DEF Ring
<1>3. \A k \in 0..(last + 2) :
        Q(k) = IF k <= p THEN P(k) ELSE IF k = p + 1 THEN e ELSE P(k - 1)
  BY <1>1 DEF Spot, Inserted
<1>4. /\ Linked(n, P(p), e) /\ Linked(n, e, P(p + 1))
      /\ Same(m, n, {P(p), e}, {P(p + 1), e})
  OBVIOUS
<1>5. \A k \in 0..(last + 1) : P(k) # e
  BY <1>1, NotInRing
<1> SUFFICES ASSUME NEW k \in 0..(last + 1) PROVE Linked(n, Q(k), Q(k + 1))
  BY <1>1 DEF Ring
<1> HIDE DEF P, Q, s, last
<1>6. CASE k < p
  <2>1. k \in 0..last /\ k + 1 \in 1..last /\ p + 1 \in 1..(last + 1)
    BY <1>1, <1>6
  <2>2. P(k) \notin {P(p), e} /\ P(k + 1) \notin {P(p + 1), e}
    BY <1>1, <1>5, <1>6, <2>1
  <2>3. Linked(n, P(k), P(k + 1))
    BY <1>1, <1>2, <1>4, <2>1, <2>2, LinkKept
  <2>4. Q(k) = P(k) /\ Q(k + 1) = P(k + 1)
    BY <1>1, <1>3, <1>6, <2>1
  <2> QED
    BY <2>3, <2>4
<1>7. CASE k = p
  BY <1>1, <1>3, <1>4, <1>7
<1>8. CASE k = p + 1
  BY <1>1, <1>3, <1>4, <1>8
<1>9. CASE k > p + 1
  <2>1. k - 1 \in 0..last /\ k \in 1..(last + 1) /\ p + 1 \in 1..(last + 1)
        /\ (k - 1) + 1 = k
    BY <1>1, <1>9
  <2>2. P(k - 1) \notin {P(p), e} /\ P(k) \notin {P(p + 1), e}
    BY <1>1, <1>5, <1>9, <2>1
  <2>3. Linked(n, P(k - 1), P(k))
    BY <1>1, <1>2, <1>4, <2>1, <2>2, LinkKept
  <2>4. Q(k) = P(k - 1) /\ Q(k + 1) = P(k)
    BY <1>1, <1>3, <1>9, <2>1
  <2> QED
    BY <2>3, <2>4
<1> QED
  BY <1>1, <1>6, <1>7, <1>8, <1>9

\* The ring with another cell at i.
LEMMA RingReplace ==
  ASSUME NEW ls \in Stores, Apart(ls), NEW h \in Heads,
         NEW i \in 1..Len(ls[h]), NEW e \in Entries, NotIn(e, ls),
         NEW t \in Seq(Entries), Replaced(t, ls[h], i, e),
         NEW m, NEW n, Ring(m, h, ls[h]),
         Linked(n, Spot(h, ls[h], i - 1), e), Linked(n, e, Spot(h, ls[h], i + 1)),
         Same(m, n, {Spot(h, ls[h], i - 1), e}, {Spot(h, ls[h], i + 1), e})
  PROVE  Ring(n, h, t)
<1> DEFINE s == ls[h]
           last == Len(s)
           P(k) == Spot(h, s, k)
           Q(k) == Spot(h, t, k)
<1>1. /\ last \in Nat /\ i \in 1..last /\ Len(t) = last
      /\ \A k \in 0..(last + 1) : P(k) \in Cells
      /\ \A j, k \in 0..last : P(j) = P(k) => j = k
      /\ \A j, k \in 1..(last + 1) : P(j) = P(k) => j = k
  BY SpotsDiffer DEF Replaced
<1>2. \A k \in 0..last : Linked(m, P(k), P(k + 1))
  BY DEF Ring
<1>3. \A k \in 0..(last + 1) : Q(k) = IF k = i THEN e ELSE P(k)
  BY <1>1 DEF Spot, Replaced
<1>4. /\ Linked(n, P(i - 1), e) /\ Linked(n, e, P(i + 1))
      /\ Same(m, n, {P(i - 1), e}, {P(i + 1), e})
  OBVIOUS
<1>5. \A k \in 0..(last + 1) : P(k) # e
  BY <1>1, NotInRing
<1> SUFFICES ASSUME NEW k \in 0..last PROVE Linked(n, Q(k), Q(k + 1))
  BY <1>1 DEF Ring
<1> HIDE DEF P, Q, s, last
<1>6. CASE k = i - 1
  BY <1>1, <1>3, <1>4, <1>6
<1>7. CASE k = i
  BY <1>1, <1>3, <1>4, <1>7
<1>8. CASE k \notin {i - 1, i}
  <2>1. k + 1 \in 1..(last + 1) /\ i - 1 \in 0..last /\ i + 1 \in 1..(last + 1)
    BY <1>1
  <2>2. P(k) \notin {P(i - 1), e} /\ P(k + 1) \notin {P(i + 1), e}
    BY <1>1, <1>5, <1>8, <2>1
  <2>3. Linked(n, P(k), P(k + 1))
    BY <1>1, <1>2, <1>4, <2>1, <2>2, LinkKept
  <2>4. Q(k) = P(k) /\ Q(k + 1) = P(k + 1)
    BY <1>1, <1>3, <1>8, <2>1
  <2> QED
    BY <2>3, <2>4
<1> QED
  BY <1>6, <1>7, <1>8

\* The ring of another head with the cells up to the one at k.
LEMMA RingPrefix ==
  ASSUME NEW ls \in Stores, Apart(ls), NEW h \in Heads, NEW g \in Heads, g # h,
         NEW k \in 1..Len(ls[h]), NEW t \in Seq(Entries), Len(t) = k,
         \A j \in 1..k : t[j] = ls[h][j],
         NEW m, NEW n, Ring(m, h, ls[h]), NEW A, NEW B, Same(m, n, A, B),
         A = {g, Spot(h, ls[h], k), h},
         B = {g, Spot(h, ls[h], 1), Spot(h, ls[h], k + 1)},
         Linked(n, Spot(h, ls[h], k), g), Linked(n, g, Spot(h, ls[h], 1))
  PROVE  Ring(n, g, t)
<1> DEFINE s == ls[h]
           last == Len(s)
           P(j) == Spot(h, s, j)
           Q(j) == Spot(g, t, j)
<1>1. /\ last \in Nat /\ k \in 1..last /\ P(0) = h
      /\ \A j \in 0..(last + 1) : P(j) \in Cells
      /\ \A j \in 1..last : P(j) = s[j] /\ s[j] \in Entries
      /\ \A i, j \in 0..last : P(i) = P(j) => i = j
      /\ \A i, j \in 1..(last + 1) : P(i) = P(j) => i = j
  BY SpotsDiffer
<1>2. \A j \in 0..last : Linked(m, P(j), P(j + 1))
  BY DEF Ring
<1>3. Q(0) = g /\ Q(k + 1) = g /\ \A j \in 1..k : Q(j) = P(j)
  BY <1>1 DEF Spot
<1>4. \A j \in 1..last : P(j) # g
  BY <1>1, HeadsAssumption
<1>5. /\ Linked(n, P(k), g) /\ Linked(n, g, P(1))
      /\ A = {g, P(k), h} /\ B = {g, P(1), P(k + 1)}
  OBVIOUS
<1> SUFFICES ASSUME NEW j \in 0..k PROVE Linked(n, Q(j), Q(j + 1))
  BY DEF Ring
<1> HIDE DEF P, Q, s, last
<1>6. CASE j = 0
  <2>1. Q(j) = g /\ Q(j + 1) = P(1)
    BY <1>1, <1>3, <1>6
  <2> QED
    BY <1>5, <2>1
<1>7. CASE j = k
  <2>1. Q(j) = P(k) /\ Q(j + 1) = g
    BY <1>1, <1>3, <1>7
  <2> QED
    BY <1>5, <2>1
<1>8. CASE j \notin {0, k}
  <2>1. /\ j \in 1..last /\ j + 1 \in 1..last /\ 1 \in 1..last
        /\ k + 1 \in 1..(last + 1) /\ j \in 1..k /\ j + 1 \in 1..k /\ j \in 0..last
        /\ 0 \in 0..last
    BY <1>1, <1>8
  <2>2. P(j) # g /\ P(j) # P(k) /\ P(j) # P(0)
    BY <1>1, <1>4, <1>8, <2>1
  <2>3. P(j + 1) # g /\ P(j + 1) # P(1) /\ P(j + 1) # P(k + 1)
    BY <1>1, <1>4, <1>8, <2>1
  <2>4. P(j) \notin A /\ P(j + 1) \notin B
    BY <1>1, <1>5, <2>2, <2>3
  <2>5. Linked(n, P(j), P(j + 1))
    BY <1>1, <1>2, <2>1, <2>4, LinkKept
  <2>6. Q(j) = P(j) /\ Q(j + 1) = P(j + 1)
    BY <1>3, <2>1
  <2> QED
    BY <2>5, <2>6
<1> QED
  BY <1>6, <1>7, <1>8

\* The ring with the cells after the one at k.
LEMMA RingSuffix ==
  ASSUME NEW ls \in Stores, Apart(ls), NEW h \in Heads, NEW g \in Heads, g # h,
         NEW k \in 1..Len(ls[h]), NEW t \in Seq(Entries), Len(t) = Len(ls[h]) - k,
         \A j \in 1..Len(t) : t[j] = ls[h][j + k],
         NEW m, NEW n, Ring(m, h, ls[h]), NEW A, NEW B, Same(m, n, A, B),
         A = {g, Spot(h, ls[h], k), h},
         B = {g, Spot(h, ls[h], 1), Spot(h, ls[h], k + 1)},
         Linked(n, h, Spot(h, ls[h], k + 1))
  PROVE  Ring(n, h, t)
<1> DEFINE s == ls[h]
           last == Len(s)
           P(j) == Spot(h, s, j)
           Q(j) == Spot(h, t, j)
<1>1. /\ last \in Nat /\ k \in 1..last /\ P(0) = h /\ P(last + 1) = h
      /\ \A j \in 0..(last + 1) : P(j) \in Cells
      /\ \A j \in 1..last : P(j) = s[j] /\ s[j] \in Entries
      /\ \A i, j \in 0..last : P(i) = P(j) => i = j
      /\ \A i, j \in 1..(last + 1) : P(i) = P(j) => i = j
  BY SpotsDiffer
<1>2. \A j \in 0..last : Linked(m, P(j), P(j + 1))
  BY DEF Ring
<1>3. Q(0) = h /\ \A j \in 1..(last - k + 1) : Q(j) = P(j + k)
  BY <1>1 DEF Spot
<1>4. g \notin Entries /\ \A j \in 0..(last + 1) : P(j) # g
  BY <1>1, HeadsAssumption DEF Spot
<1>5. /\ Linked(n, h, P(k + 1))
      /\ A = {g, P(k), h} /\ B = {g, P(1), P(k + 1)}
  OBVIOUS
<1> SUFFICES ASSUME NEW j \in 0..(last - k) PROVE Linked(n, Q(j), Q(j + 1))
  BY DEF Ring
<1> HIDE DEF P, Q, s, last
<1>6. CASE j = 0
  <2>1. Q(j) = h /\ Q(j + 1) = P(1 + k) /\ 1 + k = k + 1
    BY <1>1, <1>3, <1>6
  <2> QED
    BY <1>5, <2>1
<1>7. CASE j # 0
  <2>1. /\ j + k \in 0..last /\ (j + k) + 1 \in 1..(last + 1) /\ 1 \in 1..(last + 1)
        /\ k + 1 \in 1..(last + 1) /\ k \in 0..last /\ 0 \in 0..last
        /\ j \in 1..(last - k + 1) /\ j + 1 \in 1..(last - k + 1)
        /\ (j + 1) + k = (j + k) + 1 /\ (j + k) + 1 \in 0..(last + 1)
        /\ j + k \in 0..(last + 1)
    BY <1>1, <1>7
  <2>2. j + k # k /\ j + k # 0 /\ (j + k) + 1 # 1 /\ (j + k) + 1 # k + 1
    BY <1>1, <1>7
  <2> DEFINE a == j + k
             b == (j + k) + 1
  <2> HIDE DEF a, b
  <2>3. P(a) # g /\ P(a) # P(k) /\ P(a) # P(0)
    BY <1>1, <1>4, <2>1, <2>2 DEF a
  <2>4. P(b) # g /\ P(b) # P(1) /\ P(b) # P(k + 1)
    BY <1>1, <1>4, <2>1, <2>2 DEF b
  <2>5. P(a) \notin A /\ P(b) \notin B
    BY <1>1, <1>5, <2>3, <2>4
  <2>6. P(a) \in Cells /\ P(b) \in Cells /\ Linked(m, P(a), P(b))
    BY <1>1, <1>2, <2>1 DEF a, b
  <2>7. Linked(n, P(a), P(b))
    BY <2>5, <2>6 DEF Linked, Same
  <2>8. Q(j) = P(a) /\ Q(j + 1) = P(b)
    BY <1>3, <2>1 DEF a, b
  <2> QED
    BY <2>7, <2>8
<1> QED
  BY <1>6, <1>7

\* Where the cells of two rings are in the ring of both.
LEMMA SplicedSpots ==
  ASSUME NEW g \in Heads, NEW h \in Heads, NEW s \in Seq(Entries),
         NEW u \in Seq(Entries), Len(s) # 0, NEW p \in 0..Len(u),
         NEW t \in Seq(Entries), Spliced(t, s, u, p)
  PROVE  /\ \A j \in 0..p : Spot(g, t, j) = Spot(g, u, j)
         /\ \A j \in (p + 1)..(p + Len(s)) : Spot(g, t, j) = Spot(h, s, j - p)
         /\ \A j \in (p + Len(s) + 1)..(Len(u) + Len(s) + 1) :
              Spot(g, t, j) = Spot(g, u, j - Len(s))
<1>1. Len(s) \in Nat /\ Len(u) \in Nat
  OBVIOUS
<1>6. /\ Len(t) = Len(u) + Len(s)
      /\ \A j \in 1..Len(t) :
           t[j] = IF j <= p THEN u[j]
                  ELSE IF j <= p + Len(s) THEN s[j - p] ELSE u[j - Len(s)]
  BY DEF Spliced
<1>2. ASSUME NEW j \in 0..p PROVE Spot(g, t, j) = Spot(g, u, j)
  <2>1. CASE j = 0
    BY <2>1 DEF Spot
  <2>2. CASE j # 0
    <3>1. j \in 1..Len(t) /\ j \in 1..Len(u) /\ j <= p
      BY <1>1, <1>6, <2>2
    <3>2. t[j] = u[j]
      BY <1>6, <3>1
    <3> QED
      BY <3>1, <3>2 DEF Spot
  <2> QED
    BY <2>1, <2>2
<1>3. ASSUME NEW j \in (p + 1)..(p + Len(s)) PROVE Spot(g, t, j) = Spot(h, s, j - p)
  <2>1. j \in 1..Len(t) /\ j - p \in 1..Len(s) /\ ~(j <= p) /\ j <= p + Len(s)
    BY <1>1, <1>6
  <2>2. t[j] = s[j - p]
    BY <1>6, <2>1
  <2> QED
    BY <2>1, <2>2 DEF Spot
<1>4. ASSUME NEW j \in (p + Len(s) + 1)..(Len(u) + Len(s) + 1)
      PROVE  Spot(g, t, j) = Spot(g, u, j - Len(s))
  <2>1. CASE j = Len(u) + Len(s) + 1
    <3>1. j \notin 1..Len(t) /\ j - Len(s) \notin 1..Len(u)
      BY <1>1, <1>6, <2>1
    <3> QED
      BY <3>1 DEF Spot
  <2>2. CASE j # Len(u) + Len(s) + 1
    <3>1. j \in 1..Len(t) /\ j - Len(s) \in 1..Len(u) /\ ~(j <= p) /\ ~(j <= p + Len(s))
      <4> DEFINE a == Len(s)
                 b == Len(u)
      <4>1. a \in Nat /\ b \in Nat /\ p \in 0..b /\ Len(t) = b + a /\ p \in Nat
            /\ j \in (p + a + 1)..(b + a + 1) /\ j # b + a + 1
        BY <1>1, <1>6, <2>2
      <4> HIDE DEF a, b
      <4>2. j \in 1..(b + a) /\ j - a \in 1..b /\ ~(j <= p) /\ ~(j <= p + a)
        BY <4>1
      <4> QED
        BY <4>1, <4>2 DEF a, b
    <3>2. t[j] = u[j - Len(s)]
      BY <1>6, <3>1
    <3> QED
      BY <3>1, <3>2 DEF Spot
  <2> QED
    BY <2>1, <2>2
<1> QED
  BY <1>2, <1>3, <1>4

\* The ring with the cells of another after the one at p.
LEMMA RingSplice ==
  ASSUME NEW ls \in Stores, Apart(ls), NEW h \in Heads, NEW g \in Heads, g # h,
         Len(ls[h]) # 0, NEW p \in 0..Len(ls[g]), NEW t \in Seq(Entries),
         Spliced(t, ls[h], ls[g], p),
         NEW m, NEW n, Ring(m, h, ls[h]), Ring(m, g, ls[g]),
         NEW A, NEW B, Same(m, n, A, B),
         A = {Spot(g, ls[g], p), Spot(h, ls[h], Len(ls[h]))},
         B = {Spot(h, ls[h], 1), Spot(g, ls[g], p + 1)},
         Linked(n, Spot(g, ls[g], p), Spot(h, ls[h], 1)),
         Linked(n, Spot(h, ls[h], Len(ls[h])), Spot(g, ls[g], p + 1))
  PROVE  Ring(n, g, t)
<1> DEFINE s == ls[h]
           u == ls[g]
           last == Len(s)
           end == Len(u)
           P(j) == Spot(h, s, j)
           U(j) == Spot(g, u, j)
           Q(j) == Spot(g, t, j)
<1>1. /\ last \in Nat \ {0}
      /\ \A j \in 0..(last + 1) : P(j) \in Cells
      /\ \A i, j \in 0..last : P(i) = P(j) => i = j
      /\ \A i, j \in 1..(last + 1) : P(i) = P(j) => i = j
  BY SpotsDiffer
<1>2. /\ end \in Nat /\ p \in 0..end
      /\ \A j \in 0..(end + 1) : U(j) \in Cells
      /\ \A i, j \in 0..end : U(i) = U(j) => i = j
      /\ \A i, j \in 1..(end + 1) : U(i) = U(j) => i = j
  BY SpotsDiffer
<1>3. \A j \in 0..last : Linked(m, P(j), P(j + 1))
  BY DEF Ring
<1>4. \A j \in 0..end : Linked(m, U(j), U(j + 1))
  BY DEF Ring
<1>5. \A i, j \in Int : P(i) # U(j)
  BY RingsApart
<1>6. /\ \A j \in 0..p : Q(j) = U(j)
      /\ \A j \in (p + 1)..(p + last) : Q(j) = P(j - p)
      /\ \A j \in (p + last + 1)..(end + last + 1) : Q(j) = U(j - last)
  <2>1. s \in Seq(Entries) /\ u \in Seq(Entries)
    BY DEF Stores
  <2>2. Len(s) # 0 /\ p \in 0..Len(u) /\ Spliced(t, s, u, p)
    OBVIOUS
  <2> HIDE DEF s, u
  <2>3. /\ \A j \in 0..p : Spot(g, t, j) = Spot(g, u, j)
        /\ \A j \in (p + 1)..(p + Len(s)) : Spot(g, t, j) = Spot(h, s, j - p)
        /\ \A j \in (p + Len(s) + 1)..(Len(u) + Len(s) + 1) :
             Spot(g, t, j) = Spot(g, u, j - Len(s))
    BY <2>1, <2>2, SplicedSpots
  <2> QED
    BY <2>3
<1>7. /\ Linked(n, U(p), P(1)) /\ Linked(n, P(last), U(p + 1))
      /\ A = {U(p), P(last)} /\ B = {P(1), U(p + 1)}
  OBVIOUS
<1>8. Len(t) = end + last
  BY DEF Spliced
<1> SUFFICES ASSUME NEW j \in 0..(end + last) PROVE Linked(n, Q(j), Q(j + 1))
  BY <1>8 DEF Ring
<1> HIDE DEF P, Q, U, s, u, last, end
<1>9. ASSUME NEW a \in 0..end, a # p
      PROVE  Linked(n, U(a), U(a + 1))
  <2>1. /\ a \in Int /\ a + 1 \in Int /\ a \in 0..(end + 1) /\ a + 1 \in 1..(end + 1)
        /\ a + 1 \in 0..(end + 1) /\ p + 1 \in 1..(end + 1) /\ a + 1 # p + 1
        /\ last \in Int /\ 1 \in Int
    BY <1>1, <1>2, <1>9
  <2>2. U(a) # U(p) /\ U(a + 1) # U(p + 1)
    BY <1>2, <1>9, <2>1
  <2>3. U(a) # P(last) /\ U(a + 1) # P(1)
    BY <1>5, <2>1
  <2>4. U(a) \notin A /\ U(a + 1) \notin B
    BY <1>7, <2>2, <2>3
  <2>5. U(a) \in Cells /\ U(a + 1) \in Cells /\ Linked(m, U(a), U(a + 1))
    BY <1>2, <1>4, <2>1
  <2> QED
    BY <2>4, <2>5, LinkKept
<1>10. ASSUME NEW a \in 1..(last - 1)
       PROVE  Linked(n, P(a), P(a + 1))
  <2>1. /\ a \in Int /\ a + 1 \in Int /\ a \in 0..last /\ a + 1 \in 1..(last + 1)
        /\ a \in 0..(last + 1) /\ a + 1 \in 0..(last + 1) /\ last \in 0..last
        /\ 1 \in 1..(last + 1) /\ a # last /\ a + 1 # 1 /\ p \in Int /\ p + 1 \in Int
    BY <1>1, <1>2
  <2>2. P(a) # P(last) /\ P(a + 1) # P(1)
    BY <1>1, <2>1
  <2>3. P(a) # U(p) /\ P(a + 1) # U(p + 1)
    BY <1>5, <2>1
  <2>4. P(a) \notin A /\ P(a + 1) \notin B
    BY <1>7, <2>2, <2>3
  <2>5. P(a) \in Cells /\ P(a + 1) \in Cells /\ Linked(m, P(a), P(a + 1))
    BY <1>1, <1>3, <2>1
  <2> QED
    BY <2>4, <2>5, LinkKept
<1>11. CASE j < p
  <2>1. Q(j) = U(j) /\ Q(j + 1) = U(j + 1) /\ j \in 0..end /\ j # p
    BY <1>1, <1>2, <1>6, <1>11
  <2> QED
    BY <1>9, <2>1
<1>12. CASE j = p
  <2>1. j + 1 \in (p + 1)..(p + last) /\ (j + 1) - p = 1 /\ j \in 0..p
    BY <1>1, <1>2, <1>12
  <2>2. Q(j) = U(p) /\ Q(j + 1) = P(1)
    BY <1>6, <1>12, <2>1
  <2> QED
    BY <1>7, <2>2
<1>13. CASE j \in (p + 1)..(p + last - 1)
  <2>1. /\ j \in (p + 1)..(p + last) /\ j + 1 \in (p + 1)..(p + last)
        /\ (j + 1) - p = (j - p) + 1 /\ j - p \in 1..(last - 1)
    BY <1>1, <1>2, <1>13
  <2>2. Q(j) = P(j - p) /\ Q(j + 1) = P((j - p) + 1)
    BY <1>6, <2>1
  <2> QED
    BY <1>10, <2>1, <2>2
<1>14. CASE j = p + last
  <2>1. /\ j \in (p + 1)..(p + last) /\ j - p = last
        /\ j + 1 \in (p + last + 1)..(end + last + 1) /\ (j + 1) - last = p + 1
    BY <1>1, <1>2, <1>14
  <2>2. Q(j) = P(last) /\ Q(j + 1) = U(p + 1)
    BY <1>6, <2>1
  <2> QED
    BY <1>7, <2>2
<1>15. CASE j > p + last
  <2>1. /\ j \in (p + last + 1)..(end + last + 1)
        /\ j + 1 \in (p + last + 1)..(end + last + 1)
        /\ (j + 1) - last = (j - last) + 1 /\ j - last \in 0..end /\ j - last # p
    BY <1>1, <1>2, <1>15
  <2>2. Q(j) = U(j - last) /\ Q(j + 1) = U((j - last) + 1)
    BY <1>6, <2>1
  <2> QED
    BY <1>9, <2>1, <2>2
<1> QED
  BY <1>1, <1>2, <1>11, <1>12, <1>13, <1>14, <1>15

-----------------------------------------------------------------------------
(* What they make of all of the lists                                      *)

\* Only the list of h changes.
Only(ls2, ls, h) ==
  ls2 \in Stores /\ \A g \in Heads \ {h} : ls2[g] = ls[g]

\* An operation on one list keeps all of them apart.
LEMMA RemoveApart ==
  ASSUME NEW ls \in Stores, Apart(ls), NEW h \in Heads, NEW i \in 1..Len(ls[h]),
         NEW ls2, Only(ls2, ls, h), Removed(ls2[h], ls[h], i)
  PROVE  /\ Apart(ls2) /\ NotIn(ls[h][i], ls2)
         /\ \A e \in Entries : NotIn(e, ls) => NotIn(e, ls2)
<1>1. /\ Len(ls[h]) \in Nat /\ Len(ls2[h]) = Len(ls[h]) - 1
      /\ \A k \in 1..Len(ls2[h]) : ls2[h][k] = IF k < i THEN ls[h][k] ELSE ls[h][k + 1]
      /\ \A g \in Heads \ {h} : ls2[g] = ls[g]
  BY DEF Only, Removed, Stores
<1> DEFINE At(g, k) == IF g = h /\ k >= i THEN k + 1 ELSE k
<1>2. ASSUME NEW g \in Heads, NEW k \in 1..Len(ls2[g])
      PROVE  /\ At(g, k) \in 1..Len(ls[g]) /\ ls2[g][k] = ls[g][At(g, k)]
             /\ ~(g = h /\ At(g, k) = i)
  <2>1. CASE g = h
    BY <1>1, <2>1
  <2>2. CASE g # h
    BY <1>1, <2>2
  <2> QED
    BY <2>1, <2>2
<1>3. ASSUME NEW f \in Heads, NEW g \in Heads, NEW j \in 1..Len(ls2[f]),
             NEW k \in 1..Len(ls2[g]), ls2[f][j] = ls2[g][k]
      PROVE  f = g /\ j = k
  <2> DEFINE a == At(f, j)
             b == At(g, k)
  <2>1. a \in 1..Len(ls[f]) /\ b \in 1..Len(ls[g]) /\ ls[f][a] = ls[g][b]
    <3> HIDE DEF At
    <3> QED
      BY <1>2, <1>3
  <2> HIDE DEF a, b
  <2>2. f = g /\ a = b
    BY <2>1 DEF Apart
  <2> QED
    BY <2>2 DEF a, b
<1>4. ASSUME NEW g \in Heads, NEW k \in 1..Len(ls2[g])
      PROVE  /\ ls2[g][k] # ls[h][i]
             /\ \A e \in Entries : NotIn(e, ls) => ls2[g][k] # e
  <2> DEFINE a == At(g, k)
  <2>1. a \in 1..Len(ls[g]) /\ ls2[g][k] = ls[g][a] /\ ~(g = h /\ a = i)
    BY <1>2
  <2> HIDE DEF a
  <2>2. ls[g][a] # ls[h][i]
    BY <2>1 DEF Apart
  <2>3. \A e \in Entries : NotIn(e, ls) => ls[g][a] # e
    BY <2>1 DEF NotIn
  <2> QED
    BY <2>1, <2>2, <2>3
<1> QED
  BY <1>3, <1>4 DEF NotIn, Apart

\* An entry in no list is put into one.
LEMMA InsertApart ==
  ASSUME NEW ls \in Stores, Apart(ls), NEW h \in Heads, NEW p \in 0..Len(ls[h]),
         NEW e \in Entries, NotIn(e, ls),
         NEW ls2, Only(ls2, ls, h), Inserted(ls2[h], ls[h], p, e)
  PROVE  /\ Apart(ls2)
         /\ \A c \in Entries \ {e} : NotIn(c, ls) => NotIn(c, ls2)
<1>1. /\ Len(ls[h]) \in Nat /\ Len(ls2[h]) = Len(ls[h]) + 1
      /\ \A k \in 1..Len(ls2[h]) :
           ls2[h][k] = IF k <= p THEN ls[h][k]
                       ELSE IF k = p + 1 THEN e ELSE ls[h][k - 1]
      /\ \A g \in Heads \ {h} : ls2[g] = ls[g]
  BY DEF Only, Inserted, Stores
<1> DEFINE At(g, k) == IF g = h /\ k > p THEN k - 1 ELSE k
<1>2. ASSUME NEW g \in Heads, NEW k \in 1..Len(ls2[g])
      PROVE  \/ g = h /\ k = p + 1 /\ ls2[g][k] = e
             \/ /\ ls2[g][k] = ls[g][At(g, k)] /\ At(g, k) \in 1..Len(ls[g])
                /\ ~(g = h /\ k = p + 1)
  <2>1. CASE g = h
    BY <1>1, <2>1
  <2>2. CASE g # h
    BY <1>1, <2>2
  <2> QED
    BY <2>1, <2>2
<1>3. ASSUME NEW f \in Heads, NEW g \in Heads, NEW j \in 1..Len(ls2[f]),
             NEW k \in 1..Len(ls2[g]), ls2[f][j] = ls2[g][k]
      PROVE  f = g /\ j = k
  <2>1. CASE f = h /\ j = p + 1 /\ g = h /\ k = p + 1
    BY <2>1
  <2>2. CASE ~(f = h /\ j = p + 1) /\ ~(g = h /\ k = p + 1)
    <3>1. At(f, j) \in 1..Len(ls[f]) /\ ls2[f][j] = ls[f][At(f, j)]
      BY <1>2, <2>2
    <3>2. At(g, k) \in 1..Len(ls[g]) /\ ls2[g][k] = ls[g][At(g, k)]
      BY <1>2, <2>2
    <3> DEFINE a == At(f, j)
               b == At(g, k)
    <3>3. a \in 1..Len(ls[f]) /\ b \in 1..Len(ls[g]) /\ ls[f][a] = ls[g][b]
      BY <1>3, <3>1, <3>2
    <3> HIDE DEF a, b
    <3>4. f = g /\ a = b
      BY <3>3 DEF Apart
    <3> QED
      BY <2>2, <3>4 DEF a, b
  <2>3. CASE f = h /\ j = p + 1 /\ ~(g = h /\ k = p + 1)
    <3>1. ls2[f][j] = e
      BY <1>2, <2>3
    <3>2. At(g, k) \in 1..Len(ls[g]) /\ ls2[g][k] = ls[g][At(g, k)]
      BY <1>2, <2>3
    <3> HIDE DEF At
    <3> QED
      BY <1>3, <3>1, <3>2 DEF NotIn
  <2>4. CASE g = h /\ k = p + 1 /\ ~(f = h /\ j = p + 1)
    <3>1. ls2[g][k] = e
      BY <1>2, <2>4
    <3>2. At(f, j) \in 1..Len(ls[f]) /\ ls2[f][j] = ls[f][At(f, j)]
      BY <1>2, <2>4
    <3> HIDE DEF At
    <3> QED
      BY <1>3, <3>1, <3>2 DEF NotIn
  <2> QED
    BY <2>1, <2>2, <2>3, <2>4
<1>4. ASSUME NEW c \in Entries \ {e}, NotIn(c, ls), NEW g \in Heads,
             NEW k \in 1..Len(ls2[g])
      PROVE  ls2[g][k] # c
  BY <1>2, <1>4 DEF NotIn
<1> QED
  BY <1>3, <1>4 DEF NotIn, Apart

\* An entry in no list takes the place of one in a list.
LEMMA ReplaceApart ==
  ASSUME NEW ls \in Stores, Apart(ls), NEW h \in Heads, NEW i \in 1..Len(ls[h]),
         NEW e \in Entries, NotIn(e, ls),
         NEW ls2, Only(ls2, ls, h), Replaced(ls2[h], ls[h], i, e)
  PROVE  /\ Apart(ls2) /\ NotIn(ls[h][i], ls2)
         /\ \A c \in Entries \ {e} : NotIn(c, ls) => NotIn(c, ls2)
<1>1. /\ Len(ls[h]) \in Nat /\ Len(ls2[h]) = Len(ls[h]) /\ ls[h][i] # e
      /\ \A k \in 1..Len(ls2[h]) : ls2[h][k] = IF k = i THEN e ELSE ls[h][k]
      /\ \A g \in Heads \ {h} : ls2[g] = ls[g]
  BY DEF Only, Replaced, Stores, NotIn
<1>2. \A g \in Heads : \A k \in 1..Len(ls2[g]) :
        \/ g = h /\ k = i /\ ls2[g][k] = e
        \/ k \in 1..Len(ls[g]) /\ ls2[g][k] = ls[g][k] /\ ~(g = h /\ k = i)
  BY <1>1
<1>3. Apart(ls2)
  BY <1>2 DEF Apart, NotIn
<1>4. NotIn(ls[h][i], ls2)
  BY <1>1, <1>2 DEF Apart, NotIn
<1>5. ASSUME NEW c \in Entries \ {e}, NotIn(c, ls), NEW g \in Heads,
             NEW k \in 1..Len(ls2[g])
      PROVE  ls2[g][k] # c
  BY <1>2, <1>5 DEF NotIn
<1> QED
  BY <1>3, <1>4, <1>5 DEF NotIn

\* Only the lists of h and g change, and the first k entries of h go to g, or
\* all of them are put into that of g after p.
OnlyBoth(ls2, ls, h, g) ==
  ls2 \in Stores /\ \A f \in Heads \ {g, h} : ls2[f] = ls[f]
Split(ls2, ls, h, g, k) ==
  /\ OnlyBoth(ls2, ls, h, g)
  /\ Len(ls2[g]) = k /\ \A j \in 1..k : ls2[g][j] = ls[h][j]
  /\ Len(ls2[h]) = Len(ls[h]) - k
  /\ \A j \in 1..(Len(ls[h]) - k) : ls2[h][j] = ls[h][j + k]
Joined(ls2, ls, h, g, p) ==
  /\ OnlyBoth(ls2, ls, h, g)
  /\ Spliced(ls2[g], ls[h], ls[g], p) /\ ls2[h] = <<>>

\* So does one on two lists.
LEMMA SplitApart ==
  ASSUME NEW ls \in Stores, Apart(ls), NEW h \in Heads, NEW g \in Heads \ {h},
         NEW k \in 0..Len(ls[h]), NEW ls2, Split(ls2, ls, h, g, k)
  PROVE  /\ Apart(ls2)
         /\ \A c \in Entries : NotIn(c, ls) => NotIn(c, ls2)
<1> DEFINE Of(f) == IF f = g THEN h ELSE f
           At(f, j) == IF f = h THEN j + k ELSE j
<1>1. /\ Len(ls[h]) \in Nat
      /\ Len(ls2[g]) = k /\ \A j \in 1..k : ls2[g][j] = ls[h][j]
      /\ Len(ls2[h]) = Len(ls[h]) - k
      /\ \A j \in 1..(Len(ls[h]) - k) : ls2[h][j] = ls[h][j + k]
      /\ \A f \in Heads \ {g, h} : ls2[f] = ls[f]
  BY DEF Split, OnlyBoth, Stores
<1>2. ASSUME NEW f \in Heads, NEW j \in 1..Len(ls2[f])
      PROVE  /\ Of(f) \in Heads /\ At(f, j) \in 1..Len(ls[Of(f)])
             /\ ls2[f][j] = ls[Of(f)][At(f, j)]
  <2>1. CASE f = g
    BY <1>1, <2>1
  <2>2. CASE f = h
    BY <1>1, <2>2
  <2>3. CASE f \notin {g, h}
    BY <1>1, <2>3
  <2> QED
    BY <2>1, <2>2, <2>3
<1>3. ASSUME NEW f \in Heads, NEW d \in Heads, NEW j \in 1..Len(ls2[f]),
             NEW i \in 1..Len(ls2[d]), ls2[f][j] = ls2[d][i]
      PROVE  f = d /\ j = i
  <2>1. Of(f) = Of(d) /\ At(f, j) = At(d, i)
    <3> DEFINE a == Of(f)
               b == Of(d)
               x == At(f, j)
               y == At(d, i)
    <3>1. /\ a \in Heads /\ x \in 1..Len(ls[a]) /\ b \in Heads /\ y \in 1..Len(ls[b])
          /\ ls[a][x] = ls[b][y]
      BY <1>2, <1>3
    <3> HIDE DEF a, b, x, y
    <3>2. a = b /\ x = y
      BY <3>1 DEF Apart
    <3> QED
      BY <3>2 DEF a, b, x, y
  <2>2. CASE {f, d} = {g, h}
    BY <1>1, <2>1, <2>2
  <2>3. CASE {f, d} # {g, h}
    <3>1. f = d
      BY <2>1, <2>3
    <3> QED
      BY <1>1, <2>1, <3>1
  <2> QED
    BY <2>2, <2>3
<1>4. ASSUME NEW c \in Entries, NotIn(c, ls), NEW f \in Heads, NEW j \in 1..Len(ls2[f])
      PROVE  ls2[f][j] # c
  BY <1>2, <1>4 DEF NotIn
<1> QED
  BY <1>3, <1>4 DEF NotIn, Apart

\* The entries of one list go into another.
LEMMA JoinApart ==
  ASSUME NEW ls \in Stores, Apart(ls), NEW h \in Heads, NEW g \in Heads \ {h},
         NEW p \in 0..Len(ls[g]), NEW ls2, Joined(ls2, ls, h, g, p)
  PROVE  /\ Apart(ls2)
         /\ \A c \in Entries : NotIn(c, ls) => NotIn(c, ls2)
<1> DEFINE last == Len(ls[h])
           Of(f, j) == IF f = g /\ j > p /\ j <= p + last THEN h ELSE f
           At(f, j) == IF f # g \/ j <= p THEN j
                       ELSE IF j <= p + last THEN j - p ELSE j - last
<1>1. /\ last \in Nat /\ Len(ls[g]) \in Nat /\ p \in Nat
      /\ Len(ls2[g]) = Len(ls[g]) + last
      /\ \A j \in 1..Len(ls2[g]) :
           ls2[g][j] = IF j <= p THEN ls[g][j]
                       ELSE IF j <= p + last THEN ls[h][j - p] ELSE ls[g][j - last]
      /\ ls2[h] = <<>>
      /\ \A f \in Heads \ {g, h} : ls2[f] = ls[f]
      /\ \A f \in Heads : Len(ls[f]) \in Nat
  BY DEF Joined, Spliced, OnlyBoth, Stores
<1>2. ASSUME NEW f \in Heads, NEW j \in 1..Len(ls2[f])
      PROVE  /\ f # h /\ Of(f, j) \in Heads /\ At(f, j) \in 1..Len(ls[Of(f, j)])
             /\ ls2[f][j] = ls[Of(f, j)][At(f, j)]
  <2> HIDE DEF last
  <2>1. CASE f = g /\ j <= p
    <3>1. Of(f, j) = g /\ At(f, j) = j
      BY <2>1
    <3>2. j \in 1..Len(ls2[g]) /\ j \in 1..Len(ls[g]) /\ g # h
      BY <1>1, <2>1
    <3>3. ls2[g][j] = ls[g][j]
      BY <1>1, <2>1, <3>2
    <3> QED
      BY <2>1, <3>1, <3>2, <3>3
  <2>2. CASE f = g /\ j > p /\ j <= p + last
    <3>1. Of(f, j) = h /\ At(f, j) = j - p
      BY <1>1, <2>2
    <3>2. j \in 1..Len(ls2[g]) /\ ~(j <= p) /\ j - p \in 1..last /\ g # h
      BY <1>1, <2>2
    <3>3. ls2[g][j] = ls[h][j - p]
      BY <1>1, <2>2, <3>2
    <3> QED
      BY <2>2, <3>1, <3>2, <3>3 DEF last
  <2>3. CASE f = g /\ ~(j <= p) /\ ~(j <= p + last)
    <3>1. Of(f, j) = g /\ At(f, j) = j - last
      BY <1>1, <2>3
    <3>2. j \in 1..Len(ls2[g]) /\ j - last \in 1..Len(ls[g]) /\ g # h
      <4> DEFINE a == Len(ls[g])
      <4>1. a \in Nat /\ j \in 1..(a + last) /\ j \in 1..Len(ls2[g])
        BY <1>1, <2>3
      <4> HIDE DEF a
      <4>2. j - last \in 1..a
        BY <1>1, <2>3, <4>1
      <4> QED
        BY <4>1, <4>2 DEF a
    <3>3. ls2[g][j] = ls[g][j - last]
      BY <1>1, <2>3, <3>2
    <3> QED
      BY <2>3, <3>1, <3>2, <3>3
  <2>4. CASE f # g
    BY <1>1, <2>4
  <2> QED
    <3>1. j <= p \/ (j > p /\ j <= p + last) \/ (~(j <= p) /\ ~(j <= p + last))
      BY <1>1
    <3> QED
      BY <2>1, <2>2, <2>3, <2>4, <3>1
<1>3. ASSUME NEW f \in Heads, NEW d \in Heads, NEW j \in 1..Len(ls2[f]),
             NEW i \in 1..Len(ls2[d]), ls2[f][j] = ls2[d][i]
      PROVE  f = d /\ j = i
  <2>1. Of(f, j) = Of(d, i) /\ At(f, j) = At(d, i) /\ f # h /\ d # h
    <3> DEFINE a == Of(f, j)
               b == Of(d, i)
               x == At(f, j)
               y == At(d, i)
    <3>1. /\ a \in Heads /\ x \in 1..Len(ls[a]) /\ b \in Heads /\ y \in 1..Len(ls[b])
          /\ ls[a][x] = ls[b][y] /\ f # h /\ d # h
      <4> HIDE DEF Of, At
      <4> QED
        BY <1>2, <1>3
    <3> HIDE DEF a, b, x, y
    <3>2. a = b /\ x = y
      BY <3>1 DEF Apart
    <3> QED
      BY <3>1, <3>2 DEF a, b, x, y
  <2>2. f = d
    BY <2>1
  <2>3. j \in Int /\ i \in Int
    OBVIOUS
  <2> QED
    BY <1>1, <2>1, <2>2, <2>3
<1>4. ASSUME NEW c \in Entries, NotIn(c, ls), NEW f \in Heads, NEW j \in 1..Len(ls2[f])
      PROVE  ls2[f][j] # c
  BY <1>2, <1>4 DEF NotIn
<1> QED
  BY <1>3, <1>4 DEF NotIn, Apart

-----------------------------------------------------------------------------
(* What they make of the memory with all of the lists in it                *)

\* Stores to cells of the ring of h and to an entry c in no list keep the ring
\* of another head.
LEMMA OtherRing ==
  ASSUME NEW m, NEW n, NEW A, NEW B, Same(m, n, A, B), NEW ls \in Stores, Apart(ls),
         NEW h \in Heads, NEW c,
         \A a \in A \cup B : a = c \/ \E i \in Int : a = Spot(h, ls[h], i),
         c \in Entries => NotIn(c, ls), c \in Heads => c = h,
         NEW g \in Heads \ {h}, Ring(m, g, ls[g])
  PROVE  Ring(n, g, ls[g])
<1>1. ASSUME NEW i \in Int PROVE Spot(g, ls[g], i) \notin A \cup B
  <2>1. \A k \in Int : Spot(g, ls[g], i) # Spot(h, ls[h], k)
    BY RingsApart
  <2>2. Spot(g, ls[g], i) \in Heads \cup Entries
    BY DEF Spot, Stores
  <2>3. c \in Entries => Spot(g, ls[g], i) # c
    BY NotInRing
  <2>4. c \in Heads => Spot(g, ls[g], i) # c
    BY HeadsAssumption DEF Spot, Stores
  <2> QED
    BY <2>1, <2>2, <2>3, <2>4
<1>2. \A i \in 0..(Len(ls[g]) + 1) : Spot(g, ls[g], i) \notin A \cup B
  BY <1>1 DEF Stores
<1> QED
  BY <1>2, RingKept

\* __list_del_entry
LEMMA HoldsUnlink ==
  ASSUME NEW m, NEW ls, NEW v, NEW al, Holds(m, ls, v, al),
         NEW h \in Heads, NEW i \in 1..Len(ls[h]),
         NEW ls2, Only(ls2, ls, h), Removed(ls2[h], ls[h], i)
  PROVE  Holds(Unlink(m, ls[h][i]), ls2, v, al) /\ NotIn(ls[h][i], ls2)
<1> DEFINE P(k) == Spot(h, ls[h], k)
           e == ls[h][i]
           n == Unlink(m, e)
<1>1. /\ m \in Memory /\ ls \in Stores /\ Apart(ls) /\ v \subseteq Heads
      /\ \A g \in Heads \ v : ls[g] = <<>>
      /\ \A g \in v : Ring(m, g, ls[g])
      /\ al \subseteq Entries
      /\ \A c \in al : Linked(m, c, c) /\ NotIn(c, ls)
  BY DEF Holds
<1>2. h \in v
  BY <1>1
<1>3. /\ i - 1 \in 0..Len(ls[h]) /\ i \in 0..Len(ls[h]) /\ (i - 1) + 1 = i
      /\ i - 1 \in 0..(Len(ls[h]) + 1) /\ i + 1 \in 0..(Len(ls[h]) + 1)
      /\ P(i) = e /\ e \in Cells /\ e \in Entries
      /\ \A k \in 0..(Len(ls[h]) + 1) : P(k) \in Cells
  BY <1>1, SpotsDiffer DEF Cells
<1>4. Linked(m, P(i - 1), e) /\ Linked(m, e, P(i + 1))
  BY <1>1, <1>2, <1>3 DEF Ring
<1>5. /\ n \in Memory /\ Linked(n, P(i - 1), P(i + 1))
      /\ Same(m, n, {P(i - 1)}, {P(i + 1)})
  <2>1. P(i - 1) \in Cells /\ P(i + 1) \in Cells
        /\ m.prev[e] = P(i - 1) /\ m.next[e] = P(i + 1)
    BY <1>3, <1>4 DEF Linked
  <2> QED
    BY <1>1, <1>3, <2>1, UnlinkDoes
<1> HIDE DEF n
<1>6. Ring(n, h, ls2[h])
  <2>1. ls2[h] \in Seq(Entries)
    BY DEF Only, Stores
  <2> QED
    BY <1>1, <1>2, <1>5, <2>1, RingRemove
<1>7. Apart(ls2) /\ NotIn(e, ls2) /\ \A c \in Entries : NotIn(c, ls) => NotIn(c, ls2)
  BY <1>1, RemoveApart
<1>8. \A a \in {P(i - 1)} \cup {P(i + 1)} : a = e \/ \E k \in Int : a = P(k)
  OBVIOUS
<1>9. ASSUME NEW g \in v PROVE Ring(n, g, ls2[g])
  <2>1. CASE g = h
    BY <1>6, <2>1
  <2>2. CASE g # h
    <3>1. \A a \in {P(i - 1)} \cup {P(i + 1)} : a = h \/ \E k \in Int : a = P(k)
      OBVIOUS
    <3>2. g \in Heads \ {h} /\ Ring(m, g, ls[g]) /\ h \notin Entries
      BY <1>1, <2>2, HeadsAssumption
    <3>3. Ring(n, g, ls[g])
      BY <1>1, <1>5, <3>1, <3>2, OtherRing
    <3> QED
      BY <3>2, <3>3 DEF Only
  <2> QED
    BY <2>1, <2>2
<1>10. ASSUME NEW c \in al PROVE Linked(n, c, c) /\ NotIn(c, ls2)
  <2>1. c \in Entries /\ NotIn(c, ls) /\ Linked(m, c, c) /\ c # e
    BY <1>1 DEF NotIn
  <2>2. \A k \in Int : P(k) # c
    BY <1>1, <2>1, NotInRing
  <2>3. c \in Cells /\ c \notin {P(i - 1)} \cup {P(i + 1)}
    BY <1>8, <2>1, <2>2 DEF Cells
  <2>4. Linked(n, c, c)
    BY <1>5, <2>1, <2>3, AloneKept
  <2> QED
    BY <1>7, <2>1, <2>4
<1>11. \A g \in Heads \ v : ls2[g] = <<>>
  BY <1>1, <1>2 DEF Only
<1> QED
  BY <1>1, <1>5, <1>7, <1>9, <1>10, <1>11 DEF Holds, Only, n

\* __list_add of an entry in no list, after the cell at p
LEMMA HoldsInsert ==
  ASSUME NEW m, NEW ls, NEW v, NEW al, Holds(m, ls, v, al),
         NEW h \in v, NEW p \in 0..Len(ls[h]), NEW e \in Entries, NotIn(e, ls),
         NEW ls2, Only(ls2, ls, h), Inserted(ls2[h], ls[h], p, e)
  PROVE  Holds(Insert(m, e, Spot(h, ls[h], p), Spot(h, ls[h], p + 1)),
               ls2, v, al \ {e})
<1> DEFINE P(k) == Spot(h, ls[h], k)
           n == Insert(m, e, P(p), P(p + 1))
<1>1. /\ m \in Memory /\ ls \in Stores /\ Apart(ls) /\ v \subseteq Heads
      /\ \A g \in Heads \ v : ls[g] = <<>>
      /\ \A g \in v : Ring(m, g, ls[g])
      /\ al \subseteq Entries
      /\ \A c \in al : Linked(m, c, c) /\ NotIn(c, ls)
  BY DEF Holds
<1>2. h \in Heads /\ e \in Cells
  BY <1>1 DEF Cells
<1>3. P(p) \in Cells /\ P(p + 1) \in Cells /\ e # P(p) /\ e # P(p + 1)
  <2>1. /\ p \in 0..(Len(ls[h]) + 1) /\ p + 1 \in 0..(Len(ls[h]) + 1)
        /\ \A k \in 0..(Len(ls[h]) + 1) : P(k) \in Cells
    BY <1>1, <1>2, SpotsDiffer
  <2>2. \A k \in Int : P(k) # e
    BY <1>1, <1>2, NotInRing
  <2> QED
    BY <2>1, <2>2
<1>5. /\ n \in Memory /\ Linked(n, P(p), e) /\ Linked(n, e, P(p + 1))
      /\ Same(m, n, {P(p), e}, {P(p + 1), e})
  BY <1>1, <1>2, <1>3, InsertDoes
<1> HIDE DEF n
<1>6. Ring(n, h, ls2[h])
  <2>1. ls2[h] \in Seq(Entries)
    BY <1>2 DEF Only, Stores
  <2> QED
    BY <1>1, <1>2, <1>5, <2>1, RingInsert
<1>7. Apart(ls2) /\ \A c \in Entries \ {e} : NotIn(c, ls) => NotIn(c, ls2)
  BY <1>1, <1>2, InsertApart
<1>8. \A a \in {P(p), e} \cup {P(p + 1), e} : a = e \/ \E k \in Int : a = P(k)
  OBVIOUS
<1>9. ASSUME NEW g \in v PROVE Ring(n, g, ls2[g])
  <2>1. CASE g = h
    BY <1>6, <2>1
  <2>2. CASE g # h
    <3>1. g \in Heads \ {h} /\ Ring(m, g, ls[g]) /\ e \notin Heads
      BY <1>1, <2>2, HeadsAssumption
    <3>2. Ring(n, g, ls[g])
      BY <1>1, <1>2, <1>5, <1>8, <3>1, OtherRing
    <3> QED
      BY <3>1, <3>2 DEF Only
  <2> QED
    BY <2>1, <2>2
<1>10. ASSUME NEW c \in al \ {e} PROVE Linked(n, c, c) /\ NotIn(c, ls2)
  <2>1. c \in Entries /\ NotIn(c, ls) /\ Linked(m, c, c) /\ c # e
    BY <1>1
  <2>2. \A k \in Int : P(k) # c
    BY <1>1, <1>2, <2>1, NotInRing
  <2>3. c \in Cells /\ c \notin {P(p), e} \cup {P(p + 1), e}
    BY <1>8, <2>1, <2>2 DEF Cells
  <2>4. Linked(n, c, c)
    BY <1>5, <2>1, <2>3, AloneKept
  <2> QED
    BY <1>7, <2>1, <2>4
<1>11. \A g \in Heads \ v : ls2[g] = <<>>
  BY <1>1 DEF Only
<1> QED
  BY <1>1, <1>5, <1>7, <1>9, <1>10, <1>11 DEF Holds, Only, n

\* list_replace of the entry at i by one in no list
LEMMA HoldsReplace ==
  ASSUME NEW m, NEW ls, NEW v, NEW al, Holds(m, ls, v, al),
         NEW h \in Heads, NEW i \in 1..Len(ls[h]), NEW e \in Entries, NotIn(e, ls),
         NEW ls2, Only(ls2, ls, h), Replaced(ls2[h], ls[h], i, e)
  PROVE  /\ Holds(ListReplace(m, ls[h][i], e), ls2, v, al \ {e})
         /\ NotIn(ls[h][i], ls2)
<1> DEFINE P(k) == Spot(h, ls[h], k)
           old == ls[h][i]
           n == ListReplace(m, old, e)
<1>1. /\ m \in Memory /\ ls \in Stores /\ Apart(ls) /\ v \subseteq Heads
      /\ \A g \in Heads \ v : ls[g] = <<>>
      /\ \A g \in v : Ring(m, g, ls[g])
      /\ al \subseteq Entries
      /\ \A c \in al : Linked(m, c, c) /\ NotIn(c, ls)
  BY DEF Holds
<1>2. h \in v
  BY <1>1
<1>3. /\ i - 1 \in 0..Len(ls[h]) /\ i \in 0..Len(ls[h]) /\ (i - 1) + 1 = i
      /\ i - 1 \in 0..(Len(ls[h]) + 1) /\ i + 1 \in 0..(Len(ls[h]) + 1)
      /\ i \in 1..(Len(ls[h]) + 1) /\ i + 1 \in 1..(Len(ls[h]) + 1) /\ i # i + 1
      /\ P(i) = old /\ old \in Cells /\ e \in Cells
      /\ \A k \in 0..(Len(ls[h]) + 1) : P(k) \in Cells
      /\ \A j, k \in 1..(Len(ls[h]) + 1) : P(j) = P(k) => j = k
  <2>1. /\ Len(ls[h]) \in Nat /\ P(i) = old /\ old \in Entries
        /\ \A k \in 0..(Len(ls[h]) + 1) : P(k) \in Cells
        /\ \A j, k \in 1..(Len(ls[h]) + 1) : P(j) = P(k) => j = k
    BY <1>1, SpotsDiffer
  <2> HIDE DEF P, old
  <2> QED
    BY <2>1 DEF Cells
<1>4. Linked(m, P(i - 1), old) /\ Linked(m, old, P(i + 1))
  BY <1>1, <1>2, <1>3 DEF Ring
<1>5. /\ n \in Memory /\ Linked(n, P(i - 1), e) /\ Linked(n, e, P(i + 1))
      /\ Same(m, n, {P(i - 1), e}, {P(i + 1), e})
  <2>1. P(i - 1) \in Cells /\ P(i + 1) \in Cells
        /\ m.prev[old] = P(i - 1) /\ m.next[old] = P(i + 1) /\ old # P(i + 1)
    BY <1>3, <1>4 DEF Linked
  <2>2. \A k \in Int : P(k) # e
    BY <1>1, NotInRing
  <2>3. e \notin {old, P(i - 1), P(i + 1)}
    BY <1>3, <2>2
  <2> HIDE DEF P, old
  <2> QED
    BY <1>1, <1>3, <2>1, <2>3, ReplaceDoes
<1> HIDE DEF n
<1>6. Ring(n, h, ls2[h])
  <2>1. ls2[h] \in Seq(Entries)
    BY DEF Only, Stores
  <2> QED
    BY <1>1, <1>2, <1>5, <2>1, RingReplace
<1>7. /\ Apart(ls2) /\ NotIn(old, ls2)
      /\ \A c \in Entries \ {e} : NotIn(c, ls) => NotIn(c, ls2)
  BY <1>1, ReplaceApart
<1>8. \A a \in {P(i - 1), e} \cup {P(i + 1), e} : a = e \/ \E k \in Int : a = P(k)
  OBVIOUS
<1>9. ASSUME NEW g \in v PROVE Ring(n, g, ls2[g])
  <2>1. CASE g = h
    BY <1>6, <2>1
  <2>2. CASE g # h
    <3>1. g \in Heads \ {h} /\ Ring(m, g, ls[g]) /\ e \notin Heads
      BY <1>1, <2>2, HeadsAssumption
    <3>2. Ring(n, g, ls[g])
      BY <1>1, <1>5, <1>8, <3>1, OtherRing
    <3> QED
      BY <3>1, <3>2 DEF Only
  <2> QED
    BY <2>1, <2>2
<1>10. ASSUME NEW c \in al \ {e} PROVE Linked(n, c, c) /\ NotIn(c, ls2)
  <2>1. c \in Entries /\ NotIn(c, ls) /\ Linked(m, c, c) /\ c # e
    BY <1>1
  <2>2. \A k \in Int : P(k) # c
    BY <1>1, <2>1, NotInRing
  <2>3. c \in Cells /\ c \notin {P(i - 1), e} \cup {P(i + 1), e}
    BY <1>8, <2>1, <2>2 DEF Cells
  <2>4. Linked(n, c, c)
    BY <1>5, <2>1, <2>3, AloneKept
  <2> QED
    BY <1>7, <2>1, <2>4
<1>11. \A g \in Heads \ v : ls2[g] = <<>>
  BY <1>1, <1>2 DEF Only
<1> QED
  BY <1>1, <1>5, <1>7, <1>9, <1>10, <1>11 DEF Holds, Only, n

\* Stores to an entry in no list
LEMMA HoldsStray ==
  ASSUME NEW m, NEW ls, NEW v, NEW al, Holds(m, ls, v, al),
         NEW e \in Entries, NotIn(e, ls), NEW n \in Memory, Same(m, n, {e}, {e})
  PROVE  /\ Holds(n, ls, v, al \ {e})
         /\ Linked(n, e, e) => Holds(n, ls, v, al \cup {e})
<1>1. /\ m \in Memory /\ ls \in Stores /\ Apart(ls) /\ v \subseteq Heads
      /\ \A g \in Heads \ v : ls[g] = <<>>
      /\ \A g \in v : Ring(m, g, ls[g])
      /\ al \subseteq Entries
      /\ \A c \in al : Linked(m, c, c) /\ NotIn(c, ls)
  BY DEF Holds
<1>2. ASSUME NEW g \in v PROVE Ring(n, g, ls[g])
  <2>1. g \in Heads /\ Ring(m, g, ls[g]) /\ Len(ls[g]) \in Nat
    BY <1>1 DEF Stores
  <2>2. \A i \in Int : Spot(g, ls[g], i) # e
    BY <1>1, <2>1, NotInRing
  <2>3. \A i \in 0..(Len(ls[g]) + 1) : Spot(g, ls[g], i) \notin {e} \cup {e}
    BY <2>1, <2>2
  <2> QED
    BY <1>1, <2>1, <2>3, RingKept
<1>3. ASSUME NEW c \in al \ {e} PROVE Linked(n, c, c) /\ NotIn(c, ls)
  <2>1. c \in Cells /\ c \notin {e} \cup {e} /\ Linked(m, c, c) /\ NotIn(c, ls)
    BY <1>1 DEF Cells
  <2> QED
    BY <2>1, AloneKept
<1>4. Holds(n, ls, v, al \ {e})
  BY <1>1, <1>2, <1>3 DEF Holds
<1>5. ASSUME Linked(n, e, e) PROVE Holds(n, ls, v, al \cup {e})
  BY <1>1, <1>2, <1>3, <1>5 DEF Holds
<1> QED
  BY <1>4, <1>5

\* INIT_LIST_HEAD of a head without entries
LEMMA HoldsHead ==
  ASSUME NEW m, NEW ls, NEW v, NEW al, Holds(m, ls, v, al),
         NEW g \in Heads, ls[g] = <<>>
  PROVE  Holds(InitList(m, g), ls, v \cup {g}, al)
<1> DEFINE n == InitList(m, g)
<1>1. /\ m \in Memory /\ ls \in Stores /\ Apart(ls) /\ v \subseteq Heads
      /\ \A f \in Heads \ v : ls[f] = <<>>
      /\ \A f \in v : Ring(m, f, ls[f])
      /\ al \subseteq Entries
      /\ \A c \in al : Linked(m, c, c) /\ NotIn(c, ls)
  BY DEF Holds
<1>2. n \in Memory /\ Linked(n, g, g) /\ Same(m, n, {g}, {g})
  BY <1>1, InitDoes DEF Cells
<1> HIDE DEF n
<1>3. Ring(n, g, ls[g])
  BY <1>2 DEF Ring, Spot
<1>4. \A a \in {g} \cup {g} : a = g \/ \E i \in Int : a = Spot(g, ls[g], i)
  OBVIOUS
<1>5. ASSUME NEW f \in v \cup {g} PROVE Ring(n, f, ls[f])
  <2>1. CASE f = g
    BY <1>3, <2>1
  <2>2. CASE f # g
    <3>1. f \in Heads \ {g} /\ Ring(m, f, ls[f]) /\ g \notin Entries
      BY <1>1, <2>2, HeadsAssumption
    <3> QED
      BY <1>1, <1>2, <1>4, <3>1, OtherRing
  <2> QED
    BY <2>1, <2>2
<1>6. ASSUME NEW c \in al PROVE Linked(n, c, c) /\ NotIn(c, ls)
  <2>1. c \in Cells /\ c \notin {g} \cup {g} /\ Linked(m, c, c) /\ NotIn(c, ls)
    BY <1>1, HeadsAssumption DEF Cells
  <2> QED
    BY <1>2, <2>1, AloneKept
<1> QED
  BY <1>1, <1>2, <1>5, <1>6 DEF Holds, n

\* Stores to cells of the rings of h and g
LEMMA HoldsBoth ==
  ASSUME NEW m, NEW ls, NEW v, NEW al, Holds(m, ls, v, al),
         NEW h \in Heads, NEW g \in Heads, NEW ls2, OnlyBoth(ls2, ls, h, g),
         Apart(ls2), \A c \in Entries : NotIn(c, ls) => NotIn(c, ls2),
         NEW n \in Memory, NEW A, NEW B, Same(m, n, A, B),
         \A a \in A \cup B : \E i \in Int : a \in {Spot(h, ls[h], i), Spot(g, ls[g], i)},
         NEW v2, v2 \subseteq v \cup {g, h}, v \subseteq v2 \cup {g, h},
         g \in v2 => Ring(n, g, ls2[g]), h \in v2 => Ring(n, h, ls2[h]),
         g \notin v2 => ls2[g] = <<>>, h \notin v2 => ls2[h] = <<>>
  PROVE  Holds(n, ls2, v2, al)
<1>1. /\ m \in Memory /\ ls \in Stores /\ Apart(ls) /\ v \subseteq Heads
      /\ \A f \in Heads \ v : ls[f] = <<>>
      /\ \A f \in v : Ring(m, f, ls[f])
      /\ al \subseteq Entries
      /\ \A c \in al : Linked(m, c, c) /\ NotIn(c, ls)
  BY DEF Holds
<1>2. ASSUME NEW f \in v2 \ {g, h} PROVE Ring(n, f, ls2[f])
  <2>1. f \in Heads /\ f # g /\ f # h /\ Ring(m, f, ls[f]) /\ ls2[f] = ls[f]
    BY <1>1 DEF OnlyBoth
  <2>2. \A i, k \in Int : Spot(f, ls[f], i) # Spot(h, ls[h], k)
    BY <1>1, <2>1, RingsApart
  <2>3. \A i, k \in Int : Spot(f, ls[f], i) # Spot(g, ls[g], k)
    BY <1>1, <2>1, RingsApart
  <2>4. \A i \in Int : Spot(f, ls[f], i) \notin A \cup B
    BY <2>2, <2>3
  <2>5. \A i \in 0..(Len(ls[f]) + 1) : Spot(f, ls[f], i) \notin A \cup B
    BY <1>1, <2>1, <2>4 DEF Stores
  <2> QED
    BY <1>1, <2>1, <2>5, RingKept
<1>3. ASSUME NEW c \in al PROVE Linked(n, c, c) /\ NotIn(c, ls2)
  <2>1. c \in Entries /\ c \in Cells /\ Linked(m, c, c) /\ NotIn(c, ls)
    BY <1>1 DEF Cells
  <2>2. \A k \in Int : Spot(h, ls[h], k) # c
    BY <1>1, <2>1, NotInRing
  <2>3. \A k \in Int : Spot(g, ls[g], k) # c
    BY <1>1, <2>1, NotInRing
  <2>4. c \notin A \cup B
    BY <2>2, <2>3
  <2>5. Linked(n, c, c)
    BY <2>1, <2>4, AloneKept
  <2> QED
    BY <2>1, <2>5
<1>4. \A f \in v2 : Ring(n, f, ls2[f])
  BY <1>2
<1>5. \A f \in Heads \ v2 : ls2[f] = <<>>
  BY <1>1 DEF OnlyBoth
<1>6. v2 \subseteq Heads /\ ls2 \in Stores
  BY <1>1 DEF OnlyBoth
<1> QED
  BY <1>1, <1>3, <1>4, <1>5, <1>6 DEF Holds

\* list_replace of a head by one without entries
LEMMA HoldsNewHead ==
  ASSUME NEW m, NEW ls, NEW v, NEW al, Holds(m, ls, v, al),
         NEW h \in v, NEW g \in Heads \ {h}, ls[g] = <<>>,
         NEW ls2, Split(ls2, ls, h, g, Len(ls[h]))
  PROVE  Holds(ListReplace(m, h, g), ls2, (v \ {h}) \cup {g}, al)
<1> DEFINE P(k) == Spot(h, ls[h], k)
           last == Len(ls[h])
           n == ListReplace(m, h, g)
<1>1. /\ m \in Memory /\ ls \in Stores /\ Apart(ls) /\ v \subseteq Heads
      /\ Ring(m, h, ls[h])
  BY DEF Holds
<1>2. /\ h \in Heads /\ last \in Nat /\ last \in 0..last
      /\ h \in Cells /\ g \in Cells /\ P(0) = h /\ P(last + 1) = h
      /\ \A k \in 0..(last + 1) : P(k) \in Cells
      /\ \A i, k \in 0..last : P(i) = P(k) => i = k
  <2>1. h \in Heads /\ h \in Cells /\ g \in Cells
    BY <1>1 DEF Cells
  <2>2. last \in Nat
    BY <1>1, <2>1, SpotsDiffer
  <2>3. \A i, k \in 0..last : P(i) = P(k) => i = k
    BY <1>1, <2>1, SpotsDiffer
  <2>4. P(0) = h /\ P(last + 1) = h /\ \A k \in 0..(last + 1) : P(k) \in Cells
    BY <1>1, <2>1, SpotsDiffer
  <2> QED
    BY <2>1, <2>2, <2>3, <2>4
<1>3. /\ Apart(ls2) /\ \A c \in Entries : NotIn(c, ls) => NotIn(c, ls2)
      /\ OnlyBoth(ls2, ls, h, g)
  BY <1>1, <1>2, SplitApart DEF Split
<1>4. /\ Len(ls2[g]) = last /\ \A j \in 1..last : ls2[g][j] = ls[h][j]
      /\ Len(ls2[h]) = last - last /\ ls2[g] \in Seq(Entries) /\ ls2[h] \in Seq(Entries)
  BY <1>2, <1>3 DEF Split, OnlyBoth, Stores
<1>5. ls2[h] = <<>>
  BY <1>2, <1>4
<1>6. Spot(g, ls[g], 0) = g
  BY DEF Spot
<1>7. CASE last = 0
  <2>1. m.next[h] = h /\ h # g
    BY <1>1, <1>2, <1>7 DEF Ring, Linked
  <2>2. n \in Memory /\ Linked(n, g, g) /\ Same(m, n, {g}, {h, g})
    BY <1>1, <1>2, <2>1, ReplaceEmptyDoes
  <2> HIDE DEF n
  <2>3. Ring(n, g, ls2[g])
    BY <1>4, <1>7, <2>2 DEF Ring, Spot
  <2>4. \A a \in {g} \cup {h, g} : \E i \in Int : a \in {P(i), Spot(g, ls[g], i)}
    BY <1>2, <1>6
  <2> HIDE DEF last, P
  <2>5. Holds(n, ls2, (v \ {h}) \cup {g}, al)
    BY <1>2, <1>3, <1>5, <2>2, <2>3, <2>4, HoldsBoth DEF P
  <2> QED
    BY <2>5 DEF n
<1>8. CASE last # 0
  <2>1. /\ 0 + 1 = 1 /\ 0 \in 0..last /\ 1 \in 0..last /\ last \in 1..last
        /\ 1 \in 0..(last + 1) /\ last \in 0..(last + 1) /\ 0 # 1
    BY <1>2, <1>8
  <2>2. Linked(m, h, P(1)) /\ Linked(m, P(last), h)
    BY <1>1, <1>2, <2>1 DEF Ring
  <2>3. /\ P(1) \in Cells /\ P(last) \in Cells /\ h # P(1)
        /\ m.prev[h] = P(last) /\ m.next[h] = P(1)
    BY <1>2, <2>1, <2>2 DEF Linked
  <2>4. \A k \in Int : Spot(g, ls[g], 0) # P(k)
    BY <1>1, <1>2, RingsApart
  <2>5. g \notin {h, P(last), P(1)}
    BY <1>2, <1>6, <2>4
  <2>6. /\ n \in Memory /\ Linked(n, P(last), g) /\ Linked(n, g, P(1))
        /\ Same(m, n, {P(last), g}, {P(1), g})
    <3> HIDE DEF P, last
    <3> QED
      BY <1>1, <1>2, <2>3, <2>5, ReplaceDoes
  <2> HIDE DEF n
  <2>7. Same(m, n, {g, P(last), h}, {g, P(1), P(last + 1)})
    BY <2>6 DEF Same
  <2>8. Ring(n, g, ls2[g])
    BY <1>1, <1>2, <1>4, <2>1, <2>6, <2>7, RingPrefix
  <2>9. \A a \in {P(last), g} \cup {P(1), g} :
          \E i \in Int : a \in {P(i), Spot(g, ls[g], i)}
    BY <1>2, <1>6, <2>1
  <2>10. Holds(n, ls2, (v \ {h}) \cup {g}, al)
    <3>1. /\ (v \ {h}) \cup {g} \subseteq v \cup {g, h}
          /\ v \subseteq ((v \ {h}) \cup {g}) \cup {g, h}
          /\ h \notin (v \ {h}) \cup {g} /\ g \in (v \ {h}) \cup {g}
      OBVIOUS
    <3> HIDE DEF last
    <3> QED
      BY <1>2, <1>3, <1>5, <2>6, <2>8, <2>9, <3>1, HoldsBoth
  <2> QED
    BY <2>10 DEF n
<1> QED
  BY <1>7, <1>8

\* __list_cut_position after the entry at k
LEMMA HoldsCut ==
  ASSUME NEW m, NEW ls, NEW v, NEW al, Holds(m, ls, v, al),
         NEW h \in v, NEW g \in Heads \ {h}, ls[g] = <<>>,
         NEW k \in 1..Len(ls[h]), NEW ls2, Split(ls2, ls, h, g, k)
  PROVE  Holds(CutAfter(m, g, h, ls[h][k]), ls2, v \cup {g}, al)
<1> DEFINE P(j) == Spot(h, ls[h], j)
           last == Len(ls[h])
           n == CutAfter(m, g, h, ls[h][k])
<1>1. /\ m \in Memory /\ ls \in Stores /\ Apart(ls) /\ v \subseteq Heads
      /\ Ring(m, h, ls[h])
  BY DEF Holds
<1>2. /\ h \in Heads /\ last \in Nat
      /\ h \in Cells /\ g \in Cells /\ P(0) = h /\ P(k) = ls[h][k]
      /\ \A j \in 0..(last + 1) : P(j) \in Cells
      /\ \A i, j \in 0..last : P(i) = P(j) => i = j
      /\ \A i, j \in 1..(last + 1) : P(i) = P(j) => i = j
  <2>1. h \in Heads /\ h \in Cells /\ g \in Cells
    BY <1>1 DEF Cells
  <2>2. last \in Nat /\ P(0) = h /\ P(k) = ls[h][k]
    BY <1>1, <2>1, SpotsDiffer
  <2>3. \A i, j \in 0..last : P(i) = P(j) => i = j
    BY <1>1, <2>1, SpotsDiffer
  <2>4. \A i, j \in 1..(last + 1) : P(i) = P(j) => i = j
    BY <1>1, <2>1, SpotsDiffer
  <2>5. \A j \in 0..(last + 1) : P(j) \in Cells
    BY <1>1, <2>1, SpotsDiffer
  <2> QED
    BY <2>1, <2>2, <2>3, <2>4, <2>5
<1>3. /\ Apart(ls2) /\ \A c \in Entries : NotIn(c, ls) => NotIn(c, ls2)
      /\ OnlyBoth(ls2, ls, h, g)
  BY <1>1, <1>2, SplitApart DEF Split
<1>4. /\ Len(ls2[g]) = k /\ \A j \in 1..k : ls2[g][j] = ls[h][j]
      /\ Len(ls2[h]) = last - k /\ \A j \in 1..Len(ls2[h]) : ls2[h][j] = ls[h][j + k]
      /\ ls2[g] \in Seq(Entries) /\ ls2[h] \in Seq(Entries)
  BY <1>2, <1>3 DEF Split, OnlyBoth, Stores
<1>5. Spot(g, ls[g], 0) = g
  BY DEF Spot
<1>6. \A j \in Int : g # P(j)
  <2>1. \A j \in Int : Spot(g, ls[g], 0) # P(j)
    BY <1>1, <1>2, RingsApart
  <2> QED
    BY <1>5, <2>1
<1>7. /\ 0 + 1 = 1 /\ 0 \in 0..last /\ k \in 0..last /\ k # 0
      /\ 1 \in 0..(last + 1) /\ k \in 0..(last + 1) /\ k + 1 \in 0..(last + 1)
      /\ 1 \in 1..(last + 1) /\ k + 1 \in 1..(last + 1) /\ 1 # k + 1
  BY <1>2
<1>8. Linked(m, h, P(1)) /\ Linked(m, P(k), P(k + 1))
  BY <1>1, <1>2, <1>7 DEF Ring
<1>9. /\ P(1) \in Cells /\ P(k) \in Cells /\ P(k + 1) \in Cells
      /\ m.next[h] = P(1) /\ m.next[P(k)] = P(k + 1)
      /\ h # P(k) /\ P(1) # P(k + 1)
  BY <1>2, <1>7, <1>8 DEF Linked
<1>10. g # h /\ g # P(k) /\ g # P(1) /\ g # P(k + 1)
  BY <1>6, <1>7
<1>11. /\ n \in Memory /\ Linked(n, g, P(1)) /\ Linked(n, P(k), g)
       /\ Linked(n, h, P(k + 1))
       /\ Same(m, n, {g, P(k), h}, {P(1), g, P(k + 1)})
  <2>1. n = CutAfter(m, g, h, P(k))
    BY <1>2
  <2> HIDE DEF n, P
  <2> QED
    BY <1>1, <1>2, <1>8, <1>9, <1>10, <2>1, CutDoes
<1> HIDE DEF n
<1>12. {P(1), g, P(k + 1)} = {g, P(1), P(k + 1)}
  OBVIOUS
<1>13. Ring(n, g, ls2[g])
  BY <1>1, <1>2, <1>4, <1>11, <1>12, RingPrefix
<1>14. Ring(n, h, ls2[h])
  BY <1>1, <1>2, <1>4, <1>11, <1>12, RingSuffix
<1>15. \A a \in {g, P(k), h} \cup {P(1), g, P(k + 1)} :
         \E i \in Int : a \in {P(i), Spot(g, ls[g], i)}
  BY <1>2, <1>5, <1>7
<1>16. Holds(n, ls2, v \cup {g}, al)
  <2>1. /\ v \cup {g} \subseteq v \cup {g, h}
        /\ v \subseteq (v \cup {g}) \cup {g, h}
        /\ h \in v \cup {g} /\ g \in v \cup {g}
    OBVIOUS
  <2> QED
    BY <1>2, <1>3, <1>11, <1>13, <1>14, <1>15, <2>1, HoldsBoth
<1> QED
  BY <1>16 DEF n

\* __list_splice, after the cell at p
LEMMA HoldsSplice ==
  ASSUME NEW m, NEW ls, NEW v, NEW al, Holds(m, ls, v, al),
         NEW h \in v, NEW g \in v \ {h}, Len(ls[h]) # 0,
         NEW p \in 0..Len(ls[g]), NEW ls2, Joined(ls2, ls, h, g, p)
  PROVE  Holds(SpliceBetween(m, h, Spot(g, ls[g], p), Spot(g, ls[g], p + 1)),
               ls2, v \ {h}, al)
<1> DEFINE P(j) == Spot(h, ls[h], j)
           U(j) == Spot(g, ls[g], j)
           last == Len(ls[h])
           n == SpliceBetween(m, h, U(p), U(p + 1))
<1>1. /\ m \in Memory /\ ls \in Stores /\ Apart(ls) /\ v \subseteq Heads
      /\ Ring(m, h, ls[h]) /\ Ring(m, g, ls[g])
  BY DEF Holds
<1>2. /\ h \in Heads /\ g \in Heads \ {h} /\ h \in Cells /\ last \in Nat
      /\ P(0) = h /\ P(last + 1) = h
      /\ \A j \in 0..(last + 1) : P(j) \in Cells
  <2>1. h \in Heads /\ g \in Heads \ {h} /\ h \in Cells
    BY <1>1 DEF Cells
  <2> QED
    BY <1>1, <2>1, SpotsDiffer
<1>3. U(p) \in Cells /\ U(p + 1) \in Cells
  <2>1. Len(ls[g]) \in Nat /\ \A j \in 0..(Len(ls[g]) + 1) : U(j) \in Cells
    BY <1>1, <1>2, SpotsDiffer
  <2>2. p \in 0..(Len(ls[g]) + 1) /\ p + 1 \in 0..(Len(ls[g]) + 1)
    BY <2>1
  <2> QED
    BY <2>1, <2>2
<1>4. /\ Apart(ls2) /\ \A c \in Entries : NotIn(c, ls) => NotIn(c, ls2)
      /\ OnlyBoth(ls2, ls, h, g) /\ Spliced(ls2[g], ls[h], ls[g], p)
      /\ ls2[h] = <<>>
  BY <1>1, <1>2, JoinApart DEF Joined
<1>5. /\ 0 + 1 = 1 /\ 0 \in 0..last /\ last \in 0..last /\ last # 0
      /\ 1 \in 0..(last + 1) /\ last \in 0..(last + 1)
  BY <1>2
<1>6. Linked(m, h, P(1)) /\ Linked(m, P(last), h)
  BY <1>1, <1>2, <1>5 DEF Ring
<1>7. /\ P(1) \in Cells /\ P(last) \in Cells
      /\ m.next[h] = P(1) /\ m.prev[h] = P(last)
  BY <1>2, <1>5, <1>6 DEF Linked
<1>8. U(p) # P(last) /\ U(p + 1) # P(1)
  <2>1. \A i, j \in Int : U(i) # P(j)
    BY <1>1, <1>2, RingsApart
  <2> QED
    BY <1>2, <2>1
<1>9. /\ n \in Memory /\ Linked(n, U(p), P(1)) /\ Linked(n, P(last), U(p + 1))
      /\ Same(m, n, {U(p), P(last)}, {P(1), U(p + 1)})
  <2> HIDE DEF P, U, last
  <2> QED
    BY <1>1, <1>2, <1>3, <1>7, <1>8, SpliceDoes
<1> HIDE DEF n
<1>10. Ring(n, g, ls2[g])
  <2>1. ls2[g] \in Seq(Entries)
    BY <1>2, <1>4 DEF OnlyBoth, Stores
  <2> QED
    BY <1>1, <1>2, <1>4, <1>5, <1>9, <2>1, RingSplice
<1>11. \A a \in {U(p), P(last)} \cup {P(1), U(p + 1)} :
         \E i \in Int : a \in {P(i), U(i)}
  BY <1>2, <1>5
<1>12. Holds(n, ls2, v \ {h}, al)
  <2>1. /\ v \ {h} \subseteq v \cup {g, h}
        /\ v \subseteq (v \ {h}) \cup {g, h}
        /\ h \notin v \ {h} /\ g \in v \ {h}
    OBVIOUS
  <2> QED
    BY <1>2, <1>4, <1>9, <1>10, <1>11, <2>1, HoldsBoth
<1> QED
  BY <1>12 DEF n

-----------------------------------------------------------------------------
(* The sequences that the calls should leave                               *)

\* What the operators on sequences do to a list.
LEMMA Prepended ==
  ASSUME NEW s \in Seq(Entries), NEW e \in Entries
  PROVE  <<e>> \o s \in Seq(Entries) /\ Inserted(<<e>> \o s, s, 0, e)
<1>1. <<e>> \o s \in Seq(Entries) /\ Len(<<e>> \o s) = Len(s) + 1 /\ Len(s) \in Nat
  OBVIOUS
<1>2. \A k \in 1..(Len(s) + 1) : (<<e>> \o s)[k] = IF k = 1 THEN e ELSE s[k - 1]
  OBVIOUS
<1> QED
  BY <1>1, <1>2 DEF Inserted

\* The call adds at the end.
LEMMA Appended ==
  ASSUME NEW s \in Seq(Entries), NEW e \in Entries
  PROVE  Append(s, e) \in Seq(Entries) /\ Inserted(Append(s, e), s, Len(s), e)
BY DEF Inserted

\* The call takes the element at i out.
LEMMA RemovedAt ==
  ASSUME NEW s \in Seq(Entries), NEW i \in 1..Len(s)
  PROVE  RemoveAt(s, i) \in Seq(Entries) /\ Removed(RemoveAt(s, i), s, i)
<1> DEFINE a == SubSeq(s, 1, i - 1)
           b == SubSeq(s, i + 1, Len(s))
<1>1. /\ a \in Seq(Entries) /\ Len(a) = i - 1
      /\ \A k \in 1..(i - 1) : a[k] = s[k]
  OBVIOUS
<1>2. /\ b \in Seq(Entries) /\ Len(b) = Len(s) - i
      /\ \A k \in 1..(Len(s) - i) : b[k] = s[k + i]
  OBVIOUS
<1>3. Len(s) \in Nat
  OBVIOUS
<1> HIDE DEF a, b
<1>4. a \o b \in Seq(Entries) /\ Len(a \o b) = Len(s) - 1
  <2>1. a \o b \in Seq(Entries) /\ Len(a \o b) = Len(a) + Len(b)
    <3>1. a \in Seq(Entries) /\ b \in Seq(Entries)
      BY <1>1, <1>2
    <3> QED
      BY <3>1
  <2>2. (i - 1) + (Len(s) - i) = Len(s) - 1
    BY <1>3
  <2> QED
    BY <1>1, <1>2, <2>1, <2>2
<1>5. ASSUME NEW k \in 1..(Len(s) - 1)
      PROVE  (a \o b)[k] = IF k < i THEN s[k] ELSE s[k + 1]
  <2>1. CASE k < i
    BY <1>1, <1>2, <1>3, <2>1
  <2>2. CASE ~(k < i)
    <3>1. (a \o b)[k] = b[k - (i - 1)]
      BY <1>1, <1>2, <1>3, <2>2
    <3>2. k - (i - 1) \in 1..(Len(s) - i) /\ (k - (i - 1)) + i = k + 1
      BY <1>3, <2>2
    <3> QED
      BY <1>2, <2>2, <3>1, <3>2
  <2> QED
    BY <2>1, <2>2
<1> QED
  BY <1>4, <1>5 DEF Removed, RemoveAt, a, b

\* The call takes the first one out.
LEMMA RemovedHead ==
  ASSUME NEW s \in Seq(Entries), s # <<>>
  PROVE  /\ Tail(s) \in Seq(Entries) /\ Removed(Tail(s), s, 1)
         /\ 1 \in 1..Len(s) /\ Head(s) = s[1]
BY DEF Removed

\* The call puts another element at i.
LEMMA ReplacedAt ==
  ASSUME NEW s \in Seq(Entries), NEW i \in 1..Len(s), NEW e \in Entries
  PROVE  ReplaceAt(s, i, e) \in Seq(Entries) /\ Replaced(ReplaceAt(s, i, e), s, i, e)
BY DEF Replaced, ReplaceAt

\* The call puts all of s before or behind u.
LEMMA SplicedAt ==
  ASSUME NEW s \in Seq(Entries), NEW u \in Seq(Entries)
  PROVE  /\ s \o u \in Seq(Entries) /\ Spliced(s \o u, s, u, 0)
         /\ u \o s \in Seq(Entries) /\ Spliced(u \o s, s, u, Len(u))
BY DEF Spliced

\* Which lists change.
LEMMA OnlyExcept ==
  ASSUME NEW ls \in Stores, NEW h \in Heads, NEW t \in Seq(Entries)
  PROVE  /\ Only([ls EXCEPT ![h] = t], ls, h)
         /\ [ls EXCEPT ![h] = t][h] = t
BY DEF Only, Stores

-----------------------------------------------------------------------------
(* The calls                                                               *)

\* The cells next to a head
LEMMA Ends ==
  ASSUME NEW m, NEW ls, NEW v, NEW al, Holds(m, ls, v, al), NEW h \in v
  PROVE  /\ h \in Heads /\ Len(ls[h]) \in Nat
         /\ m.next[h] = Spot(h, ls[h], 1) /\ m.prev[h] = Spot(h, ls[h], Len(ls[h]))
         /\ Spot(h, ls[h], 0) = h /\ Spot(h, ls[h], Len(ls[h]) + 1) = h
<1>1. h \in Heads /\ ls \in Stores /\ Apart(ls) /\ Ring(m, h, ls[h])
  BY DEF Holds
<1>2. /\ Len(ls[h]) \in Nat
      /\ Spot(h, ls[h], 0) = h /\ Spot(h, ls[h], Len(ls[h]) + 1) = h
  BY <1>1, SpotsDiffer
<1>3. /\ 0 \in 0..Len(ls[h]) /\ Len(ls[h]) \in 0..Len(ls[h]) /\ 0 + 1 = 1
  BY <1>2
<1> QED
  BY <1>1, <1>2, <1>3 DEF Ring, Linked

\* list_add and list_add_tail
LEMMA HoldsAdd ==
  ASSUME NEW m, NEW ls, NEW v, NEW al, Holds(m, ls, v, al),
         NEW h \in v, NEW e \in Entries, NotIn(e, ls), NEW ls2, Only(ls2, ls, h)
  PROVE  /\ Inserted(ls2[h], ls[h], 0, e)
              => Holds(ListAdd(m, e, h), ls2, v, al \ {e})
         /\ Inserted(ls2[h], ls[h], Len(ls[h]), e)
              => Holds(ListAddTail(m, e, h), ls2, v, al \ {e})
<1>1. /\ h \in Heads /\ Len(ls[h]) \in Nat
      /\ m.next[h] = Spot(h, ls[h], 1) /\ m.prev[h] = Spot(h, ls[h], Len(ls[h]))
      /\ Spot(h, ls[h], 0) = h /\ Spot(h, ls[h], Len(ls[h]) + 1) = h
  BY Ends
<1>2. 0 \in 0..Len(ls[h]) /\ Len(ls[h]) \in 0..Len(ls[h]) /\ 0 + 1 = 1
  BY <1>1
<1>3. ASSUME Inserted(ls2[h], ls[h], 0, e)
      PROVE  Holds(ListAdd(m, e, h), ls2, v, al \ {e})
  <2>1. Holds(Insert(m, e, Spot(h, ls[h], 0), Spot(h, ls[h], 0 + 1)), ls2, v, al \ {e})
    BY <1>2, <1>3, HoldsInsert
  <2> QED
    BY <1>1, <1>2, <2>1 DEF ListAdd
<1>4. ASSUME Inserted(ls2[h], ls[h], Len(ls[h]), e)
      PROVE  Holds(ListAddTail(m, e, h), ls2, v, al \ {e})
  <2>1. Holds(Insert(m, e, Spot(h, ls[h], Len(ls[h])), Spot(h, ls[h], Len(ls[h]) + 1)),
              ls2, v, al \ {e})
    BY <1>2, <1>4, HoldsInsert
  <2> QED
    BY <1>1, <2>1 DEF ListAddTail
<1> QED
  BY <1>3, <1>4

\* An entry that is Free is in no list.
LEMMA FreeNotIn ==
  ASSUME lists \in Stores, NEW e \in Free
  PROVE  e \in Entries /\ NotIn(e, lists)
BY DEF Free, Listed, ToSet, NotIn, Stores

\* INIT_LIST_HEAD of a head that a list_splice left as it was
LEMMA InitStep ==
  ASSUME DlistInv, NEW h \in Heads, InitStale(h)
  PROVE  DlistInv'
<1>1. h \notin valid /\ mem' = InitList(mem, h) /\ valid' = valid \cup {h}
      /\ lists' = lists /\ alone' = alone
  BY DEF InitStale
<1>2. Holds(mem, lists, valid, alone) /\ lists[h] = <<>>
  BY <1>1 DEF DlistInv, Holds
<1>3. Holds(InitList(mem, h), lists, valid \cup {h}, alone)
  BY <1>2, HoldsHead
<1> QED
  BY <1>1, <1>3 DEF DlistInv

\* list_add, list_add_tail
LEMMA AddStep ==
  ASSUME DlistInv, NEW h \in Heads, NEW e \in Entries, AddEntry(h, e)
  PROVE  DlistInv'
<1>1. Holds(mem, lists, valid, alone) /\ lists \in Stores /\ lists[h] \in Seq(Entries)
  BY DEF DlistInv, Holds, Stores
<1>2. h \in valid /\ NotIn(e, lists) /\ alone' = alone \ {e} /\ valid' = valid
  BY <1>1, FreeNotIn DEF AddEntry
<1>3. CASE mem' = ListAdd(mem, e, h) /\ In(h, <<e>> \o lists[h])
  <2>1. <<e>> \o lists[h] \in Seq(Entries) /\ Inserted(<<e>> \o lists[h], lists[h], 0, e)
    BY <1>1, Prepended
  <2>2. Only(lists', lists, h) /\ lists'[h] = <<e>> \o lists[h]
    BY <1>1, <1>3, <2>1, OnlyExcept DEF In
  <2>3. Holds(ListAdd(mem, e, h), lists', valid, alone \ {e})
    BY <1>1, <1>2, <2>1, <2>2, HoldsAdd
  <2> QED
    BY <1>2, <1>3, <2>3 DEF DlistInv
<1>4. CASE mem' = ListAddTail(mem, e, h) /\ In(h, Append(lists[h], e))
  <2>1. /\ Append(lists[h], e) \in Seq(Entries)
        /\ Inserted(Append(lists[h], e), lists[h], Len(lists[h]), e)
    BY <1>1, Appended
  <2>2. Only(lists', lists, h) /\ lists'[h] = Append(lists[h], e)
    BY <1>1, <1>4, <2>1, OnlyExcept DEF In
  <2>3. Holds(ListAddTail(mem, e, h), lists', valid, alone \ {e})
    BY <1>1, <1>2, <2>1, <2>2, HoldsAdd
  <2> QED
    BY <1>2, <1>4, <2>3 DEF DlistInv
<1> QED
  BY <1>3, <1>4 DEF AddEntry

\* list_del, list_del_init
LEMMA DelStep ==
  ASSUME DlistInv, NEW h \in Heads, NEW e \in Entries, DelEntry(h, e)
  PROVE  DlistInv'
<1>1. Holds(mem, lists, valid, alone) /\ lists \in Stores /\ lists[h] \in Seq(Entries)
  BY DEF DlistInv, Holds, Stores
<1>2. PICK i \in 1..Len(lists[h]) : lists[h][i] = e /\ In(h, RemoveAt(lists[h], i))
  BY <1>1 DEF DelEntry
<1> DEFINE n == Unlink(mem, e)
<1>3. Holds(n, lists', valid, alone) /\ NotIn(e, lists')
  <2>1. /\ RemoveAt(lists[h], i) \in Seq(Entries)
        /\ Removed(RemoveAt(lists[h], i), lists[h], i)
    BY <1>1, RemovedAt
  <2>2. Only(lists', lists, h) /\ lists'[h] = RemoveAt(lists[h], i)
    BY <1>1, <1>2, <2>1, OnlyExcept DEF In
  <2>3. /\ Holds(Unlink(mem, lists[h][i]), lists', valid, alone)
        /\ NotIn(lists[h][i], lists')
    BY <1>1, <2>1, <2>2, HoldsUnlink
  <2> QED
    BY <1>2, <2>3
<1> HIDE DEF n
<1>4. n \in Memory /\ e \in Cells /\ valid' = valid
  BY <1>3 DEF Holds, Cells, DelEntry
<1>5. CASE mem' = ListDel(mem, e) /\ UNCHANGED alone
  <2>1. mem' = SetPrev(SetNext(n, e, Poison1), e, Poison2)
    BY <1>5 DEF ListDel, n
  <2>2. mem' \in Memory /\ Same(n, mem', {e}, {e})
    BY <1>4, <2>1, PoisonDoes
  <2>3. Holds(mem', lists', valid, alone \ {e})
    BY <1>3, <2>2, HoldsStray
  <2>4. e \notin alone
    BY <1>1, <1>2 DEF Holds, NotIn
  <2>5. alone \ {e} = alone
    BY <2>4
  <2> QED
    BY <1>4, <1>5, <2>3, <2>5 DEF DlistInv
<1>6. CASE mem' = ListDelInit(mem, e) /\ alone' = alone \cup {e}
  <2>1. mem' = InitList(n, e)
    BY <1>6 DEF ListDelInit, n
  <2>2. mem' \in Memory /\ Linked(mem', e, e) /\ Same(n, mem', {e}, {e})
    BY <1>4, <2>1, InitDoes
  <2>3. Holds(mem', lists', valid, alone \cup {e})
    BY <1>3, <2>2, HoldsStray
  <2> QED
    BY <1>4, <1>6, <2>3 DEF DlistInv
<1> QED
  BY <1>5, <1>6 DEF DelEntry

\* list_replace and list_replace_init of an entry
LEMMA ReplaceStep ==
  ASSUME DlistInv, NEW h \in Heads, NEW e \in Entries, NEW new \in Entries,
         ReplaceEntry(h, e, new)
  PROVE  DlistInv'
<1>1. Holds(mem, lists, valid, alone) /\ lists \in Stores /\ lists[h] \in Seq(Entries)
  BY DEF DlistInv, Holds, Stores
<1>2. PICK i \in 1..Len(lists[h]) : lists[h][i] = e /\ In(h, ReplaceAt(lists[h], i, new))
  BY <1>1 DEF ReplaceEntry
<1>3. NotIn(new, lists) /\ valid' = valid
  BY <1>1, FreeNotIn DEF ReplaceEntry
<1> DEFINE n == ListReplace(mem, e, new)
           kept == alone \ {new}
<1>4. Holds(n, lists', valid, kept) /\ NotIn(e, lists')
  <2>1. /\ ReplaceAt(lists[h], i, new) \in Seq(Entries)
        /\ Replaced(ReplaceAt(lists[h], i, new), lists[h], i, new)
    BY <1>1, ReplacedAt
  <2>2. Only(lists', lists, h) /\ lists'[h] = ReplaceAt(lists[h], i, new)
    BY <1>1, <1>2, <2>1, OnlyExcept DEF In
  <2>3. /\ Holds(ListReplace(mem, lists[h][i], new), lists', valid, alone \ {new})
        /\ NotIn(lists[h][i], lists')
    BY <1>1, <1>3, <2>1, <2>2, HoldsReplace
  <2> QED
    BY <1>2, <2>3
<1> HIDE DEF n, kept
<1>5. CASE mem' = ListReplace(mem, e, new) /\ alone' = alone \ {new}
  BY <1>3, <1>4, <1>5 DEF DlistInv, n, kept
<1>6. CASE mem' = ListReplaceInit(mem, e, new) /\ alone' = (alone \ {new}) \cup {e}
  <2>1. mem' = InitList(n, e) /\ n \in Memory /\ e \in Cells
    BY <1>4, <1>6 DEF ListReplaceInit, n, Holds, Cells
  <2>2. mem' \in Memory /\ Linked(mem', e, e) /\ Same(n, mem', {e}, {e})
    BY <2>1, InitDoes
  <2>3. Holds(mem', lists', valid, kept \cup {e})
    BY <1>4, <2>2, HoldsStray
  <2> QED
    BY <1>3, <1>6, <2>3 DEF DlistInv, kept
<1> QED
  BY <1>5, <1>6 DEF ReplaceEntry

\* list_replace and list_replace_init of a head
LEMMA NewHeadStep ==
  ASSUME DlistInv, NEW h \in Heads, NEW g \in Heads, ReplaceHead(h, g)
  PROVE  DlistInv'
<1>1. Holds(mem, lists, valid, alone) /\ lists \in Stores /\ lists[h] \in Seq(Entries)
  BY DEF DlistInv, Holds, Stores
<1>2. /\ h \in valid /\ g \in Heads \ {h} /\ lists[g] = <<>> /\ alone' = alone
      /\ lists' = [lists EXCEPT ![g] = lists[h], ![h] = <<>>]
  BY DEF ReplaceHead, InBoth
<1> DEFINE n == ListReplace(mem, h, g)
           v == (valid \ {h}) \cup {g}
<1>3. OnlyBoth(lists', lists, h, g) /\ lists'[g] = lists[h] /\ lists'[h] = <<>>
  <2>1. <<>> \in Seq(Entries)
    OBVIOUS
  <2> QED
    BY <1>1, <1>2, <2>1 DEF OnlyBoth, Stores
<1>4. Split(lists', lists, h, g, Len(lists[h]))
  <2>1. Len(lists[h]) \in Nat /\ Len(lists'[h]) = 0
    BY <1>1, <1>3
  <2> QED
    BY <1>3, <2>1 DEF Split
<1>5. Holds(n, lists', v, alone)
  BY <1>1, <1>2, <1>4, HoldsNewHead
<1> HIDE DEF n, v
<1>6. CASE mem' = ListReplace(mem, h, g) /\ valid' = (valid \ {h}) \cup {g}
  BY <1>2, <1>5, <1>6 DEF DlistInv, n, v
<1>7. CASE mem' = ListReplaceInit(mem, h, g) /\ valid' = valid \cup {g}
  <2>1. Holds(InitList(n, h), lists', v \cup {h}, alone)
    BY <1>3, <1>5, HoldsHead
  <2>2. v \cup {h} = valid \cup {g}
    BY <1>2 DEF v
  <2> QED
    BY <1>2, <1>7, <2>1, <2>2 DEF DlistInv, ListReplaceInit, n
<1> QED
  BY <1>6, <1>7 DEF ReplaceHead

\* list_move, list_move_tail
LEMMA MoveStep ==
  ASSUME DlistInv, NEW h \in Heads, NEW g \in Heads, NEW e \in Entries,
         MoveEntry(h, g, e)
  PROVE  DlistInv'
<1>1. Holds(mem, lists, valid, alone) /\ lists \in Stores /\ lists[h] \in Seq(Entries)
  BY DEF DlistInv, Holds, Stores
<1> DEFINE without(i) == [lists EXCEPT ![h] = RemoveAt(lists[h], i)]
<1>2. PICK i \in 1..Len(lists[h]) :
        /\ lists[h][i] = e
        /\ \/ /\ mem' = ListMove(mem, e, g)
              /\ lists' = [without(i) EXCEPT ![g] = <<e>> \o without(i)[g]]
           \/ /\ mem' = ListMoveTail(mem, e, g)
              /\ lists' = [without(i) EXCEPT ![g] = Append(without(i)[g], e)]
  BY <1>1 DEF MoveEntry
<1>3. g \in valid /\ valid' = valid /\ alone' = alone
  BY DEF MoveEntry
<1> DEFINE n == Unlink(mem, e)
           ls == without(i)
<1>4. Holds(n, ls, valid, alone) /\ NotIn(e, ls)
  <2>1. /\ RemoveAt(lists[h], i) \in Seq(Entries)
        /\ Removed(RemoveAt(lists[h], i), lists[h], i)
    BY <1>1, RemovedAt
  <2>2. Only(ls, lists, h) /\ ls[h] = RemoveAt(lists[h], i)
    BY <1>1, <2>1, OnlyExcept
  <2> HIDE DEF ls
  <2>3. /\ Holds(Unlink(mem, lists[h][i]), ls, valid, alone)
        /\ NotIn(lists[h][i], ls)
    BY <1>1, <2>1, <2>2, HoldsUnlink
  <2> QED
    BY <1>2, <2>3
<1>5. alone \ {e} = alone
  BY <1>1, <1>2 DEF Holds, NotIn
<1>6. CASE /\ mem' = ListMove(mem, e, g)
           /\ lists' = [ls EXCEPT ![g] = <<e>> \o ls[g]]
  <2> HIDE DEF n, ls
  <2>1. ls \in Stores /\ ls[g] \in Seq(Entries)
    BY <1>4 DEF Holds, Stores
  <2>2. <<e>> \o ls[g] \in Seq(Entries) /\ Inserted(<<e>> \o ls[g], ls[g], 0, e)
    BY <2>1, Prepended
  <2>3. Only(lists', ls, g) /\ lists'[g] = <<e>> \o ls[g]
    BY <1>6, <2>1, <2>2, OnlyExcept
  <2>4. Holds(ListAdd(n, e, g), lists', valid, alone \ {e})
    BY <1>3, <1>4, <2>2, <2>3, HoldsAdd
  <2> QED
    BY <1>3, <1>5, <1>6, <2>4 DEF DlistInv, ListMove, n
<1>7. CASE /\ mem' = ListMoveTail(mem, e, g)
           /\ lists' = [ls EXCEPT ![g] = Append(ls[g], e)]
  <2> HIDE DEF n, ls
  <2>1. ls \in Stores /\ ls[g] \in Seq(Entries)
    BY <1>4 DEF Holds, Stores
  <2>2. Append(ls[g], e) \in Seq(Entries) /\ Inserted(Append(ls[g], e), ls[g], Len(ls[g]), e)
    BY <2>1, Appended
  <2>3. Only(lists', ls, g) /\ lists'[g] = Append(ls[g], e)
    BY <1>7, <2>1, <2>2, OnlyExcept
  <2>4. Holds(ListAddTail(n, e, g), lists', valid, alone \ {e})
    BY <1>3, <1>4, <2>2, <2>3, HoldsAdd
  <2> QED
    BY <1>3, <1>5, <1>7, <2>4 DEF DlistInv, ListMoveTail, n
<1> QED
  BY <1>2, <1>6, <1>7

\* list_rotate_left
LEMMA RotateStep ==
  ASSUME DlistInv, NEW h \in Heads, Rotate(h)
  PROVE  DlistInv'
<1>1. Holds(mem, lists, valid, alone) /\ lists \in Stores /\ lists[h] \in Seq(Entries)
  BY DEF DlistInv, Holds, Stores
<1>2. h \in valid /\ valid' = valid /\ alone' = alone /\ mem' = RotateLeft(mem, h)
  BY DEF Rotate
<1>3. /\ Len(lists[h]) \in Nat /\ mem.next[h] = Spot(h, lists[h], 1)
      /\ \A k \in 1..Len(lists[h]) : lists[h][k] \in Entries
  BY <1>1, <1>2, Ends
<1>4. CASE lists[h] = <<>>
  <2>1. mem.next[h] = h
    BY <1>3, <1>4 DEF Spot
  <2>2. mem' = mem
    BY <1>2, <2>1 DEF RotateLeft, ListEmpty
  <2>3. lists' = lists
    BY <1>1, <1>4 DEF Rotate, In, Stores
  <2> QED
    BY <1>1, <1>2, <2>2, <2>3 DEF DlistInv
<1>5. CASE lists[h] # <<>>
  <2> DEFINE e == lists[h][1]
             n == Unlink(mem, e)
             ls == [lists EXCEPT ![h] = Tail(lists[h])]
  <2>1. /\ Tail(lists[h]) \in Seq(Entries) /\ Removed(Tail(lists[h]), lists[h], 1)
        /\ 1 \in 1..Len(lists[h]) /\ Head(lists[h]) = e
    BY <1>1, <1>5, RemovedHead
  <2>2. e \in Entries /\ mem.next[h] = e /\ e # h
    BY <1>3, <2>1, HeadsAssumption DEF Spot
  <2>3. mem' = ListAddTail(n, e, h)
    BY <1>2, <2>2 DEF RotateLeft, ListEmpty, ListMoveTail
  <2>4. Only(ls, lists, h) /\ ls[h] = Tail(lists[h])
    <3> DEFINE t == Tail(lists[h])
    <3>1. t \in Seq(Entries) /\ ls = [lists EXCEPT ![h] = t]
      BY <2>1
    <3> HIDE DEF t, ls
    <3>2. Only(ls, lists, h) /\ ls[h] = t
      BY <1>1, <3>1 DEF Only, Stores
    <3> QED
      BY <3>2 DEF t
  <2>5. lists' = [ls EXCEPT ![h] = Append(ls[h], e)]
    BY <1>1, <1>5, <2>1, <2>4 DEF Rotate, In, Stores
  <2> HIDE DEF e, n, ls
  <2>6. Holds(n, ls, valid, alone) /\ NotIn(e, ls)
    <3>1. Holds(Unlink(mem, lists[h][1]), ls, valid, alone) /\ NotIn(lists[h][1], ls)
      BY <1>1, <2>1, <2>4, HoldsUnlink
    <3> QED
      BY <3>1 DEF e, n
  <2>7. ls \in Stores /\ ls[h] \in Seq(Entries)
    BY <2>6 DEF Holds, Stores
  <2>8. Append(ls[h], e) \in Seq(Entries) /\ Inserted(Append(ls[h], e), ls[h], Len(ls[h]), e)
    BY <2>2, <2>7, Appended
  <2>9. Only(lists', ls, h) /\ lists'[h] = Append(ls[h], e)
    BY <2>5, <2>7, <2>8, OnlyExcept
  <2>10. Holds(ListAddTail(n, e, h), lists', valid, alone \ {e})
    <3>1. Inserted(lists'[h], ls[h], Len(ls[h]), e)
      BY <2>8, <2>9
    <3> QED
      BY <1>2, <2>2, <2>6, <2>9, <3>1, HoldsAdd
  <2>11. alone \ {e} = alone
    BY <1>1, <2>1 DEF Holds, NotIn, e
  <2> QED
    BY <1>2, <2>3, <2>10, <2>11 DEF DlistInv
<1> QED
  BY <1>4, <1>5

\* list_cut_position
LEMMA CutStep ==
  ASSUME DlistInv, NEW h \in Heads, NEW g \in Heads, NEW k \in 0..Len(lists[h]),
         Cut(h, g, k)
  PROVE  DlistInv'
<1>1. Holds(mem, lists, valid, alone) /\ lists \in Stores /\ lists[h] \in Seq(Entries)
      /\ Apart(lists)
  BY DEF DlistInv, Holds, Stores
<1> DEFINE s == lists[h]
           entry == IF k = 0 THEN h ELSE s[k]
<1>2. /\ h \in valid /\ g \in Heads \ {h} /\ lists[g] = <<>> /\ alone' = alone
      /\ mem' = CutPosition(mem, g, h, entry)
      /\ lists' = [lists EXCEPT ![g] = SubSeq(s, 1, k), ![h] = SubSeq(s, k+1, Len(s))]
      /\ valid' = IF s = <<>> THEN valid ELSE valid \cup {g}
  BY DEF Cut, InBoth
<1>3. /\ Len(s) \in Nat
      /\ mem.next[h] = Spot(h, s, 1) /\ mem.prev[h] = Spot(h, s, Len(s))
  BY <1>1, <1>2, Ends
<1>4. /\ \A j \in 1..Len(s) : s[j] \in Entries /\ s[j] # h
      /\ \A i, j \in 1..Len(s) : s[i] = s[j] => i = j
  BY <1>1, HeadsAssumption DEF Apart
<1>5. /\ SubSeq(s, 1, k) \in Seq(Entries) /\ Len(SubSeq(s, 1, k)) = k
      /\ \A j \in 1..k : SubSeq(s, 1, k)[j] = s[j]
      /\ SubSeq(s, k+1, Len(s)) \in Seq(Entries)
      /\ Len(SubSeq(s, k+1, Len(s))) = Len(s) - k
      /\ \A j \in 1..(Len(s) - k) : SubSeq(s, k+1, Len(s))[j] = s[j + k]
  <2>1. s \in Seq(Entries) /\ k \in 0..Len(s)
    BY <1>1
  <2> HIDE DEF s
  <2> QED
    BY <2>1
<1>6. Split(lists', lists, h, g, k)
  <2>1. /\ OnlyBoth(lists', lists, h, g) /\ lists'[g] = SubSeq(s, 1, k)
        /\ lists'[h] = SubSeq(s, k+1, Len(s))
    <3> DEFINE a == SubSeq(s, 1, k)
               b == SubSeq(s, k+1, Len(s))
    <3>1. a \in Seq(Entries) /\ b \in Seq(Entries)
      BY <1>5
    <3>2. lists' = [lists EXCEPT ![g] = a, ![h] = b]
      BY <1>2
    <3> HIDE DEF a, b
    <3>3. OnlyBoth(lists', lists, h, g) /\ lists'[g] = a /\ lists'[h] = b
      BY <1>1, <1>2, <3>1, <3>2 DEF OnlyBoth, Stores
    <3> QED
      BY <3>3 DEF a, b
  <2> QED
    BY <1>5, <2>1 DEF Split
<1>7. CASE s = <<>>
  <2>1. mem' = mem
    BY <1>2, <1>3, <1>7 DEF CutPosition, ListEmpty, Spot
  <2>2. lists' = lists
    <3>1. SubSeq(s, 1, k) = <<>> /\ SubSeq(s, k+1, Len(s)) = <<>>
      BY <1>5, <1>7
    <3> QED
      BY <1>1, <1>2, <1>7, <3>1 DEF Stores
  <2> QED
    BY <1>1, <1>2, <1>7, <2>1, <2>2 DEF DlistInv
<1>8. CASE s # <<>> /\ k = 0
  <2>1. mem.next[h] = s[1] /\ s[1] # h /\ Len(s) # 0
    BY <1>1, <1>3, <1>4, <1>8 DEF Spot
  <2>2. mem' = InitList(mem, g)
    BY <1>2, <1>8, <2>1 DEF CutPosition, ListEmpty
  <2>3. lists' = lists
    <3>1. SubSeq(s, 1, k) = <<>>
      BY <1>5, <1>8
    <3>2. SubSeq(s, k+1, Len(s)) = s
      BY <1>1, <1>5, <1>8
    <3> QED
      BY <1>1, <1>2, <3>1, <3>2 DEF Stores
  <2>4. Holds(InitList(mem, g), lists, valid \cup {g}, alone)
    BY <1>1, <1>2, HoldsHead
  <2> QED
    BY <1>2, <1>8, <2>2, <2>3, <2>4 DEF DlistInv
<1>9. CASE s # <<>> /\ k # 0
  <2>1. /\ k \in 1..Len(s) /\ 1 \in 1..Len(s) /\ Len(s) \in 1..Len(s)
        /\ entry = s[k] /\ entry # h
        /\ mem.next[h] = s[1] /\ mem.prev[h] = s[Len(s)] /\ s[1] # h
    BY <1>1, <1>3, <1>4, <1>9 DEF Spot
  <2>2. ~ListEmpty(mem, h)
    BY <2>1 DEF ListEmpty
  <2>3. ~(IsSingular(mem, h) /\ mem.next[h] # entry /\ h # entry)
    <3> SUFFICES ASSUME IsSingular(mem, h) PROVE mem.next[h] = entry
      OBVIOUS
    <3>1. 1 = Len(s)
      BY <1>4, <2>1 DEF IsSingular
    <3>2. k = 1
      BY <2>1, <3>1
    <3> QED
      BY <2>1, <3>2
  <2>4. mem' = CutAfter(mem, g, h, s[k])
    <3> HIDE DEF entry
    <3>1. CutPosition(mem, g, h, entry) = CutAfter(mem, g, h, entry)
      BY <2>1, <2>2, <2>3 DEF CutPosition
    <3> QED
      BY <1>2, <2>1, <3>1
  <2>5. Holds(CutAfter(mem, g, h, lists[h][k]), lists', valid \cup {g}, alone)
    BY <1>1, <1>2, <1>6, <2>1, HoldsCut
  <2> QED
    BY <1>2, <1>9, <2>4, <2>5 DEF DlistInv
<1> QED
  BY <1>7, <1>8, <1>9

\* list_splice and its variants
LEMMA SpliceStep ==
  ASSUME DlistInv, NEW h \in Heads, NEW g \in Heads, Splice(h, g)
  PROVE  DlistInv'
<1>1. /\ Holds(mem, lists, valid, alone) /\ lists \in Stores
      /\ lists[h] \in Seq(Entries) /\ lists[g] \in Seq(Entries)
  BY DEF DlistInv, Holds, Stores
<1> DEFINE front == lists' = [lists EXCEPT ![g] = lists[h] \o lists[g], ![h] = <<>>]
           back == lists' = [lists EXCEPT ![g] = lists[g] \o lists[h], ![h] = <<>>]
<1>2. /\ h \in valid /\ g \in valid \ {h} /\ g \in Heads \ {h} /\ alone' = alone
      /\ \/ /\ \/ mem' = ListSplice(mem, h, g) /\ front
               \/ mem' = ListSpliceTail(mem, h, g) /\ back
            /\ valid' = IF lists[h] = <<>> THEN valid ELSE valid \ {h}
         \/ /\ \/ mem' = ListSpliceInit(mem, h, g) /\ front
               \/ mem' = ListSpliceTailInit(mem, h, g) /\ back
            /\ valid' = valid
  BY DEF Splice, InBoth
<1>3. /\ Len(lists[h]) \in Nat /\ Len(lists[g]) \in Nat
      /\ mem.next[h] = Spot(h, lists[h], 1)
      /\ mem.next[g] = Spot(g, lists[g], 1) /\ mem.prev[g] = Spot(g, lists[g], Len(lists[g]))
      /\ Spot(g, lists[g], 0) = g /\ Spot(g, lists[g], Len(lists[g]) + 1) = g
  BY <1>1, <1>2, Ends
<1>4. CASE lists[h] = <<>>
  <2>1. ListEmpty(mem, h)
    BY <1>3, <1>4 DEF ListEmpty, Spot
  <2>2. mem' = mem /\ valid' = valid
    BY <1>2, <1>4, <2>1 DEF ListSplice, ListSpliceTail, ListSpliceInit, ListSpliceTailInit
  <2>3. lists' = lists
    <3>1. lists[h] \o lists[g] = lists[g] /\ lists[g] \o lists[h] = lists[g]
      BY <1>1, <1>4
    <3> QED
      BY <1>1, <1>2, <1>4, <3>1 DEF Stores
  <2> QED
    BY <1>1, <1>2, <2>2, <2>3 DEF DlistInv
<1>5. CASE lists[h] # <<>>
  <2>1. Len(lists[h]) # 0 /\ ~ListEmpty(mem, h)
    BY <1>1, <1>3, <1>5, HeadsAssumption DEF ListEmpty, Spot
  <2>2. /\ lists[h] \o lists[g] \in Seq(Entries)
        /\ Spliced(lists[h] \o lists[g], lists[h], lists[g], 0)
        /\ lists[g] \o lists[h] \in Seq(Entries)
        /\ Spliced(lists[g] \o lists[h], lists[h], lists[g], Len(lists[g]))
        /\ <<>> \in Seq(Entries)
    BY <1>1, SplicedAt
  <2>3. ASSUME front
        PROVE  /\ Holds(ListSplice(mem, h, g), lists', valid \ {h}, alone)
               /\ lists'[h] = <<>>
    <3>1. Joined(lists', lists, h, g, 0) /\ lists'[h] = <<>>
      <4> DEFINE t == lists[h] \o lists[g]
      <4>1. t \in Seq(Entries) /\ Spliced(t, lists[h], lists[g], 0) /\ <<>> \in Seq(Entries)
            /\ lists' = [lists EXCEPT ![g] = t, ![h] = <<>>]
        BY <2>2, <2>3
      <4> HIDE DEF t
      <4>2. OnlyBoth(lists', lists, h, g) /\ lists'[g] = t /\ lists'[h] = <<>>
        BY <1>1, <1>2, <4>1 DEF OnlyBoth, Stores
      <4> QED
        BY <4>1, <4>2 DEF Joined
    <3>2. 0 \in 0..Len(lists[g]) /\ 0 + 1 = 1
      BY <1>3
    <3>3. Holds(SpliceBetween(mem, h, Spot(g, lists[g], 0), Spot(g, lists[g], 0 + 1)),
                lists', valid \ {h}, alone)
      BY <1>1, <1>2, <2>1, <3>1, <3>2, HoldsSplice
    <3> QED
      BY <1>3, <2>1, <3>1, <3>2, <3>3 DEF ListSplice
  <2>4. ASSUME back
        PROVE  /\ Holds(ListSpliceTail(mem, h, g), lists', valid \ {h}, alone)
               /\ lists'[h] = <<>>
    <3>1. Joined(lists', lists, h, g, Len(lists[g])) /\ lists'[h] = <<>>
      <4> DEFINE t == lists[g] \o lists[h]
      <4>1. /\ t \in Seq(Entries) /\ Spliced(t, lists[h], lists[g], Len(lists[g]))
            /\ <<>> \in Seq(Entries) /\ lists' = [lists EXCEPT ![g] = t, ![h] = <<>>]
        BY <2>2, <2>4
      <4> HIDE DEF t
      <4>2. OnlyBoth(lists', lists, h, g) /\ lists'[g] = t /\ lists'[h] = <<>>
        BY <1>1, <1>2, <4>1 DEF OnlyBoth, Stores
      <4> QED
        BY <4>1, <4>2 DEF Joined
    <3>2. Len(lists[g]) \in 0..Len(lists[g])
      BY <1>3
    <3>3. Holds(SpliceBetween(mem, h, Spot(g, lists[g], Len(lists[g])),
                              Spot(g, lists[g], Len(lists[g]) + 1)),
                lists', valid \ {h}, alone)
      BY <1>1, <1>2, <2>1, <3>1, <3>2, HoldsSplice
    <3> QED
      BY <1>3, <2>1, <3>1, <3>3 DEF ListSpliceTail
  <2> HIDE DEF front, back
  <2>5. (valid \ {h}) \cup {h} = valid
    BY <1>2
  <2>6. CASE mem' = ListSplice(mem, h, g) /\ front /\ valid' = valid \ {h}
    BY <1>2, <2>3, <2>6 DEF DlistInv
  <2>7. CASE mem' = ListSpliceTail(mem, h, g) /\ back /\ valid' = valid \ {h}
    BY <1>2, <2>4, <2>7 DEF DlistInv
  <2>8. CASE mem' = ListSpliceInit(mem, h, g) /\ front /\ valid' = valid
    <3>1. Holds(InitList(ListSplice(mem, h, g), h), lists', (valid \ {h}) \cup {h}, alone)
      BY <2>3, <2>8, HoldsHead
    <3> QED
      BY <1>2, <2>1, <2>5, <2>8, <3>1 DEF DlistInv, ListSpliceInit
  <2>9. CASE mem' = ListSpliceTailInit(mem, h, g) /\ back /\ valid' = valid
    <3>1. Holds(InitList(ListSpliceTail(mem, h, g), h), lists', (valid \ {h}) \cup {h}, alone)
      BY <2>4, <2>9, HoldsHead
    <3> QED
      BY <1>2, <2>1, <2>5, <2>9, <3>1 DEF DlistInv, ListSpliceTailInit
  <2> QED
    BY <1>2, <1>5, <2>6, <2>7, <2>8, <2>9
<1> QED
  BY <1>4, <1>5

-----------------------------------------------------------------------------
(* The theorem                                                             *)

\* What the invariant says of the tests.
LEMMA InvariantTests == DlistInv => ListsAreSequences
<1> SUFFICES ASSUME DlistInv PROVE ListsAreSequences
  OBVIOUS
<1>1. /\ Holds(mem, lists, valid, alone) /\ lists \in Stores /\ Apart(lists)
      /\ \A h \in valid : Ring(mem, h, lists[h])
  BY DEF DlistInv, Holds
<1>2. ASSUME NEW e \in alone PROVE ListEmptyCareful(mem, e)
  BY <1>1 DEF Holds, Linked, ListEmptyCareful
<1>3. ASSUME NEW h \in valid
      PROVE  LET s == lists[h]
                 ring == <<h>> \o s
             IN /\ \A i \in DOMAIN ring :
                     LET after == ring[IF i = Len(ring) THEN 1 ELSE i + 1]
                     IN mem.next[ring[i]] = after /\ mem.prev[after] = ring[i]
                /\ ListEmpty(mem, h) <=> s = <<>>
                /\ ListEmptyCareful(mem, h) <=> s = <<>>
                /\ IsSingular(mem, h) <=> Len(s) = 1
                /\ \A i \in DOMAIN s : IsLast(mem, s[i], h) <=> i = Len(s)
  <2> DEFINE s == lists[h]
             ring == <<h>> \o s
             P(i) == Spot(h, s, i)
  <2>1. /\ h \in Heads /\ Len(s) \in Nat
        /\ mem.next[h] = P(1) /\ mem.prev[h] = P(Len(s))
        /\ P(0) = h /\ P(Len(s) + 1) = h
    BY <1>1, Ends
  <2>2. /\ s \in Seq(Entries) /\ \A i \in 1..Len(s) : P(i) = s[i] /\ s[i] # h
        /\ \A i, j \in 0..Len(s) : P(i) = P(j) => i = j
        /\ \A i \in 0..Len(s) : Linked(mem, P(i), P(i + 1))
    <3>1. s \in Seq(Entries)
      BY <2>1, <1>1 DEF Stores
    <3>2. \A i \in 1..Len(s) : P(i) = s[i] /\ s[i] # h
      BY <1>1, <2>1, SpotsDiffer
    <3>3. \A i, j \in 0..Len(s) : P(i) = P(j) => i = j
      BY <1>1, <2>1, SpotsDiffer
    <3> QED
      BY <1>1, <3>1, <3>2, <3>3 DEF Ring
  <2>3. /\ Len(ring) = Len(s) + 1 /\ DOMAIN ring = 1..(Len(s) + 1)
        /\ DOMAIN s = 1..Len(s)
        /\ \A i \in 1..(Len(s) + 1) : ring[i] = P(i - 1)
    <3>1. /\ Len(ring) = Len(s) + 1 /\ DOMAIN ring = 1..(Len(s) + 1)
          /\ DOMAIN s = 1..Len(s)
          /\ \A i \in 1..(Len(s) + 1) : ring[i] = IF i = 1 THEN h ELSE s[i - 1]
      <4> HIDE DEF s
      <4> QED
        BY <2>1, <2>2
    <3>2. ASSUME NEW i \in 1..(Len(s) + 1)
          PROVE  P(i - 1) = IF i = 1 THEN h ELSE s[i - 1]
      <4>1. i = 1 \/ i - 1 \in 1..Len(s)
        BY <2>1
      <4> QED
        BY <2>1, <2>2, <4>1
    <3> QED
      BY <3>1, <3>2
  <2> HIDE DEF s, ring, P
  <2>4. ASSUME NEW i \in DOMAIN ring
        PROVE  LET after == ring[IF i = Len(ring) THEN 1 ELSE i + 1]
               IN mem.next[ring[i]] = after /\ mem.prev[after] = ring[i]
    <3>1. i \in 1..(Len(s) + 1) /\ i - 1 \in 0..Len(s) /\ (i - 1) + 1 = i
      BY <2>1, <2>3
    <3>2. ring[i] = P(i - 1)
      BY <2>3, <3>1
    <3>3. ring[IF i = Len(ring) THEN 1 ELSE i + 1] = P(i)
      <4>1. CASE i = Len(s) + 1
        BY <2>1, <2>3, <4>1
      <4>2. CASE i # Len(s) + 1
        <5>1. i + 1 \in 1..(Len(s) + 1) /\ (i + 1) - 1 = i
          BY <2>1, <3>1, <4>2
        <5> QED
          BY <2>3, <4>2, <5>1
      <4> QED
        BY <4>1, <4>2
    <3>4. mem.next[P(i - 1)] = P(i) /\ mem.prev[P(i)] = P(i - 1)
      BY <2>2, <3>1 DEF Linked
    <3> QED
      BY <3>2, <3>3, <3>4
  <2>5. s = <<>> <=> P(1) = h
    BY <2>1, <2>2 DEF P, Spot
  <2>6. s = <<>> => P(Len(s)) = h
    BY <2>1, <2>2
  <2>7. ListEmpty(mem, h) <=> s = <<>>
    BY <2>1, <2>5 DEF ListEmpty
  <2>8. ListEmptyCareful(mem, h) <=> s = <<>>
    BY <2>1, <2>5, <2>6 DEF ListEmptyCareful
  <2>9. IsSingular(mem, h) <=> Len(s) = 1
    <3>1. ASSUME s # <<>> PROVE P(1) = P(Len(s)) <=> Len(s) = 1
      <4>1. 1 \in 0..Len(s) /\ Len(s) \in 0..Len(s)
        BY <2>1, <2>2, <3>1
      <4> QED
        BY <2>2, <4>1
    <3>2. s = <<>> => Len(s) # 1
      BY <2>2
    <3> QED
      BY <2>1, <2>7, <3>1, <3>2 DEF IsSingular
  <2>10. ASSUME NEW i \in DOMAIN s PROVE IsLast(mem, s[i], h) <=> i = Len(s)
    <3>1. i \in 1..Len(s) /\ i \in 0..Len(s)
      BY <2>1, <2>3
    <3>2. mem.next[s[i]] = P(i + 1)
      BY <2>2, <3>1 DEF Linked
    <3>3. i # Len(s) => i + 1 \in 1..Len(s)
      BY <2>1, <3>1
    <3>4. P(i + 1) = h <=> i = Len(s)
      BY <2>1, <2>2, <3>3
    <3> QED
      BY <3>2, <3>4 DEF IsLast
  <2> QED
    BY <2>4, <2>7, <2>8, <2>9, <2>10 DEF s, ring
<1> QED
  BY <1>2, <1>3 DEF ListsAreSequences

\* In the beginning every list_head points to itself.
LEMMA InitHolds == DlistInit => DlistInv
<1> SUFFICES ASSUME DlistInit PROVE DlistInv
  OBVIOUS
<1>1. /\ mem \in Memory /\ \A c \in Cells : Linked(mem, c, c)
      /\ lists = [h \in Heads |-> <<>>] /\ valid = Heads /\ alone = Entries
  BY DEF DlistInit, Memory, Linked, Values, Cells
<1>2. lists \in Stores
  BY <1>1 DEF Stores
<1>3. Apart(lists) /\ \A e \in Entries : NotIn(e, lists)
  BY <1>1 DEF Apart, NotIn
<1>4. ASSUME NEW h \in Heads PROVE Ring(mem, h, lists[h])
  <2>1. lists[h] = <<>> /\ Linked(mem, h, h)
    BY <1>1 DEF Cells
  <2> QED
    BY <2>1 DEF Ring, Spot
<1> QED
  BY <1>1, <1>2, <1>3, <1>4 DEF DlistInv, Holds, Cells

\* After any legal calls of inc/dlist.h on any heads and entries, the ring of
\* each head that is initialised is the list that the calls should have left,
\* read in both directions, and the tests answer for it.
THEOREM RingsAreLists ==
  DlistInit /\ [][DlistNext]_dlistVars => []ListsAreSequences
<1>1. DlistInit => DlistInv
  BY InitHolds
<1>2. DlistInv /\ [DlistNext]_dlistVars => DlistInv'
  <2> SUFFICES ASSUME DlistInv, [DlistNext]_dlistVars PROVE DlistInv'
    OBVIOUS
  <2>1. ASSUME NEW h \in Heads, InitStale(h) PROVE DlistInv'
    BY <2>1, InitStep
  <2>2. ASSUME NEW h \in Heads, Rotate(h) PROVE DlistInv'
    BY <2>2, RotateStep
  <2>3. ASSUME NEW h \in Heads, NEW e \in Entries, AddEntry(h, e) PROVE DlistInv'
    BY <2>3, AddStep
  <2>4. ASSUME NEW h \in Heads, NEW e \in Entries, DelEntry(h, e) PROVE DlistInv'
    BY <2>4, DelStep
  <2>5. ASSUME NEW h \in Heads, NEW e \in Entries, NEW new \in Entries,
               ReplaceEntry(h, e, new)
        PROVE  DlistInv'
    BY <2>5, ReplaceStep
  <2>6. ASSUME NEW h \in Heads, NEW e \in Entries, NEW g \in Heads, MoveEntry(h, g, e)
        PROVE  DlistInv'
    BY <2>6, MoveStep
  <2>7. ASSUME NEW h \in Heads, NEW g \in Heads, ReplaceHead(h, g) PROVE DlistInv'
    BY <2>7, NewHeadStep
  <2>8. ASSUME NEW h \in Heads, NEW g \in Heads, Splice(h, g) PROVE DlistInv'
    BY <2>8, SpliceStep
  <2>9. ASSUME NEW h \in Heads, NEW g \in Heads, NEW k \in 0..Len(lists[h]), Cut(h, g, k)
        PROVE  DlistInv'
    BY <2>9, CutStep
  <2>10. CASE UNCHANGED dlistVars
    BY <2>10 DEF dlistVars, DlistInv
  <2> QED
    BY <2>1, <2>2, <2>3, <2>4, <2>5, <2>6, <2>7, <2>8, <2>9, <2>10 DEF DlistNext
<1>3. DlistInv => ListsAreSequences
  BY InvariantTests
<1> QED
  BY <1>1, <1>2, <1>3, PTL

=============================================================================
