-------------------------- MODULE PendingListProofs --------------------------
(***************************************************************************)
(* The pending list for any addresses and any threads: the stores of its   *)
(* operations, in any order, make it the queue that TaskManager assumes.   *)
(*                                                                         *)
(* The invariant is about the list as it will be when the holder of        *)
(* pendlock has done its stores: that is a ring through the queue at every *)
(* moment, and a store does not change it.                                 *)
(***************************************************************************)
EXTENDS PendingList, SequenceTheorems, TLAPS

\* The first and the last entry of a ring through q, and the neighbours of the
\* i-th.
Oldest(q) == IF q = <<>> THEN Anchor ELSE q[1]
Newest(q) == IF q = <<>> THEN Anchor ELSE q[Len(q)]
After(q, i) == IF i = Len(q) THEN Anchor ELSE q[i + 1]
Before(q, i) == IF i = 1 THEN Anchor ELSE q[i - 1]

IsRing(nx, pv, q) ==
  /\ nx[Anchor] = Oldest(q)
  /\ pv[Anchor] = Newest(q)
  /\ \A i \in 1..Len(q) : nx[q[i]] = After(q, i) /\ pv[q[i]] = Before(q, i)

\* A field of the list_heads when the stores in stores are done.
StoredAt(stores, field, c) == {s \in stores : s.field = field /\ s.at = c}
Done(stores, field, f) ==
  [c \in Cells |-> IF StoredAt(stores, field, c) = {} THEN f[c]
                   ELSE (CHOOSE s \in StoredAt(stores, field, c) : TRUE).val]

\* No two stores of an operation go to the same field.
OneStoreEach(stores) ==
  \A r, s \in stores : r.field = s.field /\ r.at = s.at => r = s

Stores == [field : {"next", "prev"}, at : Cells, val : Pointers,
           kind : {"plain", "add", "del"}]

Adding == \E s \in todo : s.kind = "add"
Deleting == \E s \in todo : s.kind = "del"

\* The queue when the holder of the lock is through.
LinkedDone ==
  IF Adding THEN Append(linked, node[lock])
  ELSE IF Deleting THEN Tail(linked)
  ELSE linked

NextDone == Done(todo, "next", next)
PrevDone == Done(todo, "prev", prev)

\* What is left of an operation: one store at most makes it visible, and no
\* other goes to the head's next field, which list_empty reads.
StoreInv ==
  /\ todo \subseteq Stores
  /\ OneStoreEach(todo)
  /\ \A r, s \in todo : r.kind # "plain" /\ s.kind # "plain" => r = s
  /\ \A s \in todo : s.kind = "plain" /\ s.field = "next" => s.at # Anchor
  /\ \A s \in todo : s.kind = "add" =>
       /\ lock \in Adders /\ s.field = "next"
       /\ s.at = Newest(linked) /\ s.val = node[lock]
       /\ node[lock] \in Nodes \ ToSet(linked)
  /\ \A s \in todo : s.kind = "del" =>
       /\ lock \in Takers /\ s.field = "next" /\ s.at = Anchor
       /\ linked # <<>> /\ s.val = Oldest(Tail(linked)) /\ node[lock] = linked[1]

\* Who has the lock, and who has a node.
HolderInv ==
  /\ lock = NoOne => todo = {}
  /\ \A t \in Threads : lock = t <=> pc[t] \in {"added", "taking"}
  /\ \A t \in Threads : pc[t] # "idle" <=> node[t] \in Nodes
  /\ \A a \in Adders : pc[a] \in {"idle", "add", "added"}
  /\ \A t \in Takers : pc[t] \in {"idle", "taking", "taken"}
  /\ \A t \in Takers : lock = t /\ ~Deleting => node[t] \notin ToSet(linked)

\* list_empty reads this field.
HeadInv == next[Anchor] = Oldest(linked)

RingInv == IsRing(NextDone, PrevDone, LinkedDone)

IndInv == TypeOK /\ StoreInv /\ HolderInv /\ OnePlace /\ HeadInv /\ RingInv

-----------------------------------------------------------------------------
(* Sequences of different nodes                                            *)

\* A node behind the others.
LEMMA AppendNode ==
  ASSUME NEW q \in Seq(Nodes), IsInjective(q), NEW n \in Nodes \ ToSet(q)
  PROVE  /\ Append(q, n) \in Seq(Nodes) /\ Len(Append(q, n)) = Len(q) + 1
         /\ Append(q, n) # <<>>
         /\ Append(q, n)[Len(q) + 1] = n
         /\ \A i \in 1..Len(q) : Append(q, n)[i] = q[i]
         /\ ToSet(Append(q, n)) = ToSet(q) \cup {n}
         /\ IsInjective(Append(q, n))
<1>1. /\ Append(q, n) \in Seq(Nodes) /\ Len(Append(q, n)) = Len(q) + 1
      /\ DOMAIN q = 1..Len(q) /\ DOMAIN Append(q, n) = 1..(Len(q) + 1)
      /\ Len(q) \in Nat /\ Append(q, n) # <<>>
      /\ Append(q, n)[Len(q) + 1] = n
      /\ \A i \in 1..Len(q) : Append(q, n)[i] = q[i]
  OBVIOUS
<1> DEFINE r == Append(q, n)
<1> HIDE DEF r
<1>2. ToSet(r) = ToSet(q) \cup {n}
  BY <1>1 DEF r, ToSet
<1>3. IsInjective(r)
  BY <1>1 DEF r, ToSet, IsInjective
<1> QED
  BY <1>1, <1>2, <1>3 DEF r

\* The queue without its first node.
LEMMA TailNode ==
  ASSUME NEW q \in Seq(Nodes), IsInjective(q), q # <<>>
  PROVE  /\ Tail(q) \in Seq(Nodes) /\ Len(Tail(q)) = Len(q) - 1
         /\ \A i \in 1..(Len(q) - 1) : Tail(q)[i] = q[i + 1]
         /\ (Tail(q) = <<>> <=> Len(q) = 1)
         /\ q[1] \in Nodes /\ q[1] \in ToSet(q) /\ Len(q) \in Nat \ {0}
         /\ ToSet(Tail(q)) = ToSet(q) \ {q[1]}
         /\ IsInjective(Tail(q))
<1>1. /\ Tail(q) \in Seq(Nodes) /\ Len(Tail(q)) = Len(q) - 1
      /\ DOMAIN q = 1..Len(q) /\ DOMAIN Tail(q) = 1..(Len(q) - 1)
      /\ Len(q) \in Nat \ {0} /\ q[1] \in Nodes
      /\ (Tail(q) = <<>> <=> Len(q) = 1)
      /\ \A i \in 1..(Len(q) - 1) : Tail(q)[i] = q[i + 1]
  <2>1. Len(q) \in Nat /\ Len(q) # 0 /\ q[1] \in Nodes /\ DOMAIN q = 1..Len(q)
    OBVIOUS
  <2>2. Tail(q) \in Seq(Nodes) /\ Len(Tail(q)) = Len(q) - 1
    BY HeadTailProperties
  <2>3. \A i \in 1..(Len(q) - 1) : Tail(q)[i] = q[i + 1]
    BY <2>1, <2>2
  <2>4. Tail(q) = <<>> <=> Len(Tail(q)) = 0
    BY <2>2, EmptySeq
  <2> QED
    BY <2>1, <2>2, <2>3, <2>4
<1> DEFINE r == Tail(q)
<1> HIDE DEF r
<1>2. q[1] \in ToSet(q)
  BY <1>1 DEF ToSet
<1>3. ToSet(r) = ToSet(q) \ {q[1]}
  <2>1. ASSUME NEW i \in 1..(Len(q) - 1) PROVE r[i] \in ToSet(q) \ {q[1]}
    <3>1. i + 1 \in 1..Len(q) /\ 1 \in 1..Len(q) /\ i + 1 # 1 /\ r[i] = q[i + 1]
      BY <1>1 DEF r
    <3> QED
      BY <1>1, <3>1 DEF ToSet, IsInjective
  <2>2. ASSUME NEW i \in 1..Len(q), q[i] # q[1] PROVE q[i] \in ToSet(r)
    <3>1. i - 1 \in 1..(Len(q) - 1) /\ r[i - 1] = q[i]
      BY <1>1, <2>2 DEF r
    <3> QED
      BY <1>1, <3>1 DEF r, ToSet
  <2> QED
    BY <1>1, <2>1, <2>2 DEF r, ToSet
<1>4. IsInjective(r)
  BY <1>1 DEF r, IsInjective
<1> QED
  BY <1>1, <1>2, <1>3, <1>4 DEF r

-----------------------------------------------------------------------------
(* Rings                                                                   *)

\* Stores outside of a ring leave it one.
LEMMA RingKept ==
  ASSUME NEW q \in Seq(Nodes), NEW nx, NEW pv, NEW nx2, NEW pv2,
         IsRing(nx, pv, q),
         \A c \in ToSet(q) \cup {Anchor} : nx2[c] = nx[c] /\ pv2[c] = pv[c]
  PROVE  IsRing(nx2, pv2, q)
<1>1. \A i \in 1..Len(q) : q[i] \in ToSet(q)
  BY DEF ToSet
<1> QED
  BY <1>1 DEF IsRing

\* list_add_tail makes a ring with the node at its end.
LEMMA RingAppend ==
  ASSUME NEW q \in Seq(Nodes), IsInjective(q), NEW n \in Nodes \ ToSet(q),
         NEW nx, NEW pv, NEW nx2, NEW pv2, IsRing(nx, pv, q),
         nx2[n] = Anchor, nx2[Newest(q)] = n,
         pv2[n] = Newest(q), pv2[Anchor] = n,
         \A c \in ToSet(q) \cup {Anchor} :
           /\ c # Newest(q) => nx2[c] = nx[c]
           /\ c # Anchor => pv2[c] = pv[c]
  PROVE  IsRing(nx2, pv2, Append(q, n))
<1> DEFINE r == Append(q, n)
<1>1. /\ r \in Seq(Nodes) /\ Len(r) = Len(q) + 1 /\ r[Len(q) + 1] = n
      /\ \A i \in 1..Len(q) : r[i] = q[i]
      /\ Len(q) \in Nat /\ r # <<>>
  BY AppendNode
<1>2. /\ \A i \in 1..Len(q) : q[i] \in ToSet(q) /\ q[i] \in Nodes
      /\ (q = <<>> <=> Len(q) = 0)
      /\ \A i, k \in 1..Len(q) : q[i] = q[k] => i = k
  BY DEF ToSet, IsInjective
<1>3. Anchor \notin Nodes
  BY PointersAssumption
<1> HIDE DEF r
<1>4. nx2[Anchor] = Oldest(r)
  <2>1. CASE q = <<>>
    BY <1>1, <1>2, <2>1 DEF Oldest, Newest
  <2>2. CASE q # <<>>
    <3>1. Newest(q) # Anchor /\ 1 \in 1..Len(q)
      BY <1>1, <1>2, <1>3, <2>2 DEF Newest
    <3> QED
      BY <1>1, <2>2, <3>1 DEF Oldest, IsRing
  <2> QED
    BY <2>1, <2>2
<1>5. pv2[Anchor] = Newest(r)
  BY <1>1 DEF Newest
<1>6. ASSUME NEW i \in 1..Len(r) PROVE nx2[r[i]] = After(r, i) /\ pv2[r[i]] = Before(r, i)
  <2>1. CASE i = Len(q) + 1
    <3>1. Before(r, i) = Newest(q)
      BY <1>1, <1>2, <2>1 DEF Before, Newest
    <3> QED
      BY <1>1, <2>1, <3>1 DEF After
  <2>2. CASE i = Len(q) /\ i # Len(q) + 1
    <3>1. i \in 1..Len(q) /\ q # <<>> /\ Newest(q) = q[i] /\ r[i] = q[i]
      BY <1>1, <1>2, <2>2 DEF Newest
    <3>2. After(r, i) = n
      BY <1>1, <2>2 DEF After
    <3>3. Before(r, i) = Before(q, i)
      BY <1>1, <3>1 DEF Before
    <3>4. pv2[q[i]] = pv[q[i]]
      BY <1>2, <1>3, <3>1
    <3> QED
      BY <3>1, <3>2, <3>3, <3>4 DEF IsRing
  <2>3. CASE i \in 1..Len(q) /\ i # Len(q)
    <3>1. i + 1 \in 1..Len(q) /\ i \in 1..Len(q) /\ r[i] = q[i] /\ r[i + 1] = q[i + 1]
      BY <1>1, <2>3
    <3>2. q[i] # Newest(q)
      BY <1>1, <1>2, <2>3 DEF Newest
    <3>3. After(r, i) = After(q, i)
      BY <1>1, <2>3, <3>1 DEF After
    <3>4. Before(r, i) = Before(q, i)
      BY <1>1, <3>1 DEF Before
    <3>5. nx2[q[i]] = nx[q[i]] /\ pv2[q[i]] = pv[q[i]]
      BY <1>2, <1>3, <3>1, <3>2
    <3> QED
      BY <3>1, <3>3, <3>4, <3>5 DEF IsRing
  <2> QED
    BY <1>1, <2>1, <2>2, <2>3
<1> QED
  BY <1>4, <1>5, <1>6 DEF IsRing, r

\* list_del of the first node makes a ring of the others.
LEMMA RingTail ==
  ASSUME NEW q \in Seq(Nodes), IsInjective(q), q # <<>>,
         NEW nx, NEW pv, NEW nx2, NEW pv2, IsRing(nx, pv, q),
         nx2[Anchor] = Oldest(Tail(q)), pv2[Oldest(Tail(q))] = Anchor,
         \A c \in ToSet(Tail(q)) : nx2[c] = nx[c],
         \A c \in ToSet(Tail(q)) \cup {Anchor} :
           c # Oldest(Tail(q)) => pv2[c] = pv[c]
  PROVE  IsRing(nx2, pv2, Tail(q))
<1> DEFINE r == Tail(q)
<1>1. /\ r \in Seq(Nodes) /\ Len(r) = Len(q) - 1 /\ Len(q) \in Nat \ {0}
      /\ \A i \in 1..(Len(q) - 1) : r[i] = q[i + 1]
      /\ (r = <<>> <=> Len(q) = 1)
      /\ IsInjective(r)
  BY TailNode
<1> HIDE DEF r
<1>2. /\ \A i \in 1..Len(r) : r[i] \in ToSet(r) /\ r[i] \in Nodes
      /\ \A i, k \in 1..Len(r) : r[i] = r[k] => i = k
  BY <1>1 DEF ToSet, IsInjective
<1>3. Anchor \notin Nodes
  BY PointersAssumption
<1>4. pv2[Anchor] = Newest(r)
  <2>1. CASE r = <<>>
    BY <2>1 DEF Oldest, Newest, r
  <2>2. CASE r # <<>>
    <3>1. /\ 1 \in 1..Len(r) /\ Len(r) \in 1..Len(r) /\ Oldest(r) = r[1]
          /\ Newest(r) = q[Len(q)] /\ Newest(q) = q[Len(q)]
      BY <1>1, <2>2 DEF Newest, Oldest
    <3>2. Anchor # Oldest(r)
      BY <1>2, <1>3, <3>1
    <3> QED
      BY <3>1, <3>2 DEF IsRing, r
  <2> QED
    BY <2>1, <2>2
<1>5. ASSUME NEW i \in 1..Len(r) PROVE nx2[r[i]] = After(r, i) /\ pv2[r[i]] = Before(r, i)
  <2>1. i + 1 \in 1..Len(q) /\ r[i] = q[i + 1] /\ r # <<>>
    BY <1>1
  <2>2. After(r, i) = After(q, i + 1)
    <3>1. CASE i = Len(r)
      BY <1>1, <3>1 DEF After
    <3>2. CASE i # Len(r)
      <4>1. i + 1 \in 1..(Len(q) - 1) /\ i + 1 # Len(q)
        BY <1>1, <3>2
      <4> QED
        BY <1>1, <3>2, <4>1 DEF After
    <3> QED
      BY <3>1, <3>2
  <2>3. nx2[r[i]] = nx[r[i]]
    BY <1>2 DEF r
  <2>4. CASE i = 1
    <3>1. Oldest(r) = r[1]
      BY <2>1 DEF Oldest
    <3> QED
      BY <2>1, <2>2, <2>3, <2>4, <3>1 DEF Before, IsRing, r
  <2>5. CASE i # 1
    <3>1. Oldest(r) = r[1] /\ 1 \in 1..Len(r)
      BY <1>1, <2>1 DEF Oldest
    <3>2. r[i] # Oldest(r)
      BY <1>2, <2>5, <3>1
    <3>3. pv2[r[i]] = pv[q[i + 1]]
      BY <1>2, <2>1, <3>2 DEF r
    <3>4. Before(r, i) = Before(q, i + 1)
      <4>1. i - 1 \in 1..(Len(q) - 1) /\ (i - 1) + 1 = i /\ i + 1 # 1 /\ (i + 1) - 1 = i
        BY <1>1, <2>5
      <4>2. r[i - 1] = q[i]
        BY <1>1, <4>1
      <4> QED
        BY <2>5, <4>1, <4>2 DEF Before
    <3> QED
      BY <2>1, <2>2, <2>3, <3>3, <3>4 DEF IsRing
  <2> QED
    BY <2>4, <2>5
<1> QED
  BY <1>4, <1>5 DEF IsRing, r

-----------------------------------------------------------------------------
(* Stores                                                                  *)

\* A field to which a store is due will hold what it stores; another one holds
\* what it held.
LEMMA DoneAt ==
  ASSUME NEW stores, OneStoreEach(stores), NEW field, NEW f, NEW c \in Cells
  PROVE  /\ \A s \in stores : s.field = field /\ s.at = c => Done(stores, field, f)[c] = s.val
         /\ (\A s \in stores : s.field # field \/ s.at # c) => Done(stores, field, f)[c] = f[c]
<1>1. ASSUME NEW s \in stores, s.field = field, s.at = c
      PROVE  Done(stores, field, f)[c] = s.val
  <2>1. StoredAt(stores, field, c) = {s}
    BY <1>1 DEF StoredAt, OneStoreEach
  <2> QED
    BY <2>1 DEF Done
<1>2. ASSUME \A s \in stores : s.field # field \/ s.at # c
      PROVE  Done(stores, field, f)[c] = f[c]
  <2>1. StoredAt(stores, field, c) = {}
    BY <1>2 DEF StoredAt
  <2> QED
    BY <2>1 DEF Done
<1> QED
  BY <1>1, <1>2

\* Doing a store does not change what the fields will hold.
LEMMA DoneStore ==
  ASSUME NEW stores, OneStoreEach(stores), NEW s \in stores, NEW field,
         NEW f \in [Cells -> Pointers], NEW g \in [Cells -> Pointers],
         \A c \in Cells : g[c] = IF s.field = field /\ s.at = c THEN s.val ELSE f[c]
  PROVE  Done(stores \ {s}, field, g) = Done(stores, field, f)
<1>1. OneStoreEach(stores \ {s})
  BY DEF OneStoreEach
<1>2. ASSUME NEW c \in Cells
      PROVE  Done(stores \ {s}, field, g)[c] = Done(stores, field, f)[c]
  <2>1. CASE s.field = field /\ s.at = c
    <3>1. \A r \in stores \ {s} : r.field # field \/ r.at # c
      BY <2>1 DEF OneStoreEach
    <3>2. Done(stores \ {s}, field, g)[c] = g[c]
      BY <1>1, <3>1, DoneAt
    <3>3. Done(stores, field, f)[c] = s.val
      BY <2>1, DoneAt
    <3> QED
      BY <2>1, <3>2, <3>3
  <2>2. CASE s.field # field \/ s.at # c
    <3>1. CASE \A r \in stores : r.field # field \/ r.at # c
      <4>1. Done(stores \ {s}, field, g)[c] = g[c]
        BY <1>1, <3>1, DoneAt
      <4>2. Done(stores, field, f)[c] = f[c]
        BY <3>1, DoneAt
      <4> QED
        BY <2>2, <4>1, <4>2
    <3>2. CASE \E r \in stores : r.field = field /\ r.at = c
      <4>1. PICK r \in stores : r.field = field /\ r.at = c
        BY <3>2
      <4>2. r \in stores \ {s}
        BY <2>2, <4>1
      <4>3. Done(stores \ {s}, field, g)[c] = r.val
        BY <1>1, <4>1, <4>2, DoneAt
      <4>4. Done(stores, field, f)[c] = r.val
        BY <4>1, DoneAt
      <4> QED
        BY <4>3, <4>4
    <3> QED
      BY <3>1, <3>2
  <2> QED
    BY <2>1, <2>2
<1> QED
  BY <1>2 DEF Done

\* Without stores the fields are what they are.
LEMMA DoneNothing ==
  ASSUME NEW field, NEW f, NEW c \in Cells
  PROVE  Done({}, field, f)[c] = f[c]
BY DEF Done, StoredAt

\* While nobody has the lock the list is a ring through the queue.
LEMMA UnlockedRing ==
  ASSUME IndInv, lock = NoOne
  PROVE  todo = {} /\ LinkedDone = linked /\ IsRing(next, prev, linked)
<1>1. todo = {} /\ LinkedDone = linked /\ linked \in Seq(Nodes)
  BY DEF IndInv, HolderInv, LinkedDone, Adding, Deleting, TypeOK
<1>2. ToSet(linked) \cup {Anchor} \subseteq Cells
  BY <1>1 DEF ToSet, Cells
<1>3. \A c \in Cells : NextDone[c] = next[c] /\ PrevDone[c] = prev[c]
  BY <1>1, DoneNothing DEF NextDone, PrevDone
<1>4. IsRing(NextDone, PrevDone, linked)
  BY <1>1 DEF IndInv, RingInv
<1> HIDE DEF NextDone, PrevDone
<1>5. IsRing(next, prev, linked)
  BY <1>1, <1>2, <1>3, <1>4, RingKept
<1> QED
  BY <1>1, <1>5

-----------------------------------------------------------------------------
(* The steps                                                               *)

\* The list starts as a ring of the head alone.
LEMMA IndInit == Init => IndInv
<1> SUFFICES ASSUME Init PROVE IndInv
  OBVIOUS
<1>1. TypeOK
  <2>1. Wild \in Pointers /\ Anchor \in Cells /\ Anchor \in Pointers /\ <<>> \in Seq(Nodes)
    BY DEF Cells, Pointers
  <2> QED
    BY <2>1 DEF Init, TypeOK
<1>2. StoreInv
  BY DEF Init, StoreInv, OneStoreEach
<1>3. HolderInv
  BY ThreadsAssumption, PointersAssumption DEF Init, HolderInv, Threads, Deleting
<1>4. OnePlace
  BY PointersAssumption DEF Init, OnePlace, IsInjective, ToSet
<1>5. HeadInv
  BY DEF Init, HeadInv, Oldest, Cells
<1>6. RingInv
  <2>1. LinkedDone = <<>> /\ todo = {} /\ Anchor \in Cells
    BY DEF Init, LinkedDone, Adding, Deleting, Cells
  <2>2. NextDone[Anchor] = next[Anchor] /\ PrevDone[Anchor] = prev[Anchor]
    BY <2>1, DoneNothing DEF NextDone, PrevDone
  <2>3. next[Anchor] = Anchor /\ prev[Anchor] = Anchor
    BY <2>1 DEF Init
  <2> HIDE DEF NextDone, PrevDone
  <2> QED
    BY <2>1, <2>2, <2>3 DEF RingInv, IsRing, Oldest, Newest
<1> QED
  BY <1>1, <1>2, <1>3, <1>4, <1>5, <1>6 DEF IndInv

\* A step that leaves the list, the lock and the queue alone and does not give
\* out a node of the queue leaves the ring alone.
LEMMA RingUntouched ==
  ASSUME IndInv, todo' = todo, linked' = linked, lock' = lock,
         lock # NoOne => node'[lock] = node[lock],
         \A c \in ToSet(LinkedDone) \cup {Anchor} :
           NextDone'[c] = NextDone[c] /\ PrevDone'[c] = PrevDone[c],
         LinkedDone \in Seq(Nodes)
  PROVE  RingInv'
<1>1. LinkedDone' = LinkedDone
  BY DEF LinkedDone, Adding, Deleting, IndInv, HolderInv
<1> QED
  BY <1>1, RingKept DEF RingInv, IndInv

\* The queue as it will be holds nodes, once each.
LEMMA LinkedDoneNodes ==
  ASSUME IndInv
  PROVE  /\ LinkedDone \in Seq(Nodes)
         /\ Adding => ToSet(LinkedDone) = ToSet(linked) \cup {node[lock]}
         /\ ~Adding => ToSet(LinkedDone) \subseteq ToSet(linked)
<1>1. linked \in Seq(Nodes) /\ IsInjective(linked) /\ StoreInv
  BY DEF IndInv, TypeOK, OnePlace
<1>2. CASE Adding
  BY <1>1, <1>2, AppendNode DEF LinkedDone, StoreInv, Adding
<1>3. CASE ~Adding /\ Deleting
  <2>1. linked # <<>>
    BY <1>1, <1>3 DEF StoreInv, Deleting
  <2> QED
    BY <1>1, <1>3, <2>1, TailNode DEF LinkedDone
<1>4. CASE ~Adding /\ ~Deleting
  BY <1>1, <1>4 DEF LinkedDone
<1> QED
  BY <1>2, <1>3, <1>4

\* A field that a store does not change is what it will be, before and after.
LEMMA DoneSame ==
  ASSUME NEW stores, NEW field, NEW f, NEW g, NEW c \in Cells, g[c] = f[c]
  PROVE  Done(stores, field, g)[c] = Done(stores, field, f)[c]
BY DEF Done

\* The stores of list_add_tail, when they are done, have added the node.
LEMMA AddedRing ==
  ASSUME NEW q \in Seq(Nodes), IsInjective(q), NEW n \in Nodes \ ToSet(q),
         NEW nx, NEW pv, IsRing(nx, pv, q),
         NEW stores, stores = InsertBetween(n, Newest(q), Anchor)
  PROVE  /\ stores \subseteq Stores
         /\ OneStoreEach(stores)
         /\ IsRing(Done(stores, "next", nx), Done(stores, "prev", pv), Append(q, n))
<1>1. /\ Newest(q) \in ToSet(q) \cup {Anchor} /\ Newest(q) # n
      /\ Newest(q) \in Cells /\ n \in Cells /\ Anchor \in Cells /\ n # Anchor
      /\ ToSet(q) \cup {Anchor} \subseteq Cells
  <2>1. Anchor \notin Nodes
    BY PointersAssumption
  <2>2. Newest(q) \in ToSet(q) \cup {Anchor}
    BY DEF Newest, ToSet
  <2>3. ToSet(q) \subseteq Nodes
    BY DEF ToSet
  <2> QED
    BY <2>1, <2>2, <2>3 DEF Cells
<1>2. stores \subseteq Stores
  BY <1>1 DEF InsertBetween, Store, Stores, Pointers
<1>3. OneStoreEach(stores)
  BY <1>1 DEF InsertBetween, Store, OneStoreEach
<1> DEFINE nx2 == Done(stores, "next", nx)
           pv2 == Done(stores, "prev", pv)
<1>4. nx2[n] = Anchor /\ nx2[Newest(q)] = n
  <2>1. /\ Store("next", n, Anchor, "plain") \in stores
        /\ Store("next", Newest(q), n, "add") \in stores
    BY DEF InsertBetween
  <2> QED
    BY <1>1, <1>3, <2>1, DoneAt DEF Store
<1>5. pv2[n] = Newest(q) /\ pv2[Anchor] = n
  <2>1. /\ Store("prev", n, Newest(q), "plain") \in stores
        /\ Store("prev", Anchor, n, "plain") \in stores
    BY DEF InsertBetween
  <2> QED
    BY <1>1, <1>3, <2>1, DoneAt DEF Store
<1>6. ASSUME NEW c \in ToSet(q) \cup {Anchor}
      PROVE  /\ c # Newest(q) => nx2[c] = nx[c]
             /\ c # Anchor => pv2[c] = pv[c]
  <2>1. c \in Cells /\ c # n
    BY <1>1
  <2>2. c # Newest(q) => \A s \in stores : s.field # "next" \/ s.at # c
    BY <2>1 DEF InsertBetween, Store
  <2>3. c # Anchor => \A s \in stores : s.field # "prev" \/ s.at # c
    BY <2>1 DEF InsertBetween, Store
  <2> QED
    BY <1>3, <2>1, <2>2, <2>3, DoneAt
<1> HIDE DEF nx2, pv2
<1>7. IsRing(nx2, pv2, Append(q, n))
  BY <1>4, <1>5, <1>6, RingAppend
<1> QED
  BY <1>2, <1>3, <1>7 DEF nx2, pv2

\* The stores of list_del, when they are done, have taken out the first node.
LEMMA DeletedRing ==
  ASSUME NEW q \in Seq(Nodes), IsInjective(q), q # <<>>,
         NEW nx, NEW pv, IsRing(nx, pv, q), NEW stores,
         stores = {Store("prev", Oldest(Tail(q)), Anchor, "plain"),
                   Store("next", Anchor, Oldest(Tail(q)), "del"),
                   Store("next", q[1], Poison1, "plain"),
                   Store("prev", q[1], Poison2, "plain")}
  PROVE  /\ stores \subseteq Stores
         /\ OneStoreEach(stores)
         /\ IsRing(Done(stores, "next", nx), Done(stores, "prev", pv), Tail(q))
<1> DEFINE r == Tail(q)
<1>1. /\ r \in Seq(Nodes) /\ q[1] \in Nodes /\ ToSet(r) = ToSet(q) \ {q[1]}
  BY TailNode
<1>2. Anchor \notin Nodes
  BY PointersAssumption
<1> HIDE DEF r
<1>3. /\ Oldest(r) \in ToSet(r) \cup {Anchor} /\ Oldest(r) # q[1] /\ Anchor # q[1]
      /\ Oldest(r) \in Cells /\ q[1] \in Cells /\ Anchor \in Cells
      /\ ToSet(r) \cup {Anchor} \subseteq Cells
  <2>1. Oldest(r) \in ToSet(r) \cup {Anchor}
    BY <1>1 DEF Oldest, ToSet
  <2>2. ToSet(r) \subseteq Nodes
    BY <1>1 DEF ToSet
  <2> QED
    BY <1>1, <1>2, <2>1, <2>2 DEF Cells
<1>4. stores \subseteq Stores
  BY <1>3 DEF Store, Stores, Pointers, r
<1>5. OneStoreEach(stores)
  BY <1>3 DEF Store, OneStoreEach, r
<1> DEFINE nx2 == Done(stores, "next", nx)
           pv2 == Done(stores, "prev", pv)
<1>6. nx2[Anchor] = Oldest(r)
  <2>1. Store("next", Anchor, Oldest(r), "del") \in stores
    BY DEF r
  <2> QED
    BY <1>3, <1>5, <2>1, DoneAt DEF Store
<1>7. pv2[Oldest(r)] = Anchor
  <2>1. Store("prev", Oldest(r), Anchor, "plain") \in stores
    BY DEF r
  <2> QED
    BY <1>3, <1>5, <2>1, DoneAt DEF Store
<1>8. ASSUME NEW c \in ToSet(r) PROVE nx2[c] = nx[c]
  <2>1. c \in Cells /\ c # q[1]
    BY <1>1, <1>3
  <2>2. c # Anchor
    BY <1>1, <1>2 DEF ToSet
  <2>3. \A s \in stores : s.field # "next" \/ s.at # c
    BY <2>1, <2>2 DEF Store
  <2> QED
    BY <1>5, <2>1, <2>3, DoneAt
<1>9. ASSUME NEW c \in ToSet(r) \cup {Anchor}, c # Oldest(r) PROVE pv2[c] = pv[c]
  <2>1. c \in Cells /\ c # q[1]
    BY <1>1, <1>3
  <2>2. \A s \in stores : s.field # "prev" \/ s.at # c
    BY <2>1, <1>9 DEF Store, r
  <2> QED
    BY <1>5, <2>1, <2>2, DoneAt
<1> HIDE DEF nx2, pv2
<1>10. IsRing(nx2, pv2, r)
  BY <1>6, <1>7, <1>8, <1>9, RingTail DEF r
<1> QED
  BY <1>4, <1>5, <1>10 DEF nx2, pv2, r

\* A thread with a node that is not changing the list has it outside of it.
LEMMA NodeOutside ==
  ASSUME IndInv, NEW t \in Threads, lock # t
  PROVE  /\ node[t] \notin ToSet(linked)
         /\ pc[t] # "idle" => node[t] \in Nodes \ ToSet(linked)
BY DEF IndInv, OnePlace, HolderInv

\* malloc gives out an address that is nowhere in the list.
LEMMA AllocateStep ==
  ASSUME IndInv, NEW a \in Adders, Allocate(a)
  PROVE  IndInv'
<1>1. PICK n \in FreeNodes :
        /\ node' = [node EXCEPT ![a] = n]
        /\ next' = [next EXCEPT ![n] = Wild]
        /\ prev' = [prev EXCEPT ![n] = Wild]
  BY DEF Allocate
<1>2. /\ n \in Nodes /\ n \notin ToSet(linked) /\ \A t \in Threads : node[t] # n
      /\ n \in Cells /\ n # Anchor /\ Anchor \in Cells /\ Wild \in Pointers /\ a \in Threads
  BY PointersAssumption DEF FreeNodes, Cells, Pointers, Threads
<1>3. /\ pc[a] = "idle" /\ pc' = [pc EXCEPT ![a] = "add"] /\ lock' = lock
      /\ todo' = todo /\ verdict' = verdict /\ linked' = linked /\ lock # a
  BY <1>2 DEF Allocate, IndInv, HolderInv
<1>4. TypeOK /\ StoreInv /\ HolderInv /\ OnePlace /\ HeadInv
  BY DEF IndInv
<1>5. /\ next' \in [Cells -> Pointers] /\ prev' \in [Cells -> Pointers]
      /\ \A c \in Cells : c # n => next'[c] = next[c] /\ prev'[c] = prev[c]
  BY <1>1, <1>2, <1>4 DEF TypeOK
<1>6. /\ node' \in [Threads -> Nodes \cup {NoNode}] /\ node'[a] = n
      /\ \A t \in Threads \ {a} : node'[t] = node[t]
      /\ pc' \in [Threads -> {"idle", "add", "added", "taking", "taken"}]
      /\ pc'[a] = "add" /\ \A t \in Threads \ {a} : pc'[t] = pc[t]
  BY <1>1, <1>2, <1>3, <1>4 DEF TypeOK
<1>7. lock # NoOne => lock \in Threads /\ node'[lock] = node[lock]
  BY <1>3, <1>4, <1>6 DEF TypeOK
<1>8. TypeOK'
  BY <1>3, <1>4, <1>5, <1>6 DEF TypeOK
<1>9. StoreInv'
  <2>1. \A s \in todo : node'[lock] = node[lock]
    BY <1>4, <1>7 DEF HolderInv
  <2> QED
    BY <1>3, <1>4, <2>1 DEF StoreInv
<1>10. HolderInv'
  <2>1. \A t \in Threads : pc'[t] # "idle" <=> node'[t] \in Nodes
    BY <1>2, <1>4, <1>6 DEF HolderInv
  <2>2. \A t \in Threads : lock = t <=> pc'[t] \in {"added", "taking"}
    BY <1>2, <1>3, <1>4, <1>6 DEF HolderInv
  <2>3. \A t \in Takers : t # a /\ t \in Threads
    BY ThreadsAssumption DEF Threads
  <2>4. \A t \in Adders : t \in Threads
    BY DEF Threads
  <2>5. /\ \A t \in Adders : pc'[t] \in {"idle", "add", "added"}
        /\ \A t \in Takers : pc'[t] \in {"idle", "taking", "taken"}
    BY <1>4, <1>6, <2>3, <2>4 DEF HolderInv
  <2>6. \A t \in Takers : lock = t /\ ~Deleting' => node'[t] \notin ToSet(linked)
    BY <1>3, <1>4, <1>6, <2>3 DEF HolderInv, Deleting
  <2>7. lock = NoOne => todo = {}
    BY <1>4 DEF HolderInv
  <2> QED
    BY <1>3, <2>1, <2>2, <2>5, <2>6, <2>7 DEF HolderInv
<1>11. OnePlace'
  BY <1>2, <1>3, <1>4, <1>6 DEF OnePlace
<1>12. HeadInv'
  BY <1>2, <1>3, <1>4, <1>5 DEF HeadInv
<1>13. RingInv'
  <2>1. \A c \in ToSet(LinkedDone) \cup {Anchor} : c \in Cells /\ c # n
    <3>1. Adding => lock \in Threads
      BY <1>4 DEF Adding, StoreInv, Threads
    <3>2. n \notin ToSet(LinkedDone)
      BY <1>2, <3>1, LinkedDoneNodes
    <3>3. ToSet(LinkedDone) \subseteq Nodes
      BY LinkedDoneNodes DEF ToSet
    <3> QED
      BY <1>2, <3>2, <3>3 DEF Cells
  <2>2. \A c \in ToSet(LinkedDone) \cup {Anchor} :
          NextDone'[c] = NextDone[c] /\ PrevDone'[c] = PrevDone[c]
    BY <1>3, <1>5, <2>1, DoneSame DEF NextDone, PrevDone
  <2> QED
    BY <1>3, <1>7, <2>2, LinkedDoneNodes, RingUntouched
<1> QED
  BY <1>8, <1>9, <1>10, <1>11, <1>12, <1>13 DEF IndInv

\* With the lock, task_pending_add sets out to add its node at the end.
LEMMA AddLockedStep ==
  ASSUME IndInv, NEW a \in Adders, AddLocked(a)
  PROVE  IndInv'
<1>1. /\ pc[a] = "add" /\ lock = NoOne /\ lock' = a
      /\ todo' = InsertBetween(node[a], prev[Anchor], Anchor)
      /\ pc' = [pc EXCEPT ![a] = "added"] /\ next' = next /\ prev' = prev
      /\ node' = node /\ verdict' = verdict /\ linked' = linked
      /\ a \in Threads /\ a # NoOne
  BY ThreadsAssumption DEF AddLocked, ListAddTail, Threads
<1>2. TypeOK /\ StoreInv /\ HolderInv /\ OnePlace /\ HeadInv
  BY DEF IndInv
<1>3. todo = {} /\ LinkedDone = linked /\ IsRing(next, prev, linked)
  BY <1>1, UnlockedRing
<1>4. node[a] \in Nodes \ ToSet(linked)
  BY <1>1, NodeOutside
<1>5. todo' = InsertBetween(node[a], Newest(linked), Anchor)
  BY <1>1, <1>3 DEF IsRing
<1>6. linked \in Seq(Nodes) /\ IsInjective(linked)
  BY <1>2 DEF TypeOK, OnePlace
<1>7. /\ todo' \subseteq Stores /\ OneStoreEach(todo')
      /\ IsRing(Done(todo', "next", next), Done(todo', "prev", prev), Append(linked, node[a]))
  BY <1>3, <1>4, <1>5, <1>6, AddedRing
<1>8. /\ pc' \in [Threads -> {"idle", "add", "added", "taking", "taken"}]
      /\ pc'[a] = "added" /\ \A t \in Threads \ {a} : pc'[t] = pc[t]
  BY <1>1, <1>2 DEF TypeOK
<1>9. TypeOK'
  <2>1. \A s \in todo' : s.at \in Cells /\ s.val \in Pointers
    BY <1>7 DEF Stores
  <2> QED
    BY <1>1, <1>2, <1>8, <2>1 DEF TypeOK
<1>10. \A s \in todo' :
         /\ s.kind = "add" \/ s.kind = "plain"
         /\ s.kind = "add" => s.field = "next" /\ s.at = Newest(linked) /\ s.val = node[a]
         /\ s.kind = "plain" /\ s.field = "next" => s.at = node[a]
  BY <1>5 DEF InsertBetween, Store
<1>11. \E s \in todo' : s.kind = "add"
  BY <1>5 DEF InsertBetween, Store
<1>12. \A r, s \in todo' : r.kind = "add" /\ s.kind = "add" => r = s
  BY <1>7, <1>10 DEF OneStoreEach
<1>13. StoreInv'
  <2>1. node[a] # Anchor
    BY <1>4, PointersAssumption
  <2>2. \A r, s \in todo' : r.kind # "plain" /\ s.kind # "plain" => r = s
    BY <1>10, <1>12
  <2>3. \A s \in todo' : s.kind = "plain" /\ s.field = "next" => s.at # Anchor
    BY <1>10, <2>1
  <2>4. \A s \in todo' : s.kind = "add" =>
          /\ lock' \in Adders /\ s.field = "next"
          /\ s.at = Newest(linked') /\ s.val = node'[lock']
          /\ node'[lock'] \in Nodes \ ToSet(linked')
    BY <1>1, <1>4, <1>10
  <2>5. \A s \in todo' : s.kind # "del"
    BY <1>10
  <2> QED
    BY <1>7, <2>2, <2>3, <2>4, <2>5 DEF StoreInv
<1>14. HolderInv'
  <2>1. \A t \in Threads : lock' = t <=> pc'[t] \in {"added", "taking"}
    BY <1>1, <1>2, <1>8, ThreadsAssumption DEF HolderInv
  <2>2. \A t \in Threads : pc'[t] # "idle" <=> node'[t] \in Nodes
    BY <1>1, <1>2, <1>8 DEF HolderInv
  <2>3. \A t \in Takers : t # a /\ t \in Threads
    BY ThreadsAssumption DEF Threads
  <2>4. \A t \in Adders : t \in Threads
    BY DEF Threads
  <2>5. /\ \A t \in Adders : pc'[t] \in {"idle", "add", "added"}
        /\ \A t \in Takers : pc'[t] \in {"idle", "taking", "taken"}
    BY <1>2, <1>8, <2>3, <2>4 DEF HolderInv
  <2> QED
    BY <1>1, <2>1, <2>2, <2>3, <2>5 DEF HolderInv
<1>15. OnePlace'
  BY <1>1, <1>2, <1>4, ThreadsAssumption DEF OnePlace
<1>16. HeadInv'
  BY <1>1, <1>2 DEF HeadInv
<1>17. RingInv'
  <2>1. LinkedDone' = Append(linked, node[a])
    BY <1>1, <1>11 DEF LinkedDone, Adding
  <2>2. NextDone' = Done(todo', "next", next) /\ PrevDone' = Done(todo', "prev", prev)
    BY <1>1 DEF NextDone, PrevDone
  <2> QED
    BY <1>7, <2>1, <2>2 DEF RingInv
<1> QED
  BY <1>9, <1>13, <1>14, <1>15, <1>16, <1>17 DEF IndInv

\* The last store is done, and the lock released.
LEMMA AddUnlockStep ==
  ASSUME IndInv, NEW a \in Adders, AddUnlock(a)
  PROVE  IndInv'
<1>1. /\ pc[a] = "added" /\ lock = a /\ todo = {} /\ lock' = NoOne
      /\ node' = [node EXCEPT ![a] = NoNode] /\ pc' = [pc EXCEPT ![a] = "idle"]
      /\ next' = next /\ prev' = prev /\ todo' = todo /\ verdict' = verdict
      /\ linked' = linked /\ a \in Threads /\ NoNode \notin Nodes
  BY PointersAssumption DEF AddUnlock, Threads
<1>2. TypeOK /\ StoreInv /\ HolderInv /\ OnePlace /\ HeadInv
  BY DEF IndInv
<1>3. /\ pc' \in [Threads -> {"idle", "add", "added", "taking", "taken"}]
      /\ pc'[a] = "idle" /\ \A t \in Threads \ {a} : pc'[t] = pc[t]
      /\ node' \in [Threads -> Nodes \cup {NoNode}] /\ node'[a] = NoNode
      /\ \A t \in Threads \ {a} : node'[t] = node[t]
  BY <1>1, <1>2 DEF TypeOK
<1>4. TypeOK'
  BY <1>1, <1>2, <1>3 DEF TypeOK
<1>5. StoreInv'
  BY <1>1, <1>2 DEF StoreInv, OneStoreEach
<1>6. HolderInv'
  <2>1. \A t \in Threads : lock' = t <=> pc'[t] \in {"added", "taking"}
    BY <1>1, <1>2, <1>3, ThreadsAssumption DEF HolderInv
  <2>2. \A t \in Threads : pc'[t] # "idle" <=> node'[t] \in Nodes
    BY <1>1, <1>2, <1>3 DEF HolderInv
  <2>3. \A t \in Takers : t # a /\ t \in Threads /\ t # NoOne
    BY ThreadsAssumption DEF Threads
  <2>4. \A t \in Adders : t \in Threads
    BY DEF Threads
  <2>5. /\ \A t \in Adders : pc'[t] \in {"idle", "add", "added"}
        /\ \A t \in Takers : pc'[t] \in {"idle", "taking", "taken"}
    BY <1>2, <1>3, <2>3, <2>4 DEF HolderInv
  <2> QED
    BY <1>1, <2>1, <2>2, <2>3, <2>5 DEF HolderInv
<1>7. OnePlace'
  <2>1. NoNode \notin ToSet(linked)
    BY <1>1, <1>2 DEF TypeOK, ToSet
  <2> QED
    BY <1>1, <1>2, <1>3, <2>1 DEF OnePlace
<1>8. HeadInv'
  BY <1>1, <1>2 DEF HeadInv
<1>9. RingInv'
  <2>1. LinkedDone = linked /\ LinkedDone' = linked
    BY <1>1 DEF LinkedDone, Adding, Deleting
  <2>2. NextDone' = NextDone /\ PrevDone' = PrevDone
    BY <1>1 DEF NextDone, PrevDone
  <2> QED
    BY <2>1, <2>2 DEF RingInv, IndInv
<1> QED
  BY <1>4, <1>5, <1>6, <1>7, <1>8, <1>9 DEF IndInv

\* With the lock and a list that is not empty, task_pending_acquire sets out
\* to take out the first node.
LEMMA AcquireLockedStep ==
  ASSUME IndInv, NEW t \in Takers, AcquireLocked(t)
  PROVE  IndInv' /\ linked # <<>>
<1>1. /\ pc[t] = "idle" /\ lock = NoOne /\ next[Anchor] # Anchor
      /\ node' = [node EXCEPT ![t] = next[Anchor]]
      /\ todo' = ListDel(next[Anchor]) /\ lock' = t
      /\ pc' = [pc EXCEPT ![t] = "taking"] /\ next' = next /\ prev' = prev
      /\ verdict' = verdict /\ linked' = linked
      /\ t \in Threads /\ t # NoOne
  BY ThreadsAssumption DEF AcquireLocked, ListEmpty, Threads
<1>2. TypeOK /\ StoreInv /\ HolderInv /\ OnePlace /\ HeadInv
  BY DEF IndInv
<1>3. todo = {} /\ LinkedDone = linked /\ IsRing(next, prev, linked)
  BY <1>1, UnlockedRing
<1>4. linked # <<>> /\ next[Anchor] = linked[1]
  BY <1>1, <1>2 DEF HeadInv, Oldest
<1>5. /\ linked \in Seq(Nodes) /\ IsInjective(linked)
      /\ linked[1] \in Nodes /\ linked[1] \in ToSet(linked)
      /\ Tail(linked) \in Seq(Nodes) /\ Len(linked) \in Nat \ {0}
  BY <1>2, <1>4, TailNode DEF TypeOK, OnePlace
<1>6. next[linked[1]] = Oldest(Tail(linked)) /\ prev[linked[1]] = Anchor
  <2>1. next[linked[1]] = After(linked, 1) /\ prev[linked[1]] = Before(linked, 1)
    BY <1>3, <1>5 DEF IsRing
  <2>2. After(linked, 1) = Oldest(Tail(linked))
    <3>1. /\ (Tail(linked) = <<>> <=> Len(linked) = 1)
          /\ \A i \in 1..(Len(linked) - 1) : Tail(linked)[i] = linked[i + 1]
      BY <1>4, <1>5, TailNode
    <3>2. CASE Len(linked) = 1
      BY <3>1, <3>2 DEF After, Oldest
    <3>3. CASE Len(linked) # 1
      BY <1>5, <3>1, <3>3 DEF After, Oldest
    <3> QED
      BY <3>2, <3>3
  <2> QED
    BY <2>1, <2>2 DEF Before
<1>7. todo' = {Store("prev", Oldest(Tail(linked)), Anchor, "plain"),
               Store("next", Anchor, Oldest(Tail(linked)), "del"),
               Store("next", linked[1], Poison1, "plain"),
               Store("prev", linked[1], Poison2, "plain")}
  BY <1>1, <1>4, <1>6 DEF ListDel
<1>8. /\ todo' \subseteq Stores /\ OneStoreEach(todo')
      /\ IsRing(Done(todo', "next", next), Done(todo', "prev", prev), Tail(linked))
  BY <1>3, <1>4, <1>5, <1>7, DeletedRing
<1>9. /\ pc' \in [Threads -> {"idle", "add", "added", "taking", "taken"}]
      /\ pc'[t] = "taking" /\ \A u \in Threads \ {t} : pc'[u] = pc[u]
      /\ node' \in [Threads -> Nodes \cup {NoNode}] /\ node'[t] = linked[1]
      /\ \A u \in Threads \ {t} : node'[u] = node[u]
  BY <1>1, <1>2, <1>4, <1>5 DEF TypeOK
<1>10. TypeOK'
  <2>1. \A s \in todo' : s.at \in Cells /\ s.val \in Pointers
    BY <1>8 DEF Stores
  <2> QED
    BY <1>1, <1>2, <1>9, <2>1 DEF TypeOK
<1>11. \A s \in todo' :
         /\ s.kind = "del" \/ s.kind = "plain"
         /\ s.kind = "del" =>
              s.field = "next" /\ s.at = Anchor /\ s.val = Oldest(Tail(linked))
         /\ s.kind = "plain" /\ s.field = "next" => s.at = linked[1]
  BY <1>7 DEF Store
<1>12. \E s \in todo' : s.kind = "del"
  BY <1>7 DEF Store
<1>13. \A r, s \in todo' : r.kind = "del" /\ s.kind = "del" => r = s
  BY <1>8, <1>11 DEF OneStoreEach
<1>14. StoreInv'
  <2>1. linked[1] # Anchor
    BY <1>5, PointersAssumption
  <2>2. \A r, s \in todo' : r.kind # "plain" /\ s.kind # "plain" => r = s
    BY <1>11, <1>13
  <2>3. \A s \in todo' : s.kind = "plain" /\ s.field = "next" => s.at # Anchor
    BY <1>11, <2>1
  <2>4. \A s \in todo' : s.kind = "del" =>
          /\ lock' \in Takers /\ s.field = "next" /\ s.at = Anchor
          /\ linked' # <<>> /\ s.val = Oldest(Tail(linked')) /\ node'[lock'] = linked'[1]
    BY <1>1, <1>4, <1>9, <1>11
  <2>5. \A s \in todo' : s.kind # "add"
    BY <1>11
  <2> QED
    BY <1>8, <2>2, <2>3, <2>4, <2>5 DEF StoreInv
<1>15. HolderInv'
  <2>1. \A u \in Threads : lock' = u <=> pc'[u] \in {"added", "taking"}
    BY <1>1, <1>2, <1>9, ThreadsAssumption DEF HolderInv
  <2>2. \A u \in Threads : pc'[u] # "idle" <=> node'[u] \in Nodes
    BY <1>1, <1>2, <1>5, <1>9 DEF HolderInv
  <2>3. \A u \in Adders : t # u /\ u \in Threads
    BY ThreadsAssumption DEF Threads
  <2>4. \A u \in Takers : u \in Threads
    BY DEF Threads
  <2>5. /\ \A u \in Adders : pc'[u] \in {"idle", "add", "added"}
        /\ \A u \in Takers : pc'[u] \in {"idle", "taking", "taken"}
    BY <1>2, <1>9, <2>3, <2>4 DEF HolderInv
  <2>6. Deleting'
    BY <1>12 DEF Deleting
  <2> QED
    BY <1>1, <2>1, <2>2, <2>5, <2>6 DEF HolderInv
<1>16. OnePlace'
  <2>1. \A u \in Threads : node[u] \notin ToSet(linked)
    BY <1>1, NodeOutside, ThreadsAssumption
  <2> QED
    BY <1>1, <1>2, <1>5, <1>9, <2>1 DEF OnePlace
<1>17. HeadInv'
  BY <1>1, <1>2 DEF HeadInv
<1>18. RingInv'
  <2>1. LinkedDone' = Tail(linked)
    BY <1>1, <1>11, <1>12 DEF LinkedDone, Adding, Deleting
  <2>2. NextDone' = Done(todo', "next", next) /\ PrevDone' = Done(todo', "prev", prev)
    BY <1>1 DEF NextDone, PrevDone
  <2> QED
    BY <1>8, <2>1, <2>2 DEF RingInv
<1> QED
  BY <1>4, <1>10, <1>14, <1>15, <1>16, <1>17, <1>18 DEF IndInv

\* The last store is done, and the lock released; the node is out of the list.
LEMMA AcquireUnlockStep ==
  ASSUME IndInv, NEW t \in Takers, AcquireUnlock(t)
  PROVE  IndInv'
<1>1. /\ pc[t] = "taking" /\ lock = t /\ todo = {} /\ lock' = NoOne
      /\ pc' = [pc EXCEPT ![t] = "taken"] /\ node' = node
      /\ next' = next /\ prev' = prev /\ todo' = todo /\ verdict' = verdict
      /\ linked' = linked /\ t \in Threads
  BY DEF AcquireUnlock, Threads
<1>2. TypeOK /\ StoreInv /\ HolderInv /\ OnePlace /\ HeadInv
  BY DEF IndInv
<1>3. /\ pc' \in [Threads -> {"idle", "add", "added", "taking", "taken"}]
      /\ pc'[t] = "taken" /\ \A u \in Threads \ {t} : pc'[u] = pc[u]
  BY <1>1, <1>2 DEF TypeOK
<1>4. TypeOK'
  BY <1>1, <1>2, <1>3 DEF TypeOK
<1>5. StoreInv'
  BY <1>1, <1>2 DEF StoreInv, OneStoreEach
<1>6. HolderInv'
  <2>1. \A u \in Threads : lock' = u <=> pc'[u] \in {"added", "taking"}
    BY <1>1, <1>2, <1>3, ThreadsAssumption DEF HolderInv
  <2>2. \A u \in Threads : pc'[u] # "idle" <=> node'[u] \in Nodes
    BY <1>1, <1>2, <1>3 DEF HolderInv
  <2>3. \A u \in Adders : t # u /\ u \in Threads
    BY ThreadsAssumption DEF Threads
  <2>4. \A u \in Takers : u \in Threads /\ u # NoOne
    BY ThreadsAssumption DEF Threads
  <2>5. /\ \A u \in Adders : pc'[u] \in {"idle", "add", "added"}
        /\ \A u \in Takers : pc'[u] \in {"idle", "taking", "taken"}
    BY <1>2, <1>3, <2>3, <2>4 DEF HolderInv
  <2> QED
    BY <1>1, <2>1, <2>2, <2>4, <2>5 DEF HolderInv
<1>7. OnePlace'
  <2>1. node[t] \notin ToSet(linked)
    BY <1>1, <1>2 DEF HolderInv, Deleting
  <2> QED
    BY <1>1, <1>2, <2>1 DEF OnePlace
<1>8. HeadInv'
  BY <1>1, <1>2 DEF HeadInv
<1>9. RingInv'
  <2>1. LinkedDone = linked /\ LinkedDone' = linked
    BY <1>1 DEF LinkedDone, Adding, Deleting
  <2>2. NextDone' = NextDone /\ PrevDone' = PrevDone
    BY <1>1 DEF NextDone, PrevDone
  <2> QED
    BY <2>1, <2>2 DEF RingInv, IndInv
<1> QED
  BY <1>4, <1>5, <1>6, <1>7, <1>8, <1>9 DEF IndInv

\* task_node_recycle frees a node that is not in the list.
LEMMA RecycleStep ==
  ASSUME IndInv, NEW t \in Takers, Recycle(t)
  PROVE  IndInv'
<1>1. /\ pc[t] = "taken" /\ node' = [node EXCEPT ![t] = NoNode]
      /\ pc' = [pc EXCEPT ![t] = "idle"] /\ lock' = lock
      /\ next' = next /\ prev' = prev /\ todo' = todo /\ verdict' = verdict
      /\ linked' = linked /\ t \in Threads /\ NoNode \notin Nodes
  BY PointersAssumption DEF Recycle, Threads
<1>2. TypeOK /\ StoreInv /\ HolderInv /\ OnePlace /\ HeadInv
  BY DEF IndInv
<1>3. /\ pc' \in [Threads -> {"idle", "add", "added", "taking", "taken"}]
      /\ pc'[t] = "idle" /\ \A u \in Threads \ {t} : pc'[u] = pc[u]
      /\ node' \in [Threads -> Nodes \cup {NoNode}] /\ node'[t] = NoNode
      /\ \A u \in Threads \ {t} : node'[u] = node[u]
  BY <1>1, <1>2 DEF TypeOK
<1>4. lock # t /\ (todo # {} => lock \in Threads /\ node'[lock] = node[lock])
  <2>1. lock # t
    BY <1>1, <1>2 DEF HolderInv
  <2> QED
    BY <1>2, <1>3, <2>1 DEF TypeOK, HolderInv
<1>5. NoNode \notin ToSet(linked)
  BY <1>1, <1>2 DEF TypeOK, ToSet
<1>6. TypeOK'
  BY <1>1, <1>2, <1>3 DEF TypeOK
<1>7. StoreInv'
  <2>1. \A s \in todo : node'[lock] = node[lock]
    BY <1>4
  <2> QED
    BY <1>1, <1>2, <2>1 DEF StoreInv
<1>8. HolderInv'
  <2>1. \A u \in Threads : lock' = u <=> pc'[u] \in {"added", "taking"}
    BY <1>1, <1>2, <1>3, <1>4 DEF HolderInv
  <2>2. \A u \in Threads : pc'[u] # "idle" <=> node'[u] \in Nodes
    BY <1>1, <1>2, <1>3 DEF HolderInv
  <2>3. \A u \in Adders : t # u /\ u \in Threads
    BY ThreadsAssumption DEF Threads
  <2>4. \A u \in Takers : u \in Threads
    BY DEF Threads
  <2>5. /\ \A u \in Adders : pc'[u] \in {"idle", "add", "added"}
        /\ \A u \in Takers : pc'[u] \in {"idle", "taking", "taken"}
    BY <1>2, <1>3, <2>3, <2>4 DEF HolderInv
  <2>6. \A u \in Takers : lock = u /\ ~Deleting' => node'[u] \notin ToSet(linked)
    BY <1>1, <1>2, <1>3, <1>4, <2>4 DEF HolderInv, Deleting
  <2> QED
    BY <1>1, <1>2, <2>1, <2>2, <2>5, <2>6 DEF HolderInv
<1>9. OnePlace'
  BY <1>1, <1>2, <1>3, <1>5 DEF OnePlace
<1>10. HeadInv'
  BY <1>1, <1>2 DEF HeadInv
<1>11. RingInv'
  <2>1. LinkedDone' = LinkedDone
    BY <1>1, <1>4 DEF LinkedDone, Adding, Deleting
  <2>2. NextDone' = NextDone /\ PrevDone' = PrevDone
    BY <1>1 DEF NextDone, PrevDone
  <2> QED
    BY <2>1, <2>2 DEF RingInv, IndInv
<1> QED
  BY <1>6, <1>7, <1>8, <1>9, <1>10, <1>11 DEF IndInv

\* Every store leaves the list as it will be.
LEMMA StoreFields ==
  ASSUME IndInv, NEW s \in todo,
         IF s.field = "next"
         THEN next' = [next EXCEPT ![s.at] = s.val] /\ UNCHANGED prev
         ELSE prev' = [prev EXCEPT ![s.at] = s.val] /\ UNCHANGED next,
         todo' = todo \ {s}
  PROVE  /\ next' \in [Cells -> Pointers] /\ prev' \in [Cells -> Pointers]
         /\ NextDone' = NextDone /\ PrevDone' = PrevDone
         /\ next'[Anchor] = IF s.field = "next" /\ s.at = Anchor THEN s.val ELSE next[Anchor]
<1>1. TypeOK /\ StoreInv
  BY DEF IndInv
<1>2. s \in Stores /\ OneStoreEach(todo)
  BY <1>1 DEF StoreInv
<1>3. s.at \in Cells /\ s.val \in Pointers /\ s.field \in {"next", "prev"}
  BY <1>2 DEF Stores
<1>4. next \in [Cells -> Pointers] /\ prev \in [Cells -> Pointers]
  BY <1>1 DEF TypeOK
<1>5. next' \in [Cells -> Pointers] /\ prev' \in [Cells -> Pointers]
  BY <1>3, <1>4
<1>6. \A c \in Cells : next'[c] = IF s.field = "next" /\ s.at = c THEN s.val ELSE next[c]
  BY <1>3, <1>4
<1>7. \A c \in Cells : prev'[c] = IF s.field = "prev" /\ s.at = c THEN s.val ELSE prev[c]
  BY <1>3, <1>4
<1>8. Done(todo \ {s}, "next", next') = NextDone
  BY <1>2, <1>4, <1>5, <1>6, DoneStore DEF NextDone
<1>9. Done(todo \ {s}, "prev", prev') = PrevDone
  BY <1>2, <1>4, <1>5, <1>7, DoneStore DEF PrevDone
<1>10. Anchor \in Cells
  BY DEF Cells
<1> QED
  BY <1>5, <1>6, <1>8, <1>9, <1>10 DEF NextDone, PrevDone

\* A store adds a node, takes the first one out or leaves the queue alone.
LEMMA StoreKinds ==
  ASSUME IndInv, NEW t \in Threads, DoStore(t)
  PROVE  \E s \in todo :
           /\ s.kind \in {"plain", "add", "del"}
           /\ todo' = todo \ {s}
           /\ IF s.field = "next"
              THEN next' = [next EXCEPT ![s.at] = s.val] /\ UNCHANGED prev
              ELSE prev' = [prev EXCEPT ![s.at] = s.val] /\ UNCHANGED next
           /\ s.kind = "add" => linked' = Append(linked, node[t])
           /\ s.kind = "del" => linked' = Tail(linked)
           /\ s.kind = "plain" => linked' = linked
<1>1. PICK s \in todo :
        /\ todo' = todo \ {s}
        /\ IF s.field = "next"
           THEN next' = [next EXCEPT ![s.at] = s.val] /\ UNCHANGED prev
           ELSE prev' = [prev EXCEPT ![s.at] = s.val] /\ UNCHANGED next
        /\ linked' = CASE s.kind = "add" -> Append(linked, node[t])
                       [] s.kind = "del" -> Tail(linked)
                       [] OTHER -> linked
  BY DEF DoStore
<1>2. s.kind \in {"plain", "add", "del"}
  BY DEF IndInv, StoreInv, Stores
<1>3. s.kind = "add" => linked' = Append(linked, node[t])
  BY <1>1
<1>4. s.kind = "del" => linked' = Tail(linked)
  BY <1>1
<1>5. s.kind = "plain" => linked' = linked
  BY <1>1
<1> QED
  BY <1>1, <1>2, <1>3, <1>4, <1>5

\* The holder of the lock does one of its stores, whichever.
LEMMA StoreStep ==
  ASSUME IndInv, NEW t \in Threads, DoStore(t)
  PROVE  IndInv'
<1>1. PICK s \in todo :
           /\ s.kind \in {"plain", "add", "del"}
           /\ todo' = todo \ {s}
           /\ IF s.field = "next"
              THEN next' = [next EXCEPT ![s.at] = s.val] /\ UNCHANGED prev
              ELSE prev' = [prev EXCEPT ![s.at] = s.val] /\ UNCHANGED next
           /\ s.kind = "add" => linked' = Append(linked, node[t])
           /\ s.kind = "del" => linked' = Tail(linked)
           /\ s.kind = "plain" => linked' = linked
  BY StoreKinds
<1>2. TypeOK /\ StoreInv /\ HolderInv /\ OnePlace /\ HeadInv /\ RingInv
  BY DEF IndInv
<1>3. lock = t /\ lock' = lock /\ pc' = pc /\ node' = node /\ verdict' = verdict
  BY DEF DoStore
<1>4. /\ next' \in [Cells -> Pointers] /\ prev' \in [Cells -> Pointers]
      /\ NextDone' = NextDone /\ PrevDone' = PrevDone
      /\ next'[Anchor] = IF s.field = "next" /\ s.at = Anchor THEN s.val ELSE next[Anchor]
  BY <1>1, StoreFields
<1>5. linked \in Seq(Nodes) /\ IsInjective(linked)
  BY <1>2 DEF TypeOK, OnePlace
<1>6. s.kind = "add" =>
        /\ lock \in Adders /\ s.field = "next" /\ s.at = Newest(linked) /\ s.val = node[t]
        /\ node[t] \in Nodes \ ToSet(linked)
        /\ linked' \in Seq(Nodes) /\ linked' # <<>> /\ IsInjective(linked')
        /\ ToSet(linked') = ToSet(linked) \cup {node[t]}
  <2>1. s.kind = "add" =>
        /\ lock \in Adders /\ s.field = "next" /\ s.at = Newest(linked) /\ s.val = node[t]
        /\ node[t] \in Nodes \ ToSet(linked)
    BY <1>2, <1>3 DEF StoreInv
  <2> QED
    BY <1>1, <1>5, <2>1, AppendNode
<1>7. s.kind = "del" =>
        /\ lock \in Takers /\ s.field = "next" /\ s.at = Anchor /\ s.val = Oldest(Tail(linked))
        /\ linked # <<>> /\ node[t] = linked[1]
        /\ linked' \in Seq(Nodes) /\ IsInjective(linked')
        /\ ToSet(linked') = ToSet(linked) \ {node[t]}
  <2>1. s.kind = "del" =>
        /\ lock \in Takers /\ s.field = "next" /\ s.at = Anchor /\ s.val = Oldest(Tail(linked))
        /\ linked # <<>> /\ node[t] = linked[1]
    BY <1>2, <1>3 DEF StoreInv
  <2> QED
    BY <1>1, <1>5, <2>1, TailNode
<1>8. \A r \in todo' : r.kind = "plain" \/ s.kind = "plain"
  BY <1>1, <1>2 DEF StoreInv
<1>9. TypeOK'
  <2>1. linked' \in Seq(Nodes)
    BY <1>1, <1>5, <1>6, <1>7
  <2>2. \A r \in todo' : r.at \in Cells /\ r.val \in Pointers
    BY <1>1, <1>2 DEF TypeOK
  <2> QED
    BY <1>2, <1>3, <1>4, <2>1, <2>2 DEF TypeOK
<1>10. StoreInv'
  <2>1. /\ todo' \subseteq Stores
        /\ \A r, u \in todo' : r.kind # "plain" /\ u.kind # "plain" => r = u
        /\ \A r \in todo' : r.kind = "plain" /\ r.field = "next" => r.at # Anchor
    BY <1>1, <1>2 DEF StoreInv
  <2>2. OneStoreEach(todo')
    BY <1>1, <1>2 DEF StoreInv, OneStoreEach
  <2>3. \A r \in todo' : r.kind # "plain" => r \in todo /\ linked' = linked
    BY <1>1, <1>8
  <2>4. \A r \in todo' : r.kind = "add" =>
          /\ lock' \in Adders /\ r.field = "next"
          /\ r.at = Newest(linked') /\ r.val = node'[lock']
          /\ node'[lock'] \in Nodes \ ToSet(linked')
    BY <1>2, <1>3, <2>3 DEF StoreInv
  <2>5. \A r \in todo' : r.kind = "del" =>
          /\ lock' \in Takers /\ r.field = "next" /\ r.at = Anchor
          /\ linked' # <<>> /\ r.val = Oldest(Tail(linked')) /\ node'[lock'] = linked'[1]
    BY <1>2, <1>3, <2>3 DEF StoreInv
  <2> QED
    BY <2>1, <2>2, <2>4, <2>5 DEF StoreInv
<1>11. HolderInv'
  <2>1. lock' # NoOne
    BY <1>3, ThreadsAssumption
  <2>2. \A u \in Takers : lock' = u /\ ~Deleting' => node'[u] \notin ToSet(linked')
    <3>1. SUFFICES ASSUME t \in Takers, ~Deleting' PROVE node[t] \notin ToSet(linked')
      BY <1>3
    <3>2. CASE s.kind = "add"
      BY <1>3, <1>6, <3>1, <3>2, ThreadsAssumption
    <3>3. CASE s.kind = "del"
      BY <1>7, <3>3
    <3>4. CASE s.kind = "plain"
      BY <1>1, <1>2, <1>3, <3>1, <3>4 DEF HolderInv, Deleting
    <3> QED
      BY <1>1, <3>2, <3>3, <3>4
  <2> QED
    BY <1>2, <1>3, <2>1, <2>2 DEF HolderInv
<1>12. OnePlace'
  <2>1. IsInjective(linked')
    BY <1>1, <1>5, <1>6, <1>7
  <2>2. \A u \in Threads : node[u] \in ToSet(linked') => node[u] \in ToSet(linked) \/ node[u] = node[t]
    BY <1>1, <1>6, <1>7
  <2>3. \A u \in Threads : node[u] \in ToSet(linked') => lock = u
    <3>1. node[t] \in ToSet(linked') => node[t] # NoNode
      BY <1>9, PointersAssumption DEF TypeOK, ToSet
    <3> QED
      BY <1>2, <1>3, <2>2, <3>1 DEF OnePlace
  <2>4. \A u, v \in Threads : node[u] = node[v] /\ node[u] # NoNode => u = v
    BY <1>2 DEF OnePlace
  <2> QED
    BY <1>3, <2>1, <2>3, <2>4 DEF OnePlace
<1>13. HeadInv'
  <2>1. CASE s.kind = "add"
    <3>1. /\ linked' = Append(linked, node[t]) /\ linked' # <<>>
          /\ linked'[Len(linked) + 1] = node[t]
          /\ \A i \in 1..Len(linked) : linked'[i] = linked[i]
      BY <1>1, <1>5, <1>6, <2>1, AppendNode
    <3>2. CASE linked = <<>>
      <4>1. Newest(linked) = Anchor /\ Len(linked) = 0
        BY <3>2 DEF Newest
      <4>2. Oldest(linked') = node[t]
        BY <3>1, <4>1 DEF Oldest
      <4> QED
        BY <1>4, <1>6, <2>1, <4>1, <4>2 DEF HeadInv
    <3>3. CASE linked # <<>>
      <4>1. Len(linked) \in Nat \ {0} /\ linked[Len(linked)] \in Nodes
        BY <1>5, <3>3
      <4>2. Newest(linked) # Anchor
        BY <3>3, <4>1, PointersAssumption DEF Newest
      <4>3. Oldest(linked') = Oldest(linked)
        BY <3>1, <3>3, <4>1 DEF Oldest
      <4> QED
        BY <1>2, <1>4, <1>6, <2>1, <4>2, <4>3 DEF HeadInv
    <3> QED
      BY <3>2, <3>3
  <2>2. CASE s.kind = "del"
    BY <1>1, <1>4, <1>7, <2>2 DEF HeadInv
  <2>3. CASE s.kind = "plain"
    <3>1. ~(s.field = "next" /\ s.at = Anchor)
      BY <1>2, <2>3 DEF StoreInv
    <3> QED
      BY <1>1, <1>2, <1>4, <2>3, <3>1 DEF HeadInv
  <2> QED
    BY <1>1, <2>1, <2>2, <2>3
<1>14. RingInv'
  <2>1. LinkedDone' = LinkedDone
    <3>1. CASE s.kind = "add"
      <4>1. Adding /\ ~Adding' /\ ~Deleting'
        BY <1>1, <1>8, <3>1 DEF Adding, Deleting
      <4> QED
        BY <1>1, <1>3, <3>1, <4>1 DEF LinkedDone
    <3>2. CASE s.kind = "del"
      <4>1. Deleting /\ ~Adding /\ ~Adding' /\ ~Deleting'
        BY <1>1, <1>8, <3>2 DEF Adding, Deleting
      <4> QED
        BY <1>1, <3>2, <4>1 DEF LinkedDone
    <3>3. CASE s.kind = "plain"
      <4>1. (Adding' <=> Adding) /\ (Deleting' <=> Deleting)
        BY <1>1, <3>3 DEF Adding, Deleting
      <4> QED
        BY <1>1, <1>3, <3>3, <4>1 DEF LinkedDone
    <3> QED
      BY <1>1, <3>1, <3>2, <3>3
  <2> QED
    BY <1>2, <1>4, <2>1 DEF RingInv
<1> QED
  BY <1>9, <1>10, <1>11, <1>12, <1>13, <1>14 DEF IndInv

\* Reading the list, with the lock or without it, changes nothing.
LEMMA LookStep ==
  ASSUME IndInv, LookUnlocked \/ UNCHANGED vars
  PROVE  IndInv'
<1>1. /\ next' = next /\ prev' = prev /\ lock' = lock /\ todo' = todo /\ pc' = pc
      /\ node' = node /\ linked' = linked
  BY DEF LookUnlocked, vars
<1>2. verdict' \in BOOLEAN
  <2>1. CASE LookUnlocked
    <3>1. verdict' = (next[Anchor] = Anchor)
      BY <2>1 DEF LookUnlocked, ListEmpty
    <3> QED
      BY <3>1, Zenon
  <2>2. CASE UNCHANGED vars
    BY <2>2 DEF vars, IndInv, TypeOK
  <2> QED
    BY <2>1, <2>2
<1>3. TypeOK'
  BY <1>1, <1>2 DEF IndInv, TypeOK
<1>4. StoreInv' /\ HolderInv'
  BY <1>1 DEF IndInv, StoreInv, HolderInv, Deleting
<1>5. OnePlace' /\ HeadInv'
  BY <1>1 DEF IndInv, OnePlace, HeadInv
<1>6. RingInv'
  <2>1. LinkedDone' = LinkedDone
    BY <1>1 DEF LinkedDone, Adding, Deleting
  <2>2. NextDone' = NextDone /\ PrevDone' = PrevDone
    BY <1>1 DEF NextDone, PrevDone
  <2> QED
    BY <2>1, <2>2 DEF RingInv, IndInv
<1> QED
  BY <1>3, <1>4, <1>5, <1>6 DEF IndInv

\* Every step preserves the invariant.
LEMMA IndStep == IndInv /\ [Next]_vars => IndInv'
<1> SUFFICES ASSUME IndInv, [Next]_vars PROVE IndInv'
  OBVIOUS
<1>1. ASSUME NEW a \in Adders, Allocate(a) PROVE IndInv'
  BY <1>1, AllocateStep
<1>2. ASSUME NEW a \in Adders, AddLocked(a) PROVE IndInv'
  BY <1>2, AddLockedStep
<1>3. ASSUME NEW a \in Adders, AddUnlock(a) PROVE IndInv'
  BY <1>3, AddUnlockStep
<1>4. ASSUME NEW t \in Takers, AcquireNull(t) PROVE IndInv'
  BY <1>4, LookStep DEF AcquireNull
<1>5. ASSUME NEW t \in Takers, AcquireLocked(t) PROVE IndInv'
  BY <1>5, AcquireLockedStep
<1>6. ASSUME NEW t \in Takers, AcquireUnlock(t) PROVE IndInv'
  BY <1>6, AcquireUnlockStep
<1>7. ASSUME NEW t \in Takers, Recycle(t) PROVE IndInv'
  BY <1>7, RecycleStep
<1>8. ASSUME NEW t \in Threads, DoStore(t) PROVE IndInv'
  BY <1>8, StoreStep
<1>9. CASE LookUnlocked \/ UNCHANGED vars
  BY <1>9, LookStep
<1> QED
  BY <1>1, <1>2, <1>3, <1>4, <1>5, <1>6, <1>7, <1>8, <1>9 DEF Next

-----------------------------------------------------------------------------
(* The theorems                                                            *)

\* The invariant of the list: it will be a ring through the queue, and nobody
\* but the holder of pendlock has anything to store.
THEOREM ListInvariant == Spec => []IndInv
<1>1. Init => IndInv
  BY IndInit
<1>2. IndInv /\ [Next]_vars => IndInv'
  BY IndStep
<1> QED
  BY <1>1, <1>2, PTL DEF Spec

\* Fields hold addresses or poison, and the lock a thread.
THEOREM ListTypeCorrect == Spec => []TypeOK
<1>1. IndInv => TypeOK
  BY DEF IndInv
<1> QED
  BY <1>1, ListInvariant, PTL

\* Whenever nobody changes the list, the links of dlist.h lead through the
\* queue and back, both ways round.
THEOREM ListIsRing == Spec => []RingIsQueue
<1>1. IndInv => RingIsQueue
  <2> SUFFICES ASSUME IndInv, lock = NoOne,
                      NEW i \in 1..(Len(<<Anchor>> \o linked \o <<Anchor>>) - 1)
               PROVE  LET ring == <<Anchor>> \o linked \o <<Anchor>>
                      IN  next[ring[i]] = ring[i + 1] /\ prev[ring[i + 1]] = ring[i]
    BY DEF RingIsQueue
  <2> DEFINE ring == <<Anchor>> \o linked \o <<Anchor>>
             n == Len(linked)
  <2>1. IsRing(next, prev, linked)
    BY UnlockedRing
  <2>2. linked \in Seq(Nodes) /\ n \in Nat /\ (linked = <<>> <=> n = 0)
    BY DEF IndInv, TypeOK
  <2>3. /\ Len(ring) = n + 2 /\ ring[1] = Anchor /\ ring[n + 2] = Anchor
        /\ \A k \in 1..n : ring[k + 1] = linked[k]
    <3>1. <<Anchor>> \in Seq(Cells) /\ linked \in Seq(Cells)
      <4>1. Anchor \in Cells /\ Nodes \subseteq Cells
        BY DEF Cells
      <4> QED
        BY <2>2, <4>1
    <3> DEFINE front == <<Anchor>> \o linked
    <3>2. /\ front \in Seq(Cells) /\ Len(front) = n + 1 /\ front[1] = Anchor
          /\ \A k \in 1..n : front[k + 1] = linked[k]
      BY <2>2, <3>1
    <3> HIDE DEF front
    <3>3. /\ Len(front \o <<Anchor>>) = n + 2 /\ (front \o <<Anchor>>)[n + 2] = Anchor
          /\ \A k \in 1..(n + 1) : (front \o <<Anchor>>)[k] = front[k]
      BY <2>2, <3>1, <3>2
    <3> QED
      BY <2>2, <3>2, <3>3 DEF front
  <2> HIDE DEF ring, n
  <2>4. i \in 1..(n + 1)
    BY <2>2, <2>3 DEF ring
  <2>5. next[ring[i]] = ring[i + 1]
    <3>1. CASE i = 1 /\ n = 0
      BY <2>1, <2>2, <2>3, <3>1 DEF IsRing, Oldest
    <3>2. CASE i = 1 /\ n # 0
      <4>1. ring[i + 1] = linked[1]
        BY <2>2, <2>3, <3>2
      <4> QED
        BY <2>1, <2>2, <2>3, <3>2, <4>1 DEF IsRing, Oldest
    <3>3. CASE i # 1
      <4>1. PICK k \in 1..n : i = k + 1
        <5>1. i - 1 \in 1..n /\ i = (i - 1) + 1
          BY <2>2, <2>4, <3>3
        <5> QED
          BY <5>1
      <4>2. ring[i] = linked[k] /\ next[linked[k]] = After(linked, k)
        BY <2>1, <2>3, <4>1 DEF IsRing, n
      <4>3. ring[i + 1] = After(linked, k)
        <5>1. CASE k = n
          <6>1. i + 1 = n + 2
            BY <2>2, <4>1, <5>1
          <6> QED
            BY <2>3, <5>1, <6>1 DEF After, n
        <5>2. CASE k # n
          <6>1. k + 1 \in 1..n /\ i + 1 = (k + 1) + 1
            BY <2>2, <4>1, <5>2
          <6> QED
            BY <2>3, <5>2, <6>1 DEF After, n
        <5> QED
          BY <5>1, <5>2
      <4> QED
        BY <4>2, <4>3
    <3> QED
      BY <3>1, <3>2, <3>3
  <2>6. prev[ring[i + 1]] = ring[i]
    <3>1. CASE i = n + 1 /\ n = 0
      BY <2>1, <2>2, <2>3, <3>1 DEF IsRing, Newest
    <3>2. CASE i = n + 1 /\ n # 0
      <4>1. n \in 1..n /\ i + 1 = n + 2
        BY <2>2, <3>2
      <4>2. ring[i] = linked[n] /\ ring[i + 1] = Anchor
        BY <2>3, <3>2, <4>1
      <4> QED
        BY <2>1, <2>2, <3>2, <4>2 DEF IsRing, Newest, n
    <3>3. CASE i # n + 1
      <4>1. i \in 1..n
        BY <2>2, <2>4, <3>3
      <4>2. ring[i + 1] = linked[i] /\ prev[linked[i]] = Before(linked, i)
        BY <2>1, <2>3, <4>1 DEF IsRing, n
      <4>3. ring[i] = Before(linked, i)
        <5>1. CASE i = 1
          BY <2>3, <5>1 DEF Before
        <5>2. CASE i # 1
          <6>1. i - 1 \in 1..n /\ i = (i - 1) + 1
            BY <2>2, <4>1, <5>2
          <6>2. ring[(i - 1) + 1] = linked[i - 1]
            BY <2>3, <6>1
          <6> QED
            BY <5>2, <6>1, <6>2 DEF Before
        <5> QED
          BY <5>1, <5>2
      <4> QED
        BY <4>2, <4>3
    <3> QED
      BY <3>1, <3>2, <3>3
  <2> QED
    BY <2>5, <2>6 DEF ring
<1> QED
  BY <1>1, ListInvariant, PTL

\* The list_empty of task_allocate, without pendlock, is exact at every moment.
THEOREM UnlockedTestIsExact == Spec => []UnlockedEmptyIsExact
<1>1. IndInv => UnlockedEmptyIsExact
  <2> SUFFICES ASSUME IndInv PROVE UnlockedEmptyIsExact
    OBVIOUS
  <2>1. linked \in Seq(Nodes) /\ next[Anchor] = Oldest(linked) /\ Anchor \notin Nodes
    BY PointersAssumption DEF IndInv, TypeOK, HeadInv
  <2>2. linked # <<>> => linked[1] \in Nodes
    BY <2>1
  <2> QED
    BY <2>1, <2>2 DEF UnlockedEmptyIsExact, Oldest
<1> QED
  BY <1>1, ListInvariant, PTL

\* A node is in the queue once, or in one thread's hands; in both only while
\* that thread holds pendlock.
THEOREM NodesInOnePlace == Spec => []OnePlace
<1>1. IndInv => OnePlace
  BY DEF IndInv
<1> QED
  BY <1>1, ListInvariant, PTL

\* Every step of the list is an operation of the queue at one instant, or none.
THEOREM ListImplementsQueue == Spec => ImplementsQueue
<1>1. Init => Queue!Init
  BY DEF Init, Queue!Init
<1>2. IndInv /\ [Next]_vars => [Queue!Next]_(Queue!vars)
  <2> SUFFICES ASSUME IndInv, [Next]_vars PROVE [Queue!Next]_(Queue!vars)
    OBVIOUS
  <2>1. CASE linked' = linked /\ verdict' = verdict
    BY <2>1 DEF Queue!vars
  <2>2. ASSUME NEW t \in Threads, DoStore(t) PROVE [Queue!Next]_(Queue!vars)
    <3>1. PICK s \in todo :
             /\ s.kind \in {"plain", "add", "del"}
             /\ s.kind = "add" => linked' = Append(linked, node[t])
             /\ s.kind = "del" => linked' = Tail(linked)
             /\ s.kind = "plain" => linked' = linked
      BY <2>2, StoreKinds
    <3>2. verdict' = verdict /\ lock = t
      BY <2>2 DEF DoStore
    <3>3. CASE s.kind = "add"
      <4>1. node[t] \in Nodes /\ node[t] \notin ToSet(linked)
        BY <3>2, <3>3 DEF IndInv, StoreInv
      <4>2. \A i \in DOMAIN linked : linked[i] # node[t]
        BY <4>1 DEF ToSet
      <4>3. Queue!Add(node[t])
        BY <3>1, <3>2, <3>3, <4>2 DEF Queue!Add
      <4> QED
        BY <4>1, <4>3 DEF Queue!Next
    <3>4. CASE s.kind = "del"
      <4>1. linked # <<>>
        BY <3>4 DEF IndInv, StoreInv
      <4>2. Queue!Acquire
        BY <3>1, <3>2, <3>4, <4>1 DEF Queue!Acquire
      <4> QED
        BY <4>2 DEF Queue!Next
    <3>5. CASE s.kind = "plain"
      BY <3>1, <3>2, <3>5 DEF Queue!vars
    <3> QED
      BY <3>1, <3>3, <3>4, <3>5
  <2>3. CASE LookUnlocked
    <3>1. linked \in Seq(Nodes) /\ next[Anchor] = Oldest(linked) /\ Anchor \notin Nodes
      BY PointersAssumption DEF IndInv, TypeOK, HeadInv
    <3>2. (next[Anchor] = Anchor) <=> (linked = <<>>)
      <4>1. linked # <<>> => linked[1] \in Nodes
        BY <3>1
      <4> QED
        BY <3>1, <4>1 DEF Oldest
    <3>3. verdict' = (next[Anchor] = Anchor) /\ linked' = linked
      BY <2>3 DEF LookUnlocked, ListEmpty
    <3>4. verdict' = (linked = <<>>)
      BY <3>2, <3>3, Zenon
    <3> QED
      BY <3>3, <3>4, Zenon DEF Queue!AskEmpty, Queue!Next
  <2>4. ASSUME NEW a \in Adders, Allocate(a) \/ AddLocked(a) \/ AddUnlock(a)
        PROVE  linked' = linked /\ verdict' = verdict
    BY <2>4 DEF Allocate, AddLocked, AddUnlock
  <2>5. ASSUME NEW t \in Takers,
               AcquireNull(t) \/ AcquireLocked(t) \/ AcquireUnlock(t) \/ Recycle(t)
        PROVE  linked' = linked /\ verdict' = verdict
    BY <2>5 DEF AcquireNull, AcquireLocked, AcquireUnlock, Recycle, vars
  <2>6. CASE UNCHANGED vars
    BY <2>1, <2>6 DEF vars
  <2> QED
    BY <2>1, <2>2, <2>3, <2>4, <2>5, <2>6 DEF Next
<1> QED
  BY <1>1, <1>2, ListInvariant, PTL DEF Spec, ImplementsQueue, Queue!Spec

=============================================================================
