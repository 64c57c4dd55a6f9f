--------------------------- MODULE StartUpProofs ---------------------------
(***************************************************************************)
(* Proofs about three sequential parts of the server: the table of network *)
(* interfaces (NetDevices), for any interfaces and any sizes of the buffer *)
(* and the table; set_serial (SerialConfig), for any settings and any      *)
(* sequence of calls; and the list of devices (DeviceList), for any        *)
(* devices, registered and unregistered in any order.                      *)
(***************************************************************************)
EXTENDS NetDevices, SerialConfig, DeviceList, FiniteSetTheorems, TLAPS

-----------------------------------------------------------------------------
(* The table of network interfaces                                         *)

NetStates == {"conf", "card", "table", "search", "listening", "exit"}

NetTypeOK ==
  /\ npc \in NetStates
  /\ buf \in Seq(Interfaces)
  /\ Len(buf) <= BufNum
  /\ num \in 0..Len(buf)
  /\ idx \in Nat
  /\ names \in [Slots -> Interfaces \cup {Empty}]
  /\ addresses \in [Slots -> Interfaces \cup {Empty}]

\* The table when the loop of obtain_netdev_info has come down to from: the
\* reports behind it are entered, each in a place of its own, and no others.
Filled(from) ==
  /\ \A k \in Cards : k > from => names[Behind(k)] = buf[k]
  /\ \A i \in Slots : i < Behind(from) => \E k \in Cards : k > from /\ Behind(k) = i
  /\ \A i \in Slots : i >= Behind(from) => names[i] = Empty
  /\ addresses = names

\* Where the two functions are, and what they have done until there.
NetInv ==
  /\ NetTypeOK
  /\ npc = "conf" => /\ buf = <<>> /\ idx = 0
                     /\ \A i \in Slots : names[i] = Empty
                     /\ addresses = names
  /\ npc = "card" => idx = Behind(num) /\ Filled(num)
  /\ npc = "table" => idx = Behind(0)
  /\ npc \in {"table", "search", "listening"} => Filled(0)
  /\ npc \in {"search", "listening"} =>
       /\ idx <= MaxNum
       /\ \A i \in Slots : i < idx => names[i] # Eth
  /\ npc = "listening" => idx = MaxNum \/ names[idx] = Eth

\* How many interfaces come after a report is a number, less than there are
\* reports.
LEMMA BehindNat ==
  ASSUME NetTypeOK
  PROVE  /\ IsFiniteSet(Cards)
         /\ \A k \in 0..Len(buf) : Behind(k) \in 0..(Len(buf) - k)
<1>1. DOMAIN buf = 1..Len(buf) /\ Len(buf) \in Nat
  BY DEF NetTypeOK
<1>2. IsFiniteSet(Cards)
  <2>1. Cards \in SUBSET DOMAIN buf
    BY DEF Cards
  <2>2. IsFiniteSet(DOMAIN buf)
    BY <1>1, FS_Interval
  <2> QED
    BY <2>1, <2>2, FS_Subset
<1>3. ASSUME NEW k \in 0..Len(buf) PROVE Behind(k) \in 0..(Len(buf) - k)
  <2> DEFINE later == (k + 1)..Len(buf)
  <2>1. IsFiniteSet(later) /\ Cardinality(later) = Len(buf) - k
    <3>1. k + 1 \in Int /\ Len(buf) \in Int
      BY <1>1
    <3>2. /\ IsFiniteSet(later)
          /\ Cardinality(later)
               = IF k + 1 > Len(buf) THEN 0 ELSE Len(buf) - (k + 1) + 1
      BY <3>1, FS_Interval
    <3> QED
      BY <1>1, <3>2
  <2>2. {c \in Cards : c > k} \in SUBSET later
    BY <1>1 DEF Cards
  <2>3. /\ IsFiniteSet({c \in Cards : c > k})
        /\ Cardinality({c \in Cards : c > k}) <= Cardinality(later)
    BY <2>1, <2>2, FS_Subset
  <2> QED
    BY <1>1, <2>1, <2>3, FS_CardinalityType DEF Behind
<1> QED
  BY <1>2, <1>3

\* A report counts for those before it unless it is the loopback.
LEMMA BehindStep ==
  ASSUME NetTypeOK, NEW k \in 1..Len(buf)
  PROVE  Behind(k - 1) = IF buf[k] = Lo THEN Behind(k) ELSE Behind(k) + 1
<1>1. DOMAIN buf = 1..Len(buf) /\ Len(buf) \in Nat
  BY DEF NetTypeOK
<1> DEFINE after == {c \in Cards : c > k}
           from == {c \in Cards : c > k - 1}
<1>2. IsFiniteSet(after)
  BY BehindNat, FS_Subset
<1>3. CASE buf[k] = Lo
  <2>1. from = after
    BY <1>1, <1>3 DEF Cards
  <2> QED
    BY <1>3, <2>1 DEF Behind
<1>4. CASE buf[k] # Lo
  <2>1. from = after \cup {k} /\ k \notin after
    BY <1>1, <1>4 DEF Cards
  <2> QED
    BY <1>2, <1>4, <2>1, FS_AddElement DEF Behind
<1> QED
  BY <1>3, <1>4

\* At the first report the count is that of all the interfaces.
LEMMA BehindFirst == ASSUME NetTypeOK PROVE Behind(0) = Cardinality(Cards)
<1>1. {c \in Cards : c > 0} = Cards
  BY DEF NetTypeOK, Cards
<1> QED
  BY <1>1 DEF Behind

\* The entry of an interface is not that of one before it.
LEMMA BehindLess ==
  ASSUME NetTypeOK, NEW k \in Cards, NEW from \in 0..Len(buf), k > from
  PROVE  Behind(k) < Behind(from)
<1> DEFINE after == {c \in Cards : c > k}
           more == {c \in Cards : c > from}
<1>1. k \in 1..Len(buf) /\ Len(buf) \in Nat
  BY DEF NetTypeOK, Cards
<1>2. IsFiniteSet(more) /\ IsFiniteSet(after)
  BY BehindNat, FS_Subset
<1>3. after \cup {k} \in SUBSET more /\ k \notin after
  <2>1. \A c \in Cards : c \in Nat
    BY DEF NetTypeOK, Cards
  <2>2. \A c \in Cards : c > k => c > from
    BY <1>1, <2>1
  <2>3. k > from /\ ~ (k > k)
    BY <1>1
  <2> QED
    BY <2>2, <2>3
<1>4. Cardinality(after \cup {k}) <= Cardinality(more)
  BY <1>2, <1>3, FS_Subset
<1>5. Cardinality(after \cup {k}) = Cardinality(after) + 1
  BY <1>2, <1>3, FS_AddElement
<1>6. Cardinality(after) \in Nat /\ Cardinality(more) \in Nat
  BY <1>2, FS_CardinalityType
<1> QED
  BY <1>4, <1>5, <1>6 DEF Behind

\* While the report stays as it is the counts do.
LEMMA CardsKept ==
  ASSUME buf' = buf
  PROVE  Cards' = Cards /\ \A k : Behind(k)' = Behind(k)
BY DEF Cards, Behind

\* A table that is left alone stays filled.
LEMMA FilledKept ==
  ASSUME UNCHANGED <<buf, names, addresses>>, NEW from, Filled(from)
  PROVE  Filled(from)'
BY CardsKept DEF Filled

\* The loopback has no entry.
LEMMA FilledSkip ==
  ASSUME NetInv, SkipLo
  PROVE  NetInv'
<1>1. /\ npc = "card" /\ num \in 1..Len(buf) /\ buf[num] = Lo
      /\ num' = num - 1
      /\ UNCHANGED <<npc, buf, up, idx, names, addresses, listen>>
  BY DEF SkipLo, Card, NetInv, NetTypeOK
<1>2. NetTypeOK'
  BY <1>1 DEF NetInv, NetTypeOK
<1>3. Behind(num - 1) = Behind(num)
  BY <1>1, BehindStep DEF NetInv
<1>4. \A k \in Cards : k > num - 1 <=> k > num
  BY <1>1 DEF Cards, NetInv, NetTypeOK
<1>5. Filled(num - 1)
  BY <1>1, <1>3, <1>4 DEF NetInv, Filled
<1>6. Behind(num)' = Behind(num - 1)
  BY <1>1 DEF Behind, Cards
<1>7. Filled(num)'
  BY <1>1, <1>5, <1>6, CardsKept DEF Filled
<1>8. idx' = Behind(num)'
  BY <1>1, <1>3, <1>6 DEF NetInv
<1> QED
  BY <1>1, <1>2, <1>7, <1>8 DEF NetInv

\* An interface gets the entry behind those that come after it.
LEMMA FilledObtain ==
  ASSUME NetInv, Obtain
  PROVE  NetInv'
<1> DEFINE j == Behind(num)
<1>1. /\ npc = "card" /\ num \in 1..Len(buf) /\ num \in Cards /\ idx = j
      /\ num' = num - 1 /\ idx' = idx + 1
      /\ names' = [names EXCEPT ![idx] = buf[num]]
      /\ addresses' = [addresses EXCEPT ![idx] = buf[num]]
      /\ UNCHANGED <<npc, buf, up, listen>>
      /\ Filled(num) /\ NetTypeOK
  BY DEF Obtain, Card, Cards, NetInv, NetTypeOK
<1>2. j \in Slots /\ j \in Nat /\ buf[num] \in Interfaces
  <2>1. j \in 0..(Len(buf) - num)
    BY <1>1, BehindNat
  <2> QED
    BY <1>1, <2>1, NetAssumption DEF NetTypeOK, Slots
<1>3. /\ names'[j] = buf[num] /\ addresses'[j] = buf[num]
      /\ \A i \in Slots : i # j => names'[i] = names[i] /\ addresses'[i] = addresses[i]
      /\ names' \in [Slots -> Interfaces \cup {Empty}]
      /\ addresses' \in [Slots -> Interfaces \cup {Empty}]
  BY <1>1, <1>2 DEF NetTypeOK
<1>4. NetTypeOK'
  BY <1>1, <1>2, <1>3 DEF NetTypeOK
<1>5. Behind(num - 1) = j + 1
  BY <1>1, BehindStep DEF Cards
<1>6. \A k \in Cards : k \in Nat /\ (k > num - 1 <=> k > num \/ k = num)
  BY <1>1 DEF Cards, NetTypeOK
<1>7. \A k \in Cards : k > num => Behind(k) \in Slots /\ Behind(k) < j
  <2> SUFFICES ASSUME NEW k \in Cards, k > num PROVE Behind(k) \in Slots /\ Behind(k) < j
    OBVIOUS
  <2>1. Behind(k) < j
    BY <1>1, BehindLess
  <2>2. k \in 0..Len(buf)
    BY <1>1 DEF Cards, NetTypeOK
  <2>3. Behind(k) \in 0..(Len(buf) - k)
    BY <1>1, <2>2, BehindNat
  <2> QED
    BY <1>1, <2>1, <2>2, <2>3, NetAssumption DEF Slots, NetTypeOK
<1> HIDE DEF j
<1>8. \A k \in Cards : k > num - 1 => names'[Behind(k)] = buf[k]
  <2> SUFFICES ASSUME NEW k \in Cards, k > num - 1 PROVE names'[Behind(k)] = buf[k]
    OBVIOUS
  <2>1. CASE k = num
    BY <1>3, <2>1 DEF j
  <2>2. CASE k > num
    <3>1. Behind(k) \in Slots /\ Behind(k) # j
      BY <1>2, <1>7, <2>2 DEF Slots
    <3> QED
      BY <1>1, <1>3, <2>2, <3>1 DEF Filled
  <2> QED
    BY <1>6, <2>1, <2>2
<1>9. \A i \in Slots : i < j + 1 => \E k \in Cards : k > num - 1 /\ Behind(k) = i
  <2> SUFFICES ASSUME NEW i \in Slots, i < j + 1
               PROVE  \E k \in Cards : k > num - 1 /\ Behind(k) = i
    OBVIOUS
  <2>1. CASE i = j
    BY <1>1, <1>6, <2>1 DEF j
  <2>2. CASE i < j
    BY <1>1, <1>6, <2>2 DEF Filled, j
  <2> QED
    BY <1>2, <2>1, <2>2 DEF Slots
<1>10. \A i \in Slots : i >= j + 1 => names'[i] = Empty
  BY <1>1, <1>2, <1>3 DEF Filled, Slots, j
<1>11. addresses' = names'
  BY <1>1 DEF Filled
<1>12. Behind(num)' = j + 1
  BY <1>1, <1>5 DEF Behind, Cards
<1>13. Filled(num)'
  BY <1>1, <1>8, <1>9, <1>10, <1>11, <1>12, CardsKept DEF Filled
<1>14. idx' = Behind(num)'
  BY <1>1, <1>12
<1> QED
  BY <1>1, <1>4, <1>13, <1>14 DEF NetInv

\* Each step of either function keeps the table as it should be.
LEMMA NetStep == ASSUME NetInv, [NetNext]_netVars PROVE NetInv'
<1>1. CASE UNCHANGED netVars
  BY <1>1, FilledKept, CardsKept DEF netVars, NetInv, NetTypeOK
<1>2. CASE GetConf
  <2>1. PICK n \in 0..BufNum : buf' \in Injection(1..n, Interfaces)
    BY <1>2 DEF GetConf
  <2>2. buf' \in Seq(Interfaces) /\ Len(buf') = n /\ n \in Nat
    BY <2>1, NetAssumption DEF Injection
  <2>3. NetTypeOK'
    BY <1>2, <2>1, <2>2, NetAssumption DEF GetConf, NetInv, NetTypeOK, NetStates
  <2>4. Behind(num)' = 0 /\ \A k \in Cards' : ~ (k > num')
    <3>1. num' = Len(buf') /\ num' \in 0..Len(buf')
      BY <1>2, <2>2 DEF GetConf
    <3>2. \A k \in Cards' : k \in 1..Len(buf')
      BY <2>2 DEF Cards
    <3>3. \A k \in Cards' : ~ (k > num')
      BY <2>2, <3>1, <3>2
    <3>4. {c \in Cards' : c > num'} = {}
      BY <3>3
    <3> QED
      BY <3>3, <3>4, FS_EmptySet DEF Behind
  <2>5. /\ npc' = "card" /\ idx' = 0 /\ addresses' = names'
        /\ \A i \in Slots : names'[i] = Empty
    BY <1>2 DEF GetConf, NetInv
  <2>6. Filled(num)'
    BY <2>4, <2>5, NetAssumption DEF Filled, Slots
  <2> QED
    BY <2>3, <2>4, <2>5, <2>6 DEF NetInv
<1>3. CASE SkipLo
  BY <1>3, FilledSkip
<1>4. CASE Obtain
  BY <1>4, FilledObtain
<1>5. CASE ObtainFails
  <2>1. npc' = "exit" /\ UNCHANGED <<buf, num, idx>>
    BY <1>5 DEF ObtainFails
  <2>2. /\ names' \in [Slots -> Interfaces \cup {Empty}]
        /\ addresses' \in [Slots -> Interfaces \cup {Empty}]
    <3>1. CASE npc = "conf"
      BY <1>5, <3>1 DEF ObtainFails, NetInv, NetTypeOK
    <3>2. CASE npc = "card" /\ num > 0
      <4>1. buf[num] \in Interfaces
        BY <3>2 DEF NetInv, NetTypeOK
      <4> QED
        BY <1>5, <3>2, <4>1 DEF ObtainFails, Card, NetInv, NetTypeOK
    <3> QED
      BY <1>5, <3>1, <3>2 DEF ObtainFails
  <2>3. NetTypeOK'
    BY <2>1, <2>2 DEF NetInv, NetTypeOK, NetStates
  <2> QED
    BY <2>1, <2>3 DEF NetInv
<1>6. CASE Obtained
  <2>1. /\ npc = "card" /\ npc' = "table" /\ num = 0
        /\ UNCHANGED <<buf, num, idx, names, addresses>>
    BY <1>6 DEF Obtained
  <2>2. NetTypeOK'
    BY <2>1 DEF NetInv, NetTypeOK, NetStates
  <2>3. Filled(0)' /\ idx' = Behind(0)'
    BY <2>1, FilledKept, CardsKept DEF NetInv
  <2> QED
    BY <2>1, <2>2, <2>3 DEF NetInv
<1>7. CASE Search
  <2>1. /\ npc = "table" /\ npc' = "search" /\ idx' = 0
        /\ UNCHANGED <<buf, num, names, addresses>>
    BY <1>7 DEF Search
  <2>2. NetTypeOK'
    BY <2>1 DEF NetInv, NetTypeOK, NetStates
  <2>3. Filled(0)'
    BY <2>1, FilledKept DEF NetInv
  <2> QED
    BY <2>1, <2>2, <2>3, NetAssumption DEF NetInv, Slots
<1>8. CASE SearchNext
  <2>1. /\ npc = "search" /\ idx < MaxNum /\ names[idx] # Eth /\ idx' = idx + 1
        /\ UNCHANGED <<npc, buf, num, names, addresses>>
    BY <1>8 DEF SearchNext
  <2>2. NetTypeOK'
    BY <2>1 DEF NetInv, NetTypeOK
  <2>3. Filled(0)'
    BY <2>1, FilledKept DEF NetInv
  <2>4. idx' <= MaxNum /\ \A i \in Slots : i < idx' => names'[i] # Eth
    BY <2>1, NetAssumption DEF NetInv, NetTypeOK, Slots
  <2> QED
    BY <2>1, <2>2, <2>3, <2>4 DEF NetInv
<1>9. CASE CreateListen
  <2>1. /\ npc = "search" /\ npc' = "listening"
        /\ (idx = MaxNum \/ names[idx] = Eth)
        /\ UNCHANGED <<buf, num, idx, names, addresses>>
    BY <1>9 DEF CreateListen
  <2>2. NetTypeOK'
    BY <2>1 DEF NetInv, NetTypeOK, NetStates
  <2>3. Filled(0)'
    BY <2>1, FilledKept DEF NetInv
  <2> QED
    BY <2>1, <2>2, <2>3 DEF NetInv
<1> QED
  BY <1>1, <1>2, <1>3, <1>4, <1>5, <1>6, <1>7, <1>8, <1>9 DEF NetNext

\* obtain_netdev_info and event_ethernet_listening keep NetInv.
LEMMA NetInvariant == NetSpec => []NetInv
<1>1. NetInit => NetInv
  <2> SUFFICES ASSUME NetInit PROVE NetInv
    OBVIOUS
  <2>1. NetTypeOK
    BY NetAssumption DEF NetInit, NetTypeOK, NetStates
  <2> QED
    BY <2>1 DEF NetInit, NetInv
<1> QED
  BY <1>1, NetStep, PTL DEF NetSpec

\* Whatever interfaces the kernel reports, obtain_netdev_info (sys.c) enters
\* each but the loopback once, and event_ethernet_listening
\* (src/sys_net_event.c) finds eth0 if it is in the table.
THEOREM TableIsExact == NetSpec => []NetTableExact
<1>1. NetInv => NetTableExact
  <2> SUFFICES ASSUME NetInv PROVE NetTableExact
    OBVIOUS
  <2>1. /\ IsFiniteSet(Cards) /\ Behind(0) = Cardinality(Cards)
        /\ Behind(0) \in Nat /\ Behind(0) <= BufNum
        /\ \A k \in Cards : k \in 1..Len(buf) /\ k > 0
    <3>1. 0 \in 0..Len(buf) /\ Len(buf) <= BufNum
      BY NetAssumption DEF NetInv, NetTypeOK
    <3>2. Behind(0) \in 0..(Len(buf) - 0)
      BY <3>1, BehindNat DEF NetInv
    <3> QED
      BY <3>1, <3>2, BehindNat, BehindFirst, NetAssumption
         DEF NetInv, NetTypeOK, Cards
  <2>2. \A k \in Cards : /\ Behind(k) \in Slots /\ Behind(k) < Behind(0)
                         /\ buf[k] \in Interfaces /\ buf[k] # Empty
    <3> SUFFICES ASSUME NEW k \in Cards
                 PROVE  /\ Behind(k) \in Slots /\ Behind(k) < Behind(0)
                        /\ buf[k] \in Interfaces /\ buf[k] # Empty
      OBVIOUS
    <3>1. k \in 0..Len(buf) /\ k \in 1..Len(buf) /\ 0 \in 0..Len(buf)
      BY <2>1 DEF NetInv, NetTypeOK
    <3>2. Behind(k) \in 0..(Len(buf) - k) /\ Behind(k) < Behind(0)
      BY <2>1, <3>1, BehindNat, BehindLess DEF NetInv
    <3> QED
      BY <3>1, <3>2, NetAssumption DEF NetInv, NetTypeOK, Slots
  <2>3. ASSUME Filled(0)
        PROVE  /\ addresses = names
               /\ \A k \in Cards : names[Behind(k)] = buf[k]
               /\ \A i \in Slots : (names[i] # Empty <=> i < Behind(0))
               /\ \A i \in Slots : (i < Behind(0) <=> \E k \in Cards : Behind(k) = i)
    <3>1. addresses = names /\ \A k \in Cards : names[Behind(k)] = buf[k]
      BY <2>1, <2>3 DEF Filled
    <3>2. \A i \in Slots : (i < Behind(0) <=> \E k \in Cards : Behind(k) = i)
      BY <2>2, <2>3 DEF Filled
    <3>3. \A i \in Slots : i < Behind(0) => names[i] # Empty
      BY <2>2, <3>1, <3>2
    <3>4. \A i \in Slots : i < Behind(0) \/ i >= Behind(0)
      BY <2>1 DEF Slots
    <3> QED
      BY <2>3, <3>1, <3>2, <3>3, <3>4 DEF Filled
  <2>4. ASSUME npc = "table"
        PROVE  /\ idx = Cardinality(Cards)
               /\ \A k \in Cards : names[Behind(k)] = buf[k]
               /\ \A i \in Slots :
                    (names[i] # Empty <=> \E k \in Cards : Behind(k) = i)
               /\ ((\E i \in Slots : i >= MaxNum /\ names[i] # Empty)
                     <=> Cardinality(Cards) > MaxNum)
    <3>1. Filled(0) /\ idx = Behind(0)
      BY <2>4 DEF NetInv
    <3>2. (\E i \in Slots : i >= MaxNum /\ i < Behind(0)) <=> Behind(0) > MaxNum
      <4>1. Behind(0) > MaxNum => MaxNum \in Slots
        BY <2>1, NetAssumption DEF Slots
      <4> QED
        BY <2>1, <4>1, NetAssumption DEF Slots
    <3> QED
      BY <2>1, <2>3, <3>1, <3>2
  <2>5. ASSUME npc = "listening"
        PROVE  IF \E k \in Cards : Behind(k) < MaxNum /\ buf[k] = Eth
               THEN names[idx] = Eth /\ addresses[idx] = Eth
               ELSE idx = MaxNum
    <3>1. /\ Filled(0) /\ idx \in Nat /\ idx <= MaxNum
          /\ \A i \in Slots : i < idx => names[i] # Eth
          /\ (idx = MaxNum \/ names[idx] = Eth)
      BY <2>5 DEF NetInv, NetTypeOK
    <3>2. CASE \E k \in Cards : Behind(k) < MaxNum /\ buf[k] = Eth
      <4> PICK k \in Cards : Behind(k) < MaxNum /\ buf[k] = Eth
        BY <3>2
      <4>1. Behind(k) \in Slots /\ names[Behind(k)] = Eth
        BY <2>2, <2>3, <3>1
      <4>2. idx # MaxNum
        BY <3>1, <4>1
      <4> QED
        BY <2>3, <3>1, <3>2, <4>2
    <3>3. CASE ~ \E k \in Cards : Behind(k) < MaxNum /\ buf[k] = Eth
      <4> SUFFICES ASSUME idx # MaxNum PROVE FALSE
        BY <3>3
      <4>1. names[idx] = Eth /\ idx < MaxNum /\ idx \in Slots
        BY <3>1, NetAssumption DEF Slots
      <4>2. Eth # Empty
        BY NetAssumption
      <4>3. PICK k \in Cards : Behind(k) = idx
        BY <2>3, <3>1, <4>1, <4>2
      <4> QED
        BY <2>3, <3>1, <3>3, <4>1, <4>3
    <3> QED
      BY <3>2, <3>3
  <2>6. npc \in {"table", "search", "listening"} => addresses = names
    BY DEF NetInv, Filled
  <2> QED
    BY <2>4, <2>5, <2>6 DEF NetTableExact
<1> QED
  BY <1>1, NetInvariant, PTL

-----------------------------------------------------------------------------
(* set_serial                                                              *)

\* The options are of their type, what no setting reaches is as it was found,
\* and the port is as asked.
ConfigInv ==
  /\ port \in PortOptions
  /\ SameInput(port, found)
  /\ PortAsAsked

\* Two speeds of the table differ in their low bits.
LEMMA LowBitsDiffer ==
  /\ \A s \in Known : LowBits[s] \in Nat
  /\ \A s, r \in Known : LowBits[s] = LowBits[r] => s = r
<1>1. /\ LowBits[300] = 7 /\ LowBits[1200] = 9 /\ LowBits[2400] = 11
      /\ LowBits[4800] = 12 /\ LowBits[9600] = 13 /\ LowBits[19200] = 14
      /\ LowBits[38400] = 15 /\ LowBits[115200] = 2
  BY DEF LowBits, Known
<1> QED
  BY <1>1 DEF Known

\* cfsetispeed and cfsetospeed change the speed and its bit in c_cflag.
LEMMA SpeedIsSet ==
  ASSUME NEW o \in PortOptions, NEW s
  PROVE  /\ SetSpeed(o, s) \in PortOptions
         /\ SameInput(SetSpeed(o, s), o)
         /\ s \in Known => /\ SetSpeed(o, s).speed = LowBits[s]
                           /\ ("CBAUDEX" \in SetSpeed(o, s).cflag <=> s \in Extended)
BY LowBitsDiffer DEF SetSpeed, SameInput, PortOptions, CFlags

\* The flow control touches c_cflag only, and with 2 the bit of the speed.
LEMMA FlowIsSet ==
  ASSUME NEW o \in PortOptions, NEW flow
  PROVE  LET r == SetFlow(o, flow)
         IN /\ r \in PortOptions
            /\ r.speed = o.speed /\ r.size = o.size /\ SameInput(r, o)
            /\ \A f \in {"CLOCAL", "CREAD"} : f \in o.cflag => f \in r.cflag
            /\ ("CBAUDEX" \in r.cflag <=> "CBAUDEX" \in o.cflag \/ flow = 2)
            /\ flow = 0 => "CRTSCTS" \notin r.cflag
            /\ flow = 1 => "CRTSCTS" \in r.cflag
<1>1. CASE flow = 0
  <2>1. SetFlow(o, flow) = [o EXCEPT !.cflag = @ \ {"CRTSCTS"}]
    BY <1>1 DEF SetFlow
  <2> QED
    BY <1>1, <2>1 DEF PortOptions, CFlags, IFlags, SameInput
<1>2. CASE flow = 1
  <2>1. SetFlow(o, flow) = [o EXCEPT !.cflag = @ \cup {"CRTSCTS"}]
    BY <1>2 DEF SetFlow
  <2> QED
    BY <1>2, <2>1 DEF PortOptions, CFlags, IFlags, SameInput
<1>3. CASE flow = 2
  <2>1. SetFlow(o, flow) = [o EXCEPT !.cflag = @ \cup {"HUPCL", "CBAUDEX", "CLOCAL"}]
    BY <1>3 DEF SetFlow
  <2> QED
    BY <1>3, <2>1 DEF PortOptions, CFlags, IFlags, SameInput
<1>4. CASE flow \notin {0, 1, 2}
  <2>1. SetFlow(o, flow) = [o EXCEPT !.cflag = @]
    BY <1>4 DEF SetFlow
  <2> QED
    BY <1>4, <2>1 DEF PortOptions, CFlags, IFlags, SameInput
<1> QED
  BY <1>1, <1>2, <1>3, <1>4

\* Whatever parity the port had, it has the one asked for.
LEMMA ParityIsSet ==
  ASSUME NEW o \in PortOptions, NEW parity \in {"N", "O", "E", "S"}
  PROVE  LET r == SetParity(o, parity)
         IN /\ r \in PortOptions
            /\ r.speed = o.speed /\ r.size = o.size /\ SameInput(r, o)
            /\ \A f \in {"CLOCAL", "CREAD", "CBAUDEX", "CRTSCTS"} :
                 f \in r.cflag <=> f \in o.cflag
            /\ ("PARENB" \in r.cflag <=> parity \in {"O", "E"})
            /\ parity = "O" => "PARODD" \in r.cflag
            /\ parity = "E" => "PARODD" \notin r.cflag
            /\ parity \in {"O", "E"} => "INPCK" \in r.iflag
<1>1. CASE parity = "N"
  <2>1. SetParity(o, parity)
          = [o EXCEPT !.cflag = @ \ {"PARENB"}, !.iflag = @ \ {"INPCK"}]
    BY <1>1 DEF SetParity
  <2> QED
    BY <1>1, <2>1 DEF PortOptions, CFlags, IFlags, SameInput
<1>2. CASE parity = "O"
  <2>1. SetParity(o, parity)
          = [o EXCEPT !.cflag = @ \cup {"PARODD", "PARENB"},
                      !.iflag = @ \cup {"INPCK"}]
    BY <1>2 DEF SetParity
  <2> QED
    BY <1>2, <2>1 DEF PortOptions, CFlags, IFlags, SameInput
<1>3. CASE parity = "E"
  <2>1. SetParity(o, parity)
          = [o EXCEPT !.cflag = (@ \cup {"PARENB"}) \ {"PARODD"},
                      !.iflag = @ \cup {"INPCK"}]
    BY <1>3 DEF SetParity
  <2> QED
    BY <1>3, <2>1 DEF PortOptions, CFlags, IFlags, SameInput
<1>4. CASE parity = "S"
  <2>1. SetParity(o, parity) = [o EXCEPT !.cflag = @ \ {"PARENB", "CSTOPB"}]
    BY <1>4 DEF SetParity
  <2> QED
    BY <1>4, <2>1 DEF PortOptions, CFlags, IFlags, SameInput
<1> QED
  BY <1>1, <1>2, <1>3, <1>4

\* The stop bits, and the rest, which depends on no setting.
LEMMA StopIsSet ==
  ASSUME NEW o \in PortOptions, NEW stop \in {1, 2}
  PROVE  LET r == PlainOutput(SetStop(o, stop))
         IN /\ r \in PortOptions
            /\ r.speed = o.speed /\ r.size = o.size /\ r.iflag = o.iflag
            /\ SameInput(r, o) /\ ~r.post
            /\ \A f \in CFlags \ {"CSTOPB"} : f \in r.cflag <=> f \in o.cflag
            /\ ("CSTOPB" \in r.cflag <=> stop = 2)
<1> DEFINE m == SetStop(o, stop)
<1>1. /\ m \in PortOptions
      /\ m.speed = o.speed /\ m.size = o.size /\ m.iflag = o.iflag /\ m.lflag = o.lflag
      /\ \A f \in CFlags \ {"CSTOPB"} : (f \in m.cflag <=> f \in o.cflag)
      /\ ("CSTOPB" \in m.cflag <=> stop = 2)
  BY DEF SetStop, PortOptions, CFlags
<1> HIDE DEF m
<1>2. /\ PlainOutput(m) \in PortOptions
      /\ PlainOutput(m).speed = m.speed /\ PlainOutput(m).size = m.size /\ PlainOutput(m).iflag = m.iflag
      /\ PlainOutput(m).lflag = m.lflag
      /\ PlainOutput(m).cflag = m.cflag /\ ~PlainOutput(m).post
  BY <1>1 DEF PlainOutput, PortOptions
<1> QED
  BY <1>1, <1>2 DEF m, SameInput

\* What a call of set_serial with supported settings makes of any options.
LEMMA SettingsAreSet ==
  ASSUME NEW o \in PortOptions, NEW s \in Settings, Supported(s)
  PROVE  LET r == WithSettings(o, s)
         IN /\ r \in PortOptions
            /\ s.speed \in Known =>
                 /\ r.speed = LowBits[s.speed]
                 /\ ("CBAUDEX" \in r.cflag <=> s.speed \in Extended \/ s.flow = 2)
            /\ r.size = s.bits /\ ~r.post /\ SameInput(r, o)
            /\ {"CREAD", "CLOCAL"} \subseteq r.cflag
            /\ ("PARENB" \in r.cflag <=> s.parity \in {"O", "E"})
            /\ s.parity = "O" => "PARODD" \in r.cflag
            /\ s.parity = "E" => "PARODD" \notin r.cflag
            /\ s.parity \in {"O", "E"} => "INPCK" \in r.iflag
            /\ ("CSTOPB" \in r.cflag <=> s.stop = 2)
            /\ s.flow = 0 => "CRTSCTS" \notin r.cflag
            /\ s.flow = 1 => "CRTSCTS" \in r.cflag
<1> DEFINE o1 == SetSpeed(o, s.speed)
           on == [o1 EXCEPT !.cflag = @ \cup {"CLOCAL", "CREAD"}]
           flown == SetFlow(on, s.flow)
           sized == [flown EXCEPT !.size = s.bits]
           par == SetParity(sized, s.parity)
           r == PlainOutput(SetStop(par, s.stop))
<1>1. r = WithSettings(o, s)
  BY DEF WithSettings
<1>2. s.bits \in Nat /\ s.parity \in {"N", "O", "E", "S"} /\ s.stop \in {1, 2}
  BY DEF Supported
<1>3. /\ o1 \in PortOptions /\ SameInput(o1, o)
      /\ s.speed \in Known => /\ o1.speed = LowBits[s.speed]
                              /\ ("CBAUDEX" \in o1.cflag <=> s.speed \in Extended)
  BY SpeedIsSet
<1> HIDE DEF o1
<1>4. /\ on \in PortOptions /\ on.speed = o1.speed /\ SameInput(on, o)
      /\ {"CREAD", "CLOCAL"} \subseteq on.cflag
      /\ ("CBAUDEX" \in on.cflag <=> "CBAUDEX" \in o1.cflag)
  BY <1>3 DEF PortOptions, CFlags, SameInput
<1> HIDE DEF on
<1>5. /\ flown \in PortOptions /\ flown.speed = on.speed /\ SameInput(flown, o)
      /\ {"CREAD", "CLOCAL"} \subseteq flown.cflag
      /\ ("CBAUDEX" \in flown.cflag <=> "CBAUDEX" \in on.cflag \/ s.flow = 2)
      /\ s.flow = 0 => "CRTSCTS" \notin flown.cflag
      /\ s.flow = 1 => "CRTSCTS" \in flown.cflag
  BY <1>4, FlowIsSet DEF SameInput
<1> HIDE DEF flown
<1>6. /\ sized \in PortOptions /\ sized.speed = flown.speed /\ sized.size = s.bits
      /\ sized.cflag = flown.cflag /\ SameInput(sized, o)
  BY <1>2, <1>5 DEF PortOptions, SameInput
<1> HIDE DEF sized
<1>7. /\ par \in PortOptions /\ par.speed = sized.speed /\ par.size = sized.size
      /\ SameInput(par, o)
      /\ \A f \in {"CLOCAL", "CREAD", "CBAUDEX", "CRTSCTS"} :
           f \in par.cflag <=> f \in sized.cflag
      /\ ("PARENB" \in par.cflag <=> s.parity \in {"O", "E"})
      /\ s.parity = "O" => "PARODD" \in par.cflag
      /\ s.parity = "E" => "PARODD" \notin par.cflag
      /\ s.parity \in {"O", "E"} => "INPCK" \in par.iflag
  BY <1>2, <1>6, ParityIsSet DEF SameInput
<1> HIDE DEF par
<1>8. /\ r \in PortOptions
      /\ r.speed = par.speed /\ r.size = par.size /\ r.iflag = par.iflag
      /\ SameInput(r, o) /\ ~r.post
      /\ \A f \in CFlags \ {"CSTOPB"} : f \in r.cflag <=> f \in par.cflag
      /\ ("CSTOPB" \in r.cflag <=> s.stop = 2)
  BY <1>2, <1>7, StopIsSet DEF SameInput
<1> HIDE DEF r
<1>9. {"CREAD", "CLOCAL", "CBAUDEX", "CRTSCTS", "PARENB", "PARODD"}
        \subseteq CFlags \ {"CSTOPB"}
  BY DEF CFlags
<1> QED
  BY <1>1, <1>3, <1>4, <1>5, <1>6, <1>7, <1>8, <1>9

\* A port that a call has set has what the call asked for.
LEMMA ConfigStep ==
  ASSUME ConfigInv, NEW s \in Settings, SetSerial(s)
  PROVE  ConfigInv'
<1>1. /\ port \in PortOptions /\ Supported(s) /\ port' = WithSettings(port, s)
      /\ asked' = s /\ s.parity \in {"N", "O", "E", "S"}
      /\ found' = found /\ SameInput(port, found)
  BY DEF ConfigInv, SetSerial, Supported
<1> DEFINE r == WithSettings(port, s)
<1>2. /\ r \in PortOptions
      /\ s.speed \in Known =>
           /\ r.speed = LowBits[s.speed]
           /\ ("CBAUDEX" \in r.cflag <=> s.speed \in Extended \/ s.flow = 2)
      /\ r.size = s.bits /\ ~r.post /\ SameInput(r, port)
      /\ {"CREAD", "CLOCAL"} \subseteq r.cflag
      /\ ("PARENB" \in r.cflag <=> s.parity \in {"O", "E"})
      /\ s.parity = "O" => "PARODD" \in r.cflag
      /\ s.parity = "E" => "PARODD" \notin r.cflag
      /\ s.parity \in {"O", "E"} => "INPCK" \in r.iflag
      /\ ("CSTOPB" \in r.cflag <=> s.stop = 2)
      /\ s.flow = 0 => "CRTSCTS" \notin r.cflag
      /\ s.flow = 1 => "CRTSCTS" \in r.cflag
  BY <1>1, SettingsAreSet
<1> HIDE DEF r
<1>3. port' = r
  BY <1>1 DEF r
<1>4. ASSUME s.speed \in Known
      PROVE  (Rate' = s.speed) <=> (s.flow # 2 \/ s.speed \in Extended)
  <2>1. /\ 115200 \in Known /\ 115200 \in Extended /\ 0 \notin Known
        /\ \A x \in Extended : x = 115200
    BY DEF Known, Extended
  <2>2. CASE "CBAUDEX" \notin r.cflag
    <3>1. Rate' = CHOOSE x \in Known \ Extended : LowBits[x] = r.speed
      BY <1>3, <2>2 DEF Rate
    <3>2. s.speed \in Known \ Extended /\ LowBits[s.speed] = r.speed /\ s.flow # 2
      BY <1>2, <1>4, <2>2
    <3>3. \A x \in Known \ Extended : LowBits[x] = r.speed => x = s.speed
      BY <3>2, LowBitsDiffer
    <3>4. (CHOOSE x \in Known \ Extended : LowBits[x] = r.speed) = s.speed
      BY <3>2, <3>3
    <3> QED
      BY <3>1, <3>2, <3>4
  <2>3. CASE "CBAUDEX" \in r.cflag
    <3>1. Rate' = IF r.speed = LowBits[115200] THEN 115200 ELSE 0
      BY <1>3, <2>3 DEF Rate
    <3>2. r.speed = LowBits[115200] <=> s.speed = 115200
      BY <1>2, <1>4, <2>1, LowBitsDiffer
    <3> QED
      BY <1>2, <1>4, <2>1, <2>3, <3>1, <3>2
  <2> QED
    BY <2>2, <2>3
<1>5. Parity' = CASE s.parity = "O" -> "odd" [] s.parity = "E" -> "even"
                  [] OTHER -> "none"
  <2>1. CASE s.parity = "O"
    BY <1>2, <1>3, <2>1 DEF Parity
  <2>2. CASE s.parity = "E"
    BY <1>2, <1>3, <2>2 DEF Parity
  <2>3. CASE s.parity \notin {"O", "E"}
    BY <1>2, <1>3, <2>3 DEF Parity
  <2> QED
    BY <2>1, <2>2, <2>3
<1>6. Parity' # "none" => "INPCK" \in r.iflag
  BY <1>2, <1>3 DEF Parity
<1>7. SameInput(port, found)'
  BY <1>1, <1>2, <1>3 DEF SameInput
<1>8. PortAsAsked'
  BY <1>1, <1>2, <1>3, <1>4, <1>5, <1>6, <1>7 DEF PortAsAsked
<1> QED
  BY <1>2, <1>3, <1>7, <1>8 DEF ConfigInv

\* Whatever options the port has at the start, and after any calls of set_serial
\* (src/sys_serial_event.c), a call that returns 0 has set the speed, the size,
\* the parity, the stop bits and the hardware flow control it was asked for, but
\* for the exceptions PortAsAsked names; line mode, echo, signals, the change of
\* CR to NL and the software flow control are still those of the start.
THEOREM PortIsAsAsked ==
  SerialConfigInit /\ [][SerialConfigNext]_serialConfigVars => []PortAsAsked
<1>1. SerialConfigInit => ConfigInv
  <2> SUFFICES ASSUME SerialConfigInit PROVE ConfigInv
    OBVIOUS
  <2>1. port \in PortOptions /\ SameInput(port, found)
    BY FoundAssumption DEF SerialConfigInit, SameInput
  <2>2. result # 0
    BY DEF SerialConfigInit
  <2> QED
    BY <2>1, <2>2 DEF ConfigInv, PortAsAsked
<1>2. ConfigInv /\ [SerialConfigNext]_serialConfigVars => ConfigInv'
  <2> SUFFICES ASSUME ConfigInv, [SerialConfigNext]_serialConfigVars
               PROVE  ConfigInv'
    OBVIOUS
  <2>1. CASE UNCHANGED serialConfigVars
    <3>1. port' = port /\ asked' = asked /\ result' = result /\ found' = found
      BY <2>1 DEF serialConfigVars
    <3>2. /\ Rate' = Rate /\ Parity' = Parity
          /\ SameInput(port, found)' <=> SameInput(port, found)
      BY <3>1 DEF Rate, Parity, SameInput
    <3> QED
      BY <3>1, <3>2 DEF ConfigInv, PortAsAsked
  <2>2. ASSUME NEW s \in Settings, SetSerial(s) PROVE ConfigInv'
    BY <2>2, ConfigStep
  <2>3. ASSUME NEW s \in Settings, SetSerialFails(s) PROVE ConfigInv'
    <3>1. port' = port /\ found' = found /\ result' # 0
      BY <2>3 DEF SetSerialFails
    <3>2. SameInput(port, found)' <=> SameInput(port, found)
      BY <3>1 DEF SameInput
    <3> QED
      BY <3>1, <3>2 DEF ConfigInv, PortAsAsked
  <2> QED
    BY <2>1, <2>2, <2>3 DEF SerialConfigNext
<1> QED
  BY <1>1, <1>2, PTL DEF ConfigInv

-----------------------------------------------------------------------------
(* The list of devices                                                     *)

\* The head points to a device or to itself, and a device to nothing but the
\* head and itself.
DeviceInv ==
  /\ next \in [Cells -> Cells \cup {Wild}]
  /\ next[First] # Wild
  /\ \A d \in Devices : next[d] \in {d, First, Wild}

\* A walk along the list meets the device the head points to, and no other.
OneListedAtMost == Listed \subseteq {next[First]}

\* Why the registered devices are not in the list: sys_dev_register gives the
\* head as the new entry (src/sys_dev_manage.c:36), so each call moves the head
\* into the ring of the device.  Whatever devices a caller has, initialised or
\* not, in whatever order it registers them, at most one of them is ever found.
THEOREM RegisterMovesHead ==
  First \notin Devices /\ Wild \notin Cells => (Spec => []OneListedAtMost)
<1> SUFFICES ASSUME First \notin Devices, Wild \notin Cells
             PROVE  Spec => []OneListedAtMost
  OBVIOUS
<1>1. Init => DeviceInv
  BY DEF Init, DeviceInv, Cells
<1>2. DeviceInv /\ [Next]_vars => DeviceInv'
  <2> SUFFICES ASSUME DeviceInv, [Next]_vars PROVE DeviceInv'
    OBVIOUS
  <2>1. ASSUME NEW d \in Devices, InitLinks(d) PROVE DeviceInv'
    BY <2>1 DEF InitLinks, DeviceInv, Cells
  <2>2. ASSUME NEW d \in Devices, Register(d) PROVE DeviceInv'
    <3>1. CASE next[d] = Wild
      BY <2>2, <3>1 DEF Register, ListAdd, DeviceInv
    <3>2. CASE next[d] \in {d, First}
      <4>1. next' = [next EXCEPT ![First] = next[d], ![d] = First]
        BY <2>2, <3>2 DEF Register, ListAdd, Cells
      <4> QED
        BY <3>2, <4>1 DEF DeviceInv, Cells
    <3> QED
      BY <3>1, <3>2 DEF DeviceInv
  <2>3. ASSUME NEW d \in Devices, Unregister(d) PROVE DeviceInv'
    BY <2>3 DEF Unregister, DeviceInv
  <2>4. CASE UNCHANGED vars
    BY <2>4 DEF vars, DeviceInv
  <2> QED
    BY <2>1, <2>2, <2>3, <2>4 DEF Next
<1>3. DeviceInv => OneListedAtMost
  <2> SUFFICES ASSUME DeviceInv, NEW d \in Listed PROVE d = next[First]
    BY DEF OneListedAtMost
  <2> DEFINE S == {First, next[First]}
  <2>1. S \in SUBSET Cells /\ First \in S
    BY DEF DeviceInv, Cells
  <2>2. \A c \in S : next[c] \in Cells => next[c] \in S
    BY DEF DeviceInv, Cells
  <2>3. d \in S
    BY <2>1, <2>2, Zenon DEF Listed
  <2>4. d # First
    BY DEF Listed
  <2> QED
    BY <2>3, <2>4
<1> QED
  BY <1>1, <1>2, <1>3, PTL DEF Spec

=============================================================================
