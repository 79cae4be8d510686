---------------------------- MODULE EbBus_proofs ----------------------------
(***************************************************************************)
(* Two ways to reach devices.                                              *)
(*                                                                         *)
(* The virtual bus (EbBus): for any devices and any size of the bus, the   *)
(* list of handlers stays sorted and disjoint.  If besides the devices end *)
(* on the boundaries to which the SDB table is aligned and leave room for  *)
(* it at the end of the bus, each of them receives all accesses to its     *)
(* addresses.                                                              *)
(*                                                                         *)
(* The tunnel (EbTunnel): for any programs, devices, lengths and strays,   *)
(* packets come out of the streams whole and in order, and with one device *)
(* of IPv4 a program hears only its device.                                *)
(***************************************************************************)
EXTENDS EbBus, EbTunnel, TLAPS

\* What is known of the ranges of the devices.
LEMMA Ranges ==
  \A d \in Dev : addr_first[d] \in Nat /\ addr_first[d] < Top
              /\ addr_last[d] \in Nat /\ addr_last[d] < Top
  BY BusAssumption

\* A handler that is new in the list, and where the others are.
LEMMA InsertedList ==
  ASSUME TypeOK, NEW d \in Dev, NEW p \in 1..Len(handlers)+1
  PROVE  /\ Inserted(d, p) \in Seq(Dev)
         /\ Len(Inserted(d, p)) = Len(handlers) + 1
         /\ Inserted(d, p)[p] = d
         /\ \A i \in 1..Len(handlers)+1 : i < p => Inserted(d, p)[i] = handlers[i]
         /\ \A i \in 1..Len(handlers)+1 : i > p => Inserted(d, p)[i] = handlers[i-1]
<1>1. handlers \in Seq(Dev) /\ Len(handlers) \in Nat
  BY DEF TypeOK
<1>2. \A i \in 1..Len(handlers)+1 :
        (i < p => handlers[i] \in Dev) /\ (i > p => handlers[i-1] \in Dev)
  BY <1>1
<1>3. Inserted(d, p) \in [1..Len(handlers)+1 -> Dev]
  BY <1>1, <1>2 DEF Inserted
<1>4. Inserted(d, p) \in Seq(Dev) /\ Len(Inserted(d, p)) = Len(handlers) + 1
  BY ONLY <1>1, <1>3
<1> QED
  BY <1>1, <1>4 DEF Inserted

\* The list without the handler at position i.
Removed(i) ==
  [j \in 1..Len(handlers)-1 |-> IF j < i THEN handlers[j] ELSE handlers[j+1]]

LEMMA RemovedList ==
  ASSUME TypeOK, NEW i \in DOMAIN handlers
  PROVE  /\ Removed(i) \in Seq(Dev)
         /\ Len(Removed(i)) = Len(handlers) - 1
         /\ \A j \in 1..Len(handlers)-1 :
              Removed(i)[j] = IF j < i THEN handlers[j] ELSE handlers[j+1]
<1>1. handlers \in Seq(Dev) /\ Len(handlers) \in Nat /\ i \in 1..Len(handlers)
  BY DEF TypeOK
<1>2. Len(handlers) - 1 \in Nat
  BY <1>1
<1>3. \A j \in 1..Len(handlers)-1 : handlers[j] \in Dev /\ handlers[j+1] \in Dev
  BY <1>1
<1>4. Removed(i) \in [1..Len(handlers)-1 -> Dev]
  BY <1>3 DEF Removed
<1>5. Removed(i) \in Seq(Dev) /\ Len(Removed(i)) = Len(handlers) - 1
  BY ONLY <1>2, <1>4
<1> QED
  BY <1>5 DEF Removed

\* The list that eb_socket_attach leaves when there is no room.
LEMMA CutList ==
  ASSUME TypeOK, NEW p \in 1..Len(handlers)+1
  PROVE  /\ SubSeq(handlers, 1, p - 1) \in Seq(Dev)
         /\ Len(SubSeq(handlers, 1, p - 1)) = p - 1
         /\ \A i \in 1..p-1 : SubSeq(handlers, 1, p - 1)[i] = handlers[i]
  BY DEF TypeOK

\* Places are addresses.
LEMMA PlaceTyped ==
  ASSUME NEW s \in Seq(Dev), NEW k \in 0..Len(s)
  PROVE  ScanLast(s, k) \in Address
<1>1. Top \in Nat /\ Top > 0 /\ Align \in Nat /\ Align > 0
  BY BusAssumption
<1>2. ASSUME NEW a \in Nat PROVE AlignUp(a) \in Address
  <2> DEFINE b == (a + Align - 1) % Top
  <2>1. a + Align - 1 \in Nat
    BY <1>1
  <2>2. b \in 0..Top-1
    BY ONLY <1>1, <2>1
  <2> HIDE DEF b
  <2>3. b % Align \in 0..b
    BY ONLY <1>1, <2>2
  <2>4. b - (b % Align) \in 0..Top-1
    BY ONLY <2>2, <2>3, <1>1
  <2> QED
    BY <2>4 DEF AlignUp, Address, b
<1>3. CASE k = 0
  BY <1>1, <1>3 DEF ScanLast, Address
<1>4. CASE k # 0
  <2>1. s[k] \in Dev
    BY <1>4
  <2>2. addr_last[s[k]] + 1 \in Nat
    BY <2>1, Ranges
  <2>3. (addr_last[s[k]] + 1) % Top \in Nat
    BY ONLY <1>1, <2>2
  <2> QED
    BY <1>2, <1>4, <2>3 DEF ScanLast
<1> QED
  BY <1>3, <1>4

-----------------------------------------------------------------------------
(* Types.                                                                  *)

LEMMA InitTyped == Init => TypeOK
  BY BusAssumption DEF Init, TypeOK, Address

LEMMA StepTyped == TypeOK /\ [Next]_vars => TypeOK'
<1> SUFFICES ASSUME TypeOK, [Next]_vars PROVE TypeOK'
  OBVIOUS
<1>a. Len(handlers) \in Nat /\ MaxDevices \in Nat
  BY BusAssumption DEF TypeOK
<1>1. ASSUME NEW d \in Dev, AttachRefused(d) PROVE TypeOK'
  BY <1>1 DEF AttachRefused, TypeOK
<1>2. ASSUME NEW d \in Dev, Attach(d) PROVE TypeOK'
  <2>1. PICK p \in 1..Len(handlers)+1 :
          /\ Inserts(d, p)
          /\ handlers' = Inserted(d, p)
          /\ \E k \in 0..Len(handlers)+1 : sdb' = ScanLast(Inserted(d, p), k)
    BY <1>2 DEF Attach
  <2>2. Len(handlers) < MaxDevices
    BY <1>a, <2>1 DEF Inserts, Full
  <2>3. handlers' \in Seq(Dev) /\ Len(handlers') <= MaxDevices
    BY <1>a, <2>1, <2>2, InsertedList
  <2>4. sdb' \in Address
    BY <2>1, InsertedList, PlaceTyped
  <2>5. result' = "OK" /\ attached' = attached \cup {d}
    BY <1>2 DEF Attach
  <2> QED
    BY <2>3, <2>4, <2>5 DEF TypeOK
<1>3. ASSUME NEW d \in Dev, AttachNoRoom(d) PROVE TypeOK'
  <2>1. PICK p \in 1..Len(handlers)+1 : handlers' = SubSeq(handlers, 1, p - 1)
    BY <1>3 DEF AttachNoRoom
  <2>2. handlers' \in Seq(Dev) /\ Len(handlers') <= MaxDevices
    BY <1>a, <2>1, CutList DEF TypeOK
  <2> QED
    BY <1>3, <2>2 DEF AttachNoRoom, TypeOK
<1>4. ASSUME NEW d \in Dev, Detach(d) PROVE TypeOK'
  <2>1. PICK i \in DOMAIN handlers : handlers' = Removed(i)
    BY <1>4 DEF Detach, Removed
  <2>2. handlers' \in Seq(Dev) /\ Len(handlers') <= MaxDevices
    BY <1>a, <2>1, RemovedList DEF TypeOK
  <2> QED
    BY <1>4, <2>2 DEF Detach, TypeOK
<1>5. ASSUME NEW d \in Dev, DetachUnknown(d) PROVE TypeOK'
  BY <1>5 DEF DetachUnknown, TypeOK
<1>6. ASSUME UNCHANGED vars PROVE TypeOK'
  BY <1>6 DEF vars, TypeOK
<1> QED
  BY <1>1, <1>2, <1>3, <1>4, <1>5, <1>6 DEF Next

\* Types, and never more handlers than the table has room for.
THEOREM TypeCorrect == Spec => []TypeOK
  BY InitTyped, StepTyped, PTL DEF Spec

-----------------------------------------------------------------------------
(* The order of the list.                                                  *)

\* What SortedDisjoint says of a list.
Sorted(s) ==
  /\ \A i \in 1..Len(s) : addr_first[s[i]] <= addr_last[s[i]]
  /\ \A i, j \in 1..Len(s) : i < j => addr_last[s[i]] < addr_first[s[j]]

LEMMA SortedIs ==
  ASSUME handlers \in Seq(Dev)
  PROVE  SortedDisjoint <=> Sorted(handlers)
  BY DEF SortedDisjoint, Sorted

\* The walk stops behind all devices below the new one and before all above.
LEMMA FoundPlace ==
  ASSUME TypeOK, SortedDisjoint, NEW d \in Dev, NEW p \in 1..Len(handlers)+1, Inserts(d, p)
  PROVE  /\ \A i \in 1..Len(handlers) : i < p => addr_last[handlers[i]] < addr_first[d]
         /\ \A i \in 1..Len(handlers) : i >= p => addr_last[d] < addr_first[handlers[i]]
<1>1. /\ handlers \in Seq(Dev) /\ DOMAIN handlers = 1..Len(handlers) /\ Len(handlers) \in Nat
      /\ Sorted(handlers) /\ addr_first[d] <= addr_last[d]
  BY SortedIs DEF TypeOK, Inserts
<1>2. ASSUME NEW i \in 1..Len(handlers), i < p PROVE addr_last[handlers[i]] < addr_first[d]
  <2>1. i \notin Stops(d)
    BY <1>2 DEF Inserts, Position
  <2>2. ~Overlap(d, handlers[i]) /\ ~(addr_first[d] < addr_last[handlers[i]])
    BY <1>1, <2>1 DEF Stops
  <2>3. handlers[i] \in Dev /\ addr_first[handlers[i]] <= addr_last[handlers[i]]
    BY <1>1 DEF Sorted
  <2> QED
    BY <1>1, <2>2, <2>3, Ranges DEF Overlap
<1>3. ASSUME p \in 1..Len(handlers) PROVE addr_last[d] < addr_first[handlers[p]]
  <2>1. p \in Stops(d) /\ ~Overlap(d, handlers[p])
    BY <1>1, <1>3 DEF Inserts, Position
  <2>2. addr_first[d] < addr_last[handlers[p]] /\ handlers[p] \in Dev
    BY <1>1, <1>3, <2>1 DEF Stops
  <2> QED
    BY <2>1, <2>2, Ranges DEF Overlap
<1>4. ASSUME NEW i \in 1..Len(handlers), i >= p PROVE addr_last[d] < addr_first[handlers[i]]
  <2>1. p \in 1..Len(handlers) /\ handlers[p] \in Dev /\ handlers[i] \in Dev
    BY <1>1, <1>4
  <2>2. CASE i = p
    BY <1>3, <2>1, <2>2
  <2>3. CASE i > p
    <3>1. /\ addr_last[handlers[p]] < addr_first[handlers[i]]
          /\ addr_first[handlers[p]] <= addr_last[handlers[p]]
      BY <1>1, <2>1, <2>3 DEF Sorted
    <3> QED
      BY <1>3, <2>1, <3>1, Ranges
  <2> QED
    BY <1>4, <2>2, <2>3
<1> QED
  BY <1>2, <1>4

LEMMA InsertedSorted ==
  ASSUME TypeOK, SortedDisjoint, NEW d \in Dev, NEW p \in 1..Len(handlers)+1, Inserts(d, p)
  PROVE  Sorted(Inserted(d, p))
<1> DEFINE s == Inserted(d, p)
           n == Len(handlers)
<1>1. /\ n \in Nat /\ handlers \in Seq(Dev) /\ Sorted(handlers)
      /\ addr_first[d] <= addr_last[d]
  BY SortedIs DEF TypeOK, Inserts
<1>2. /\ Len(s) = n + 1 /\ s[p] = d
      /\ \A i \in 1..n+1 : i < p => s[i] = handlers[i]
      /\ \A i \in 1..n+1 : i > p => s[i] = handlers[i-1]
  BY InsertedList
<1>3. /\ \A i \in 1..n : i < p => addr_last[handlers[i]] < addr_first[d]
      /\ \A i \in 1..n : i >= p => addr_last[d] < addr_first[handlers[i]]
  BY FoundPlace
<1> HIDE DEF s, n
<1>4. ASSUME NEW i \in 1..n+1 PROVE addr_first[s[i]] <= addr_last[s[i]]
  <2>1. CASE i < p
    BY <1>1, <1>2, <2>1 DEF Sorted, n
  <2>2. CASE i = p
    BY <1>1, <1>2, <2>2
  <2>3. CASE i > p
    <3>1. s[i] = handlers[i-1] /\ i - 1 \in 1..n
      BY <1>1, <1>2, <2>3
    <3> QED
      BY <1>1, <3>1 DEF Sorted, n
  <2> QED
    BY <1>1, <2>1, <2>2, <2>3
<1>5. ASSUME NEW i \in 1..n+1, NEW j \in 1..n+1, i < j
      PROVE  addr_last[s[i]] < addr_first[s[j]]
  <2>1. CASE j < p
    BY <1>1, <1>2, <1>5, <2>1 DEF Sorted, n
  <2>2. CASE j = p
    BY <1>1, <1>2, <1>3, <1>5, <2>2
  <2>3. CASE j > p
    <3>1. s[j] = handlers[j-1] /\ j - 1 \in 1..n /\ j - 1 >= p
      BY <1>1, <1>2, <2>3
    <3>2. CASE i < p
      <4>1. s[i] = handlers[i] /\ i \in 1..n /\ i < j - 1
        BY <1>1, <1>2, <3>1, <3>2
      <4> QED
        BY <1>1, <3>1, <4>1 DEF Sorted, n
    <3>3. CASE i = p
      BY <1>1, <1>2, <1>3, <3>1, <3>3
    <3>4. CASE i > p
      <4>1. s[i] = handlers[i-1] /\ i - 1 \in 1..n /\ i - 1 < j - 1
        BY <1>1, <1>2, <1>5, <3>4
      <4> QED
        BY <1>1, <3>1, <4>1 DEF Sorted, n
    <3> QED
      BY <3>2, <3>3, <3>4
  <2> QED
    BY <1>1, <2>1, <2>2, <2>3
<1> QED
  BY <1>2, <1>4, <1>5 DEF Sorted, s

LEMMA InitSorted == Init => SortedDisjoint
  BY DEF Init, SortedDisjoint

LEMMA StepSorted == TypeOK /\ SortedDisjoint /\ [Next]_vars => SortedDisjoint'
<1> SUFFICES ASSUME TypeOK, SortedDisjoint, [Next]_vars PROVE SortedDisjoint'
  OBVIOUS
<1>a. /\ handlers \in Seq(Dev) /\ DOMAIN handlers = 1..Len(handlers) /\ Len(handlers) \in Nat
      /\ Sorted(handlers)
  BY SortedIs DEF TypeOK
<1>b. handlers' \in Seq(Dev)
  BY StepTyped DEF TypeOK
<1>c. Sorted(handlers') => SortedDisjoint'
  BY <1>b DEF Sorted, SortedDisjoint
<1>1. ASSUME NEW d \in Dev, Attach(d) PROVE SortedDisjoint'
  <2>1. PICK p \in 1..Len(handlers)+1 : Inserts(d, p) /\ handlers' = Inserted(d, p)
    BY <1>1 DEF Attach
  <2> QED
    BY <1>c, <2>1, InsertedSorted
<1>2. ASSUME NEW d \in Dev, AttachNoRoom(d) PROVE SortedDisjoint'
  <2>1. PICK p \in 1..Len(handlers)+1 : handlers' = SubSeq(handlers, 1, p - 1)
    BY <1>2 DEF AttachNoRoom
  <2>2. /\ Len(handlers') = p - 1
        /\ \A i \in 1..p-1 : handlers'[i] = handlers[i] /\ i \in 1..Len(handlers)
    BY <1>a, <2>1, CutList
  <2> QED
    BY <1>a, <1>c, <2>2 DEF Sorted
<1>3. ASSUME NEW d \in Dev, Detach(d) PROVE SortedDisjoint'
  <2>1. PICK i \in DOMAIN handlers : handlers' = Removed(i)
    BY <1>3 DEF Detach, Removed
  <2> DEFINE from(j) == IF j < i THEN j ELSE j + 1
  <2>2. /\ Len(handlers') = Len(handlers) - 1
        /\ \A j \in 1..Len(handlers)-1 :
             handlers'[j] = handlers[from(j)] /\ from(j) \in 1..Len(handlers)
    <3>1. /\ Len(handlers') = Len(handlers) - 1
          /\ \A j \in 1..Len(handlers)-1 :
               handlers'[j] = IF j < i THEN handlers[j] ELSE handlers[j+1]
      BY <2>1, RemovedList
    <3>2. ASSUME NEW j \in 1..Len(handlers)-1
          PROVE  handlers'[j] = handlers[from(j)] /\ from(j) \in 1..Len(handlers)
      <4>1. CASE j < i
        BY <1>a, <3>1, <4>1
      <4>2. CASE ~(j < i)
        BY <1>a, <3>1, <4>2
      <4> QED
        BY <4>1, <4>2
    <3> QED
      BY <3>1, <3>2
  <2>3. \A j, k \in 1..Len(handlers)-1 : j < k => from(j) < from(k)
    BY <1>a
  <2> HIDE DEF from
  <2> QED
    BY <1>a, <1>c, <2>2, <2>3 DEF Sorted
<1>4. ASSUME UNCHANGED handlers PROVE SortedDisjoint'
  BY <1>a, <1>c, <1>4
<1> QED
  BY <1>1, <1>2, <1>3, <1>4 DEF Next, vars, AttachRefused, DetachUnknown

\* The ranges on the list stay disjoint and in ascending order, although the
\* walk of eb_socket_attach ends at the first device above the new one.
THEOREM ListSorted == Spec => []SortedDisjoint
  BY InitTyped, InitSorted, StepTyped, StepSorted, PTL DEF Spec

-----------------------------------------------------------------------------
(* Who answers.                                                            *)

\* Devices end where the SDB table may begin, and before the table that would
\* follow the last of them reaches the end of the bus.
AlignedDevices == \A d \in Dev : AlignUp((addr_last[d] + 1) % Top) = addr_last[d] + 1
RoomAtEnd == \A d \in Dev : addr_last[d] + 1 + Required < Top

\* The application was told the truth, and the table is clear of all devices.
Listed == attached = {handlers[i] : i \in 1..Len(handlers)}
Clear(s, t) ==
  \A i \in 1..Len(s) : addr_last[s[i]] < t \/ t + Required <= addr_first[s[i]]

Inv == /\ TypeOK /\ SortedDisjoint /\ Listed
       /\ sdb + Required <= Top /\ Clear(handlers, sdb)

\* The scan passes each device at its end.
LEMMA ScanEnds ==
  ASSUME AlignedDevices, NEW s \in Seq(Dev), NEW k \in 0..Len(s)
  PROVE  ScanLast(s, k) = IF k = 0 THEN 0 ELSE addr_last[s[k]] + 1
<1>1. k # 0 => s[k] \in Dev
  OBVIOUS
<1> QED
  BY <1>1 DEF ScanLast, AlignedDevices

\* A small number is its own remainder.
LEMMA SmallRemainder ==
  ASSUME NEW n \in Nat \ {0}, NEW x \in 0..n-1
  PROVE  x % n = x
  OBVIOUS

\* There is room after the last device.
LEMMA AlwaysRoom ==
  ASSUME AlignedDevices, RoomAtEnd, NEW s \in Seq(Dev)
  PROVE  ~NoRoom(s)
<1>1. Len(s) \in 0..Len(s) /\ (Len(s) # 0 => s[Len(s)] \in Dev)
  OBVIOUS
<1>2. Required + 1 <= Top /\ Top \in Nat /\ Required \in Nat
  BY BusAssumption
<1>3. ScanLast(s, Len(s)) = IF Len(s) = 0 THEN 0 ELSE addr_last[s[Len(s)]] + 1
  BY <1>1, ScanEnds
<1>4. Len(s) # 0 => addr_last[s[Len(s)]] + 1 + Required < Top /\ addr_last[s[Len(s)]] \in Nat
  BY <1>1, Ranges DEF RoomAtEnd
<1>5. ScanLast(s, Len(s)) <= Top - 1 - Required
  BY ONLY <1>2, <1>3, <1>4
<1>6. ScanLast(s, Len(s)) \in Nat
  BY ONLY <1>3, <1>4
<1> QED
  BY <1>2, <1>5, <1>6 DEF NoRoom

\* Between two neighbours of a sorted list the difference does not wrap, so
\* the place that is found is a gap of the size of the table.
LEMMA PlaceClear ==
  ASSUME AlignedDevices, RoomAtEnd, NEW s \in Seq(Dev), Sorted(s),
         NEW k \in 0..Len(s), Place(s, k)
  PROVE  ScanLast(s, k) + Required <= Top /\ Clear(s, ScanLast(s, k))
<1> DEFINE t == ScanLast(s, k)
<1>1. /\ Top \in Nat /\ Required \in Nat /\ Required + 1 <= Top
      /\ Len(s) \in Nat /\ \A i \in 1..Len(s) : s[i] \in Dev
  BY BusAssumption
<1>2. \A i \in 1..Len(s) : /\ addr_first[s[i]] \in Nat /\ addr_last[s[i]] \in Nat
                           /\ addr_first[s[i]] < Top
                           /\ addr_last[s[i]] + 1 + Required < Top
                           /\ addr_first[s[i]] <= addr_last[s[i]]
  BY <1>1, Ranges DEF RoomAtEnd, Sorted
<1>3. t = IF k = 0 THEN 0 ELSE addr_last[s[k]] + 1
  BY ScanEnds
<1>4. t \in Nat /\ t + Required <= Top
  BY ONLY <1>1, <1>2, <1>3
<1>5. ASSUME NEW i \in 1..Len(s), i <= k PROVE addr_last[s[i]] < t
  <2>1. CASE i = k
    BY <1>2, <1>3, <2>1
  <2>2. CASE i < k
    <3>1. addr_last[s[i]] < addr_first[s[k]] /\ k \in 1..Len(s)
      BY <1>1, <2>2 DEF Sorted
    <3> QED
      BY <1>2, <1>3, <3>1
  <2> QED
    BY <1>5, <2>1, <2>2
<1>6. ASSUME NEW i \in 1..Len(s), i > k PROVE t + Required <= addr_first[s[i]]
  <2>1. k + 1 \in 1..Len(s) /\ k # Len(s)
    BY <1>1, <1>6
  <2>2. k \in Gaps(s)
    BY <2>1 DEF Place
  <2>3. (addr_first[s[k+1]] - t) % Top >= Required
    BY <2>2 DEF Gaps
  <2>4. t <= addr_first[s[k+1]]
    <3>1. k # 0 => addr_last[s[k]] < addr_first[s[k+1]]
      BY <1>1, <2>1 DEF Sorted
    <3> QED
      BY <1>2, <1>3, <2>1, <3>1
  <2>5. addr_first[s[k+1]] - t \in 0..Top-1 /\ Top \in Nat \ {0}
    BY <1>1, <1>2, <1>4, <2>1, <2>4
  <2>6. addr_first[s[k+1]] - t >= Required
    BY ONLY <2>3, <2>5, SmallRemainder
  <2>7. addr_first[s[k+1]] <= addr_first[s[i]]
    <3>1. CASE i = k + 1
      BY <1>2, <3>1
    <3>2. CASE i > k + 1
      BY <1>1, <1>2, <2>1, <3>2 DEF Sorted
    <3> QED
      BY <1>6, <3>1, <3>2
  <2> QED
    BY <1>1, <1>2, <1>4, <2>1, <2>6, <2>7
<1> QED
  BY <1>1, <1>4, <1>5, <1>6 DEF Clear

LEMMA InitInv == Init => Inv
  BY InitTyped, InitSorted, BusAssumption DEF Init, Inv, Listed, Clear

LEMMA StepInv == AlignedDevices /\ RoomAtEnd /\ Inv /\ [Next]_vars => Inv'
<1> SUFFICES ASSUME AlignedDevices, RoomAtEnd, Inv, [Next]_vars
             PROVE  Inv'
  OBVIOUS
<1>a. TypeOK' /\ SortedDisjoint'
  BY StepTyped, StepSorted DEF Inv
<1>b. handlers \in Seq(Dev) /\ DOMAIN handlers = 1..Len(handlers) /\ Len(handlers) \in Nat
  BY DEF Inv, TypeOK
<1>1. ASSUME NEW d \in Dev, Attach(d) PROVE Inv'
  <2>1. PICK p \in 1..Len(handlers)+1 :
          /\ Inserts(d, p)
          /\ handlers' = Inserted(d, p)
          /\ \E k \in 0..Len(handlers)+1 :
               Place(Inserted(d, p), k) /\ sdb' = ScanLast(Inserted(d, p), k)
    BY <1>1 DEF Attach
  <2>2. /\ Inserted(d, p) \in Seq(Dev) /\ Len(Inserted(d, p)) = Len(handlers) + 1
        /\ Inserted(d, p)[p] = d
        /\ \A i \in 1..Len(handlers)+1 : i < p => Inserted(d, p)[i] = handlers[i]
        /\ \A i \in 1..Len(handlers)+1 : i > p => Inserted(d, p)[i] = handlers[i-1]
        /\ Sorted(Inserted(d, p))
    BY <2>1, InsertedList, InsertedSorted DEF Inv
  <2>3. sdb' + Required <= Top /\ Clear(handlers', sdb')
    BY <2>1, <2>2, PlaceClear
  <2>4. {handlers'[i] : i \in 1..Len(handlers)+1}
          = {handlers[i] : i \in 1..Len(handlers)} \cup {d}
    <3>1. ASSUME NEW i \in 1..Len(handlers)
          PROVE  \E j \in 1..Len(handlers)+1 : handlers'[j] = handlers[i]
      <4>1. CASE i < p
        BY <1>b, <2>1, <2>2, <4>1
      <4>2. CASE i >= p
        <5>1. i + 1 \in 1..Len(handlers)+1 /\ i + 1 > p /\ (i + 1) - 1 = i
          BY <1>b, <4>2
        <5>2. handlers'[i + 1] = handlers[(i + 1) - 1]
          BY <2>1, <2>2, <5>1
        <5> QED
          BY <5>1, <5>2
      <4> QED
        BY <1>b, <4>1, <4>2
    <3>2. ASSUME NEW j \in 1..Len(handlers)+1
          PROVE  handlers'[j] = d \/ \E i \in 1..Len(handlers) : handlers'[j] = handlers[i]
      <4>1. CASE j < p
        BY <1>b, <2>1, <2>2, <4>1
      <4>2. CASE j = p
        BY <2>1, <2>2, <4>2
      <4>3. CASE j > p
        BY <1>b, <2>1, <2>2, <4>3
      <4> QED
        BY <1>b, <4>1, <4>2, <4>3
    <3>3. handlers'[p] = d
      BY <2>1, <2>2
    <3> QED
      BY <3>1, <3>2, <3>3
  <2>5. attached' = attached \cup {d}
    BY <1>1 DEF Attach
  <2> QED
    BY <1>a, <2>1, <2>2, <2>3, <2>4, <2>5 DEF Inv, Listed
<1>2. ASSUME NEW d \in Dev PROVE ~AttachNoRoom(d)
  BY AlwaysRoom, InsertedList DEF AttachNoRoom, Inv
<1>3. ASSUME NEW d \in Dev, Detach(d) PROVE Inv'
  <2>1. PICK i \in DOMAIN handlers : handlers[i] = d /\ handlers' = Removed(i)
    BY <1>3 DEF Detach, Removed
  <2>2. /\ Len(handlers') = Len(handlers) - 1 /\ i \in 1..Len(handlers)
        /\ \A j \in 1..Len(handlers)-1 :
             handlers'[j] = IF j < i THEN handlers[j] ELSE handlers[j+1]
    BY <1>b, <2>1, RemovedList DEF Inv
  <2>3. ASSUME NEW j \in 1..Len(handlers)-1
        PROVE  \E k \in 1..Len(handlers) : k # i /\ handlers'[j] = handlers[k]
    <3>1. CASE j < i
      BY <1>b, <2>2, <3>1
    <3>2. CASE j >= i
      <4>1. j + 1 \in 1..Len(handlers) /\ j + 1 # i /\ handlers'[j] = handlers[j+1]
        BY <1>b, <2>2, <3>2
      <4> QED
        BY <4>1
    <3> QED
      BY <1>b, <3>1, <3>2
  <2>4. ASSUME NEW k \in 1..Len(handlers), k # i
        PROVE  \E j \in 1..Len(handlers)-1 : handlers'[j] = handlers[k]
    <3>1. CASE k < i
      <4>1. k \in 1..Len(handlers)-1 /\ handlers'[k] = handlers[k]
        BY <1>b, <2>2, <3>1
      <4> QED
        BY <4>1
    <3>2. CASE k > i
      <4>1. k - 1 \in 1..Len(handlers)-1 /\ ~(k - 1 < i) /\ (k - 1) + 1 = k
        BY <1>b, <2>2, <3>2
      <4>2. handlers'[k-1] = handlers[(k - 1) + 1]
        BY <2>2, <4>1
      <4> QED
        BY <4>1, <4>2
    <3> QED
      BY <1>b, <2>4, <3>1, <3>2
  <2>5. \A k \in 1..Len(handlers) : handlers[k] = d => k = i
    <3>1. Sorted(handlers)
      BY <1>b, SortedIs DEF Inv
    <3>2. ASSUME NEW k \in 1..Len(handlers), handlers[k] = d, k # i PROVE FALSE
      <4>1. /\ addr_first[d] <= addr_last[d] /\ d \in Dev
            /\ addr_last[d] < addr_first[d]
        <5>1. addr_first[d] <= addr_last[d]
          BY <2>1, <2>2, <3>1 DEF Sorted
        <5>2. CASE k < i
          BY <2>1, <2>2, <3>1, <3>2, <5>1, <5>2 DEF Sorted
        <5>3. CASE k > i
          BY <2>1, <2>2, <3>1, <3>2, <5>1, <5>3 DEF Sorted
        <5> QED
          BY <1>b, <2>2, <3>2, <5>1, <5>2, <5>3
      <4> QED
        BY <4>1, Ranges
    <3> QED
      BY <3>2
  <2>6. attached' = attached \ {d} /\ sdb' = sdb
    BY <1>3 DEF Detach
  <2>7. Listed'
    <3>1. {handlers'[j] : j \in 1..Len(handlers)-1}
            = {handlers[k] : k \in 1..Len(handlers)} \ {d}
      <4>1. \A j \in 1..Len(handlers)-1 :
              \E k \in 1..Len(handlers) : handlers'[j] = handlers[k] /\ handlers[k] # d
        BY <2>3, <2>5
      <4>2. \A k \in 1..Len(handlers) : handlers[k] # d =>
              \E j \in 1..Len(handlers)-1 : handlers'[j] = handlers[k]
        BY <2>1, <2>4
      <4> DEFINE N == 1..Len(handlers)
                 M == 1..Len(handlers)-1
      <4> HIDE DEF N, M
      <4>3. ASSUME NEW x \in {handlers'[j] : j \in M}
            PROVE  x \in {handlers[k] : k \in N} \ {d}
        BY ONLY <4>1, <4>3 DEF N, M
      <4>4. ASSUME NEW x \in {handlers[k] : k \in N} \ {d}
            PROVE  x \in {handlers'[j] : j \in M}
        BY ONLY <4>2, <4>4 DEF N, M
      <4> QED
        BY ONLY <4>3, <4>4 DEF N, M
    <3> QED
      BY <2>2, <2>6, <3>1 DEF Inv, Listed
  <2>8. Clear(handlers', sdb')
    BY <2>2, <2>3, <2>6 DEF Inv, Clear
  <2> QED
    BY <1>a, <2>6, <2>7, <2>8 DEF Inv
<1>4. ASSUME UNCHANGED <<handlers, sdb, attached>> PROVE Inv'
  BY <1>4, <1>a DEF Inv, Listed, Clear
<1> QED
  BY <1>1, <1>2, <1>3, <1>4 DEF Next, vars, AttachRefused, DetachUnknown

\* With aligned devices and room at the end, the SDB table never reaches over
\* the end of the bus,
THEOREM TableInside ==
  ASSUME AlignedDevices, RoomAtEnd
  PROVE  Spec => []TableWithinBus
<1>1. Inv /\ [Next]_vars => Inv'
  BY StepInv
<1>2. Inv => TableWithinBus
  BY DEF Inv, TableWithinBus
<1> QED
  BY InitInv, <1>1, <1>2, PTL DEF Spec

\* ... and each attached device receives all accesses to its addresses, and
\* nobody those to other addresses.
THEOREM RoutedRight ==
  ASSUME AlignedDevices, RoomAtEnd
  PROVE  Spec => []HandlerReceivesAll
<1>1. Inv /\ [Next]_vars => Inv'
  BY StepInv
<1>2. Inv => HandlerReceivesAll
  <2> SUFFICES ASSUME Inv PROVE HandlerReceivesAll
    OBVIOUS
  <2>1. /\ DOMAIN handlers = 1..Len(handlers) /\ Len(handlers) \in Nat
        /\ \A i \in 1..Len(handlers) : handlers[i] \in Dev
        /\ Sorted(handlers)
        /\ Top \in Nat /\ Required \in Nat /\ sdb \in Nat
    BY BusAssumption, SortedIs DEF Inv, TypeOK, Address
  <2>2. ASSUME NEW d \in attached, NEW a \in addr_first[d]..addr_last[d]
        PROVE  ReadReaches(a, d) /\ WriteReaches(a, d)
    <3>1. PICK i \in 1..Len(handlers) : handlers[i] = d
      BY DEF Inv, Listed
    <3>2. /\ addr_first[d] \in Nat /\ addr_last[d] \in Nat
          /\ addr_first[d] <= a /\ a <= addr_last[d] /\ a \in Nat
      BY <2>1, <3>1, Ranges
    <3>3. ASSUME NEW j \in 1..i-1 PROVE ~Covers(handlers[j], a)
      <4>1. /\ addr_last[handlers[j]] < addr_first[handlers[i]]
            /\ j \in 1..Len(handlers)
        BY <2>1 DEF Sorted
      <4>2. addr_last[handlers[j]] \in Nat
        BY <2>1, <4>1, Ranges
      <4> QED
        BY <3>1, <3>2, <4>1, <4>2 DEF Covers
    <3>4. WriteReaches(a, d)
      BY <2>1, <3>1, <3>2, <3>3 DEF WriteReaches, Covers
    <3>5. addr_last[d] < sdb \/ sdb + Required <= addr_first[d]
      BY <3>1 DEF Inv, Clear
    <3>6. ~InTable(a)
      <4>1. (sdb + Required) % Top <= sdb + Required
        <5>1. sdb + Required <= Top /\ sdb + Required \in Nat /\ Top > 0
          BY <2>1, BusAssumption DEF Inv
        <5>2. CASE sdb + Required < Top
          BY ONLY <5>1, <5>2, <2>1, SmallRemainder
        <5>3. CASE sdb + Required = Top
          BY ONLY <5>1, <5>3, <2>1
        <5> QED
          BY <2>1, <5>1, <5>2, <5>3
      <4>2. (sdb + Required) % Top \in Nat
        BY <2>1, BusAssumption
      <4> QED
        BY <2>1, <3>2, <3>5, <4>1, <4>2 DEF InTable
    <3> QED
      BY <3>4, <3>6 DEF ReadReaches
  <2>3. ASSUME NEW a \in Address, \A d \in attached : ~Covers(d, a)
        PROVE  WriteReaches(a, None)
    BY <2>1, <2>3 DEF WriteReaches, Inv, Listed
  <2> QED
    BY <2>2, <2>3 DEF HandlerReceivesAll
<1> QED
  BY InitInv, <1>1, <1>2, PTL DEF Spec

-----------------------------------------------------------------------------
(* Refusals.                                                               *)

\* Two devices or more that can be attached together leave room for the table.
RoomBesideSeveral ==
  \A s \in Seq(Dev) : Len(s) \in 2..MaxDevices /\ Sorted(s) => ~NoRoom(s)

\* A new device that leaves no room for the table is then the first of the bus,
\* and unlinking it cuts nothing off the list.
LEMMA NothingCut ==
  ASSUME RoomBesideSeveral, TypeOK, SortedDisjoint, NEW d \in Dev, AttachNoRoom(d)
  PROVE  UNCHANGED <<handlers, sdb>>
<1>1. PICK p \in 1..Len(handlers)+1 :
        /\ Inserts(d, p) /\ NoRoom(Inserted(d, p))
        /\ handlers' = SubSeq(handlers, 1, p - 1)
  BY DEF AttachNoRoom
<1>2. /\ Inserted(d, p) \in Seq(Dev) /\ Len(Inserted(d, p)) = Len(handlers) + 1
      /\ Sorted(Inserted(d, p))
  BY <1>1, InsertedList, InsertedSorted
<1>3. /\ handlers \in Seq(Dev) /\ Len(handlers) \in Nat /\ MaxDevices \in Nat
      /\ Len(handlers) < MaxDevices
  BY <1>1, BusAssumption DEF TypeOK, Inserts, Full
<1>4. Len(Inserted(d, p)) \notin 2..MaxDevices
  BY <1>1, <1>2 DEF RoomBesideSeveral
<1>5. Len(handlers) = 0 /\ p = 1
  BY <1>2, <1>3, <1>4
<1>6. handlers' = handlers
  <2>1. handlers = <<>>
    BY <1>3, <1>5
  <2> QED
    BY <1>1, <1>5, <2>1
<1> QED
  BY <1>6 DEF AttachNoRoom

\* An attach or detach that fails changes nothing, when only a device on its own
\* can be too large for the table beside it; where two devices can, the failing
\* attach takes others with it (handler.c:148, EbBusCrowded.cfg).
THEOREM FailureIsHarmless ==
  ASSUME RoomBesideSeveral
  PROVE  Spec => FailureChangesNothing
<1>1. TypeOK /\ SortedDisjoint /\ [Next]_vars
        => [result' # "OK" => UNCHANGED <<handlers, sdb>>]_vars
  <2> SUFFICES ASSUME TypeOK, SortedDisjoint, Next, result' # "OK"
               PROVE  UNCHANGED <<handlers, sdb>>
    BY DEF vars
  <2>1. PICK d \in Dev :
          AttachRefused(d) \/ Attach(d) \/ AttachNoRoom(d) \/ Detach(d) \/ DetachUnknown(d)
    BY DEF Next
  <2>2. CASE AttachRefused(d) \/ DetachUnknown(d)
    BY <2>2 DEF AttachRefused, DetachUnknown
  <2>3. ~Attach(d) /\ ~Detach(d)
    BY DEF Attach, Detach
  <2> QED
    BY <2>1, <2>2, <2>3, NothingCut
<1> QED
  BY <1>1, InitTyped, InitSorted, StepTyped, StepSorted, PTL DEF Spec, FailureChangesNothing

-----------------------------------------------------------------------------
(* The tunnel: the bytes of a stream.                                      *)

\* A stream w of a writer whose packets have the lengths s: what is known of each of its bytes,
\* and of any two of them.
Ends(b) == b.at = b.size + 2

Bytes(w, s) ==
  /\ w \in Seq(Byte)
  /\ \A i \in DOMAIN w :
       /\ w[i].frame \in 0..Len(s)
       /\ w[i].frame = 0 => w[i].size = 0 /\ w[i].at = 2
       /\ w[i].frame # 0 => w[i].size = s[w[i].frame] /\ w[i].at \in 1 .. w[i].size + 2

InOrder(w) ==
  \A i, j \in DOMAIN w : i < j =>
    /\ w[i].frame <= w[j].frame
    /\ w[i].frame = w[j].frame => w[j].at - w[i].at = j - i
    /\ w[i].frame < w[j].frame => j - i >= (w[i].size + 2 - w[i].at) + w[j].at

NoGap(w) == \A i, j \in DOMAIN w : j = i + 1 => w[j].frame <= w[i].frame + 1

Stream(w, s) == Bytes(w, s) /\ InOrder(w) /\ NoGap(w)

\* The r-th byte is the last of frame n; the r-th byte is the k-th of frame n.
AtRest(w, r, n) == w[r].frame = n /\ Ends(w[r])

Piece(w, r, n, k) == w[r].frame = n /\ w[r].at = k

Pcs == {"select", "accept", "name", "serve", "udp", "tcp", "second", "body", "killed"}
Ready == [port : BOOLEAN, tcp : SUBSET Client, udp : SUBSET (Client \X Sockets)]
Server == [pc : Pcs, ready : Ready, todo : SUBSET Client, at : SUBSET Client,
           got : Seq(Byte), fail : BOOLEAN]
Datagram == [answers : Nat, size : Length, host : Host \cup {Nobody}]

ProgramTyped ==
  /\ link \in [Client -> {"none", "asking", "open", "closed"}]
  /\ sent \in [Client -> Seq(Length)] /\ writing \in [Client -> BOOLEAN]
  /\ got \in [Client -> Seq(Byte)] /\ heard \in [Client -> Seq(Seq(Byte))]

StreamsTyped ==
  /\ up \in [Client -> Seq(Byte)] /\ upRead \in [Client -> Nat]
  /\ down \in [Client -> Seq(Byte)] /\ downRead \in [Client -> Nat]
  /\ \A c \in Client : upRead[c] <= Len(up[c]) /\ downRead[c] <= Len(down[c])

ServerTyped ==
  /\ backlog \subseteq Client /\ list \subseteq Client /\ hup \subseteq Client
  /\ server \in Server
  /\ passed \in [Client -> Seq(Seq(Byte))] /\ framed \in [Client -> Seq(Datagram)]

NetTyped ==
  /\ dest \in [Client -> Host \cup {Nobody}]
  /\ box \in [Client -> SUBSET Datagram]
  /\ sa \in Host \cup {Nobody} /\ da \in Host \cup {Nobody}
  /\ net \subseteq [client : Client, host : Host \cup {Nobody}, body : Seq(Byte)]

TunnelType == ProgramTyped /\ StreamsTyped /\ ServerTyped /\ NetTyped

\* The streams end where their writers are: after a length or between two frames.
UpWritten(c) ==
  /\ Stream(up[c], sent[c])
  /\ upRead[c] <= Len(up[c])
  /\ up[c] # <<>> => up[c][1].frame = 0
  /\ link[c] \in {"none", "asking"} => up[c] = <<>> /\ sent[c] = <<>> /\ ~writing[c]
  /\ writing[c] => sent[c] # <<>>
  /\ link[c] = "open" =>
       /\ up[c] # <<>>
       /\ IF writing[c] THEN Piece(up[c], Len(up[c]), Len(sent[c]), 2)
          ELSE AtRest(up[c], Len(up[c]), Len(sent[c]))

DownWritten(c) ==
  /\ Stream(down[c], Sizes(c))
  /\ downRead[c] <= Len(down[c])
  /\ down[c] # <<>> => down[c][1].frame = 1 /\ down[c][1].at = 1
  /\ IF framed[c] = <<>> THEN down[c] = <<>>
     ELSE down[c] # <<>> /\ AtRest(down[c], Len(down[c]), Len(framed[c]))

\* The readers are within a length, after it or between two frames, and have passed on all
\* frames before.  HeaderRead: g is what has been read of the length of frame n.
HeaderRead(w, r, n, g) ==
  \/ Len(g) = 1 /\ g[1] = w[r] /\ Piece(w, r, n, 1)
  \/ Len(g) = 2 /\ g[1].at = 1 /\ g[1].frame = n /\ g[1].size = w[r].size /\ g[2] = w[r]
     /\ Piece(w, r, n, 2)

DownReader(c) ==
  /\ link[c] \in {"none", "asking"} => downRead[c] = 0 /\ heard[c] = <<>> /\ got[c] = <<>>
  /\ Whole(heard[c], Sizes(c))
  /\ link[c] = "open" =>
       IF got[c] # <<>>
       THEN downRead[c] # 0 /\ HeaderRead(down[c], downRead[c], Len(heard[c]) + 1, got[c])
       ELSE IF downRead[c] = 0 THEN heard[c] = <<>>
       ELSE AtRest(down[c], downRead[c], Len(heard[c]))

\* The client whose turn it is, and whom the sets of the server hold.
ServerAt ==
  /\ server.pc \in {"select", "accept", "serve", "killed"} => server.at = {}
  /\ server.pc \in {"name", "udp", "tcp", "second", "body"} =>
        \E c \in Client : server.at = {c}
  /\ server.pc \in {"udp", "tcp", "second", "body"} => server.at \subseteq server.todo
  /\ server.pc = "name" => server.at \cap (list \cup backlog \cup hup) = {}
  /\ server.pc \in {"serve", "udp", "tcp", "second", "body"} => server.todo \subseteq list
  /\ server.pc # "killed" => list \cap hup = {} /\ backlog \cap hup = {}
  /\ backlog \cap list = {}
  /\ \A c \in Client : link[c] = "none" /\ server.pc # "killed" =>
        c \notin backlog \cup list \cup hup \cup server.at

UpReader(c) ==
  /\ Whole(passed[c], sent[c])
  /\ c \notin list \cup hup => upRead[c] = 0 /\ passed[c] = <<>>
  /\ c \in list /\ server.pc # "killed" =>
       IF server.pc \in {"second", "body"} /\ c \in server.at
       THEN /\ upRead[c] # 0
            /\ HeaderRead(up[c], upRead[c], Len(passed[c]) + 1, server.got)
            /\ Len(server.got) = IF server.pc = "second" THEN 1 ELSE 2
       ELSE IF upRead[c] = 0
       THEN up[c] = <<>> /\ link[c] = "closed" /\ passed[c] = <<>>
       ELSE AtRest(up[c], upRead[c], Len(passed[c]))

\* The inductive invariant of the streams.
StreamInv ==
  /\ TunnelType /\ ServerAt
  /\ \A c \in Client : UpWritten(c) /\ DownWritten(c) /\ UpReader(c) /\ DownReader(c)

\* What the addresses and the datagrams that wait say about the past.
DatagramInv ==
  /\ da \in {Nobody} \cup {Target[c] : c \in {e \in Client : Target[e] \in IPv4}}
  /\ \A c \in list : dest[c] = Target[c] \/ (up[c] = <<>> /\ link[c] = "closed")
  /\ \A d \in net : d.host = Target[d.client]
  /\ \A c \in Client : \A p \in box[c] :
       \/ p.host = Target[c] /\ p.answers \in 1..Len(passed[c])
       \/ p.answers = 0 /\ <<c, p.host>> \in Stray

-----------------------------------------------------------------------------
LEMMA ByteAt ==
  ASSUME NEW w \in Seq(Byte), NEW i \in 1..Len(w)
  PROVE  w[i] \in Byte /\ w[i].frame \in Nat /\ w[i].size \in Nat /\ w[i].at \in Nat
<1>1. w[i] \in Byte
  OBVIOUS
<1> QED BY <1>1 DEF Byte

IsPart(p, n, size, from, to) ==
  /\ p \in Seq(Byte) /\ Len(p) = to - from + 1
  /\ \A k \in 1..Len(p) : p[k].frame = n /\ p[k].size = size /\ p[k].at = from + k - 1

LEMMA PartBytes ==
  ASSUME NEW n \in Nat, NEW size \in Nat, NEW from \in Nat, NEW to \in Nat, from <= to + 1
  PROVE  IsPart(Part(n, size, from, to), n, size, from, to)
<1> DEFINE m == to - from + 1
           f(k) == [frame |-> n, size |-> size, at |-> from + k - 1]
<1>1. Part(n, size, from, to) = [k \in 1..m |-> f(k)]
  BY DEF Part
<1>2. m \in Nat
  OBVIOUS
<1>3. \A k \in 1..m : f(k) \in Byte
  <2>1. \A k \in 1..m : from + k - 1 \in Nat
    OBVIOUS
  <2> QED BY <2>1 DEF Byte
<1>4. \A k \in 1..m : f(k).frame = n /\ f(k).size = size /\ f(k).at = from + k - 1
  OBVIOUS
<1> HIDE DEF m, f
<1>5. [k \in 1..m |-> f(k)] \in Seq(Byte) /\ Len([k \in 1..m |-> f(k)]) = m
  BY <1>2, <1>3
<1>6. \A k \in 1..m : [j \in 1..m |-> f(j)][k] = f(k)
  OBVIOUS
<1> QED BY <1>1, <1>4, <1>5, <1>6 DEF m, IsPart

\* A stream that goes on with part of a frame: of the frame it ends in, or of the next.
Continues(w, n, from) ==
  w # <<>> => \/ w[Len(w)].frame = n /\ w[Len(w)].at = from - 1
              \/ w[Len(w)].frame = n - 1 /\ Ends(w[Len(w)]) /\ from = 1

LEMMA StreamGrows ==
  ASSUME NEW w, NEW s \in Seq(Nat), Stream(w, s), NEW p,
         NEW n \in Nat, NEW size \in Nat, NEW from \in Nat, NEW to \in Nat,
         IsPart(p, n, size, from, to), n <= Len(s),
         n = 0 => size = 0 /\ from = 2 /\ to = 2,
         n # 0 => size = s[n] /\ from >= 1 /\ to <= size + 2,
         Continues(w, n, from)
  PROVE  Stream(w \o p, s) /\ Len(w \o p) = Len(w) + Len(p)
<1> DEFINE v == w \o p
           L == Len(w)
           M == Len(p)
<1>1. w \in Seq(Byte) /\ p \in Seq(Byte)
  BY DEF Stream, Bytes, IsPart
<1>2. L \in Nat /\ M \in Nat
  BY <1>1
<1>3. v \in Seq(Byte) /\ Len(v) = L + M
  BY <1>1
<1>4. DOMAIN v = 1 .. L + M /\ DOMAIN w = 1..L
  BY <1>1, <1>3, <1>2
<1>5. \A i \in 1..L : v[i] = w[i]
  BY <1>1
<1>6. \A i \in 1 .. L + M : i > L => v[i] = p[i - L] /\ i - L \in 1..M
  BY <1>1, <1>2
<1>7. M = to - from + 1
  BY DEF IsPart
<1> HIDE DEF v, L, M
<1>8. ASSUME NEW i \in 1 .. L + M, i > L
      PROVE  /\ v[i].frame = n /\ v[i].size = size /\ v[i].at = from + (i - L) - 1
             /\ i - L \in 1..M
  <2>1. v[i] = p[i - L] /\ i - L \in 1..M
    BY <1>6, <1>8
  <2>2. \A k \in 1..M : p[k].frame = n /\ p[k].size = size /\ p[k].at = from + k - 1
    BY DEF IsPart, M
  <2>3. p[i-L].frame = n /\ p[i-L].size = size /\ p[i-L].at = from + (i - L) - 1
    BY <2>1, <2>2
  <2> QED BY <2>1, <2>3
<1>9. ASSUME NEW i \in 1..L
      PROVE  /\ w[i].frame \in 0..Len(s)
             /\ w[i].frame = 0 => w[i].size = 0 /\ w[i].at = 2
             /\ w[i].frame # 0 => w[i].size = s[w[i].frame] /\ w[i].at \in 1 .. w[i].size + 2
             /\ w[i].frame \in Nat /\ w[i].size \in Nat /\ w[i].at \in Nat
  <2>1. w[i].frame \in Nat /\ w[i].size \in Nat /\ w[i].at \in Nat
    BY <1>1, ByteAt DEF L
  <2> QED BY <2>1, <1>4 DEF Stream, Bytes
<1>10. ASSUME NEW i \in 1..L, NEW j \in 1..L, i < j
       PROVE  /\ w[i].frame <= w[j].frame
              /\ w[i].frame = w[j].frame => w[j].at - w[i].at = j - i
              /\ w[i].frame < w[j].frame => j - i >= (w[i].size + 2 - w[i].at) + w[j].at
  BY <1>4, <1>10 DEF Stream, InOrder
<1>11. Bytes(v, s)
  <2>1. ASSUME NEW i \in 1 .. L + M
        PROVE  /\ v[i].frame \in 0..Len(s)
               /\ v[i].frame = 0 => v[i].size = 0 /\ v[i].at = 2
               /\ v[i].frame # 0 => v[i].size = s[v[i].frame] /\ v[i].at \in 1 .. v[i].size + 2
    <3>1. CASE i <= L
      <4>1. i \in 1..L
        BY <3>1, <1>2
      <4> QED BY <4>1, <1>5, <1>9
    <3>2. CASE i > L
      <4>1. /\ v[i].frame = n /\ v[i].size = size /\ v[i].at = from + (i - L) - 1
            /\ i - L \in 1..M
        BY <3>2, <1>8
      <4>2. n \in 0..Len(s)
        OBVIOUS
      <4>3. n = 0 => v[i].at = 2
        BY <4>1, <1>7
      <4>4. n # 0 => v[i].at \in 1 .. size + 2
        BY <4>1, <1>7
      <4> QED BY <4>1, <4>2, <4>3, <4>4
    <3> QED BY <3>1, <3>2, <1>2
  <2> QED BY <2>1, <1>3, <1>4 DEF Bytes
<1>12. InOrder(v)
  <2> SUFFICES ASSUME NEW i \in 1 .. L + M, NEW j \in 1 .. L + M, i < j
               PROVE  /\ v[i].frame <= v[j].frame
                      /\ v[i].frame = v[j].frame => v[j].at - v[i].at = j - i
                      /\ v[i].frame < v[j].frame => j - i >= (v[i].size + 2 - v[i].at) + v[j].at
    BY <1>4 DEF InOrder
  <2>1. CASE j <= L
    <3>1. i \in 1..L /\ j \in 1..L
      BY <2>1, <1>2
    <3> QED BY <3>1, <1>5, <1>10
  <2>2. CASE i > L
    <3>1. v[i].frame = n /\ v[i].size = size /\ v[i].at = from + (i - L) - 1
      BY <2>2, <1>8
    <3>2. v[j].frame = n /\ v[j].size = size /\ v[j].at = from + (j - L) - 1
      BY <2>2, <1>8, <1>2
    <3>3. v[j].at - v[i].at = j - i
      BY <3>1, <3>2, <1>2
    <3> QED BY <3>1, <3>2, <3>3
  <2>3. CASE i <= L /\ j > L
    <3>1. v[j].frame = n /\ v[j].size = size /\ v[j].at = from + (j - L) - 1
      BY <2>3, <1>8
    <3>2. i \in 1..L /\ L \in 1..L /\ v[i] = w[i]
      BY <2>3, <1>2, <1>5
    <3> DEFINE fi == w[i].frame
               ai == w[i].at
               zi == w[i].size
               fl == w[L].frame
               al == w[L].at
               zl == w[L].size
    <3>3. fi \in Nat /\ ai \in Nat /\ zi \in Nat /\ fl \in Nat /\ al \in Nat /\ zl \in Nat
      BY <3>2, <1>9
    <3>4. \/ i = L
          \/ /\ i < L /\ fi <= fl
             /\ fi = fl => al - ai = L - i
             /\ fi < fl => L - i >= (zi + 2 - ai) + al
      BY <3>2, <1>10
    <3>5. fi = fl => zi = zl
      BY <3>2, <1>9
    <3>6. i = L => fi = fl /\ ai = al /\ zi = zl
      OBVIOUS
    <3>7. w # <<>>
      BY <3>2, <1>1 DEF L
    <3>8. \/ fl = n /\ al = from - 1
          \/ fl = n - 1 /\ al = zl + 2 /\ from = 1
      <4>1. \/ w[Len(w)].frame = n /\ w[Len(w)].at = from - 1
            \/ w[Len(w)].frame = n - 1 /\ w[Len(w)].at = w[Len(w)].size + 2 /\ from = 1
        BY <3>7, Zenon DEF Continues, Ends
      <4> QED BY <4>1, Zenon DEF L
    <3> HIDE DEF fi, ai, zi, fl, al, zl
    <3>9. /\ fi <= n
          /\ fi = n => (from + (j - L) - 1) - ai = j - i
          /\ fi < n => j - i >= (zi + 2 - ai) + (from + (j - L) - 1)
      BY <3>3, <3>4, <3>5, <3>6, <3>8, <1>2
    <3> QED BY <3>1, <3>2, <3>9 DEF fi, ai, zi
  <2> QED BY <2>1, <2>2, <2>3, <1>2
<1>13. NoGap(v)
  <2> SUFFICES ASSUME NEW i \in 1 .. L + M, NEW j \in 1 .. L + M, j = i + 1
               PROVE  v[j].frame <= v[i].frame + 1
    BY <1>4 DEF NoGap
  <2>1. CASE j <= L
    <3>1. i \in 1..L /\ j \in 1..L
      BY <2>1, <1>2
    <3>2. w[j].frame <= w[i].frame + 1
      BY <3>1, <1>4 DEF Stream, NoGap
    <3> QED BY <3>1, <3>2, <1>5
  <2>2. CASE i > L
    <3>1. v[i].frame = n /\ v[j].frame = n
      BY <2>2, <1>8, <1>2
    <3> QED BY <3>1
  <2>3. CASE i = L
    <3>1. v[j].frame = n
      BY <2>3, <1>8, <1>2
    <3>2. w # <<>> /\ v[L] = w[L] /\ w[L].frame \in Nat
      BY <2>3, <1>1, <1>2, <1>5, <1>9 DEF L
    <3>3. w[L].frame = n \/ w[L].frame = n - 1
      BY <3>2 DEF Continues, L
    <3> QED BY <2>3, <3>1, <3>2, <3>3
  <2> QED BY <2>1, <2>2, <2>3, <1>2
<1> QED BY <1>3, <1>11, <1>12, <1>13 DEF Stream, v, L, M

LEMMA StreamCut ==
  ASSUME NEW w, NEW s, Stream(w, s), NEW k \in 0..Len(w)
  PROVE  /\ Stream(SubSeq(w, 1, k), s)
         /\ Len(SubSeq(w, 1, k)) = k
         /\ \A i \in 1..k : SubSeq(w, 1, k)[i] = w[i]
<1> DEFINE v == SubSeq(w, 1, k)
<1>1. w \in Seq(Byte)
  BY DEF Stream, Bytes
<1>2. v \in Seq(Byte) /\ Len(v) = k /\ \A i \in 1..k : v[i] = w[i] /\ i \in DOMAIN w
  BY <1>1
<1>3. DOMAIN v = 1..k
  BY <1>2
<1> HIDE DEF v
<1>4. Bytes(v, s)
  BY <1>2, <1>3 DEF Stream, Bytes
<1>5. InOrder(v)
  BY <1>2, <1>3 DEF Stream, InOrder
<1>6. NoGap(v)
  BY <1>2, <1>3 DEF Stream, NoGap
<1> QED BY <1>2, <1>4, <1>5, <1>6 DEF Stream, v

\* More frames to come change nothing about the bytes that are there.
LEMMA StreamSizes ==
  ASSUME NEW w, NEW s \in Seq(Nat), Stream(w, s), NEW x \in Nat
  PROVE  Stream(w, Append(s, x))
<1>1. Len(Append(s, x)) = Len(s) + 1 /\ \A i \in 1..Len(s) : Append(s, x)[i] = s[i]
  OBVIOUS
<1>2. Bytes(w, Append(s, x))
  BY <1>1 DEF Stream, Bytes
<1> QED BY <1>2 DEF Stream

\* After the end of frame n comes the first byte of frame n + 1, and then its second.
LEMMA NextFrame ==
  ASSUME NEW w, NEW s \in Seq(Nat), Stream(w, s), NEW r \in Nat, NEW n \in Nat,
         IF r = 0 THEN n = 0 /\ (w # <<>> => w[1].frame = 1 /\ w[1].at = 1)
         ELSE r <= Len(w) /\ AtRest(w, r, n)
  PROVE  /\ r + 1 <= Len(w) => Piece(w, r + 1, n + 1, 1)
         /\ r + 2 <= Len(w) => Piece(w, r + 2, n + 1, 2)
<1>1. w \in Seq(Byte) /\ Len(w) \in Nat /\ DOMAIN w = 1..Len(w)
  BY DEF Stream, Bytes
<1>2. ASSUME r + 1 <= Len(w)
      PROVE  Piece(w, r + 1, n + 1, 1)
  <2>1. CASE r = 0
    BY <2>1, <1>1, <1>2 DEF Piece
  <2>2. CASE r # 0
    <3> DEFINE q == r + 1
               fr == w[r].frame
               ar == w[r].at
               zr == w[r].size
               fq == w[q].frame
               aq == w[q].at
               zq == w[q].size
    <3>1. r \in 1..Len(w) /\ q \in 1..Len(w) /\ r < q /\ q - r = 1
      BY <2>2, <1>1, <1>2
    <3>2. fr = n /\ ar = zr + 2
      BY <2>2 DEF AtRest, Ends
    <3> HIDE DEF q
    <3>3. fr \in Nat /\ ar \in Nat /\ zr \in Nat /\ fq \in Nat /\ aq \in Nat /\ zq \in Nat
      BY <3>1, <1>1, ByteAt
    <3>4. /\ fr <= fq
          /\ fr = fq => aq - ar = q - r
          /\ fr < fq => q - r >= (zr + 2 - ar) + aq
      BY <3>1, <1>1 DEF Stream, InOrder
    <3>5. fq <= fr + 1
      BY <3>1, <1>1 DEF Stream, NoGap, q
    <3>6. /\ fr = 0 => zr = 0
          /\ fr # 0 => zr = s[fr]
          /\ fq = 0 => aq = 2
          /\ fq # 0 => zq = s[fq] /\ aq \in 1 .. zq + 2
      BY <3>1, <1>1 DEF Stream, Bytes
    <3> HIDE DEF fr, ar, zr, fq, aq, zq
    <3>7. fq # n
      <4> SUFFICES ASSUME fq = n PROVE FALSE
        OBVIOUS
      <4>1. aq = zr + 3
        BY <3>1, <3>2, <3>3, <3>4
      <4>2. CASE n = 0
        BY <4>1, <4>2, <3>2, <3>3, <3>6
      <4>3. CASE n # 0
        <5>1. zq = zr /\ aq <= zq + 2
          BY <4>3, <3>2, <3>3, <3>6
        <5> QED BY <5>1, <4>1, <3>3
      <4> QED BY <4>2, <4>3
    <3>8. fq = n + 1
      BY <3>2, <3>3, <3>4, <3>5, <3>7
    <3>9. aq >= 1
      BY <3>6, <3>8, <3>3
    <3>10. aq = 1
      BY <3>1, <3>2, <3>3, <3>4, <3>8, <3>9
    <3> QED BY <3>8, <3>10 DEF Piece, fq, aq, q
  <2> QED BY <2>1, <2>2
<1>3. ASSUME r + 2 <= Len(w)
      PROVE  Piece(w, r + 2, n + 1, 2)
  <2> DEFINE p == r + 1
             q == r + 2
             fp == w[p].frame
             ap == w[p].at
             zp == w[p].size
             fq == w[q].frame
             aq == w[q].at
             zq == w[q].size
  <2>1. fp = n + 1 /\ ap = 1
    BY <1>2, <1>3, <1>1 DEF Piece
  <2>2. p \in 1..Len(w) /\ q \in 1..Len(w) /\ p < q /\ q - p = 1
    BY <1>1, <1>3
  <2> HIDE DEF p, q
  <2>3. fp \in Nat /\ ap \in Nat /\ zp \in Nat /\ fq \in Nat /\ aq \in Nat /\ zq \in Nat
    BY <2>2, <1>1, ByteAt
  <2>4. /\ fp <= fq
        /\ fp = fq => aq - ap = q - p
        /\ fp < fq => q - p >= (zp + 2 - ap) + aq
    BY <2>2, <1>1 DEF Stream, InOrder
  <2>5. fq # 0 => aq \in 1 .. zq + 2
    BY <2>2, <1>1 DEF Stream, Bytes
  <2> HIDE DEF fp, ap, zp, fq, aq, zq
  <2>6. ~(fp < fq)
    BY <2>1, <2>2, <2>3, <2>4, <2>5
  <2>7. fq = n + 1 /\ aq = 2
    BY <2>1, <2>2, <2>3, <2>4, <2>6
  <2> QED BY <2>7 DEF Piece, fq, aq, q
<1> QED BY <1>2, <1>3

\* What follows the second byte of a frame, as far as its length goes.
LEMMA WholeBody ==
  ASSUME NEW w, NEW s \in Seq(Nat), Stream(w, s), NEW r \in Nat, NEW n \in Nat \ {0},
         r \in 1..Len(w), Piece(w, r, n, 2), NEW k \in Nat, k <= w[r].size, r + k <= Len(w)
  PROVE  /\ SubSeq(w, r + 1, r + k) = Part(n, s[n], 3, k + 2)
         /\ n <= Len(s) /\ w[r].size = s[n]
         /\ k >= 1 => Piece(w, r + k, n, k + 2)
<1>1. w \in Seq(Byte) /\ Len(w) \in Nat /\ DOMAIN w = 1..Len(w)
  BY DEF Stream, Bytes
<1>2. w[r].frame = n /\ w[r].at = 2
  BY DEF Piece
<1>3. n <= Len(s) /\ w[r].size = s[n]
  BY <1>1, <1>2 DEF Stream, Bytes
<1>4. ASSUME NEW j \in 1..k
      PROVE  w[r + j] = [frame |-> n, size |-> s[n], at |-> j + 2]
  <2> DEFINE q == r + j
             z == w[r].size
             fq == w[q].frame
             aq == w[q].at
             zq == w[q].size
  <2>1. q \in 1..Len(w) /\ r < q /\ q - r = j
    BY <1>1
  <2> HIDE DEF q
  <2>2. fq \in Nat /\ aq \in Nat /\ zq \in Nat /\ z \in Nat
    BY <2>1, <1>1, ByteAt
  <2>3. /\ n <= fq
        /\ n = fq => aq - 2 = q - r
        /\ n < fq => q - r >= (z + 2 - 2) + aq
    BY <2>1, <1>1, <1>2 DEF Stream, InOrder
  <2>4. fq # 0 => zq = s[fq] /\ aq \in 1 .. zq + 2
    BY <2>1, <1>1 DEF Stream, Bytes
  <2>5. j <= z
    BY <2>2
  <2>6. w[q] \in Byte
    BY <2>1, <1>1, ByteAt
  <2> HIDE DEF fq, aq, zq, z
  <2>7. fq = n
    BY <2>1, <2>2, <2>3, <2>4, <2>5
  <2>8. aq = j + 2 /\ zq = s[n]
    BY <2>1, <2>2, <2>3, <2>4, <2>7
  <2>9. w[q] = [frame |-> fq, size |-> zq, at |-> aq]
    BY <2>6 DEF Byte, fq, zq, aq
  <2> QED BY <2>7, <2>8, <2>9 DEF q
<1>5. SubSeq(w, r + 1, r + k) = [j \in 1 .. k |-> w[r + j]]
  <2>1. SubSeq(w, r + 1, r + k) = [j \in 1 .. (r + k) - (r + 1) + 1 |-> w[(r + 1) + j - 1]]
    BY <1>1
  <2>2. (r + k) - (r + 1) + 1 = k
    OBVIOUS
  <2>3. \A j \in 1..k : (r + 1) + j - 1 = r + j
    OBVIOUS
  <2> QED BY <2>1, <2>2, <2>3
<1>6. Part(n, s[n], 3, k + 2) = [j \in 1..k |-> [frame |-> n, size |-> s[n], at |-> j + 2]]
  <2>1. (k + 2) - 3 + 1 = k /\ \A j \in 1..k : 3 + j - 1 = j + 2
    OBVIOUS
  <2> QED BY <2>1 DEF Part
<1>7. ASSUME k >= 1
      PROVE  Piece(w, r + k, n, k + 2)
  <2>1. w[r + k] = [frame |-> n, size |-> s[n], at |-> k + 2]
    <3>1. k \in 1..k
      BY <1>7
    <3> QED BY <3>1, <1>4
  <2> QED BY <2>1 DEF Piece
<1> QED BY <1>3, <1>4, <1>5, <1>6, <1>7

LEMMA DivMod ==
  ASSUME NEW x \in Nat, NEW m \in Nat \ {0}
  PROVE  x = m * (x \div m) + (x % m)
OBVIOUS

LEMMA LengthDecoded ==
  ASSUME NEW g, g[1].size = g[2].size, g[2].size \in Nat, g[1].at = 1, g[2].at = 2
  PROVE  Decoded2(g) = g[2].size
<1> DEFINE x == g[2].size
           q == x \div Radix
<1>1. Radix \in Nat \ {0}
  BY TunnelAssumption
<1>2. x = Radix * q + (x % Radix)
  BY <1>1, DivMod
<1>3. Decoded2(g) = q * Radix + (x % Radix)
  BY DEF Decoded2, Value
<1>4. q \in Int /\ x % Radix \in Int
  BY <1>1
<1> HIDE DEF q
<1>5. q * Radix = Radix * q
  BY <1>1, <1>4
<1> QED BY <1>2, <1>3, <1>5

-----------------------------------------------------------------------------
(* The types.                                                              *)

LEMMA Lengths == /\ Length \subseteq Nat /\ Length \subseteq Nat \ {0} /\ Length \subseteq 1..Mtu
                 /\ Mtu \in Nat /\ Nobody \notin Host /\ Target \in [Client -> Host]
<1>1. Mtu \in Nat
  BY TunnelAssumption
<1> QED BY <1>1, TunnelAssumption

LEMMA FramesTyped ==
  /\ IsPart(Name, 0, 0, 2, 2)
  /\ \A n \in Nat, size \in Nat :
       /\ IsPart(Header(n, size), n, size, 1, 2) /\ IsPart(Body(n, size), n, size, 3, size + 2)
       /\ IsPart(Part(n, size, 1, size + 2), n, size, 1, size + 2)
<1>1. IsPart(Part(0, 0, 2, 2), 0, 0, 2, 2)
  BY PartBytes
<1>2. ASSUME NEW n \in Nat, NEW size \in Nat
      PROVE  /\ IsPart(Part(n, size, 1, 2), n, size, 1, 2)
             /\ IsPart(Part(n, size, 3, size + 2), n, size, 3, size + 2)
             /\ IsPart(Part(n, size, 1, size + 2), n, size, 1, size + 2)
  BY PartBytes
<1> QED BY <1>1, <1>2 DEF Name, Header, Body

LEMMA ProgramTypedInv ==
  ASSUME TunnelType, TunnelNext PROVE ProgramTyped'
<1> USE DEF TunnelType, ProgramTyped
<1>1. ASSUME NEW c \in Client, Connect(c) PROVE ProgramTyped'
  BY <1>1 DEF Connect
<1>2. ASSUME NEW c \in Client, SendName(c) PROVE ProgramTyped'
  BY <1>2 DEF SendName
<1>3. ASSUME NEW c \in Client, SendHeader(c) PROVE ProgramTyped'
  BY <1>3 DEF SendHeader
<1>4. ASSUME NEW c \in Client, SendBody(c) PROVE ProgramTyped'
  BY <1>4 DEF SendBody
<1>5. ASSUME NEW c \in Client, Close(c) PROVE ProgramTyped'
  BY <1>5 DEF Close
<1>6. ASSUME NEW c \in Client, NEW k \in Nat, downRead[c] + k <= Len(down[c])
      PROVE  Heard(c, k) \in Seq(Byte)
  BY <1>6 DEF Heard, StreamsTyped
<1>7. ASSUME NEW c \in Client, PollHeader(c) PROVE ProgramTyped'
  <2>1. PICK k \in 1..2 : /\ Receives(down[c], downRead[c], 2, k)
                          /\ got' = [got EXCEPT ![c] = Heard(c, k)]
    BY <1>7 DEF PollHeader
  <2>2. Heard(c, k) \in Seq(Byte)
    BY <1>6, <2>1 DEF Receives
  <2> QED BY <2>1, <2>2, <1>7 DEF PollHeader
<1>8. ASSUME NEW c \in Client, PollSecond(c) PROVE ProgramTyped'
  <2>1. Heard(c, 1) \in Seq(Byte)
    BY <1>6, <1>8 DEF PollSecond, Receives
  <2>2. got[c] \o Heard(c, 1) \in Seq(Byte)
    BY <2>1
  <2> QED BY <2>2, <1>8 DEF PollSecond
<1>9. ASSUME NEW c \in Client, PollBody(c) PROVE ProgramTyped'
  <2>1. PICK k \in 1..Mtu :
          /\ Receives(down[c], downRead[c], Decoded2(got[c]), k)
          /\ \/ /\ heard' = [heard EXCEPT ![c] = Append(@, Heard(c, k))]
                /\ UNCHANGED link
             \/ /\ link' = [link EXCEPT ![c] = "closed"]
                /\ UNCHANGED heard
    BY <1>9 DEF PollBody
  <2>2. Heard(c, k) \in Seq(Byte)
    BY <1>6, <2>1, Lengths DEF Receives
  <2>3. Append(heard[c], Heard(c, k)) \in Seq(Seq(Byte))
    BY <2>2
  <2>4. got' = [got EXCEPT ![c] = <<>>] /\ UNCHANGED <<sent, writing>>
    BY <1>9 DEF PollBody
  <2>5. got' \in [Client -> Seq(Byte)]
    BY <2>4
  <2>6. heard' \in [Client -> Seq(Seq(Byte))]
    BY <2>1, <2>3
  <2>7. link' \in [Client -> {"none", "asking", "open", "closed"}]
    BY <2>1
  <2> QED BY <2>4, <2>5, <2>6, <2>7
<1>10. ASSUME NEW c \in Client, PollEnds(c) PROVE ProgramTyped'
  BY <1>10 DEF PollEnds
<1>11. ASSUME UNCHANGED programVars PROVE ProgramTyped'
  BY <1>11 DEF programVars
<1>12. ServerStep => UNCHANGED programVars
  BY DEF ServerStep, Select, Accept, Serve, NewClient, Turn, Poll4, Poll6, PolledDry, ReadHeader,
         ReadSecond, ReadBody
<1>13. \A c \in Client, h \in Host : Disturb(c, h) => UNCHANGED programVars
  BY DEF Disturb
<1>14. \A d \in net : Deliver(d) => UNCHANGED programVars
  BY DEF Deliver
<1> QED BY <1>1, <1>2, <1>3, <1>4, <1>5, <1>7, <1>8, <1>9, <1>10, <1>11, <1>12, <1>13, <1>14
        DEF TunnelNext, ProgramStep

LEMMA StreamsTypedInv ==
  ASSUME TunnelType, \A c \in Client : UpWritten(c), TunnelNext PROVE StreamsTyped'
<1> USE DEF TunnelType, StreamsTyped
<1>a. ASSUME NEW c \in Client, NEW w \in Seq(Byte), NEW p \in Seq(Byte)
      PROVE  w \o p \in Seq(Byte) /\ Len(w) <= Len(w \o p)
  OBVIOUS
<1>b. ASSUME NEW c \in Client, NEW p \in Seq(Byte), up' = [up EXCEPT ![c] = @ \o p],
             UNCHANGED <<upRead, down, downRead>>
      PROVE  StreamsTyped'
  BY <1>a, <1>b
<1>c. ASSUME NEW c \in Client, NEW p \in Seq(Byte), down' = [down EXCEPT ![c] = @ \o p],
             UNCHANGED <<upRead, up, downRead>>
      PROVE  StreamsTyped'
  BY <1>a, <1>c
<1>d. ASSUME NEW c \in Client, NEW k \in Nat, downRead' = [downRead EXCEPT ![c] = @ + k],
             downRead[c] + k <= Len(down[c]), UNCHANGED <<up, upRead, down>>
      PROVE  StreamsTyped'
  BY <1>d
<1>e. ASSUME NEW c \in Client, NEW k \in Nat, upRead' = [upRead EXCEPT ![c] = @ + k],
             upRead[c] + k <= Len(up[c]), UNCHANGED <<up, downRead, down>>
      PROVE  StreamsTyped'
  BY <1>e
<1>f. ASSUME UNCHANGED <<up, upRead, down, downRead>> PROVE StreamsTyped'
  BY <1>f
<1>1. ASSUME NEW c \in Client, SendName(c) PROVE StreamsTyped'
  BY <1>1, <1>b, FramesTyped DEF SendName, IsPart, serverVars
<1>2. ASSUME NEW c \in Client, SendHeader(c) PROVE StreamsTyped'
  <2>1. PICK size \in Length : up' = [up EXCEPT ![c] = @ \o Header(Len(sent[c]) + 1, size)]
    BY <1>2 DEF SendHeader
  <2>2. Len(sent[c]) + 1 \in Nat /\ size \in Nat
    BY Lengths DEF ProgramTyped
  <2>3. Header(Len(sent[c]) + 1, size) \in Seq(Byte)
    BY <2>2, FramesTyped DEF IsPart
  <2> QED BY <1>2, <2>1, <2>3, <1>b DEF SendHeader, serverVars
<1>3. ASSUME NEW c \in Client, SendBody(c) PROVE StreamsTyped'
  <2>1. sent[c] # <<>>
    BY <1>3 DEF UpWritten, SendBody
  <2>2. Len(sent[c]) \in Nat /\ sent[c][Len(sent[c])] \in Nat
    <3>1. sent[c] \in Seq(Length)
      BY DEF ProgramTyped
    <3>2. Len(sent[c]) \in Nat /\ Len(sent[c]) \in 1..Len(sent[c])
      BY <2>1, <3>1
    <3>3. sent[c][Len(sent[c])] \in Length
      BY <3>1, <3>2
    <3> QED BY <3>2, <3>3, Lengths
  <2>3. Body(Len(sent[c]), sent[c][Len(sent[c])]) \in Seq(Byte)
    BY <2>2, FramesTyped DEF IsPart
  <2> QED BY <1>3, <2>3, <1>b DEF SendBody, serverVars
<1>4. ASSUME NEW c \in Client, Close(c) PROVE StreamsTyped'
  <2>1. PICK k \in upRead[c] .. Len(up[c]) : up' = [up EXCEPT ![c] = SubSeq(@, 1, k)]
    BY <1>4 DEF Close
  <2>2. SubSeq(up[c], 1, k) \in Seq(Byte) /\ Len(SubSeq(up[c], 1, k)) = k
    BY <2>1
  <2>3. UNCHANGED <<upRead, down, downRead>>
    BY <1>4 DEF Close, serverVars
  <2> QED BY <2>1, <2>2, <2>3
<1>5. ASSUME NEW c \in Client, PollHeader(c) PROVE StreamsTyped'
  BY <1>5, <1>d DEF PollHeader, Receives, Hears, serverVars
<1>6. ASSUME NEW c \in Client, PollSecond(c) PROVE StreamsTyped'
  BY <1>6, <1>d DEF PollSecond, Receives, Hears, serverVars
<1>7. ASSUME NEW c \in Client, PollBody(c) PROVE StreamsTyped'
  <2>1. PICK k \in 1..Mtu : Receives(down[c], downRead[c], Decoded2(got[c]), k) /\ Hears(c, k)
    BY <1>7 DEF PollBody
  <2>2. k \in Nat
    BY Lengths
  <2> QED BY <1>7, <1>d, <2>1, <2>2 DEF PollBody, Receives, Hears, serverVars
<1>8. ASSUME NEW c \in Client, NewClient(c) PROVE StreamsTyped'
  <2>1. UNCHANGED <<up, down, downRead>>
    BY <1>8 DEF NewClient, programVars
  <2>2. CASE upRead' = [upRead EXCEPT ![c] = @ + 1] /\ upRead[c] < Len(up[c])
    BY <2>1, <2>2, <1>e
  <2>3. CASE UNCHANGED upRead
    BY <2>1, <2>3, <1>f
  <2> QED BY <1>8, <2>2, <2>3 DEF NewClient
<1>9. ASSUME NEW c \in Client, ReadHeader(c) PROVE StreamsTyped'
  <2>1. UNCHANGED <<up, down, downRead>>
    BY <1>9 DEF ReadHeader, programVars
  <2>2. CASE UNCHANGED upRead
    BY <2>1, <2>2, <1>f
  <2>3. CASE \E k \in 1..2 : Receives(up[c], upRead[c], 2, k) /\ Reads(c, k)
    BY <2>1, <2>3, <1>e DEF Receives, Reads
  <2> QED BY <1>9, <2>2, <2>3 DEF ReadHeader
<1>10. ASSUME NEW c \in Client, ReadSecond(c) PROVE StreamsTyped'
  <2>1. UNCHANGED <<up, down, downRead>>
    BY <1>10 DEF ReadSecond, programVars
  <2>2. CASE UNCHANGED upRead
    BY <2>1, <2>2, <1>f
  <2>3. CASE Receives(up[c], upRead[c], 1, 1) /\ Reads(c, 1)
    BY <2>1, <2>3, <1>e DEF Receives, Reads
  <2> QED BY <1>10, <2>2, <2>3 DEF ReadSecond
<1>11. ASSUME NEW c \in Client, ReadBody(c) PROVE StreamsTyped'
  <2>1. UNCHANGED <<up, down, downRead>>
    BY <1>11 DEF ReadBody, programVars
  <2>2. CASE UNCHANGED upRead
    BY <2>1, <2>2, <1>f
  <2>3. CASE \E k \in 1..Mtu : Receives(up[c], upRead[c], Decoded2(server.got), k) /\ Reads(c, k)
    <3>1. PICK k \in 1..Mtu : Receives(up[c], upRead[c], Decoded2(server.got), k) /\ Reads(c, k)
      BY <2>3
    <3>2. k \in Nat
      BY Lengths
    <3> QED BY <2>1, <3>1, <3>2, <1>e DEF Receives, Reads
  <2> QED BY <1>11, <2>2, <2>3 DEF ReadBody
<1>12. ASSUME NEW c \in Client, Poll4(c) \/ Poll6(c) PROVE StreamsTyped'
  <2>1. UNCHANGED <<up, upRead, downRead>>
    BY <1>12 DEF Poll4, Poll6, programVars
  <2>2. CASE UNCHANGED down
    BY <2>1, <2>2, <1>f
  <2>3. CASE \E p \in box[c] : FrameDatagram(c, p)
    <3>1. PICK p \in box[c] : FrameDatagram(c, p)
      BY <2>3
    <3>2. Len(framed[c]) + 1 \in Nat /\ p.size \in Nat
      <4>1. p \in Datagram /\ framed[c] \in Seq(Datagram)
        BY DEF NetTyped, ServerTyped
      <4>2. Len(framed[c]) \in Nat
        BY <4>1
      <4>3. p.size \in Length
        BY <4>1 DEF Datagram
      <4>4. p.size \in Nat
        BY <4>3, Lengths
      <4>5. Len(framed[c]) + 1 \in Nat
        BY <4>2
      <4> QED BY <4>4, <4>5
    <3>3. Part(Len(framed[c]) + 1, p.size, 1, p.size + 2) \in Seq(Byte)
      BY <3>2, FramesTyped DEF IsPart
    <3> QED BY <2>1, <3>1, <3>3, <1>c DEF FrameDatagram
  <2> QED BY <1>12, <2>2, <2>3 DEF Poll4, Poll6, Arrived
<1>13. ASSUME NEW c \in Client, Connect(c) \/ PollEnds(c) \/ PolledDry(c) \/ \E h \in Host : Disturb(c, h)
       PROVE  StreamsTyped'
  BY <1>13, <1>f DEF Connect, PollEnds, PolledDry, Disturb, programVars, serverVars
<1>14. ASSUME Select \/ Accept \/ Serve \/ \E d \in net : Deliver(d) PROVE StreamsTyped'
  BY <1>14, <1>f DEF Select, Accept, Serve, Deliver, programVars, serverVars
<1> QED BY <1>1, <1>2, <1>3, <1>4, <1>5, <1>6, <1>7, <1>8, <1>9, <1>10, <1>11, <1>12, <1>13,
           <1>14 DEF TunnelNext, ServerStep, Turn, ProgramStep

LEMMA ServerTypedInv ==
  ASSUME TunnelType, TunnelNext PROVE ServerTyped'
<1> USE DEF TunnelType, ServerTyped
<1>z. <<>> \in Seq(Byte)
  OBVIOUS
<1>b. /\ server.pc \in Pcs /\ server.got \in Seq(Byte) /\ server.at \in SUBSET Client
      /\ server.fail \in BOOLEAN /\ server.todo \in SUBSET Client /\ server.ready \in Ready
  BY DEF Server
<1>d. ASSUME NEW c \in Client, NEW fail, TurnEnds(c, fail)
      PROVE  server' \in Server /\ list' \subseteq Client /\ hup' \subseteq Client
  <2>1. server' \in Server
    <3>1. server' = [server EXCEPT !.pc = "serve", !.todo = server.todo \ {c}, !.at = {},
                                   !.got = <<>>, !.fail = FALSE]
      BY <1>d DEF TurnEnds
    <3> QED BY <3>1, <1>z, <1>b DEF Server, Pcs
  <2> QED BY <2>1, <1>d DEF TurnEnds
<1>e. ASSUME NEW c \in Client, NEW k \in Nat, upRead[c] + k <= Len(up[c])
      PROVE  ReadNow(c, k) \in Seq(Byte)
  BY <1>e DEF ReadNow, StreamsTyped
<1>1. ASSUME Select PROVE ServerTyped'
  <2> DEFINE found == [port |-> backlog # {}, tcp |-> {c \in list : Readable(c)},
                udp |-> {s \in list \X Sockets : Arrived(s[1], s[2]) # {}}]
  <2>1. found \in Ready
    BY DEF Ready
  <2>2. server' = [server EXCEPT !.pc = "accept", !.ready = found]
    BY <1>1 DEF Select
  <2> HIDE DEF found
  <2>3. server' \in Server
    BY <2>1, <2>2 DEF Server, Pcs
  <2> QED BY <2>3, <1>1 DEF Select
<1>2. ASSUME Accept PROVE ServerTyped'
  <2>1. server' \in Server
    <3>1. ASSUME NEW c \in Client, server' = [server EXCEPT !.pc = "name", !.at = {c}]
          PROVE  server' \in Server
      BY <3>1 DEF Server, Pcs
    <3>2. ASSUME server' = [server EXCEPT !.pc = "serve", !.todo = list] PROVE server' \in Server
      BY <3>2 DEF Server, Pcs
    <3> QED BY <3>1, <3>2, <1>2 DEF Accept
  <2>2. backlog' \subseteq Client
    BY <1>2 DEF Accept
  <2> QED BY <2>1, <2>2, <1>2 DEF Accept
<1>3. ASSUME Serve PROVE ServerTyped'
  <2>1. server' \in Server
    <3>0. NothingReady \in Ready
      BY DEF NothingReady, Ready
    <3>1. ASSUME NEW c \in Client, server' = [server EXCEPT !.pc = "udp", !.at = {c}]
          PROVE  server' \in Server
      BY <3>1 DEF Server, Pcs
    <3>2. ASSUME server' = [server EXCEPT !.pc = "select", !.ready = NothingReady]
          PROVE  server' \in Server
      BY <3>0, <3>2 DEF Server, Pcs
    <3> QED BY <3>1, <3>2, <1>3, <1>b DEF Serve
  <2> QED BY <2>1, <1>3 DEF Serve
<1>4. ASSUME NEW c \in Client, NewClient(c) PROVE ServerTyped'
  <2>1. server' \in Server
    BY <1>4 DEF NewClient, Server, Pcs
  <2>2. list' \subseteq Client /\ hup' \subseteq Client
    BY <1>4 DEF NewClient, Enlist, Refuse
  <2> QED BY <2>1, <2>2, <1>4 DEF NewClient
<1>5. ASSUME NEW c \in Client, NEW p \in Datagram, FrameDatagram(c, p)
      PROVE  /\ server' \in Server /\ hup' \subseteq Client
             /\ framed' \in [Client -> Seq(Datagram)]
  <2>1. server' \in Server
    BY <1>5 DEF FrameDatagram, Server, Pcs
  <2>2. hup' \subseteq Client
    BY <1>5 DEF FrameDatagram
  <2>3. Append(framed[c], p) \in Seq(Datagram)
    OBVIOUS
  <2>4. framed' = [framed EXCEPT ![c] = Append(@, p)]
    BY <1>5 DEF FrameDatagram
  <2>5. framed' \in [Client -> Seq(Datagram)]
    BY <2>3, <2>4
  <2> QED BY <2>1, <2>2, <2>5
<1>6. ASSUME NEW c \in Client, Poll4(c) \/ Poll6(c) PROVE ServerTyped'
  <2>1. UNCHANGED <<backlog, list, passed>>
    BY <1>6 DEF Poll4, Poll6
  <2>2. CASE UNCHANGED <<framed, hup>> /\ UdpFails
    <3>1. server' \in Server
      BY <2>2 DEF UdpFails, Server, Pcs
    <3> QED BY <2>1, <2>2, <3>1
  <2>3. CASE \E p \in box[c] : FrameDatagram(c, p)
    <3>1. PICK p \in box[c] : FrameDatagram(c, p)
      BY <2>3
    <3>2. p \in Datagram
      BY DEF NetTyped
    <3> QED BY <2>1, <3>1, <3>2, <1>5
  <2> QED BY <1>6, <2>2, <2>3 DEF Poll4, Poll6, Arrived
<1>7. ASSUME NEW c \in Client, PolledDry(c) PROVE ServerTyped'
  <2>1. server' \in Server
    BY <1>7 DEF PolledDry, Server, Pcs
  <2> QED BY <2>1, <1>7 DEF PolledDry
<1>8. ASSUME NEW c \in Client, ReadHeader(c) PROVE ServerTyped'
  <2>1. UNCHANGED <<backlog, passed, framed>>
    BY <1>8 DEF ReadHeader
  <2>2. CASE \E fail : TurnEnds(c, fail)
    BY <2>1, <2>2, <1>d
  <2>3. CASE /\ UNCHANGED <<hup, list, box>>
             /\ \E k \in 1..2 :
                  /\ Receives(up[c], upRead[c], 2, k)
                  /\ server' = [server EXCEPT !.pc = IF k = 1 THEN "second" ELSE "body",
                                              !.got = ReadNow(c, k)]
    <3>1. PICK k \in 1..2 :
                  /\ Receives(up[c], upRead[c], 2, k)
                  /\ server' = [server EXCEPT !.pc = IF k = 1 THEN "second" ELSE "body",
                                              !.got = ReadNow(c, k)]
      BY <2>3
    <3>2. ReadNow(c, k) \in Seq(Byte)
      BY <3>1, <1>e DEF Receives
    <3>3. server' \in Server
      BY <3>1, <3>2 DEF Server, Pcs
    <3> QED BY <2>1, <2>3, <3>3
  <2> QED BY <1>8, <2>2, <2>3 DEF ReadHeader
<1>9. ASSUME NEW c \in Client, ReadSecond(c) PROVE ServerTyped'
  <2>1. UNCHANGED <<backlog, passed, framed>>
    BY <1>9 DEF ReadSecond
  <2>2. CASE \E fail : TurnEnds(c, fail)
    BY <2>1, <2>2, <1>d
  <2>3. CASE /\ UNCHANGED <<hup, list, box>> /\ Receives(up[c], upRead[c], 1, 1)
             /\ server' = [server EXCEPT !.pc = "body", !.got = @ \o ReadNow(c, 1)]
    <3>1. ReadNow(c, 1) \in Seq(Byte)
      BY <2>3, <1>e DEF Receives
    <3>2. server.got \o ReadNow(c, 1) \in Seq(Byte)
      BY <3>1, <1>b
    <3>3. server' = [server EXCEPT !.pc = "body", !.got = server.got \o ReadNow(c, 1)]
      BY <2>3
    <3>4. server' \in Server
      BY <3>2, <3>3 DEF Server, Pcs
    <3> QED BY <2>1, <2>3, <3>4
  <2> QED BY <1>9, <2>2, <2>3 DEF ReadSecond
<1>10. ASSUME NEW c \in Client, ReadBody(c) PROVE ServerTyped'
  <2>1. UNCHANGED <<backlog, framed>>
    BY <1>10 DEF ReadBody
  <2>2. CASE (\E fail : TurnEnds(c, fail)) /\ UNCHANGED passed
    BY <2>1, <2>2, <1>d
  <2>3. CASE /\ UNCHANGED <<hup, list, box>>
             /\ \E k \in 1..Mtu : /\ Receives(up[c], upRead[c], Decoded2(server.got), k)
                                  /\ PassOn(c, ReadNow(c, k))
             /\ server' = [server EXCEPT !.pc = "tcp", !.got = <<>>]
    <3>1. PICK k \in 1..Mtu : /\ Receives(up[c], upRead[c], Decoded2(server.got), k)
                              /\ PassOn(c, ReadNow(c, k))
      BY <2>3
    <3>2. k \in Nat
      BY Lengths
    <3>3. ReadNow(c, k) \in Seq(Byte)
      BY <3>1, <3>2, <1>e DEF Receives
    <3>4. Append(passed[c], ReadNow(c, k)) \in Seq(Seq(Byte))
      BY <3>3
    <3>5. passed' \in [Client -> Seq(Seq(Byte))]
      BY <3>1, <3>4 DEF PassOn
    <3>6. server' \in Server
      BY <2>3, <1>z DEF Server, Pcs
    <3> QED BY <2>1, <2>3, <3>5, <3>6
  <2> QED BY <1>10, <2>2, <2>3 DEF ReadBody
<1>11. ASSUME NEW c \in Client, ProgramStep(c) PROVE ServerTyped'
  <2>1. UNCHANGED serverVars /\ backlog' \subseteq Client
    BY <1>11 DEF ProgramStep, Connect, SendName, SendHeader, SendBody, Close, PollHeader, PollSecond,
         PollBody, PollEnds
  <2> QED BY <2>1 DEF serverVars
<1>12. ASSUME NEW c \in Client, NEW h \in Host, Disturb(c, h) PROVE ServerTyped'
  BY <1>12 DEF Disturb, serverVars
<1>13. ASSUME NEW d \in net, Deliver(d) PROVE ServerTyped'
  BY <1>13 DEF Deliver, serverVars
<1> QED BY <1>1, <1>2, <1>3, <1>4, <1>6, <1>7, <1>8, <1>9, <1>10, <1>11, <1>12, <1>13
        DEF TunnelNext, ServerStep, Turn

LEMMA NetTypedInv ==
  ASSUME TunnelType, TunnelNext PROVE NetTyped'
<1> USE DEF TunnelType, NetTyped
<1>a. ASSUME NEW c \in Client, NEW fail, TurnEnds(c, fail), UNCHANGED <<dest, sa>>,
             UNCHANGED <<da, net>> PROVE NetTyped'
  BY <1>a DEF TurnEnds
<1>b. ASSUME UNCHANGED <<dest, box, sa, da, net>> PROVE NetTyped'
  BY <1>b
<1>1. ASSUME NEW c \in Client, NewClient(c) PROVE NetTyped'
  <2>1. dest' \in [Client -> Host \cup {Nobody}]
    BY <1>1, Lengths DEF NewClient, Enlist, Refuse
  <2> QED BY <2>1, <1>1 DEF NewClient
<1>2. ASSUME NEW c \in Client, Poll4(c) \/ Poll6(c) PROVE NetTyped'
  <2>1. UNCHANGED <<dest, da, net>>
    BY <1>2 DEF Poll4, Poll6
  <2>2. sa' \in Host \cup {Nobody}
    BY <1>2 DEF Poll4, Poll6, Arrived, Datagram
  <2>3. box' \in [Client -> SUBSET Datagram]
    <3>1. box' = box \/ \E p \in box[c] : box' = [box EXCEPT ![c] = @ \ {p}]
      BY <1>2 DEF Poll4, Poll6, Arrived, FrameDatagram
    <3> QED BY <3>1
  <2> QED BY <2>1, <2>2, <2>3
<1>3. ASSUME NEW c \in Client, ReadHeader(c) \/ ReadSecond(c) PROVE NetTyped'
  <2>1. UNCHANGED <<dest, sa, da, net>>
    BY <1>3 DEF ReadHeader, ReadSecond
  <2>2. CASE UNCHANGED box
    BY <2>1, <2>2
  <2>3. CASE \E fail : TurnEnds(c, fail)
    BY <2>1, <2>3, <1>a
  <2> QED BY <1>3, <2>2, <2>3 DEF ReadHeader, ReadSecond
<1>4. ASSUME NEW c \in Client, ReadBody(c) PROVE NetTyped'
  <2>1. UNCHANGED <<dest, sa>>
    BY <1>4 DEF ReadBody
  <2>2. CASE (\E fail : TurnEnds(c, fail)) /\ UNCHANGED <<net, da>>
    BY <2>1, <2>2, <1>a
  <2>3. CASE /\ UNCHANGED <<hup, list, box>>
             /\ \E k \in 1..Mtu : /\ Receives(up[c], upRead[c], Decoded2(server.got), k)
                                  /\ PassOn(c, ReadNow(c, k))
    <3>1. PICK k \in 1..Mtu : /\ Receives(up[c], upRead[c], Decoded2(server.got), k)
                              /\ PassOn(c, ReadNow(c, k))
      BY <2>3
    <3>2. k \in Nat
      BY Lengths
    <3>3. ReadNow(c, k) \in Seq(Byte)
      BY <3>1, <3>2 DEF Receives, ReadNow, StreamsTyped
    <3>4. net' \subseteq [client : Client, host : Host \cup {Nobody}, body : Seq(Byte)]
      BY <3>1, <3>3 DEF PassOn
    <3>5. da' \in Host \cup {Nobody}
      BY <3>1 DEF PassOn
    <3> QED BY <2>1, <2>3, <3>4, <3>5
  <2> QED BY <1>4, <2>2, <2>3 DEF ReadBody
<1>5. ASSUME NEW c \in Client, PolledDry(c) PROVE NetTyped'
  BY <1>5, <1>b DEF PolledDry
<1>6. ASSUME Select \/ Accept \/ Serve PROVE NetTyped'
  BY <1>6, <1>b DEF Select, Accept, Serve
<1>7. ASSUME NEW c \in Client, ProgramStep(c) PROVE NetTyped'
  <2>1. UNCHANGED serverVars /\ UNCHANGED <<box, net>>
    BY <1>7 DEF ProgramStep, Connect, SendName, SendHeader, SendBody, Close, PollHeader, PollSecond,
         PollBody, PollEnds
  <2> QED BY <2>1, <1>b DEF serverVars
<1>8. ASSUME NEW c \in Client, NEW h \in Host, Disturb(c, h) PROVE NetTyped'
  <2>1. PICK size \in Length :
          box' = [box EXCEPT ![c] = @ \cup {[answers |-> 0, size |-> size, host |-> h]}]
    BY <1>8 DEF Disturb
  <2>2. [answers |-> 0, size |-> size, host |-> h] \in Datagram
    BY DEF Datagram
  <2>3. box' \in [Client -> SUBSET Datagram]
    BY <2>1, <2>2
  <2> QED BY <2>3, <1>8 DEF Disturb, serverVars
<1>9. ASSUME NEW d \in net, Deliver(d) PROVE NetTyped'
  <2>1. d.client \in Client /\ d.host \in Host \cup {Nobody}
    OBVIOUS
  <2>2. box' \in [Client -> SUBSET Datagram]
    <3>1. CASE UNCHANGED box
      BY <3>1
    <3>2. CASE \E n \in 1..Len(passed[d.client]), size \in Length, answer \in Length :
                 box' = [box EXCEPT ![d.client] = @ \cup
                           {[answers |-> n, size |-> answer, host |-> d.host]}]
      <4>1. PICK n \in 1..Len(passed[d.client]), answer \in Length :
                 box' = [box EXCEPT ![d.client] = @ \cup
                           {[answers |-> n, size |-> answer, host |-> d.host]}]
        BY <3>2
      <4>2. [answers |-> n, size |-> answer, host |-> d.host] \in Datagram
        BY <2>1 DEF Datagram
      <4> QED BY <2>1, <4>1, <4>2
    <3> QED BY <1>9, <3>1, <3>2 DEF Deliver
  <2>3. UNCHANGED <<dest, sa, da>> /\ net' \subseteq net
    BY <1>9 DEF Deliver, serverVars
  <2> QED BY <2>2, <2>3
<1> QED BY <1>1, <1>2, <1>3, <1>4, <1>5, <1>6, <1>7, <1>8, <1>9 DEF TunnelNext, ServerStep, Turn

-----------------------------------------------------------------------------
(* Where the server is, and whose turn it has.                             *)

LEMMA ServerAtInv ==
  ASSUME TunnelType, ServerAt, TunnelNext PROVE ServerAt'
<1> USE DEF ServerAt
<1>1. server \in Server /\ link \in [Client -> {"none", "asking", "open", "closed"}]
  BY DEF TunnelType, ServerTyped, ProgramTyped
<1>2. server.pc \in Pcs /\ backlog \subseteq Client /\ list \subseteq Client
  BY <1>1 DEF Server, TunnelType, ServerTyped
<1>a. ASSUME NEW c \in Client, NEW fail, TurnEnds(c, fail), server.at = {c},
             server.pc \in {"udp", "tcp", "second", "body"}, UNCHANGED <<backlog, link>>
      PROVE  ServerAt'
  <2>1. server'.pc = "serve" /\ server'.at = {} /\ server'.todo = server.todo \ {c}
    BY <1>1, <1>a DEF TurnEnds, Server
  <2>2. c \in list /\ c \notin backlog
    BY <1>a
  <2>3. CASE fail
    <3>1. hup' = hup \cup {c} /\ list' = list \ {c}
      BY <1>a, <2>3 DEF TurnEnds
    <3>2. list' \cap hup' = {} /\ backlog \cap hup' = {} /\ backlog \cap list' = {}
      BY <3>1, <2>2, <1>a
    <3>3. server'.todo \subseteq list'
      BY <2>1, <3>1, <1>a
    <3>4. \A e \in Client : link[e] = "none" => e \notin backlog \cup list' \cup hup'
      BY <3>1, <2>2, <1>a
    <3> QED BY <2>1, <3>2, <3>3, <3>4, <1>a
  <2>4. CASE ~fail
    <3>1. UNCHANGED <<hup, list>>
      BY <1>a, <2>4 DEF TurnEnds
    <3> QED BY <2>1, <3>1, <1>a
  <2> QED BY <2>3, <2>4
\* The turn goes on.
<1>b. ASSUME NEW pc \in {"udp", "tcp", "second", "body"}, server.pc \in {"udp", "tcp", "second", "body"},
             server'.pc = pc, server'.at = server.at, server'.todo = server.todo,
             UNCHANGED <<backlog, link, list, hup>>
      PROVE  ServerAt'
  BY <1>b
<1>c. ASSUME NEW c \in Client, NEW pc, Serving(c, pc)
      PROVE  server.at = {c} /\ server.pc = pc
  BY <1>c, <1>2 DEF Serving, Pcs
<1>3. ASSUME Select PROVE ServerAt'
  <2>1. server'.pc = "accept" /\ server'.at = {}
    BY <1>1, <1>3 DEF Select, Server
  <2> QED BY <2>1, <1>3 DEF Select, programVars
<1>4. ASSUME Accept PROVE ServerAt'
  <2>1. UNCHANGED <<link, list, hup>> /\ server.pc = "accept"
    BY <1>4 DEF Accept, programVars
  <2>2. CASE server' = [server EXCEPT !.pc = "serve", !.todo = list] /\ UNCHANGED backlog
    <3>1. server'.pc = "serve" /\ server'.at = {} /\ server'.todo = list
      BY <1>1, <2>1, <2>2 DEF Server
    <3> QED BY <3>1, <2>1, <2>2
  <2>3. CASE \E c \in backlog : /\ backlog' = backlog \ {c}
                               /\ server' = [server EXCEPT !.pc = "name", !.at = {c}]
    <3>1. PICK c \in backlog : /\ backlog' = backlog \ {c}
                               /\ server' = [server EXCEPT !.pc = "name", !.at = {c}]
      BY <2>3
    <3>2. server'.pc = "name" /\ server'.at = {c} /\ c \in Client
      BY <1>1, <1>2, <3>1 DEF Server
    <3>3. c \notin list /\ c \notin hup /\ c \notin backlog' /\ link[c] # "none"
      BY <2>1, <3>1, <3>2
    <3> QED BY <3>1, <3>2, <3>3, <2>1
  <2> QED BY <1>4, <2>2, <2>3 DEF Accept
<1>5. ASSUME Serve PROVE ServerAt'
  <2>1. UNCHANGED <<link, list, hup, backlog>> /\ server.pc = "serve"
    BY <1>5 DEF Serve, programVars
  <2>2. CASE server' = [server EXCEPT !.pc = "select", !.ready = NothingReady]
    <3>1. server'.pc = "select" /\ server'.at = {}
      BY <1>1, <2>1, <2>2 DEF Server
    <3> QED BY <3>1, <2>1
  <2>3. CASE \E c \in server.todo : server' = [server EXCEPT !.pc = "udp", !.at = {c}]
    <3>1. PICK c \in server.todo : server' = [server EXCEPT !.pc = "udp", !.at = {c}]
      BY <2>3
    <3>2. server'.pc = "udp" /\ server'.at = {c} /\ server'.todo = server.todo /\ c \in list
      BY <1>1, <2>1, <3>1 DEF Server
    <3>3. c \in Client /\ link[c] # "none"
      BY <1>2, <2>1, <3>2
    <3> QED BY <3>2, <3>3, <2>1
  <2> QED BY <1>5, <2>2, <2>3 DEF Serve
<1>6. ASSUME NEW c \in Client, NewClient(c) PROVE ServerAt'
  <2>1. UNCHANGED <<link, backlog>> /\ server.pc = "name" /\ server.at = {c}
    BY <1>6 DEF NewClient, programVars
  <2>2. server'.pc = "accept" /\ server'.at = {}
    BY <1>1, <1>6 DEF NewClient, Server
  <2>3. c \notin list /\ c \notin backlog /\ c \notin hup /\ link[c] # "none"
    BY <2>1
  <2>4. \/ list' = list \cup {c} /\ hup' = hup
        \/ list' = list /\ hup' = hup \cup {c}
    BY <1>6 DEF NewClient, Enlist, Refuse
  <2>5. list' \cap hup' = {} /\ backlog \cap hup' = {} /\ backlog \cap list' = {}
    BY <2>1, <2>3, <2>4
  <2>6. \A e \in Client : link[e] = "none" => e \notin backlog \cup list' \cup hup'
    BY <2>1, <2>3, <2>4
  <2> QED BY <2>1, <2>2, <2>5, <2>6
<1>7. ASSUME NEW c \in Client, Poll4(c) \/ Poll6(c) PROVE ServerAt'
  <2>1. UNCHANGED <<link, backlog, list>> /\ Serving(c, "udp")
    BY <1>7 DEF Poll4, Poll6, programVars
  <2>2. server.at = {c} /\ server.pc = "udp"
    BY <2>1, <1>c
  <2>3. CASE UdpFails /\ UNCHANGED hup
    <3>1. server'.pc = "tcp" /\ server'.at = server.at /\ server'.todo = server.todo
      BY <1>1, <2>3 DEF UdpFails, Server
    <3> QED BY <1>b, <2>1, <2>2, <2>3, <3>1
  <2>4. CASE UNCHANGED <<server, hup>>
    BY <1>b, <2>1, <2>2, <2>4
  <2>5. CASE server' = [server EXCEPT !.pc = "killed", !.at = {}] /\ hup' = Client
    <3>1. server'.pc = "killed" /\ server'.at = {}
      BY <1>1, <2>5 DEF Server
    <3> QED BY <2>1, <2>5, <3>1
  <2> QED BY <1>7, <2>3, <2>4, <2>5 DEF Poll4, Poll6, FrameDatagram
<1>8. ASSUME NEW c \in Client, PolledDry(c) PROVE ServerAt'
  <2>1. server.at = {c} /\ server.pc = "udp"
    BY <1>8, <1>c DEF PolledDry
  <2>2. server'.pc = "tcp" /\ server'.at = server.at /\ server'.todo = server.todo
    BY <1>1, <1>8 DEF PolledDry, Server
  <2> QED BY <2>1, <2>2, <1>b, <1>8 DEF PolledDry, programVars
<1>9. ASSUME NEW c \in Client, ReadHeader(c) \/ ReadSecond(c) \/ ReadBody(c) PROVE ServerAt'
  <2>1. UNCHANGED <<link, backlog>> /\ \E pc \in {"tcp", "second", "body"} : Serving(c, pc)
    BY <1>9 DEF ReadHeader, ReadSecond, ReadBody, programVars
  <2>2. server.at = {c} /\ server.pc \in {"tcp", "second", "body"}
    BY <2>1, <1>c
  <2>3. CASE \E fail : TurnEnds(c, fail)
    BY <2>1, <2>2, <2>3, <1>a
  <2>4. CASE /\ UNCHANGED <<hup, list, box>>
             /\ \E pc \in {"tcp", "second", "body"} : \E g : server' = [server EXCEPT !.pc = pc, !.got = g]
    <3>1. PICK pc \in {"tcp", "second", "body"} : \E g : server' = [server EXCEPT !.pc = pc, !.got = g]
      BY <2>4
    <3>2. server'.pc = pc /\ server'.at = server.at /\ server'.todo = server.todo
      BY <1>1, <3>1 DEF Server
    <3> QED BY <1>b, <2>1, <2>2, <2>4, <3>2
  <2>5. ReadHeader(c) => \/ \E fail : TurnEnds(c, fail)
                         \/ /\ UNCHANGED <<hup, list, box>>
                            /\ \E k \in 1..2 : server' = [server EXCEPT
                                  !.pc = IF k = 1 THEN "second" ELSE "body", !.got = ReadNow(c, k)]
    BY DEF ReadHeader
  <2>6. ReadSecond(c) => \/ \E fail : TurnEnds(c, fail)
                         \/ /\ UNCHANGED <<hup, list, box>>
                            /\ server' = [server EXCEPT !.pc = "body", !.got = server.got \o ReadNow(c, 1)]
    BY DEF ReadSecond
  <2>7. ReadBody(c) => \/ \E fail : TurnEnds(c, fail)
                       \/ /\ UNCHANGED <<hup, list, box>>
                          /\ server' = [server EXCEPT !.pc = "tcp", !.got = <<>>]
    BY DEF ReadBody
  <2> QED BY <1>9, <2>3, <2>4, <2>5, <2>6, <2>7
<1>10. ASSUME NEW c \in Client, Connect(c) PROVE ServerAt'
  <2>1. /\ link[c] = "none" /\ server.pc # "killed" /\ backlog' = backlog \cup {c}
        /\ UNCHANGED <<server, list, hup>>
    BY <1>10 DEF Connect, serverVars
  <2>2. link'[c] = "asking" /\ \A e \in Client \ {c} : link'[e] = link[e]
    BY <1>1, <1>10 DEF Connect
  <2>3. c \notin list /\ c \notin hup /\ c \notin server.at
    BY <2>1
  <2>4. server.pc = "name" => server.at \cap (list \cup backlog' \cup hup) = {}
    BY <2>1, <2>3
  <2>5. list \cap hup = {} /\ backlog' \cap hup = {} /\ backlog' \cap list = {}
    BY <2>1, <2>3
  <2>6. \A e \in Client : link'[e] = "none" => e \notin backlog' \cup list \cup hup \cup server.at
    BY <2>1, <2>2
  <2> QED BY <2>1, <2>4, <2>5, <2>6
<1>11. ASSUME UNCHANGED <<server, list, hup, backlog>>, \A e \in Client : link'[e] = "none" => link[e] = "none"
       PROVE  ServerAt'
  BY <1>11
<1>12. ASSUME NEW c \in Client, ProgramStep(c), ~Connect(c) PROVE ServerAt'
  <2>1. UNCHANGED <<server, list, hup, backlog>>
    BY <1>12 DEF ProgramStep, SendName, SendHeader, SendBody, Close, PollHeader, PollSecond,
         PollBody, PollEnds, serverVars
  <2>2. link' = link \/ link' = [link EXCEPT ![c] = "open"] \/ link' = [link EXCEPT ![c] = "closed"]
    BY <1>12 DEF ProgramStep, SendName, SendHeader, SendBody, Close, PollHeader, PollSecond,
         PollBody, PollEnds
  <2>3. \A e \in Client : link'[e] = "none" => link[e] = "none"
    BY <1>1, <2>2
  <2> QED BY <2>1, <2>3, <1>11
<1>13. ASSUME NEW c \in Client, NEW h \in Host, Disturb(c, h) PROVE ServerAt'
  BY <1>13, <1>11 DEF Disturb, serverVars, programVars
<1>14. ASSUME NEW d \in net, Deliver(d) PROVE ServerAt'
  BY <1>14, <1>11 DEF Deliver, serverVars, programVars
<1> QED BY <1>3, <1>4, <1>5, <1>6, <1>7, <1>8, <1>9, <1>10, <1>12, <1>13, <1>14
        DEF TunnelNext, ServerStep, Turn

-----------------------------------------------------------------------------
(* The writers.                                                            *)

LEMMA JoinedEnds ==
  ASSUME NEW w \in Seq(Byte), NEW p \in Seq(Byte), p # <<>>
  PROVE  /\ w \o p # <<>> /\ Len(w \o p) = Len(w) + Len(p)
         /\ (w \o p)[Len(w \o p)] = p[Len(p)]
         /\ (w \o p)[1] = IF w = <<>> THEN p[1] ELSE w[1]
         /\ \A i \in 1..Len(w) : (w \o p)[i] = w[i]
<1>1. Len(w) \in Nat /\ Len(p) \in Nat \ {0} /\ Len(w \o p) = Len(w) + Len(p)
  OBVIOUS
<1>2. \A i \in 1 .. Len(w) + Len(p) : (w \o p)[i] = IF i <= Len(w) THEN w[i] ELSE p[i - Len(w)]
  OBVIOUS
<1>3. (w \o p)[Len(w) + Len(p)] = p[Len(p)]
  <2>1. Len(w) + Len(p) \in 1 .. Len(w) + Len(p) /\ ~(Len(w) + Len(p) <= Len(w))
        /\ (Len(w) + Len(p)) - Len(w) = Len(p)
    BY <1>1
  <2> QED BY <2>1, <1>2
<1>4. (w \o p)[1] = IF w = <<>> THEN p[1] ELSE w[1]
  <2>1. CASE w = <<>>
    BY <2>1
  <2>2. CASE w # <<>>
    <3>1. 1 \in 1 .. Len(w) + Len(p) /\ 1 <= Len(w)
      BY <1>1, <2>2
    <3> QED BY <3>1, <1>2, <2>2
  <2> QED BY <2>1, <2>2
<1>5. w \o p # <<>>
  BY <1>1
<1> QED BY <1>1, <1>2, <1>3, <1>4, <1>5

LEMMA SeqOfLengths ==
  ASSUME NEW s \in Seq(Length) PROVE s \in Seq(Nat)
<1>1. \A i \in 1..Len(s) : s[i] \in Nat
  <2>1. \A i \in 1..Len(s) : s[i] \in Length
    OBVIOUS
  <2> QED BY <2>1, Lengths
<1>2. s = [i \in 1..Len(s) |-> s[i]] /\ Len(s) \in Nat
  OBVIOUS
<1>3. [i \in 1..Len(s) |-> s[i]] \in Seq(Nat)
  BY <1>1, <1>2
<1> QED BY <1>2, <1>3

LEMMA UpWrittenInv ==
  ASSUME TunnelType, TunnelNext, StreamsTyped', NEW e \in Client, UpWritten(e)
  PROVE  UpWritten(e)'
<1>0. /\ up \in [Client -> Seq(Byte)] /\ link \in [Client -> {"none", "asking", "open", "closed"}]
      /\ sent \in [Client -> Seq(Length)] /\ writing \in [Client -> BOOLEAN]
      /\ upRead'[e] <= Len(up'[e])
  BY DEF TunnelType, ProgramTyped, StreamsTyped
<1>a. up[e] \in Seq(Byte) /\ sent[e] \in Seq(Nat) /\ Len(up[e]) \in Nat /\ Len(sent[e]) \in Nat
  <2>1. sent[e] \in Seq(Nat)
    BY <1>0, SeqOfLengths
  <2> QED BY <2>1, <1>0
<1>b. ASSUME up'[e] = up[e], sent'[e] = sent[e], writing'[e] = writing[e],
             \/ link'[e] = link[e] \/ link'[e] = "closed"
             \/ link[e] \in {"none", "asking"} /\ link'[e] = "asking"
      PROVE  UpWritten(e)'
  BY <1>b, <1>0 DEF UpWritten
<1>1. ASSUME NEW c \in Client, Connect(c) PROVE UpWritten(e)'
  BY <1>1, <1>b, <1>0 DEF Connect
<1>2. ASSUME NEW c \in Client, SendName(c) PROVE UpWritten(e)'
  <2>1. CASE c # e
    BY <2>1, <1>2, <1>b, <1>0 DEF SendName
  <2>2. CASE c = e
    <3> DEFINE v == up[e] \o Name
    <3>1. /\ up[e] = <<>> /\ sent[e] = <<>> /\ ~writing[e]
          /\ link'[e] = "open" /\ up'[e] = v /\ UNCHANGED <<sent, writing>>
      BY <2>2, <1>2, <1>0 DEF SendName, UpWritten
    <3>2. IsPart(Name, 0, 0, 2, 2)
      BY FramesTyped
    <3>3. Name \in Seq(Byte) /\ Len(Name) = 1 /\ Name # <<>> /\ Name[1].frame = 0 /\ Name[1].at = 2
          /\ Name[1].size = 0
      <4>1. Name \in Seq(Byte) /\ Len(Name) = 1
        BY <3>2 DEF IsPart
      <4>2. 1 \in 1..Len(Name)
        BY <4>1
      <4>3. Name[1].frame = 0 /\ Name[1].size = 0 /\ Name[1].at = 2 + 1 - 1
        BY <3>2, <4>2 DEF IsPart
      <4>4. Name # <<>>
        <5>1. Len(<<>>) # 1
          OBVIOUS
        <5> QED BY <4>1, <5>1, Zenon
      <4>5. 2 + 1 - 1 = 2
        OBVIOUS
      <4> QED BY <4>1, <4>3, <4>4, <4>5
    <3>4. Continues(up[e], 0, 2)
      BY <3>1 DEF Continues
    <3>5. Stream(v, sent[e])
      BY <3>2, <3>4, <1>a, StreamGrows DEF UpWritten
    <3>6. v # <<>> /\ v[Len(v)] = Name[1] /\ v[1] = Name[1]
      BY <3>1, <3>3, <1>a, JoinedEnds
    <3> HIDE DEF v
    <3>7. AtRest(v, Len(v), 0)
      BY <3>3, <3>6 DEF AtRest, Ends
    <3>8. Len(sent[e]) = 0
      BY <3>1
    <3> QED BY <3>1, <3>3, <3>5, <3>6, <3>7, <3>8, <1>0 DEF UpWritten
  <2> QED BY <2>1, <2>2
<1>3. ASSUME NEW c \in Client, SendHeader(c) PROVE UpWritten(e)'
  <2>1. CASE c # e
    BY <2>1, <1>3, <1>b, <1>0 DEF SendHeader
  <2>2. CASE c = e
    <3>1. PICK size \in Length : /\ sent' = [sent EXCEPT ![c] = Append(@, size)]
                                 /\ up' = [up EXCEPT ![c] = @ \o Header(Len(sent[c]) + 1, size)]
      BY <1>3 DEF SendHeader
    <3> DEFINE n == Len(sent[e]) + 1
               h == Header(n, size)
               v == up[e] \o h
               s == Append(sent[e], size)
    <3>2. /\ link[e] = "open" /\ ~writing[e] /\ link'[e] = "open" /\ writing'[e]
          /\ up'[e] = v /\ sent'[e] = s
      BY <2>2, <1>3, <3>1, <1>0 DEF SendHeader
    <3>3. size \in Nat /\ n \in Nat
      BY Lengths, <1>a
    <3>4. IsPart(h, n, size, 1, 2)
      BY <3>3, FramesTyped
    <3>5. h \in Seq(Byte) /\ Len(h) = 2 /\ h # <<>> /\ h[2].frame = n /\ h[2].at = 2
      <4>1. h \in Seq(Byte) /\ Len(h) = 2
        BY <3>4 DEF IsPart
      <4>2. 2 \in 1..Len(h)
        BY <4>1
      <4>3. h[2].frame = n /\ h[2].at = 1 + 2 - 1
        BY <3>4, <4>2 DEF IsPart
      <4> QED BY <4>1, <4>3
    <3>6. s \in Seq(Nat) /\ Len(s) = n /\ s[n] = size /\ s # <<>>
      BY <1>a, <3>3
    <3>7. Stream(up[e], s)
      BY <1>a, <3>3, StreamSizes DEF UpWritten
    <3>8. up[e] # <<>> /\ AtRest(up[e], Len(up[e]), Len(sent[e])) /\ up[e][1].frame = 0
      BY <3>2 DEF UpWritten
    <3> HIDE DEF h, s
    <3>9. Continues(up[e], n, 1)
      <4>1. n - 1 = Len(sent[e])
        BY <1>a
      <4> QED BY <3>8, <4>1 DEF Continues, AtRest
    <3> HIDE DEF n
    <3>10. Stream(v, s)
      <4>1. n # 0 => size = s[n] /\ 1 >= 1 /\ 2 <= size + 2
        BY <3>6, <3>3
      <4>2. n # 0 /\ n <= Len(s)
        BY <3>6, <1>a DEF n
      <4> QED BY <3>3, <3>4, <3>6, <3>7, <3>9, <4>1, <4>2, StreamGrows
    <3>11. v # <<>> /\ v[Len(v)] = h[2] /\ v[1] = up[e][1]
      <4>1. /\ v # <<>> /\ v[Len(v)] = h[Len(h)]
            /\ v[1] = IF up[e] = <<>> THEN h[1] ELSE up[e][1]
        <5>1. h \in Seq(Byte) /\ h # <<>> /\ up[e] \in Seq(Byte)
          BY <3>5, <1>a
        <5> QED BY <5>1, JoinedEnds
      <4> QED BY <3>5, <3>8, <4>1
    <3> HIDE DEF v
    <3>12. Piece(v, Len(v), Len(s), 2)
      BY <3>5, <3>6, <3>11 DEF Piece
    <3> QED BY <3>2, <3>6, <3>8, <3>10, <3>11, <3>12, <1>0 DEF UpWritten
  <2> QED BY <2>1, <2>2
<1>4. ASSUME NEW c \in Client, SendBody(c) PROVE UpWritten(e)'
  <2>1. CASE c # e
    BY <2>1, <1>4, <1>b, <1>0 DEF SendBody
  <2>2. CASE c = e
    <3> DEFINE n == Len(sent[e])
               size == sent[e][n]
               h == Body(n, size)
               v == up[e] \o h
    <3>1. /\ link[e] = "open" /\ writing[e] /\ link'[e] = "open" /\ ~writing'[e]
          /\ up'[e] = v /\ sent'[e] = sent[e]
      BY <2>2, <1>4, <1>0 DEF SendBody
    <3>2. sent[e] # <<>> /\ up[e] # <<>> /\ Piece(up[e], Len(up[e]), n, 2) /\ up[e][1].frame = 0
      BY <3>1 DEF UpWritten
    <3>3. n \in Nat \ {0} /\ size \in Length
      <4>1. sent[e] \in Seq(Length) /\ n \in 1..Len(sent[e])
        BY <3>2, <1>0
      <4> QED BY <4>1
    <3>4. size \in Nat \ {0}
      BY <3>3, Lengths
    <3>5. IsPart(h, n, size, 3, size + 2)
      BY <3>3, <3>4, FramesTyped
    <3> HIDE DEF h, size
    <3>6. h \in Seq(Byte) /\ Len(h) = size /\ h # <<>>
      BY <3>4, <3>5 DEF IsPart
    <3>7. h[size].frame = n /\ h[size].size = size /\ h[size].at = size + 2
      <4>1. size \in 1..Len(h)
        BY <3>4, <3>6
      <4>2. h[size].frame = n /\ h[size].size = size /\ h[size].at = 3 + size - 1
        BY <3>5, <4>1 DEF IsPart
      <4> QED BY <4>2, <3>4
    <3>8. Continues(up[e], n, 3)
      <4>1. 3 - 1 = 2
        OBVIOUS
      <4> QED BY <3>2, <4>1, Zenon DEF Continues, Piece
    <3>9. n <= Len(sent[e]) /\ n # 0 /\ size = sent[e][n] /\ 3 >= 1 /\ size + 2 <= size + 2
      BY <3>3, <3>4 DEF size
    <3>10. Stream(up[e], sent[e])
      BY DEF UpWritten
    <3>11. n \in Nat /\ size + 2 \in Nat /\ size \in Nat
      BY <3>3, <3>4
    <3> HIDE DEF n
    <3>12. Stream(v, sent[e])
      BY <3>5, <3>8, <3>9, <3>10, <3>11, <1>a, StreamGrows
    <3>13. v # <<>> /\ v[Len(v)] = h[size] /\ v[1] = up[e][1]
      <4>1. /\ v # <<>> /\ v[Len(v)] = h[Len(h)]
            /\ v[1] = IF up[e] = <<>> THEN h[1] ELSE up[e][1]
        <5>1. h \in Seq(Byte) /\ h # <<>> /\ up[e] \in Seq(Byte)
          BY <3>6, <1>a
        <5> QED BY <5>1, JoinedEnds
      <4> QED BY <3>2, <3>6, <4>1
    <3> HIDE DEF v
    <3>14. AtRest(v, Len(v), n)
      BY <3>7, <3>13 DEF AtRest, Ends
    <3> QED BY <3>1, <3>2, <3>12, <3>13, <3>14, <1>0 DEF UpWritten, n
  <2> QED BY <2>1, <2>2
<1>5. ASSUME NEW c \in Client, Close(c) PROVE UpWritten(e)'
  <2>1. CASE c # e
    BY <2>1, <1>5, <1>b, <1>0 DEF Close
  <2>2. CASE c = e
    <3>1. PICK k \in upRead[c] .. Len(up[c]) : up' = [up EXCEPT ![c] = SubSeq(@, 1, k)]
      BY <1>5 DEF Close
    <3> DEFINE v == SubSeq(up[e], 1, k)
    <3>2. up'[e] = v /\ link'[e] = "closed" /\ UNCHANGED <<sent, writing>>
      BY <2>2, <1>5, <3>1, <1>0 DEF Close
    <3>3. k \in 0..Len(up[e])
      <4>1. upRead[c] \in Nat
        BY DEF TunnelType, StreamsTyped
      <4> QED BY <4>1, <1>a, <2>2
    <3>4. Stream(up[e], sent[e])
      BY DEF UpWritten
    <3>5. Stream(v, sent[e]) /\ Len(v) = k /\ \A i \in 1..k : v[i] = up[e][i]
      BY <3>3, <3>4, StreamCut
    <3>6. v \in Seq(Byte)
      BY <3>3, <1>a
    <3> HIDE DEF v
    <3>7. v # <<>> => v[1] = up[e][1] /\ up[e] # <<>>
      <4>1. ASSUME v # <<>> PROVE 1 \in 1..k /\ Len(up[e]) # 0
        BY <4>1, <3>3, <3>5, <3>6, <1>a
      <4> QED BY <4>1, <3>5, <1>a
    <3> QED BY <3>2, <3>5, <3>7, <1>0 DEF UpWritten
  <2> QED BY <2>1, <2>2
<1>6. ASSUME NEW c \in Client, PollHeader(c) \/ PollSecond(c) \/ PollBody(c) \/ PollEnds(c)
      PROVE  UpWritten(e)'
  BY <1>6, <1>b, <1>0 DEF PollHeader, PollSecond, PollBody, PollEnds
<1>7. ASSUME UNCHANGED <<up, programVars>> PROVE UpWritten(e)'
  BY <1>7, <1>b DEF programVars
<1>8. ServerStep => UNCHANGED <<up, programVars>>
  BY DEF ServerStep, Select, Accept, Serve, NewClient, Turn, Poll4, Poll6, PolledDry, ReadHeader,
         ReadSecond, ReadBody
<1>9. \A c \in Client, h \in Host : Disturb(c, h) => UNCHANGED <<up, programVars>>
  BY DEF Disturb
<1>10. \A d \in net : Deliver(d) => UNCHANGED <<up, programVars>>
  BY DEF Deliver
<1> QED BY <1>1, <1>2, <1>3, <1>4, <1>5, <1>6, <1>7, <1>8, <1>9, <1>10 DEF TunnelNext, ProgramStep

LEMMA DatagramSizes ==
  ASSUME NEW s \in Seq(Datagram), NEW p \in Datagram
  PROVE  /\ [i \in DOMAIN s |-> s[i].size] \in Seq(Nat) /\ Len([i \in DOMAIN s |-> s[i].size]) = Len(s)
         /\ p.size \in Nat \ {0}
         /\ [i \in DOMAIN Append(s, p) |-> Append(s, p)[i].size]
            = Append([i \in DOMAIN s |-> s[i].size], p.size)
<1>1. \A x \in Datagram : x.size \in Nat \ {0}
  BY Lengths DEF Datagram
<1> DEFINE f(i) == s[i].size
           z == [i \in 1..Len(s) |-> f(i)]
           g(i) == Append(s, p)[i].size
<1>2. Len(s) \in Nat /\ DOMAIN s = 1..Len(s) /\ \A i \in 1..Len(s) : s[i] \in Datagram
  OBVIOUS
<1>3. \A i \in 1..Len(s) : f(i) \in Nat
  BY <1>1, <1>2
<1>4. DOMAIN Append(s, p) = 1 .. Len(s) + 1
  BY <1>2
<1>5. \A i \in 1 .. Len(s) + 1 : g(i) = IF i <= Len(s) THEN f(i) ELSE p.size
  <2>1. \A i \in 1 .. Len(s) + 1 : Append(s, p)[i] = IF i <= Len(s) THEN s[i] ELSE p
    OBVIOUS
  <2> QED BY <2>1
<1> HIDE DEF f, g
<1>6. z \in Seq(Nat) /\ Len(z) = Len(s) /\ \A i \in 1..Len(s) : z[i] = f(i)
  BY <1>2, <1>3
<1> HIDE DEF z
<1>7. p.size \in Nat
  BY <1>1
<1>8. Append(z, p.size) = [i \in 1 .. Len(s) + 1 |-> IF i <= Len(s) THEN f(i) ELSE p.size]
  <2>1. DOMAIN Append(z, p.size) = 1 .. Len(s) + 1
    BY <1>6, <1>7
  <2>2. \A i \in 1 .. Len(s) + 1 : Append(z, p.size)[i] = IF i <= Len(s) THEN f(i) ELSE p.size
    BY <1>6, <1>7, <1>2
  <2>3. Append(z, p.size) \in Seq(Nat)
    BY <1>6, <1>7
  <2> QED BY <2>1, <2>2, <2>3
<1>9. [i \in 1 .. Len(s) + 1 |-> g(i)] = Append(z, p.size)
  BY <1>5, <1>8
<1> QED BY <1>1, <1>2, <1>4, <1>6, <1>9 DEF z, f, g

LEMMA SizesTyped ==
  ASSUME TunnelType, NEW c \in Client
  PROVE  Sizes(c) \in Seq(Nat) /\ Len(Sizes(c)) = Len(framed[c]) /\ Len(framed[c]) \in Nat
<1>1. framed[c] \in Seq(Datagram)
  BY DEF TunnelType, ServerTyped
<1>2. CASE framed[c] = <<>>
  <2>1. Sizes(c) = <<>>
    BY <1>2 DEF Sizes
  <2> QED BY <1>2, <2>1
<1>3. CASE framed[c] # <<>>
  <2>1. framed[c][1] \in Datagram
    BY <1>1, <1>3
  <2>2. /\ [i \in DOMAIN framed[c] |-> framed[c][i].size] \in Seq(Nat)
        /\ Len([i \in DOMAIN framed[c] |-> framed[c][i].size]) = Len(framed[c])
    BY <1>1, <2>1, DatagramSizes
  <2> QED BY <1>1, <2>2 DEF Sizes
<1> QED BY <1>2, <1>3

\* What a step does to the stream from the server: nothing, or one frame more.
DownGrows(c, p) ==
  /\ p \in Datagram
  /\ framed'[c] = Append(framed[c], p)
  /\ down'[c] = down[c] \o Part(Len(framed[c]) + 1, p.size, 1, p.size + 2)
  /\ Sizes(c)' = Append(Sizes(c), p.size)
  /\ UNCHANGED programVars

LEMMA DownSteps ==
  ASSUME TunnelType, TunnelNext, NEW e \in Client
  PROVE  \/ down'[e] = down[e] /\ framed'[e] = framed[e] /\ Sizes(e)' = Sizes(e)
         \/ \E p \in Datagram : DownGrows(e, p)
<1>0. framed \in [Client -> Seq(Datagram)] /\ box \in [Client -> SUBSET Datagram]
      /\ down \in [Client -> Seq(Byte)]
  BY DEF TunnelType, ServerTyped, NetTyped, StreamsTyped
<1>1. ASSUME down'[e] = down[e], framed'[e] = framed[e]
      PROVE  down'[e] = down[e] /\ framed'[e] = framed[e] /\ Sizes(e)' = Sizes(e)
  BY <1>1 DEF Sizes
<1>2. ASSUME NEW c \in Client, Poll4(c) \/ Poll6(c)
      PROVE  \/ down'[e] = down[e] /\ framed'[e] = framed[e] /\ Sizes(e)' = Sizes(e)
             \/ \E p \in Datagram : DownGrows(e, p)
  <2>1. CASE UNCHANGED <<down, framed>>
    BY <1>1, <2>1
  <2>2. CASE \E p \in box[c] : FrameDatagram(c, p)
    <3>1. PICK p \in box[c] : FrameDatagram(c, p)
      BY <2>2
    <3>2. CASE c # e
      BY <1>0, <1>1, <3>1, <3>2 DEF FrameDatagram
    <3>3. CASE c = e
      <4>1. p \in Datagram /\ framed[e] \in Seq(Datagram)
        BY <1>0, <3>3
      <4>2. framed'[e] = Append(framed[e], p)
            /\ down'[e] = down[e] \o Part(Len(framed[e]) + 1, p.size, 1, p.size + 2)
        BY <1>0, <3>1, <3>3 DEF FrameDatagram
      <4>3. Sizes(e)' = Append(Sizes(e), p.size)
        BY <4>1, <4>2, DatagramSizes DEF Sizes
      <4>4. UNCHANGED programVars
        BY <1>2 DEF Poll4, Poll6
      <4> QED BY <4>1, <4>2, <4>3, <4>4 DEF DownGrows
    <3> QED BY <3>2, <3>3
  <2> QED BY <1>2, <2>1, <2>2 DEF Poll4, Poll6, Arrived
<1>3. ASSUME UNCHANGED <<down, framed>>
      PROVE  down'[e] = down[e] /\ framed'[e] = framed[e] /\ Sizes(e)' = Sizes(e)
  BY <1>1, <1>3
<1>4. \A c \in Client : ProgramStep(c) => UNCHANGED <<down, framed>>
  BY DEF ProgramStep, Connect, SendName, SendHeader, SendBody, Close, PollHeader, PollSecond,
         PollBody, PollEnds, serverVars
<1>5. Select \/ Accept \/ Serve => UNCHANGED <<down, framed>>
  BY DEF Select, Accept, Serve
<1>6. \A c \in Client : NewClient(c) \/ PolledDry(c) \/ ReadHeader(c) \/ ReadSecond(c) \/ ReadBody(c)
                        => UNCHANGED <<down, framed>>
  BY DEF NewClient, PolledDry, ReadHeader, ReadSecond, ReadBody
<1>7. \A c \in Client, h \in Host : Disturb(c, h) => UNCHANGED <<down, framed>>
  BY DEF Disturb, serverVars
<1>8. \A d \in net : Deliver(d) => UNCHANGED <<down, framed>>
  BY DEF Deliver, serverVars
<1> QED BY <1>2, <1>3, <1>4, <1>5, <1>6, <1>7, <1>8 DEF TunnelNext, ServerStep, Turn

LEMMA DownWrittenInv ==
  ASSUME TunnelType, TunnelNext, StreamsTyped', NEW e \in Client, DownWritten(e)
  PROVE  DownWritten(e)'
<1>0. down[e] \in Seq(Byte) /\ downRead'[e] <= Len(down'[e]) /\ framed[e] \in Seq(Datagram)
  BY DEF TunnelType, StreamsTyped, ServerTyped
<1>1. CASE down'[e] = down[e] /\ framed'[e] = framed[e] /\ Sizes(e)' = Sizes(e)
  BY <1>0, <1>1 DEF DownWritten
<1>2. CASE \E p \in Datagram : DownGrows(e, p)
  <2>1. PICK p \in Datagram : DownGrows(e, p)
    BY <1>2
  <2> DEFINE n == Len(framed[e]) + 1
             size == p.size
             h == Part(n, size, 1, size + 2)
             v == down[e] \o h
             s == Append(Sizes(e), size)
  <2>2. down'[e] = v /\ framed'[e] = Append(framed[e], p) /\ Sizes(e)' = s
    BY <2>1 DEF DownGrows
  <2>3. Sizes(e) \in Seq(Nat) /\ Len(Sizes(e)) = Len(framed[e]) /\ Len(framed[e]) \in Nat
    BY SizesTyped
  <2>4. size \in Nat \ {0}
    BY <1>0, DatagramSizes
  <2> HIDE DEF size
  <2>5. n \in Nat \ {0} /\ size + 2 \in Nat
    BY <2>3, <2>4
  <2>6. s \in Seq(Nat) /\ Len(s) = n /\ s[n] = size
    BY <2>3, <2>4
  <2>7. IsPart(h, n, size, 1, size + 2)
    BY <2>4, <2>5, FramesTyped
  <2> HIDE DEF h, s
  <2>8. h \in Seq(Byte) /\ Len(h) = size + 2
    BY <2>4, <2>7 DEF IsPart
  <2>9. h # <<>>
    BY <2>4, <2>8
  <2>10. h[1].frame = n /\ h[1].at = 1
    <3>1. 1 \in 1..Len(h) /\ 1 + 1 - 1 = 1
      BY <2>4, <2>8
    <3> QED BY <2>7, <3>1 DEF IsPart
  <2>11. h[size + 2].frame = n /\ h[size + 2].size = size /\ h[size + 2].at = size + 2
    <3>1. size + 2 \in 1..Len(h) /\ 1 + (size + 2) - 1 = size + 2
      BY <2>4, <2>8
    <3> QED BY <2>7, <3>1 DEF IsPart
  <2>12. Stream(down[e], s)
    BY <2>3, <2>4, StreamSizes DEF DownWritten, s
  <2>13. Continues(down[e], n, 1)
    <3>1. n - 1 = Len(framed[e])
      BY <2>3
    <3>2. down[e] # <<>> => AtRest(down[e], Len(down[e]), Len(framed[e]))
      BY DEF DownWritten
    <3> QED BY <3>1, <3>2 DEF Continues, AtRest
  <2>14. Stream(v, s)
    <3>1. n <= Len(s) /\ n # 0 /\ size = s[n] /\ 1 >= 1 /\ size + 2 <= size + 2
      BY <2>4, <2>5, <2>6
    <3> HIDE DEF n
    <3> QED BY <2>4, <2>5, <2>6, <2>7, <2>12, <2>13, <3>1, StreamGrows
  <2>15. /\ v # <<>> /\ Len(v) = Len(down[e]) + Len(h) /\ v[Len(v)] = h[size + 2]
         /\ v[1] = IF down[e] = <<>> THEN h[1] ELSE down[e][1]
    BY <1>0, <2>8, <2>9, JoinedEnds
  <2> HIDE DEF v
  <2>16. v[1].frame = 1 /\ v[1].at = 1
    <3>1. CASE down[e] = <<>>
      <4>1. framed[e] = <<>>
        BY <3>1 DEF DownWritten
      <4>2. n = 1
        BY <4>1
      <4> QED BY <3>1, <4>2, <2>10, <2>15
    <3>2. CASE down[e] # <<>>
      BY <3>2, <2>15 DEF DownWritten
    <3> QED BY <3>1, <3>2
  <2>17. AtRest(v, Len(v), n)
    BY <2>11, <2>15 DEF AtRest, Ends
  <2>18. Len(framed'[e]) = n /\ framed'[e] # <<>>
    <3>1. framed'[e] \in Seq(Datagram) /\ Len(framed'[e]) = n
      BY <1>0, <2>2
    <3>2. Len(<<>>) = 0
      OBVIOUS
    <3> QED BY <2>5, <3>1, <3>2
  <2> QED BY <1>0, <2>2, <2>14, <2>15, <2>16, <2>17, <2>18 DEF DownWritten
<1> QED BY <1>1, <1>2, DownSteps

-----------------------------------------------------------------------------
(* The readers.                                                            *)

LEMMA WholeGrows ==
  ASSUME NEW ps, NEW s \in Seq(Nat), NEW x \in Nat, Whole(ps, s), ps \in Seq(Seq(Byte))
  PROVE  Whole(ps, Append(s, x))
<1>1. Len(Append(s, x)) = Len(s) + 1 /\ \A i \in 1..Len(s) : Append(s, x)[i] = s[i]
  OBVIOUS
<1>2. Len(ps) <= Len(s) /\ DOMAIN ps = 1..Len(ps) /\ Len(ps) \in Nat /\ Len(s) \in Nat
  BY DEF Whole
<1>3. \A i \in DOMAIN ps : ps[i] = Body(i, Append(s, x)[i])
  BY <1>1, <1>2 DEF Whole
<1> QED BY <1>1, <1>2, <1>3 DEF Whole

LEMMA WholeNext ==
  ASSUME NEW ps \in Seq(Seq(Byte)), NEW s \in Seq(Nat), Whole(ps, s), NEW b,
         Len(ps) + 1 <= Len(s), b = Body(Len(ps) + 1, s[Len(ps) + 1])
  PROVE  Whole(Append(ps, b), s) /\ Len(Append(ps, b)) = Len(ps) + 1
<1>1. Len(Append(ps, b)) = Len(ps) + 1 /\ DOMAIN Append(ps, b) = 1 .. Len(ps) + 1 /\ Len(ps) \in Nat
  OBVIOUS
<1>2. \A i \in 1 .. Len(ps) + 1 : Append(ps, b)[i] = IF i <= Len(ps) THEN ps[i] ELSE b
  OBVIOUS
<1>3. ASSUME NEW i \in 1 .. Len(ps) + 1
      PROVE  Append(ps, b)[i] = Body(i, s[i])
  <2>1. CASE i <= Len(ps)
    <3>1. i \in DOMAIN ps
      BY <2>1, <1>1
    <3>2. ps[i] = Body(i, s[i])
      BY <3>1 DEF Whole
    <3> QED BY <3>2, <2>1, <1>2
  <2>2. CASE ~(i <= Len(ps))
    <3>1. i = Len(ps) + 1
      BY <2>2, <1>1
    <3> QED BY <3>1, <2>2, <1>2
  <2> QED BY <2>1, <2>2
<1> QED BY <1>1, <1>3 DEF Whole

\* Between two frames: what comes next is the length of a frame.
Between(w, r, n) ==
  IF r = 0 THEN n = 0 /\ (w # <<>> => w[1].frame = 1 /\ w[1].at = 1)
  ELSE r <= Len(w) /\ AtRest(w, r, n)

LEMMA HeaderFollows ==
  ASSUME NEW w, NEW s \in Seq(Nat), Stream(w, s), NEW r \in Nat, NEW n \in Nat,
         Between(w, r, n), NEW k \in 1..2, r + k <= Len(w)
  PROVE  /\ HeaderRead(w, r + k, n + 1, SubSeq(w, r + 1, r + k))
         /\ Len(SubSeq(w, r + 1, r + k)) = k /\ SubSeq(w, r + 1, r + k) # <<>>
<1> DEFINE g == SubSeq(w, r + 1, r + k)
<1>1. w \in Seq(Byte) /\ Len(w) \in Nat /\ DOMAIN w = 1..Len(w)
  BY DEF Stream, Bytes
<1>2. g \in Seq(Byte) /\ Len(g) = k /\ \A i \in 1..k : g[i] = w[r + i]
  <2>1. r + 1 \in 1 .. Len(w) + 1 /\ r + k \in 0..Len(w) /\ (r + k) - (r + 1) + 1 = k
        /\ \A i \in 1..k : (r + 1) + i - 1 = r + i /\ r + i \in 1..Len(w)
    BY <1>1
  <2>2. g = [i \in 1 .. (r + k) - (r + 1) + 1 |-> w[(r + 1) + i - 1]]
    BY <1>1
  <2>3. g = [i \in 1..k |-> w[r + i]]
    BY <2>1, <2>2
  <2>4. \A i \in 1..k : w[r + i] \in Byte
    BY <2>1, <1>1
  <2> HIDE DEF g
  <2> QED BY <2>3, <2>4
<1> HIDE DEF g
<1>3. g # <<>>
  BY <1>2
<1>4. /\ r + 1 <= Len(w) => Piece(w, r + 1, n + 1, 1)
      /\ r + 2 <= Len(w) => Piece(w, r + 2, n + 1, 2)
  BY NextFrame DEF Between
<1>5. CASE k = 1
  <2>1. g[1] = w[r + 1] /\ Piece(w, r + 1, n + 1, 1)
    BY <1>2, <1>4, <1>5
  <2> QED BY <1>2, <1>3, <1>5, <2>1 DEF HeaderRead, g
<1>6. CASE k = 2
  <2>1. g[1] = w[r + 1] /\ g[2] = w[r + 2]
    BY <1>2, <1>6
  <2>2. r + 1 \in 1..Len(w) /\ r + 2 \in 1..Len(w)
    BY <1>1, <1>6
  <2>3. Piece(w, r + 1, n + 1, 1) /\ Piece(w, r + 2, n + 1, 2)
    BY <1>4, <2>2
  <2>4. w[r + 1].size = s[n + 1] /\ w[r + 2].size = s[n + 1]
    <3>1. n + 1 # 0 /\ w[r + 1].frame = n + 1 /\ w[r + 2].frame = n + 1
      BY <2>3 DEF Piece
    <3> QED BY <3>1, <2>2, <1>1 DEF Stream, Bytes
  <2> QED BY <1>2, <1>3, <1>6, <2>1, <2>3, <2>4 DEF HeaderRead, Piece, g
<1> QED BY <1>5, <1>6

\* After the first byte of a length comes its second.
LEMMA SecondFollows ==
  ASSUME NEW w, NEW s \in Seq(Nat), Stream(w, s), NEW r \in Nat, NEW n \in Nat \ {0}, r # 0,
         NEW g \in Seq(Byte), HeaderRead(w, r, n, g), Len(g) = 1, r + 1 <= Len(w)
  PROVE  /\ HeaderRead(w, r + 1, n, g \o SubSeq(w, r + 1, r + 1))
         /\ Len(g \o SubSeq(w, r + 1, r + 1)) = 2 /\ g \o SubSeq(w, r + 1, r + 1) # <<>>
<1>1. w \in Seq(Byte) /\ Len(w) \in Nat /\ DOMAIN w = 1..Len(w)
  BY DEF Stream, Bytes
<1>2. g[1] = w[r] /\ w[r].frame = n /\ w[r].at = 1
  BY DEF HeaderRead, Piece
<1> DEFINE q == r + 1
           z == w[r].size
           fq == w[q].frame
           aq == w[q].at
           zq == w[q].size
           h == g \o SubSeq(w, r + 1, r + 1)
<1>3. r \in 1..Len(w) /\ q \in 1..Len(w) /\ r < q /\ q - r = 1
  BY <1>1
<1>4. Len(h) = 2 /\ h[1] = g[1] /\ h[2] = w[q] /\ h # <<>>
  <2>1. SubSeq(w, r + 1, r + 1) \in Seq(Byte) /\ Len(SubSeq(w, r + 1, r + 1)) = 1
        /\ SubSeq(w, r + 1, r + 1)[1] = w[r + 1]
    BY <1>1
  <2> DEFINE x == SubSeq(w, r + 1, r + 1)
  <2> HIDE DEF x
  <2>2. x \in Seq(Byte) /\ Len(x) = 1
    BY <2>1 DEF x
  <2>3. x # <<>> /\ g # <<>>
    <3>1. Len(<<>>) # 1
      OBVIOUS
    <3> QED BY <2>2, <3>1, Zenon
  <2>4. Len(g \o x) = 2 /\ (g \o x)[1] = g[1] /\ (g \o x)[2] = x[1] /\ g \o x # <<>>
    <3>1. /\ g \o x # <<>> /\ Len(g \o x) = Len(g) + Len(x)
          /\ (g \o x)[Len(g \o x)] = x[Len(x)]
          /\ (g \o x)[1] = IF g = <<>> THEN x[1] ELSE g[1]
      BY <2>2, <2>3, JoinedEnds
    <3> QED BY <2>2, <2>3, <3>1
  <2> QED BY <2>1, <2>4 DEF x, q
<1> HIDE DEF h, q
<1>5. fq \in Nat /\ aq \in Nat /\ zq \in Nat /\ z \in Nat
  BY <1>3, <1>1, ByteAt
<1>6. /\ n <= fq
      /\ n = fq => aq - 1 = q - r
      /\ n < fq => q - r >= (z + 2 - 1) + aq
  BY <1>3, <1>1, <1>2 DEF Stream, InOrder
<1>7. fq # 0 => zq = s[fq] /\ aq \in 1 .. zq + 2
  BY <1>3, <1>1 DEF Stream, Bytes
<1>8. z = s[n]
  BY <1>2, <1>3, <1>1 DEF Stream, Bytes
<1> HIDE DEF fq, aq, zq, z
<1>9. fq = n
  BY <1>3, <1>5, <1>6, <1>7
<1>10. aq = 2 /\ zq = z
  BY <1>3, <1>5, <1>6, <1>7, <1>8, <1>9
<1> QED BY <1>2, <1>4, <1>9, <1>10 DEF HeaderRead, Piece, h, q, fq, aq, zq, z

\* After a length comes the packet.
LEMMA BodyFollows ==
  ASSUME NEW w, NEW s \in Seq(Nat), Stream(w, s), NEW r \in Nat, NEW n \in Nat \ {0}, r # 0,
         NEW g, HeaderRead(w, r, n, g), Len(g) = 2, NEW k \in Nat \ {0}, k <= Decoded2(g), r + k <= Len(w)
  PROVE  /\ n <= Len(s) /\ Decoded2(g) = s[n]
         /\ k = s[n] => /\ SubSeq(w, r + 1, r + k) = Body(n, s[n])
                        /\ AtRest(w, r + k, n)
<1>1. w \in Seq(Byte) /\ Len(w) \in Nat /\ DOMAIN w = 1..Len(w)
  BY DEF Stream, Bytes
<1>2. g[1].at = 1 /\ g[1].size = w[r].size /\ g[2] = w[r] /\ Piece(w, r, n, 2)
  BY DEF HeaderRead
<1>3. r \in 1..Len(w)
  BY <1>1
<1>4. w[r].size \in Nat
  BY <1>1, <1>3, ByteAt
<1>5. Decoded2(g) = w[r].size
  BY <1>2, <1>4, LengthDecoded DEF Piece
<1>6. k <= w[r].size
  BY <1>5
<1>7. /\ SubSeq(w, r + 1, r + k) = Part(n, s[n], 3, k + 2)
      /\ n <= Len(s) /\ w[r].size = s[n]
      /\ k >= 1 => Piece(w, r + k, n, k + 2)
  BY <1>2, <1>3, <1>6, WholeBody
<1>8. ASSUME k = s[n]
      PROVE  SubSeq(w, r + 1, r + k) = Body(n, s[n]) /\ AtRest(w, r + k, n)
  <2>1. SubSeq(w, r + 1, r + k) = Body(n, s[n])
    BY <1>7, <1>8 DEF Body
  <2>2. r + k \in 1..Len(w)
    BY <1>1
  <2>3. w[r + k].frame = n /\ w[r + k].at = k + 2
    BY <1>7 DEF Piece
  <2>4. w[r + k].size = s[n]
    BY <2>2, <2>3, <1>1 DEF Stream, Bytes
  <2> QED BY <1>8, <2>1, <2>3, <2>4 DEF AtRest, Ends
<1> QED BY <1>5, <1>7, <1>8

LEMMA DownReaderInv ==
  ASSUME TunnelType, TunnelNext, NEW e \in Client, DownWritten(e), DownReader(e)
  PROVE  DownReader(e)'
<1>0. /\ down[e] \in Seq(Byte) /\ got[e] \in Seq(Byte) /\ heard[e] \in Seq(Seq(Byte))
      /\ downRead[e] \in Nat /\ downRead[e] <= Len(down[e])
      /\ link \in [Client -> {"none", "asking", "open", "closed"}]
      /\ got \in [Client -> Seq(Byte)] /\ heard \in [Client -> Seq(Seq(Byte))]
      /\ downRead \in [Client -> Nat]
  BY DEF TunnelType, ProgramTyped, StreamsTyped
<1>1. Sizes(e) \in Seq(Nat) /\ Stream(down[e], Sizes(e)) /\ Len(heard[e]) \in Nat
  BY <1>0, SizesTyped DEF DownWritten
<1>2. ASSUME NEW p \in Datagram, DownGrows(e, p)
      PROVE  DownReader(e)'
  <2>1. UNCHANGED programVars /\ Sizes(e)' = Append(Sizes(e), p.size)
        /\ down'[e] = down[e] \o Part(Len(framed[e]) + 1, p.size, 1, p.size + 2)
    BY <1>2 DEF DownGrows
  <2>2. p.size \in Nat \ {0} /\ Len(framed[e]) + 1 \in Nat
    <3>1. framed[e] \in Seq(Datagram)
      BY DEF TunnelType, ServerTyped
    <3>2. p.size \in Nat \ {0}
      BY <3>1, DatagramSizes
    <3>3. Len(framed[e]) + 1 \in Nat
      BY <3>1
    <3> QED BY <3>2, <3>3
  <2>3. \A r \in 1..Len(down[e]) : down'[e][r] = down[e][r]
    <3>1. Part(Len(framed[e]) + 1, p.size, 1, p.size + 2) \in Seq(Byte)
      BY <2>2, FramesTyped DEF IsPart

    <3> DEFINE h == Part(Len(framed[e]) + 1, p.size, 1, p.size + 2)
    <3> HIDE DEF h
    <3>2. h \in Seq(Byte) /\ down'[e] = down[e] \o h
      BY <2>1, <3>1 DEF h
    <3>3. \A r \in 1..Len(down[e]) : (down[e] \o h)[r] = down[e][r]
      BY <1>0, <3>2
    <3> QED BY <3>2, <3>3
  <2>4. Whole(heard[e], Sizes(e)')
    BY <1>0, <1>1, <2>1, <2>2, WholeGrows DEF DownReader
  <2>5. downRead[e] # 0 => down'[e][downRead[e]] = down[e][downRead[e]]
    BY <1>0, <2>3
  <2>6. /\ link'[e] = link[e] /\ got'[e] = got[e] /\ heard'[e] = heard[e]
        /\ downRead'[e] = downRead[e]
    BY <2>1 DEF programVars
  <2> QED BY <2>4, <2>5, <2>6 DEF DownReader, HeaderRead, Piece, AtRest
<1>3. ASSUME down'[e] = down[e], Sizes(e)' = Sizes(e)
      PROVE  DownReader(e)'
  <2>b. ASSUME heard'[e] = heard[e], got'[e] = got[e], downRead'[e] = downRead[e],
               \/ link'[e] = link[e] \/ link'[e] = "closed"
               \/ link[e] = "none" /\ link'[e] = "asking"
               \/ link[e] = "asking" /\ link'[e] = "open"
        PROVE  DownReader(e)'
    BY <2>b, <1>3 DEF DownReader
  <2>1. ASSUME NEW c \in Client, \/ Connect(c) \/ SendName(c) \/ SendHeader(c) \/ SendBody(c)
                                 \/ Close(c) \/ PollEnds(c)
        PROVE  DownReader(e)'
    BY <2>1, <2>b, <1>0 DEF Connect, SendName, SendHeader, SendBody, Close, PollEnds
  <2>2. ASSUME NEW c \in Client, PollHeader(c) PROVE DownReader(e)'
    <3>1. CASE c # e
      BY <3>1, <2>2, <2>b, <1>0 DEF PollHeader, Hears
    <3>2. CASE c = e
      <4>1. PICK k \in 1..2 : /\ Receives(down[e], downRead[e], 2, k) /\ Hears(e, k)
                              /\ got' = [got EXCEPT ![e] = Heard(e, k)]
        BY <2>2, <3>2 DEF PollHeader
      <4> DEFINE r == downRead[e]
                 n == Len(heard[e])
                 w == down[e]
                 g == SubSeq(w, r + 1, r + k)
      <4>2. link[e] = "open" /\ got[e] = <<>> /\ link'[e] = "open" /\ heard'[e] = heard[e]
        BY <2>2, <3>2 DEF PollHeader
      <4>3. got'[e] = g /\ downRead'[e] = r + k /\ r + k <= Len(w)
        BY <1>0, <4>1 DEF Hears, Heard, Receives
      <4>4. Between(w, r, n)
        BY <1>0, <4>2 DEF DownReader, DownWritten, Between
      <4>5. r \in Nat /\ n \in Nat /\ Stream(w, Sizes(e)) /\ Sizes(e) \in Seq(Nat)
        BY <1>0, <1>1
      <4>6. HeaderRead(w, r + k, n + 1, g) /\ g # <<>>
        <5> HIDE DEF r, n, w
        <5> QED BY <4>3, <4>4, <4>5, HeaderFollows
      <4> HIDE DEF g
      <4>7. r + k # 0
        BY <1>0
      <4> QED BY <1>3, <4>2, <4>3, <4>6, <4>7 DEF DownReader
    <3> QED BY <3>1, <3>2
  <2>3. ASSUME NEW c \in Client, PollSecond(c) PROVE DownReader(e)'
    <3>1. CASE c # e
      BY <3>1, <2>3, <2>b, <1>0 DEF PollSecond, Hears
    <3>2. CASE c = e
      <4> DEFINE r == downRead[e]
                 n == Len(heard[e]) + 1
                 w == down[e]
                 g == got[e] \o SubSeq(w, r + 1, r + 1)
      <4>1. /\ link[e] = "open" /\ Len(got[e]) = 1 /\ link'[e] = "open" /\ heard'[e] = heard[e]
            /\ Receives(w, r, 1, 1) /\ Hears(e, 1) /\ got' = [got EXCEPT ![e] = @ \o Heard(e, 1)]
        BY <2>3, <3>2 DEF PollSecond
      <4>2. got'[e] = g /\ downRead'[e] = r + 1 /\ r + 1 <= Len(w)
        BY <1>0, <4>1 DEF Hears, Heard, Receives
      <4>3. got[e] # <<>>
        <5>1. Len(<<>>) # 1
          OBVIOUS
        <5> QED BY <4>1, <5>1, Zenon
      <4>4. r # 0 /\ HeaderRead(w, r, n, got[e])
        BY <4>1, <4>3 DEF DownReader
      <4>5. r \in Nat /\ n \in Nat \ {0} /\ Stream(w, Sizes(e)) /\ Sizes(e) \in Seq(Nat)
        BY <1>0, <1>1
      <4> HIDE DEF g, n
      <4>6. HeaderRead(w, r + 1, n, g) /\ g # <<>>
        BY <1>0, <4>1, <4>2, <4>4, <4>5, SecondFollows DEF g
      <4>7. r + 1 # 0
        BY <1>0
      <4> QED BY <1>3, <4>1, <4>2, <4>6, <4>7 DEF DownReader, n
    <3> QED BY <3>1, <3>2
  <2>4. ASSUME NEW c \in Client, PollBody(c) PROVE DownReader(e)'
    <3>1. CASE c # e
      <4>1. heard'[e] = heard[e] /\ got'[e] = got[e] /\ link'[e] = link[e]
            /\ downRead'[e] = downRead[e]
        BY <3>1, <2>4, <1>0 DEF PollBody, Hears
      <4> QED BY <4>1, <2>b
    <3>2. CASE c = e
      <4> DEFINE r == downRead[e]
                 n == Len(heard[e]) + 1
                 w == down[e]
                 size == Decoded2(got[e])
      <4>1. PICK k \in 1..Mtu :
              /\ Receives(w, r, size, k) /\ Hears(e, k)
              /\ \/ /\ k = size
                    /\ heard' = [heard EXCEPT ![e] = Append(@, Heard(e, k))]
                    /\ UNCHANGED link
                 \/ /\ k < size
                    /\ link' = [link EXCEPT ![e] = "closed"]
                    /\ UNCHANGED heard
        BY <2>4, <3>2 DEF PollBody
      <4>2. link[e] = "open" /\ Len(got[e]) = 2 /\ got'[e] = <<>>
        BY <1>0, <2>4, <3>2 DEF PollBody
      <4>3. CASE k # size
        <5>1. link'[e] = "closed" /\ heard'[e] = heard[e]
          BY <1>0, <4>1, <4>3
        <5> QED BY <5>1, <1>3 DEF DownReader
      <4>4. CASE k = size
        <5>1. k \in Nat \ {0}
          BY Lengths
        <5>2. r + k <= Len(w) /\ k <= size
          BY <4>1, <4>4, <5>1 DEF Receives
        <5>3. downRead'[e] = r + k /\ link'[e] = "open"
              /\ heard'[e] = Append(heard[e], SubSeq(w, r + 1, r + k))
          <6>1. downRead'[e] = r + k
            BY <1>0, <4>1 DEF Hears
          <6>2. link' = link /\ heard' = [heard EXCEPT ![e] = Append(@, Heard(e, k))]
            BY <4>1, <4>4, <5>1
          <6>3. Heard(e, k) = SubSeq(w, r + 1, r + k)
            BY DEF Heard
          <6> QED BY <1>0, <4>2, <6>1, <6>2, <6>3
        <5>4. got[e] # <<>>
          <6>1. Len(<<>>) # 2
            OBVIOUS
          <6> QED BY <4>2, <6>1, Zenon
        <5>5. r # 0 /\ HeaderRead(w, r, n, got[e])
          BY <4>2, <5>4 DEF DownReader
        <5>6. r \in Nat /\ n \in Nat \ {0} /\ Stream(w, Sizes(e)) /\ Sizes(e) \in Seq(Nat)
          BY <1>0, <1>1
        <5> HIDE DEF n, size
        <5>7. /\ n <= Len(Sizes(e)) /\ size = Sizes(e)[n]
              /\ k = Sizes(e)[n] => /\ SubSeq(w, r + 1, r + k) = Body(n, Sizes(e)[n])
                                    /\ AtRest(w, r + k, n)
          BY <4>2, <5>1, <5>2, <5>5, <5>6, BodyFollows DEF size
        <5>8. SubSeq(w, r + 1, r + k) = Body(n, Sizes(e)[n]) /\ AtRest(w, r + k, n)
          BY <4>4, <5>7
        <5>9. Whole(heard'[e], Sizes(e)) /\ Len(heard'[e]) = n
          <6> DEFINE b == SubSeq(w, r + 1, r + k)
          <6> HIDE DEF b
          <6>1. b = Body(Len(heard[e]) + 1, Sizes(e)[Len(heard[e]) + 1])
                /\ Len(heard[e]) + 1 <= Len(Sizes(e))
            BY <5>7, <5>8 DEF b, n
          <6>2. Whole(Append(heard[e], b), Sizes(e)) /\ Len(Append(heard[e], b)) = Len(heard[e]) + 1
            BY <1>0, <1>1, <6>1, WholeNext DEF DownReader
          <6> QED BY <5>3, <6>2 DEF b, n
        <5>10. r + k # 0
          BY <5>1, <5>6
        <5> QED BY <1>3, <4>2, <5>3, <5>8, <5>9, <5>10 DEF DownReader
      <4> QED BY <4>3, <4>4
    <3> QED BY <3>1, <3>2
  <2>5. ASSUME UNCHANGED programVars PROVE DownReader(e)'
    BY <2>5, <2>b DEF programVars
  <2>6. ServerStep => UNCHANGED programVars
    BY DEF ServerStep, Select, Accept, Serve, NewClient, Turn, Poll4, Poll6, PolledDry, ReadHeader,
           ReadSecond, ReadBody
  <2>7. \A c \in Client, h \in Host : Disturb(c, h) => UNCHANGED programVars
    BY DEF Disturb
  <2>8. \A d \in net : Deliver(d) => UNCHANGED programVars
    BY DEF Deliver
  <2> QED BY <2>1, <2>2, <2>3, <2>4, <2>5, <2>6, <2>7, <2>8 DEF TunnelNext, ProgramStep
<1> QED BY <1>2, <1>3, DownSteps

\* What a step does to the stream to the server: nothing, one piece more, or the end of it cut off.
UpGrows(c) ==
  /\ link[c] \in {"asking", "open"}
  /\ \A i \in 1..Len(up[c]) : up'[c][i] = up[c][i]
  /\ sent'[c] = sent[c] \/ \E x \in Nat : sent'[c] = Append(sent[c], x)

UpIsCut(c) ==
  /\ link[c] \in {"asking", "open"} /\ sent'[c] = sent[c]
  /\ \A i \in 1..upRead[c] : up'[c][i] = up[c][i]

LEMMA UpReaderOfPrograms ==
  ASSUME TunnelType, NEW c \in Client, ProgramStep(c), UpWritten(c), NEW e \in Client, UpReader(e)
  PROVE  UpReader(e)'
<1>0. /\ up \in [Client -> Seq(Byte)] /\ upRead \in [Client -> Nat] /\ upRead[e] <= Len(up[e])
      /\ link \in [Client -> {"none", "asking", "open", "closed"}]
      /\ sent \in [Client -> Seq(Length)] /\ passed \in [Client -> Seq(Seq(Byte))]
  BY DEF TunnelType, ProgramTyped, StreamsTyped, ServerTyped
<1>1. UNCHANGED serverVars
  BY DEF ProgramStep, Connect, SendName, SendHeader, SendBody, Close, PollHeader, PollSecond,
     PollBody, PollEnds
<1>2. link'[e] = "closed" \/ link'[e] = link[e] \/ link[e] \in {"none", "asking"}
  BY <1>0 DEF ProgramStep, Connect, SendName, SendHeader, SendBody, Close, PollHeader, PollSecond,
     PollBody, PollEnds
<1>3. \/ up'[e] = up[e] /\ sent'[e] = sent[e]
      \/ UpGrows(e)
      \/ UpIsCut(e)
  <2>a. ASSUME NEW p \in Seq(Byte)
        PROVE  \A i \in 1..Len(up[e]) : (up[e] \o p)[i] = up[e][i]
    BY <1>0
  <2>1. CASE SendName(c)
    <3>1. CASE c # e
      BY <1>0, <2>1, <3>1 DEF SendName
    <3>2. CASE c = e
      <4>1. Name \in Seq(Byte)
        BY FramesTyped DEF IsPart
      <4>2. up'[e] = up[e] \o Name /\ sent'[e] = sent[e] /\ link[e] = "asking"
        BY <1>0, <2>1, <3>2 DEF SendName
      <4> QED BY <4>1, <4>2, <2>a DEF UpGrows
    <3> QED BY <3>1, <3>2
  <2>2. CASE SendHeader(c)
    <3>1. PICK size \in Length :
            /\ sent' = [sent EXCEPT ![c] = Append(@, size)]
            /\ up' = [up EXCEPT ![c] = @ \o Header(Len(sent[c]) + 1, size)]
      BY <2>2 DEF SendHeader
    <3>2. CASE c # e
      BY <1>0, <3>1, <3>2
    <3>3. CASE c = e
      <4> DEFINE h == Header(Len(sent[e]) + 1, size)
      <4>1. size \in Nat
        BY Lengths
      <4>2. Len(sent[e]) + 1 \in Nat
        BY <1>0
      <4>3. h \in Seq(Byte)
        BY <4>1, <4>2, FramesTyped DEF IsPart
      <4>4. up'[e] = up[e] \o h /\ sent'[e] = Append(sent[e], size) /\ link[e] = "open"
        BY <1>0, <2>2, <3>1, <3>3 DEF SendHeader
      <4> HIDE DEF h
      <4> QED BY <4>1, <4>3, <4>4, <2>a DEF UpGrows
    <3> QED BY <3>2, <3>3
  <2>3. CASE SendBody(c)
    <3>1. CASE c # e
      BY <1>0, <2>3, <3>1 DEF SendBody
    <3>2. CASE c = e
      <4> DEFINE n == Len(sent[e])
                 h == Body(n, sent[e][n])
      <4>1. sent[e] # <<>>
        BY <2>3, <3>2 DEF SendBody, UpWritten
      <4>2. n \in Nat /\ n \in 1..Len(sent[e])
        BY <4>1, <1>0
      <4>3. sent[e][n] \in Length
        BY <4>2, <1>0
      <4>4. sent[e][n] \in Nat
        BY <4>3, Lengths
      <4>5. h \in Seq(Byte)
        BY <4>2, <4>4, FramesTyped DEF IsPart
      <4>6. up'[e] = up[e] \o h /\ sent'[e] = sent[e] /\ link[e] = "open"
        BY <1>0, <2>3, <3>2 DEF SendBody
      <4> HIDE DEF h
      <4> QED BY <4>5, <4>6, <2>a DEF UpGrows
    <3> QED BY <3>1, <3>2
  <2>4. CASE Close(c)
    <3>1. PICK k \in upRead[c] .. Len(up[c]) : up' = [up EXCEPT ![c] = SubSeq(@, 1, k)]
      BY <2>4 DEF Close
    <3>2. CASE c # e
      BY <1>0, <2>4, <3>1, <3>2 DEF Close
    <3>3. CASE c = e
      <4>1. up'[e] = SubSeq(up[e], 1, k) /\ sent' = sent /\ link[e] \in {"asking", "open"}
        BY <1>0, <2>4, <3>1, <3>3 DEF Close
      <4>2. k \in upRead[e] .. Len(up[e]) /\ upRead[e] \in Nat /\ up[e] \in Seq(Byte)
        BY <1>0, <3>3
      <4>3. \A i \in 1..upRead[e] : SubSeq(up[e], 1, k)[i] = up[e][i]
        BY <4>2
      <4> QED BY <4>1, <4>3 DEF UpIsCut
    <3> QED BY <3>2, <3>3
  <2>5. CASE Connect(c) \/ PollHeader(c) \/ PollSecond(c) \/ PollBody(c) \/ PollEnds(c)
    BY <2>5 DEF Connect, PollHeader, PollSecond, PollBody, PollEnds
  <2> QED BY <2>1, <2>2, <2>3, <2>4, <2>5 DEF ProgramStep
<1>4. Whole(passed[e], sent'[e])
  <2>1. Whole(passed[e], sent[e]) /\ sent[e] \in Seq(Nat)
    BY <1>0, SeqOfLengths DEF UpReader
  <2>2. ASSUME NEW x \in Nat, sent'[e] = Append(sent[e], x) PROVE Whole(passed[e], sent'[e])
    BY <1>0, <2>1, <2>2, WholeGrows
  <2> QED BY <1>3, <2>1, <2>2 DEF UpGrows, UpIsCut
<1>5. upRead[e] # 0 => up'[e][upRead[e]] = up[e][upRead[e]]
  <2>1. upRead[e] # 0 => upRead[e] \in 1..Len(up[e]) /\ upRead[e] \in 1..upRead[e]
    BY <1>0
  <2> QED BY <1>3, <2>1 DEF UpGrows, UpIsCut
<1>6. link[e] = "closed" => link'[e] = "closed" /\ up'[e] = up[e]
  BY <1>2, <1>3 DEF UpGrows, UpIsCut
<1>7. /\ list' = list /\ hup' = hup /\ server' = server /\ upRead' = upRead /\ passed' = passed
  BY <1>1 DEF serverVars
<1> QED BY <1>4, <1>5, <1>6, <1>7 DEF UpReader, HeaderRead, Piece, AtRest

LEMMA UpReaderOfServer ==
  ASSUME TunnelType, ServerAt, ServerStep, NEW e \in Client, UpWritten(e), UpReader(e)
  PROVE  UpReader(e)'
<1>0. /\ up[e] \in Seq(Byte) /\ upRead \in [Client -> Nat] /\ upRead[e] <= Len(up[e])
      /\ server \in Server /\ server.pc \in Pcs /\ server.got \in Seq(Byte)
      /\ passed \in [Client -> Seq(Seq(Byte))]
      /\ upRead[e] \in Nat /\ passed[e] \in Seq(Seq(Byte)) /\ Len(passed[e]) \in Nat
  BY DEF TunnelType, ProgramTyped, StreamsTyped, ServerTyped, Server
<1>1. UNCHANGED <<up, sent, link>>
  BY DEF ServerStep, Select, Accept, Serve, NewClient, Turn, Poll4, Poll6, PolledDry, ReadHeader,
     ReadSecond, ReadBody, programVars
<1>2. Stream(up[e], sent[e]) /\ sent[e] \in Seq(Nat)
  <2>1. sent[e] \in Seq(Length)
    BY DEF TunnelType, ProgramTyped
  <2> QED BY <2>1, SeqOfLengths DEF UpWritten
\* Nothing is read, and the client is not in the middle of a frame.
<1>a. ASSUME upRead'[e] = upRead[e], passed'[e] = passed[e],
             e \in list' => e \in list, e \notin list' \cup hup' => e \notin list \cup hup,
             server'.pc = "killed" \/ server.pc # "killed",
             server.pc \in {"second", "body"} => e \notin server.at \/ e \notin list',
             server'.pc \in {"second", "body"} => e \notin server'.at
      PROVE  UpReader(e)'
  BY <1>a, <1>1 DEF UpReader
<1>c. ASSUME NEW c \in Client, NEW pc, Serving(c, pc)
      PROVE  server.at = {c} /\ server.pc = pc
  BY <1>c, <1>0 DEF Serving, Pcs, ServerAt
\* The turn of c ends before it has begun a frame, or with the end of c.
<1>d. ASSUME NEW c \in Client, NEW fail, TurnEnds(c, fail), UNCHANGED <<upRead, passed>>,
             server.at = {c}, server.pc = "tcp" \/ (server.pc \in {"second", "body"} /\ fail)
      PROVE  UpReader(e)'
  <2>1. server'.pc = "serve"
    BY <1>0, <1>d DEF TurnEnds, Server
  <2>2. fail => list' = list \ {c} /\ hup' = hup \cup {c}
    BY <1>d DEF TurnEnds
  <2>3. ~fail => list' = list /\ hup' = hup
    BY <1>d DEF TurnEnds
  <2> QED BY <1>a, <1>d, <2>1, <2>2, <2>3
\* Another client is read.
<1>e. ASSUME NEW c \in Client, c # e, server.at = {c}, upRead'[e] = upRead[e], passed'[e] = passed[e],
             list' = list, hup' = hup, server'.at = server.at, server'.pc # "killed", server.pc # "killed"
      PROVE  UpReader(e)'
  BY <1>a, <1>e
<1>3. ASSUME Select \/ Serve \/ Accept PROVE UpReader(e)'
  <2>1. UNCHANGED <<list, hup, upRead, passed>> /\ server.pc \in {"select", "accept", "serve"}
    BY <1>3 DEF Select, Accept, Serve
  <2>2. server'.pc \notin {"second", "body"}
    BY <1>0, <1>3 DEF Select, Accept, Serve, Server
  <2> QED BY <1>a, <2>1, <2>2
<1>4. ASSUME NEW c \in Client, NewClient(c) PROVE UpReader(e)'
  <2>1. server.pc = "name" /\ server.at = {c} /\ UNCHANGED passed
    BY <1>4 DEF NewClient, ServerAt
  <2>2. server'.pc = "accept"
    BY <1>0, <1>4 DEF NewClient, Server
  <2>3. c \notin list /\ c \notin hup
    BY <2>1 DEF ServerAt
  <2>4. \/ list' = list \cup {c} /\ hup' = hup
        \/ list' = list /\ hup' = hup \cup {c}
    BY <1>4 DEF NewClient, Enlist, Refuse
  <2>5. CASE c # e
    <3>1. upRead'[e] = upRead[e]
      BY <1>0, <1>4, <2>5 DEF NewClient
    <3> QED BY <1>a, <2>1, <2>2, <2>4, <2>5, <3>1
  <2>6. CASE c = e
    <3>1. upRead[e] = 0 /\ passed[e] = <<>> /\ Whole(passed[e], sent[e])
      BY <2>3, <2>6 DEF UpReader
    <3>2. CASE 0 < Len(up[e]) /\ upRead'[e] = 1
      <4>1. 1 \in DOMAIN up[e] /\ up[e] # <<>>
        BY <3>2, <1>0
      <4>2. up[e][1].frame = 0
        BY <4>1 DEF UpWritten
      <4>3. AtRest(up[e], 1, 0)
        BY <4>1, <4>2, <1>2 DEF Stream, Bytes, AtRest, Ends
      <4>4. Len(passed[e]) = 0
        BY <3>1
      <4> QED BY <1>1, <2>1, <2>2, <2>4, <2>6, <3>1, <3>2, <4>3, <4>4 DEF UpReader
    <3>3. CASE Ended(e) /\ upRead'[e] = upRead[e]
      <4>1. link[e] = "closed" /\ up[e] = <<>>
        BY <3>1, <3>3, <1>0 DEF Ended
      <4> QED BY <1>1, <2>1, <2>2, <2>4, <2>6, <3>1, <3>3, <4>1 DEF UpReader
    <3>4. \/ 0 < Len(up[e]) /\ upRead'[e] = 1
          \/ Ended(e) /\ upRead'[e] = upRead[e]
      <4>1. \/ upRead[c] < Len(up[c]) /\ upRead' = [upRead EXCEPT ![c] = @ + 1]
            \/ Ended(c) /\ UNCHANGED upRead
        BY <1>4 DEF NewClient
      <4> QED BY <4>1, <2>6, <3>1, <1>0
    <3> QED BY <3>2, <3>3, <3>4
  <2> QED BY <2>5, <2>6
<1>5. ASSUME NEW c \in Client, Poll4(c) \/ Poll6(c) \/ PolledDry(c) PROVE UpReader(e)'
  <2>1. server.pc = "udp" /\ UNCHANGED <<list, upRead, passed>>
    BY <1>5, <1>c DEF Poll4, Poll6, PolledDry
  <2>2. \/ UNCHANGED <<server, hup>>
        \/ server' = [server EXCEPT !.pc = "killed", !.at = {}] /\ hup' = Client
        \/ UdpFails /\ UNCHANGED hup
        \/ server' = [server EXCEPT !.pc = "tcp"] /\ UNCHANGED hup
    BY <1>5 DEF Poll4, Poll6, PolledDry, FrameDatagram
  <2>3. \/ server' = server /\ hup' = hup
        \/ server'.pc = "killed" /\ hup' = Client
        \/ server'.pc = "tcp" /\ hup' = hup
    BY <1>0, <2>2 DEF UdpFails, Server
  <2> QED BY <1>a, <2>1, <2>3
<1>6. ASSUME NEW c \in Client, ReadHeader(c) PROVE UpReader(e)'
  <2>1. server.at = {c} /\ server.pc = "tcp" /\ UNCHANGED passed
    BY <1>6, <1>c DEF ReadHeader
  <2>2. CASE (\E fail : TurnEnds(c, fail)) /\ UNCHANGED upRead
    BY <1>d, <2>1, <2>2
  <2>3. ASSUME NEW k \in 1..2, Receives(up[c], upRead[c], 2, k), Reads(c, k),
               server' = [server EXCEPT !.pc = IF k = 1 THEN "second" ELSE "body",
                                        !.got = ReadNow(c, k)],
               UNCHANGED <<hup, list, box>>
        PROVE  UpReader(e)'
    <3>1. /\ server'.pc = IF k = 1 THEN "second" ELSE "body"
          /\ server'.got = ReadNow(c, k) /\ server'.at = {c}
      BY <1>0, <2>1, <2>3 DEF Server
    <3>2. CASE c # e
      <4>1. upRead'[e] = upRead[e]
        BY <1>0, <2>3, <3>2 DEF Reads
      <4> QED BY <1>e, <2>1, <2>3, <3>1, <3>2, <4>1
    <3>3. CASE c = e
      <4> DEFINE r == upRead[e]
                 n == Len(passed[e])
                 w == up[e]
                 g == SubSeq(w, r + 1, r + k)
      <4>1. server'.got = g /\ upRead'[e] = r + k /\ r + k <= Len(w)
        BY <1>0, <2>3, <3>1, <3>3 DEF Reads, ReadNow, Receives
      <4>2. e \in list
        BY <2>1, <3>3 DEF ServerAt
      <4>3. r # 0 /\ AtRest(w, r, n)
        <5>1. IF r = 0 THEN w = <<>> /\ link[e] = "closed" /\ passed[e] = <<>> ELSE AtRest(w, r, n)
          BY <4>2, <2>1 DEF UpReader
        <5>2. w = <<>> => Len(w) = 0
          OBVIOUS
        <5>3. ~(r = 0 /\ w = <<>>)
          BY <4>1, <5>2, <1>0
        <5> QED BY <5>1, <5>3
      <4>4. Between(w, r, n)
        BY <4>3, <1>0 DEF Between
      <4>5. r \in Nat /\ n \in Nat /\ Stream(w, sent[e]) /\ sent[e] \in Seq(Nat)
        BY <1>0, <1>2
      <4>6. HeaderRead(w, r + k, n + 1, g) /\ Len(g) = k
        <5> HIDE DEF r, n, w
        <5> QED BY <4>1, <4>4, <4>5, HeaderFollows
      <4> HIDE DEF g
      <4>7. r + k # 0
        BY <1>0
      <4>8. Len(g) = IF server'.pc = "second" THEN 1 ELSE 2
        BY <3>1, <4>6
      <4>9. server'.pc \in {"second", "body"} /\ e \in server'.at /\ e \in list'
        BY <3>1, <3>3, <2>3, <4>2
      <4> QED BY <1>1, <2>1, <4>1, <4>6, <4>7, <4>8, <4>9 DEF UpReader
    <3> QED BY <3>2, <3>3
  <2> QED BY <1>6, <2>2, <2>3 DEF ReadHeader
<1>7. ASSUME NEW c \in Client, ReadSecond(c) PROVE UpReader(e)'
  <2>1. server.at = {c} /\ server.pc = "second" /\ UNCHANGED passed
    BY <1>7, <1>c DEF ReadSecond
  <2>2. CASE TurnEnds(c, TRUE) /\ UNCHANGED upRead
    BY <1>d, <2>1, <2>2
  <2>3. ASSUME Receives(up[c], upRead[c], 1, 1), Reads(c, 1),
               server' = [server EXCEPT !.pc = "body", !.got = @ \o ReadNow(c, 1)],
               UNCHANGED <<hup, list, box>>
        PROVE  UpReader(e)'
    <3>1. /\ server'.pc = "body" /\ server'.at = {c}
          /\ server'.got = server.got \o ReadNow(c, 1)
      BY <1>0, <2>1, <2>3 DEF Server
    <3>2. CASE c # e
      <4>1. upRead'[e] = upRead[e]
        BY <1>0, <2>3, <3>2 DEF Reads
      <4> QED BY <1>e, <2>1, <2>3, <3>1, <3>2, <4>1
    <3>3. CASE c = e
      <4> DEFINE r == upRead[e]
                 n == Len(passed[e]) + 1
                 w == up[e]
                 g == server.got \o SubSeq(w, r + 1, r + 1)
      <4>1. server'.got = g /\ upRead'[e] = r + 1 /\ r + 1 <= Len(w)
        BY <1>0, <2>3, <3>1, <3>3 DEF Reads, ReadNow, Receives
      <4>2. e \in list
        BY <2>1, <3>3 DEF ServerAt
      <4>3. r # 0 /\ HeaderRead(w, r, n, server.got) /\ Len(server.got) = 1
        BY <4>2, <2>1, <3>3 DEF UpReader
      <4>4. r \in Nat /\ n \in Nat \ {0} /\ Stream(w, sent[e]) /\ sent[e] \in Seq(Nat)
        BY <1>0, <1>2
      <4>5. HeaderRead(w, r + 1, n, g) /\ Len(g) = 2
        <5> HIDE DEF r, n, w
        <5> QED BY <1>0, <4>1, <4>3, <4>4, SecondFollows
      <4> HIDE DEF g
      <4>6. r + 1 # 0
        BY <1>0
      <4>7. server'.pc \in {"second", "body"} /\ e \in server'.at /\ server'.pc # "second"
        BY <3>1, <3>3
      <4> QED BY <1>1, <2>1, <2>3, <4>1, <4>2, <4>5, <4>6, <4>7 DEF UpReader
    <3> QED BY <3>2, <3>3
  <2> QED BY <1>7, <2>2, <2>3 DEF ReadSecond
<1>8. ASSUME NEW c \in Client, ReadBody(c) PROVE UpReader(e)'
  <2>1. server.at = {c} /\ server.pc = "body"
    BY <1>8, <1>c DEF ReadBody
  <2>2. CASE TurnEnds(c, TRUE) /\ UNCHANGED <<upRead, passed>>
    BY <1>d, <2>1, <2>2
  <2>3. ASSUME NEW k \in 1..Mtu, Receives(up[c], upRead[c], Decoded2(server.got), k), Reads(c, k),
               TurnEnds(c, TRUE), UNCHANGED passed
        PROVE  UpReader(e)'
    <3>1. CASE c # e
      <4>1. upRead'[e] = upRead[e]
        BY <1>0, <2>3, <3>1 DEF Reads
      <4>2. server'.pc = "serve" /\ list' = list \ {c} /\ hup' = hup \cup {c}
        BY <1>0, <2>3 DEF TurnEnds, Server
      <4> QED BY <1>a, <2>1, <2>3, <3>1, <4>1, <4>2
    <3>2. CASE c = e
      <4>1. server'.pc = "serve" /\ list' = list \ {e} /\ hup' = hup \cup {e}
        BY <1>0, <2>3, <3>2 DEF TurnEnds, Server
      <4> QED BY <4>1, <1>1, <2>3 DEF UpReader
    <3> QED BY <3>1, <3>2
  <2>4. ASSUME NEW k \in 1..Mtu, k = Decoded2(server.got),
               Receives(up[c], upRead[c], Decoded2(server.got), k), Reads(c, k),
               PassOn(c, ReadNow(c, k)),
               server' = [server EXCEPT !.pc = "tcp", !.got = <<>>],
               UNCHANGED <<hup, list, box>>
        PROVE  UpReader(e)'
    <3>1. server'.pc = "tcp" /\ server'.at = {c}
      BY <1>0, <2>1, <2>4 DEF Server
    <3>2. CASE c # e
      <4>1. upRead'[e] = upRead[e] /\ passed'[e] = passed[e]
        BY <1>0, <2>4, <3>2 DEF Reads, PassOn
      <4> QED BY <1>e, <2>1, <2>4, <3>1, <3>2, <4>1
    <3>3. CASE c = e
      <4> DEFINE r == upRead[e]
                 n == Len(passed[e]) + 1
                 w == up[e]
                 b == SubSeq(w, r + 1, r + k)
      <4>1. k \in Nat \ {0}
        BY Lengths
      <4>2. upRead'[e] = r + k /\ r + k <= Len(w) /\ passed'[e] = Append(passed[e], b)
        BY <1>0, <2>4, <3>3 DEF Reads, ReadNow, Receives, PassOn
      <4>3. e \in list
        BY <2>1, <3>3 DEF ServerAt
      <4>4. r # 0 /\ HeaderRead(w, r, n, server.got) /\ Len(server.got) = 2
        BY <4>3, <2>1, <3>3 DEF UpReader
      <4>5. r \in Nat /\ n \in Nat \ {0} /\ Stream(w, sent[e]) /\ sent[e] \in Seq(Nat)
        BY <1>0, <1>2
      <4>6. k <= Decoded2(server.got)
        BY <4>1, <2>4
      <4>7. /\ n <= Len(sent[e]) /\ Decoded2(server.got) = sent[e][n]
            /\ k = sent[e][n] => /\ SubSeq(w, r + 1, r + k) = Body(n, sent[e][n])
                                 /\ AtRest(w, r + k, n)
        <5> HIDE DEF r, n, w, b
        <5> QED BY <4>1, <4>2, <4>4, <4>5, <4>6, BodyFollows
      <4>8. b = Body(n, sent[e][n]) /\ AtRest(w, r + k, n)
        BY <4>7, <2>4
      <4> HIDE DEF b
      <4>9. Whole(passed'[e], sent[e]) /\ Len(passed'[e]) = n
        <5>1. Whole(passed[e], sent[e])
          BY DEF UpReader
        <5> QED BY <1>0, <1>2, <4>2, <4>7, <4>8, <5>1, WholeNext
      <4>10. r + k # 0
        BY <4>1, <4>5
      <4>11. e \in list' \cup hup' /\ server'.pc \notin {"second", "body"}
        BY <2>4, <3>1, <4>3
      <4> QED BY <1>1, <4>2, <4>8, <4>9, <4>10, <4>11 DEF UpReader
    <3> QED BY <3>2, <3>3
  <2> QED BY <1>8, <2>2, <2>3, <2>4 DEF ReadBody
<1> QED BY <1>3, <1>4, <1>5, <1>6, <1>7, <1>8 DEF ServerStep, Turn

LEMMA UpReaderInv ==
  ASSUME TunnelType, ServerAt, TunnelNext, \A c \in Client : UpWritten(c),
         NEW e \in Client, UpReader(e)
  PROVE  UpReader(e)'
<1>1. ASSUME UNCHANGED <<link, sent, up, upRead, passed, list, hup, server>> PROVE UpReader(e)'
  BY <1>1 DEF UpReader
<1>2. \A c \in Client, h \in Host : Disturb(c, h) =>
         UNCHANGED <<link, sent, up, upRead, passed, list, hup, server>>
  BY DEF Disturb, programVars, serverVars
<1>3. \A d \in net : Deliver(d) => UNCHANGED <<link, sent, up, upRead, passed, list, hup, server>>
  BY DEF Deliver, programVars, serverVars
<1> QED BY <1>1, <1>2, <1>3, UpReaderOfPrograms, UpReaderOfServer DEF TunnelNext

-----------------------------------------------------------------------------
(* Frames.                                                                 *)

LEMMA StreamInitially == TunnelInit => StreamInv
<1> SUFFICES ASSUME TunnelInit PROVE StreamInv
  OBVIOUS
<1> USE DEF TunnelInit
<1>1. ProgramTyped
  BY DEF ProgramTyped
<1>2. StreamsTyped
  BY DEF StreamsTyped
<1>3. ServerTyped
  <2>1. server \in Server
    BY DEF Server, Pcs, Ready, NothingReady
  <2> QED BY <2>1 DEF ServerTyped
<1>4. NetTyped
  BY DEF NetTyped
<1>5. ServerAt
  BY DEF ServerAt
<1>6. ASSUME NEW c \in Client
      PROVE  UpWritten(c) /\ DownWritten(c) /\ UpReader(c) /\ DownReader(c)
  <2>1. /\ up[c] = <<>> /\ down[c] = <<>> /\ sent[c] = <<>> /\ framed[c] = <<>>
        /\ passed[c] = <<>> /\ heard[c] = <<>> /\ got[c] = <<>> /\ ~writing[c]
        /\ upRead[c] = 0 /\ downRead[c] = 0 /\ link[c] = "none" /\ list = {}
    OBVIOUS
  <2>2. Sizes(c) = <<>>
    BY <2>1 DEF Sizes
  <2>3. Stream(<<>>, <<>>)
    BY DEF Stream, Bytes, InOrder, NoGap
  <2>4. Whole(<<>>, <<>>)
    BY DEF Whole
  <2> QED BY <2>1, <2>2, <2>3, <2>4 DEF UpWritten, DownWritten, UpReader, DownReader
<1> QED BY <1>1, <1>2, <1>3, <1>4, <1>5, <1>6 DEF StreamInv, TunnelType

LEMMA StreamStep ==
  ASSUME StreamInv, [TunnelNext]_tunnelVars PROVE StreamInv'
<1>1. CASE UNCHANGED tunnelVars
  <2> USE <1>1 DEF tunnelVars, programVars, serverVars
  <2>1. TunnelType' = TunnelType
    BY DEF TunnelType, ProgramTyped, StreamsTyped, ServerTyped, NetTyped
  <2>2. ServerAt' = ServerAt
    BY DEF ServerAt
  <2>3. ASSUME NEW c \in Client
        PROVE  /\ UpWritten(c)' = UpWritten(c) /\ DownWritten(c)' = DownWritten(c)
               /\ UpReader(c)' = UpReader(c) /\ DownReader(c)' = DownReader(c)
    <3>1. Sizes(c)' = Sizes(c)
      BY DEF Sizes
    <3>2. UpWritten(c)' = UpWritten(c)
      BY DEF UpWritten
    <3>3. DownWritten(c)' = DownWritten(c)
      BY <3>1 DEF DownWritten
    <3>4. UpReader(c)' = UpReader(c)
      BY DEF UpReader
    <3>5. DownReader(c)' = DownReader(c)
      BY <3>1 DEF DownReader
    <3> QED BY <3>2, <3>3, <3>4, <3>5
  <2> QED BY <2>1, <2>2, <2>3 DEF StreamInv
<1>2. CASE TunnelNext
  <2>1. TunnelType /\ ServerAt /\ \A c \in Client : UpWritten(c) /\ DownWritten(c) /\ UpReader(c) /\ DownReader(c)
    BY DEF StreamInv
  <2>2. StreamsTyped'
    BY <1>2, <2>1, StreamsTypedInv
  <2>3. TunnelType'
    BY <1>2, <2>1, <2>2, ProgramTypedInv, ServerTypedInv, NetTypedInv DEF TunnelType
  <2>4. ServerAt'
    BY <1>2, <2>1, ServerAtInv
  <2>5. ASSUME NEW c \in Client
        PROVE  (UpWritten(c) /\ DownWritten(c) /\ UpReader(c) /\ DownReader(c))'
    BY <1>2, <2>1, <2>2, UpWrittenInv, DownWrittenInv, UpReaderInv, DownReaderInv
  <2> QED BY <2>3, <2>4, <2>5 DEF StreamInv
<1> QED BY <1>1, <1>2

LEMMA StreamInvariant == TunnelSpec => []StreamInv
BY StreamInitially, StreamStep, PTL DEF TunnelSpec

(* Every packet that eb_tunnel_poll returns and every one that the server  *)
(* passes on is the next one that was given to it, whole, wherever recv    *)
(* cuts the stream and whoever closes a connection at whatever point.      *)
THEOREM FramesStayWhole == TunnelSpec => []FramesAreWhole
<1>1. StreamInv => FramesAreWhole
  BY DEF StreamInv, UpReader, DownReader, FramesAreWhole
<1> QED BY <1>1, StreamInvariant, PTL

-----------------------------------------------------------------------------
(* Datagrams.                                                              *)

LEMMA DatagramStep ==
  ASSUME StreamInv, DatagramInv, TunnelNext PROVE DatagramInv'
<1>0. /\ TunnelType /\ ServerAt
      /\ up \in [Client -> Seq(Byte)] /\ upRead \in [Client -> Nat]
      /\ link \in [Client -> {"none", "asking", "open", "closed"}]
      /\ list \subseteq Client /\ passed \in [Client -> Seq(Seq(Byte))]
      /\ dest \in [Client -> Host \cup {Nobody}] /\ box \in [Client -> SUBSET Datagram]
      /\ net \subseteq [client : Client, host : Host \cup {Nobody}, body : Seq(Byte)]
      /\ server.pc \in Pcs /\ Target \in [Client -> Host]
  BY Lengths DEF StreamInv, TunnelType, ProgramTyped, StreamsTyped, ServerTyped, NetTyped, Server
<1> DEFINE Dests == \A c \in list : dest[c] = Target[c] \/ (up[c] = <<>> /\ link[c] = "closed")
           Das == da \in {Nobody} \cup {Target[c] : c \in {e \in Client : Target[e] \in IPv4}}
           Nets == \A d \in net : d.host = Target[d.client]
           Boxes == \A c \in Client : \A p \in box[c] :
                      \/ p.host = Target[c] /\ p.answers \in 1..Len(passed[c])
                      \/ p.answers = 0 /\ <<c, p.host>> \in Stray
<1>1. Dests /\ Das /\ Nets /\ Boxes
  BY DEF DatagramInv
<1> USE DEF DatagramInv
\* Datagrams only go from the sockets.
<1>b. ASSUME \A c \in Client : box'[c] \subseteq box[c], UNCHANGED passed PROVE Boxes'
  BY <1>1, <1>b
<1>c. ASSUME list' \subseteq list, UNCHANGED <<dest, up, link>> PROVE Dests'
  BY <1>1, <1>c
<1>t. ASSUME NEW c \in Client, NEW fail, TurnEnds(c, fail)
      PROVE  list' \subseteq list /\ \A e \in Client : box'[e] \subseteq box[e]
  BY <1>0, <1>t DEF TurnEnds
<1>2. ASSUME Select \/ Accept \/ Serve PROVE DatagramInv'
  BY <1>1, <1>2, <1>b, <1>c DEF Select, Accept, Serve, programVars
<1>3. ASSUME NEW c \in Client, NewClient(c) PROVE DatagramInv'
  <2>2. UNCHANGED <<up, link, da, net, box, passed>>
    BY <1>3 DEF NewClient, programVars
  <2>3. server.at = {c} /\ c \notin list /\ c \notin hup
    BY <1>0, <1>3 DEF NewClient, ServerAt
  <2>4. CASE Refuse(c)
    BY <1>1, <2>2, <2>4 DEF Refuse
  <2>5. CASE Enlist(c, Target[c])
    <3>1. list' = list \cup {c} /\ dest'[c] = Target[c] /\ \A e \in Client \ {c} : dest'[e] = dest[e]
      BY <1>0, <2>5 DEF Enlist
    <3> QED BY <1>0, <1>1, <2>2, <2>3, <3>1
  <2>6. CASE Ended(c) /\ \E h \in Host : Enlist(c, h)
    <3>1. list' = list \cup {c} /\ \A e \in Client \ {c} : dest'[e] = dest[e]
      BY <1>0, <2>6 DEF Enlist
    <3>2. upRead[c] = 0
      BY <2>3 DEF StreamInv, UpReader
    <3>3. up[c] = <<>> /\ link[c] = "closed"
      <4>1. link[c] = "closed" /\ Len(up[c]) = 0
        BY <2>6, <3>2 DEF Ended
      <4>2. up[c] \in Seq(Byte)
        BY <1>0
      <4> QED BY <4>1, <4>2
    <3> QED BY <1>0, <1>1, <2>2, <2>3, <3>1, <3>3
  <2> QED BY <1>3, <2>4, <2>5, <2>6 DEF NewClient
<1>4. ASSUME NEW c \in Client, Poll4(c) \/ Poll6(c) \/ PolledDry(c) PROVE DatagramInv'
  <2>1. UNCHANGED <<list, dest, up, link, da, net, passed>>
    BY <1>4 DEF Poll4, Poll6, PolledDry, programVars
  <2>2. box' = box \/ \E p : box' = [box EXCEPT ![c] = @ \ {p}]
    BY <1>4 DEF Poll4, Poll6, PolledDry, FrameDatagram
  <2>3. \A e \in Client : box'[e] \subseteq box[e]
    BY <1>0, <2>2
  <2>4. Dests' /\ Boxes'
    BY <1>b, <1>c, <2>1, <2>3
  <2> QED BY <1>1, <2>1, <2>4
<1>5. ASSUME NEW c \in Client, ReadHeader(c) \/ ReadSecond(c) PROVE DatagramInv'
  <2>1. UNCHANGED <<dest, up, link, da, net, passed>>
    BY <1>5 DEF ReadHeader, ReadSecond, programVars
  <2>2. list' \subseteq list /\ \A e \in Client : box'[e] \subseteq box[e]
    BY <1>5, <1>t DEF ReadHeader, ReadSecond
  <2>3. Dests' /\ Boxes'
    BY <1>b, <1>c, <2>1, <2>2
  <2> QED BY <1>1, <2>1, <2>3
<1>6. ASSUME NEW c \in Client, ReadBody(c) PROVE DatagramInv'
  <2>1. UNCHANGED <<dest, up, link>>
    BY <1>6 DEF ReadBody, programVars
  <2>2. CASE (\E fail : TurnEnds(c, fail)) /\ UNCHANGED <<da, net, passed>>
    <3>1. Dests' /\ Boxes'
      BY <1>b, <1>c, <1>t, <2>1, <2>2
    <3> QED BY <1>1, <2>2, <3>1
  <2>3. ASSUME NEW k \in 1..Mtu, Receives(up[c], upRead[c], Decoded2(server.got), k),
               PassOn(c, ReadNow(c, k)), UNCHANGED <<hup, list, box>>
        PROVE  DatagramInv'
    <3>1. c \in list /\ server.at = {c}
      BY <1>0, <1>6 DEF ReadBody, Serving, ServerAt
    <3>2. up[c] # <<>>
      <4>1. k \in Nat \ {0} /\ Len(<<>>) = 0
        BY Lengths
      <4>2. upRead[c] + k <= Len(up[c]) /\ upRead[c] \in Nat
        BY <1>0, <2>3 DEF Receives
      <4> QED BY <4>1, <4>2
    <3>3. dest[c] = Target[c]
      BY <1>1, <3>1, <3>2
    <3>4. Das'
      BY <1>1, <2>3, <3>3 DEF PassOn
    <3>5. Nets'
      BY <1>1, <2>3, <3>3 DEF PassOn
    <3>6. \A e \in Client : Len(passed'[e]) >= Len(passed[e]) /\ Len(passed[e]) \in Nat
                            /\ Len(passed'[e]) \in Nat
      <4> DEFINE b == ReadNow(c, k)
      <4> HIDE DEF b
      <4>1. passed' = [passed EXCEPT ![c] = Append(@, b)]
        BY <2>3 DEF PassOn, b
      <4>2. ASSUME NEW e \in Client
            PROVE  Len(Append(passed[e], b)) = Len(passed[e]) + 1 /\ Len(passed[e]) \in Nat
        BY <1>0
      <4> QED BY <1>0, <4>1, <4>2
    <3>7. Boxes'
      <4>1. \A e \in Client : 1..Len(passed[e]) \subseteq 1..Len(passed'[e])
        BY <3>6
      <4> QED BY <1>1, <2>3, <4>1
    <3>8. Dests'
      BY <1>c, <2>1, <2>3
    <3> QED BY <3>4, <3>5, <3>7, <3>8
  <2> QED BY <1>6, <2>2, <2>3 DEF ReadBody
<1>7. ASSUME NEW c \in Client, ProgramStep(c) PROVE DatagramInv'
  <2>1. UNCHANGED <<list, dest, da, net, passed, box>>
    BY <1>7 DEF ProgramStep, Connect, SendName, SendHeader, SendBody, Close, PollHeader, PollSecond,
         PollBody, PollEnds, serverVars
  <2>2. \A e \in Client : link[e] = "closed" => link'[e] = "closed" /\ up'[e] = up[e]
    BY <1>0, <1>7 DEF ProgramStep, Connect, SendName, SendHeader, SendBody, Close, PollHeader,
         PollSecond, PollBody, PollEnds
  <2>3. Dests'
    BY <1>0, <1>1, <2>1, <2>2
  <2> QED BY <1>1, <2>1, <2>3
<1>8. ASSUME NEW c \in Client, NEW h \in Host, Disturb(c, h) PROVE DatagramInv'
  <2>1. UNCHANGED <<list, dest, up, link, da, net, passed>>
    BY <1>8 DEF Disturb, programVars, serverVars
  <2>2. PICK size \in Length :
          box' = [box EXCEPT ![c] = @ \cup {[answers |-> 0, size |-> size, host |-> h]}]
    BY <1>8 DEF Disturb
  <2>3. <<c, h>> \in Stray
    BY <1>8 DEF Disturb
  <2>4. Boxes'
    <3> SUFFICES ASSUME NEW e \in Client, NEW p \in box'[e]
                 PROVE  \/ p.host = Target[e] /\ p.answers \in 1..Len(passed[e])
                        \/ p.answers = 0 /\ <<e, p.host>> \in Stray
      BY <2>1
    <3>1. p \in box[e] \/ (e = c /\ p = [answers |-> 0, size |-> size, host |-> h])
      BY <1>0, <2>2
    <3> QED BY <1>1, <2>3, <3>1
  <2>5. Dests'
    BY <1>c, <2>1
  <2> QED BY <1>1, <2>1, <2>4, <2>5
<1>9. ASSUME NEW d \in net, Deliver(d) PROVE DatagramInv'
  <2>1. UNCHANGED <<list, dest, up, link, da, passed>> /\ net' \subseteq net
    BY <1>9 DEF Deliver, programVars, serverVars
  <2>2. Boxes'
    <3>1. CASE UNCHANGED box
      BY <1>b, <2>1, <3>1
    <3>2. ASSUME NEW n \in 1..Len(passed[d.client]), NEW answer \in Length,
                 box' = [box EXCEPT ![d.client] = @ \cup
                           {[answers |-> n, size |-> answer, host |-> d.host]}]
          PROVE  Boxes'
      <4>1. d.client \in Client /\ d.host = Target[d.client]
        BY <1>0, <1>1
      <4> SUFFICES ASSUME NEW e \in Client, NEW p \in box'[e]
                   PROVE  \/ p.host = Target[e] /\ p.answers \in 1..Len(passed[e])
                          \/ p.answers = 0 /\ <<e, p.host>> \in Stray
        BY <2>1
      <4>2. p \in box[e] \/ (e = d.client /\ p = [answers |-> n, size |-> answer, host |-> d.host])
        BY <1>0, <3>2
      <4> QED BY <1>1, <4>1, <4>2
    <3> QED BY <1>9, <3>1, <3>2 DEF Deliver
  <2>3. Dests'
    BY <1>c, <2>1
  <2> QED BY <1>1, <2>1, <2>2, <2>3
<1> QED BY <1>2, <1>3, <1>4, <1>5, <1>6, <1>7, <1>8, <1>9 DEF TunnelNext, ServerStep, Turn

\* Whom the server frames a datagram for, and what it is an answer to.
LEMMA OnlyItsDeviceStep ==
  ASSUME StreamInv, DatagramInv, OnlyItsDevice, TunnelNext PROVE OnlyItsDevice'
<1> SUFFICES ASSUME OneDevice', NEW c \in Client, NEW i \in DOMAIN framed'[c]
             PROVE  /\ framed'[c][i].host = Target[c]
                    /\ framed'[c][i].answers \in 1..Len(passed'[c])
  BY DEF OnlyItsDevice
<1>0. /\ framed \in [Client -> Seq(Datagram)] /\ passed \in [Client -> Seq(Seq(Byte))]
      /\ box \in [Client -> SUBSET Datagram] /\ Target \in [Client -> Host]
      /\ Len(passed[c]) \in Nat
  BY Lengths DEF StreamInv, TunnelType, ServerTyped, NetTyped
<1>1. OneDevice
  BY DEF OneDevice
<1>2. \A j \in DOMAIN framed[c] : framed[c][j].host = Target[c] /\ framed[c][j].answers \in 1..Len(passed[c])
  BY <1>1 DEF OnlyItsDevice
<1>3. passed'[c] = passed[c] \/ \E b : passed'[c] = Append(passed[c], b)
  <2>1. ASSUME NEW e \in Client, NEW b, PassOn(e, b)
        PROVE  passed'[c] = passed[c] \/ passed'[c] = Append(passed[c], b)
    BY <1>0, <2>1 DEF PassOn
  <2>2. UNCHANGED passed \/ \E e \in Client : \E b : PassOn(e, b)
    <3>1. ASSUME NEW e \in Client, ReadBody(e) PROVE UNCHANGED passed \/ \E b : PassOn(e, b)
      BY <3>1, Zenon DEF ReadBody
    <3>2. \A e \in Client : ReadHeader(e) \/ ReadSecond(e) \/ Poll4(e) \/ Poll6(e) \/ PolledDry(e)
                            \/ NewClient(e) => UNCHANGED passed
      BY DEF ReadHeader, ReadSecond, Poll4, Poll6, PolledDry, NewClient
    <3>3. Select \/ Accept \/ Serve => UNCHANGED passed
      BY DEF Select, Accept, Serve
    <3>4. \A e \in Client : ProgramStep(e) => UNCHANGED passed
      BY DEF ProgramStep, Connect, SendName, SendHeader, SendBody, Close, PollHeader, PollSecond,
         PollBody, PollEnds, serverVars
    <3>5. \A e \in Client, h \in Host : Disturb(e, h) => UNCHANGED passed
      BY DEF Disturb, serverVars
    <3>6. \A d \in net : Deliver(d) => UNCHANGED passed
      BY DEF Deliver, serverVars
    <3> QED BY <3>1, <3>2, <3>3, <3>4, <3>5, <3>6 DEF TunnelNext, ServerStep, Turn
  <2> QED BY <2>1, <2>2
<1>4. 1..Len(passed[c]) \subseteq 1..Len(passed'[c])
  <2>1. \A b : Len(Append(passed[c], b)) = Len(passed[c]) + 1
    BY <1>0
  <2> QED BY <1>0, <1>3, <2>1
<1>5. CASE framed'[c] = framed[c]
  BY <1>2, <1>4, <1>5
<1>6. ASSUME NEW p \in box[c], framed'[c] = Append(framed[c], p),
             p.host = Target[c], p.answers \in 1..Len(passed[c])
      PROVE  /\ framed'[c][i].host = Target[c]
             /\ framed'[c][i].answers \in 1..Len(passed'[c])
  <2>1. framed[c] \in Seq(Datagram) /\ p \in Datagram
    BY <1>0
  <2>2. framed'[c][i] = p \/ (i \in DOMAIN framed[c] /\ framed'[c][i] = framed[c][i])
    BY <1>6, <2>1
  <2> QED BY <1>2, <1>4, <1>6, <2>2
<1>7. ASSUME NEW p \in box[c], p.host \in IPv4 => Solicited(p.host)
      PROVE  p.host = Target[c] /\ p.answers \in 1..Len(passed[c])
  <2>1. CASE p.answers = 0 /\ <<c, p.host>> \in Stray
    <3>1. p.host \in IPv4 /\ Text[p.host] # Text[Nobody] /\ \A e \in Client : Text[p.host] # Text[Target[e]]
      BY <1>1, <2>1 DEF OneDevice
    <3>2. Text[da] = Text[p.host]
      BY <1>7, <3>1 DEF Solicited
    <3>3. da = Nobody \/ \E e \in Client : da = Target[e]
      BY DEF DatagramInv
    <3> QED BY <3>1, <3>2, <3>3
  <2>2. CASE p.host = Target[c] /\ p.answers \in 1..Len(passed[c])
    BY <2>2
  <2> QED BY <2>1, <2>2 DEF DatagramInv
<1>8. ASSUME NEW e \in Client, Poll4(e) \/ Poll6(e)
      PROVE  /\ framed'[c][i].host = Target[c]
             /\ framed'[c][i].answers \in 1..Len(passed'[c])
  <2>1. CASE UNCHANGED framed
    BY <1>5, <2>1
  <2>2. CASE \E p \in box[e] : FrameDatagram(e, p) /\ (p.host \in IPv4 => Solicited(p.host))
    <3>1. PICK p \in box[e] : FrameDatagram(e, p) /\ (p.host \in IPv4 => Solicited(p.host))
      BY <2>2
    <3>2. CASE e # c
      <4>1. framed'[c] = framed[c]
        BY <1>0, <3>1, <3>2 DEF FrameDatagram
      <4> QED BY <1>5, <4>1
    <3>3. CASE e = c
      <4>1. framed'[c] = Append(framed[c], p)
        BY <1>0, <3>1, <3>3 DEF FrameDatagram
      <4> QED BY <1>6, <1>7, <3>1, <3>3, <4>1
    <3> QED BY <3>2, <3>3
  <2>3. Poll6(e) => \E p \in box[e] : FrameDatagram(e, p) /\ (p.host \in IPv4 => Solicited(p.host))
    BY DEF Poll6, Arrived, Family
  <2>4. Poll4(e) => \/ UNCHANGED framed
                    \/ \E p \in box[e] : FrameDatagram(e, p) /\ (p.host \in IPv4 => Solicited(p.host))
    BY DEF Poll4, Arrived
  <2> QED BY <1>8, <2>1, <2>2, <2>3, <2>4
<1>9. CASE UNCHANGED framed
  BY <1>5, <1>9
<1> QED BY <1>8, <1>9 DEF TunnelNext, ServerStep, Select, Accept, Serve, NewClient, Turn, PolledDry,
     ReadHeader, ReadSecond, ReadBody, ProgramStep, Connect, SendName, SendHeader, SendBody,
     Close, PollHeader, PollSecond, PollBody, PollEnds, Disturb, Deliver, serverVars

(* When the clients with IPv4 devices all use one, every datagram that the *)
(* server frames for a program comes from its device and answers a packet  *)
(* that was passed on: no stray one gets by eb_posix_udp_poll's check.     *)
THEOREM OnlyItsDeviceAnswers == TunnelSpec => []OnlyItsDevice
<1>1. TunnelInit => DatagramInv /\ OnlyItsDevice
  BY DEF TunnelInit, DatagramInv, OnlyItsDevice
<1>2. ASSUME StreamInv, DatagramInv, OnlyItsDevice, [TunnelNext]_tunnelVars
      PROVE  DatagramInv' /\ OnlyItsDevice'
  <2>1. CASE TunnelNext
    BY <1>2, <2>1, DatagramStep, OnlyItsDeviceStep
  <2>2. CASE UNCHANGED tunnelVars
    BY <1>2, <2>2 DEF DatagramInv, OnlyItsDevice, OneDevice, tunnelVars, programVars, serverVars
  <2> QED BY <1>2, <2>1, <2>2
<1> QED BY <1>1, <1>2, StreamInvariant, PTL DEF TunnelSpec

=============================================================================
