-------------------------- MODULE ObjectEventsProofs --------------------------
(***************************************************************************)
(* Proofs about what waits for its turn in a queue of bounded size: the events*)
(* of the scheduler (ObjectEvents) and, in the second half, the sounds of the*)
(* manager with its cache and its channels (SoundManager).                 *)
(*                                                                         *)
(* Of the scheduler: that the two rings, the delayed table and its count are*)
(* sound, that no record that will be read names a deleted object, and that*)
(* they keep the promise of EventQueues, for any capacity, objects and delays.*)
(***************************************************************************)
EXTENDS ObjectEvents, SoundManager, SequenceFilterProofs, SequenceTheorems,
        FiniteSetTheorems, FunctionTheorems, TLAPS

-----------------------------------------------------------------------------
(* Positions in a ring *)

LEMMA Wrapped ==
  /\ \A a \in 0 .. Capacity - 1 : a % Capacity = a
  /\ \A a \in Capacity .. 2 * Capacity - 1 : a % Capacity = a - Capacity
  BY SizesAssumption

\* The next position.
LEMMA FollowingIs ==
  ASSUME NEW i \in Slots
  PROVE  /\ Following(i) = IF i = Capacity - 1 THEN 0 ELSE i + 1
         /\ Following(i) \in Slots
<1>1. i + 1 \in 0 .. Capacity - 1 \/ i + 1 = Capacity
  BY SizesAssumption DEF Slots
<1>2. Capacity \in Capacity .. 2 * Capacity - 1
  BY SizesAssumption
<1>3. Following(i) = IF i = Capacity - 1 THEN 0 ELSE i + 1
  BY <1>1, <1>2, Wrapped, SizesAssumption DEF Following, Slots
<1> QED  BY <1>3, SizesAssumption DEF Slots

\* The position of the record at place i after `read`.
At(read, i) == (read + i - 1) % Capacity
LEMMA AtIs ==
  ASSUME NEW read \in Slots, NEW i \in 1 .. Capacity
  PROVE  /\ At(read, i) = IF read + i - 1 < Capacity THEN read + i - 1 ELSE read + i - 1 - Capacity
         /\ At(read, i) \in Slots
<1> DEFINE a == read + i - 1
<1>1. a \in 0 .. Capacity - 1 \/ a \in Capacity .. 2 * Capacity - 1
  BY SizesAssumption DEF Slots
<1>2. At(read, i) = a % Capacity
  BY DEF At
<1>3. At(read, i) = IF a < Capacity THEN a ELSE a - Capacity
  <2> HIDE DEF a
  <2>1. CASE a \in 0 .. Capacity - 1
    BY <2>1, <1>2, Wrapped, SizesAssumption
  <2>2. CASE a \in Capacity .. 2 * Capacity - 1
    BY <2>2, <1>2, Wrapped, SizesAssumption
  <2> QED  BY <1>1, <2>1, <2>2
<1> QED  BY <1>3, SizesAssumption DEF Slots

LEMMA CountIs ==
  ASSUME NEW read \in Slots, NEW write \in Slots
  PROVE  /\ RingCount(read, write) \in 0 .. Capacity - 1
         /\ RingCount(read, write) = 0 <=> read = write
         /\ RingCount(read, write) = Capacity - 1 <=> Following(write) = read
  BY FollowingIs, SizesAssumption DEF RingCount, Slots

\* What waits in a ring.
LEMMA LiveIs ==
  ASSUME NEW ring \in [Slots -> Event], NEW read \in Slots, NEW write \in Slots
  PROVE  /\ Live(ring, read, write) \in Seq(Event)
         /\ Len(Live(ring, read, write)) = RingCount(read, write)
         /\ \A i \in 1 .. RingCount(read, write) :
              At(read, i) \in Slots /\ Live(ring, read, write)[i] = ring[At(read, i)]
<1> DEFINE n == RingCount(read, write)
<1>1. n \in 0 .. Capacity - 1
  BY CountIs
<1>2. \A i \in 1 .. n : i \in 1 .. Capacity
  BY <1>1, SizesAssumption
<1> HIDE DEF n
<1>3. \A i \in 1 .. n : At(read, i) \in Slots
  BY <1>2, AtIs
<1>4. Live(ring, read, write) = [i \in 1 .. n |-> ring[At(read, i)]]
  BY DEF Live, At, n
<1>5. Live(ring, read, write) \in [1 .. n -> Event]
  BY <1>3, <1>4
<1>6. n \in Nat
  BY <1>1
<1>7. Live(ring, read, write) \in Seq(Event) /\ Len(Live(ring, read, write)) = n
  BY <1>5, <1>6
<1> QED  BY <1>3, <1>4, <1>7 DEF n

\* The place of a position: what Compacted asks.
LEMMA PlaceIs ==
  ASSUME NEW read \in Slots, NEW i \in 1 .. Capacity
  PROVE  ((At(read, i) + Capacity - read) % Capacity) + 1 = i
<1> DEFINE p == At(read, i)  a == p + Capacity - read
<1>1. p = (IF read + i - 1 < Capacity THEN read + i - 1 ELSE read + i - 1 - Capacity)
  BY AtIs
<1>2. a = i - 1 + Capacity \/ a = i - 1
  BY <1>1, SizesAssumption DEF Slots
<1>3. a % Capacity = i - 1
  <2> HIDE DEF a
  <2>1. CASE a = i - 1
    <3>1. a \in 0 .. Capacity - 1
      BY <2>1, SizesAssumption
    <3> QED  BY <3>1, <2>1, Wrapped
  <2>2. CASE a = i - 1 + Capacity
    <3>1. a \in Capacity .. 2 * Capacity - 1 /\ a - Capacity = i - 1
      BY <2>2, SizesAssumption
    <3> QED  BY <3>1, Wrapped
  <2> QED  BY <1>2, <2>1, <2>2
<1> QED  BY <1>3

\* A record is stored behind the others.
LEMMA RingAppends ==
  ASSUME NEW ring \in [Slots -> Event], NEW read \in Slots, NEW write \in Slots, NEW e \in Event,
         Following(write) # read
  PROVE  /\ Live([ring EXCEPT ![write] = e], read, Following(write)) = Append(Live(ring, read, write), e)
         /\ Len(Live(ring, read, write)) < Capacity - 1
         /\ [ring EXCEPT ![write] = e] \in [Slots -> Event] /\ Following(write) \in Slots
<1> DEFINE r == [ring EXCEPT ![write] = e]  w == Following(write)
           n == RingCount(read, write)  m == RingCount(read, w)
           old == Live(ring, read, write)  new == Live(r, read, w)
<1>1. r \in [Slots -> Event] /\ w \in Slots /\ r[write] = e
      /\ \A i \in Slots : i # write => r[i] = ring[i]
  BY FollowingIs
<1>2. w = IF write = Capacity - 1 THEN 0 ELSE write + 1
  BY FollowingIs
<1>3. n \in 0 .. Capacity - 2
  BY CountIs, SizesAssumption
<1>4. m = n + 1
  <2> HIDE DEF w
  <2> QED  BY <1>1, <1>2, SizesAssumption DEF RingCount, Slots, w
<1> HIDE DEF r, w
<1>5. old \in Seq(Event) /\ Len(old) = n
      /\ \A i \in 1 .. n : At(read, i) \in Slots /\ old[i] = ring[At(read, i)]
  BY LiveIs
<1>6. new \in Seq(Event) /\ Len(new) = m
      /\ \A i \in 1 .. m : At(read, i) \in Slots /\ new[i] = r[At(read, i)]
  BY <1>1, LiveIs
<1> HIDE DEF old, new, m
<1>7. /\ Append(old, e) \in Seq(Event) /\ Len(Append(old, e)) = n + 1
      /\ \A i \in 1 .. n : Append(old, e)[i] = old[i]
      /\ Append(old, e)[n + 1] = e
  BY <1>5, AppendProperties
<1>8. ASSUME NEW i \in 1 .. n + 1 PROVE new[i] = Append(old, e)[i]
  <2>1. i \in 1 .. Capacity /\ i \in 1 .. m
    BY <1>3, <1>4, SizesAssumption
  <2>2. At(read, i) \in Slots
        /\ At(read, i) = IF read + i - 1 < Capacity THEN read + i - 1 ELSE read + i - 1 - Capacity
    BY <2>1, AtIs
  <2>3. At(read, i) = write <=> i = n + 1
    BY <2>2, <1>3, SizesAssumption DEF RingCount, Slots, n
  <2>4. CASE i = n + 1
    BY <2>1, <2>3, <2>4, <1>1, <1>6, <1>7
  <2>5. CASE i # n + 1
    <3>1. i \in 1 .. n
      BY <2>5, <1>3
    <3> QED  BY <3>1, <2>1, <2>2, <2>3, <2>5, <1>1, <1>5, <1>6, <1>7
  <2> QED  BY <2>4, <2>5
<1>9. new = Append(old, e)
  BY <1>4, <1>6, <1>7, <1>8, SeqEqual
<1>10. Len(old) < Capacity - 1
  BY <1>3, <1>5, SizesAssumption
<1> QED  BY <1>1, <1>9, <1>10 DEF old, new, r, w

\* The first record is taken.
LEMMA RingTakes ==
  ASSUME NEW ring \in [Slots -> Event], NEW read \in Slots, NEW write \in Slots, read # write
  PROVE  /\ Live(ring, read, write) # <<>> /\ Live(ring, read, write) \in Seq(Event)
         /\ Head(Live(ring, read, write)) = ring[read]
         /\ Live(ring, Following(read), write) = Tail(Live(ring, read, write))
         /\ Following(read) \in Slots
<1> DEFINE w == Following(read)
           n == RingCount(read, write)  m == RingCount(w, write)
           old == Live(ring, read, write)  new == Live(ring, w, write)
<1>1. w \in Slots /\ w = IF read = Capacity - 1 THEN 0 ELSE read + 1
  BY FollowingIs
<1>2. n \in 1 .. Capacity - 1
  BY CountIs, SizesAssumption
<1>3. m = n - 1
  <2> HIDE DEF w
  <2> QED  BY <1>1, SizesAssumption DEF RingCount, Slots
<1> HIDE DEF w
<1>4. old \in Seq(Event) /\ Len(old) = n
      /\ \A i \in 1 .. n : At(read, i) \in Slots /\ old[i] = ring[At(read, i)]
  BY LiveIs
<1>5. new \in Seq(Event) /\ Len(new) = m
      /\ \A i \in 1 .. m : At(w, i) \in Slots /\ new[i] = ring[At(w, i)]
  BY <1>1, LiveIs
<1> HIDE DEF old, new, m
<1>6. old # <<>>
  BY <1>2, <1>4
<1>7. Head(old) = ring[read]
  <2>1. At(read, 1) = read
    <3>1. 1 \in 1 .. Capacity
      BY SizesAssumption
    <3> QED  BY <3>1, AtIs, SizesAssumption DEF Slots
  <2>2. 1 \in 1 .. n /\ Head(old) = old[1]
    BY <1>2, <1>4, <1>6
  <2> QED  BY <2>1, <2>2, <1>4
<1>8. /\ Tail(old) \in Seq(Event) /\ Len(Tail(old)) = n - 1
      /\ \A i \in 1 .. n - 1 : Tail(old)[i] = old[i + 1]
  <2>1. Tail(old) \in Seq(Event) /\ Len(Tail(old)) = Len(old) - 1
        /\ \A i \in 1 .. Len(Tail(old)) : Tail(old)[i] = old[i + 1]
    BY <1>4, <1>6, HeadTailProperties, Zenon
  <2> QED  BY <2>1, <1>4
<1>9. ASSUME NEW i \in 1 .. n - 1 PROVE new[i] = Tail(old)[i]
  <2>1. i \in 1 .. Capacity /\ i + 1 \in 1 .. Capacity /\ i + 1 \in 1 .. n /\ i \in 1 .. m
    BY <1>2, <1>3, SizesAssumption
  <2>2. At(w, i) = IF w + i - 1 < Capacity THEN w + i - 1 ELSE w + i - 1 - Capacity
    BY <1>1, <2>1, AtIs
  <2>3. At(read, i + 1) = IF read + (i + 1) - 1 < Capacity THEN read + (i + 1) - 1
                          ELSE read + (i + 1) - 1 - Capacity
    BY <2>1, AtIs
  <2>4. At(w, i) = At(read, i + 1)
    BY <2>1, <2>2, <2>3, <1>1, <1>2, SizesAssumption DEF Slots
  <2> QED  BY <2>1, <2>4, <1>4, <1>5, <1>8
<1>10. new = Tail(old)
  BY <1>3, <1>5, <1>8, <1>9, SeqEqual
<1> QED  BY <1>1, <1>4, <1>6, <1>7, <1>10 DEF old, new, w

\* The ring is rebuilt in place from what is kept of it.
LEMMA RingCompacts ==
  ASSUME NEW ring \in [Slots -> Event], NEW read \in Slots, NEW write \in Slots,
         NEW kept \in Seq(Event), Len(kept) <= RingCount(read, write)
  PROVE  /\ Live(Compacted(ring, read, kept), read, (read + Len(kept)) % Capacity) = kept
         /\ Compacted(ring, read, kept) \in [Slots -> Event]
         /\ (read + Len(kept)) % Capacity \in Slots
         /\ \A i \in Slots : Following(i) = read => Compacted(ring, read, kept)[i] = ring[i]
<1> DEFINE n == Len(kept)  r == Compacted(ring, read, kept)  w == (read + n) % Capacity
           place(i) == ((i + Capacity - read) % Capacity) + 1
<1>1. n \in 0 .. Capacity - 1 /\ n \in Nat
  BY CountIs, SizesAssumption
<1>2. w \in Slots /\ w = IF read + n < Capacity THEN read + n ELSE read + n - Capacity
  <2>1. n + 1 \in 1 .. Capacity /\ read + (n + 1) - 1 = read + n
    BY <1>1, SizesAssumption DEF Slots
  <2>2. w = At(read, n + 1)
    BY <2>1 DEF At
  <2> HIDE DEF n, w
  <2>3. /\ At(read, n + 1) \in Slots
        /\ At(read, n + 1) = IF read + (n + 1) - 1 < Capacity THEN read + (n + 1) - 1
                             ELSE read + (n + 1) - 1 - Capacity
    BY <2>1, AtIs
  <2>4. w \in Slots /\ w = IF read + (n + 1) - 1 < Capacity THEN read + (n + 1) - 1
                           ELSE read + (n + 1) - 1 - Capacity
    BY <2>2, <2>3
  <2> QED  BY <2>4, <1>1, SizesAssumption DEF Slots
<1>3. ASSUME NEW i \in Slots PROVE place(i) \in Nat /\ place(i) >= 1
  BY SizesAssumption DEF Slots
<1>4. \A i \in Slots : r[i] = IF place(i) <= n THEN kept[place(i)] ELSE ring[i]
  BY DEF Compacted
<1>5. ASSUME NEW i \in Slots PROVE r[i] \in Event
  <2>1. CASE place(i) <= n
    <3> HIDE DEF r
    <3>1. place(i) \in 1 .. n
      BY <2>1, <1>1, <1>3
    <3> HIDE DEF place
    <3>2. r[i] = kept[place(i)]
      BY <2>1, <1>4
    <3> QED  BY <3>1, <3>2
  <2>2. CASE ~(place(i) <= n)
    BY <2>2, <1>4
  <2> QED  BY <2>1, <2>2
<1>6. r \in [Slots -> Event]
  BY <1>5 DEF Compacted
<1>7. RingCount(read, w) = n
  <2> HIDE DEF w, n
  <2> QED  BY <1>1, <1>2, SizesAssumption DEF RingCount, Slots
<1>8. Live(r, read, w) \in Seq(Event) /\ Len(Live(r, read, w)) = n
      /\ \A i \in 1 .. n : At(read, i) \in Slots /\ Live(r, read, w)[i] = r[At(read, i)]
  <2> HIDE DEF r, w, n
  <2>1. /\ Live(r, read, w) \in Seq(Event) /\ Len(Live(r, read, w)) = RingCount(read, w)
        /\ \A i \in 1 .. RingCount(read, w) :
             At(read, i) \in Slots /\ Live(r, read, w)[i] = r[At(read, i)]
    BY <1>2, <1>6, LiveIs
  <2> QED  BY <2>1, <1>7
<1>9. ASSUME NEW i \in 1 .. n PROVE Live(r, read, w)[i] = kept[i]
  <2>1. i \in 1 .. Capacity
    BY <1>1, SizesAssumption
  <2>2. place(At(read, i)) = i
    BY <2>1, PlaceIs
  <2> HIDE DEF place, r, w, n
  <2>3. i <= n
    BY <1>1
  <2> QED  BY <2>2, <2>3, <1>4, <1>8
<1>10. Live(r, read, w) = kept
  <2> HIDE DEF r, w
  <2> QED  BY <1>8, <1>9, SeqEqual
<1>11. ASSUME NEW i \in Slots, Following(i) = read PROVE r[i] = ring[i]
  <2>1. i = At(read, Capacity)
    <3>1. Capacity \in 1 .. Capacity
      BY SizesAssumption
    <3>2. At(read, Capacity) = IF read + Capacity - 1 < Capacity THEN read + Capacity - 1
                               ELSE read + Capacity - 1 - Capacity
      BY <3>1, AtIs
    <3>3. read = IF i = Capacity - 1 THEN 0 ELSE i + 1
      BY <1>11, FollowingIs
    <3> QED  BY <3>2, <3>3, SizesAssumption DEF Slots
  <2>2. place(i) = Capacity
    <3>1. Capacity \in 1 .. Capacity
      BY SizesAssumption
    <3> QED  BY <3>1, <2>1, PlaceIs
  <2> HIDE DEF place, r, n
  <2>3. ~(Capacity <= n)
    BY <1>1, SizesAssumption
  <2> QED  BY <2>2, <2>3, <1>4
<1> QED  BY <1>2, <1>6, <1>10, <1>11

-----------------------------------------------------------------------------
(* The delayed table *)

\* The records that wait, as EventQueues sees them.
Pending == {delayed_events[i] : i \in ActiveSlots}

LEMMA ActiveAre ==
  /\ IsFiniteSet(Slots) /\ Cardinality(Slots) = Capacity
  /\ IsFiniteSet(ActiveSlots) /\ Cardinality(ActiveSlots) \in 0 .. Capacity
  /\ ActiveSlots \subseteq Slots
  /\ Cardinality(ActiveSlots) = Capacity => ActiveSlots = Slots
<1>1. IsFiniteSet(Slots) /\ Cardinality(Slots) = Capacity
  <2>1. 0 \in Int /\ Capacity - 1 \in Int /\ ~(0 > Capacity - 1) /\ (Capacity - 1) - 0 + 1 = Capacity
    BY SizesAssumption
  <2> QED  BY <2>1, FS_Interval DEF Slots
<1>2. ActiveSlots \in SUBSET Slots
  BY DEF ActiveSlots
<1>3. IsFiniteSet(ActiveSlots) /\ Cardinality(ActiveSlots) <= Cardinality(Slots)
      /\ (Cardinality(Slots) = Cardinality(ActiveSlots) => Slots = ActiveSlots)
  BY <1>1, <1>2, FS_Subset
<1>4. Cardinality(ActiveSlots) \in Nat
  BY <1>3, FS_CardinalityType
<1> QED  BY <1>1, <1>2, <1>3, <1>4, SizesAssumption

\* With a right count the scan and the inspection of a save see every record.
LEMMA ScanSeesAll ==
  ASSUME CountIsActive
  PROVE  /\ \A i \in ActiveSlots : ActiveBefore(i) < delayed_event_count
         /\ Inspected = ActiveSlots
         /\ DueSlots = {i \in ActiveSlots : delayed_events[i].due_world_tick <= world_tick}
<1>1. ASSUME NEW i \in ActiveSlots PROVE ActiveBefore(i) < delayed_event_count
  <2> DEFINE B == {j \in ActiveSlots : j < i}
  <2>1. IsFiniteSet(ActiveSlots) /\ Cardinality(ActiveSlots) \in Nat /\ ActiveSlots \subseteq Nat
    BY ActiveAre, SizesAssumption DEF Slots
  <2>2. B \in SUBSET ActiveSlots /\ B # ActiveSlots
    BY <2>1
  <2>3. IsFiniteSet(B) /\ Cardinality(B) <= Cardinality(ActiveSlots)
        /\ Cardinality(ActiveSlots) # Cardinality(B)
    BY <2>1, <2>2, FS_Subset
  <2>4. Cardinality(B) \in Nat
    BY <2>3, FS_CardinalityType
  <2>5. ActiveBefore(i) = Cardinality(B)
    BY DEF ActiveBefore
  <2> QED  BY <2>1, <2>3, <2>4, <2>5 DEF CountIsActive
<1> QED  BY <1>1 DEF Inspected, DueSlots

\* A record is put in a slot that is not active.
LEMMA SlotFilled ==
  ASSUME DOMAIN delayed_events = Slots, NEW f \in Slots \ ActiveSlots, NEW r, r.due_world_tick # 0,
         delayed_events' = [delayed_events EXCEPT ![f] = r]
  PROVE  /\ ActiveSlots' = ActiveSlots \cup {f}
         /\ Cardinality(ActiveSlots') = Cardinality(ActiveSlots) + 1
         /\ Pending' = Pending \cup {r}
         /\ delayed_events'[f] = r /\ \A i \in Slots : i # f => delayed_events'[i] = delayed_events[i]
<1>1. delayed_events'[f] = r /\ \A i \in Slots : i # f => delayed_events'[i] = delayed_events[i]
  OBVIOUS
<1>2. ActiveSlots' = {i \in Slots : delayed_events'[i].due_world_tick # 0}
      /\ ActiveSlots = {i \in Slots : delayed_events[i].due_world_tick # 0}
  BY DEF ActiveSlots, Active
<1>3. ActiveSlots' = ActiveSlots \cup {f}
  BY <1>1, <1>2
<1>4. Cardinality(ActiveSlots \cup {f}) = Cardinality(ActiveSlots) + 1
  BY ActiveAre, FS_AddElement
<1>5. Pending' = {delayed_events'[i] : i \in ActiveSlots \cup {f}}
  BY <1>3 DEF Pending
<1>6. ActiveSlots \subseteq Slots /\ \A i \in ActiveSlots : i # f
  BY <1>2
<1>7. Pending' = Pending \cup {r}
  BY <1>1, <1>5, <1>6 DEF Pending
<1> QED  BY <1>1, <1>3, <1>4, <1>7

\* Records are taken out of the table: their slots are marked.
LEMMA SlotsFreed ==
  ASSUME delayed_events \in [Slots -> [event : Event, due_world_tick : 0 .. MaxTick]],
         NEW gone, gone \subseteq ActiveSlots,
         delayed_events' = [i \in Slots |-> IF i \in gone THEN [delayed_events[i] EXCEPT !.due_world_tick = 0]
                                            ELSE delayed_events[i]]
  PROVE  /\ ActiveSlots' = ActiveSlots \ gone
         /\ Cardinality(ActiveSlots') = Cardinality(ActiveSlots) - Cardinality(gone)
         /\ Pending' = {delayed_events[i] : i \in ActiveSlots \ gone}
         /\ delayed_events' \in [Slots -> [event : Event, due_world_tick : 0 .. MaxTick]]
         /\ \A i \in Slots \ gone : delayed_events'[i] = delayed_events[i]
<1>1. ASSUME NEW i \in Slots
      PROVE  /\ delayed_events'[i] \in [event : Event, due_world_tick : 0 .. MaxTick]
             /\ i \in gone => delayed_events'[i].due_world_tick = 0
             /\ i \notin gone => delayed_events'[i] = delayed_events[i]
  BY SizesAssumption
<1>2. ActiveSlots' = {i \in Slots : delayed_events'[i].due_world_tick # 0}
      /\ ActiveSlots = {i \in Slots : delayed_events[i].due_world_tick # 0}
  BY DEF ActiveSlots, Active
<1>3. ActiveSlots' = ActiveSlots \ gone
  BY <1>1, <1>2
<1>4. /\ IsFiniteSet(ActiveSlots) /\ IsFiniteSet(gone) /\ IsFiniteSet(ActiveSlots \ gone)
      /\ Cardinality(ActiveSlots) \in Nat
      /\ Cardinality(gone) \in Nat /\ Cardinality(ActiveSlots \ gone) \in Nat
  BY ActiveAre, FS_Subset, FS_CardinalityType
<1>5. Cardinality(ActiveSlots) = Cardinality(ActiveSlots \ gone) + Cardinality(gone)
  <2>1. (ActiveSlots \ gone) \cup gone = ActiveSlots /\ (ActiveSlots \ gone) \cap gone = {}
    OBVIOUS
  <2>2. Cardinality((ActiveSlots \ gone) \cup gone)
          = Cardinality(ActiveSlots \ gone) + Cardinality(gone) - Cardinality((ActiveSlots \ gone) \cap gone)
    BY <1>4, FS_Union
  <2>3. Cardinality((ActiveSlots \ gone) \cap gone) = 0
    BY <2>1, FS_EmptySet
  <2> QED  BY ONLY <2>1, <2>2, <2>3, <1>4
<1>6. Pending' = {delayed_events'[i] : i \in ActiveSlots \ gone}
  BY <1>3 DEF Pending
<1>7. \A i \in ActiveSlots \ gone : delayed_events'[i] = delayed_events[i]
  BY <1>1, <1>2
<1>8. Pending' = {delayed_events[i] : i \in ActiveSlots \ gone}
  BY <1>6, <1>7
<1>9. delayed_events' \in [Slots -> [event : Event, due_world_tick : 0 .. MaxTick]]
  BY <1>1
<1> QED  BY <1>1, <1>3, <1>4, <1>5, <1>8, <1>9

\* The free slot and the due one are slots of that kind.
LEMMA FirstIs ==
  ASSUME NEW S, S \subseteq Slots, S # {}
  PROVE  (CHOOSE i \in S : \A j \in S : i <= j) \in S
<1>1. S \subseteq Nat
  BY SizesAssumption DEF Slots
<1>2. \E i \in S : \A j \in S : i <= j
  BY <1>1, LeastIn, Zenon
<1> QED  BY <1>2

-----------------------------------------------------------------------------
(* The inductive invariant *)

Rings ==
  /\ immediate_events \in [Slots -> Event] /\ immediate_read \in Slots /\ immediate_write \in Slots
  /\ creature_stimuli \in [Slots -> Event] /\ stimulus_read \in Slots /\ stimulus_write \in Slots

\* The count is right and no two delayed events have the same serial number.
Table ==
  /\ delayed_events \in [Slots -> [event : Event, due_world_tick : 0 .. MaxTick]]
  /\ CountIsActive
  /\ \A i \in ActiveSlots : delayed_events[i].event.argument <= queued
  /\ \A i, j \in ActiveSlots :
       delayed_events[i].event.argument = delayed_events[j].event.argument => i = j

\* The event a handler has lies in the record just before the ring's.
Handling ==
  /\ phase \in {"idle", "next", "handling"}
  /\ handled \in [event : Event, slot : Slots, queue : {"none", "immediate", "delayed"}]
  /\ phase = "handling" => handled.event.source \in Objects
  /\ phase # "handling" => handled = Nothing
  /\ handled.queue = "immediate" => /\ Following(handled.slot) = immediate_read
                                    /\ immediate_events[handled.slot] = handled.event

World ==
  /\ world_tick \in 0 .. MaxTick /\ queued \in 0 .. MaxEvents
  /\ objects \subseteq Objects /\ ticking \subseteq objects

\* Both objects of an event exist.
Exist(e) == e.source \in objects /\ e.target \in objects
Present ==
  /\ \A i \in 1 .. Len(Immediate) : Exist(Immediate[i])
  /\ \A i \in 1 .. Len(Stimuli) : Exist(Stimuli[i])
  /\ \A i \in ActiveSlots : Exist(delayed_events[i].event)

EventsInv == Rings /\ Table /\ Handling /\ World /\ Present

LEMMA NoEventIs ==
  /\ NoEvent \in Event /\ NoEvent.source = Nobody /\ Nobody \notin Objects
  /\ Nothing.event = NoEvent /\ Nothing.queue = "none" /\ Nothing.slot = 0
  BY ObjectsAssumption, SizesAssumption DEF NoEvent, Event, EventIds, Nothing

\* The two rings as sequences.
LEMMA QueuesAre ==
  ASSUME Rings
  PROVE  /\ Immediate \in Seq(Event) /\ Stimuli \in Seq(Event)
         /\ DOMAIN Immediate = 1 .. Len(Immediate) /\ DOMAIN Stimuli = 1 .. Len(Stimuli)
         /\ Len(Immediate) = RingCount(immediate_read, immediate_write)
         /\ Len(Stimuli) = RingCount(stimulus_read, stimulus_write)
         /\ Len(Immediate) \in 0 .. Capacity - 1 /\ Len(Stimuli) \in 0 .. Capacity - 1
         /\ Immediate = <<>> <=> immediate_read = immediate_write
<1>1. /\ Immediate \in Seq(Event) /\ Len(Immediate) = RingCount(immediate_read, immediate_write)
      /\ Stimuli \in Seq(Event) /\ Len(Stimuli) = RingCount(stimulus_read, stimulus_write)
  BY LiveIs DEF Rings, Immediate, Stimuli
<1>2. Immediate = <<>> <=> Len(Immediate) = 0
  BY <1>1, EmptySeq
<1>3. /\ RingCount(immediate_read, immediate_write) \in 0 .. Capacity - 1
      /\ RingCount(stimulus_read, stimulus_write) \in 0 .. Capacity - 1
      /\ RingCount(immediate_read, immediate_write) = 0 <=> immediate_read = immediate_write
  BY CountIs DEF Rings
<1> QED  BY <1>1, <1>2, <1>3

\* What the invariant says in the words of the properties.
LEMMA InvMeans ==
  ASSUME EventsInv
  PROVE  RecordsSound /\ NoDanglingRecord
<1>1. CountIsActive /\ HeldEventStands
  BY DEF EventsInv, Table, Handling, HeldEventStands
<1>2. delayed_event_count \in 0 .. Capacity
  BY <1>1, ActiveAre DEF CountIsActive
<1>3. TypeOK
  BY <1>2 DEF EventsInv, Rings, Table, Handling, World, TypeOK
<1>4. NoDanglingRecord
  BY QueuesAre DEF EventsInv, Present, Exist, NoDanglingRecord
<1> QED  BY <1>1, <1>3, <1>4 DEF RecordsSound

-----------------------------------------------------------------------------
(* What the steps do to the queues, in the words of EventQueues *)

LEMMA StepUnseen ==
  ASSUME Immediate' = Immediate, Pending' = Pending, Stimuli' = Stimuli,
         UNCHANGED <<phaseVars, worldVars>>
  PROVE  UNCHANGED Queues!vars
  BY DEF Queues!vars, Queues!queues, Pending, phaseVars, worldVars

LEMMA ImmediateSame ==
  ASSUME UNCHANGED immediateVars
  PROVE  Immediate' = Immediate
  BY DEF immediateVars, Immediate

LEMMA StimuliSame ==
  ASSUME UNCHANGED stimulusVars
  PROVE  Stimuli' = Stimuli
  BY DEF stimulusVars, Stimuli

LEMMA TableSame ==
  ASSUME UNCHANGED delayedVars
  PROVE  Pending' = Pending /\ ActiveSlots' = ActiveSlots
  BY DEF delayedVars, Pending, ActiveSlots, Active

\* No more records wait than slots are active.
LEMMA PendingFit == Cardinality(Pending) <= Cardinality(ActiveSlots) /\ IsFiniteSet(Pending)
<1> DEFINE f == [i \in ActiveSlots |-> delayed_events[i]]
<1>1. f \in [ActiveSlots -> Pending] /\ \A d \in Pending : \E i \in ActiveSlots : f[i] = d
  BY DEF Pending
<1> HIDE DEF f
<1>2. f \in Surjection(ActiveSlots, Pending)
  BY <1>1, Fun_IsSurj
<1> QED  BY <1>2, ActiveAre, FS_Surjection

\* An event just made.
LEMMA NewEventIs ==
  ASSUME EventsInv, Counted, NEW source \in objects, NEW target \in objects, NEW id \in EventIds
  PROVE  /\ NewEvent(source, target, id) \in Event
         /\ NewEvent(source, target, id) \in Queues!Event
         /\ Exist(NewEvent(source, target, id))
         /\ NewEvent(source, target, id).argument = queued + 1
         /\ queued' = queued + 1 /\ queued' \in 0 .. MaxEvents /\ queued \in Nat
<1>1. queued + 1 \in 1 .. MaxEvents /\ queued + 1 \in 0 .. MaxEvents /\ queued \in Nat
      /\ queued' = queued + 1
  BY SizesAssumption DEF EventsInv, World, Counted
<1>2. source \in Objects /\ target \in Objects
  BY DEF EventsInv, World
<1> QED  BY <1>1, <1>2 DEF NewEvent, Event, Queues!Event, Exist

\* The record a handler has is not the one a producer writes.
LEMMA HeldStands ==
  ASSUME EventsInv, NEW e \in Event, UNCHANGED <<phaseVars, immediate_read>>,
         Following(immediate_write) # immediate_read,
         immediate_events' = [immediate_events EXCEPT ![immediate_write] = e]
  PROVE  Handling'
<1>1. handled.queue = "immediate" =>
        /\ Following(handled.slot) = immediate_read
        /\ immediate_events[handled.slot] = handled.event
        /\ handled.slot \in Slots /\ handled.slot # immediate_write
  BY DEF EventsInv, Handling
<1>2. handled.queue = "immediate" => immediate_events'[handled.slot] = handled.event
  BY <1>1 DEF EventsInv, Rings
<1> QED  BY <1>1, <1>2 DEF EventsInv, Handling, phaseVars

LEMMA HandlingSame ==
  ASSUME Handling, UNCHANGED <<phaseVars, immediate_events, immediate_read>>
  PROVE  Handling'
  BY DEF Handling, phaseVars

LEMMA TableStays ==
  ASSUME Table, UNCHANGED delayedVars, queued \in Nat, queued' \in Nat, queued' >= queued
  PROVE  Table'
<1>1. /\ delayed_events' = delayed_events /\ delayed_event_count' = delayed_event_count
      /\ ActiveSlots' = ActiveSlots
  BY TableSame DEF delayedVars
<1>2. CountIsActive'
  BY <1>1 DEF CountIsActive, Table
<1>3. ASSUME NEW i \in ActiveSlots PROVE delayed_events[i].event.argument <= queued'
  <2>1. delayed_events[i].event.argument \in Nat /\ delayed_events[i].event.argument <= queued
    BY ActiveAre DEF Table, Event
  <2> QED  BY <2>1
<1> QED  BY <1>1, <1>2, <1>3 DEF Table

LEMMA QueueImmediateKeeps ==
  ASSUME EventsInv, NEW source \in objects, NEW target \in objects, NEW id \in EventIds,
         QueueImmediate(source, target, id)
  PROVE  EventsInv' /\ [Queues!Next]_(Queues!vars)
<1> DEFINE e == NewEvent(source, target, id)
<1>1. /\ e \in Event /\ e \in Queues!Event /\ Exist(e)
      /\ queued' = queued + 1 /\ queued' \in 0 .. MaxEvents /\ queued \in Nat
  BY NewEventIs DEF QueueImmediate
<1>2. UNCHANGED <<delayedVars, stimulusVars, phaseVars, worldVars>>
  BY DEF QueueImmediate
<1>3. Rings /\ Table /\ Handling /\ World /\ Present
  BY DEF EventsInv
<1>4. World' /\ Table'
  <2>1. queued' \in Nat /\ queued' >= queued
    BY <1>1
  <2> QED  BY <2>1, <1>1, <1>2, <1>3, TableStays DEF World, worldVars
<1>5. Stimuli' = Stimuli /\ Pending' = Pending /\ ActiveSlots' = ActiveSlots
      /\ delayed_events' = delayed_events /\ objects' = objects
  BY <1>2, StimuliSame, TableSame DEF delayedVars, worldVars
<1> HIDE DEF e
<1>6. CASE Following(immediate_write) = immediate_read
  <2>1. UNCHANGED immediateVars
    BY <1>6 DEF QueueImmediate
  <2>2. Immediate' = Immediate
    BY <2>1, ImmediateSame
  <2>3. Rings' /\ Handling'
    BY <2>1, <1>2, <1>3, HandlingSame DEF immediateVars, stimulusVars, Rings
  <2>4. Present'
    BY <2>2, <1>3, <1>5 DEF Present, Exist
  <2>5. UNCHANGED Queues!vars
    BY <2>2, <1>2, <1>5, StepUnseen
  <2> QED  BY <2>3, <2>4, <2>5, <1>4 DEF EventsInv
<1>7. CASE Following(immediate_write) # immediate_read
  <2>1. /\ immediate_events' = [immediate_events EXCEPT ![immediate_write] = e]
        /\ immediate_write' = Following(immediate_write) /\ immediate_read' = immediate_read
    BY <1>7 DEF QueueImmediate, e
  <2>2. /\ Live([immediate_events EXCEPT ![immediate_write] = e], immediate_read,
                Following(immediate_write))
             = Append(Live(immediate_events, immediate_read, immediate_write), e)
        /\ Len(Live(immediate_events, immediate_read, immediate_write)) < Capacity - 1
        /\ [immediate_events EXCEPT ![immediate_write] = e] \in [Slots -> Event]
        /\ Following(immediate_write) \in Slots
    BY <1>1, <1>3, <1>7, RingAppends DEF Rings
  <2>3. Immediate' = Append(Immediate, e) /\ Len(Immediate) < Capacity - 1
    BY <2>1, <2>2 DEF Immediate
  <2>4. Rings'
    BY <2>1, <2>2, <1>2, <1>3 DEF Rings, stimulusVars
  <2>5. Handling'
    BY <2>1, <1>1, <1>2, <1>7, HeldStands
  <2>6. Immediate \in Seq(Event)
    BY <1>3, QueuesAre
  <2>7. Present'
    <3>1. /\ Len(Append(Immediate, e)) = Len(Immediate) + 1 /\ Len(Immediate) \in Nat
          /\ \A i \in 1 .. Len(Immediate) : Append(Immediate, e)[i] = Immediate[i]
          /\ Append(Immediate, e)[Len(Immediate) + 1] = e
      BY <2>6, <1>1, AppendProperties
    <3>2. \A i \in 1 .. Len(Immediate) + 1 : i \in 1 .. Len(Immediate) \/ i = Len(Immediate) + 1
      BY <3>1
    <3>3. \A i \in 1 .. Len(Immediate') : Exist(Immediate'[i])
      BY <2>3, <3>1, <3>2, <1>1, <1>3 DEF Present
    <3> QED  BY <3>3, <1>3, <1>5 DEF Present, Exist
  <2>8. Queues!Queue
    BY <2>3, <1>1, <1>2, <1>5 DEF Queues!Queue, phaseVars, worldVars, Pending
  <2> QED  BY <2>4, <2>5, <2>7, <2>8, <1>4 DEF EventsInv, Queues!Next
<1> QED  BY <1>6, <1>7

LEMMA QueueStimulusKeeps ==
  ASSUME EventsInv, NEW source \in objects, NEW creature \in objects,
         QueueStimulus(source, creature)
  PROVE  EventsInv' /\ [Queues!Next]_(Queues!vars)
<1> DEFINE e == NewEvent(source, creature, "other")
<1>1. /\ e \in Event /\ e \in Queues!Event /\ Exist(e)
      /\ queued' = queued + 1 /\ queued' \in 0 .. MaxEvents /\ queued \in Nat
  <2>1. "other" \in EventIds /\ Counted
    BY DEF EventIds, QueueStimulus
  <2> QED  BY <2>1, NewEventIs
<1>2. UNCHANGED <<immediateVars, delayedVars, phaseVars, worldVars>>
  BY DEF QueueStimulus
<1>3. Rings /\ Table /\ Handling /\ World /\ Present
  BY DEF EventsInv
<1>4. World' /\ Table' /\ Handling'
  <2>1. queued' \in Nat /\ queued' >= queued
    BY <1>1
  <2>2. World' /\ Table'
    BY <2>1, <1>1, <1>2, <1>3, TableStays DEF World, worldVars
  <2> QED  BY <2>2, <1>2, <1>3, HandlingSame DEF immediateVars
<1>5. Immediate' = Immediate /\ Pending' = Pending /\ ActiveSlots' = ActiveSlots
      /\ delayed_events' = delayed_events /\ objects' = objects
  BY <1>2, ImmediateSame, TableSame DEF delayedVars, worldVars
<1> HIDE DEF e
<1>6. CASE Following(stimulus_write) = stimulus_read
  <2>1. UNCHANGED stimulusVars
    BY <1>6 DEF QueueStimulus
  <2>2. Stimuli' = Stimuli
    BY <2>1, StimuliSame
  <2>3. Rings'
    BY <2>1, <1>2, <1>3 DEF immediateVars, stimulusVars, Rings
  <2>4. Present'
    BY <2>2, <1>3, <1>5 DEF Present, Exist
  <2>5. UNCHANGED Queues!vars
    BY <2>2, <1>2, <1>5, StepUnseen
  <2> QED  BY <2>3, <2>4, <2>5, <1>4 DEF EventsInv
<1>7. CASE Following(stimulus_write) # stimulus_read
  <2>1. /\ creature_stimuli' = [creature_stimuli EXCEPT ![stimulus_write] = e]
        /\ stimulus_write' = Following(stimulus_write) /\ stimulus_read' = stimulus_read
    BY <1>7 DEF QueueStimulus, e
  <2>2. /\ Live([creature_stimuli EXCEPT ![stimulus_write] = e], stimulus_read,
                Following(stimulus_write))
             = Append(Live(creature_stimuli, stimulus_read, stimulus_write), e)
        /\ Len(Live(creature_stimuli, stimulus_read, stimulus_write)) < Capacity - 1
        /\ [creature_stimuli EXCEPT ![stimulus_write] = e] \in [Slots -> Event]
        /\ Following(stimulus_write) \in Slots
    BY <1>1, <1>3, <1>7, RingAppends DEF Rings
  <2>3. Stimuli' = Append(Stimuli, e) /\ Len(Stimuli) < Capacity - 1
    BY <2>1, <2>2 DEF Stimuli
  <2>4. Rings'
    BY <2>1, <2>2, <1>2, <1>3 DEF Rings, immediateVars
  <2>6. Stimuli \in Seq(Event)
    BY <1>3, QueuesAre
  <2>7. Present'
    <3>1. /\ Len(Append(Stimuli, e)) = Len(Stimuli) + 1 /\ Len(Stimuli) \in Nat
          /\ \A i \in 1 .. Len(Stimuli) : Append(Stimuli, e)[i] = Stimuli[i]
          /\ Append(Stimuli, e)[Len(Stimuli) + 1] = e
      BY <2>6, <1>1, AppendProperties
    <3>2. \A i \in 1 .. Len(Stimuli) + 1 : i \in 1 .. Len(Stimuli) \/ i = Len(Stimuli) + 1
      BY <3>1
    <3>3. \A i \in 1 .. Len(Stimuli') : Exist(Stimuli'[i])
      BY <2>3, <3>1, <3>2, <1>1, <1>3 DEF Present
    <3> QED  BY <3>3, <1>3, <1>5 DEF Present, Exist
  <2>8. Queues!Stimulate
    BY <2>3, <1>1, <1>2, <1>5 DEF Queues!Stimulate, phaseVars, worldVars, Pending
  <2> QED  BY <2>4, <2>7, <2>8, <1>4 DEF EventsInv, Queues!Next
<1> QED  BY <1>6, <1>7

LEMMA SameCardinality == \A S : Queues!Cardinality(S) = Cardinality(S)
  BY DEF Queues!Cardinality, Cardinality

LEMMA QueueDelayedKeeps ==
  ASSUME EventsInv, NEW source \in objects, NEW target \in objects, NEW delay \in Delays,
         QueueDelayed(source, target, delay)
  PROVE  EventsInv' /\ [Queues!Next]_(Queues!vars)
<1> DEFINE e == NewEvent(source, target, "other")
           r == [event |-> e, due_world_tick |-> world_tick + delay]  f == FirstFree
<1>1. /\ e \in Event /\ e \in Queues!Event /\ Exist(e) /\ e.argument = queued + 1
      /\ queued' = queued + 1 /\ queued' \in 0 .. MaxEvents /\ queued \in Nat
  <2>1. "other" \in EventIds /\ Counted
    BY DEF EventIds, QueueDelayed
  <2> QED  BY <2>1, NewEventIs
<1>2. UNCHANGED <<immediateVars, stimulusVars, phaseVars, worldVars>>
  BY DEF QueueDelayed
<1>3. Rings /\ Table /\ Handling /\ World /\ Present
  BY DEF EventsInv
<1>4. World' /\ Handling' /\ Rings'
  BY <1>1, <1>2, <1>3, HandlingSame DEF World, worldVars, immediateVars, stimulusVars, Rings
<1>5. Immediate' = Immediate /\ Stimuli' = Stimuli /\ objects' = objects
  BY <1>2, ImmediateSame, StimuliSame DEF worldVars
<1>6. CASE UNCHANGED delayedVars
  <2>1. Pending' = Pending /\ ActiveSlots' = ActiveSlots /\ delayed_events' = delayed_events
    BY <1>6, TableSame DEF delayedVars
  <2>2. Present'
    BY <2>1, <1>3, <1>5 DEF Present, Exist
  <2>3. Table'
    BY <1>1, <1>3, <1>6, TableStays
  <2>4. UNCHANGED Queues!vars
    BY <2>1, <1>2, <1>5, StepUnseen
  <2> QED  BY <2>2, <2>3, <2>4, <1>4 DEF EventsInv
<1>7. CASE ~UNCHANGED delayedVars
  <2>1. /\ delayed_event_count # Capacity /\ ActiveSlots # Slots
        /\ delayed_events' = [delayed_events EXCEPT ![f] = r]
        /\ delayed_event_count' = delayed_event_count + 1
    BY <1>7 DEF QueueDelayed
  <2>2. f \in Slots \ ActiveSlots
    <3>1. Slots \ ActiveSlots \subseteq Slots /\ Slots \ ActiveSlots # {}
      BY <2>1, ActiveAre
    <3> QED  BY <3>1, FirstIs DEF FirstFree
  <2>3. world_tick + delay \in 0 .. MaxTick /\ world_tick + delay > world_tick
        /\ world_tick + delay # 0
    BY <1>3, SizesAssumption DEF World, QueueDelayed
  <2>4. r \in [event : Event, due_world_tick : 0 .. MaxTick] /\ r.event = e /\ r.due_world_tick # 0
        /\ r.due_world_tick > world_tick
    BY <2>3, <1>1
  <2> HIDE DEF r, f, e
  <2>5. /\ ActiveSlots' = ActiveSlots \cup {f}
        /\ Cardinality(ActiveSlots') = Cardinality(ActiveSlots) + 1
        /\ Pending' = Pending \cup {r}
        /\ delayed_events'[f] = r /\ \A i \in Slots : i # f => delayed_events'[i] = delayed_events[i]
    <3>1. DOMAIN delayed_events = Slots
      BY <1>3 DEF Table
    <3> QED  BY <3>1, <2>1, <2>2, <2>4, SlotFilled
  <2>6. ActiveSlots \subseteq Slots /\ f \notin ActiveSlots
    BY <2>2, ActiveAre
  <2>7. \A i \in ActiveSlots : /\ delayed_events'[i] = delayed_events[i]
                               /\ delayed_events[i].event.argument \in Nat
                               /\ delayed_events[i].event.argument <= queued
                               /\ delayed_events[i].event.argument # queued + 1
    <3>1. \A i \in ActiveSlots : /\ delayed_events'[i] = delayed_events[i]
                                 /\ delayed_events[i].event.argument <= queued
                                 /\ delayed_events[i].event.argument \in Nat
      BY <2>5, <2>6, <1>3 DEF Table, Event
    <3> QED  BY <3>1, <1>1
  <2>8. Table'
    <3>1. delayed_events' \in [Slots -> [event : Event, due_world_tick : 0 .. MaxTick]]
      BY <2>1, <2>2, <2>4, <1>3 DEF Table
    <3>2. CountIsActive'
      BY <2>1, <2>5, <1>3 DEF CountIsActive, Table
    <3>3. \A i \in ActiveSlots' : delayed_events'[i].event.argument <= queued'
      BY <2>4, <2>5, <2>7, <1>1
    <3>4. ASSUME NEW i \in ActiveSlots', NEW j \in ActiveSlots',
                 delayed_events'[i].event.argument = delayed_events'[j].event.argument
          PROVE  i = j
      <4>1. delayed_events'[f].event.argument = queued + 1
        BY <2>4, <2>5, <1>1
      <4>2. i \in ActiveSlots \/ i = f
        BY <2>5
      <4>3. j \in ActiveSlots \/ j = f
        BY <2>5
      <4> QED  BY <4>1, <4>2, <4>3, <3>4, <2>7, <1>3 DEF Table
    <3> QED  BY <3>1, <3>2, <3>3, <3>4 DEF Table
  <2>9. Present'
    BY <2>4, <2>5, <2>7, <1>1, <1>3, <1>5 DEF Present, Exist
  <2>10. r \notin Pending
    BY <2>4, <2>7, <1>1 DEF Pending
  <2>11. Cardinality(Pending) < Capacity
    <3>1. Cardinality(ActiveSlots) < Capacity /\ Cardinality(ActiveSlots) \in Nat
      BY <2>1, ActiveAre, SizesAssumption
    <3>2. Cardinality(Pending) \in Nat /\ Cardinality(Pending) <= Cardinality(ActiveSlots)
      BY PendingFit, FS_CardinalityType
    <3> QED  BY <3>1, <3>2, SizesAssumption
  <2>12. Queues!Delay
    <3>1. r \in Pending' \ Pending
      BY <2>5, <2>10
    <3>2. /\ Cardinality({delayed_events[i] : i \in ActiveSlots}) < Capacity
          /\ r \in {delayed_events[i] : i \in ActiveSlots}' \ {delayed_events[i] : i \in ActiveSlots}
          /\ {delayed_events[i] : i \in ActiveSlots}' = {delayed_events[i] : i \in ActiveSlots} \cup {r}
      BY <3>1, <2>5, <2>11 DEF Pending
    <3>3. r.event \in Queues!Event /\ r.due_world_tick > world_tick
      BY <2>4, <1>1
    <3>4. UNCHANGED <<Immediate, Stimuli, handled.event, phase # "idle", world_tick, objects, ticking>>
      BY <1>2, <1>5 DEF phaseVars, worldVars
    <3>5. \E d \in {delayed_events[i] : i \in ActiveSlots}' \ {delayed_events[i] : i \in ActiveSlots} :
            /\ {delayed_events[i] : i \in ActiveSlots}' = {delayed_events[i] : i \in ActiveSlots} \cup {d}
            /\ d.event \in Queues!Event /\ d.due_world_tick > world_tick
      BY <3>2, <3>3
    <3>6. Queues!Cardinality({delayed_events[i] : i \in ActiveSlots}) < Capacity
      BY <3>2, SameCardinality
    <3> QED  BY <3>4, <3>5, <3>6, Zenon DEF Queues!Delay
  <2> QED  BY <2>8, <2>9, <2>12, <1>4 DEF EventsInv, Queues!Next
<1> QED  BY <1>6, <1>7

-----------------------------------------------------------------------------
(* What is taken back, and what goes with an object *)

\* The elements of a filtered sequence are elements of the sequence.
LEMMA KeptIs ==
  ASSUME NEW s \in Seq(Event), NEW gone
  PROVE  /\ Without(s, gone) \in Seq(Event) /\ Len(Without(s, gone)) \in 0 .. Len(s)
         /\ \A i \in 1 .. Len(Without(s, gone)) :
              /\ Without(s, gone)[i] \notin gone
              /\ \E j \in 1 .. Len(s) : s[j] = Without(s, gone)[i]
<1>1. Without(s, gone) \in Seq(Event)
  BY WithoutIsSeq, Zenon
<1>2. Len(Without(s, gone)) \in 0 .. Len(s)
  BY WithoutShortens, Zenon
<1>3. ASSUME NEW i \in 1 .. Len(Without(s, gone))
      PROVE  /\ Without(s, gone)[i] \notin gone
             /\ \E j \in 1 .. Len(s) : s[j] = Without(s, gone)[i]
  <2>1. \A y : (\E j \in 1 .. Len(Without(s, gone)) : Without(s, gone)[j] = y)
          <=> y \notin gone /\ \E j \in 1 .. Len(s) : s[j] = y
    BY WithoutKeeps, Zenon
  <2> QED  BY <2>1, Zenon
<1> QED  BY <1>1, <1>2, <1>3

\* EventQueues filters its sequences the same way.
LEMMA SameFilter ==
  ASSUME NEW s
  PROVE  Queues!ToSet(s) = ToSet(s) /\ \A gone : Queues!Without(s, gone) = Without(s, gone)
  BY DEF Queues!ToSet, ToSet, Queues!Without, Without

\* The immediate ring is compacted: what a handler holds stays as it was.
LEMMA ImmediateCompacted ==
  ASSUME EventsInv, NEW gone, UNCHANGED <<phaseVars, immediate_read>>,
         immediate_events' = Compacted(immediate_events, immediate_read, Without(Immediate, gone)),
         immediate_write' = (immediate_read + Len(Without(Immediate, gone))) % Capacity
  PROVE  /\ Immediate' = Without(Immediate, gone)
         /\ immediate_events' \in [Slots -> Event] /\ immediate_write' \in Slots
         /\ Handling'
         /\ \A i \in 1 .. Len(Immediate') :
              /\ Immediate'[i] \notin gone
              /\ \E j \in 1 .. Len(Immediate) : Immediate[j] = Immediate'[i]
<1> DEFINE kept == Without(Immediate, gone)
<1>1. Rings /\ Handling /\ Immediate \in Seq(Event)
      /\ Len(Immediate) = RingCount(immediate_read, immediate_write)
  BY QueuesAre DEF EventsInv
<1>2. /\ kept \in Seq(Event) /\ Len(kept) \in 0 .. Len(Immediate)
      /\ \A i \in 1 .. Len(kept) : kept[i] \notin gone /\ \E j \in 1 .. Len(Immediate) : Immediate[j] = kept[i]
  BY <1>1, KeptIs
<1> HIDE DEF kept
<1>3. Len(kept) <= RingCount(immediate_read, immediate_write)
  BY <1>1, <1>2
<1>4. /\ Live(Compacted(immediate_events, immediate_read, kept), immediate_read,
              (immediate_read + Len(kept)) % Capacity) = kept
      /\ Compacted(immediate_events, immediate_read, kept) \in [Slots -> Event]
      /\ (immediate_read + Len(kept)) % Capacity \in Slots
      /\ \A i \in Slots : Following(i) = immediate_read =>
           Compacted(immediate_events, immediate_read, kept)[i] = immediate_events[i]
  BY <1>1, <1>2, <1>3, RingCompacts DEF Rings
<1>5. immediate_events' = Compacted(immediate_events, immediate_read, kept)
      /\ immediate_write' = (immediate_read + Len(kept)) % Capacity /\ immediate_read' = immediate_read
  BY DEF kept
<1>6. Immediate' = kept
  BY <1>4, <1>5 DEF Immediate
<1>7. Handling'
  <2>1. handled' = handled /\ phase' = phase /\ immediate_read' = immediate_read
    BY DEF phaseVars
  <2>2. handled.slot \in Slots
    BY <1>1 DEF Handling
  <2>3. handled.queue = "immediate" => immediate_events'[handled.slot] = handled.event
    BY <2>2, <1>1, <1>4, <1>5 DEF Handling
  <2> QED  BY <2>1, <2>3, <1>1 DEF Handling
<1> QED  BY <1>2, <1>4, <1>5, <1>6, <1>7 DEF kept

\* The ring of the stimuli is compacted.
LEMMA StimuliCompacted ==
  ASSUME EventsInv, NEW gone, UNCHANGED stimulus_read,
         creature_stimuli' = Compacted(creature_stimuli, stimulus_read, Without(Stimuli, gone)),
         stimulus_write' = (stimulus_read + Len(Without(Stimuli, gone))) % Capacity
  PROVE  /\ Stimuli' = Without(Stimuli, gone)
         /\ creature_stimuli' \in [Slots -> Event] /\ stimulus_write' \in Slots
         /\ \A i \in 1 .. Len(Stimuli') :
              /\ Stimuli'[i] \notin gone
              /\ \E j \in 1 .. Len(Stimuli) : Stimuli[j] = Stimuli'[i]
<1> DEFINE kept == Without(Stimuli, gone)
<1>1. Rings /\ Stimuli \in Seq(Event) /\ Len(Stimuli) = RingCount(stimulus_read, stimulus_write)
  BY QueuesAre DEF EventsInv
<1>2. /\ kept \in Seq(Event) /\ Len(kept) \in 0 .. Len(Stimuli)
      /\ \A i \in 1 .. Len(kept) : kept[i] \notin gone /\ \E j \in 1 .. Len(Stimuli) : Stimuli[j] = kept[i]
  BY <1>1, KeptIs
<1> HIDE DEF kept
<1>3. Len(kept) <= RingCount(stimulus_read, stimulus_write)
  BY <1>1, <1>2
<1>4. /\ Live(Compacted(creature_stimuli, stimulus_read, kept), stimulus_read,
              (stimulus_read + Len(kept)) % Capacity) = kept
      /\ Compacted(creature_stimuli, stimulus_read, kept) \in [Slots -> Event]
      /\ (stimulus_read + Len(kept)) % Capacity \in Slots
  BY <1>1, <1>2, <1>3, RingCompacts DEF Rings
<1>5. creature_stimuli' = Compacted(creature_stimuli, stimulus_read, kept)
      /\ stimulus_write' = (stimulus_read + Len(kept)) % Capacity /\ stimulus_read' = stimulus_read
  BY DEF kept
<1>6. Stimuli' = kept
  BY <1>4, <1>5 DEF Stimuli
<1> QED  BY <1>2, <1>4, <1>5, <1>6 DEF kept

LEMMA CancelKeeps ==
  ASSUME EventsInv, NEW source \in objects, CancelImmediateFrom(source)
  PROVE  EventsInv' /\ [Queues!Next]_(Queues!vars)
<1> DEFINE gone == {event \in ToSet(Immediate) :
                      event.source = source /\ event.event_id = "event_4"}
<1>1. /\ immediate_events' = Compacted(immediate_events, immediate_read, Without(Immediate, gone))
      /\ immediate_write' = (immediate_read + Len(Without(Immediate, gone))) % Capacity
      /\ UNCHANGED <<immediate_read, delayedVars, stimulusVars, phaseVars, worldVars, queued>>
  BY DEF CancelImmediateFrom
<1>2. Rings /\ Table /\ World /\ Present
  BY DEF EventsInv
<1> HIDE DEF gone
<1>3. /\ Immediate' = Without(Immediate, gone)
      /\ immediate_events' \in [Slots -> Event] /\ immediate_write' \in Slots /\ Handling'
      /\ \A i \in 1 .. Len(Immediate') :
           \E j \in 1 .. Len(Immediate) : Immediate[j] = Immediate'[i]
  BY <1>1, ImmediateCompacted
<1>4. Stimuli' = Stimuli /\ Pending' = Pending /\ ActiveSlots' = ActiveSlots
      /\ delayed_events' = delayed_events /\ objects' = objects
  BY <1>1, StimuliSame, TableSame DEF delayedVars, worldVars
<1>5. Rings'
  BY <1>1, <1>2, <1>3 DEF Rings, stimulusVars
<1>6. World' /\ Table'
  <2>1. queued \in Nat /\ queued' = queued /\ queued' >= queued
    BY <1>1, <1>2 DEF World
  <2> QED  BY <2>1, <1>1, <1>2, TableStays DEF World, worldVars
<1>7. Present'
  BY <1>2, <1>3, <1>4 DEF Present, Exist
<1>8. Queues!TakeBack(source)
  <2>1. Immediate' = Queues!Without(Immediate, {e \in Queues!ToSet(Immediate) :
                       e.source = source /\ e.event_id = "event_4"})
    BY <1>3, SameFilter DEF gone
  <2>2. UNCHANGED <<Stimuli, handled.event, phase # "idle", world_tick, objects, ticking>>
        /\ {delayed_events[i] : i \in ActiveSlots}' = {delayed_events[i] : i \in ActiveSlots}
    BY <1>1, <1>4 DEF phaseVars, worldVars, Pending
  <2> QED  BY <2>1, <2>2, Zenon DEF Queues!TakeBack
<1> QED  BY <1>3, <1>5, <1>6, <1>7, <1>8 DEF EventsInv, Queues!Next

LEMMA DeleteKeeps ==
  ASSUME EventsInv, NEW o \in objects, Delete(o)
  PROVE  EventsInv' /\ [Queues!Next]_(Queues!vars)
<1> DEFINE early == {event \in ToSet(Immediate) : Names(event, o)}
           late == {stimulus \in ToSet(Stimuli) : Names(stimulus, o)}
           purged == {i \in ActiveSlots : Names(delayed_events[i].event, o)}
<1>1. /\ immediate_events' = Compacted(immediate_events, immediate_read, Without(Immediate, early))
      /\ immediate_write' = (immediate_read + Len(Without(Immediate, early))) % Capacity
      /\ immediate_read' = immediate_read
  BY DEF Delete, PurgeImmediate
<1>2. /\ creature_stimuli' = Compacted(creature_stimuli, stimulus_read, Without(Stimuli, late))
      /\ stimulus_write' = (stimulus_read + Len(Without(Stimuli, late))) % Capacity
      /\ stimulus_read' = stimulus_read
  BY DEF Delete, PurgeStimuli
<1>3. /\ delayed_events' = [i \in Slots |-> IF i \in purged
                              THEN [delayed_events[i] EXCEPT !.due_world_tick = 0] ELSE delayed_events[i]]
      /\ delayed_event_count' = delayed_event_count - Cardinality(purged)
  BY DEF Delete, PurgeDelayed
<1>4. objects' = objects \ {o} /\ ticking' = ticking \ {o} /\ UNCHANGED <<phaseVars, world_tick, queued>>
  BY DEF Delete
<1>5. Rings /\ Table /\ World /\ Present
  BY DEF EventsInv
<1>6. /\ purged \subseteq ActiveSlots
      /\ \A i \in ActiveSlots \ purged : ~Names(delayed_events[i].event, o)
      /\ \A i \in purged : Names(delayed_events[i].event, o)
  OBVIOUS
<1>7. \A i \in 1 .. Len(Immediate) : Immediate[i] \in early <=> Names(Immediate[i], o)
  BY <1>5, QueuesAre DEF ToSet
<1>8. \A i \in 1 .. Len(Stimuli) : Stimuli[i] \in late <=> Names(Stimuli[i], o)
  BY <1>5, QueuesAre DEF ToSet
<1>9. /\ early = {e \in ToSet(Immediate) : Queues!Names(e, o)}
      /\ late = {e \in ToSet(Stimuli) : Queues!Names(e, o)}
  BY DEF Names, Queues!Names
<1> HIDE DEF early, late, purged
<1>10. /\ Immediate' = Without(Immediate, early)
       /\ immediate_events' \in [Slots -> Event] /\ immediate_write' \in Slots /\ Handling'
       /\ \A i \in 1 .. Len(Immediate') :
            /\ Immediate'[i] \notin early
            /\ \E j \in 1 .. Len(Immediate) : Immediate[j] = Immediate'[i]
  BY <1>1, <1>4, ImmediateCompacted
<1>11. /\ Stimuli' = Without(Stimuli, late)
       /\ creature_stimuli' \in [Slots -> Event] /\ stimulus_write' \in Slots
       /\ \A i \in 1 .. Len(Stimuli') :
            /\ Stimuli'[i] \notin late
            /\ \E j \in 1 .. Len(Stimuli) : Stimuli[j] = Stimuli'[i]
  BY <1>2, StimuliCompacted
<1>12. /\ ActiveSlots' = ActiveSlots \ purged
       /\ Cardinality(ActiveSlots') = Cardinality(ActiveSlots) - Cardinality(purged)
       /\ Pending' = {delayed_events[i] : i \in ActiveSlots \ purged}
       /\ delayed_events' \in [Slots -> [event : Event, due_world_tick : 0 .. MaxTick]]
       /\ \A i \in Slots \ purged : delayed_events'[i] = delayed_events[i]
  <2>1. delayed_events \in [Slots -> [event : Event, due_world_tick : 0 .. MaxTick]]
    BY <1>5 DEF Table
  <2> QED  BY <2>1, <1>3, <1>6, SlotsFreed
<1>13. Rings' /\ World'
  BY <1>1, <1>2, <1>4, <1>5, <1>10, <1>11 DEF Rings, World
<1>14. ActiveSlots \subseteq Slots
  BY ActiveAre
<1>15. Table'
  <2>1. CountIsActive'
    BY <1>3, <1>5, <1>12 DEF CountIsActive, Table
  <2> QED  BY <2>1, <1>4, <1>5, <1>12, <1>14 DEF Table
<1>16. ASSUME NEW e, Exist(e), ~Names(e, o) PROVE Exist(e)'
  BY <1>4, <1>16 DEF Exist, Names
<1>17. Present'
  <2>1. \A i \in 1 .. Len(Immediate') : Exist(Immediate'[i]) /\ ~Names(Immediate'[i], o)
    BY <1>5, <1>7, <1>10 DEF Present
  <2>2. \A i \in 1 .. Len(Stimuli') : Exist(Stimuli'[i]) /\ ~Names(Stimuli'[i], o)
    BY <1>5, <1>8, <1>11 DEF Present
  <2>3. \A i \in ActiveSlots' : /\ Exist(delayed_events[i].event) /\ ~Names(delayed_events[i].event, o)
                                /\ delayed_events'[i] = delayed_events[i]
    BY <1>5, <1>6, <1>12, <1>14 DEF Present
  <2> QED  BY <2>1, <2>2, <2>3, <1>4 DEF Present, Exist, Names
<1>18. {delayed_events[i] : i \in ActiveSlots}' =
         {d \in {delayed_events[i] : i \in ActiveSlots} : ~Queues!Names(d.event, o)}
  <2>1. \A i \in ActiveSlots : i \in purged <=> Queues!Names(delayed_events[i].event, o)
    BY <1>6 DEF Names, Queues!Names
  <2>2. {delayed_events[i] : i \in ActiveSlots}' = {delayed_events[i] : i \in ActiveSlots \ purged}
    BY <1>12 DEF Pending
  <2> QED  BY <2>1, <2>2
<1>19. Queues!Deleted(o)
  <2>1. /\ Immediate' = Queues!Without(Immediate, {e \in Queues!ToSet(Immediate) : Queues!Names(e, o)})
        /\ Stimuli' = Queues!Without(Stimuli, {e \in Queues!ToSet(Stimuli) : Queues!Names(e, o)})
    BY <1>9, <1>10, <1>11, SameFilter
  <2>2. UNCHANGED <<handled.event, phase # "idle", world_tick>>
    BY <1>4 DEF phaseVars
  <2> QED  BY <2>1, <2>2, <1>4, <1>18, Zenon DEF Queues!Deleted
<1> QED  BY <1>10, <1>13, <1>15, <1>17, <1>19 DEF EventsInv, Queues!Next

-----------------------------------------------------------------------------
(* Objects, saves and worlds *)

LEMMA CreateKeeps ==
  ASSUME EventsInv, NEW o \in Objects, Create(o)
  PROVE  EventsInv' /\ [Queues!Next]_(Queues!vars)
<1>1. /\ o \notin objects /\ objects' = objects \cup {o} /\ ticking' = ticking \cup {o}
      /\ UNCHANGED <<immediateVars, delayedVars, stimulusVars, phaseVars, world_tick, queued>>
  BY DEF Create
<1>2. Immediate' = Immediate /\ Stimuli' = Stimuli /\ Pending' = Pending /\ ActiveSlots' = ActiveSlots
      /\ delayed_events' = delayed_events
  BY <1>1, ImmediateSame, StimuliSame, TableSame DEF delayedVars
<1>3. Rings /\ Table /\ Handling /\ World /\ Present
  BY DEF EventsInv
<1>4. Rings' /\ Handling' /\ World'
  BY <1>1, <1>3, HandlingSame DEF Rings, World, immediateVars, stimulusVars
<1>5. Table'
  <2>1. queued \in Nat /\ queued' = queued /\ queued' >= queued
    BY <1>1, <1>3 DEF World
  <2> QED  BY <2>1, <1>1, <1>3, TableStays
<1>6. Present'
  BY <1>1, <1>2, <1>3 DEF Present, Exist
<1>7. UNCHANGED <<Immediate, {delayed_events[i] : i \in ActiveSlots}, Stimuli, handled.event,
                  phase # "idle", world_tick>>
  BY <1>1, <1>2 DEF phaseVars, Pending
<1>8. Queues!Born(o) /\ o \in objects'
  BY <1>1, <1>7 DEF Queues!Born, Queues!queues
<1> QED  BY <1>4, <1>5, <1>6, <1>8 DEF EventsInv, Queues!Next

LEMMA KillKeeps ==
  ASSUME EventsInv, NEW o \in Objects, Kill(o)
  PROVE  EventsInv' /\ [Queues!Next]_(Queues!vars)
<1>1. /\ o \in ticking /\ objects' = objects /\ ticking' = ticking \ {o}
      /\ UNCHANGED <<immediateVars, delayedVars, stimulusVars, phaseVars, world_tick, queued>>
  BY DEF Kill
<1>2. Immediate' = Immediate /\ Stimuli' = Stimuli /\ Pending' = Pending /\ ActiveSlots' = ActiveSlots
      /\ delayed_events' = delayed_events
  BY <1>1, ImmediateSame, StimuliSame, TableSame DEF delayedVars
<1>3. Rings /\ Table /\ Handling /\ World /\ Present
  BY DEF EventsInv
<1>4. Rings' /\ Handling' /\ World' /\ o \in objects
  BY <1>1, <1>3, HandlingSame DEF Rings, World, immediateVars, stimulusVars
<1>5. Table'
  <2>1. queued \in Nat /\ queued' = queued /\ queued' >= queued
    BY <1>1, <1>3 DEF World
  <2> QED  BY <2>1, <1>1, <1>3, TableStays
<1>6. Present'
  BY <1>1, <1>2, <1>3 DEF Present, Exist
<1>7. UNCHANGED <<Immediate, {delayed_events[i] : i \in ActiveSlots}, Stimuli, handled.event,
                  phase # "idle", world_tick, objects>>
  BY <1>1, <1>2 DEF phaseVars, Pending
<1>8. Queues!Parked(o)
  BY <1>1, <1>7 DEF Queues!Parked, Queues!queues
<1> QED  BY <1>4, <1>5, <1>6, <1>8 DEF EventsInv, Queues!Next

\* What a save inspects is all that waits.
LEMMA SaveKeeps ==
  ASSUME EventsInv, NEW freed \in SUBSET objects, Save(freed)
  PROVE  EventsInv' /\ [Queues!Next]_(Queues!vars)
<1>1. /\ phase = "idle" /\ freed \subseteq objects \ ticking /\ objects' = objects \ freed
      /\ world_tick' \in {world_tick, 0} /\ \A o \in freed : CanBeDestroyed(o)
      /\ UNCHANGED <<immediateVars, delayedVars, stimulusVars, phaseVars, ticking, queued>>
  BY SizesAssumption DEF Save
<1>2. Immediate' = Immediate /\ Stimuli' = Stimuli /\ Pending' = Pending /\ ActiveSlots' = ActiveSlots
      /\ delayed_events' = delayed_events
  BY <1>1, ImmediateSame, StimuliSame, TableSame DEF delayedVars
<1>3. Rings /\ Table /\ Handling /\ World /\ Present
  BY DEF EventsInv
<1>4. ASSUME NEW o \in freed
      PROVE  /\ \A i \in DOMAIN Immediate : ~Names(Immediate[i], o)
             /\ \A i \in DOMAIN Stimuli : ~Names(Stimuli[i], o)
             /\ \A i \in ActiveSlots : ~Names(delayed_events[i].event, o)
  <2>1. Inspected = ActiveSlots
    BY <1>3, ScanSeesAll DEF Table
  <2> QED  BY <2>1, <1>1 DEF CanBeDestroyed
<1>5. DOMAIN Immediate = 1 .. Len(Immediate) /\ DOMAIN Stimuli = 1 .. Len(Stimuli)
  BY <1>3, QueuesAre
<1>6. Present'
  <2>1. \A i \in 1 .. Len(Immediate) : Exist(Immediate[i]) /\ \A o \in freed : ~Names(Immediate[i], o)
    BY <1>3, <1>4, <1>5 DEF Present
  <2>2. \A i \in 1 .. Len(Stimuli) : Exist(Stimuli[i]) /\ \A o \in freed : ~Names(Stimuli[i], o)
    BY <1>3, <1>4, <1>5 DEF Present
  <2>3. \A i \in ActiveSlots : /\ Exist(delayed_events[i].event)
                               /\ \A o \in freed : ~Names(delayed_events[i].event, o)
    BY <1>3, <1>4 DEF Present
  <2> QED  BY <2>1, <2>2, <2>3, <1>1, <1>2 DEF Present, Exist, Names
<1>7. Rings' /\ Handling' /\ World'
  <2>1. world_tick' \in 0 .. MaxTick
    BY <1>1, <1>3, SizesAssumption DEF World
  <2> QED  BY <2>1, <1>1, <1>3, HandlingSame DEF Rings, World, immediateVars, stimulusVars
<1>8. Table'
  <2>1. queued \in Nat /\ queued' = queued /\ queued' >= queued
    BY <1>1, <1>3 DEF World
  <2> QED  BY <2>1, <1>1, <1>3, TableStays
<1>9. Queues!Saved
  <2>1. UNCHANGED <<Immediate, {delayed_events[i] : i \in ActiveSlots}, Stimuli, handled.event,
                    phase # "idle", ticking>>
    BY <1>1, <1>2 DEF phaseVars, Pending
  <2>2. \A o \in objects \ objects' : o \in freed /\ o \notin ticking
    BY <1>1
  <2>3. ~(phase # "idle") /\ objects' \subseteq objects
    BY <1>1
  <2>4. \A e, o : Queues!Names(e, o) <=> Names(e, o)
    BY DEF Queues!Names, Names
  <2>5. \A o \in objects \ objects' :
          /\ o \notin ticking
          /\ \A i \in DOMAIN Immediate : ~Queues!Names(Immediate[i], o)
          /\ \A d \in {delayed_events[i] : i \in ActiveSlots} : ~Queues!Names(d.event, o)
          /\ \A i \in DOMAIN Stimuli : ~Queues!Names(Stimuli[i], o)
    BY <2>2, <2>4, <1>4
  <2> QED  BY <2>1, <2>3, <2>5, <1>1 DEF Queues!Saved, Queues!queues
<1> QED  BY <1>6, <1>7, <1>8, <1>9 DEF EventsInv, Queues!Next

\* Nothing waits in an empty ring, and no slot of a cleared table is active.
LEMMA EmptyIs ==
  ASSUME NEW ring, NEW i \in Slots
  PROVE  Live(ring, i, i) = <<>>
<1>1. RingCount(i, i) = 0
  BY SizesAssumption DEF RingCount, Slots
<1> QED  BY <1>1 DEF Live

LEMMA ClearedIs ==
  ASSUME delayed_events' = [i \in Slots |-> FreeSlot], delayed_event_count' = 0
  PROVE  /\ ActiveSlots' = {} /\ Pending' = {} /\ CountIsActive'
         /\ delayed_events' \in [Slots -> [event : Event, due_world_tick : 0 .. MaxTick]]
<1>1. ActiveSlots' = {}
  BY DEF ActiveSlots, Active, FreeSlot
<1>2. Pending' = {} /\ CountIsActive'
  BY <1>1, FS_EmptySet DEF Pending, CountIsActive
<1> QED  BY <1>1, <1>2, NoEventIs, SizesAssumption DEF FreeSlot

LEMMA NewWorldKeeps ==
  ASSUME EventsInv, NewWorld
  PROVE  EventsInv' /\ [Queues!Next]_(Queues!vars)
<1>1. /\ phase = "idle" /\ UNCHANGED <<phaseVars, queued>>
      /\ objects' = Objects /\ ticking' = Objects /\ world_tick' \in 0 .. MaxTick
  BY DEF NewWorld
<1>2. Rings /\ Handling /\ World
  BY DEF EventsInv
<1>3. 0 \in Slots
  BY SizesAssumption DEF Slots
<1>4. Immediate' = <<>> /\ Stimuli' = <<>>
  BY <1>3, EmptyIs DEF NewWorld, Immediate, Stimuli
<1>5. /\ ActiveSlots' = {} /\ Pending' = {} /\ CountIsActive'
      /\ delayed_events' \in [Slots -> [event : Event, due_world_tick : 0 .. MaxTick]]
  BY ClearedIs DEF NewWorld
<1>6. Rings' /\ Table' /\ World'
  BY <1>1, <1>2, <1>3, <1>5, NoEventIs DEF NewWorld, Rings, Table, World
<1>7. Handling'
  <2>1. handled = Nothing
    BY <1>1, <1>2 DEF Handling
  <2> QED  BY <2>1, <1>1, <1>2, NoEventIs DEF Handling, phaseVars
<1>8. Present'
  BY <1>4, <1>5, EmptySeq DEF Present
<1>9. Queues!Emptied
  <2>1. {delayed_events[i] : i \in ActiveSlots}' = {}
    BY <1>5
  <2>2. world_tick' \in Nat /\ UNCHANGED <<handled.event, phase # "idle">> /\ ~(phase # "idle")
    BY <1>1, SizesAssumption DEF phaseVars
  <2> QED  BY <2>1, <2>2, <1>1, <1>4 DEF Queues!Emptied
<1> QED  BY <1>6, <1>7, <1>8, <1>9 DEF EventsInv, Queues!Next

-----------------------------------------------------------------------------
(* The phase of the world tick that processes what waits *)

LEMMA StartKeeps ==
  ASSUME EventsInv, StartPhase
  PROVE  EventsInv' /\ [Queues!Next]_(Queues!vars)
<1>1. /\ phase = "idle" /\ phase' = "next"
      /\ UNCHANGED <<immediateVars, delayedVars, stimulusVars, handled, worldVars, queued>>
  BY DEF StartPhase
<1>2. Immediate' = Immediate /\ Stimuli' = Stimuli /\ Pending' = Pending /\ ActiveSlots' = ActiveSlots
      /\ delayed_events' = delayed_events
  BY <1>1, ImmediateSame, StimuliSame, TableSame DEF delayedVars
<1>3. Rings /\ Table /\ Handling /\ World /\ Present
  BY DEF EventsInv
<1>4. Rings' /\ World'
  BY <1>1, <1>3 DEF Rings, World, worldVars, immediateVars, stimulusVars
<1>5. Handling'
  BY <1>1, <1>3 DEF Handling, immediateVars
<1>6. Table'
  <2>1. queued \in Nat /\ queued' = queued /\ queued' >= queued
    BY <1>1, <1>3 DEF World
  <2> QED  BY <2>1, <1>1, <1>3, TableStays
<1>7. Present'
  BY <1>1, <1>2, <1>3 DEF Present, Exist, worldVars
<1>8. UNCHANGED <<Immediate, {delayed_events[i] : i \in ActiveSlots}, Stimuli, handled.event,
                  world_tick, objects, ticking>>
  BY <1>1, <1>2 DEF worldVars, Pending
<1>9. Queues!Start
  BY <1>1, <1>8 DEF Queues!Start, Queues!queues
<1> QED  BY <1>4, <1>5, <1>6, <1>7, <1>9 DEF EventsInv, Queues!Next

\* What the handler is given, in the words of EventQueues.
LEMMA DispatchIs ==
  ASSUME Handling, phase = "next", NEW e \in Event, Exist(e), World,
         NEW slot \in Slots, NEW queue \in {"immediate", "delayed"}, Dispatch(e, slot, queue)
  PROVE  /\ phase' \in {"next", "handling"} /\ phase' # "idle"
         /\ handled' \in [event : Event, slot : Slots, queue : {"none", "immediate", "delayed"}]
         /\ phase' = "handling" => handled' = [event |-> e, slot |-> slot, queue |-> queue]
         /\ phase' = "handling" => handled'.event.source \in Objects
         /\ phase' # "handling" => handled' = Nothing
         /\ handled'.queue = "immediate" => phase' = "handling"
         /\ Queues!Begin(e)
<1>1. handled = Nothing /\ handled.event = NoEvent
  BY NoEventIs DEF Handling
<1>2. CASE e.target \in ticking
  <2>1. phase' = "handling" /\ handled' = [event |-> e, slot |-> slot, queue |-> queue]
    BY <1>2 DEF Dispatch
  <2>2. handled' \in [event : Event, slot : Slots, queue : {"none", "immediate", "delayed"}]
        /\ handled'.event = e
    BY <2>1
  <2>3. Queues!Begin(e)
    BY <1>2, <2>2 DEF Queues!Begin
  <2>4. e.source \in Objects
    BY DEF Exist, World
  <2> QED  BY <2>1, <2>2, <2>3, <2>4
<1>3. CASE e.target \notin ticking
  <2>1. phase' = phase /\ handled' = handled
    BY <1>3 DEF Dispatch, phaseVars
  <2>2. Queues!Begin(e)
    BY <2>1, <1>1, <1>3 DEF Queues!Begin
  <2> QED  BY <2>1, <2>2, <1>1, NoEventIs DEF Handling
<1> QED  BY <1>2, <1>3

LEMMA TakeImmediateKeeps ==
  ASSUME EventsInv, TakeImmediate
  PROVE  EventsInv' /\ [Queues!Next]_(Queues!vars)
<1> DEFINE e == immediate_events[immediate_read]
<1>1. /\ phase = "next" /\ immediate_read # immediate_write
      /\ immediate_read' = Following(immediate_read)
      /\ Dispatch(e, immediate_read, "immediate")
      /\ UNCHANGED <<immediate_events, immediate_write, delayedVars, stimulusVars, worldVars, queued>>
  BY DEF TakeImmediate
<1>2. Rings /\ Table /\ Handling /\ World /\ Present
  BY DEF EventsInv
<1>3. e \in Event
  BY <1>2 DEF Rings
<1> HIDE DEF e
<1>4. /\ Immediate # <<>> /\ Immediate \in Seq(Event) /\ Head(Immediate) = e
      /\ Immediate' = Tail(Immediate) /\ Following(immediate_read) \in Slots
  <2>1. /\ Live(immediate_events, immediate_read, immediate_write) # <<>>
        /\ Live(immediate_events, immediate_read, immediate_write) \in Seq(Event)
        /\ Head(Live(immediate_events, immediate_read, immediate_write)) = immediate_events[immediate_read]
        /\ Live(immediate_events, Following(immediate_read), immediate_write)
             = Tail(Live(immediate_events, immediate_read, immediate_write))
        /\ Following(immediate_read) \in Slots
    BY <1>1, <1>2, RingTakes DEF Rings
  <2> QED  BY <2>1, <1>1 DEF Immediate, e
<1>5. /\ Len(Immediate) \in Nat /\ Len(Immediate) >= 1 /\ Len(Immediate') = Len(Immediate) - 1
      /\ Head(Immediate) = Immediate[1]
      /\ \A i \in 1 .. Len(Immediate') : Immediate'[i] = Immediate[i + 1]
  <2>1. Len(Immediate) \in Nat /\ Len(Immediate) # 0
    BY <1>4, EmptySeq
  <2>2. /\ Tail(Immediate) \in Seq(Event) /\ Len(Tail(Immediate)) = Len(Immediate) - 1
        /\ \A i \in 1 .. Len(Tail(Immediate)) : Tail(Immediate)[i] = Immediate[i + 1]
    BY <1>4, HeadTailProperties, Zenon
  <2>3. Head(Immediate) = Immediate[1]
    BY <1>4
  <2> QED  BY <2>1, <2>2, <2>3, <1>4
<1>6. Exist(e)
  BY <1>2, <1>4, <1>5 DEF Present
<1>7. /\ phase' \in {"next", "handling"} /\ phase' # "idle"
      /\ handled' \in [event : Event, slot : Slots, queue : {"none", "immediate", "delayed"}]
      /\ phase' = "handling" => handled' = [event |-> e, slot |-> immediate_read, queue |-> "immediate"]
      /\ phase' = "handling" => handled'.event.source \in Objects
      /\ phase' # "handling" => handled' = Nothing
      /\ handled'.queue = "immediate" => phase' = "handling"
      /\ Queues!Begin(e)
  BY <1>1, <1>2, <1>3, <1>6, DispatchIs DEF Rings
<1>8. Handling'
  BY <1>1, <1>7 DEF Handling, e
<1>9. Rings' /\ World'
  BY <1>1, <1>2, <1>4 DEF Rings, World, worldVars, stimulusVars
<1>10. Table'
  <2>1. queued \in Nat /\ queued' = queued /\ queued' >= queued
    BY <1>1, <1>2 DEF World
  <2> QED  BY <2>1, <1>1, <1>2, TableStays
<1>11. Stimuli' = Stimuli /\ Pending' = Pending /\ ActiveSlots' = ActiveSlots
       /\ delayed_events' = delayed_events /\ objects' = objects
  BY <1>1, StimuliSame, TableSame DEF delayedVars, worldVars
<1>12. Present'
  <2>1. ASSUME NEW i \in 1 .. Len(Immediate') PROVE Exist(Immediate'[i])
    <3>1. i + 1 \in 1 .. Len(Immediate)
      BY <1>5
    <3> QED  BY <3>1, <1>2, <1>5 DEF Present
  <2> QED  BY <2>1, <1>2, <1>11 DEF Present, Exist
<1>13. Queues!HandleImmediate
  <2>1. phase # "idle" /\ handled.event = NoEvent
    BY <1>1, <1>2, NoEventIs DEF Handling
  <2>2. UNCHANGED <<{delayed_events[i] : i \in ActiveSlots}, Stimuli, phase # "idle", world_tick,
                    objects, ticking>>
    BY <2>1, <1>1, <1>7, <1>11 DEF Pending, worldVars
  <2> QED  BY <2>1, <2>2, <1>4, <1>7 DEF Queues!HandleImmediate
<1> QED  BY <1>8, <1>9, <1>10, <1>12, <1>13 DEF EventsInv, Queues!Next

LEMMA TakeDelayedKeeps ==
  ASSUME EventsInv, TakeDelayed
  PROVE  EventsInv' /\ [Queues!Next]_(Queues!vars)
<1> DEFINE slot == CHOOSE i \in DueSlots : \A j \in DueSlots : i <= j
           d == delayed_events[slot]
<1>1. /\ phase = "next" /\ immediate_read = immediate_write /\ DueSlots # {}
      /\ delayed_events' = [delayed_events EXCEPT ![slot].due_world_tick = 0]
      /\ delayed_event_count' = delayed_event_count - 1
      /\ Dispatch(d.event, slot, "delayed")
      /\ UNCHANGED <<immediateVars, stimulusVars, worldVars, queued>>
  BY DEF TakeDelayed
<1>2. Rings /\ Table /\ Handling /\ World /\ Present
  BY DEF EventsInv
<1>3. ActiveSlots \subseteq Slots
  BY ActiveAre
<1>4. slot \in ActiveSlots /\ d.due_world_tick <= world_tick
  <2>1. DueSlots \subseteq Slots
    BY <1>3 DEF DueSlots
  <2>2. slot \in DueSlots
    BY <1>1, <2>1, FirstIs
  <2> QED  BY <2>2 DEF DueSlots
<1> HIDE DEF slot
<1>5. slot \in Slots /\ d \in [event : Event, due_world_tick : 0 .. MaxTick] /\ d.event \in Event
  <2>1. slot \in Slots
    BY <1>3, <1>4
  <2> QED  BY <2>1, <1>2 DEF Table
<1>6. Exist(d.event)
  BY <1>2, <1>4 DEF Present
<1> HIDE DEF d
<1>7. delayed_events' = [i \in Slots |-> IF i \in {slot}
                           THEN [delayed_events[i] EXCEPT !.due_world_tick = 0] ELSE delayed_events[i]]
  BY <1>1, <1>2, <1>5 DEF Table
<1>8. /\ ActiveSlots' = ActiveSlots \ {slot}
      /\ Cardinality(ActiveSlots') = Cardinality(ActiveSlots) - Cardinality({slot})
      /\ Pending' = {delayed_events[i] : i \in ActiveSlots \ {slot}}
      /\ delayed_events' \in [Slots -> [event : Event, due_world_tick : 0 .. MaxTick]]
      /\ \A i \in Slots \ {slot} : delayed_events'[i] = delayed_events[i]
  <2>1. {slot} \subseteq ActiveSlots
        /\ delayed_events \in [Slots -> [event : Event, due_world_tick : 0 .. MaxTick]]
    BY <1>2, <1>4 DEF Table
  <2> QED  BY <2>1, <1>7, SlotsFreed
<1>9. /\ phase' \in {"next", "handling"} /\ phase' # "idle"
      /\ handled' \in [event : Event, slot : Slots, queue : {"none", "immediate", "delayed"}]
      /\ phase' = "handling" => handled' = [event |-> d.event, slot |-> slot, queue |-> "delayed"]
      /\ phase' = "handling" => handled'.event.source \in Objects
      /\ phase' # "handling" => handled' = Nothing
      /\ Queues!Begin(d.event)
  BY <1>1, <1>2, <1>5, <1>6, DispatchIs
<1>10. handled'.queue # "immediate"
  BY <1>9, NoEventIs
<1>11. Handling'
  BY <1>9, <1>10 DEF Handling
<1>12. Rings' /\ World'
  BY <1>1, <1>2 DEF Rings, World, worldVars, immediateVars, stimulusVars
<1>13. Immediate' = Immediate /\ Stimuli' = Stimuli /\ objects' = objects
  BY <1>1, ImmediateSame, StimuliSame DEF worldVars
<1>14. Table'
  <2>1. CountIsActive'
    <3>1. Cardinality({slot}) = 1
      BY FS_Singleton
    <3> QED  BY <3>1, <1>1, <1>2, <1>8 DEF CountIsActive, Table
  <2> QED  BY <2>1, <1>1, <1>2, <1>3, <1>8 DEF Table
<1>15. Present'
  BY <1>2, <1>3, <1>8, <1>13 DEF Present, Exist
<1>16. Queues!HandleDelayed
  <2>1. phase # "idle" /\ handled.event = NoEvent
    BY <1>1, <1>2, NoEventIs DEF Handling
  <2>2. UNCHANGED <<Immediate, Stimuli, phase # "idle", world_tick, objects, ticking>>
    BY <2>1, <1>1, <1>9, <1>13 DEF worldVars
  <2>3. Immediate = <<>>
    BY <1>1, <1>2, QueuesAre
  <2>4. d \in {delayed_events[i] : i \in ActiveSlots}
    BY <1>4 DEF d
  <2>5. \A i \in ActiveSlots : i # slot => delayed_events[i] # d
    BY <1>2, <1>4 DEF Table, d
  <2>6. {delayed_events[i] : i \in ActiveSlots}' = {delayed_events[i] : i \in ActiveSlots} \ {d}
    <3>1. {delayed_events[i] : i \in ActiveSlots}' = {delayed_events[i] : i \in ActiveSlots \ {slot}}
      BY <1>8 DEF Pending
    <3> QED  BY <3>1, <2>5, <1>4 DEF d
  <2>7. d.due_world_tick <= world_tick
    BY <1>4 DEF d
  <2>8. \E x \in {delayed_events[i] : i \in ActiveSlots} :
          /\ x.due_world_tick <= world_tick /\ Queues!Begin(x.event)
          /\ {delayed_events[i] : i \in ActiveSlots}' = {delayed_events[i] : i \in ActiveSlots} \ {x}
    BY <2>4, <2>6, <2>7, <1>9
  <2> QED  BY <2>1, <2>2, <2>3, <2>8, Zenon DEF Queues!HandleDelayed
<1> QED  BY <1>11, <1>12, <1>14, <1>15, <1>16 DEF EventsInv, Queues!Next

LEMMA ReturnKeeps ==
  ASSUME EventsInv, HandlerReturns
  PROVE  EventsInv' /\ [Queues!Next]_(Queues!vars)
<1>1. /\ phase = "handling" /\ phase' = "next" /\ handled' = Nothing
      /\ UNCHANGED <<immediateVars, delayedVars, stimulusVars, worldVars, queued>>
  BY DEF HandlerReturns
<1>2. Immediate' = Immediate /\ Stimuli' = Stimuli /\ Pending' = Pending /\ ActiveSlots' = ActiveSlots
      /\ delayed_events' = delayed_events
  BY <1>1, ImmediateSame, StimuliSame, TableSame DEF delayedVars
<1>3. Rings /\ Table /\ Handling /\ World /\ Present
  BY DEF EventsInv
<1>4. Rings' /\ World'
  BY <1>1, <1>3 DEF Rings, World, worldVars, immediateVars, stimulusVars
<1>5. Handling'
  <2>1. Nothing \in [event : Event, slot : Slots, queue : {"none", "immediate", "delayed"}]
    BY NoEventIs, SizesAssumption DEF Nothing, Slots
  <2> QED  BY <2>1, <1>1, NoEventIs DEF Handling
<1>6. Table'
  <2>1. queued \in Nat /\ queued' = queued /\ queued' >= queued
    BY <1>1, <1>3 DEF World
  <2> QED  BY <2>1, <1>1, <1>3, TableStays
<1>7. Present'
  BY <1>1, <1>2, <1>3 DEF Present, Exist, worldVars
<1>8. UNCHANGED <<Immediate, {delayed_events[i] : i \in ActiveSlots}, Stimuli, phase # "idle",
                  world_tick, objects, ticking>>
  BY <1>1, <1>2 DEF worldVars, Pending
<1>9. handled.event # NoEvent /\ handled'.event = NoEvent
  BY <1>1, <1>3, NoEventIs DEF Handling
<1>10. Queues!Return
  BY <1>8, <1>9 DEF Queues!Return, Queues!queues
<1> QED  BY <1>4, <1>5, <1>6, <1>7, <1>10 DEF EventsInv, Queues!Next

\* No slot the scan passes over is due, and so none is at all.
LEMMA DrainKeeps ==
  ASSUME EventsInv, DrainStimuli
  PROVE  EventsInv' /\ [Queues!Next]_(Queues!vars)
<1>1. /\ phase = "next" /\ immediate_read = immediate_write /\ DueSlots = {}
      /\ stimulus_read' = stimulus_write /\ phase' = "idle"
      /\ UNCHANGED <<immediateVars, delayedVars, creature_stimuli, stimulus_write, handled, worldVars,
                     queued>>
  BY DEF DrainStimuli
<1>2. Rings /\ Table /\ Handling /\ World /\ Present
  BY DEF EventsInv
<1>3. Immediate' = Immediate /\ Pending' = Pending /\ ActiveSlots' = ActiveSlots
      /\ delayed_events' = delayed_events
  BY <1>1, ImmediateSame, TableSame DEF delayedVars
<1>4. Stimuli' = <<>>
  BY <1>1, <1>2, EmptyIs DEF Rings, Stimuli
<1>5. Rings' /\ World'
  BY <1>1, <1>2 DEF Rings, World, worldVars, immediateVars
<1>6. Handling'
  BY <1>1, <1>2 DEF Handling, immediateVars
<1>7. Table'
  <2>1. queued \in Nat /\ queued' = queued /\ queued' >= queued
    BY <1>1, <1>2 DEF World
  <2> QED  BY <2>1, <1>1, <1>2, TableStays
<1>8. Present'
  BY <1>1, <1>2, <1>3, <1>4, EmptySeq DEF Present, Exist, worldVars
<1>9. Queues!Finish
  <2>1. handled.event = NoEvent /\ phase # "idle"
    BY <1>1, <1>2, NoEventIs DEF Handling
  <2>2. Immediate = <<>>
    BY <1>1, <1>2, QueuesAre
  <2>3. ASSUME NEW i \in ActiveSlots PROVE delayed_events[i].due_world_tick > world_tick
    <3>1. ~(delayed_events[i].due_world_tick <= world_tick)
      BY <1>1, <1>2, ScanSeesAll DEF Table
    <3>2. i \in Slots
      BY ActiveAre
    <3>3. delayed_events[i].due_world_tick \in 0 .. MaxTick /\ world_tick \in 0 .. MaxTick
      BY <3>2, <1>2 DEF Table, World
    <3> QED  BY <3>1, <3>3, SizesAssumption
  <2>4. \A d \in {delayed_events[i] : i \in ActiveSlots} : d.due_world_tick > world_tick
    BY <2>3
  <2>5. UNCHANGED <<Immediate, {delayed_events[i] : i \in ActiveSlots}, handled.event, world_tick,
                    objects, ticking>> /\ (phase # "idle")' = FALSE
    BY <1>1, <1>3 DEF worldVars, Pending
  <2> QED  BY <2>1, <2>2, <2>4, <2>5, <1>4 DEF Queues!Finish
<1> QED  BY <1>5, <1>6, <1>7, <1>8, <1>9 DEF EventsInv, Queues!Next

LEMMA TickKeeps ==
  ASSUME EventsInv, Tick
  PROVE  EventsInv' /\ [Queues!Next]_(Queues!vars)
<1>1. /\ phase = "idle" /\ world_tick < MaxTick /\ world_tick' = world_tick + 1
      /\ UNCHANGED <<immediateVars, delayedVars, stimulusVars, phaseVars, objects, ticking, queued>>
  BY DEF Tick
<1>2. Immediate' = Immediate /\ Stimuli' = Stimuli /\ Pending' = Pending /\ ActiveSlots' = ActiveSlots
      /\ delayed_events' = delayed_events
  BY <1>1, ImmediateSame, StimuliSame, TableSame DEF delayedVars
<1>3. Rings /\ Table /\ Handling /\ World /\ Present
  BY DEF EventsInv
<1>4. Rings' /\ Handling' /\ World'
  <2>1. world_tick' \in 0 .. MaxTick
    BY <1>1, <1>3, SizesAssumption DEF World
  <2> QED  BY <2>1, <1>1, <1>3, HandlingSame DEF Rings, World, immediateVars, stimulusVars
<1>5. Table'
  <2>1. queued \in Nat /\ queued' = queued /\ queued' >= queued
    BY <1>1, <1>3 DEF World
  <2> QED  BY <2>1, <1>1, <1>3, TableStays
<1>6. Present'
  BY <1>1, <1>2, <1>3 DEF Present, Exist
<1>7. UNCHANGED <<Immediate, {delayed_events[i] : i \in ActiveSlots}, Stimuli, handled.event,
                  phase # "idle", objects, ticking>>
  BY <1>1, <1>2 DEF phaseVars, Pending
<1>8. Queues!Ticked
  BY <1>1, <1>7 DEF Queues!Ticked, Queues!queues
<1> QED  BY <1>4, <1>5, <1>6, <1>8 DEF EventsInv, Queues!Next

-----------------------------------------------------------------------------
(* The theorems *)

LEMMA EventsInit ==
  ASSUME Init
  PROVE  EventsInv /\ Queues!Init
<1>1. 0 \in Slots /\ NoEvent \in Event
  BY NoEventIs, SizesAssumption DEF Slots
<1>2. Immediate = <<>> /\ Stimuli = <<>>
  BY <1>1, EmptyIs DEF Init, Immediate, Stimuli
<1>3. ActiveSlots = {}
  BY DEF Init, ActiveSlots, Active, FreeSlot
<1>4. Rings /\ World
  BY <1>1, SizesAssumption DEF Init, Rings, World
<1>5. Table
  BY <1>1, <1>3, FS_EmptySet, SizesAssumption DEF Init, Table, CountIsActive, FreeSlot
<1>6. Handling
  BY <1>1, NoEventIs DEF Init, Handling, Nothing
<1>7. Present
  BY <1>2, <1>3, EmptySeq DEF Present
<1>8. Queues!Init
  BY <1>2, <1>3, NoEventIs DEF Init, Queues!Init
<1> QED  BY <1>4, <1>5, <1>6, <1>7, <1>8 DEF EventsInv

LEMMA EventsNext ==
  ASSUME EventsInv, [Next]_vars
  PROVE  EventsInv' /\ [Queues!Next]_(Queues!vars)
<1>1. CASE Produce
  <2>1. PICK source \in objects :
          \/ \E target \in objects :
               \/ \E id \in EventIds : QueueImmediate(source, target, id)
               \/ \E delay \in Delays : QueueDelayed(source, target, delay)
          \/ \E creature \in objects \cap Creatures : QueueStimulus(source, creature)
          \/ CancelImmediateFrom(source)
    BY <1>1 DEF Produce
  <2> QED  BY <2>1, QueueImmediateKeeps, QueueDelayedKeeps, QueueStimulusKeeps, CancelKeeps
<1>2. CASE Lifetimes
  <2>1. CASE \E o \in Objects : Create(o) \/ Kill(o) \/ Delete(o)
    <3>1. \A o \in Objects : Delete(o) => o \in objects
      BY DEF Delete
    <3> QED  BY <2>1, <3>1, CreateKeeps, KillKeeps, DeleteKeeps
  <2>2. CASE \E freed \in SUBSET objects : Save(freed)
    BY <2>2, SaveKeeps
  <2>3. CASE NewWorld
    BY <2>3, NewWorldKeeps
  <2> QED  BY <1>2, <2>1, <2>2, <2>3 DEF Lifetimes
<1>3. CASE Process
  BY <1>3, StartKeeps, TakeImmediateKeeps, TakeDelayedKeeps, ReturnKeeps, DrainKeeps DEF Process
<1>4. CASE Tick
  BY <1>4, TickKeeps
<1>5. CASE UNCHANGED vars
  <2>1. UNCHANGED <<immediateVars, delayedVars, stimulusVars, phaseVars, worldVars, queued>>
    BY <1>5 DEF vars
  <2>2. Immediate' = Immediate /\ Stimuli' = Stimuli /\ Pending' = Pending
        /\ ActiveSlots' = ActiveSlots /\ delayed_events' = delayed_events
    BY <2>1, ImmediateSame, StimuliSame, TableSame DEF delayedVars
  <2>3. Rings /\ Table /\ Handling /\ World /\ Present
    BY DEF EventsInv
  <2>4. Rings' /\ Handling' /\ World'
    BY <2>1, <2>3, HandlingSame DEF Rings, World, immediateVars, stimulusVars, worldVars
  <2>5. Table'
    <3>1. queued \in Nat /\ queued' = queued /\ queued' >= queued
      BY <2>1, <2>3 DEF World
    <3> QED  BY <3>1, <2>1, <2>3, TableStays
  <2>6. Present'
    BY <2>1, <2>2, <2>3 DEF Present, Exist, worldVars
  <2> QED  BY <2>1, <2>2, <2>4, <2>5, <2>6, StepUnseen DEF EventsInv
<1> QED  BY <1>1, <1>2, <1>3, <1>4, <1>5 DEF Next

\* The inductive invariant: the rings are rings of events, the count is the
\* number of active slots and no serial number occurs twice among them, the
\* record a handler has lies just before the ring, and every record that will
\* be read names two objects that exist.
THEOREM EventsInductive == Spec => []EventsInv
<1>1. Init => EventsInv
  BY EventsInit
<1>2. EventsInv /\ [Next]_vars => EventsInv'
  BY EventsNext
<1> QED  BY <1>1, <1>2, PTL DEF Spec

\* Positions inside the rings, a count that is right and a record held by
\* reference that stands, whatever handlers queue, cancel, kill or delete.
THEOREM RecordsAreSound == Spec => []RecordsSound
<1>1. EventsInv => RecordsSound
  BY InvMeans
<1> QED  BY <1>1, EventsInductive, PTL

\* No record that will be read names an object that is gone: neither after
\* purge_object_references nor after a save that asked can_be_destroyed.
THEOREM NothingDangles == Spec => []NoDanglingRecord
<1>1. EventsInv => NoDanglingRecord
  BY InvMeans
<1> QED  BY <1>1, EventsInductive, PTL

\* The scheduler keeps the promise of EventQueues: every step on the rings,
\* the slots and the count is a step on its two sequences and its set, or
\* leaves them alone.
THEOREM OrderIsKept == Spec => KeepsOrder
<1>1. Init => Queues!Init
  BY EventsInit
<1>2. EventsInv /\ [Next]_vars => [Queues!Next]_(Queues!vars)
  BY EventsNext
<1> QED  BY <1>1, <1>2, EventsInductive, PTL DEF Spec, KeepsOrder, Queues!Spec

-----------------------------------------------------------------------------
(***************************************************************************)
(* The sound manager, for any sounds, objects, channels and cache.  Each of its*)
(* functions is shown to keep the mixer sound (MixerOK: counts, copies, buffers*)
(* and cache agree) and to spare what goes on (Carries): no sound that goes on*)
(* is new, and in a cache with room for all sounds none is touched.  From this*)
(* each action keeps the objects' channels their own (SoundCore).          *)
(***************************************************************************)

\* The channels that play a copy of the buffer of s, those whose sound goes on, and those
\* that repeat an object's sound.
Copies(m, s) == {i \in On(m) : m.channel[i].sound = s /\ m.channel[i].copy}
Held(m) == {i \in On(m) : m.channel[i].kept}
Looping(m) == {i \in On(m) : m.channel[i].by # NoObject /\ m.channel[i].sound \in Loops}

\* The counts and the buffers are those of the channels and of the cache.
Tallied(m) ==
  /\ m.total = Len(m.cache) /\ m.active = Cardinality(On(m))
  /\ \A s \in Sounds : m.refs[s] = Cardinality(Copies(m, s))
Alive(m, b) == (\E i \in On(m) : b = Voice(m, i)) \/ (\E s \in ToSet(m.cache) : b = Entry(s))
Voiced(m) ==
  /\ \A b \in Buffers : b \in m.live <=> Alive(m, b)
  /\ \A i \in On(m) : m.channel[i].sound \in ToSet(m.cache)
MixerOK(m, room) ==
  /\ m \in Mixer /\ IsInjective(m.cache) /\ m.total <= room
  /\ Tallied(m) /\ Voiced(m)

LEMMA MixerIs ==
  ASSUME NEW m \in Mixer
  PROVE  /\ m = [cache |-> m.cache, channel |-> m.channel, playing |-> m.playing,
                 live |-> m.live, active |-> m.active, refs |-> m.refs, total |-> m.total]
         /\ m.cache \in Seq(Sounds) /\ m.channel \in [Channel -> ChannelState]
         /\ m.playing \in [Buffers -> {"no", "once", "loop"}] /\ m.live \in SUBSET Buffers
         /\ m.active \in Nat /\ m.refs \in [Sounds -> Nat] /\ m.total \in Nat
BY DEF Mixer

LEMMA ChannelIs ==
  ASSUME NEW m \in Mixer, NEW i \in Channel
  PROVE  /\ m.channel[i] \in ChannelState
         /\ m.channel[i].on \in BOOLEAN /\ m.channel[i].copy \in BOOLEAN
         /\ m.channel[i].kept \in BOOLEAN /\ m.channel[i].fade \in 0 .. FadeUpdates
         /\ m.channel[i].sound \in Sounds \union {NoSound}
         /\ m.channel[i].by \in Noisy \union {NoObject}
BY MixerIs DEF ChannelState

LEMMA OnIs ==
  ASSUME NEW m
  PROVE  /\ On(m) \subseteq Channel /\ IsFiniteSet(On(m)) /\ IsFiniteSet(Channel)
         /\ Channel \subseteq Nat /\ 0 \notin Channel
         /\ Cardinality(On(m)) \in Nat /\ Cardinality(Channel) = Channels
<1>1. On(m) \subseteq Channel /\ Channel \subseteq Nat /\ 0 \notin Channel
  BY SoundAssumption DEF On, Channel
<1>2. Channels \in Int /\ 1 \in Int /\ Channels >= 1
  BY SoundAssumption
<1>3. IsFiniteSet(Channel) /\ Cardinality(Channel) = Channels
  BY <1>2, FS_Interval DEF Channel
<1> DEFINE C == On(m)
<1> HIDE DEF C
<1>4. C \in SUBSET Channel
  BY <1>1 DEF C
<1>5. IsFiniteSet(C)
  BY <1>3, <1>4, FS_Subset
<1>6. Cardinality(C) \in Nat
  BY <1>5, FS_CardinalityType
<1> QED  BY <1>1, <1>3, <1>5, <1>6 DEF C

\* A voice belongs to one channel, or is the entry's own buffer.
LEMMA VoiceIs ==
  ASSUME NEW m \in Mixer, NEW i \in Channel, m.channel[i].sound \in Sounds
  PROVE  /\ Voice(m, i) \in Buffers
         /\ \A s \in Sounds : Entry(s) \in Buffers
         /\ \A s : Voice(m, i) = Entry(s) => ~m.channel[i].copy /\ m.channel[i].sound = s
         /\ ~m.channel[i].copy => Voice(m, i) = Entry(m.channel[i].sound)
         /\ \A j \in Channel : Voice(m, i) = Voice(m, j) =>
              /\ m.channel[i].sound = m.channel[j].sound
              /\ m.channel[i].copy <=> m.channel[j].copy
              /\ m.channel[i].copy => i = j
<1>1. Channel \subseteq 0 .. Channels /\ 0 \in 0 .. Channels /\ 0 \notin Channel
  BY SoundAssumption DEF Channel
<1>2. m.channel[i].copy \in BOOLEAN /\ \A j \in Channel : m.channel[j].copy \in BOOLEAN
  BY ChannelIs
<1> QED  BY <1>1, <1>2 DEF Voice, Entry, Buffers

\* Taking a part of a finite set away.
LEMMA LessCount ==
  ASSUME NEW S, NEW T, IsFiniteSet(S), T \subseteq S
  PROVE  /\ Cardinality(S \ T) = Cardinality(S) - Cardinality(T)
         /\ Cardinality(S) \in Nat /\ Cardinality(T) \in Nat /\ Cardinality(T) <= Cardinality(S)
<1>1. T \in SUBSET S /\ S \ T \in SUBSET S
  OBVIOUS
<1>2. IsFiniteSet(T) /\ Cardinality(T) <= Cardinality(S)
  BY <1>1, FS_Subset
<1>3. IsFiniteSet(S \ T)
  BY <1>1, FS_Subset
<1>4. Cardinality(S) \in Nat /\ Cardinality(T) \in Nat /\ Cardinality(S \ T) \in Nat
  BY <1>2, <1>3, FS_CardinalityType
<1> DEFINE D == S \ T
<1> HIDE DEF D
<1>5. Cardinality(D \cup T) = Cardinality(D) + Cardinality(T) - Cardinality(D \cap T)
  BY <1>2, <1>3, FS_Union DEF D
<1>6. D \cup T = S /\ D \cap T = {}
  BY DEF D
<1>7. Cardinality({}) = 0
  BY FS_EmptySet
<1> QED  BY <1>2, <1>4, <1>5, <1>6, <1>7 DEF D

\* A step of the mixer that stops channels and touches nothing that goes on.
StopsIn(m, k, S) ==
  /\ k \in Mixer /\ k.cache = m.cache /\ k.total = m.total
  /\ On(k) = On(m) \ S /\ \A i \in On(m) \ S : k.channel[i] = m.channel[i] /\ Voice(k, i) = Voice(m, i)
  /\ \A b \in Buffers : k.playing[b] = IF \E i \in S \cap On(m) : Voice(m, i) = b THEN "no"
                                      ELSE m.playing[b]
  /\ \A b \in Buffers : b \in k.live <=>
        b \in m.live /\ ~\E i \in S \cap On(m) : m.channel[i].copy /\ b = Voice(m, i)

LEMMA StoppedParts ==
  ASSUME NEW m \in Mixer, Tallied(m), NEW S
  PROVE  StopsIn(m, Stopped(m, S), S) /\ Tallied(Stopped(m, S))
<1> DEFINE off == S \cap On(m)
           gone(s) == {i \in off : m.channel[i].sound = s /\ m.channel[i].copy}
           channel == [i \in Channel |-> IF i \in off THEN Free ELSE m.channel[i]]
           playing == [b \in Buffers |-> IF \E i \in off : Voice(m, i) = b THEN "no"
                                         ELSE m.playing[b]]
           live == m.live \ {Voice(m, i) : i \in {k \in off : m.channel[k].copy}}
           refs == [s \in Sounds |-> m.refs[s] - Cardinality(gone(s))]
           active == m.active - Cardinality(off)
<1> DEFINE k == Stopped(m, S)
<1>1. k = [cache |-> m.cache, total |-> m.total, channel |-> channel, playing |-> playing,
           live |-> live, active |-> active, refs |-> refs]
  BY DEF Stopped
<1>2. /\ k.cache = m.cache /\ k.total = m.total /\ k.channel = channel /\ k.playing = playing
      /\ k.live = live /\ k.active = active /\ k.refs = refs
  BY <1>1
<1>3. Free \in ChannelState /\ Free.on = FALSE
  BY SoundAssumption DEF Free, ChannelState
<1>4. channel \in [Channel -> ChannelState]
  BY <1>3, MixerIs
<1>5. playing \in [Buffers -> {"no", "once", "loop"}] /\ live \in SUBSET Buffers
  BY MixerIs
<1>6. IsFiniteSet(On(m)) /\ off \subseteq On(m) /\ On(m) \subseteq Channel
  BY OnIs
<1>7. active \in Nat /\ active = Cardinality(On(m) \ off)
  <2> HIDE DEF off
  <2>1. PICK C : C = On(m)
    OBVIOUS
  <2>2. IsFiniteSet(C) /\ off \subseteq C
    BY <1>6, <2>1
  <2>3. /\ Cardinality(C \ off) = Cardinality(C) - Cardinality(off)
        /\ Cardinality(C) \in Nat /\ Cardinality(off) \in Nat /\ Cardinality(off) <= Cardinality(C)
    BY <2>2, LessCount
  <2>4. m.active = Cardinality(C)
    BY <2>1 DEF Tallied
  <2> QED  BY <2>1, <2>3, <2>4
<1>8. ASSUME NEW s \in Sounds
      PROVE  /\ m.refs[s] - Cardinality(gone(s)) \in Nat
             /\ m.refs[s] - Cardinality(gone(s)) = Cardinality(Copies(m, s) \ gone(s))
  <2>1. gone(s) \subseteq Copies(m, s) /\ Copies(m, s) \in SUBSET On(m)
    BY DEF Copies
  <2>2. IsFiniteSet(Copies(m, s))
    BY <1>6, <2>1, FS_Subset
  <2>3. PICK C : C = Copies(m, s)
    OBVIOUS
  <2>4. PICK G : G = gone(s)
    OBVIOUS
  <2>5. IsFiniteSet(C) /\ G \subseteq C
    BY <2>1, <2>2, <2>3, <2>4
  <2>6. /\ Cardinality(C \ G) = Cardinality(C) - Cardinality(G)
        /\ Cardinality(C) \in Nat /\ Cardinality(G) \in Nat /\ Cardinality(G) <= Cardinality(C)
    BY <2>5, LessCount
  <2>7. m.refs[s] = Cardinality(C)
    BY <2>3 DEF Tallied
  <2> HIDE DEF gone
  <2> QED  BY <2>3, <2>4, <2>6, <2>7
<1>9. refs \in [Sounds -> Nat]
  BY <1>8
<1>10. k \in Mixer
  <2> HIDE DEF channel, playing, live, refs, active, k
  <2> QED  BY <1>1, <1>4, <1>5, <1>7, <1>9, MixerIs DEF Mixer
<1> HIDE DEF k
<1>11. On(k) = On(m) \ off
  BY <1>2, <1>3, <1>6 DEF On
<1>12. \A i \in On(m) \ off : k.channel[i] = m.channel[i]
  BY <1>2, <1>6
<1>13. \A i \in On(m) \ off : Voice(k, i) = Voice(m, i)
  BY <1>12 DEF Voice
<1>14. On(m) \ off = On(m) \ S
  OBVIOUS
<1>15. \A b \in Buffers : k.playing[b] = IF \E i \in S \cap On(m) : Voice(m, i) = b THEN "no"
                                      ELSE m.playing[b]
  BY <1>2
<1>16. \A b \in Buffers : b \in k.live <=>
        b \in m.live /\ ~\E i \in S \cap On(m) : m.channel[i].copy /\ b = Voice(m, i)
  BY <1>2
<1>17. StopsIn(m, k, S)
  BY <1>2, <1>10, <1>11, <1>12, <1>13, <1>14, <1>15, <1>16 DEF StopsIn
<1>18. \A s \in Sounds : Copies(k, s) = Copies(m, s) \ gone(s)
  BY <1>11, <1>12 DEF Copies
<1>19. Tallied(k)
  <2>1. \A s \in Sounds : k.refs[s] = Cardinality(Copies(k, s))
    BY <1>2, <1>8, <1>18
  <2>2. k.active = Cardinality(On(k))
    BY <1>2, <1>7, <1>11
  <2> QED  BY <1>2, <2>1, <2>2 DEF Tallied
<1> QED  BY <1>17, <1>19 DEF k

\* stop_channel, of any channels, keeps the mixer sound.
LEMMA StoppedOK ==
  ASSUME NEW m, NEW room, MixerOK(m, room), NEW S
  PROVE  /\ MixerOK(Stopped(m, S), room) /\ StopsIn(m, Stopped(m, S), S)
         /\ Held(Stopped(m, S)) = Held(m) \ S
<1>1. PICK k : k = Stopped(m, S)
  OBVIOUS
<1>2. m \in Mixer /\ Tallied(m) /\ Voiced(m) /\ m.total <= room /\ IsInjective(m.cache)
  BY DEF MixerOK
<1>3. StopsIn(m, k, S) /\ Tallied(k)
  BY <1>1, <1>2, StoppedParts
<1>4. \A i \in On(k) : k.channel[i] = m.channel[i] /\ Voice(k, i) = Voice(m, i) /\ i \in On(m)
  BY <1>3 DEF StopsIn
<1>5. \A i \in On(m) : m.channel[i].sound \in ToSet(m.cache) /\ m.channel[i].sound \in Sounds /\ i \in Channel
  <2>1. ToSet(m.cache) \subseteq Sounds
    BY <1>2, MixerIs DEF ToSet
  <2> QED  BY <1>2, <2>1, OnIs DEF Voiced
<1>6. ASSUME NEW b \in Buffers
      PROVE  b \in k.live <=> Alive(k, b)
  <2>1. b \in k.live <=> Alive(m, b) /\ ~\E i \in S \cap On(m) : m.channel[i].copy /\ b = Voice(m, i)
    BY <1>2, <1>3 DEF StopsIn, Voiced
  <2>2. ASSUME NEW i \in On(k), b = Voice(k, i)
        PROVE  b \in k.live
    <3>1. b = Voice(m, i) /\ i \in On(m) /\ i \notin S
      BY <1>3, <1>4, <2>2 DEF StopsIn
    <3>2. ~\E j \in S \cap On(m) : m.channel[j].copy /\ b = Voice(m, j)
      BY <1>2, <1>5, <3>1, VoiceIs
    <3> QED  BY <2>1, <3>1, <3>2 DEF Alive
  <2>3. ASSUME NEW s \in ToSet(k.cache), b = Entry(s)
        PROVE  b \in k.live
    <3>1. s \in ToSet(m.cache)
      BY <1>3, <2>3 DEF StopsIn
    <3>2. ~\E j \in S \cap On(m) : m.channel[j].copy /\ b = Voice(m, j)
      BY <1>2, <1>5, <2>3, VoiceIs
    <3> QED  BY <2>1, <2>3, <3>1, <3>2 DEF Alive
  <2>4. ASSUME b \in k.live
        PROVE  Alive(k, b)
    <3>1. CASE \E s \in ToSet(m.cache) : b = Entry(s)
      BY <1>3, <3>1 DEF Alive, StopsIn
    <3>2. CASE \E i \in On(m) : b = Voice(m, i)
      <4>1. PICK i \in On(m) : b = Voice(m, i)
        BY <3>2
      <4>2. CASE i \in On(k)
        BY <1>4, <4>1, <4>2 DEF Alive
      <4>3. CASE i \notin On(k)
        <5>1. i \in S
          BY <1>3, <4>3 DEF StopsIn
        <5>2. ~m.channel[i].copy
          BY <2>1, <2>4, <4>1, <5>1
        <5>3. b = Entry(m.channel[i].sound)
          BY <1>2, <1>5, <4>1, <5>2, VoiceIs
        <5> QED  BY <1>5, <5>3, <1>3 DEF Alive, StopsIn
      <4> QED  BY <4>2, <4>3
    <3> QED  BY <2>1, <2>4, <3>1, <3>2 DEF Alive
  <2> QED  BY <2>2, <2>3, <2>4 DEF Alive
<1>7. \A i \in On(k) : k.channel[i].sound \in ToSet(k.cache)
  BY <1>3, <1>4, <1>5 DEF StopsIn
<1>8. Voiced(k)
  BY <1>6, <1>7 DEF Voiced
<1>9. MixerOK(k, room)
  BY <1>2, <1>3, <1>8 DEF MixerOK, StopsIn
<1>10. Held(k) = Held(m) \ S
  BY <1>3, <1>4 DEF Held, StopsIn
<1> QED  BY <1>1, <1>3, <1>9, <1>10

LEMMA CacheWithout ==
  ASSUME NEW S, NEW s \in Seq(S), IsInjective(s), NEW i \in DOMAIN s
  PROVE  /\ Without(s, {s[i]}) \in Seq(S) /\ IsInjective(Without(s, {s[i]}))
         /\ ToSet(Without(s, {s[i]})) = ToSet(s) \ {s[i]}
         /\ Len(Without(s, {s[i]})) = Len(s) - 1
<1>1. i \in 1 .. Len(s) /\ \A j, k \in 1 .. Len(s) : s[j] = s[k] => j = k
  BY DEF IsInjective
<1>2. PICK gone : gone = {s[i]}
  OBVIOUS
<1>3. PICK w : w = Without(s, gone)
  OBVIOUS
<1>4. w \in Seq(S)
  BY <1>3, WithoutIsSeq
<1>5. \A j, k \in 1 .. Len(w) : w[j] = w[k] => j = k
  BY <1>1, <1>3, WithoutDistinct
<1>6. IsInjective(w)
  BY <1>4, <1>5 DEF IsInjective
<1>7. ASSUME NEW y
      PROVE  (\E j \in 1 .. Len(w) : w[j] = y) <=> y \notin gone /\ \E j \in 1 .. Len(s) : s[j] = y
  BY <1>3, WithoutKeeps
<1>8. ToSet(w) = ToSet(s) \ {s[i]}
  <2>1. \A y : y \in ToSet(w) <=> \E j \in 1 .. Len(w) : w[j] = y
    BY <1>4 DEF ToSet
  <2>2. \A y : y \in ToSet(s) <=> \E j \in 1 .. Len(s) : s[j] = y
    BY DEF ToSet
  <2> QED  BY <1>2, <1>7, <2>1, <2>2
<1>9. Len(Without(s, {s[i]})) = Len(s) - 1
  BY <1>1, WithoutOne
<1> QED  BY <1>2, <1>3, <1>4, <1>6, <1>8, <1>9

\* What evictions leave is a part of what was there.
Thins(m, k, room) ==
  /\ MixerOK(k, room) /\ Held(k) \subseteq Held(m) /\ On(k) \subseteq On(m)
  /\ ToSet(k.cache) \subseteq ToSet(m.cache)

LEMMA EvictedOK ==
  ASSUME NEW m, NEW room \in Nat, MixerOK(m, room), NEW i \in DOMAIN m.cache
  PROVE  Thins(m, Evicted(m, m.cache[i]), room)
<1>1. m \in Mixer /\ Tallied(m) /\ Voiced(m) /\ m.total <= room /\ IsInjective(m.cache)
  BY DEF MixerOK
<1>2. PICK s \in Sounds : s = m.cache[i]
  BY <1>1, MixerIs
<1>3. PICK S : S = {j \in On(m) : m.channel[j].sound = s}
  OBVIOUS
<1>4. PICK k : k = Stopped(m, S)
  OBVIOUS
<1>5. MixerOK(k, room) /\ StopsIn(m, k, S) /\ Held(k) = Held(m) \ S
  BY <1>4, StoppedOK
<1>6. PICK e : e = Evicted(m, s)
  OBVIOUS
<1>7. PICK w : w = Without(m.cache, {s})
  OBVIOUS
<1>8. /\ w \in Seq(Sounds) /\ IsInjective(w) /\ ToSet(w) = ToSet(m.cache) \ {s}
      /\ Len(w) = Len(m.cache) - 1
  BY <1>1, <1>2, <1>7, MixerIs, CacheWithout
<1>9. k \in Mixer /\ Tallied(k) /\ Voiced(k) /\ k.cache = m.cache /\ k.total = m.total
  BY <1>5 DEF MixerOK, StopsIn
<1>10. e = [k EXCEPT !.live = @ \ {Entry(s)}, !.cache = w, !.total = @ - 1]
  BY <1>3, <1>4, <1>6, <1>7, <1>9, MixerIs DEF Evicted, Destroyed
<1>11. e = [cache |-> w, channel |-> k.channel, playing |-> k.playing, live |-> k.live \ {Entry(s)},
            active |-> k.active, refs |-> k.refs, total |-> k.total - 1]
  BY <1>9, <1>10 DEF Mixer
<1>12. /\ e.cache = w /\ e.channel = k.channel /\ e.playing = k.playing
       /\ e.live = k.live \ {Entry(s)} /\ e.active = k.active /\ e.refs = k.refs
       /\ e.total = k.total - 1
  BY <1>11
<1>13. Len(m.cache) \in Nat /\ Len(m.cache) >= 1 /\ k.total = Len(m.cache)
  BY <1>1, <1>9, MixerIs DEF Tallied
<1>14. e \in Mixer
  <2>1. k.total - 1 \in Nat
    BY <1>13
  <2> QED  BY <1>8, <1>9, <1>11, <2>1, MixerIs DEF Mixer
<1>15. On(e) = On(k) /\ (\A j \in On(k) : Voice(e, j) = Voice(k, j))
  BY <1>12 DEF On, Voice
<1>16. \A t : Copies(e, t) = Copies(k, t)
  BY <1>12, <1>15 DEF Copies
<1>17. Tallied(e)
  BY <1>8, <1>9, <1>12, <1>13, <1>15, <1>16 DEF Tallied
<1>18. Held(e) = Held(k) /\ On(k) = On(m) \ S
  BY <1>5, <1>12, <1>15 DEF Held, StopsIn
<1>19. \A j \in On(k) : k.channel[j].sound \in ToSet(m.cache) /\ k.channel[j].sound # s
                         /\ k.channel[j].sound \in Sounds /\ j \in Channel
  <2>1. ToSet(m.cache) \subseteq Sounds
    BY <1>1, MixerIs DEF ToSet
  <2>2. \A j \in On(k) : j \in On(m) /\ j \notin S /\ k.channel[j] = m.channel[j]
    BY <1>5 DEF StopsIn
  <2> QED  BY <1>3, <1>9, <2>1, <2>2, OnIs DEF Voiced
<1>20. ASSUME NEW b \in Buffers
       PROVE  b \in e.live <=> Alive(e, b)
  <2>1. b \in e.live <=> Alive(k, b) /\ b # Entry(s)
    BY <1>9, <1>12 DEF Voiced
  <2>2. \A t : Entry(t) = Entry(s) => t = s
    BY DEF Entry
  <2>3. \A j \in On(k) : Voice(k, j) # Entry(s)
    BY <1>9, <1>19, VoiceIs
  <2> QED  BY <1>8, <1>9, <1>12, <1>15, <2>1, <2>2, <2>3 DEF Alive
<1>21. Voiced(e)
  BY <1>8, <1>12, <1>15, <1>19, <1>20 DEF Voiced
<1>22. e.total <= room
  BY <1>1, <1>9, <1>12, <1>13
<1>23. MixerOK(e, room)
  BY <1>8, <1>12, <1>14, <1>17, <1>21, <1>22 DEF MixerOK
<1> QED  BY <1>2, <1>5, <1>6, <1>8, <1>12, <1>15, <1>18, <1>23 DEF Thins

\* One turn of the loop of ensure_sound_cache_capacity.
RoomStep(v) ==
  IF HasRoom(v) \/ Evictable(v) = {} THEN v
  ELSE Evicted(v, v.cache[Min(Evictable(v))])

LEMMA LeastIs ==
  ASSUME NEW S, S \subseteq Nat, S # {}
  PROVE  Min(S) \in S /\ \A y \in S : Min(S) <= y
<1>1. \E x \in S : \A y \in S : x <= y
  BY LeastIn
<1> QED  BY <1>1 DEF Min

LEMMA RoomStepOK ==
  ASSUME NEW m, NEW v, Thins(m, v, capacity), capacity \in Nat, HasRoom(m) => v = m
  PROVE  Thins(m, RoomStep(v), capacity) /\ (HasRoom(m) => RoomStep(v) = m)
<1>1. CASE HasRoom(v) \/ Evictable(v) = {}
  BY <1>1 DEF RoomStep
<1>2. CASE ~(HasRoom(v) \/ Evictable(v) = {})
  <2>1. MixerOK(v, capacity) /\ v \in Mixer
    BY DEF Thins, MixerOK
  <2>2. DOMAIN v.cache \subseteq Nat /\ Evictable(v) \subseteq DOMAIN v.cache
    BY <2>1, MixerIs DEF Evictable
  <2>3. Min(Evictable(v)) \in DOMAIN v.cache
    BY <1>2, <2>2, LeastIs
  <2>4. PICK i \in DOMAIN v.cache : i = Min(Evictable(v))
    BY <2>3
  <2>5. Thins(v, Evicted(v, v.cache[i]), capacity)
    BY <2>1, EvictedOK
  <2>6. RoomStep(v) = Evicted(v, v.cache[i])
    BY <1>2, <2>4 DEF RoomStep
  <2> QED  BY <1>2, <2>5, <2>6 DEF Thins
<1> QED  BY <1>1, <1>2

\* Making room leaves a sound mixer, and does nothing where there is room.
LEMMA MadeRoomOK ==
  ASSUME NEW m, MixerOK(m, capacity), capacity \in Nat
  PROVE  Thins(m, MadeRoom(m), capacity) /\ (HasRoom(m) => MadeRoom(m) = m)
<1> DEFINE n == Len(m.cache)
           Is(f) == f = [k \in 0 .. n |->
                          IF k = 0 THEN m
                          ELSE IF HasRoom(f[k - 1]) \/ Evictable(f[k - 1]) = {} THEN f[k - 1]
                          ELSE Evicted(f[k - 1], f[k - 1].cache[Min(Evictable(f[k - 1]))])]
           room == CHOOSE f : Is(f)
           V == {v \in Mixer : Thins(m, v, capacity) /\ (HasRoom(m) => v = m)}
<1>0. m \in Mixer
  BY DEF MixerOK
<1>1. n \in Nat
  BY <1>0, MixerIs
<1>2. m \in V
  BY <1>0 DEF Thins
<1>3. \A v \in V : RoomStep(v) \in V
  <2>1. ASSUME NEW v \in V
        PROVE  RoomStep(v) \in V
    <3>1. Thins(m, v, capacity) /\ (HasRoom(m) => v = m)
      OBVIOUS
    <3>2. Thins(m, RoomStep(v), capacity) /\ (HasRoom(m) => RoomStep(v) = m)
      BY <3>1, RoomStepOK
    <3> QED  BY <3>2 DEF Thins, MixerOK
  <2> QED  BY <2>1
<1>4. \E f : Is(f)
  <2> DEFINE step == [k \in 1 .. n |-> [v \in V |-> RoomStep(v)]]
  <2> HIDE DEF n, V
  <2>1. step \in [1 .. n -> [V -> V]]
    BY <1>3
  <2>2. \A k \in 1 .. n : \A v \in V : step[k][v] = RoomStep(v)
    OBVIOUS
  <2> HIDE DEF step
  <2>3. PICK f : FoldsIn(V, f, m, step, n)
    <3> HIDE DEF Is
    <3> QED  BY <1>1, <1>2, <2>1, FoldExists
  <2>4. f \in [0 .. n -> V] /\ f[0] = m /\ \A k \in 1 .. n : f[k] = step[k][f[k - 1]]
    BY <2>3 DEF FoldsIn
  <2>5. ASSUME NEW k \in 0 .. n
        PROVE  f[k] = IF k = 0 THEN m
                      ELSE IF HasRoom(f[k - 1]) \/ Evictable(f[k - 1]) = {} THEN f[k - 1]
                      ELSE Evicted(f[k - 1], f[k - 1].cache[Min(Evictable(f[k - 1]))])
    <3>1. CASE k = 0
      BY <2>4, <3>1
    <3>2. CASE k # 0
      <4>1. k \in 1 .. n /\ k - 1 \in 0 .. n
        BY <1>1, <3>2
      <4>2. f[k - 1] \in V
        BY <2>4, <4>1
      <4>3. f[k] = RoomStep(f[k - 1])
        BY <2>2, <2>4, <4>1, <4>2
      <4> QED  BY <3>2, <4>3 DEF RoomStep
    <3> QED  BY <3>1, <3>2
  <2>6. Is(f)
    BY <2>4, <2>5
  <2> QED  BY <2>6
<1>5. Is(room)
  <2> HIDE DEF Is
  <2> QED  BY <1>4
<1>6. MadeRoom(m) = IF capacity < 1 THEN m ELSE room[n]
  BY DEF MadeRoom
<1>7. \A k \in 0 .. n : room[k] = IF k = 0 THEN m ELSE RoomStep(room[k - 1])
  <2> HIDE DEF room, n
  <2> QED  BY <1>5 DEF RoomStep
<1> HIDE DEF room, Is, n, V
<1>8. room[n] \in V
  <2> DEFINE Good == {k \in Nat : room[k] \in V}
  <2>1. 0 \in Good
    BY <1>1, <1>2, <1>7
  <2>2. ASSUME NEW k \in 1 .. n, k - 1 \in Good PROVE k \in Good
    <3>1. room[k] = RoomStep(room[k - 1])
      BY <1>1, <1>7
    <3> QED  BY <1>3, <2>2, <3>1
  <2>3. \A k \in 0 .. n : k \in Good
    <3> HIDE DEF Good
    <3> QED  BY <1>1, <2>1, <2>2, NumbersAre
  <2> QED  BY <1>1, <2>3
<1>9. MadeRoom(m) \in V
  BY <1>2, <1>6, <1>8
<1> QED  BY <1>9 DEF V

LEMMA CacheIsSmall ==
  ASSUME NEW c \in Seq(Sounds), IsInjective(c), NEW s \in Sounds, s \notin ToSet(c)
  PROVE  Len(c) + 1 <= Cardinality(Sounds)
<1> DEFINE A == 1 .. Len(c)
           B == Sounds \ {s}
<1>1. Len(c) \in Nat /\ 1 \in Int /\ Len(c) \in Int
  OBVIOUS
<1>2. IsFiniteSet(B) /\ Cardinality(B) = Cardinality(Sounds) - 1 /\ Cardinality(Sounds) \in Nat
  <2>1. IsFiniteSet(Sounds)
    BY SoundAssumption
  <2> HIDE DEF B
  <2>2. PICK C : C = Sounds
    OBVIOUS
  <2>3. /\ IsFiniteSet(C \ {s})
        /\ Cardinality(C \ {s}) = IF s \in C THEN Cardinality(C) - 1 ELSE Cardinality(C)
    BY <2>1, <2>2, FS_RemoveElement
  <2>4. Cardinality(C) \in Nat
    BY <2>1, <2>2, FS_CardinalityType
  <2> QED  BY <2>2, <2>3, <2>4 DEF B
<1>3. c \in [A -> B]
  BY DEF ToSet
<1>4. Cardinality(A) = Len(c)
  <2>1. Cardinality(A) = IF 1 > Len(c) THEN 0 ELSE Len(c) - 1 + 1
    <3> HIDE DEF B
    <3>1. PICK a \in Int, b \in Int : a = 1 /\ b = Len(c)
      BY <1>1
    <3>2. Cardinality(a .. b) = IF a > b THEN 0 ELSE b - a + 1
      BY FS_Interval
    <3> QED  BY <3>1, <3>2
  <2> QED  BY <1>1, <2>1
<1> HIDE DEF A, B
<1>5. c \in Injection(A, B)
  BY <1>3 DEF Injection
<1>6. Cardinality(A) <= Cardinality(B)
  BY <1>2, <1>5, FS_Injection
<1> QED  BY <1>1, <1>2, <1>4, <1>6

\* What every call of the manager keeps: a sound mixer, no new sound that goes on and, where
\* the cache has room for all sounds, the loops and the channels of those that go on.
Tidy(m) ==
  /\ \A i \in On(m) : m.channel[i].fade > 0 => m.channel[i].by # NoObject
  /\ \A i \in Held(m) : m.channel[i].fade = 0
  /\ \A i \in Looping(m) : m.playing[Voice(m, i)] = "loop"
  /\ \A i \in Looping(m), j \in On(m) :
        m.channel[j].by # NoObject /\ j # i => Voice(m, j) # Voice(m, i)
Spared(m, k) == \A i \in Held(m) : i \in Held(k) /\ k.channel[i] = m.channel[i]
Carries(m, k) ==
  /\ MixerOK(k, capacity) /\ Held(k) \subseteq Held(m)
  /\ Roomy /\ Tidy(m) => Tidy(k) /\ Spared(m, k)

LEMMA CarriesSelf ==
  ASSUME NEW m, MixerOK(m, capacity)
  PROVE  Carries(m, m)
BY DEF Carries, Spared

LEMMA CarriesOn ==
  ASSUME NEW m, NEW k, NEW q, Carries(m, k), Carries(k, q)
  PROVE  Carries(m, q)
<1>1. Held(q) \subseteq Held(m) /\ MixerOK(q, capacity)
  BY DEF Carries
<1>2. ASSUME Roomy, Tidy(m) PROVE Tidy(q) /\ Spared(m, q)
  <2>1. Tidy(q) /\ Spared(m, k) /\ Spared(k, q)
    BY <1>2 DEF Carries
  <2> QED  BY <2>1 DEF Spared
<1> QED  BY <1>1, <1>2 DEF Carries

LEMMA SameChannels ==
  ASSUME NEW m, NEW k, k.channel = m.channel, k.playing = m.playing
  PROVE  /\ On(k) = On(m) /\ Held(k) = Held(m) /\ Looping(k) = Looping(m)
         /\ (\A s : Copies(k, s) = Copies(m, s)) /\ (\A i : Voice(k, i) = Voice(m, i))
         /\ (Tidy(m) => Tidy(k)) /\ Spared(m, k)
<1>1. On(k) = On(m) /\ (\A i : Voice(k, i) = Voice(m, i))
  BY DEF On, Voice
<1>2. Held(k) = Held(m) /\ Looping(k) = Looping(m) /\ (\A s : Copies(k, s) = Copies(m, s))
  BY <1>1 DEF Held, Looping, Copies
<1> QED  BY <1>1, <1>2 DEF Tidy, Spared

LEMMA CacheAppend ==
  ASSUME NEW S, NEW c \in Seq(S), IsInjective(c), NEW s \in S, s \notin ToSet(c)
  PROVE  /\ Append(c, s) \in Seq(S) /\ IsInjective(Append(c, s))
         /\ ToSet(Append(c, s)) = ToSet(c) \union {s} /\ Len(Append(c, s)) = Len(c) + 1
<1>1. PICK a : a = Append(c, s)
  OBVIOUS
<1>2. /\ a \in Seq(S) /\ Len(a) = Len(c) + 1 /\ a[Len(c) + 1] = s
      /\ \A i \in 1 .. Len(c) : a[i] = c[i]
  BY <1>1
<1>3. DOMAIN a = 1 .. Len(c) + 1 /\ DOMAIN c = 1 .. Len(c) /\ Len(c) \in Nat
  BY <1>2
<1>4. \A i \in 1 .. Len(c) + 1 : i \in 1 .. Len(c) \/ i = Len(c) + 1
  BY <1>3
<1>5. \A i \in 1 .. Len(c) : c[i] # s
  BY <1>3 DEF ToSet
<1>6. IsInjective(a)
  <2>1. \A i, j \in 1 .. Len(c) : c[i] = c[j] => i = j
    BY <1>3 DEF IsInjective
  <2>2. ASSUME NEW i \in 1 .. Len(c) + 1, NEW j \in 1 .. Len(c) + 1, a[i] = a[j]
        PROVE  i = j
    BY <1>2, <1>4, <1>5, <2>1, <2>2
  <2> QED  BY <1>3, <2>2 DEF IsInjective
<1>7. ToSet(a) = ToSet(c) \union {s}
  <2>1. \A y : y \in ToSet(a) <=> \E i \in 1 .. Len(c) + 1 : a[i] = y
    BY <1>3 DEF ToSet
  <2>2. \A y : y \in ToSet(c) <=> \E i \in 1 .. Len(c) : c[i] = y
    BY <1>3 DEF ToSet
  <2>3. Len(c) + 1 \in 1 .. Len(c) + 1 /\ 1 .. Len(c) \subseteq 1 .. Len(c) + 1
    BY <1>3
  <2>4. ASSUME NEW y, y \in ToSet(a) PROVE y \in ToSet(c) \union {s}
    BY <1>2, <1>4, <2>1, <2>2, <2>4
  <2>5. ASSUME NEW y, y \in ToSet(c) \union {s} PROVE y \in ToSet(a)
    BY <1>2, <2>1, <2>2, <2>3, <2>5
  <2> QED  BY <2>4, <2>5
<1> QED  BY <1>1, <1>2, <1>6, <1>7

LEMMA FoundOK ==
  ASSUME NEW m, MixerOK(m, capacity), capacity \in Nat, NEW s \in Sounds, NEW loads
  PROVE  Carries(m, Found(m, s, loads))
<1>1. m \in Mixer /\ Tallied(m) /\ Voiced(m) /\ m.total <= capacity /\ IsInjective(m.cache)
  BY DEF MixerOK
<1>2. CASE s \in ToSet(m.cache)
  <2>1. PICK i \in DOMAIN m.cache : s = m.cache[i]
    BY <1>2 DEF ToSet
  <2>2. PICK w : w = Without(m.cache, {s})
    OBVIOUS
  <2>3. /\ w \in Seq(Sounds) /\ IsInjective(w) /\ ToSet(w) = ToSet(m.cache) \ {s}
        /\ Len(w) = Len(m.cache) - 1
    BY <1>1, <2>1, <2>2, MixerIs, CacheWithout
  <2>4. PICK a : a = Append(w, s)
    OBVIOUS
  <2>5. /\ a \in Seq(Sounds) /\ IsInjective(a) /\ ToSet(a) = ToSet(w) \union {s}
        /\ Len(a) = Len(w) + 1
    BY <2>3, <2>4, CacheAppend
  <2>6. Len(m.cache) \in Nat
    BY <1>1, MixerIs
  <2>7. ToSet(a) = ToSet(m.cache) /\ Len(a) = Len(m.cache)
    BY <1>2, <2>3, <2>5, <2>6
  <2>8. PICK k : k = Found(m, s, loads)
    OBVIOUS
  <2>9. k = [m EXCEPT !.cache = a]
    BY <1>2, <2>2, <2>4, <2>8 DEF Found
  <2>10. /\ k \in Mixer /\ k.cache = a /\ k.channel = m.channel /\ k.playing = m.playing
         /\ k.live = m.live /\ k.active = m.active /\ k.refs = m.refs /\ k.total = m.total
    BY <1>1, <2>5, <2>9 DEF Mixer
  <2>11. /\ On(k) = On(m) /\ Held(k) = Held(m) /\ (\A t : Copies(k, t) = Copies(m, t))
         /\ (\A j : Voice(k, j) = Voice(m, j)) /\ (Tidy(m) => Tidy(k)) /\ Spared(m, k)
    BY <2>10, SameChannels
  <2>12. Tallied(k)
    BY <1>1, <2>7, <2>10, <2>11 DEF Tallied
  <2>13. Voiced(k)
    BY <1>1, <2>7, <2>10, <2>11 DEF Voiced, Alive
  <2>14. MixerOK(k, capacity)
    BY <1>1, <2>5, <2>10, <2>12, <2>13 DEF MixerOK
  <2> QED  BY <2>8, <2>11, <2>14 DEF Carries
<1>3. CASE s \notin ToSet(m.cache)
  <2>1. PICK v : v = MadeRoom(m)
    OBVIOUS
  <2>2. Thins(m, v, capacity) /\ (HasRoom(m) => v = m)
    BY <2>1, MadeRoomOK
  <2>3. ASSUME Roomy PROVE v = m
    <3>1. Len(m.cache) + 1 <= Cardinality(Sounds) /\ Len(m.cache) \in Nat
      BY <1>1, <1>3, MixerIs, CacheIsSmall
    <3>2. Cardinality(Sounds) \in Nat
      BY SoundAssumption, FS_CardinalityType
    <3>3. m.total = Len(m.cache)
      BY <1>1 DEF Tallied
    <3>4. HasRoom(m)
      BY <2>3, <3>1, <3>2, <3>3 DEF HasRoom, Roomy
    <3> QED  BY <2>2, <3>4
  <2>4. Carries(m, v)
    BY <2>2, <2>3, CarriesSelf DEF Thins, Carries
  <2>5. PICK k : k = Found(m, s, loads)
    OBVIOUS
  <2>6. CASE ~(HasRoom(v) /\ loads)
    BY <1>3, <2>1, <2>4, <2>6 DEF Found
  <2>7. s \notin ToSet(v.cache)
    BY <1>3, <2>2 DEF Thins
  <2>8. CASE HasRoom(v) /\ loads
    <3>1. v \in Mixer /\ Tallied(v) /\ Voiced(v) /\ v.total <= capacity /\ IsInjective(v.cache)
      BY <2>2 DEF Thins, MixerOK
    <3>2. PICK a : a = Append(v.cache, s)
      OBVIOUS
    <3>3. /\ a \in Seq(Sounds) /\ IsInjective(a) /\ ToSet(a) = ToSet(v.cache) \union {s}
          /\ Len(a) = Len(v.cache) + 1
      BY <2>7, <3>1, <3>2, MixerIs, CacheAppend
    <3>4. k = [v EXCEPT !.cache = a, !.total = @ + 1, !.live = @ \union {Entry(s)}]
      BY <1>3, <2>1, <2>5, <2>8, <3>2 DEF Found
    <3>5. v.total + 1 \in Nat /\ v.live \union {Entry(s)} \in SUBSET Buffers
      BY <3>1, MixerIs, SoundAssumption DEF Entry, Buffers
    <3>6. /\ k \in Mixer /\ k.cache = a /\ k.channel = v.channel /\ k.playing = v.playing
          /\ k.live = v.live \union {Entry(s)} /\ k.active = v.active /\ k.refs = v.refs
          /\ k.total = v.total + 1
      BY <3>1, <3>3, <3>4, <3>5 DEF Mixer
    <3>7. /\ On(k) = On(v) /\ Held(k) = Held(v) /\ (\A t : Copies(k, t) = Copies(v, t))
          /\ (\A j : Voice(k, j) = Voice(v, j)) /\ (Tidy(v) => Tidy(k)) /\ Spared(v, k)
      BY <3>6, SameChannels
    <3>8. Tallied(k)
      BY <3>1, <3>3, <3>6, <3>7 DEF Tallied
    <3>9. Voiced(k)
      <4>1. \A j \in On(k) : k.channel[j].sound \in ToSet(k.cache)
        BY <3>1, <3>3, <3>6, <3>7 DEF Voiced
      <4>2. \A b \in Buffers : b \in k.live <=> Alive(k, b)
        BY <3>1, <3>3, <3>6, <3>7 DEF Voiced, Alive
      <4> QED  BY <4>1, <4>2 DEF Voiced
    <3>10. k.total <= capacity
      BY <2>8, <3>6 DEF HasRoom
    <3>11. MixerOK(k, capacity)
      BY <3>3, <3>6, <3>8, <3>9, <3>10 DEF MixerOK
    <3>12. Carries(v, k)
      BY <3>7, <3>11 DEF Carries
    <3> QED  BY <2>4, <2>5, <3>12, CarriesOn
  <2> QED  BY <2>6, <2>8
<1> QED  BY <1>2, <1>3

\* What start_channel did where it found a channel.
Starts(m, k, i, s, by) ==
  /\ i \in Channel \ On(m) /\ On(k) = On(m) \union {i} /\ Held(k) = Held(m)
  /\ k.channel[i].on /\ k.channel[i].sound = s /\ k.channel[i].by = by
  /\ ~k.channel[i].kept /\ k.channel[i].fade = 0

LEMMA StartedOK ==
  ASSUME NEW m, MixerOK(m, capacity), NEW s \in Sounds, NEW by \in Noisy \union {NoObject},
         NEW plays, NEW r, r = Started(m, s, by, plays)
  PROVE  /\ Carries(m, r.m)
         /\ r.to = None => r.m = m
         /\ r.to # None => Starts(m, r.m, r.to, s, by)
<1>1. m \in Mixer /\ Tallied(m) /\ Voiced(m) /\ m.total <= capacity /\ IsInjective(m.cache)
  BY DEF MixerOK
<1>2. CASE s \notin ToSet(m.cache) \/ m.active >= Channels \/ ~plays
  <2>1. r.to = None /\ r.m = m
    BY <1>2 DEF Started
  <2> QED  BY <2>1, CarriesSelf
<1>3. CASE ~(s \notin ToSet(m.cache) \/ m.active >= Channels \/ ~plays)
  <2>1. Channel \ On(m) # {}
    <3>1. m.active = Cardinality(On(m)) /\ m.active < Channels
      BY <1>1, <1>3, MixerIs, SoundAssumption DEF Tallied
    <3> QED  BY <3>1, OnIs
  <2>2. PICK i \in Channel \ On(m) : i = Min(Channel \ On(m))
    BY <2>1, LeastIs, OnIs
  <2>3. PICK copy \in BOOLEAN : copy = (m.playing[Entry(s)] # "no")
    OBVIOUS
  <2>4. PICK c : c = [Free EXCEPT !.on = TRUE, !.sound = s, !.copy = copy, !.by = by]
    OBVIOUS
  <2>5. /\ c \in ChannelState /\ c.on = TRUE /\ c.sound = s /\ c.copy = copy /\ c.kept = FALSE
        /\ c.fade = 0 /\ c.by = by
    <3>1. c = [on |-> TRUE, sound |-> s, copy |-> copy, kept |-> FALSE, fade |-> 0, by |-> by]
      BY <2>4 DEF Free
    <3>2. 0 \in 0 .. FadeUpdates
      BY SoundAssumption
    <3>3. c \in ChannelState
      BY <3>1, <3>2 DEF ChannelState
    <3> QED  BY <3>1, <3>3
  <2>6. PICK b : b = <<s, IF copy THEN i ELSE 0>>
    OBVIOUS
  <2>7. PICK p \in {"once", "loop"} : p = IF by # NoObject /\ s \in Loops THEN "loop" ELSE "once"
    OBVIOUS
  <2>8. PICK k : k = [m EXCEPT !.channel[i] = c, !.active = @ + 1, !.refs[s] = IF copy THEN @ + 1 ELSE @]
    OBVIOUS
  <2>9. PICK channel : channel = [m.channel EXCEPT ![i] = c]
    OBVIOUS
  <2>10. PICK refs : refs = [m.refs EXCEPT ![s] = IF copy THEN @ + 1 ELSE @]
    OBVIOUS
  <2>11. channel \in [Channel -> ChannelState] /\ refs \in [Sounds -> Nat] /\ m.active + 1 \in Nat
    BY <1>1, <2>2, <2>5, <2>9, <2>10, MixerIs
  <2>12. /\ k \in Mixer /\ k.channel = channel /\ k.active = m.active + 1 /\ k.refs = refs
         /\ k.cache = m.cache /\ k.live = m.live /\ k.playing = m.playing /\ k.total = m.total
    <3>1. k = [m EXCEPT !.channel = channel, !.active = m.active + 1, !.refs = refs]
      BY <1>1, <2>8, <2>9, <2>10 DEF Mixer
    <3> QED  BY <1>1, <2>11, <3>1 DEF Mixer
  <2>13. i \in Channel /\ channel[i] = c /\ \A j \in Channel \ {i} : channel[j] = m.channel[j]
    BY <1>1, <2>2, <2>9, MixerIs
  <2>14. Voice(k, i) = b
    BY <2>5, <2>6, <2>12, <2>13 DEF Voice
  <2>15. PICK q : q = [k EXCEPT !.live = @ \union {b}, !.playing[b] = p]
    OBVIOUS
  <2>16. r.to = i /\ r.m = q
    <3>1. r = LET ii == Min(Channel \ On(m))
                  cc == m.playing[Entry(s)] # "no"
                  kk == [m EXCEPT !.channel[ii] = [Free EXCEPT !.on = TRUE, !.sound = s,
                                                            !.copy = cc, !.by = by],
                            !.active = @ + 1, !.refs[s] = IF cc THEN @ + 1 ELSE @]
              IN  [to |-> ii, m |-> [kk EXCEPT !.live = @ \union {Voice(kk, ii)},
                     !.playing[Voice(kk, ii)] = IF by # NoObject /\ s \in Loops THEN "loop" ELSE "once"]]
      BY <1>3 DEF Started
    <3>2. r = [to |-> i, m |-> [k EXCEPT !.live = @ \union {Voice(k, i)},
                     !.playing[Voice(k, i)] = IF by # NoObject /\ s \in Loops THEN "loop" ELSE "once"]]
      BY <2>2, <2>3, <2>4, <2>8, <3>1
    <3>3. r = [to |-> i, m |-> q]
      BY <2>7, <2>14, <2>15, <3>2
    <3> QED  BY <3>3
  <2>17. b \in Buffers /\ b[1] = s /\ (copy => b[2] = i) /\ (~copy => b = Entry(s)) /\ Entry(s) \in Buffers
    BY <2>2, <2>6, SoundAssumption DEF Buffers, Channel, Entry
  <2>18. PICK playing : playing = [m.playing EXCEPT ![b] = p]
    OBVIOUS
  <2>19. playing \in [Buffers -> {"no", "once", "loop"}] /\ m.live \union {b} \in SUBSET Buffers
         /\ playing[b] = p /\ \A x \in Buffers : x # b => playing[x] = m.playing[x]
    BY <1>1, <2>17, <2>18, MixerIs
  <2>20. /\ q \in Mixer /\ q.channel = channel /\ q.active = m.active + 1 /\ q.refs = refs
         /\ q.cache = m.cache /\ q.live = m.live \union {b} /\ q.playing = playing /\ q.total = m.total
    <3>1. q = [k EXCEPT !.live = m.live \union {b}, !.playing = playing]
      BY <2>12, <2>15, <2>18 DEF Mixer
    <3> QED  BY <2>12, <2>19, <3>1 DEF Mixer
  <2>21. On(q) = On(m) \union {i} /\ i \notin On(m)
    BY <2>2, <2>5, <2>13, <2>20, OnIs DEF On
  <2>22. Held(q) = Held(m)
    BY <2>5, <2>13, <2>20, <2>21, OnIs DEF Held
  <2>23. \A j \in On(m) : q.channel[j] = m.channel[j] /\ j # i /\ j \in Channel
    BY <2>13, <2>20, <2>21, OnIs
  <2>24. Voice(q, i) = b /\ \A j \in On(m) : Voice(q, j) = Voice(m, j)
    BY <2>5, <2>6, <2>13, <2>20, <2>23 DEF Voice
  <2>25. \A j \in On(m) : m.channel[j].sound \in Sounds /\ m.channel[j].sound \in ToSet(m.cache)
    <3>1. ToSet(m.cache) \subseteq Sounds
      BY <1>1, MixerIs DEF ToSet
    <3> QED  BY <1>1, <3>1 DEF Voiced
  <2>26. Tallied(q)
    <3>1. Cardinality(On(q)) = Cardinality(On(m)) + 1
      <4>1. PICK C : C = On(m)
        OBVIOUS
      <4>2. IsFiniteSet(C) /\ i \notin C
        BY <2>21, <4>1, OnIs
      <4>3. Cardinality(C \cup {i}) = IF i \in C THEN Cardinality(C) ELSE Cardinality(C) + 1
        BY <4>2, FS_AddElement
      <4> QED  BY <2>21, <4>1, <4>2, <4>3
    <3>2. ASSUME NEW t \in Sounds PROVE q.refs[t] = Cardinality(Copies(q, t))
      <4>1. CASE t = s /\ copy
        <5>1. Copies(q, t) = Copies(m, t) \union {i} /\ i \notin Copies(m, t)
          BY <2>5, <2>13, <2>20, <2>21, <2>23, <4>1 DEF Copies
        <5>2. PICK C : C = Copies(m, t)
          OBVIOUS
        <5>3. IsFiniteSet(C)
          <6>1. IsFiniteSet(On(m)) /\ C \in SUBSET On(m)
            BY <5>2, OnIs DEF Copies
          <6> QED  BY <6>1, FS_Subset
        <5>4. Cardinality(C \cup {i}) = IF i \in C THEN Cardinality(C) ELSE Cardinality(C) + 1
          BY <5>3, FS_AddElement
        <5>5. q.refs[t] = m.refs[t] + 1
          BY <1>1, <2>10, <2>20, <4>1, MixerIs
        <5> QED  BY <1>1, <5>1, <5>2, <5>4, <5>5 DEF Tallied
      <4>2. CASE ~(t = s /\ copy)
        <5>1. Copies(q, t) = Copies(m, t)
          BY <2>5, <2>13, <2>20, <2>21, <2>23, <4>2 DEF Copies
        <5>2. q.refs[t] = m.refs[t]
          BY <1>1, <2>10, <2>20, <4>2, MixerIs
        <5> QED  BY <1>1, <5>1, <5>2 DEF Tallied
      <4> QED  BY <4>1, <4>2
    <3> QED  BY <1>1, <2>20, <3>1, <3>2 DEF Tallied
  <2>27. Voiced(q)
    <3>1. \A j \in On(q) : q.channel[j].sound \in ToSet(q.cache)
      BY <1>3, <2>5, <2>13, <2>20, <2>21, <2>23, <2>25
    <3>2. ASSUME NEW x \in Buffers PROVE x \in q.live <=> Alive(q, x)
      <4>1. Alive(q, x) <=> Alive(m, x) \/ x = b
        BY <2>20, <2>21, <2>24 DEF Alive
      <4> QED  BY <1>1, <2>20, <4>1 DEF Voiced
    <3> QED  BY <3>1, <3>2 DEF Voiced
  <2>28. MixerOK(q, capacity)
    BY <1>1, <2>20, <2>26, <2>27 DEF MixerOK
  <2>29. Spared(m, q)
    BY <2>22, <2>23 DEF Spared, Held
  <2>30. ASSUME Tidy(m) PROVE Tidy(q)
    <3>1. \A j \in Looping(m) : j \in On(m) /\ Voice(m, j) # b /\ Voice(m, j) \in Buffers
                                 /\ m.playing[Voice(m, j)] = "loop"
      <4>1. ASSUME NEW j \in Looping(m)
            PROVE  j \in On(m) /\ Voice(m, j) # b /\ Voice(m, j) \in Buffers
                   /\ m.playing[Voice(m, j)] = "loop"
        <5>1. j \in On(m) /\ m.playing[Voice(m, j)] = "loop"
          BY <2>30 DEF Tidy, Looping
        <5>2. Voice(m, j) \in Buffers
          BY <1>1, <2>23, <2>25, <5>1, VoiceIs
        <5>3. CASE copy
          <6>1. Voice(m, j)[2] = IF m.channel[j].copy THEN j ELSE 0
            BY DEF Voice
          <6>2. i # 0 /\ i # j
            BY <2>2, <2>23, <5>1, OnIs
          <6> QED  BY <2>17, <5>1, <5>2, <5>3, <6>1, <6>2
        <5>4. CASE ~copy
          BY <2>3, <2>17, <5>1, <5>2, <5>4
        <5> QED  BY <5>1, <5>2, <5>3, <5>4
      <4> QED  BY <4>1
    <3>2. \A j \in On(q) : q.channel[j].fade > 0 => q.channel[j].by # NoObject
      BY <2>5, <2>13, <2>20, <2>21, <2>23, <2>30 DEF Tidy
    <3>3. \A j \in Held(q) : q.channel[j].fade = 0
      BY <2>22, <2>23, <2>30 DEF Tidy, Held
    <3>4. \A j \in Looping(q) : j \in Looping(m) \/ (j = i /\ by # NoObject /\ s \in Loops)
      BY <2>5, <2>13, <2>20, <2>21, <2>23 DEF Looping
    <3>5. \A j \in Looping(q) : q.playing[Voice(q, j)] = "loop"
      BY <2>7, <2>19, <2>20, <2>24, <3>1, <3>4
    <3>6. ASSUME NEW j \in Looping(q), NEW l \in On(q), q.channel[l].by # NoObject, l # j
          PROVE  Voice(q, l) # Voice(q, j)
      <4>1. CASE j = i
        <5>1. l \in On(m) /\ m.channel[l].by # NoObject /\ s \in Loops
          BY <2>21, <2>23, <3>4, <3>6, <4>1 DEF Looping
        <5>2. Voice(q, l) = Voice(m, l) /\ Voice(q, j) = b
          BY <2>24, <4>1, <5>1
        <5>3. CASE m.channel[l].sound = s
          <6>1. l \in Looping(m)
            BY <5>1, <5>3 DEF Looping
          <6> QED  BY <3>1, <5>2, <6>1
        <5>4. CASE m.channel[l].sound # s
          BY <2>17, <5>2, <5>4 DEF Voice
        <5> QED  BY <5>3, <5>4
      <4>2. CASE j # i
        <5>1. j \in Looping(m)
          BY <3>4, <4>2
        <5>2. Voice(q, j) = Voice(m, j) /\ Voice(m, j) # b
          BY <2>24, <3>1, <5>1
        <5>3. CASE l = i
          BY <2>24, <5>2, <5>3
        <5>4. CASE l # i
          <6>1. l \in On(m) /\ m.channel[l].by # NoObject
            BY <2>21, <2>23, <3>6, <5>4
          <6> QED  BY <2>24, <2>30, <3>6, <5>1, <5>2, <6>1 DEF Tidy
        <5> QED  BY <5>3, <5>4
      <4> QED  BY <4>1, <4>2
    <3> QED  BY <3>2, <3>3, <3>5, <3>6 DEF Tidy
  <2>31. Carries(m, q)
    BY <2>22, <2>28, <2>29, <2>30 DEF Carries
  <2>32. Starts(m, q, i, s, by)
    BY <2>2, <2>5, <2>13, <2>20, <2>21, <2>22 DEF Starts
  <2>33. i # None
    BY <2>2, OnIs DEF None
  <2> QED  BY <2>16, <2>31, <2>32, <2>33
<1> QED  BY <1>2, <1>3

\* A step that marks channel i anew: kept or not, how far it has faded.
Marks(m, k, i) ==
  /\ k \in Mixer /\ k = [m EXCEPT !.channel = k.channel] /\ i \in Channel
  /\ \A j \in Channel \ {i} : k.channel[j] = m.channel[j]
  /\ k.channel[i].on = m.channel[i].on /\ k.channel[i].sound = m.channel[i].sound
  /\ k.channel[i].copy = m.channel[i].copy /\ k.channel[i].by = m.channel[i].by

LEMMA MarksOK ==
  ASSUME NEW m, NEW room, MixerOK(m, room), NEW k, NEW i, Marks(m, k, i)
  PROVE  /\ MixerOK(k, room) /\ On(k) = On(m) /\ Looping(k) = Looping(m)
         /\ \A j \in Channel : Voice(k, j) = Voice(m, j) /\ k.channel[j].by = m.channel[j].by
         /\ k.playing = m.playing
<1>1. m \in Mixer /\ Tallied(m) /\ Voiced(m) /\ m.total <= room /\ IsInjective(m.cache)
  BY DEF MixerOK
<1>2. /\ k \in Mixer /\ k.cache = m.cache /\ k.playing = m.playing /\ k.live = m.live
      /\ k.active = m.active /\ k.refs = m.refs /\ k.total = m.total
  <2>1. PICK channel : channel = k.channel
    OBVIOUS
  <2>2. k = [m EXCEPT !.channel = channel] /\ k \in Mixer
    BY <2>1 DEF Marks
  <2> QED  BY <1>1, <2>2 DEF Mixer
<1>3. \A j \in Channel : /\ k.channel[j].on = m.channel[j].on
                         /\ k.channel[j].sound = m.channel[j].sound
                         /\ k.channel[j].copy = m.channel[j].copy
                         /\ k.channel[j].by = m.channel[j].by
  BY DEF Marks
<1>4. On(k) = On(m) /\ On(m) \subseteq Channel
  BY <1>3 DEF On
<1>5. \A j \in Channel : Voice(k, j) = Voice(m, j)
  BY <1>3 DEF Voice
<1>6. Looping(k) = Looping(m) /\ \A s : Copies(k, s) = Copies(m, s)
  BY <1>3, <1>4 DEF Looping, Copies
<1>7. Tallied(k)
  BY <1>1, <1>2, <1>4, <1>6 DEF Tallied
<1>8. Voiced(k)
  <2>1. \A b : Alive(k, b) <=> Alive(m, b)
    BY <1>2, <1>4, <1>5 DEF Alive
  <2> QED  BY <1>1, <1>2, <1>3, <1>4, <2>1 DEF Voiced
<1>9. MixerOK(k, room)
  BY <1>1, <1>2, <1>7, <1>8 DEF MixerOK
<1> QED  BY <1>2, <1>3, <1>4, <1>5, <1>6, <1>9

\* Channels may stop where no loop that stays plays through their buffers.
LEMMA StoppedTidy ==
  ASSUME NEW m, MixerOK(m, capacity), Tidy(m), NEW S,
         \A i \in S \cap On(m) : \A l \in Looping(m) \ S : Voice(m, i) # Voice(m, l)
  PROVE  Tidy(Stopped(m, S)) /\ \A j \in Held(m) \ S : Stopped(m, S).channel[j] = m.channel[j]
<1>1. PICK k : k = Stopped(m, S)
  OBVIOUS
<1>2. StopsIn(m, k, S) /\ Held(k) = Held(m) \ S /\ MixerOK(k, capacity)
  BY <1>1, StoppedOK
<1>3. On(k) = On(m) \ S /\ \A i \in On(m) \ S : k.channel[i] = m.channel[i] /\ Voice(k, i) = Voice(m, i)
  BY <1>2 DEF StopsIn
<1>4. Looping(k) = Looping(m) \ S
  BY <1>3 DEF Looping
<1>5. \A l \in Looping(m) : l \in On(m) /\ Voice(m, l) \in Buffers
  <2>1. ToSet(m.cache) \subseteq Sounds /\ m \in Mixer /\ Voiced(m)
    BY MixerIs DEF ToSet, MixerOK
  <2>2. \A l \in On(m) : l \in Channel /\ m.channel[l].sound \in Sounds
    BY <2>1, OnIs DEF Voiced
  <2> QED  BY <2>1, <2>2, VoiceIs DEF Looping
<1>6. \A l \in Looping(k) : k.playing[Voice(k, l)] = "loop"
  <2>1. ASSUME NEW l \in Looping(k) PROVE k.playing[Voice(k, l)] = "loop"
    <3>1. l \in Looping(m) \ S /\ Voice(k, l) = Voice(m, l) /\ Voice(m, l) \in Buffers
      BY <1>3, <1>4, <1>5
    <3>2. ~\E i \in S \cap On(m) : Voice(m, i) = Voice(m, l)
      BY <3>1
    <3>3. k.playing[Voice(m, l)] = m.playing[Voice(m, l)]
      BY <1>2, <3>1, <3>2 DEF StopsIn
    <3> QED  BY <3>1, <3>3 DEF Tidy
  <2> QED  BY <2>1
<1>7. \A i \in On(k) : k.channel[i].fade > 0 => k.channel[i].by # NoObject
  BY <1>3 DEF Tidy
<1>8. \A i \in Held(k) : k.channel[i].fade = 0
  BY <1>2, <1>3 DEF Tidy, Held
<1>9. \A i \in Looping(k), j \in On(k) :
        k.channel[j].by # NoObject /\ j # i => Voice(k, j) # Voice(k, i)
  BY <1>3, <1>4, <1>5 DEF Tidy
<1>10. Tidy(k)
  BY <1>6, <1>7, <1>8, <1>9 DEF Tidy
<1>11. \A j \in Held(m) \ S : k.channel[j] = m.channel[j]
  BY <1>3 DEF Held
<1> QED  BY <1>1, <1>10, <1>11

\* stop_continuous_sound: the sound of channel i goes on no longer, and no other is touched
\* if the channel plays an object's sound.
LEMMA ContinuousOK ==
  ASSUME NEW m, MixerOK(m, capacity), NEW i, NEW fades, NEW q, q = StopContinuous(m, i, fades)
  PROVE  /\ MixerOK(q, capacity) /\ On(q) \subseteq On(m) /\ Held(q) \subseteq Held(m)
         /\ ~suspended => Held(q) = Held(m) \ {i}
         /\ Tidy(m) /\ (i \in On(m) => m.channel[i].by # NoObject) =>
              Tidy(q) /\ \A j \in Held(m) \ {i} : j \in Held(q) /\ q.channel[j] = m.channel[j]
<1>0. m \in Mixer
  BY DEF MixerOK
<1>1. CASE suspended \/ i \notin On(m)
  <2>1. q = m
    BY <1>1 DEF StopContinuous
  <2>2. i \notin On(m) => i \notin Held(m)
    BY DEF Held
  <2> QED  BY <1>1, <2>1, <2>2
<1>2. CASE ~(suspended \/ i \notin On(m))
  <2>1. i \in Channel /\ i \in On(m) /\ ~suspended
    BY <1>2, OnIs
  <2>2. PICK c : c = [m.channel[i] EXCEPT !.kept = FALSE]
    OBVIOUS
  <2>3. /\ c \in ChannelState /\ c.kept = FALSE /\ c.fade = m.channel[i].fade /\ c.on = m.channel[i].on
        /\ c.sound = m.channel[i].sound /\ c.copy = m.channel[i].copy /\ c.by = m.channel[i].by
    <3>1. m.channel[i] \in ChannelState
      BY <1>0, <2>1, ChannelIs
    <3> QED  BY <2>2, <3>1 DEF ChannelState
  <2>4. PICK k : k = [m EXCEPT !.channel[i].kept = FALSE]
    OBVIOUS
  <2>5. PICK channel : channel = [m.channel EXCEPT ![i] = c]
    OBVIOUS
  <2>6. /\ channel \in [Channel -> ChannelState] /\ channel[i] = c
        /\ \A j \in Channel \ {i} : channel[j] = m.channel[j]
    BY <1>0, <2>1, <2>3, <2>5, MixerIs
  <2>7. k = [m EXCEPT !.channel = channel] /\ k \in Mixer /\ k.channel = channel
    <3>1. k = [m EXCEPT !.channel = channel]
      BY <1>0, <2>2, <2>4, <2>5 DEF Mixer
    <3> QED  BY <1>0, <2>6, <3>1 DEF Mixer
  <2>8. Marks(m, k, i)
    BY <2>1, <2>3, <2>6, <2>7 DEF Marks
  <2>9. /\ MixerOK(k, capacity) /\ On(k) = On(m) /\ Looping(k) = Looping(m)
        /\ \A j \in Channel : Voice(k, j) = Voice(m, j) /\ k.channel[j].by = m.channel[j].by
        /\ k.playing = m.playing
    BY <2>8, MarksOK
  <2>10. Held(k) = Held(m) \ {i}
    BY <2>3, <2>6, <2>7, <2>9, OnIs DEF Held
  <2>11. \A j \in Held(m) \ {i} : k.channel[j] = m.channel[j] /\ j \in Channel
    BY <2>6, <2>7, OnIs DEF Held
  <2>12. ASSUME Tidy(m) PROVE Tidy(k)
    <3>1. On(k) \subseteq Channel /\ Looping(k) \subseteq Channel
      BY OnIs DEF Looping
    <3>2. \A j \in On(k) : k.channel[j].fade = m.channel[j].fade
      BY <2>3, <2>6, <2>7, <3>1
    <3>3. Held(k) \subseteq On(k)
      BY DEF Held
    <3> QED  BY <2>9, <2>10, <2>12, <3>1, <3>2, <3>3 DEF Tidy
  <2>13. CASE ~fades
    <3>1. q = Stopped(k, {i})
      BY <1>2, <2>4, <2>13 DEF StopContinuous, StopChannel
    <3>2. MixerOK(q, capacity) /\ StopsIn(k, q, {i}) /\ Held(q) = Held(k) \ {i}
      BY <2>9, <3>1, StoppedOK
    <3>3. On(q) \subseteq On(m)
      BY <2>9, <3>2 DEF StopsIn
    <3>4. ASSUME Tidy(m), m.channel[i].by # NoObject
          PROVE  Tidy(q) /\ \A j \in Held(m) \ {i} : j \in Held(q) /\ q.channel[j] = m.channel[j]
      <4>1. Tidy(k) /\ k.channel[i].by # NoObject
        BY <2>1, <2>9, <2>12, <3>4
      <4>2. \A l \in Looping(k) \ {i} : Voice(k, i) # Voice(k, l)
        BY <2>1, <2>9, <4>1 DEF Tidy
      <4>3. PICK S : S = {i}
        OBVIOUS
      <4>4. \A ii \in S \cap On(k) : \A l \in Looping(k) \ S : Voice(k, ii) # Voice(k, l)
        BY <4>2, <4>3
      <4>5. Tidy(Stopped(k, S)) /\ \A j \in Held(k) \ S : Stopped(k, S).channel[j] = k.channel[j]
        BY <2>9, <4>1, <4>4, StoppedTidy
      <4> QED  BY <2>10, <2>11, <3>1, <3>2, <4>3, <4>5
    <3> QED  BY <2>1, <2>10, <3>2, <3>3, <3>4
  <2>14. CASE fades
    <3>1. PICK d : d = [c EXCEPT !.fade = FadeUpdates]
      OBVIOUS
    <3>2. /\ d \in ChannelState /\ d.kept = FALSE /\ d.fade = FadeUpdates /\ d.on = c.on
          /\ d.sound = c.sound /\ d.copy = c.copy /\ d.by = c.by
      <4>1. FadeUpdates \in 0 .. FadeUpdates
        BY SoundAssumption
      <4> QED  BY <2>3, <3>1, <4>1 DEF ChannelState
    <3>3. PICK faded : faded = [channel EXCEPT ![i] = d]
      OBVIOUS
    <3>4. /\ faded \in [Channel -> ChannelState] /\ faded[i] = d
          /\ \A j \in Channel \ {i} : faded[j] = channel[j]
      BY <2>1, <2>6, <3>2, <3>3
    <3>5. q = [k EXCEPT !.channel = faded] /\ q \in Mixer /\ q.channel = faded
      <4>1. q = [k EXCEPT !.channel[i].fade = FadeUpdates]
        BY <1>2, <2>4, <2>14 DEF StopContinuous
      <4>2. q = [k EXCEPT !.channel = faded]
        BY <2>6, <2>7, <3>1, <3>3, <4>1 DEF Mixer
      <4> QED  BY <2>7, <3>4, <4>2 DEF Mixer
    <3>6. Marks(k, q, i)
      BY <2>1, <2>6, <2>7, <3>2, <3>4, <3>5 DEF Marks
    <3>7. /\ MixerOK(q, capacity) /\ On(q) = On(k) /\ Looping(q) = Looping(k)
          /\ \A j \in Channel : Voice(q, j) = Voice(k, j) /\ q.channel[j].by = k.channel[j].by
          /\ q.playing = k.playing
      BY <2>9, <3>6, MarksOK
    <3>8. \A j \in Channel \ {i} : q.channel[j] = k.channel[j]
      BY <2>7, <3>4, <3>5
    <3>9. Held(q) = Held(k)
      BY <2>10, <3>2, <3>4, <3>5, <3>7, <3>8, OnIs DEF Held
    <3>10. ASSUME Tidy(m), m.channel[i].by # NoObject
          PROVE  Tidy(q) /\ \A j \in Held(m) \ {i} : j \in Held(q) /\ q.channel[j] = m.channel[j]
      <4>1. Tidy(k) /\ q.channel[i].by # NoObject
        BY <2>1, <2>9, <2>12, <3>7, <3>10
      <4>2. On(q) \subseteq Channel /\ Looping(q) \subseteq Channel /\ Held(q) \subseteq On(q)
        BY OnIs DEF Looping, Held
      <4>3. \A j \in On(q) : q.channel[j].fade > 0 => q.channel[j].by # NoObject
        BY <3>7, <3>8, <4>1, <4>2 DEF Tidy
      <4>4. \A j \in Held(q) : q.channel[j].fade = 0
        BY <2>10, <3>8, <3>9, <4>1, <4>2 DEF Tidy
      <4>5. Tidy(q)
        BY <3>7, <4>1, <4>2, <4>3, <4>4 DEF Tidy
      <4> QED  BY <2>10, <2>11, <3>8, <3>9, <4>5
    <3> QED  BY <2>1, <2>9, <2>10, <3>7, <3>9, <3>10
  <2> QED  BY <2>13, <2>14
<1> QED  BY <1>1, <1>2

LEMMA ChannelUpdatedOK ==
  ASSUME NEW m, MixerOK(m, capacity), NEW i \in Channel, NEW q, q = ChannelUpdated(m, i)
  PROVE  Carries(m, q) /\ On(q) \subseteq On(m)
<1>0. m \in Mixer
  BY DEF MixerOK
<1> DEFINE c == m.channel[i]
           plays == m.playing[Voice(m, i)] # "no"
<1>1. /\ q = IF c.on /\ ((~plays /\ ~c.kept) \/ (plays /\ c.fade = 1)) THEN Stopped(m, {i})
             ELSE IF c.on /\ plays /\ c.fade > 1 THEN [m EXCEPT !.channel[i].fade = @ - 1]
             ELSE m
      /\ c.on <=> i \in On(m)
  BY DEF ChannelUpdated, StopChannel, On
<1>2. c.kept \in BOOLEAN /\ c.fade \in 0 .. FadeUpdates /\ FadeUpdates \in Nat
  BY <1>0, ChannelIs, SoundAssumption
<1>3. CASE c.on /\ ((~plays /\ ~c.kept) \/ (plays /\ c.fade = 1))
  <2>1. q = Stopped(m, {i}) /\ i \in On(m)
    BY <1>1, <1>3
  <2>2. MixerOK(q, capacity) /\ StopsIn(m, q, {i}) /\ Held(q) = Held(m) \ {i}
    BY <2>1, StoppedOK
  <2>3. On(q) \subseteq On(m)
    BY <2>2 DEF StopsIn
  <2>4. ASSUME Tidy(m) PROVE Tidy(q) /\ Spared(m, q)
    <3>1. i \notin Held(m)
      BY <1>3, <2>4 DEF Tidy, Held
    <3>2. PICK S : S = {i}
      OBVIOUS
    <3>3. \A ii \in S \cap On(m) : \A l \in Looping(m) \ S : Voice(m, ii) # Voice(m, l)
      <4>1. \A l \in Looping(m) \ {i} : Voice(m, i) # Voice(m, l)
        <5>1. CASE ~plays
          BY <2>4, <5>1 DEF Tidy
        <5>2. CASE plays
          <6>1. c.by # NoObject
            BY <1>3, <2>1, <2>4, <5>2 DEF Tidy
          <6> QED  BY <2>1, <2>4, <6>1 DEF Tidy
        <5> QED  BY <5>1, <5>2
      <4> QED  BY <3>2, <4>1
    <3>4. Tidy(Stopped(m, S)) /\ \A j \in Held(m) \ S : Stopped(m, S).channel[j] = m.channel[j]
      BY <2>4, <3>3, StoppedTidy
    <3> QED  BY <2>1, <2>2, <3>1, <3>2, <3>4 DEF Spared
  <2> QED  BY <2>2, <2>3, <2>4 DEF Carries
<1>4. CASE ~(c.on /\ ((~plays /\ ~c.kept) \/ (plays /\ c.fade = 1))) /\ c.on /\ plays /\ c.fade > 1
  <2>1. q = [m EXCEPT !.channel[i].fade = @ - 1] /\ i \in On(m)
    BY <1>1, <1>4
  <2>2. PICK d : d = [c EXCEPT !.fade = @ - 1]
    OBVIOUS
  <2>3. /\ d \in ChannelState /\ d.kept = c.kept /\ d.fade = c.fade - 1 /\ d.on = c.on
        /\ d.sound = c.sound /\ d.copy = c.copy /\ d.by = c.by
    <3>1. c \in ChannelState
      BY <1>0, ChannelIs
    <3>2. c.fade - 1 \in 0 .. FadeUpdates
      BY <1>2, <1>4
    <3> HIDE DEF c
    <3> QED  BY <2>2, <3>1, <3>2 DEF ChannelState
  <2>4. PICK faded : faded = [m.channel EXCEPT ![i] = d]
    OBVIOUS
  <2>5. /\ faded \in [Channel -> ChannelState] /\ faded[i] = d
        /\ \A j \in Channel \ {i} : faded[j] = m.channel[j]
    BY <1>0, <2>3, <2>4, MixerIs
  <2>6. q = [m EXCEPT !.channel = faded] /\ q \in Mixer /\ q.channel = faded
    <3>1. q = [m EXCEPT !.channel = faded]
      BY <1>0, <2>1, <2>2, <2>4 DEF Mixer
    <3> QED  BY <1>0, <2>5, <3>1 DEF Mixer
  <2>7. Marks(m, q, i)
    BY <2>3, <2>5, <2>6 DEF Marks
  <2>8. /\ MixerOK(q, capacity) /\ On(q) = On(m) /\ Looping(q) = Looping(m)
        /\ \A j \in Channel : Voice(q, j) = Voice(m, j) /\ q.channel[j].by = m.channel[j].by
        /\ q.playing = m.playing
    BY <2>7, MarksOK
  <2>9. \A j \in Channel : q.channel[j].kept = m.channel[j].kept
    BY <2>3, <2>5, <2>6
  <2>10. Held(q) = Held(m)
    BY <2>8, <2>9, OnIs DEF Held
  <2>11. ASSUME Tidy(m) PROVE Tidy(q) /\ Spared(m, q)
    <3>1. i \notin Held(m)
      BY <1>2, <1>4, <2>11 DEF Tidy
    <3>2. On(q) \subseteq Channel /\ Looping(q) \subseteq Channel /\ Held(q) \subseteq On(q)
      BY OnIs DEF Looping, Held
    <3>3. \A j \in Held(m) : q.channel[j] = m.channel[j]
      BY <2>5, <2>6, <2>10, <3>1, <3>2
    <3>4. \A j \in On(q) : q.channel[j].fade > 0 => q.channel[j].by # NoObject
      <4>1. m.channel[i].by # NoObject
        BY <1>2, <1>4, <2>1, <2>11 DEF Tidy
      <4> QED  BY <2>5, <2>6, <2>8, <2>11, <3>2, <4>1 DEF Tidy
    <3>5. Tidy(q)
      BY <2>8, <2>10, <2>11, <3>2, <3>3, <3>4 DEF Tidy
    <3> QED  BY <2>10, <3>3, <3>5 DEF Spared
  <2> QED  BY <2>8, <2>10, <2>11 DEF Carries
<1>5. CASE ~(c.on /\ ((~plays /\ ~c.kept) \/ (plays /\ c.fade = 1))) /\ ~(c.on /\ plays /\ c.fade > 1)
  <2>1. q = m
    BY <1>1, <1>5
  <2> QED  BY <2>1, CarriesSelf
<1> QED  BY <1>3, <1>4, <1>5

LEMMA ChannelsUpdatedOK ==
  ASSUME NEW m, MixerOK(m, capacity)
  PROVE  Carries(m, ChannelsUpdated(m)) /\ On(ChannelsUpdated(m)) \subseteq On(m)
<1> DEFINE n == Channels
           Is(f) == f = [i \in 0 .. Channels |-> IF i = 0 THEN m ELSE ChannelUpdated(f[i - 1], i)]
           updated == CHOOSE f : Is(f)
           V == {v \in Mixer : Carries(m, v) /\ On(v) \subseteq On(m)}
<1>0. m \in Mixer
  BY DEF MixerOK
<1>1. n \in Nat /\ Channel = 1 .. n
  BY SoundAssumption DEF Channel
<1>2. m \in V
  BY <1>0, CarriesSelf
<1>3. \A i \in 1 .. n : \A v \in V : ChannelUpdated(v, i) \in V
  <2>1. ASSUME NEW i \in Channel, NEW v \in V
        PROVE  ChannelUpdated(v, i) \in V
    <3>1. Carries(m, v) /\ On(v) \subseteq On(m)
      OBVIOUS
    <3>2. PICK q : q = ChannelUpdated(v, i)
      OBVIOUS
    <3>3. Carries(v, q) /\ On(q) \subseteq On(v)
      BY <3>1, <3>2, ChannelUpdatedOK DEF Carries
    <3>4. Carries(m, q) /\ On(q) \subseteq On(m)
      BY <3>1, <3>3, CarriesOn
    <3>5. q \in Mixer
      BY <3>4 DEF Carries, MixerOK
    <3> QED  BY <3>2, <3>4, <3>5
  <2> QED  BY <1>1, <2>1
<1>4. \E f : Is(f)
  <2> DEFINE step == [i \in 1 .. n |-> [v \in V |-> ChannelUpdated(v, i)]]
  <2> HIDE DEF V
  <2>1. step \in [1 .. n -> [V -> V]]
    BY <1>3
  <2>2. \A i \in 1 .. n : \A v \in V : step[i][v] = ChannelUpdated(v, i)
    OBVIOUS
  <2> HIDE DEF step
  <2>3. PICK f : FoldsIn(V, f, m, step, n)
    <3> HIDE DEF Is, n
    <3> QED  BY <1>1, <1>2, <2>1, FoldExists
  <2>4. f \in [0 .. n -> V] /\ f[0] = m /\ \A k \in 1 .. n : f[k] = step[k][f[k - 1]]
    BY <2>3 DEF FoldsIn
  <2>5. ASSUME NEW i \in 0 .. n
        PROVE  f[i] = IF i = 0 THEN m ELSE ChannelUpdated(f[i - 1], i)
    <3>1. CASE i = 0
      BY <2>4, <3>1
    <3>2. CASE i # 0
      <4>1. i \in 1 .. n /\ i - 1 \in 0 .. n
        BY <1>1, <3>2
      <4>2. f[i - 1] \in V
        BY <2>4, <4>1
      <4> QED  BY <2>2, <2>4, <3>2, <4>1, <4>2
    <3> QED  BY <3>1, <3>2
  <2>6. Is(f)
    BY <2>4, <2>5
  <2> QED  BY <2>6
<1>5. Is(updated)
  <2> HIDE DEF Is
  <2> QED  BY <1>4
<1>6. ChannelsUpdated(m) = updated[n]
  BY DEF ChannelsUpdated
<1>7. \A i \in 0 .. n : updated[i] = IF i = 0 THEN m ELSE ChannelUpdated(updated[i - 1], i)
  <2> HIDE DEF updated
  <2> QED  BY <1>5
<1> HIDE DEF updated, Is, n, V
<1>8. updated[n] \in V
  <2> DEFINE Good == {k \in Nat : updated[k] \in V}
  <2>1. 0 \in Good
    BY <1>1, <1>2, <1>7
  <2>2. ASSUME NEW k \in 1 .. n, k - 1 \in Good PROVE k \in Good
    <3>1. updated[k] = ChannelUpdated(updated[k - 1], k)
      BY <1>1, <1>7
    <3> QED  BY <1>3, <2>2, <3>1
  <2>3. \A k \in 0 .. n : k \in Good
    <3> HIDE DEF Good
    <3> QED  BY <1>1, <2>1, <2>2, NumbersAre
  <2> QED  BY <1>1, <2>3
<1> QED  BY <1>6, <1>8 DEF V

\* What a due sound of the queue makes of the mixer.
QueueStep(v, e, loads, plays) ==
  IF e.ticks > 0 \/ suspended THEN v
  ELSE Started(Found(v, e.sound, loads), e.sound, NoObject, plays).m

LEMMA PlayedOK ==
  ASSUME NEW m, MixerOK(m, capacity), capacity \in Nat, NEW s \in Sounds,
         NEW by \in Noisy \union {NoObject}, NEW loads, NEW plays,
         NEW r, r = Started(Found(m, s, loads), s, by, plays)
  PROVE  /\ Carries(m, r.m)
         /\ r.to # None => \E f : Carries(m, f) /\ Starts(f, r.m, r.to, s, by)
<1>1. PICK f : f = Found(m, s, loads)
  OBVIOUS
<1>2. Carries(m, f) /\ MixerOK(f, capacity)
  BY <1>1, FoundOK DEF Carries
<1>3. r = Started(f, s, by, plays)
  BY <1>1
<1>4. Carries(f, r.m) /\ (r.to # None => Starts(f, r.m, r.to, s, by))
  BY <1>2, <1>3, StartedOK
<1> QED  BY <1>2, <1>4, CarriesOn

LEMMA QueuePlayedOK ==
  ASSUME NEW m, MixerOK(m, capacity), capacity \in Nat, NEW loads, NEW plays,
         scheduled \in Seq([sound : Sounds, ticks : Nat])
  PROVE  Carries(m, QueuePlayed(m, loads, plays))
         /\ (suspended => QueuePlayed(m, loads, plays) = m)
<1> DEFINE n == Len(scheduled)
           Is(f) == f = [k \in 0 .. Len(scheduled) |->
                          IF k = 0 THEN m
                          ELSE LET e == scheduled[Len(scheduled) + 1 - k] IN
                               IF e.ticks > 0 \/ suspended THEN f[k - 1]
                               ELSE Started(Found(f[k - 1], e.sound, loads), e.sound, NoObject, plays).m]
           played == CHOOSE f : Is(f)
           V == {v \in Mixer : Carries(m, v) /\ (suspended => v = m)}
           Due(k) == scheduled[Len(scheduled) + 1 - k]
<1>0. m \in Mixer
  BY DEF MixerOK
<1>1. n \in Nat
  OBVIOUS
<1>2. m \in V
  BY <1>0, CarriesSelf
<1>3. \A k \in 1 .. n : \A v \in V : QueueStep(v, Due(k), loads, plays) \in V
  <2>1. ASSUME NEW k \in 1 .. n, NEW v \in V
        PROVE  QueueStep(v, Due(k), loads, plays) \in V
    <3>1. Carries(m, v) /\ (suspended => v = m)
      OBVIOUS
    <3>2. n + 1 - k \in 1 .. n
      BY <1>1
    <3>3. PICK e \in [sound : Sounds, ticks : Nat] : e = Due(k)
      <4>1. \A j \in 1 .. Len(scheduled) : scheduled[j] \in [sound : Sounds, ticks : Nat]
        <5> HIDE DEF n, Is, played, V, Due
        <5>1. PICK T : T = [sound : Sounds, ticks : Nat]
          OBVIOUS
        <5>2. scheduled \in Seq(T)
          BY ONLY <5>1, scheduled \in Seq([sound : Sounds, ticks : Nat])
        <5>3. \A j \in 1 .. Len(scheduled) : scheduled[j] \in T
          BY ONLY <5>2
        <5> QED  BY <5>1, <5>3
      <4>2. Due(k) \in [sound : Sounds, ticks : Nat]
        <5> HIDE DEF Is, played, V
        <5> QED  BY <3>2, <4>1
      <4> HIDE DEF n, Is, played, V, Due
      <4> QED  BY <4>2
    <3>4. CASE e.ticks > 0 \/ suspended
      BY <3>3, <3>4 DEF QueueStep
    <3>5. CASE ~(e.ticks > 0 \/ suspended)
      <4>1. PICK r : r = Started(Found(v, e.sound, loads), e.sound, NoObject, plays)
        OBVIOUS
      <4>2. e.sound \in Sounds /\ NoObject \in Noisy \union {NoObject} /\ MixerOK(v, capacity)
        BY <3>1 DEF Carries
      <4>3. Carries(v, r.m)
        BY <4>1, <4>2, PlayedOK
      <4>4. Carries(m, r.m)
        BY <3>1, <4>3, CarriesOn
      <4>5. r.m \in Mixer
        BY <4>4 DEF Carries, MixerOK
      <4> QED  BY <3>3, <3>5, <4>1, <4>4, <4>5 DEF QueueStep
    <3> QED  BY <3>4, <3>5
  <2> QED  BY <2>1
<1> HIDE DEF Due
<1>4. \E f : Is(f)
  <2> DEFINE step == [k \in 1 .. n |-> [v \in V |-> QueueStep(v, Due(k), loads, plays)]]
  <2> HIDE DEF V, n
  <2>1. step \in [1 .. n -> [V -> V]]
    BY <1>3
  <2>2. \A k \in 1 .. n : \A v \in V : step[k][v] = QueueStep(v, Due(k), loads, plays)
    OBVIOUS
  <2> HIDE DEF step
  <2>3. PICK f : FoldsIn(V, f, m, step, n)
    <3> HIDE DEF Is
    <3> QED  BY <1>1, <1>2, <2>1, FoldExists
  <2>4. f \in [0 .. n -> V] /\ f[0] = m /\ \A k \in 1 .. n : f[k] = step[k][f[k - 1]]
    BY <2>3 DEF FoldsIn
  <2>5. ASSUME NEW k \in 0 .. n
        PROVE  f[k] = IF k = 0 THEN m
                      ELSE LET e == scheduled[Len(scheduled) + 1 - k] IN
                           IF e.ticks > 0 \/ suspended THEN f[k - 1]
                           ELSE Started(Found(f[k - 1], e.sound, loads), e.sound, NoObject, plays).m
    <3>1. CASE k = 0
      BY <2>4, <3>1
    <3>2. CASE k # 0
      <4>1. k \in 1 .. n /\ k - 1 \in 0 .. n
        BY <1>1, <3>2
      <4>2. f[k - 1] \in V
        BY <2>4, <4>1
      <4>3. f[k] = QueueStep(f[k - 1], Due(k), loads, plays)
        BY <2>2, <2>4, <4>1, <4>2
      <4> QED  BY <3>2, <4>3 DEF QueueStep, Due
    <3> QED  BY <3>1, <3>2
  <2>6. f = [k \in 0 .. n |-> f[k]]
    BY <2>4
  <2>7. Is(f)
    BY <2>5, <2>6 DEF n
  <2> QED  BY <2>7
<1>5. Is(played)
  <2> HIDE DEF Is
  <2> QED  BY <1>4
<1>6. QueuePlayed(m, loads, plays) = played[n]
  BY DEF QueuePlayed
<1>7. \A k \in 0 .. n : played[k] = IF k = 0 THEN m ELSE QueueStep(played[k - 1], Due(k), loads, plays)
  <2> HIDE DEF played
  <2> QED  BY <1>5 DEF QueueStep, Due
<1> HIDE DEF played, Is, n, V
<1>8. played[n] \in V
  <2> DEFINE Good == {k \in Nat : played[k] \in V}
  <2>1. 0 \in Good
    BY <1>1, <1>2, <1>7
  <2>2. ASSUME NEW k \in 1 .. n, k - 1 \in Good PROVE k \in Good
    <3>1. played[k] = QueueStep(played[k - 1], Due(k), loads, plays)
      BY <1>1, <1>7
    <3> QED  BY <1>3, <2>2, <3>1
  <2>3. \A k \in 0 .. n : k \in Good
    <3> HIDE DEF Good
    <3> QED  BY <1>1, <2>1, <2>2, NumbersAre
  <2> QED  BY <1>1, <2>3
<1> QED  BY <1>6, <1>8 DEF V

\* What the sounds that go on have to do with the objects: each has one that can stop it and,
\* where the cache has room for all sounds, an object's channel is held by its own.
Claimed(m, h) == \A i \in Held(m) : \E x \in Noisy : h[x] = i
Owned(m, h, w) ==
  \A x \in Noisy : h[x] # None =>
    h[x] \in Held(m) /\ m.channel[h[x]].by = x /\ m.channel[h[x]].sound = w[x]
SoundCore(m, h, w, quiet) ==
  /\ MixerOK(m, capacity) /\ Claimed(m, h) /\ (quiet => On(m) = {})
  /\ Roomy => Tidy(m) /\ Owned(m, h, w)

LEMMA CoreCarries ==
  ASSUME NEW m, NEW h, NEW w, NEW quiet, SoundCore(m, h, w, quiet),
         NEW k, Carries(m, k), quiet => On(k) = {}
  PROVE  SoundCore(k, h, w, quiet)
<1>1. MixerOK(k, capacity) /\ Claimed(k, h)
  BY DEF Carries, Claimed, SoundCore
<1>2. ASSUME Roomy PROVE Tidy(k) /\ Owned(k, h, w)
  <2>1. Tidy(k) /\ Spared(m, k) /\ Owned(m, h, w)
    BY <1>2 DEF Carries, SoundCore
  <2> QED  BY <2>1 DEF Owned, Spared
<1> QED  BY <1>1, <1>2 DEF SoundCore

LEMMA CoreStops ==
  ASSUME NEW m, NEW h \in [Noisy -> Channel \union {None}], NEW w \in [Noisy -> Sounds \union {NoSound}],
         SoundCore(m, h, w, suspended), NEW x \in Noisy, NEW s \in Sounds \union {NoSound},
         NEW fades, NEW q, q = StopContinuous(m, h[x], fades)
  PROVE  SoundCore(q, [h EXCEPT ![x] = None], [w EXCEPT ![x] = s], suspended)
<1> DEFINE hh == [h EXCEPT ![x] = None]
           ww == [w EXCEPT ![x] = s]
<1>1. /\ MixerOK(q, capacity) /\ On(q) \subseteq On(m) /\ Held(q) \subseteq Held(m)
      /\ ~suspended => Held(q) = Held(m) \ {h[x]}
      /\ Tidy(m) /\ (h[x] \in On(m) => m.channel[h[x]].by # NoObject) =>
           Tidy(q) /\ \A j \in Held(m) \ {h[x]} : j \in Held(q) /\ q.channel[j] = m.channel[j]
  <2>1. PICK i : i = h[x]
    OBVIOUS
  <2>2. MixerOK(m, capacity) /\ q = StopContinuous(m, i, fades)
    BY <2>1 DEF SoundCore
  <2> QED  BY <2>1, <2>2, ContinuousOK
<1>2. suspended => On(q) = {} /\ Held(q) = {}
  BY <1>1 DEF SoundCore, Held
<1>3. hh[x] = None /\ \A y \in Noisy \ {x} : hh[y] = h[y] /\ ww[y] = w[y]
  OBVIOUS
<1> HIDE DEF hh, ww
<1>4. Claimed(q, hh)
  <2>1. ASSUME NEW i \in Held(q) PROVE \E y \in Noisy : hh[y] = i
    <3>1. i \in Held(m) /\ i # h[x]
      BY <1>1, <1>2
    <3>2. PICK y \in Noisy : h[y] = i
      BY <3>1 DEF SoundCore, Claimed
    <3> QED  BY <1>3, <3>1, <3>2
  <2> QED  BY <2>1 DEF Claimed
<1>5. ASSUME Roomy PROVE Tidy(q) /\ Owned(q, hh, ww)
  <2>1. Tidy(m) /\ Owned(m, h, w)
    BY <1>5 DEF SoundCore
  <2>2. h[x] \in On(m) => h[x] # None
    BY OnIs DEF None
  <2>3. h[x] \in On(m) => m.channel[h[x]].by # NoObject
    BY <2>1, <2>2, SoundAssumption DEF Owned
  <2>4. Tidy(q) /\ \A j \in Held(m) \ {h[x]} : j \in Held(q) /\ q.channel[j] = m.channel[j]
    BY <1>1, <2>1, <2>3
  <2>5. ASSUME NEW y \in Noisy, hh[y] # None
        PROVE  hh[y] \in Held(q) /\ q.channel[hh[y]].by = y /\ q.channel[hh[y]].sound = ww[y]
    <3>1. y # x /\ hh[y] = h[y] /\ ww[y] = w[y]
      BY <1>3, <2>5
    <3>2. h[y] \in Held(m) /\ m.channel[h[y]].by = y /\ m.channel[h[y]].sound = w[y]
      BY <2>1, <2>5, <3>1 DEF Owned
    <3>3. h[y] # h[x]
      BY <2>1, <2>5, <3>1, <3>2 DEF Owned
    <3> QED  BY <2>4, <3>1, <3>2, <3>3
  <2> QED  BY <2>4, <2>5 DEF Owned
<1> QED  BY <1>1, <1>2, <1>4, <1>5 DEF SoundCore, hh, ww

LEMMA CoreStarts ==
  ASSUME NEW m, NEW h \in [Noisy -> Channel \union {None}], NEW w \in [Noisy -> Sounds \union {NoSound}],
         SoundCore(m, h, w, suspended), ~suspended, NEW x \in Noisy, NEW s \in Sounds,
         NEW f, NEW r, Carries(m, f), Carries(m, r.m), Starts(f, r.m, r.to, s, x),
         NEW q, q = StopContinuous(Kept(r), h[x], TRUE)
  PROVE  SoundCore(q, [h EXCEPT ![x] = r.to], [w EXCEPT ![x] = s], suspended)
<1> DEFINE hh == [h EXCEPT ![x] = r.to]
           ww == [w EXCEPT ![x] = s]
<1>1. PICK k : k = r.m
  OBVIOUS
<1>2. PICK i \in Channel : i = r.to
  BY DEF Starts
<1>3. /\ i \notin On(f) /\ On(k) = On(f) \union {i} /\ Held(k) = Held(f)
      /\ k.channel[i].on /\ k.channel[i].sound = s /\ k.channel[i].by = x
      /\ ~k.channel[i].kept /\ k.channel[i].fade = 0
  BY <1>1, <1>2 DEF Starts
<1>4. k \in Mixer /\ MixerOK(k, capacity) /\ Carries(m, k) /\ Held(k) \subseteq Held(m)
  BY <1>1 DEF Carries, MixerOK
<1>5. PICK d : d = [k.channel[i] EXCEPT !.kept = TRUE]
  OBVIOUS
<1>6. /\ d \in ChannelState /\ d.kept = TRUE /\ d.fade = k.channel[i].fade /\ d.on = k.channel[i].on
      /\ d.sound = k.channel[i].sound /\ d.copy = k.channel[i].copy /\ d.by = k.channel[i].by
  <2>1. k.channel[i] \in ChannelState
    BY <1>4, ChannelIs
  <2> QED  BY <1>5, <2>1 DEF ChannelState
<1>7. PICK channel : channel = [k.channel EXCEPT ![i] = d]
  OBVIOUS
<1>8. /\ channel \in [Channel -> ChannelState] /\ channel[i] = d
      /\ \A j \in Channel \ {i} : channel[j] = k.channel[j]
  BY <1>4, <1>6, <1>7, MixerIs
<1>9. PICK p : p = Kept(r)
  OBVIOUS
<1>10. p = [k EXCEPT !.channel = channel] /\ p \in Mixer /\ p.channel = channel
  <2>1. p = [k EXCEPT !.channel[i].kept = TRUE]
    BY <1>1, <1>2, <1>9 DEF Kept
  <2>2. p = [k EXCEPT !.channel = channel]
    BY <1>4, <1>5, <1>7, <2>1 DEF Mixer
  <2> QED  BY <1>4, <1>8, <2>2 DEF Mixer
<1>11. Marks(k, p, i)
  BY <1>6, <1>8, <1>10 DEF Marks
<1>12. /\ MixerOK(p, capacity) /\ On(p) = On(k) /\ Looping(p) = Looping(k)
       /\ \A j \in Channel : Voice(p, j) = Voice(k, j) /\ p.channel[j].by = k.channel[j].by
       /\ p.playing = k.playing
  BY <1>4, <1>11, MarksOK
<1>13. \A j \in Channel \ {i} : p.channel[j] = k.channel[j]
  BY <1>8, <1>10
<1>14. Held(p) = Held(k) \union {i} /\ i \notin Held(k)
  <2>1. p.channel[i].kept /\ i \in On(p)
    BY <1>3, <1>6, <1>8, <1>10, <1>12
  <2> QED  BY <1>3, <1>12, <1>13, <2>1, OnIs DEF Held
<1>15. /\ MixerOK(q, capacity) /\ Held(q) = Held(p) \ {h[x]}
       /\ Tidy(p) /\ (h[x] \in On(p) => p.channel[h[x]].by # NoObject) =>
            Tidy(q) /\ \A j \in Held(p) \ {h[x]} : j \in Held(q) /\ q.channel[j] = p.channel[j]
  <2>1. PICK e : e = h[x]
    OBVIOUS
  <2>2. PICK fades : fades = TRUE
    OBVIOUS
  <2>3. q = StopContinuous(p, e, fades)
    BY <1>9, <2>1, <2>2
  <2>4. /\ MixerOK(q, capacity) /\ On(q) \subseteq On(p) /\ Held(q) \subseteq Held(p)
        /\ ~suspended => Held(q) = Held(p) \ {e}
        /\ Tidy(p) /\ (e \in On(p) => p.channel[e].by # NoObject) =>
             Tidy(q) /\ \A j \in Held(p) \ {e} : j \in Held(q) /\ q.channel[j] = p.channel[j]
    <3>1. MixerOK(p, capacity)
      BY <1>12
    <3> HIDE DEF hh, ww
    <3> QED  BY ONLY <2>3, <3>1, ContinuousOK
  <2> QED  BY <2>1, <2>4
<1>16. hh[x] = i /\ ww[x] = s /\ \A y \in Noisy \ {x} : hh[y] = h[y] /\ ww[y] = w[y]
  BY <1>2
<1> HIDE DEF hh, ww
<1>17. Claimed(q, hh)
  <2>1. ASSUME NEW j \in Held(q) PROVE \E y \in Noisy : hh[y] = j
    <3>1. CASE j = i
      BY <1>16, <3>1
    <3>2. CASE j # i
      <4>1. j \in Held(m) /\ j # h[x]
        BY <1>4, <1>14, <1>15, <3>2
      <4>2. PICK y \in Noisy : h[y] = j
        BY <4>1 DEF SoundCore, Claimed
      <4> QED  BY <1>16, <4>1, <4>2
    <3> QED  BY <3>1, <3>2
  <2> QED  BY <2>1 DEF Claimed
<1>18. ASSUME Roomy PROVE Tidy(q) /\ Owned(q, hh, ww)
  <2>1. Tidy(m) /\ Owned(m, h, w) /\ Tidy(k) /\ Spared(m, k) /\ Spared(m, f)
    BY <1>4, <1>18 DEF SoundCore, Carries
  <2>2. Tidy(p)
    <3>1. On(p) \subseteq Channel /\ Looping(p) \subseteq Channel /\ Held(p) \subseteq On(p)
      BY OnIs DEF Looping, Held
    <3>2. \A j \in On(p) : p.channel[j].fade = k.channel[j].fade
      BY <1>6, <1>8, <1>10, <1>13, <3>1
    <3>3. \A j \in Held(p) : p.channel[j].fade = 0
      BY <1>3, <1>14, <2>1, <3>1, <3>2 DEF Tidy
    <3> QED  BY <1>12, <2>1, <3>1, <3>2, <3>3 DEF Tidy
  <2>3. \A y \in Noisy : h[y] # None =>
          /\ h[y] \in Held(k) /\ h[y] \in Channel /\ h[y] # i
          /\ p.channel[h[y]].by = y /\ p.channel[h[y]].sound = w[y]
    <3>1. ASSUME NEW y \in Noisy, h[y] # None
          PROVE  /\ h[y] \in Held(k) /\ h[y] \in Channel /\ h[y] # i
                 /\ p.channel[h[y]].by = y /\ p.channel[h[y]].sound = w[y]
      <4>1. h[y] \in Held(m) /\ m.channel[h[y]].by = y /\ m.channel[h[y]].sound = w[y]
        BY <2>1, <3>1 DEF Owned
      <4>2. h[y] \in Held(k) /\ k.channel[h[y]] = m.channel[h[y]] /\ h[y] \in Held(f)
        BY <2>1, <4>1 DEF Spared
      <4>3. h[y] # i /\ h[y] \in Channel
        BY <1>3, <3>1, <4>2 DEF Held
      <4> QED  BY <1>13, <4>1, <4>2, <4>3
    <3> QED  BY <3>1
  <2>4. h[x] \in On(p) => p.channel[h[x]].by # NoObject
    <3>1. h[x] \in On(p) => h[x] # None
      BY OnIs DEF None
    <3> QED  BY <2>3, <3>1, SoundAssumption
  <2>5. Tidy(q) /\ \A j \in Held(p) \ {h[x]} : j \in Held(q) /\ q.channel[j] = p.channel[j]
    BY <1>15, <2>2, <2>4
  <2>6. i # h[x]
    <3>1. i # None
      BY OnIs DEF None
    <3> QED  BY <2>3, <3>1
  <2>7. ASSUME NEW y \in Noisy, hh[y] # None
        PROVE  hh[y] \in Held(q) /\ q.channel[hh[y]].by = y /\ q.channel[hh[y]].sound = ww[y]
    <3>1. CASE y = x
      <4>1. i \in Held(q) /\ q.channel[i] = p.channel[i]
        BY <1>14, <2>5, <2>6
      <4> QED  BY <1>3, <1>6, <1>8, <1>10, <1>16, <3>1, <4>1
    <3>2. CASE y # x
      <4>1. hh[y] = h[y] /\ ww[y] = w[y] /\ h[y] # None
        BY <1>16, <2>7, <3>2
      <4>2. h[y] # h[x]
        BY <2>3, <3>2, <4>1
      <4>3. h[y] \in Held(p)
        BY <1>14, <2>3, <4>1
      <4>4. h[y] \in Held(q) /\ q.channel[h[y]] = p.channel[h[y]]
        BY <2>5, <4>2, <4>3
      <4>5. p.channel[h[y]].by = y /\ p.channel[h[y]].sound = w[y]
        BY <2>3, <4>1
      <4> QED  BY <4>1, <4>4, <4>5
    <3> QED  BY <3>1, <3>2
  <2> QED  BY <2>5, <2>7 DEF Owned
<1> QED  BY <1>15, <1>17, <1>18 DEF SoundCore, hh, ww

LEMMA CoreSilent ==
  ASSUME NEW m, NEW h, NEW w, NEW quiet, SoundCore(m, h, w, quiet),
         NEW hh, hh = [x \in Noisy |-> None], NEW ww, NEW still
  PROVE  SoundCore(StopAll(m), hh, ww, still)
<1>1. PICK q : q = StopAll(m)
  OBVIOUS
<1>2. MixerOK(q, capacity) /\ StopsIn(m, q, Channel)
  BY <1>1, StoppedOK DEF SoundCore, StopAll
<1>3. On(q) = {}
  BY <1>2, OnIs DEF StopsIn
<1>4. Held(q) = {} /\ Looping(q) = {}
  BY <1>3 DEF Held, Looping
<1>5. Tidy(q)
  BY <1>3, <1>4 DEF Tidy
<1>6. Claimed(q, hh) /\ Owned(q, hh, ww)
  BY <1>4 DEF Claimed, Owned
<1> QED  BY <1>1, <1>2, <1>3, <1>5, <1>6 DEF SoundCore

LEMMA EndsCarries ==
  ASSUME NEW m, MixerOK(m, capacity), NEW b \in Buffers, m.playing[b] = "once",
         NEW q, q = [m EXCEPT !.playing[b] = "no"]
  PROVE  Carries(m, q) /\ On(q) = On(m)
<1>1. m \in Mixer /\ Tallied(m) /\ Voiced(m) /\ m.total <= capacity /\ IsInjective(m.cache)
  BY DEF MixerOK
<1>2. PICK playing : playing = [m.playing EXCEPT ![b] = "no"]
  OBVIOUS
<1>3. playing \in [Buffers -> {"no", "once", "loop"}] /\ \A x \in Buffers \ {b} : playing[x] = m.playing[x]
  BY <1>1, <1>2, MixerIs
<1>4. /\ q \in Mixer /\ q.cache = m.cache /\ q.playing = playing /\ q.live = m.live
      /\ q.active = m.active /\ q.refs = m.refs /\ q.total = m.total /\ q.channel = m.channel
  <2>1. q = [m EXCEPT !.playing = playing]
    BY <1>1, <1>2 DEF Mixer
  <2> QED  BY <1>1, <1>3, <2>1 DEF Mixer
<1>5. On(q) = On(m) /\ (\A i : Voice(q, i) = Voice(m, i))
  BY <1>4 DEF On, Voice
<1>6. Held(q) = Held(m) /\ Looping(q) = Looping(m) /\ (\A s : Copies(q, s) = Copies(m, s))
  BY <1>4, <1>5 DEF Held, Looping, Copies
<1>7. Tallied(q) /\ Voiced(q)
  BY <1>1, <1>4, <1>5, <1>6 DEF Tallied, Voiced, Alive
<1>8. MixerOK(q, capacity)
  BY <1>1, <1>4, <1>7 DEF MixerOK
<1>9. ASSUME Tidy(m) PROVE Tidy(q)
  <2>1. \A l \in Looping(m) : Voice(m, l) \in Buffers /\ m.playing[Voice(m, l)] = "loop"
    <3>1. ToSet(m.cache) \subseteq Sounds
      BY <1>1, MixerIs DEF ToSet
    <3>2. \A l \in On(m) : l \in Channel /\ m.channel[l].sound \in Sounds
      BY <1>1, <3>1, OnIs DEF Voiced
    <3> QED  BY <1>1, <1>9, <3>2, VoiceIs DEF Looping, Tidy
  <2>2. \A l \in Looping(q) : q.playing[Voice(q, l)] = "loop"
    BY <1>3, <1>4, <1>5, <1>6, <2>1
  <2> QED  BY <1>4, <1>5, <1>6, <1>9, <2>2 DEF Tidy
<1>10. Spared(m, q)
  BY <1>4, <1>6 DEF Spared
<1> QED  BY <1>5, <1>6, <1>8, <1>9, <1>10 DEF Carries

SoundRest ==
  /\ capacity \in Capacities
  /\ scheduled \in Seq([sound : Sounds, ticks : Nat]) /\ Len(scheduled) <= MaxQueued
  /\ handle \in [Noisy -> Channel \union {None}]
  /\ wanted \in [Noisy -> Sounds \union {NoSound}]
  /\ alive \in [Noisy -> {"ticks", "killed", "gone"}]
  /\ {muted, paused, suspended} \subseteq BOOLEAN
\* The inductive invariant.
SoundSafe == SoundRest /\ SoundCore(mixer, handle, wanted, suspended)

LEMMA CoreNext ==
  ASSUME capacity' = capacity, NEW q, q = mixer', NEW hh, hh = handle', NEW ww, ww = wanted',
         NEW quiet, quiet = suspended', SoundCore(q, hh, ww, quiet)
  PROVE  SoundCore(mixer, handle, wanted, suspended)'
BY DEF SoundCore, Roomy

LEMMA CapacityIs ==
  ASSUME SoundSafe
  PROVE  /\ capacity \in Nat /\ MixerOK(mixer, capacity)
         /\ suspended \in BOOLEAN /\ None \in Channel \union {None}
BY SoundAssumption DEF SoundSafe, SoundRest, SoundCore

LEMMA StartsTyped ==
  ASSUME SoundSafe, NEW x \in Noisy, NEW i \in Channel \union {None},
         NEW s \in Sounds \union {NoSound}
  PROVE  /\ [handle EXCEPT ![x] = i] \in [Noisy -> Channel \union {None}]
         /\ [wanted EXCEPT ![x] = s] \in [Noisy -> Sounds \union {NoSound}]
BY DEF SoundSafe, SoundRest

LEMMA SilenceStep ==
  ASSUME SoundSafe, Silence, Release, UNCHANGED <<capacity, alive>>,
         muted' \in BOOLEAN, paused' \in BOOLEAN, suspended' \in BOOLEAN
  PROVE  SoundSafe'
<1>1. PICK q : q = mixer'
  OBVIOUS
<1>2. PICK hh : hh = handle'
  OBVIOUS
<1>3. PICK ww : ww = wanted'
  OBVIOUS
<1>4. PICK quiet : quiet = suspended'
  OBVIOUS
<1>5. PICK m : m = mixer
  OBVIOUS
<1>6. q = StopAll(m) /\ hh = [x \in Noisy |-> None]
  BY <1>1, <1>2, <1>5 DEF Silence, Release
<1>7. SoundCore(q, hh, ww, quiet)
  <2>1. SoundCore(m, handle, wanted, suspended)
    BY <1>5 DEF SoundSafe
  <2>2. PICK h : h = handle
    OBVIOUS
  <2>3. PICK w : w = wanted
    OBVIOUS
  <2>4. PICK z : z = suspended
    OBVIOUS
  <2>5. SoundCore(m, h, w, z)
    BY <2>1, <2>2, <2>3, <2>4
  <2> QED  BY <1>6, <2>5, CoreSilent
<1>8. SoundCore(mixer, handle, wanted, suspended)'
  BY <1>1, <1>2, <1>3, <1>4, <1>7, CoreNext
<1>9. handle' \in [Noisy -> Channel \union {None}] /\ wanted' \in [Noisy -> Sounds \union {NoSound}]
  BY DEF Release, SoundSafe, SoundRest
<1>10. scheduled' = <<>>
  BY DEF Silence
<1>11. scheduled' \in Seq([sound : Sounds, ticks : Nat]) /\ Len(scheduled') <= MaxQueued
  BY <1>10, SoundAssumption
<1> QED  BY <1>8, <1>9, <1>11 DEF SoundSafe, SoundRest

\* A step of the manager alone.
LEMMA CarriedStep ==
  ASSUME SoundSafe, NEW m, m = mixer, NEW q, q = mixer', Carries(m, q), suspended => On(q) = {},
         Idle, UNCHANGED noisyVars,
         scheduled' \in Seq([sound : Sounds, ticks : Nat]), Len(scheduled') <= MaxQueued
  PROVE  SoundSafe'
<1>1. PICK h : h = handle
  OBVIOUS
<1>2. PICK w : w = wanted
  OBVIOUS
<1>3. PICK z : z = suspended
  OBVIOUS
<1>4. SoundCore(m, h, w, z)
  BY <1>1, <1>2, <1>3 DEF SoundSafe
<1>5. SoundCore(q, h, w, z)
  BY <1>3, <1>4, CoreCarries
<1>6. h = handle' /\ w = wanted' /\ z = suspended'
  BY <1>1, <1>2, <1>3 DEF noisyVars, Idle
<1>7. SoundCore(mixer, handle, wanted, suspended)'
  BY <1>5, <1>6, CoreNext DEF Idle
<1> QED  BY <1>7 DEF SoundSafe, SoundRest, Idle, noisyVars

LEMMA QueueTyped ==
  ASSUME SoundSafe
  PROVE  QueueTicked \in Seq([sound : Sounds, ticks : Nat]) /\ Len(QueueTicked) <= MaxQueued
<1> DEFINE E == [sound : Sounds, ticks : Nat]
           gone == [sound : Sounds, ticks : {-1}]
           T == E \union gone
           ticked == [k \in DOMAIN scheduled |-> [scheduled[k] EXCEPT !.ticks = @ - 1]]
<1>1. scheduled \in Seq(E) /\ Len(scheduled) <= MaxQueued
  BY DEF SoundSafe, SoundRest
<1>2. ASSUME NEW e \in E PROVE [e EXCEPT !.ticks = @ - 1] \in T
  <2>1. PICK s \in Sounds, n \in Nat : e = [sound |-> s, ticks |-> n]
    OBVIOUS
  <2>2. [e EXCEPT !.ticks = @ - 1] = [sound |-> s, ticks |-> n - 1]
    BY <2>1
  <2>3. n - 1 \in Nat \/ n - 1 = -1
    OBVIOUS
  <2> QED  BY <2>2, <2>3
<1>3. T \ gone \subseteq E
  OBVIOUS
<1> HIDE DEF E, T, gone
<1>4. Len(scheduled) \in Nat /\ DOMAIN scheduled = 1 .. Len(scheduled)
      /\ \A k \in 1 .. Len(scheduled) : scheduled[k] \in E
  BY <1>1
<1>5. ticked \in Seq(T) /\ Len(ticked) = Len(scheduled)
  <2>1. ticked \in [1 .. Len(scheduled) -> T]
    BY <1>2, <1>4
  <2>2. DOMAIN ticked = 1 .. Len(scheduled)
    BY <1>4
  <2> HIDE DEF ticked
  <2> QED  BY <1>4, <2>1, <2>2, LenProperties
<1>6. PICK q : q = Without(ticked, gone)
  OBVIOUS
<1>7. q = QueueTicked
  BY <1>6 DEF QueueTicked, gone
<1> HIDE DEF ticked
<1>8. q \in Seq(T \ gone) /\ Len(q) \in 0 .. Len(ticked)
  BY <1>5, <1>6, WithoutIsSeq, WithoutShortens
<1>9. q \in Seq(E)
  <2>1. \A k \in 1 .. Len(q) : q[k] \in E
    BY <1>3, <1>8
  <2> QED  BY <1>8, <2>1
<1>10. Len(q) <= MaxQueued
  BY <1>1, <1>4, <1>5, <1>8, SoundAssumption
<1> QED  BY <1>7, <1>9, <1>10 DEF E

LEMMA StopStep ==
  ASSUME SoundSafe, NEW x \in Noisy, NEW fades, NEW s \in Sounds \union {NoSound},
         mixer' = StopContinuous(mixer, handle[x], fades),
         handle' = [handle EXCEPT ![x] = None], wanted' = [wanted EXCEPT ![x] = s],
         alive' \in [Noisy -> {"ticks", "killed", "gone"}],
         UNCHANGED <<capacity, scheduled, muted, paused, suspended>>
  PROVE  SoundSafe'
<1>1. PICK m : m = mixer
  OBVIOUS
<1>2. PICK h \in [Noisy -> Channel \union {None}] : h = handle
  BY DEF SoundSafe, SoundRest
<1>3. PICK w \in [Noisy -> Sounds \union {NoSound}] : w = wanted
  BY DEF SoundSafe, SoundRest
<1>4. PICK q : q = mixer'
  OBVIOUS
<1>5. SoundCore(m, h, w, suspended) /\ q = StopContinuous(m, h[x], fades)
  BY <1>1, <1>2, <1>3, <1>4 DEF SoundSafe
<1>6. PICK hh : hh = [h EXCEPT ![x] = None]
  OBVIOUS
<1>7. PICK ww : ww = [w EXCEPT ![x] = s]
  OBVIOUS
<1>8. SoundCore(q, hh, ww, suspended)
  BY <1>5, <1>6, <1>7, CoreStops
<1>9. PICK z : z = suspended
  OBVIOUS
<1>10. hh = handle' /\ ww = wanted' /\ z = suspended' /\ SoundCore(q, hh, ww, z)
  BY <1>2, <1>3, <1>6, <1>7, <1>8, <1>9
<1>11. SoundCore(mixer, handle, wanted, suspended)'
  BY <1>4, <1>10, CoreNext
<1>12. handle' \in [Noisy -> Channel \union {None}] /\ wanted' \in [Noisy -> Sounds \union {NoSound}]
  BY StartsTyped, CapacityIs
<1> QED  BY <1>11, <1>12 DEF SoundSafe, SoundRest

LEMMA StartStep ==
  ASSUME SoundSafe, ~suspended, NEW x \in Noisy, NEW s \in Sounds, NEW loads, NEW plays,
         NEW r, r = Keeps(x, s, loads, plays), r.to # None,
         mixer' = StopContinuous(Kept(r), handle[x], TRUE),
         handle' = [handle EXCEPT ![x] = r.to], wanted' = [wanted EXCEPT ![x] = s],
         UNCHANGED <<alive, capacity, scheduled, muted, paused, suspended>>
  PROVE  SoundSafe'
<1>1. PICK m : m = mixer
  OBVIOUS
<1>2. PICK h \in [Noisy -> Channel \union {None}] : h = handle
  BY DEF SoundSafe, SoundRest
<1>3. PICK w \in [Noisy -> Sounds \union {NoSound}] : w = wanted
  BY DEF SoundSafe, SoundRest
<1>4. PICK q : q = mixer'
  OBVIOUS
<1>5. SoundCore(m, h, w, suspended) /\ q = StopContinuous(Kept(r), h[x], TRUE)
  BY <1>1, <1>2, <1>3, <1>4 DEF SoundSafe
<1>6. r = Started(Found(m, s, loads), s, x, plays) /\ x \in Noisy \union {NoObject}
  BY <1>1 DEF Keeps
<1>7. MixerOK(m, capacity) /\ capacity \in Nat
  BY <1>1, CapacityIs
<1>8. Carries(m, r.m) /\ (r.to # None => \E f : Carries(m, f) /\ Starts(f, r.m, r.to, s, x))
  BY <1>6, <1>7, PlayedOK
<1>9. PICK f : Carries(m, f) /\ Starts(f, r.m, r.to, s, x)
  BY <1>8
<1>10. PICK hh : hh = [h EXCEPT ![x] = r.to]
  OBVIOUS
<1>11. PICK ww : ww = [w EXCEPT ![x] = s]
  OBVIOUS
<1>12. SoundCore(q, hh, ww, suspended)
  BY <1>5, <1>8, <1>9, <1>10, <1>11, CoreStarts
<1>13. PICK z : z = suspended
  OBVIOUS
<1>14. hh = handle' /\ ww = wanted' /\ z = suspended' /\ SoundCore(q, hh, ww, z)
  BY <1>2, <1>3, <1>10, <1>11, <1>12, <1>13
<1>15. SoundCore(mixer, handle, wanted, suspended)'
  BY <1>4, <1>14, CoreNext
<1>16. r.to \in Channel \union {None} /\ s \in Sounds \union {NoSound}
  BY <1>9 DEF Starts
<1>17. handle' \in [Noisy -> Channel \union {None}] /\ wanted' \in [Noisy -> Sounds \union {NoSound}]
  BY <1>16, StartsTyped
<1> QED  BY <1>15, <1>17 DEF SoundSafe, SoundRest

LEMMA UpdateStep ==
  ASSUME SoundSafe, NEW loads, NEW plays, Update(loads, plays)
  PROVE  SoundSafe'
<1>1. PICK m : m = mixer
  OBVIOUS
<1>2. PICK k : k = QueuePlayed(m, loads, plays)
  OBVIOUS
<1>3. PICK q : q = ChannelsUpdated(k)
  OBVIOUS
<1>4. q = mixer'
  BY <1>1, <1>2, <1>3 DEF Update
<1>5. MixerOK(m, capacity) /\ capacity \in Nat /\ scheduled \in Seq([sound : Sounds, ticks : Nat])
  BY <1>1, CapacityIs DEF SoundSafe, SoundRest
<1>6. Carries(m, k) /\ (suspended => k = m)
  BY <1>2, <1>5, QueuePlayedOK
<1>7. MixerOK(k, capacity)
  BY <1>6 DEF Carries
<1>8. Carries(k, q) /\ On(q) \subseteq On(k)
  BY <1>3, <1>7, ChannelsUpdatedOK
<1>9. Carries(m, q)
  BY <1>6, <1>8, CarriesOn
<1>10. suspended => On(q) = {}
  BY <1>1, <1>6, <1>8 DEF SoundSafe, SoundCore
<1>11. scheduled' \in Seq([sound : Sounds, ticks : Nat]) /\ Len(scheduled') <= MaxQueued
  BY QueueTyped DEF Update
<1> QED  BY <1>1, <1>4, <1>9, <1>10, <1>11, CarriedStep DEF Update

LEMMA QueueSame ==
  ASSUME SoundSafe, UNCHANGED scheduled
  PROVE  scheduled' \in Seq([sound : Sounds, ticks : Nat]) /\ Len(scheduled') <= MaxQueued
BY DEF SoundSafe, SoundRest

LEMMA PlayStep ==
  ASSUME SoundSafe, NEW s \in Sounds, NEW loads, NEW plays, Play(s, loads, plays)
  PROVE  SoundSafe'
<1>1. PICK m : m = mixer
  OBVIOUS
<1>2. PICK r : r = Started(Found(m, s, loads), s, NoObject, plays)
  OBVIOUS
<1>3. MixerOK(m, capacity) /\ capacity \in Nat /\ NoObject \in Noisy \union {NoObject}
  BY <1>1, CapacityIs
<1>4. PICK q : q = r.m
  OBVIOUS
<1>5. Carries(m, q)
  BY <1>2, <1>3, <1>4, PlayedOK
<1>6. q = mixer' /\ ~suspended /\ UNCHANGED scheduled /\ UNCHANGED noisyVars
  BY <1>1, <1>2, <1>4 DEF Play, Hears, noisyVars
<1> QED  BY <1>1, <1>5, <1>6, QueueSame, CarriedStep DEF Play

LEMMA QueueStepOK ==
  ASSUME SoundSafe, NEW s \in Sounds, NEW loads, Queue(s, loads)
  PROVE  SoundSafe'
<1>1. PICK m : m = mixer
  OBVIOUS
<1>2. PICK q : q = Found(m, s, loads)
  OBVIOUS
<1>3. MixerOK(m, capacity) /\ capacity \in Nat
  BY <1>1, CapacityIs
<1>4. Carries(m, q)
  BY <1>2, <1>3, FoundOK
<1>5. q = mixer' /\ ~suspended /\ UNCHANGED noisyVars
  BY <1>1, <1>2 DEF Queue, Hears
<1>6. PICK E : E = [sound : Sounds, ticks : Nat]
  OBVIOUS
<1>7. PICK e \in E : e = [sound |-> s, ticks |-> 1]
  BY <1>6
<1>8. scheduled' = Append(scheduled, e) \/ scheduled' = scheduled
  BY <1>7 DEF Queue
<1>9. scheduled \in Seq(E) /\ Len(scheduled) <= MaxQueued /\ Len(scheduled) < MaxQueued
  BY <1>6 DEF SoundSafe, SoundRest, Queue
<1>10. scheduled' \in Seq(E) /\ Len(scheduled') <= MaxQueued
  BY <1>7, <1>8, <1>9, SoundAssumption
<1> QED  BY <1>1, <1>4, <1>5, <1>6, <1>10, CarriedStep DEF Queue

LEMMA EndsStep ==
  ASSUME SoundSafe, NEW b \in Buffers, Ends(b)
  PROVE  SoundSafe'
<1>1. PICK m : m = mixer
  OBVIOUS
<1>2. PICK q : q = [m EXCEPT !.playing[b] = "no"]
  OBVIOUS
<1>3. MixerOK(m, capacity) /\ m.playing[b] = "once"
  BY <1>1, CapacityIs DEF Ends
<1>4. Carries(m, q) /\ On(q) = On(m)
  BY <1>2, <1>3, EndsCarries
<1>5. q = mixer' /\ UNCHANGED noisyVars /\ UNCHANGED scheduled
  BY <1>1, <1>2 DEF Ends
<1>6. suspended => On(q) = {}
  BY <1>1, <1>4 DEF SoundSafe, SoundCore
<1> QED  BY <1>1, <1>4, <1>5, <1>6, QueueSame, CarriedStep DEF Ends

\* No channel was to be had: the cache alone may have changed.
LEMMA UnstartedStep ==
  ASSUME SoundSafe, ~suspended, NEW x \in Noisy, NEW s \in Sounds, NEW loads, NEW plays,
         mixer' = Keeps(x, s, loads, plays).m, UNCHANGED <<handle, wanted, scheduled>>, Idle
  PROVE  SoundSafe'
<1>1. PICK m : m = mixer
  OBVIOUS
<1>2. PICK r : r = Started(Found(m, s, loads), s, x, plays)
  OBVIOUS
<1>3. MixerOK(m, capacity) /\ capacity \in Nat /\ x \in Noisy \union {NoObject}
  BY <1>1, CapacityIs
<1>4. PICK q : q = r.m
  OBVIOUS
<1>5. Carries(m, q)
  BY <1>2, <1>3, <1>4, PlayedOK
<1>6. q = mixer' /\ UNCHANGED scheduled /\ UNCHANGED noisyVars
  BY <1>1, <1>2, <1>4 DEF Keeps, noisyVars, Idle
<1> QED  BY <1>1, <1>5, <1>6, QueueSame, CarriedStep

LEMMA SetSoundStep ==
  ASSUME SoundSafe, NEW x \in Noisy, NEW s \in Sounds, NEW near, NEW loads, NEW plays,
         SetSound(x, s, near, loads, plays)
  PROVE  SoundSafe'
<1>1. PICK r : r = Keeps(x, s, loads, plays)
  OBVIOUS
<1>2. CASE near /\ ~suspended /\ r.to = None /\ mixer' = r.m /\ UNCHANGED <<handle, wanted>>
  BY <1>1, <1>2, UnstartedStep DEF SetSound
<1>3. CASE /\ near /\ ~suspended /\ r.to # None /\ mixer' = Replaced(Kept(r), x)
           /\ handle' = [handle EXCEPT ![x] = r.to] /\ wanted' = [wanted EXCEPT ![x] = s]
  BY <1>1, <1>3, StartStep DEF SetSound, Replaced, Idle
<1>4. CASE /\ mixer' = Replaced(mixer, x) /\ handle' = [handle EXCEPT ![x] = None]
           /\ wanted' = [wanted EXCEPT ![x] = s]
  <2>1. mixer' = StopContinuous(mixer, handle[x], TRUE) /\ s \in Sounds \union {NoSound}
    BY <1>4 DEF Replaced
  <2>2. alive' \in [Noisy -> {"ticks", "killed", "gone"}]
    BY DEF SetSound, Idle, SoundSafe, SoundRest
  <2> QED  BY <1>4, <2>1, <2>2, StopStep DEF SetSound, Idle
<1> QED  BY <1>1, <1>2, <1>3, <1>4 DEF SetSound

LEMMA QuietStep ==
  ASSUME SoundSafe, NEW x \in Noisy, NEW fades, Quiet(x, fades)
  PROVE  SoundSafe'
<1>1. alive' \in [Noisy -> {"ticks", "killed", "gone"}] /\ NoSound \in Sounds \union {NoSound}
  BY DEF Quiet, Idle, SoundSafe, SoundRest
<1> QED  BY <1>1, StopStep DEF Quiet, Idle

LEMMA UpdateSoundStep ==
  ASSUME SoundSafe, NEW x \in Noisy, NEW near, NEW loads, NEW plays,
         UpdateSound(x, near, loads, plays)
  PROVE  SoundSafe'
<1>1. PICK r : r = Keeps(x, wanted[x], loads, plays)
  OBVIOUS
<1>2. PICK s \in Sounds : s = wanted[x]
  BY DEF UpdateSound, SoundSafe, SoundRest
<1>3. CASE /\ Hears /\ r.to = None /\ mixer' = r.m /\ UNCHANGED <<handle, wanted>>
  BY <1>1, <1>2, <1>3, UnstartedStep DEF UpdateSound, Hears
<1>4. CASE /\ handle[x] = None /\ Hears /\ r.to # None /\ mixer' = Kept(r)
           /\ handle' = [handle EXCEPT ![x] = r.to] /\ UNCHANGED wanted
  <2>1. None \notin On(Kept(r))
    BY OnIs DEF None
  <2>2. mixer' = StopContinuous(Kept(r), handle[x], TRUE)
    BY <1>4, <2>1 DEF StopContinuous
  <2>3. wanted' = [wanted EXCEPT ![x] = s]
    BY <1>2, <1>4 DEF SoundSafe, SoundRest
  <2>4. r = Keeps(x, s, loads, plays) /\ ~suspended
    BY <1>1, <1>2, <1>4 DEF Hears
  <2>5. UNCHANGED <<alive, capacity, scheduled, muted, paused, suspended>>
    BY DEF UpdateSound, Idle
  <2> QED  BY <1>4, <2>2, <2>3, <2>4, <2>5, StartStep
<1>5. CASE UNCHANGED <<mixer, handle, wanted>>
  <2>1. PICK m : m = mixer
    OBVIOUS
  <2>2. PICK q : q = mixer'
    OBVIOUS
  <2>3. q = m /\ MixerOK(m, capacity) /\ UNCHANGED noisyVars /\ UNCHANGED scheduled
    BY <1>5, <2>1, <2>2, CapacityIs DEF noisyVars, UpdateSound, Idle
  <2>4. Carries(m, q) /\ (suspended => On(q) = {})
    BY <2>1, <2>3, CarriesSelf DEF SoundSafe, SoundCore
  <2> QED  BY <2>1, <2>2, <2>3, <2>4, QueueSame, CarriedStep DEF UpdateSound
<1>6. CASE /\ mixer' = StopContinuous(mixer, handle[x], FALSE)
           /\ handle' = [handle EXCEPT ![x] = None]
           /\ \E t \in Sounds \union {NoSound} : wanted' = [wanted EXCEPT ![x] = t]
  <2>1. alive' \in [Noisy -> {"ticks", "killed", "gone"}]
    BY DEF UpdateSound, Idle, SoundSafe, SoundRest
  <2>2. PICK t \in Sounds \union {NoSound} : wanted' = [wanted EXCEPT ![x] = t]
    BY <1>6
  <2> QED  BY <1>6, <2>1, <2>2, StopStep DEF UpdateSound, Idle
<1>7. \/ Hears /\ r.to = None /\ mixer' = r.m /\ UNCHANGED <<handle, wanted>>
      \/ /\ handle[x] = None /\ Hears /\ r.to # None /\ mixer' = Kept(r)
         /\ handle' = [handle EXCEPT ![x] = r.to] /\ UNCHANGED wanted
      \/ UNCHANGED <<mixer, handle, wanted>>
      \/ /\ mixer' = StopContinuous(mixer, handle[x], FALSE)
         /\ handle' = [handle EXCEPT ![x] = None]
         /\ \E t \in Sounds \union {NoSound} : wanted' = [wanted EXCEPT ![x] = t]
  BY <1>1, <1>2 DEF UpdateSound
<1> QED  BY <1>3, <1>4, <1>5, <1>6, <1>7

LEMMA ParkStep ==
  ASSUME SoundSafe, NEW x \in Noisy, Park(x)
  PROVE  SoundSafe'
<1>1. PICK q : q = mixer'
  OBVIOUS
<1>2. PICK h : h = handle'
  OBVIOUS
<1>3. PICK w : w = wanted'
  OBVIOUS
<1>4. PICK z : z = suspended'
  OBVIOUS
<1>5. SoundCore(q, h, w, z)
  BY <1>1, <1>2, <1>3, <1>4 DEF SoundSafe, Park
<1>6. SoundCore(mixer, handle, wanted, suspended)'
  BY <1>1, <1>2, <1>3, <1>4, <1>5, CoreNext DEF Park
<1> QED  BY <1>6 DEF SoundSafe, SoundRest, Park

LEMMA DestroyStep ==
  ASSUME SoundSafe, NEW x \in Noisy, Destroy(x)
  PROVE  SoundSafe'
<1>1. alive' \in [Noisy -> {"ticks", "killed", "gone"}] /\ NoSound \in Sounds \union {NoSound}
  BY DEF Destroy, SoundSafe, SoundRest
<1> QED  BY <1>1, StopStep DEF Destroy, Silenced

\* One of the flags changes, and all falls silent or nothing else changes.
LEMMA SwitchStep ==
  ASSUME SoundSafe, UNCHANGED <<capacity, alive>>,
         muted' \in BOOLEAN, paused' \in BOOLEAN, suspended' \in BOOLEAN,
         \/ Release /\ Silence
         \/ UNCHANGED <<mixer, scheduled, handle, wanted>> /\ (suspended' => suspended)
  PROVE  SoundSafe'
<1>1. CASE Release /\ Silence
  BY <1>1, SilenceStep
<1>2. CASE UNCHANGED <<mixer, scheduled, handle, wanted>> /\ (suspended' => suspended)
  <2>1. PICK q : q = mixer'
    OBVIOUS
  <2>2. PICK h : h = handle'
    OBVIOUS
  <2>3. PICK w : w = wanted'
    OBVIOUS
  <2>4. PICK z : z = suspended'
    OBVIOUS
  <2>5. SoundCore(q, h, w, z)
    BY <1>2, <2>1, <2>2, <2>3, <2>4 DEF SoundSafe, SoundCore
  <2>6. SoundCore(mixer, handle, wanted, suspended)'
    BY <2>1, <2>2, <2>3, <2>4, <2>5, CoreNext
  <2> QED  BY <1>2, <2>6 DEF SoundSafe, SoundRest
<1> QED  BY <1>1, <1>2

LEMMA TogglesStep ==
  ASSUME SoundSafe, ToggleMute \/ TogglePause \/ ToggleSuspend
  PROVE  SoundSafe'
<1>1. muted \in BOOLEAN /\ paused \in BOOLEAN /\ suspended \in BOOLEAN
  BY DEF SoundSafe, SoundRest
<1>2. CASE ToggleMute
  BY <1>1, <1>2, SwitchStep DEF ToggleMute
<1>3. CASE TogglePause
  BY <1>1, <1>3, SwitchStep DEF TogglePause
<1>4. CASE ToggleSuspend
  BY <1>1, <1>4, SwitchStep DEF ToggleSuspend
<1> QED  BY <1>2, <1>3, <1>4

LEMMA SafeInit ==
  ASSUME SoundInit
  PROVE  SoundSafe
<1>1. PICK m : m = mixer
  OBVIOUS
<1>2. m = [cache |-> <<>>, channel |-> [i \in Channel |-> Free],
           playing |-> [b \in Buffers |-> "no"], live |-> {}, active |-> 0,
           refs |-> [s \in Sounds |-> 0], total |-> 0]
  BY <1>1 DEF SoundInit
<1>3. Free \in ChannelState /\ Free.on = FALSE
  BY SoundAssumption DEF Free, ChannelState
<1>4. m \in Mixer
  <2>1. <<>> \in Seq(Sounds) /\ [i \in Channel |-> Free] \in [Channel -> ChannelState]
    BY <1>3
  <2>2. /\ [b \in Buffers |-> "no"] \in [Buffers -> {"no", "once", "loop"}]
        /\ [s \in Sounds |-> 0] \in [Sounds -> Nat] /\ {} \in SUBSET Buffers
    OBVIOUS
  <2> QED  BY <1>2, <2>1, <2>2 DEF Mixer
<1>5. On(m) = {} /\ Held(m) = {} /\ Looping(m) = {} /\ \A s : Copies(m, s) = {}
  BY <1>2, <1>3 DEF On, Held, Looping, Copies
<1>6. ToSet(m.cache) = {} /\ Len(m.cache) = 0 /\ IsInjective(m.cache)
  BY <1>2 DEF ToSet, IsInjective
<1>7. Cardinality({}) = 0
  BY FS_EmptySet
<1>8. Tallied(m)
  BY <1>2, <1>5, <1>6, <1>7 DEF Tallied
<1>9. Voiced(m)
  BY <1>2, <1>5, <1>6 DEF Voiced, Alive
<1>10. capacity \in Nat
  BY SoundAssumption DEF SoundInit
<1>11. MixerOK(m, capacity)
  BY <1>2, <1>4, <1>6, <1>8, <1>9, <1>10 DEF MixerOK
<1>12. Tidy(m) /\ Claimed(m, handle) /\ Owned(m, handle, wanted)
  BY <1>5 DEF Tidy, Claimed, Owned, SoundInit
<1>13. SoundCore(mixer, handle, wanted, suspended)
  BY <1>1, <1>5, <1>11, <1>12 DEF SoundCore
<1>14. scheduled \in Seq([sound : Sounds, ticks : Nat]) /\ Len(scheduled) <= MaxQueued
  <2>1. scheduled = <<>> /\ MaxQueued \in Nat
    BY SoundAssumption DEF SoundInit
  <2> QED  BY <2>1
<1>15. handle \in [Noisy -> Channel \union {None}] /\ wanted \in [Noisy -> Sounds \union {NoSound}]
       /\ alive \in [Noisy -> {"ticks", "killed", "gone"}]
  BY DEF SoundInit
<1>16. capacity \in Capacities /\ {muted, paused, suspended} \subseteq BOOLEAN
  BY DEF SoundInit
<1> QED  BY <1>13, <1>14, <1>15, <1>16 DEF SoundSafe, SoundRest

LEMMA SafeStep ==
  ASSUME SoundSafe, [SoundNext]_soundVars
  PROVE  SoundSafe'
<1>1. CASE UNCHANGED soundVars
  <2>1. PICK q : q = mixer'
    OBVIOUS
  <2>2. PICK h : h = handle'
    OBVIOUS
  <2>3. PICK w : w = wanted'
    OBVIOUS
  <2>4. PICK z : z = suspended'
    OBVIOUS
  <2>5. SoundCore(q, h, w, z)
    BY <1>1, <2>1, <2>2, <2>3, <2>4 DEF SoundSafe, soundVars, noisyVars
  <2>6. SoundCore(mixer, handle, wanted, suspended)'
    BY <1>1, <2>1, <2>2, <2>3, <2>4, <2>5, CoreNext DEF soundVars
  <2> QED  BY <1>1, <2>6 DEF SoundSafe, SoundRest, soundVars, noisyVars
<1>2. CASE SoundNext
  <2>1. CASE \E loads, plays \in BOOLEAN : Update(loads, plays)
    BY <2>1, UpdateStep
  <2>2. CASE \E loads, plays \in BOOLEAN, s \in Sounds : Play(s, loads, plays) \/ Queue(s, loads)
    BY <2>2, PlayStep, QueueStepOK
  <2>3. CASE \E loads, plays \in BOOLEAN, x \in Noisy, near \in BOOLEAN : UpdateSound(x, near, loads, plays)
    BY <2>3, UpdateSoundStep
  <2>4. CASE \E loads, plays \in BOOLEAN, x \in Noisy, near \in BOOLEAN, s \in Sounds :
               SetSound(x, s, near, loads, plays)
    BY <2>4, SetSoundStep
  <2>5. CASE \E b \in Buffers : Ends(b)
    BY <2>5, EndsStep
  <2>6. CASE \E x \in Noisy : Park(x) \/ Destroy(x) \/ \E fades \in BOOLEAN : Quiet(x, fades)
    BY <2>6, ParkStep, DestroyStep, QuietStep
  <2>7. CASE ToggleMute \/ TogglePause \/ ToggleSuspend
    BY <2>7, TogglesStep
  <2> QED  BY <1>2, <2>1, <2>2, <2>3, <2>4, <2>5, <2>6, <2>7 DEF SoundNext
<1> QED  BY <1>1, <1>2

LEMMA SafeMeans ==
  ASSUME SoundSafe
  PROVE  MixerSound /\ OwnChannel
<1>1. PICK m : m = mixer
  OBVIOUS
<1>2. MixerOK(m, capacity) /\ Claimed(m, handle) /\ (Roomy => Owned(m, handle, wanted)) /\ SoundRest
  BY <1>1 DEF SoundSafe, SoundCore
<1>3. m \in Mixer /\ IsInjective(m.cache) /\ m.total <= capacity /\ Tallied(m) /\ Voiced(m)
  BY <1>2 DEF MixerOK
<1>4. SoundTypeOK
  BY <1>1, <1>2, <1>3 DEF SoundTypeOK, SoundRest
<1>5. CountsMatch
  BY <1>1, <1>3 DEF CountsMatch, Tallied, Copies
<1>6. VoicesLive
  <2>1. \A i \in On(m) : Voice(m, i) \in Buffers
    <3>1. ToSet(m.cache) \subseteq Sounds
      BY <1>3, MixerIs DEF ToSet
    <3>2. \A i \in On(m) : i \in Channel /\ m.channel[i].sound \in Sounds
      BY <1>3, <3>1, OnIs DEF Voiced
    <3> QED  BY <1>3, <3>2, VoiceIs
  <2>2. \A s \in ToSet(m.cache) : Entry(s) \in Buffers
    BY <1>3, MixerIs, SoundAssumption DEF ToSet, Entry, Buffers
  <2>3. m.live \subseteq Buffers
    BY <1>3, MixerIs
  <2>4. \A b : b \in m.live <=> Alive(m, b)
    BY <1>3, <2>1, <2>2, <2>3 DEF Voiced, Alive
  <2>5. m.live = {Voice(m, i) : i \in On(m)} \union {Entry(s) : s \in ToSet(m.cache)}
    BY <2>4 DEF Alive
  <2> QED  BY <1>1, <2>5 DEF VoicesLive
<1>7. NoOrphanSound
  BY <1>1, <1>2 DEF NoOrphanSound, Claimed, Held
<1>8. OwnChannel
  BY <1>1, <1>2 DEF OwnChannel, Owned
<1> QED  BY <1>4, <1>5, <1>6, <1>7, <1>8 DEF MixerSound

\* Counts kept by hand agree with the channels and the cache, no channel plays through a
\* released buffer, and whoever a sound goes on for can stop it.
THEOREM MixerIsSound == SoundSpec => []MixerSound
<1>1. SoundInit => SoundSafe
  BY SafeInit
<1>2. SoundSafe /\ [SoundNext]_soundVars => SoundSafe'
  BY SafeStep
<1>3. SoundSafe => MixerSound
  BY SafeMeans
<1> QED  BY <1>1, <1>2, <1>3, PTL DEF SoundSpec

\* Where the cache has room for all sounds, the channel an object remembers plays the
\* object's own sound.
THEOREM ChannelsAreOwn == SoundSpec => []OwnChannel
<1>1. SoundInit => SoundSafe
  BY SafeInit
<1>2. SoundSafe /\ [SoundNext]_soundVars => SoundSafe'
  BY SafeStep
<1>3. SoundSafe => OwnChannel
  BY SafeMeans
<1> QED  BY <1>1, <1>2, <1>3, PTL DEF SoundSpec

\* Where the cache has room for all sounds, only a script, or the death of its object, ends a loop.
THEOREM LoopsSurvive == SoundSpec => LoopSurvives
<1> DEFINE Kind == Roomy => \A x \in Noisy : wanted[x] \in Loops /\ wanted'[x] # wanted[x] =>
                     \/ \E fades \in BOOLEAN : Quiet(x, fades)
                     \/ Destroy(x)
                     \/ wanted'[x] # NoSound
<1>1. SoundInit => SoundSafe
  BY SafeInit
<1>2. SoundSafe /\ [SoundNext]_soundVars => SoundSafe'
  BY SafeStep
<1>3. SoundSafe /\ [SoundNext]_soundVars => [Kind]_soundVars
  <2> SUFFICES ASSUME SoundSafe, SoundNext, Roomy, NEW x \in Noisy, wanted[x] \in Loops,
                      wanted'[x] # wanted[x], wanted'[x] = NoSound
               PROVE  (\E fades \in BOOLEAN : Quiet(x, fades)) \/ Destroy(x)
    OBVIOUS
  <2>0. wanted \in [Noisy -> Sounds \union {NoSound}] /\ NoSound \notin Sounds /\ Loops \subseteq Sounds
    BY SoundAssumption DEF SoundSafe, SoundRest, Sounds
  <2>1. ASSUME NEW loads, NEW plays, NEW y \in Noisy, NEW near, UpdateSound(y, near, loads, plays)
        PROVE  FALSE
    <3>1. PICK i : i = handle[y]
      OBVIOUS
    <3>2. wanted' # wanted
      OBVIOUS
    <3>3. /\ i # None /\ ~(~suspended /\ mixer.channel[i].on /\ mixer.playing[Voice(mixer, i)] # "no")
          /\ y = x
      BY <2>0, <2>1, <3>1, <3>2 DEF UpdateSound
    <3>4. Tidy(mixer) /\ Owned(mixer, handle, wanted) /\ (suspended => On(mixer) = {})
      BY DEF SoundSafe, SoundCore
    <3>5. i \in Held(mixer) /\ mixer.channel[i].by = x /\ mixer.channel[i].sound = wanted[x]
      BY <3>1, <3>3, <3>4 DEF Owned
    <3>6. i \in Looping(mixer) /\ i \in On(mixer)
      BY <3>5, SoundAssumption DEF Looping, Held
    <3>7. mixer.playing[Voice(mixer, i)] = "loop" /\ mixer.channel[i].on
      BY <3>4, <3>6 DEF Tidy, On
    <3> QED  BY <3>3, <3>4, <3>6, <3>7
  <2>2. ASSUME NEW loads, NEW plays, NEW y \in Noisy, NEW near, NEW s \in Sounds,
               SetSound(y, s, near, loads, plays)
        PROVE  FALSE
    BY <2>0, <2>2 DEF SetSound
  <2>3. ASSUME UNCHANGED wanted \/ Release
        PROVE  FALSE
    BY <2>0, <2>3 DEF Release
  <2>4. ASSUME NEW y \in Noisy, NEW fades \in BOOLEAN, Quiet(y, fades)
        PROVE  \E f \in BOOLEAN : Quiet(x, f)
    <3>1. y = x
      BY <2>0, <2>4 DEF Quiet
    <3> QED  BY <2>4, <3>1
  <2>5. ASSUME NEW y \in Noisy, Destroy(y)
        PROVE  Destroy(x)
    <3>1. y = x
      BY <2>0, <2>5 DEF Destroy
    <3> QED  BY <2>5, <3>1
  <2>6. CASE \E loads, plays \in BOOLEAN : Update(loads, plays)
    BY <2>3, <2>6 DEF Update, noisyVars
  <2>7. CASE \E loads, plays \in BOOLEAN, s \in Sounds : Play(s, loads, plays) \/ Queue(s, loads)
    BY <2>3, <2>7 DEF Play, Queue, noisyVars
  <2>8. CASE \E b \in Buffers : Ends(b)
    BY <2>3, <2>8 DEF Ends, noisyVars
  <2>9. CASE \E y \in Noisy : Park(y)
    BY <2>3, <2>9 DEF Park
  <2>10. CASE ToggleMute \/ TogglePause \/ ToggleSuspend
    BY <2>3, <2>10 DEF ToggleMute, TogglePause, ToggleSuspend
  <2> QED  BY <2>1, <2>2, <2>4, <2>5, <2>6, <2>7, <2>8, <2>9, <2>10 DEF SoundNext
<1> QED  BY <1>1, <1>2, <1>3, PTL DEF SoundSpec, LoopSurvives
=============================================================================
