---------------------------- MODULE MotionProofs ----------------------------
(***************************************************************************)
(* Where things are: the space of the map, for any width, the lift that    *)
(* carries things through it, for any floors, buttons and speed, and who   *)
(* carries whom, for any norns, things and vehicles.                       *)
(***************************************************************************)
EXTENDS WorldSpace, Lift, Carrying, SequenceFilterProofs, FiniteSetTheorems, WellFoundedInduction, TLAPS

-----------------------------------------------------------------------------
(***************************************************************************)
(* The space: what overlapping, cutting and merging rectangles on the ring *)
(* keep, that the view stays on the map, that a fall ends on its floor and a*)
(* creature in its room.                                                   *)
(***************************************************************************)

\* A loop that keeps the first of the smallest finds one (find_nearest_room_bounds_at_point,
\* find_floor_room_below, the search of the dirty queue).
LEMMA FirstLeastExists ==
  ASSUME NEW S, S \subseteq Nat, S # {}, NEW least \in [S -> Nat]
  PROVE /\ FirstLeast(least) \in S
        /\ \A j \in S : least[FirstLeast(least)] <= least[j]
<1> DEFINE values == {least[j] : j \in S}
<1>1. values \subseteq Nat /\ values # {}
  OBVIOUS
<1>2. PICK m \in values : \A k \in values : <<k, m>> \notin OpToRel(<, Nat)
  <2> HIDE DEF values
  <2> QED
    BY <1>1, WFMin, NatLessThanWellFounded, Zenon
<1>3. \A k \in values : k \in Nat /\ ~(k < m)
  <2> HIDE DEF values
  <2> QED
    BY <1>1, <1>2, Zenon DEF OpToRel
<1>4. m \in Nat /\ \A k \in values : m <= k
  <2> HIDE DEF values
  <2>1. m \in Nat
    BY <1>2, <1>3
  <2>2. ASSUME NEW k \in values
        PROVE m <= k
    <3>1. k \in Nat /\ ~(k < m)
      BY <1>3
    <3> QED
      BY <2>1, <3>1
  <2> QED
    BY <2>1, <2>2
<1> DEFINE first == {j \in S : least[j] = m}
<1>5. first \subseteq Nat /\ first # {}
  BY <1>2
<1>6. PICK i \in first : \A j \in first : <<j, i>> \notin OpToRel(<, Nat)
  <2> HIDE DEF first
  <2> QED
    BY <1>5, WFMin, NatLessThanWellFounded, Zenon
<1>7. \A j \in first : j \in Nat /\ ~(j < i)
  <2> HIDE DEF first
  <2> QED
    BY <1>5, <1>6, Zenon DEF OpToRel
<1>8. i \in S /\ least[i] = m /\ i \in Nat
  BY <1>6
<1>9. \A j \in S : least[i] < least[j] \/ (least[i] = least[j] /\ i <= j)
  <2> SUFFICES ASSUME NEW j \in S
               PROVE least[i] < least[j] \/ (least[i] = least[j] /\ i <= j)
    OBVIOUS
  <2>1. least[j] \in Nat /\ m <= least[j] /\ j \in Nat
    BY <1>4
  <2>2. least[j] = m => i <= j
    BY <1>7, <1>8, <2>1
  <2> HIDE DEF values, first
  <2> QED
    BY <1>4, <1>8, <2>1, <2>2
<1>10. DOMAIN least = S
  OBVIOUS
<1>11. /\ FirstLeast(least) \in S
       /\ \A j \in S : \/ least[FirstLeast(least)] < least[j]
                       \/ least[FirstLeast(least)] = least[j] /\ FirstLeast(least) <= j
  BY <1>8, <1>9, <1>10, Zenon DEF FirstLeast
<1> DEFINE f == FirstLeast(least)
<1>12. f \in S
  BY <1>11
<1>13. ASSUME NEW j \in S
       PROVE least[f] <= least[j]
  <2>1. least[f] \in Nat /\ least[j] \in Nat
    BY <1>12
  <2>2. least[f] < least[j] \/ least[f] = least[j]
    BY <1>11
  <2> HIDE DEF f
  <2> QED
    BY <2>1, <2>2
<1> HIDE DEF f
<1> QED
  BY <1>12, <1>13, Zenon DEF f

-------------------------------------------------------------------------------
(* Rectangles                                                              *)

\* Two rectangles on the ring overlap by the code's comparisons exactly when they
\* have a point in common, on whichever side of the seam (wrapped_world_rects_overlap).
THEOREM OverlapIsCommonPoint ==
  ASSUME NEW a \in WorldRect, NEW b \in WorldRect
  PROVE WrappedRectsOverlap(a, b)
          <=> \E x \in Columns, y \in Int : Covers(a, x, y) /\ Covers(b, x, y)
<1> USE SpaceAssumption DEF WorldRect, Corners, Wraps, Columns
<1>1. ASSUME NEW x \in Columns, NEW y \in Int, Covers(a, x, y), Covers(b, x, y)
      PROVE WrappedRectsOverlap(a, b)
  BY <1>1 DEF Covers, WrappedRectsOverlap
<1>2. ASSUME WrappedRectsOverlap(a, b)
      PROVE \E x \in Columns, y \in Int : Covers(a, x, y) /\ Covers(b, x, y)
  <2> DEFINE y == Larger(a.min_y, b.min_y)
  <2>1. /\ y \in Int
        /\ a.min_y <= y /\ y < a.max_y
        /\ b.min_y <= y /\ y < b.max_y
    BY <1>2 DEF WrappedRectsOverlap, Larger
  <2>2. \E x \in Columns :
          /\ (a.min_x <= x /\ x < a.max_x)
               \/ (a.min_x <= x + WorldWidth /\ x + WorldWidth < a.max_x)
          /\ (b.min_x <= x /\ x < b.max_x)
               \/ (b.min_x <= x + WorldWidth /\ x + WorldWidth < b.max_x)
    <3>1. CASE Wraps(a) /\ Wraps(b)
      <4> WITNESS WorldWidth - 1 \in Columns
      <4> QED
        BY <3>1
    <3>2. CASE a.min_x < b.max_x /\ b.min_x < a.max_x
      <4>1. Larger(a.min_x, b.min_x) \in Columns
        BY DEF Larger
      <4> WITNESS Larger(a.min_x, b.min_x) \in Columns
      <4> QED
        BY <3>2 DEF Larger
    <3>3. CASE Wraps(b) /\ a.min_x < b.max_x - WorldWidth
      <4> WITNESS a.min_x \in Columns
      <4> QED
        BY <3>3
    <3>4. CASE Wraps(a) /\ b.min_x < a.max_x - WorldWidth
      <4> WITNESS b.min_x \in Columns
      <4> QED
        BY <3>4
    <3> QED
      BY <1>2, <3>1, <3>2, <3>3, <3>4 DEF WrappedRectsOverlap
  <2> HIDE DEF y
  <2> QED
    BY <2>1, <2>2 DEF Covers
<1> QED
  BY <1>1, <1>2

\* What is drawn for a rectangle lies inside the view, so nothing is written beside
\* the surface (queue_dirty_world_rect and present_world_rect, which once drew the
\* uncut rectangle).
THEOREM IntersectedIsInside ==
  ASSUME NEW view \in WorldRect, NEW r \in WorldRect,
         WrappedRectsOverlap(view, r),
         NEW x \in Columns, NEW y \in Int,
         Covers(Intersected(view, r), x, y)
  PROVE Covers(view, x, y)
  BY SpaceAssumption
  DEF WorldRect, Corners, Wraps, Columns, Covers, Intersected, WrappedRectsOverlap, Larger, Smaller

\* Every point of the view that a rectangle asks to be drawn is drawn, unless the
\* two meet on both sides of the seam (intersect_wrapped_world_rects).
THEOREM IntersectedKeepsCommon ==
  ASSUME NEW view \in WorldRect, NEW r \in WorldRect, ~MeetTwice(view, r),
         NEW x \in Columns, NEW y \in Int,
         Covers(view, x, y), Covers(r, x, y)
  PROVE Covers(Intersected(view, r), x, y)
  BY SpaceAssumption
  DEF WorldRect, Corners, Wraps, Columns, Covers, Intersected, MeetTwice, Larger, Smaller

\* A union has every point of both rectangles and is again a rectangle the other
\* functions take, however often rectangles are merged (union_wrapped_world_rects).
THEOREM UnionCoversBoth ==
  ASSUME NEW a \in WorldRect, NEW b \in WorldRect
  PROVE /\ UnionOf(a, b) \in WorldRect
        /\ \A x \in Columns, y \in Int :
             Covers(a, x, y) \/ Covers(b, x, y) => Covers(UnionOf(a, b), x, y)
<1> USE SpaceAssumption DEF WorldRect, Corners, Wraps, UnionOf, Larger, Smaller
<1>1. UnionOf(a, b) \in WorldRect
  <2>1. CASE Wraps(b) /\ ~Wraps(a) /\ a.max_x <= b.min_x
    <3>1. UnionOf(a, b) = [min_x |-> b.min_x, min_y |-> Smaller(a.min_y, b.min_y),
                           max_x |-> Larger(a.max_x + WorldWidth, b.max_x),
                           max_y |-> Larger(a.max_y, b.max_y)]
      BY <2>1
    <3> QED
      BY <2>1, <3>1
  <2>2. CASE Wraps(a) /\ ~Wraps(b) /\ b.max_x <= a.min_x
    <3>1. UnionOf(a, b) = [min_x |-> a.min_x, min_y |-> Smaller(a.min_y, b.min_y),
                           max_x |-> Larger(a.max_x, b.max_x + WorldWidth),
                           max_y |-> Larger(a.max_y, b.max_y)]
      BY <2>2
    <3> QED
      BY <2>2, <3>1
  <2>3. CASE /\ ~(Wraps(b) /\ ~Wraps(a) /\ a.max_x <= b.min_x)
             /\ ~(Wraps(a) /\ ~Wraps(b) /\ b.max_x <= a.min_x)
    <3>1. UnionOf(a, b) = [min_x |-> Smaller(a.min_x, b.min_x), min_y |-> Smaller(a.min_y, b.min_y),
                           max_x |-> Larger(a.max_x, b.max_x),
                           max_y |-> Larger(a.max_y, b.max_y)]
      BY <2>3
    <3> QED
      BY <2>3, <3>1
  <2> QED
    BY <2>1, <2>2, <2>3
<1>2. ASSUME NEW x \in Columns, NEW y \in Int, Covers(a, x, y) \/ Covers(b, x, y)
      PROVE Covers(UnionOf(a, b), x, y)
  BY <1>2 DEF Covers, Columns
<1> QED
  BY <1>1, <1>2

\* A rectangle in the queue, or one that comes, stays marked for drawing whatever
\* the queue merges, and the queue keeps within its bound (queue_dirty_world_rect).
THEOREM QueueForgetsNoPoint ==
  ASSUME NEW dirty \in Seq(WorldRect), Len(dirty) <= QueueSize,
         NEW r \in WorldRect, NEW x \in Columns, NEW y \in Int
  PROVE LET after == QueuedDirty(dirty, r) IN
        /\ after \in Seq(WorldRect) /\ Len(after) <= QueueSize
        /\ (\E i \in DOMAIN dirty : Covers(dirty[i], x, y)) \/ Covers(r, x, y)
             => \E i \in DOMAIN after : Covers(after[i], x, y)
<1> DEFINE near == {i \in DOMAIN dirty : WrappedRectsOverlap(dirty[i], r)}
           after == QueuedDirty(dirty, r)
           Marked(q) == \E i \in DOMAIN q : Covers(q[i], x, y)
<1>1. ASSUME NEW i \in DOMAIN dirty
      PROVE LET q == Joined(dirty, i, r) IN
            /\ q \in Seq(WorldRect) /\ Len(q) = Len(dirty)
            /\ Marked(dirty) \/ Covers(r, x, y) => Marked(q)
  <2> DEFINE q == Joined(dirty, i, r)
  <2>1. dirty[i] \in WorldRect
    OBVIOUS
  <2>2. /\ UnionOf(dirty[i], r) \in WorldRect
        /\ Covers(dirty[i], x, y) \/ Covers(r, x, y) => Covers(UnionOf(dirty[i], r), x, y)
    BY <2>1, UnionCoversBoth, Zenon
  <2>3. /\ q \in Seq(WorldRect) /\ Len(q) = Len(dirty) /\ DOMAIN q = DOMAIN dirty
        /\ q[i] = UnionOf(dirty[i], r)
        /\ \A j \in DOMAIN dirty : j # i => q[j] = dirty[j]
    BY <2>2 DEF Joined
  <2>4. Marked(dirty) \/ Covers(r, x, y) => Marked(q)
    <3> HIDE DEF q
    <3>1. ASSUME NEW j \in DOMAIN dirty, Covers(dirty[j], x, y)
          PROVE Marked(q)
      BY <2>2, <2>3, <3>1, Zenon
    <3>2. ASSUME Covers(r, x, y)
          PROVE Marked(q)
      BY <2>2, <2>3, <3>2, Zenon
    <3> QED
      BY <3>1, <3>2
  <2> QED
    BY <2>3, <2>4
<1>2. CASE near # {}
  <2> DEFINE i == FirstLeast([n \in near |-> n])
  <2>1. near \subseteq Nat /\ [n \in near |-> n] \in [near -> Nat]
    OBVIOUS
  <2>2. i \in near
    <3> HIDE DEF near
    <3> QED
      BY <1>2, <2>1, FirstLeastExists, Zenon
  <2>3. after = Joined(dirty, i, r)
    BY <1>2 DEF QueuedDirty
  <2> HIDE DEF i
  <2>4. i \in DOMAIN dirty
    BY <2>2
  <2> HIDE DEF near, after
  <2>5. /\ after \in Seq(WorldRect) /\ Len(after) = Len(dirty)
        /\ Marked(dirty) \/ Covers(r, x, y) => Marked(after)
    BY <1>1, <2>3, <2>4
  <2> QED
    BY <2>5 DEF after
<1>3. CASE near = {} /\ Len(dirty) < QueueSize
  <2>1. after = Append(dirty, r)
    BY <1>3 DEF QueuedDirty
  <2>2. /\ after \in Seq(WorldRect) /\ Len(after) = Len(dirty) + 1
        /\ DOMAIN dirty = 1 .. Len(dirty) /\ DOMAIN after = 1 .. Len(dirty) + 1
        /\ Len(dirty) \in Nat
        /\ after[Len(dirty) + 1] = r
        /\ \A i \in DOMAIN dirty : after[i] = dirty[i]
    BY <2>1
  <2> HIDE DEF after, near
  <2>3. Len(after) <= QueueSize
    BY <1>3, <2>2, SpaceAssumption
  <2>4. DOMAIN dirty \subseteq DOMAIN after /\ Len(dirty) + 1 \in DOMAIN after
    BY <2>2
  <2>5. Marked(dirty) \/ Covers(r, x, y) => Marked(after)
    BY <2>2, <2>4, Zenon
  <2> QED
    BY <2>2, <2>3, <2>5 DEF after
<1>4. CASE near = {} /\ ~(Len(dirty) < QueueSize)
  <2>1. after = Joined(dirty, Len(dirty), r)
    BY <1>4 DEF QueuedDirty
  <2>2. Len(dirty) \in DOMAIN dirty
    BY <1>4, SpaceAssumption
  <2> HIDE DEF after, near
  <2>3. /\ after \in Seq(WorldRect) /\ Len(after) = Len(dirty)
        /\ Marked(dirty) \/ Covers(r, x, y) => Marked(after)
    BY <1>1, <2>1, <2>2
  <2> QED
    BY <2>3 DEF after
<1> QED
  BY <1>2, <1>3, <1>4

-------------------------------------------------------------------------------
(* The view                                                                *)

\* A view no taller than the world stays inside it however it scrolls: its left
\* edge on the map, its rows in the world, its size unchanged (scroll_viewport).
THEOREM ScrolledStaysInWorld ==
  ASSUME NEW view \in WorldRect, HeightOf(view) <= WorldHeight,
         NEW dx \in -WorldWidth .. WorldWidth, NEW dy \in Int
  PROVE LET after == Scrolled(view, dx, dy) IN
        /\ 0 <= after.min_x /\ after.min_x < WorldWidth
        /\ 0 <= after.min_y /\ after.max_y <= WorldHeight
        /\ WidthOf(after) = WidthOf(view) /\ HeightOf(after) = HeightOf(view)
        /\ after.min_x - view.min_x - dx \in {-WorldWidth, 0, WorldWidth}
  BY SpaceAssumption
  DEF WorldRect, Corners, Scrolled, Shifted, StepInside, TopFor, WrapOnce, WidthOf, HeightOf, Smaller

\* A rectangle that begins in a column of the view is drawn at that column of the
\* surface, wherever the seam lies, as long as the view is at most half the world
\* wide (convert_world_rect_to_viewport_rect).
THEOREM PlacedInView ==
  ASSUME NEW view \in WorldRect, 2 * WidthOf(view) <= WorldWidth,
         NEW r \in WorldRect, NEW offset \in 0 .. WidthOf(view) - 1,
         r.min_x = WrapOnce(view.min_x + offset)
  PROVE ToViewport(view, r).min_x = offset
  BY SpaceAssumption
  DEF WorldRect, Corners, ToViewport, WidthOf, WrapOnce

\* The steps of a glide are steps forward, at most four pixels longer than the last
\* one; one passes its end only by less than its own length, or less than eight
\* (choose_scroll_step; backwards it is the mirror image).
THEOREM StepsAreForward ==
  ASSUME NEW left \in Nat \ {0}, NEW covered \in Nat, NEW step \in Nat
  PROVE /\ StepAhead(left, covered, step) >= 1
        /\ StepAhead(left, covered, step) <= Larger(8, step + 4)
        /\ StepAhead(left, covered, step) > left => left < Larger(8, step)
  BY DEF StepAhead, Larger

\* However long the view glides after a creature, no frame moves it by more than 19
\* pixels, and a view that has stopped accelerating comes to rest
\* (follow_selected_creature_viewport).
THEOREM FollowingIsGentle ==
  ASSUME NEW speed \in -54 .. 54, NEW off \in Int, NEW margin \in Nat
  PROVE /\ Third(SpedUp(speed, off, margin)) \in -19 .. 19
        /\ SlowedDown(SpedUp(speed, off, margin)) \in -54 .. 54
        /\ off \in -margin .. margin /\ speed # 0 =>
             Distance(SlowedDown(SpedUp(speed, off, margin)), 0) < Distance(speed, 0)
  BY DEF Third, SpedUp, SlowedDown, SpeedLimit, Distance, Larger, Smaller

-------------------------------------------------------------------------------
(* Floors and falls                                                        *)

\* With the repair of row 22 an object always gets a room of the map, wherever it
\* is, and never the floor at 9999 through which the Black Hole bug lost it
\* (find_nearest_room_bounds_at_point).
THEOREM RoomIsAlwaysFound ==
  ASSUME NEW rooms \in Seq(Corners), rooms # <<>>,
         NEW x \in Int, NEW y \in Int, NEW bounds \in Corners
  PROVE \E i \in DOMAIN rooms : NearestRoomBounds(rooms, x, y, bounds, TRUE) = rooms[i]
<1> DEFINE over == {i \in DOMAIN rooms :
                      /\ Spans(rooms[i], x)
                      /\ Distance(y, rooms[i].max_y) < Distance(y, NoRoomBottom)}
<1>1. /\ DOMAIN rooms \subseteq Nat /\ DOMAIN rooms # {}
      /\ \A i \in DOMAIN rooms : rooms[i] \in Corners
  <2>1. Len(rooms) \in Nat /\ DOMAIN rooms = 1 .. Len(rooms)
    OBVIOUS
  <2>2. Len(rooms) # 0
    OBVIOUS
  <2>3. \A i \in DOMAIN rooms : rooms[i] \in Corners
    OBVIOUS
  <2>4. 1 .. Len(rooms) \subseteq Nat /\ 1 \in 1 .. Len(rooms)
    BY <2>1, <2>2
  <2> QED
    BY <2>1, <2>3, <2>4, Zenon
<1>2. CASE over # {}
  <2> DEFINE near == [i \in over |-> Distance(y, rooms[i].max_y)]
  <2>1. near \in [over -> Nat] /\ over \subseteq Nat
    <3>1. over \subseteq Nat
      BY <1>1
    <3>2. ASSUME NEW i \in over
          PROVE Distance(y, rooms[i].max_y) \in Nat
      <4>1. rooms[i].max_y \in Int
        BY <1>1 DEF Corners
      <4> QED
        BY <4>1 DEF Distance
    <3> HIDE DEF over
    <3> QED
      BY <3>1, <3>2
  <2>2. FirstLeast(near) \in over
    <3> HIDE DEF near, over
    <3> QED
      BY <1>2, <2>1, FirstLeastExists, Zenon
  <2>3. NearestRoomBounds(rooms, x, y, bounds, TRUE) = rooms[FirstLeast(near)]
    BY <1>2 DEF NearestRoomBounds
  <2> HIDE DEF near
  <2> QED
    BY <2>2, <2>3
<1>3. CASE over = {}
  <2> DEFINE far == [i \in DOMAIN rooms |-> FarFrom(rooms[i], x, y)]
  <2>1. \A n \in Nat : n * n \in Nat
    OBVIOUS
  <2>2. ASSUME NEW i \in DOMAIN rooms
        PROVE FarFrom(rooms[i], x, y) \in Nat
    <3> DEFINE dx == Larger(0, Larger(rooms[i].min_x - x, x - rooms[i].max_x))
               dy == Larger(0, Larger(rooms[i].min_y - y, y - rooms[i].max_y))
    <3>1. dx \in Nat /\ dy \in Nat
      <4>1. /\ rooms[i].min_x \in Int /\ rooms[i].max_x \in Int
            /\ rooms[i].min_y \in Int /\ rooms[i].max_y \in Int
        BY <1>1 DEF Corners
      <4>2. \A p, q \in Int : Larger(0, Larger(p, q)) \in Nat
        BY DEF Larger
      <4>3. /\ rooms[i].min_x - x \in Int /\ x - rooms[i].max_x \in Int
            /\ rooms[i].min_y - y \in Int /\ y - rooms[i].max_y \in Int
        BY <4>1
      <4> QED
        BY <4>2, <4>3, Zenon
    <3>2. FarFrom(rooms[i], x, y) = dx * dx + dy * dy
      BY DEF FarFrom
    <3> HIDE DEF dx, dy
    <3>3. dx * dx \in Nat /\ dy * dy \in Nat
      BY <2>1, <3>1
    <3> QED
      BY <3>2, <3>3
  <2>3. far \in [DOMAIN rooms -> Nat]
    BY <2>2
  <2>4. FirstLeast(far) \in DOMAIN rooms
    <3> HIDE DEF far
    <3> QED
      BY <1>1, <2>3, FirstLeastExists, Zenon
  <2>5. NearestRoomBounds(rooms, x, y, bounds, TRUE) = rooms[FirstLeast(far)]
    BY <1>3 DEF NearestRoomBounds
  <2> HIDE DEF far
  <2> QED
    BY <2>4, <2>5
<1> QED
  BY <1>2, <1>3

\* Each tick of a fall brings the object lower, by less than smooth motion glides
\* (64), never past its floor, and the fall is over exactly on it (advance_fall).
THEOREM FallEndsOnFloor ==
  ASSUME NEW y \in Int, NEW rest \in Int, y < rest, NEW v \in 0 .. TopSpeed
  PROVE LET o == [y |-> y, rest |-> rest, velocity |-> v, falling |-> TRUE]
            after == FallAdvanced(o, FALSE)
        IN /\ y < after.y /\ after.y <= rest /\ after.y - y < 64
           /\ after.velocity \in 0 .. TopSpeed
           /\ after.falling <=> after.y # rest
<1> DEFINE o == [y |-> y, rest |-> rest, velocity |-> v, falling |-> TRUE]
           step == NextFallStep(v)
<1>1. step \in 1 .. TopSpeed /\ Faster(v) \in 0 .. TopSpeed
  BY DEF NextFallStep, Faster, Smaller, TopSpeed, Gravity
<1>2. FallAdvanced(o, FALSE)
        = [y |-> Smaller(y + step, rest), rest |-> rest, velocity |-> Faster(v),
           falling |-> Smaller(y + step, rest) < rest]
  BY DEF FallAdvanced
<1> HIDE DEF step
<1>3. Smaller(y + step, rest) \in Int /\ y < Smaller(y + step, rest)
      /\ Smaller(y + step, rest) <= rest /\ Smaller(y + step, rest) - y < 64
  BY <1>1 DEF Smaller, TopSpeed
<1>4. Smaller(y + step, rest) < rest <=> Smaller(y + step, rest) # rest
  BY <1>3
<1> DEFINE after == FallAdvanced(o, FALSE)
<1>5. /\ after.y = Smaller(y + step, rest) /\ after.velocity = Faster(v)
      /\ after.falling = (Smaller(y + step, rest) < rest)
  <2> DEFINE low == Smaller(y + step, rest)
             faster == Faster(v)
             still == low < rest
  <2>1. after = [y |-> low, rest |-> rest, velocity |-> faster, falling |-> still]
    BY <1>2
  <2> HIDE DEF after, low, faster, still
  <2>2. after.y = low /\ after.velocity = faster /\ after.falling = still
    BY <2>1
  <2> QED
    BY <2>2 DEF low, faster, still
<1> HIDE DEF o, after
<1>6. /\ y < after.y /\ after.y <= rest /\ after.y - y < 64
      /\ after.velocity \in 0 .. TopSpeed
      /\ after.falling <=> after.y # rest
  BY <1>1, <1>3, <1>4, <1>5
<1> QED
  BY <1>6 DEF o, after

\* A creature is pushed into its room, or, where the room is narrower than its
\* sprite, as far out of it on one side as on the other (update_anchor_and_bounds).
THEOREM CorrectionCentres ==
  ASSUME NEW sprite \in Corners, NEW room \in Corners,
         sprite.min_x <= sprite.max_x, room.min_x <= room.max_x
  PROVE LET push == Correction(sprite, room)
            left == sprite.min_x + push.by
            right == sprite.max_x + push.by
        IN /\ push.fits <=> WidthOf(sprite) <= WidthOf(room)
           /\ push.fits => room.min_x <= left /\ right <= room.max_x
           /\ ~push.fits => Distance(room.min_x - left, right - room.max_x) <= 1
<1> DEFINE back == IF room.max_x < sprite.max_x THEN room.max_x - sprite.max_x
                   ELSE Larger(0, room.min_x - sprite.min_x)
           sides == (room.min_x - sprite.min_x) + (room.max_x - sprite.max_x)
           fits == room.min_x <= sprite.min_x + back /\ sprite.max_x + back <= room.max_x
           by == IF fits THEN back ELSE Half(sides)
<1>1. Correction(sprite, room) = [by |-> by, fits |-> fits]
  BY DEF Correction, Shifted
<1>2. back \in Int /\ sides \in Int
  BY DEF Corners, Larger
<1>3. fits <=> WidthOf(sprite) <= WidthOf(room)
  BY DEF Corners, Larger, WidthOf
<1>4. Half(sides) \in Int /\ 2 * Half(sides) - sides \in {-1, 0, 1}
  <2> HIDE DEF sides
  <2> QED
    BY <1>2 DEF Half
<1>5. ~fits => Distance(room.min_x - (sprite.min_x + Half(sides)),
                        (sprite.max_x + Half(sides)) - room.max_x) <= 1
  <2> DEFINE h == Half(sides)
  <2>1. h \in Int /\ 2 * h - sides \in {-1, 0, 1}
    BY <1>4
  <2> HIDE DEF h
  <2>2. Distance(room.min_x - (sprite.min_x + h), (sprite.max_x + h) - room.max_x) <= 1
    BY <2>1 DEF Distance, Corners
  <2> QED
    BY <2>2 DEF h
<1> HIDE DEF sides
<1>6. by \in Int
  BY <1>2, <1>4
<1> DEFINE push == Correction(sprite, room)
<1>7. push.by = by /\ push.fits = fits
  BY <1>1
<1>8. /\ push.fits <=> WidthOf(sprite) <= WidthOf(room)
      /\ push.fits => room.min_x <= sprite.min_x + push.by /\ sprite.max_x + push.by <= room.max_x
  <2> HIDE DEF push, back
  <2> QED
    BY <1>3, <1>7
<1>9. ~push.fits => Distance(room.min_x - (sprite.min_x + push.by),
                             (sprite.max_x + push.by) - room.max_x) <= 1
  <2>1. ~push.fits => push.by = Half(sides)
    <3> HIDE DEF push
    <3> QED
      BY <1>7
  <2> HIDE DEF push, fits
  <2> QED
    BY <1>5, <1>7, <2>1
<1> HIDE DEF push
<1> QED
  BY <1>8, <1>9 DEF push

-----------------------------------------------------------------------------
(***************************************************************************)
(* The lift: calls, lights and slots agree, and a light goes out only in   *)
(* front of the lift.                                                      *)
(*                                                                         *)
(* LiftInv is inductive.  Floors says what the floor table is, Calls what  *)
(* waits in the slots, Moves where the cabin may be: it never passes its   *)
(* target by more than one tick's travel.                                  *)
(***************************************************************************)

\* The farthest a tick carries the cabin, in whole pixels.
Step == (Speed + 1) \div 2

Floors ==
    /\ floorY \in [0 .. FloorCount - 1 -> 0 .. LastY]
    /\ \A b \in Buttons : floorIndex[b] # Unregistered =>
          floorIndex[b] \in DOMAIN floorY /\ floorY[floorIndex[b]] = RoomY[b]
    /\ \A i \in DOMAIN floorY : \E b \in Buttons : floorIndex[b] = i
    /\ \A i, j \in DOMAIN floorY : i < j => floorY[i] < floorY[j]

Waiting == \A i \in DOMAIN slots : slots[i] # NoButton => slots[i] \in Registered

Calls == LiftTypeOK /\ Floors /\ Waiting /\ LitIsQueued

\* What the lift has selected stays in its slot until the lift arrives.
Selection ==
    selected # -1 =>
        /\ slots[selected] # NoButton /\ interaction # 0
        /\ floorIndex[slots[selected]] = current

Position == Pixels(cabin)
\* The lift stands where its script put it, above its first floor.
NotMoved ==
    /\ current = 0 /\ Position <= floorY[0]
    /\ \A i \in DOMAIN slots : slots[i] # NoButton => floorIndex[slots[i]] # 0

Moves ==
    /\ FloorCount = 0 => /\ current = 0 /\ interaction = 0
                         /\ \A b \in Buttons : Position <= RoomY[b]
    /\ FloorCount # 0 => current \in DOMAIN floorY
    /\ interaction = 0 => velocity = 0 /\ script \notin {"event_1", "event_2"}
    /\ interaction = 0 /\ FloorCount # 0 =>
          Gap(Position, floorY[current]) <= Step \/ NotMoved
    /\ interaction # 0 /\ (velocity > 0 \/ script = "event_1") =>
          Position <= floorY[current] + Step
    /\ interaction # 0 /\ (velocity < 0 \/ script = "event_2") =>
          floorY[current] <= Position + Step

LiftInv == Calls /\ Selection /\ Moves

-----------------------------------------------------------------------------
(* The floor table *)

LEMMA PlaceFloors ==
  ASSUME LiftTypeOK, Floors, NEW b \in Buttons, Place(b), Registers
  PROVE  /\ FloorCount' = FloorCount + 1 /\ FloorCount \in 0 .. Capacity - 1
         /\ floorY' \in [0 .. FloorCount -> 0 .. LastY] /\ floorY'[FloorCount] = RoomY[b]
         /\ \A i \in 0 .. FloorCount - 1 : floorY'[i] = floorY[i] /\ floorY[i] < RoomY[b]
<1> DEFINE n == FloorCount
<1>1. /\ n \in 0 .. Capacity - 1 /\ RoomY[b] \in 0 .. LastY
      /\ floorY \in [0 .. n - 1 -> 0 .. LastY] /\ Capacity \in Nat
  BY LiftAssumption DEF LiftTypeOK, Floors, Registers, Unregistered
<1>2. floorY' = [i \in 0 .. n |-> IF i = n THEN RoomY[b] ELSE floorY[i]]
  BY DEF Place
<1> HIDE DEF n
<1>3. \A i \in 0 .. n : i # n => i \in 0 .. n - 1
  BY <1>1
<1>4. \A i \in 0 .. n - 1 : i \in 0 .. n /\ i # n
  BY <1>1
<1>5. /\ floorY' \in [0 .. n -> 0 .. LastY] /\ floorY'[n] = RoomY[b]
      /\ \A i \in 0 .. n - 1 : floorY'[i] = floorY[i]
  <2>1. n \in 0 .. n
    BY <1>1
  <2> QED
    BY <1>1, <1>2, <1>3, <1>4, <2>1, Zenon
<1>6. \A i \in 0 .. n - 1 : floorY[i] < RoomY[b]
  <2> SUFFICES ASSUME NEW i \in 0 .. n - 1 PROVE floorY[i] < RoomY[b]
    OBVIOUS
  <2>1. PICK c \in Buttons : floorIndex[c] = i
    BY <1>1 DEF Floors
  <2>2. floorIndex[c] # Unregistered
    BY <1>1, <2>1, LiftAssumption DEF Unregistered
  <2>3. floorY[i] = RoomY[c] /\ RoomY[c] < RoomY[b]
    BY <2>1, <2>2 DEF Floors, Place
  <2> QED
    BY <2>3
<1>7. FloorCount' = n + 1
  <2>1. DOMAIN floorY' = 0 .. n
    BY <1>5
  <2>2. Cardinality(0 .. n) = n + 1
    BY <1>1, FS_Interval
  <2> QED
    BY <2>1, <2>2 DEF FloorCount
<1> QED
  BY <1>1, <1>5, <1>6, <1>7 DEF n

LEMMA HalfPixels ==
  /\ \A x \in Int : Pixels(x) \in Int /\ 2 * Pixels(x) <= x /\ x <= 2 * Pixels(x) + 1
  /\ \A x \in Int : Pixels(2 * Pixels(x)) = Pixels(x)
  /\ \A x \in 0 .. 2 * LastY + 1 : 2 * Pixels(x) \in 0 .. 2 * LastY + 1
  /\ \A x \in Int : Pixels(x) \in 0 .. LastY => x \in 0 .. 2 * LastY + 1
BY LiftAssumption DEF Pixels

-----------------------------------------------------------------------------
(* Calls *)

LEMMA CallsPlace ==
  ASSUME Calls, NEW b \in Buttons, Place(b)
  PROVE  Calls'
<1>1. /\ UNCHANGED <<cabin, velocity, interaction, held, selected, cooldown, slots, lit, script>>
      /\ placed' = placed \union {b} /\ floorIndex[b] = Unregistered /\ b \notin placed
      /\ Capacity \in 1 .. 255 /\ NoButton \notin Buttons /\ RoomY \in [Buttons -> 0 .. LastY]
      /\ current \in 0 .. Capacity - 1
  BY LiftAssumption DEF Place, Calls, LiftTypeOK, Unregistered
<1>2. LitIsQueued'
  BY <1>1 DEF Calls, LitIsQueued, Queued
<1>3. CASE ~Registers
  <2>1. UNCHANGED <<floorY, floorIndex, current>>
    BY <1>3 DEF Place
  <2> QED
    BY <1>1, <1>2, <2>1 DEF Calls, LiftTypeOK, Floors, Waiting, Registered, FloorCount
<1>4. CASE Registers
  <2> DEFINE n == FloorCount
  <2>1. /\ FloorCount' = n + 1 /\ n \in 0 .. Capacity - 1
        /\ floorY' \in [0 .. n -> 0 .. LastY] /\ floorY'[n] = RoomY[b]
        /\ \A i \in 0 .. n - 1 : floorY'[i] = floorY[i] /\ floorY[i] < RoomY[b]
    BY <1>4, PlaceFloors DEF Calls
  <2>2. /\ floorY \in [0 .. n - 1 -> 0 .. LastY]
        /\ floorIndex \in [Buttons -> (0 .. Capacity - 1) \union {Unregistered}]
    BY DEF Calls, Floors, LiftTypeOK
  <2>3. /\ floorIndex' = [floorIndex EXCEPT ![b] = n]
        /\ current' = IF Pixels(cabin) = RoomY[b] THEN n ELSE current
    BY <1>4 DEF Place
  <2>4. floorIndex'[b] = n /\ \A c \in Buttons : c # b => floorIndex'[c] = floorIndex[c]
    BY <2>2, <2>3
  <2> HIDE DEF n
  <2>5. LiftTypeOK'
    <3>1. DOMAIN floorY' = 0 .. FloorCount' - 1 /\ FloorCount' \in 0 .. Capacity
      BY <1>1, <2>1
    <3>2. floorIndex' \in [Buttons -> (0 .. Capacity - 1) \union {Unregistered}]
      BY <2>1, <2>2, <2>3
    <3>3. current' \in 0 .. Capacity - 1
      BY <1>1, <2>1, <2>3
    <3>4. lit' \subseteq placed' /\ placed' \subseteq Buttons
      BY <1>1 DEF Calls, LiftTypeOK
    <3> QED
      BY <1>1, <3>1, <3>2, <3>3, <3>4 DEF Calls, LiftTypeOK
  <2>6. Floors'
    <3>1. floorY' \in [0 .. FloorCount' - 1 -> 0 .. LastY] /\ DOMAIN floorY' = 0 .. n
      BY <1>1, <2>1
    <3>2. \A i \in 0 .. n : i = n \/ i \in 0 .. n - 1
      BY <1>1, <2>1
    <3>3. \A c \in Buttons : floorIndex'[c] # Unregistered =>
             floorIndex'[c] \in 0 .. n /\ floorY'[floorIndex'[c]] = RoomY[c]
      <4> SUFFICES ASSUME NEW c \in Buttons, floorIndex'[c] # Unregistered
                   PROVE  floorIndex'[c] \in 0 .. n /\ floorY'[floorIndex'[c]] = RoomY[c]
        OBVIOUS
      <4>1. CASE c = b
        BY <2>1, <2>4, <4>1
      <4>2. CASE c # b
        <5>1. /\ floorIndex'[c] = floorIndex[c] /\ floorIndex[c] \in 0 .. n - 1
              /\ floorY[floorIndex[c]] = RoomY[c]
          BY <2>2, <2>4, <4>2 DEF Calls, Floors
        <5> QED
          BY <2>1, <5>1
      <4> QED
        BY <4>1, <4>2
    <3>4. \A i \in 0 .. n : \E c \in Buttons : floorIndex'[c] = i
      <4> SUFFICES ASSUME NEW i \in 0 .. n - 1 PROVE \E c \in Buttons : floorIndex'[c] = i
        BY <2>4, <3>2
      <4>1. PICK c \in Buttons : floorIndex[c] = i
        BY <2>2 DEF Calls, Floors
      <4>2. i # Unregistered
        <5>1. Capacity \in 1 .. 255 /\ n \in 0 .. Capacity - 1 /\ i \in 0 .. n - 1
          BY <1>1, <2>1
        <5> QED  BY ONLY <5>1 DEF Unregistered
      <4> QED
        BY <1>1, <2>4, <4>1, <4>2
    <3>5. \A i, j \in 0 .. n : i < j => floorY'[i] < floorY'[j]
      <4> SUFFICES ASSUME NEW i \in 0 .. n, NEW j \in 0 .. n, i < j
                   PROVE  floorY'[i] < floorY'[j]
        OBVIOUS
      <4>1. i \in 0 .. n - 1
        BY <2>1
      <4>2. CASE j = n
        BY <2>1, <4>1, <4>2
      <4>3. CASE j \in 0 .. n - 1
        <5>1. floorY[i] < floorY[j]
          BY <2>2, <4>1, <4>3 DEF Calls, Floors
        <5> QED
          BY <2>1, <4>1, <4>3, <5>1
      <4> QED
        BY <3>2, <4>2, <4>3
    <3> QED
      BY <3>1, <3>3, <3>4, <3>5 DEF Floors
  <2>7. Waiting'
    <3>1. placed \subseteq Buttons
      BY DEF Calls, LiftTypeOK
    <3> QED
      BY <1>1, <2>4, <3>1 DEF Calls, Waiting, Registered
  <2> QED
    BY <1>2, <2>5, <2>6, <2>7 DEF Calls
<1> QED
  BY <1>3, <1>4

\* The first of a set of slots exists.
LEMMA FirstExists ==
  ASSUME NEW S, S \subseteq Nat, S # {}
  PROVE  \E i \in S : \A j \in S : i <= j
<1>1. PICK i \in S : \A j \in S : <<j, i>> \notin OpToRel(<, Nat)
  BY WFMin, NatLessThanWellFounded, Zenon
<1>2. \A j \in S : j \in Nat /\ ~(j < i)
  BY <1>1, Zenon DEF OpToRel
<1>3. ASSUME NEW j \in S PROVE i <= j
  <2>1. i \in Nat /\ j \in Nat /\ ~(j < i)
    BY <1>2
  <2> QED
    BY <2>1
<1> QED
  BY <1>1, <1>3

LEMMA CallsRequest ==
  ASSUME Calls, NEW b \in Buttons, NEW c \in BOOLEAN, Request(b, c)
  PROVE  /\ Calls' /\ b \in Registered
         /\ \A i \in DOMAIN slots : slots[i] # NoButton => slots'[i] = slots[i]
         /\ \A i \in DOMAIN slots : slots'[i] \in {slots[i], b}
<1>1. /\ UNCHANGED <<cabin, velocity, interaction, held, current, selected, cooldown,
                     floorY, floorIndex, placed, script>>
      /\ b \in Registered /\ b \notin lit
      /\ lit' = IF Lights(b, c) THEN lit \union {b} ELSE lit
      /\ slots' = [i \in DOMAIN slots |->
                    IF i \in FreeSlots /\ (\A j \in FreeSlots : i <= j) THEN b ELSE slots[i]]
  BY DEF Request
<1>2. /\ slots \in [0 .. Capacity - 1 -> Buttons \union {NoButton}] /\ lit \subseteq placed
      /\ placed \subseteq Buttons /\ Capacity \in Nat /\ b \in placed /\ NoButton \notin Buttons
  BY <1>1, LiftAssumption DEF Calls, LiftTypeOK, Unregistered, Registered
<1>3. \A i \in DOMAIN slots : i \in FreeSlots <=> slots[i] = NoButton
  BY DEF FreeSlots
<1>4. CASE FreeSlots = {}
  <2>1. slots' = slots /\ lit' = lit
    BY <1>1, <1>2, <1>4 DEF Lights
  <2> QED
    BY <1>1, <1>2, <1>3, <1>4, <2>1 DEF Calls, LiftTypeOK, Floors, Waiting, LitIsQueued, Queued, Registered, FloorCount
<1>5. CASE FreeSlots # {}
  <2>1. FreeSlots \subseteq Nat /\ FreeSlots \subseteq DOMAIN slots
    BY <1>2 DEF FreeSlots
  <2>2. PICK f \in FreeSlots : \A j \in FreeSlots : f <= j
    BY <1>5, <2>1, FirstExists
  <2>3. f \in DOMAIN slots /\ slots[f] = NoButton /\ f \in Nat
    BY <2>1, <2>2 DEF FreeSlots
  <2>4. \A i \in FreeSlots : (\A j \in FreeSlots : i <= j) => i = f
    <3> SUFFICES ASSUME NEW i \in FreeSlots, i <= f PROVE i = f
      BY <2>2
    <3> QED
      BY <2>1, <2>2
  <2>5. \A i \in DOMAIN slots : slots'[i] = IF i = f THEN b ELSE slots[i]
    BY <1>1, <2>2, <2>3, <2>4, Zenon
  <2>6. DOMAIN slots' = DOMAIN slots
    BY <1>1
  <2>7. lit' = IF c /\ b \in Proof THEN lit ELSE lit \union {b}
    BY <1>1, <1>5 DEF Lights
  <2>8. LiftTypeOK'
    <3>1. slots' \in [0 .. Capacity - 1 -> Buttons \union {NoButton}]
      BY <1>1, <1>2
    <3>2. lit' \subseteq placed'
      BY <1>1, <1>2, <2>7
    <3> QED
      BY <1>1, <3>1, <3>2 DEF Calls, LiftTypeOK, FloorCount
  <2>9. Floors' /\ Waiting'
    BY <1>1, <2>5, <2>6 DEF Calls, Floors, Waiting, Registered, FloorCount
  <2>10. LitIsQueued'
    <3>1. \A x \in lit' : Queued(x)'
      <4> SUFFICES ASSUME NEW x \in lit' PROVE \E i \in DOMAIN slots : slots'[i] = x
        BY <2>6 DEF Queued
      <4>1. CASE x = b
        BY <2>3, <2>5, <4>1
      <4>2. CASE x # b
        <5>1. x \in lit
          BY <2>7, <4>2
        <5>2. PICK i \in DOMAIN slots : slots[i] = x
          BY <5>1 DEF Calls, LitIsQueued, Queued
        <5>3. i # f
          BY <1>2, <2>3, <5>1, <5>2
        <5> QED
          BY <2>5, <5>2, <5>3
      <4> QED
        BY <4>1, <4>2
    <3>2. \A i \in DOMAIN slots : i # f => slots[i] # b \/ b \in Proof
      BY <1>1, <1>2 DEF Calls, LitIsQueued
    <3>3. \A i, j \in DOMAIN slots :
             slots'[i] # NoButton /\ slots'[i] \notin Proof =>
                 slots'[i] \in lit' /\ (slots'[j] = slots'[i] => i = j)
      <4> SUFFICES ASSUME NEW i \in DOMAIN slots, NEW j \in DOMAIN slots,
                          slots'[i] # NoButton, slots'[i] \notin Proof
                   PROVE  slots'[i] \in lit' /\ (slots'[j] = slots'[i] => i = j)
        OBVIOUS
      <4>1. CASE i = f
        BY <2>3, <2>5, <2>7, <3>2, <4>1
      <4>2. CASE i # f
        <5>1. slots'[i] = slots[i] /\ slots[i] \in lit /\ (slots[j] = slots[i] => i = j)
          BY <2>5, <4>2 DEF Calls, LitIsQueued
        <5> QED
          BY <2>5, <2>7, <3>2, <4>2, <5>1
      <4> QED
        BY <4>1, <4>2
    <3> QED
      BY <2>6, <3>1, <3>3 DEF LitIsQueued
  <2> QED
    BY <1>1, <1>2, <1>3, <2>3, <2>5, <2>8, <2>9, <2>10 DEF Calls
<1> QED
  BY <1>4, <1>5

LEMMA CallsForget ==
  ASSUME Calls, NEW b \in Buttons, Forget(b)
  PROVE  Calls'
<1>1. /\ UNCHANGED <<cabin, velocity, interaction, held, current, selected, cooldown,
                     floorY, floorIndex, script>>
      /\ placed' = placed \ {b} /\ lit' = lit \ {b}
      /\ slots' = [i \in DOMAIN slots |-> IF slots[i] = b THEN NoButton ELSE slots[i]]
      /\ slots \in [0 .. Capacity - 1 -> Buttons \union {NoButton}] /\ lit \subseteq placed
      /\ placed \subseteq Buttons /\ NoButton \notin Buttons
  BY LiftAssumption DEF Forget, Calls, LiftTypeOK
<1>2. LiftTypeOK' /\ Floors'
  BY <1>1 DEF Calls, LiftTypeOK, Floors, FloorCount
<1>3. Waiting'
  BY <1>1 DEF Calls, Waiting, Registered
<1>4. DOMAIN slots' = DOMAIN slots
      /\ \A i \in DOMAIN slots : slots'[i] = IF slots[i] = b THEN NoButton ELSE slots[i]
  BY <1>1
<1>5. LitIsQueued'
  <2>1. \A x \in lit' : Queued(x)'
    BY <1>1, <1>4 DEF Calls, LitIsQueued, Queued
  <2>2. \A i, j \in DOMAIN slots :
           slots'[i] # NoButton /\ slots'[i] \notin Proof =>
               slots'[i] \in lit' /\ (slots'[j] = slots'[i] => i = j)
    BY <1>1, <1>4 DEF Calls, LitIsQueued
  <2> QED
    BY <1>4, <2>1, <2>2 DEF LitIsQueued
<1> QED
  BY <1>2, <1>3, <1>5 DEF Calls

LEMMA CallsArrive ==
  ASSUME Calls, Arrive
  PROVE  Calls'
<1>1. /\ UNCHANGED <<held, current, floorY, floorIndex, placed>>
      /\ velocity' = 0 /\ cabin' = 2 * Pixels(cabin) /\ interaction' = 0 /\ script' = "event_0"
      /\ lit' = IF selected = -1 THEN lit ELSE lit \ {slots[selected]}
      /\ slots' = [i \in DOMAIN slots |-> IF i = selected THEN NoButton ELSE slots[i]]
      /\ selected' = -1 /\ cooldown' = 1
      /\ slots \in [0 .. Capacity - 1 -> Buttons \union {NoButton}] /\ lit \subseteq placed
      /\ placed \subseteq Buttons /\ NoButton \notin Buttons /\ selected \in -1 .. Capacity - 1
      /\ Capacity \in Nat
  BY LiftAssumption DEF Arrive, Calls, LiftTypeOK, NoSelection, Unregistered
<1>2. DOMAIN slots' = DOMAIN slots
      /\ \A i \in DOMAIN slots : slots'[i] = IF i = selected THEN NoButton ELSE slots[i]
  BY <1>1
<1>3. LiftTypeOK' /\ Floors'
  <2>1. cabin' \in 0 .. 2 * LastY + 1
    BY <1>1, HalfPixels DEF Calls, LiftTypeOK
  <2>2. slots' \in [0 .. Capacity - 1 -> Buttons \union {NoButton}] /\ lit' \subseteq placed
    BY <1>1
  <2> QED
    BY <1>1, <2>1, <2>2 DEF Calls, LiftTypeOK, Floors, FloorCount
<1>4. Waiting'
  BY <1>1, <1>2 DEF Calls, Waiting, Registered
<1>5. LitIsQueued'
  <2>1. CASE selected = -1
    <3>1. lit' = lit /\ \A i \in DOMAIN slots : slots'[i] = slots[i]
      BY <1>1, <1>2, <2>1
    <3> QED
      BY <1>2, <3>1 DEF Calls, LitIsQueued, Queued
  <2>2. CASE selected # -1
    <3>1. selected \in DOMAIN slots /\ lit' = lit \ {slots[selected]}
      BY <1>1, <2>2
    <3>2. \A x \in lit' : Queued(x)'
      BY <1>1, <1>2, <3>1 DEF Calls, LitIsQueued, Queued
    <3>3. \A i, j \in DOMAIN slots :
             slots'[i] # NoButton /\ slots'[i] \notin Proof =>
                 slots'[i] \in lit' /\ (slots'[j] = slots'[i] => i = j)
      <4> SUFFICES ASSUME NEW i \in DOMAIN slots, NEW j \in DOMAIN slots,
                          slots'[i] # NoButton, slots'[i] \notin Proof
                   PROVE  slots'[i] \in lit' /\ (slots'[j] = slots'[i] => i = j)
        OBVIOUS
      <4>1. i # selected /\ slots'[i] = slots[i] /\ slots[i] \in lit
            /\ \A k \in DOMAIN slots : slots[k] = slots[i] => i = k
        BY <1>2 DEF Calls, LitIsQueued
      <4> QED
        BY <1>2, <3>1, <4>1
    <3> QED
      BY <1>2, <3>2, <3>3 DEF LitIsQueued
  <2> QED
    BY <2>1, <2>2
<1> QED
  BY <1>3, <1>4, <1>5 DEF Calls

LEMMA CallsNext == Calls /\ [LiftNext]_liftVars => Calls'
<1> SUFFICES ASSUME Calls, [LiftNext]_liftVars PROVE Calls'
  OBVIOUS
<1>1. ASSUME UNCHANGED <<slots, floorY, floorIndex, lit, placed>>, LiftTypeOK'
      PROVE  Calls'
  BY <1>1 DEF Calls, Floors, Waiting, LitIsQueued, Queued, Registered, FloorCount
<1>2. CASE UNCHANGED liftVars
  BY <1>2 DEF liftVars, Calls, LiftTypeOK, Floors, Waiting, LitIsQueued, Queued, Registered,
    FloorCount
<1>3. CASE \E b \in Buttons : Place(b)
  BY <1>3, CallsPlace
<1>4. CASE \E b \in Buttons : Forget(b)
  BY <1>4, CallsForget
<1>5. CASE \E b \in Buttons, c \in BOOLEAN : Request(b, c)
  BY <1>5, CallsRequest
<1>6. CASE \E down \in BOOLEAN : PassengerMove(down)
  <2>1. PICK down \in BOOLEAN : PassengerMove(down)
    BY <1>6
  <2>2. /\ cabin' = 2 * Pixels(cabin) /\ cabin \in 0 .. 2 * LastY + 1
        /\ current' = IF down THEN current + 1 ELSE current - 1
        /\ IF down THEN current < FloorCount - 1 ELSE current > 0
        /\ current \in 0 .. Capacity - 1 /\ FloorCount \in 0 .. Capacity /\ Capacity \in Nat
        /\ interaction' = 1 /\ script' \in {"event_1", "event_2"}
    BY <2>1, LiftAssumption DEF PassengerMove, Calls, LiftTypeOK, Unregistered
  <2>3. cabin' \in 0 .. 2 * LastY + 1
    BY <2>2, HalfPixels
  <2>4. current' \in 0 .. Capacity - 1
    BY <2>2
  <2> QED
    BY <1>1, <2>1, <2>2, <2>3, <2>4 DEF PassengerMove, Calls, LiftTypeOK, FloorCount
<1>7. CASE Select
  <2>1. /\ UNCHANGED <<velocity, held, slots, floorY, floorIndex, lit, placed>>
        /\ cooldown \in 0 .. 1 /\ cabin \in 0 .. 2 * LastY + 1 /\ Capacity \in 1 .. 255
    BY <1>7, LiftAssumption DEF Select, Calls, LiftTypeOK, Unregistered
  <2>2. CASE cooldown # 0
    <3>1. cooldown' \in 0 .. 1 /\ UNCHANGED <<selected, current, interaction, cabin, script>>
      BY <1>7, <2>1, <2>2 DEF Select
    <3> QED
      BY <1>1, <2>1, <3>1 DEF Calls, LiftTypeOK, FloorCount
  <2>3. CASE cooldown = 0 /\ Nearest = {}
    <3>1. selected' = -1 /\ UNCHANGED <<cooldown, current, interaction, cabin, script>>
      BY <1>7, <2>3 DEF Select
    <3> QED
      BY <1>1, <2>1, <3>1 DEF Calls, LiftTypeOK, FloorCount
  <2>4. CASE cooldown = 0 /\ Nearest # {}
    <3>1. PICK i \in Nearest : /\ selected' = i /\ current' = floorIndex[slots[i]]
                               /\ interaction' = IF current < current' THEN 1 ELSE 2
                               /\ script' = IF current < current' THEN "event_1" ELSE "event_2"
                               /\ cabin' = 2 * Pixels(cabin)
      BY <1>7, <2>4 DEF Select
    <3>2. i \in DOMAIN slots /\ slots[i] # NoButton
      BY DEF Nearest, ReadSlots
    <3>3. slots[i] \in Buttons /\ floorIndex[slots[i]] # Unregistered
      BY <3>2 DEF Calls, Waiting, Registered, LiftTypeOK
    <3>4. selected' \in -1 .. Capacity - 1 /\ current' \in 0 .. Capacity - 1
      BY <2>1, <3>1, <3>2, <3>3 DEF Calls, LiftTypeOK
    <3>5. cabin' \in 0 .. 2 * LastY + 1 /\ cooldown' = cooldown
      BY <1>7, <2>1, <2>4, <3>1, HalfPixels DEF Select
    <3>6. interaction' \in 0 .. 2 /\ script' \in {"event_1", "event_2"}
      BY <3>1
    <3> QED
      BY <1>1, <2>1, <3>4, <3>5, <3>6 DEF Calls, LiftTypeOK, FloorCount
  <2> QED
    BY <2>2, <2>3, <2>4
<1>8. CASE Arrive
  BY <1>8, CallsArrive
<1>9. CASE Travel
  <2>1. UNCHANGED <<interaction, held, current, selected, cooldown, slots, floorY,
                    floorIndex, lit, placed>>
    BY <1>9 DEF Travel
  <2>2. cabin \in 0 .. 2 * LastY + 1 /\ velocity \in {-Speed, 0, Speed} /\ Speed \in Nat /\ LastY \in Nat
    BY LiftAssumption DEF Calls, LiftTypeOK
  <2>3. /\ cabin' \in 0 .. 2 * LastY + 1 /\ velocity' \in {-Speed, 0, Speed}
        /\ script' \in {script, "event_6"}
    <3>1. cabin + velocity \in Int
      BY <2>2
    <3>2. CASE Pixels(cabin + velocity) \in 0 .. LastY
      BY <1>9, <2>2, <3>1, <3>2, HalfPixels DEF Travel
    <3>3. CASE Pixels(cabin + velocity) \notin 0 .. LastY
      BY <1>9, <2>2, <3>3, HalfPixels DEF Travel
    <3> QED
      BY <3>2, <3>3
  <2> QED
    BY <1>1, <2>1, <2>3 DEF Calls, LiftTypeOK, FloorCount
<1>10. CASE RunScript \/ Hold \/ Release
  BY <1>1, <1>10 DEF RunScript, Hold, Release, Calls, LiftTypeOK, FloorCount
<1> QED
  BY <1>2, <1>3, <1>4, <1>5, <1>6, <1>7, <1>8, <1>9, <1>10 DEF LiftNext, Disturb, Tick

LEMMA CallsInit == LiftInit => Calls
<1> SUFFICES ASSUME LiftInit PROVE Calls
  OBVIOUS
<1>1. /\ velocity = 0 /\ interaction = 0 /\ held = FALSE /\ current = 0
      /\ selected = -1 /\ cooldown = 0
      /\ slots = [i \in 0 .. Capacity - 1 |-> NoButton] /\ floorY = [i \in {} |-> 0]
      /\ floorIndex = [b \in Buttons |-> Unregistered]
      /\ lit = {} /\ placed = {} /\ script = "none"
      /\ Capacity \in 1 .. 255 /\ Speed \in Nat /\ LastY \in Nat
  BY LiftAssumption DEF LiftInit, Unregistered
<1>2. DOMAIN floorY = {} /\ FloorCount = 0 /\ 0 .. FloorCount - 1 = {}
  BY <1>1, FS_EmptySet DEF FloorCount
<1>3. cabin \in 0 .. 2 * LastY + 1
  BY LiftAssumption DEF LiftInit
<1>4. LiftTypeOK
  <2>1. /\ velocity \in {-Speed, 0, Speed} /\ interaction \in 0 .. 2 /\ held \in BOOLEAN
        /\ current \in 0 .. Capacity - 1 /\ selected \in -1 .. Capacity - 1 /\ cooldown \in 0 .. 1
        /\ FloorCount \in 0 .. Capacity
    BY <1>1, <1>2
  <2>2. /\ slots \in [0 .. Capacity - 1 -> Buttons \union {NoButton}]
        /\ floorIndex \in [Buttons -> (0 .. Capacity - 1) \union {Unregistered}]
        /\ lit \subseteq placed /\ placed \subseteq Buttons /\ script = "none"
    BY <1>1
  <2> QED
    BY <1>2, <1>3, <2>1, <2>2 DEF LiftTypeOK
<1> QED
  BY <1>1, <1>2, <1>4 DEF Calls, Floors, Waiting, LitIsQueued

\* Lights and waiting calls agree whatever is placed, pressed, ridden, held and
\* removed, and whenever: no light waits for a call that nobody keeps.
THEOREM LightsAndCallsAgree == LiftSpec => [](LiftTypeOK /\ LitIsQueued)
<1>1. Calls => LiftTypeOK /\ LitIsQueued
  BY DEF Calls
<1> QED
  BY <1>1, CallsInit, CallsNext, PTL DEF LiftSpec

-----------------------------------------------------------------------------
(* The selection and the cabin *)

LEMMA SelectionNext ==
  ASSUME Careful, Calls, Calls', Selection, [LiftNext]_liftVars
  PROVE  Selection'
<1>1. ASSUME UNCHANGED <<slots, floorIndex, selected, interaction, current>>
      PROVE  Selection'
  BY <1>1 DEF Selection
<1>2. CASE UNCHANGED liftVars \/ RunScript \/ Hold \/ Release \/ Travel
  BY <1>1, <1>2 DEF liftVars, RunScript, Hold, Release, Travel
<1>3. CASE \E b \in Buttons : Place(b) \/ Forget(b)
  BY <1>3 DEF Selection, Place, Forget, Stopped
<1>4. CASE \E b \in Buttons, c \in BOOLEAN : Request(b, c)
  <2>1. /\ UNCHANGED <<floorIndex, selected, interaction, current>>
        /\ \A i \in DOMAIN slots : slots[i] # NoButton => slots'[i] = slots[i]
    BY <1>4, CallsRequest DEF Request
  <2>2. selected # -1 => selected \in DOMAIN slots
    BY LiftAssumption DEF Calls, LiftTypeOK, Unregistered
  <2> QED
    BY <2>1, <2>2 DEF Selection
<1>5. CASE \E down \in BOOLEAN : PassengerMove(down)
  BY <1>5 DEF Selection, PassengerMove
<1>6. CASE Select
  <2>1. UNCHANGED <<slots, floorIndex>>
    BY <1>6 DEF Select
  <2>2. CASE cooldown # 0
    BY <1>1, <1>6, <2>1, <2>2 DEF Select
  <2>3. CASE cooldown = 0 /\ Nearest = {}
    BY <1>6, <2>3 DEF Select, Selection
  <2>4. CASE cooldown = 0 /\ Nearest # {}
    <3>1. PICK i \in Nearest : /\ selected' = i /\ current' = floorIndex[slots[i]]
                               /\ interaction' = IF current < current' THEN 1 ELSE 2
      BY <1>6, <2>4 DEF Select
    <3>2. slots[i] # NoButton
      BY DEF Nearest
    <3> QED
      BY <2>1, <3>1, <3>2 DEF Selection
  <2> QED
    BY <2>2, <2>3, <2>4
<1>7. CASE Arrive
  BY <1>7 DEF Arrive, NoSelection, Selection
<1> QED
  BY <1>2, <1>3, <1>4, <1>5, <1>6, <1>7 DEF LiftNext, Disturb, Tick

\* Two positions in one band are less than a band apart.
LEMMA BandIsNarrow ==
  ASSUME NEW w \in Nat \ {0}, NEW x \in Nat, NEW y \in Nat, x \div w = y \div w
  PROVE  Gap(x, y) < w
<1>1. /\ x = w * (x \div w) + (x % w) /\ y = w * (y \div w) + (y % w)
      /\ x % w \in 0 .. w - 1 /\ y % w \in 0 .. w - 1
  OBVIOUS
<1> DEFINE q == w * (x \div w)
<1>2. q \in Int /\ x = q + (x % w) /\ y = q + (y % w)
  BY <1>1
<1> HIDE DEF q
<1> QED
  BY <1>1, <1>2 DEF Gap

\* Where the lift stands when it arrives.
LEMMA ArrivesNear ==
  ASSUME LiftInv, interaction # 0, Arrives
  PROVE  Gap(Position, floorY[current]) <= Step
<1>1. /\ cabin \in 0 .. 2 * LastY + 1 /\ velocity \in {-Speed, 0, Speed}
      /\ Speed \in Nat \ {0} /\ LastY \in Nat /\ Step \in Nat
      /\ floorY[current] \in 0 .. LastY
  BY LiftAssumption DEF LiftInv, Calls, LiftTypeOK, Floors, Moves, Step
<1>2. Position \in Nat
  BY <1>1 DEF Position, Pixels
<1>3. CASE InBand
  <2>1. Band \in Nat \ {0} /\ Band <= Step
    <3>1. CASE velocity = 0
      BY <1>1, <3>1 DEF Band, Pixels, Step
    <3>2. CASE velocity = Speed
      BY <1>1, <3>2 DEF Band, Pixels, Step, Abs, Gap
    <3>3. CASE velocity = -Speed
      BY <1>1, <3>3 DEF Band, Pixels, Step, Abs, Gap
    <3> QED
      BY <1>1, <3>1, <3>2, <3>3
  <2>2. Position \div Band = floorY[current] \div Band
    BY <1>3 DEF InBand, Position
  <2>3. Gap(Position, floorY[current]) < Band
    BY <1>1, <1>2, <2>1, <2>2, BandIsNarrow
  <2> QED
    BY <1>1, <1>2, <2>1, <2>3 DEF Gap
<1>4. CASE ReachedFloor
  <2>1. CASE velocity > 0 /\ Position >= floorY[current]
    <3>1. Position <= floorY[current] + Step
      BY <2>1 DEF LiftInv, Moves
    <3> QED
      BY <1>1, <1>2, <2>1, <3>1 DEF Gap
  <2>2. CASE velocity < 0 /\ Position <= floorY[current]
    <3>1. floorY[current] <= Position + Step
      BY <2>2 DEF LiftInv, Moves
    <3> QED
      BY <1>1, <1>2, <2>2, <3>1 DEF Gap
  <2> QED
    BY <1>4, <2>1, <2>2 DEF ReachedFloor, Position
<1> QED
  BY <1>3, <1>4 DEF Arrives

\* At rest, a move towards another floor starts on this side of it.
LEMMA StartsBefore ==
  ASSUME LiftInv, interaction = 0, NEW f \in DOMAIN floorY,
         NotMoved => f # 0
  PROVE  /\ current < f => Position <= floorY[f] + Step
         /\ f <= current => floorY[f] <= Position + Step
<1>1. /\ cabin \in 0 .. 2 * LastY + 1 /\ LastY \in Nat /\ Step \in Nat
      /\ DOMAIN floorY = 0 .. FloorCount - 1 /\ FloorCount \in Nat
      /\ \A i \in DOMAIN floorY : floorY[i] \in 0 .. LastY
  BY LiftAssumption DEF LiftInv, Calls, LiftTypeOK, Floors, Step, Unregistered
<1>2. Position \in Nat
  BY <1>1 DEF Position, Pixels
<1>3. FloorCount # 0 /\ current \in DOMAIN floorY /\ f \in Nat /\ current \in Nat
  BY <1>1 DEF LiftInv, Moves
<1>4. floorY[current] \in Nat /\ floorY[f] \in Nat
  BY <1>1, <1>3
<1>5. /\ current < f => floorY[current] < floorY[f]
      /\ f < current => floorY[f] < floorY[current]
  BY <1>3 DEF LiftInv, Calls, Floors
<1>6. CASE NotMoved
  <2>1. current = 0 /\ Position <= floorY[current] /\ f # 0
    BY <1>6 DEF NotMoved
  <2> QED
    BY <1>1, <1>2, <1>3, <1>4, <1>5, <2>1
<1>7. CASE ~NotMoved
  <2>1. Gap(Position, floorY[current]) <= Step
    BY <1>3, <1>7 DEF LiftInv, Moves
  <2>2. Position <= floorY[current] + Step /\ floorY[current] <= Position + Step
    BY <1>1, <1>2, <1>4, <2>1 DEF Gap
  <2>3. f = current => floorY[f] = floorY[current]
    OBVIOUS
  <2> QED
    BY <1>1, <1>2, <1>3, <1>4, <1>5, <2>2, <2>3
<1> QED
  BY <1>6, <1>7

\* A move begins with the floor ahead of the cabin, or beneath it.
LEMMA MovesBegin ==
  ASSUME LiftInv, interaction = 0, NEW f \in DOMAIN floorY, NotMoved => f # 0,
         UNCHANGED <<velocity, floorY>>, current' = f, interaction' \in {1, 2},
         cabin' = 2 * Pixels(cabin),
         \/ script' = "event_1" /\ current < f
         \/ script' = "event_2" /\ f <= current
  PROVE  Moves'
<1>1. /\ cabin \in 0 .. 2 * LastY + 1 /\ LastY \in Nat /\ velocity = 0
      /\ DOMAIN floorY = 0 .. FloorCount - 1 /\ FloorCount \in Nat
  BY LiftAssumption DEF LiftInv, Calls, LiftTypeOK, Floors, Moves, Unregistered
<1>2. Position' = Position /\ FloorCount' = FloorCount /\ FloorCount # 0
  <2>1. cabin \in Int
    BY <1>1
  <2> QED
    BY <1>1, <2>1, HalfPixels DEF Position, FloorCount
<1>3. /\ script' = "event_1" => Position <= floorY[f] + Step
      /\ script' = "event_2" => floorY[f] <= Position + Step
  BY StartsBefore
<1> QED
  BY <1>1, <1>2, <1>3 DEF Moves, Step

LEMMA MovesPlace ==
  ASSUME LiftInv, Careful, NEW b \in Buttons, Place(b)
  PROVE  Moves'
<1>1. /\ UNCHANGED <<cabin, velocity, interaction, slots, script>> /\ interaction = 0
      /\ cabin \in 0 .. 2 * LastY + 1 /\ LastY \in Nat /\ Step \in Nat
      /\ floorIndex \in [Buttons -> (0 .. Capacity - 1) \union {Unregistered}]
      /\ RoomY \in [Buttons -> 0 .. LastY] /\ current \in Nat /\ FloorCount \in Nat
      /\ floorIndex[b] = Unregistered
      /\ DOMAIN floorY = 0 .. FloorCount - 1 /\ Position' = Position
  BY LiftAssumption DEF Place, Stopped, LiftInv, Calls, LiftTypeOK, Step, Unregistered, Position
<1>2. Position \in Nat
  BY <1>1 DEF Position, Pixels
<1>3. CASE ~Registers
  <2>1. UNCHANGED <<floorY, floorIndex, current>>
    BY <1>3 DEF Place
  <2> QED
    BY <1>1, <2>1 DEF LiftInv, Moves, NotMoved, FloorCount
<1>4. CASE Registers
  <2> DEFINE n == FloorCount
  <2>1. /\ FloorCount' = n + 1 /\ n \in 0 .. Capacity - 1
        /\ floorY' \in [0 .. n -> 0 .. LastY] /\ floorY'[n] = RoomY[b]
        /\ \A i \in 0 .. n - 1 : floorY'[i] = floorY[i] /\ floorY[i] < RoomY[b]
    BY <1>4, PlaceFloors DEF LiftInv, Calls
  <2>2. /\ floorIndex' = [floorIndex EXCEPT ![b] = n]
        /\ current' = IF Position = RoomY[b] THEN n ELSE current
    BY <1>4 DEF Place, Position
  <2>3. n = 0 => current = 0 /\ Position <= RoomY[b]
    BY DEF LiftInv, Moves
  <2>4. n # 0 => current \in 0 .. n - 1
    BY <1>1 DEF LiftInv, Moves
  <2>5. current' \in 0 .. n
    BY <1>1, <2>1, <2>2, <2>3, <2>4
  <2>6. Gap(Position, floorY'[current']) <= Step \/ NotMoved'
    <3>1. CASE Position = RoomY[b]
      BY <1>1, <1>2, <2>1, <2>2, <3>1 DEF Gap
    <3>2. CASE Position # RoomY[b] /\ n # 0
      <4>1. current' = current /\ floorY'[current] = floorY[current] /\ floorY'[0] = floorY[0]
        BY <2>1, <2>2, <2>4, <3>2
      <4>2. Gap(Position, floorY[current]) <= Step \/ NotMoved
        BY <1>1, <3>2 DEF LiftInv, Moves
      <4>3. \A i \in DOMAIN slots : slots[i] # NoButton => floorIndex'[slots[i]] = floorIndex[slots[i]]
        BY <1>1, <2>2 DEF LiftInv, Calls, Waiting, Registered, LiftTypeOK
      <4>4. NotMoved => NotMoved'
        BY <1>1, <4>1, <4>3 DEF NotMoved
      <4> QED
        BY <4>1, <4>2, <4>4
    <3>3. CASE n = 0
      <4>1. \A i \in DOMAIN slots : slots[i] = NoButton
        <5> SUFFICES ASSUME NEW i \in DOMAIN slots, slots[i] # NoButton PROVE FALSE
          OBVIOUS
        <5>1. slots[i] \in Buttons /\ floorIndex[slots[i]] # Unregistered
          BY DEF LiftInv, Calls, Waiting, Registered, LiftTypeOK
        <5>2. floorIndex[slots[i]] \in 0 .. n - 1
          BY <1>1, <5>1 DEF LiftInv, Calls, Floors
        <5> QED
          BY <3>3, <5>2
      <4>2. current' = 0 /\ floorY'[0] = RoomY[b]
        BY <2>1, <2>2, <2>3, <3>3
      <4> QED
        BY <1>1, <2>3, <3>3, <4>1, <4>2 DEF NotMoved
    <3> QED
      BY <3>1, <3>2, <3>3
  <2>7. FloorCount' # 0 /\ DOMAIN floorY' = 0 .. n
    BY <1>1, <2>1
  <2>8. Gap(Position', floorY'[current']) <= Step' \/ NotMoved'
    BY <1>1, <2>6 DEF Step
  <2> QED
    BY <1>1, <2>5, <2>7, <2>8 DEF LiftInv, Moves
<1> QED
  BY <1>3, <1>4

LEMMA MovesTravel ==
  ASSUME LiftInv, Travel
  PROVE  Moves'
<1>1. /\ UNCHANGED <<interaction, current, slots, floorY, floorIndex>>
      /\ cabin \in 0 .. 2 * LastY + 1 /\ LastY \in Nat /\ Step \in Nat
      /\ velocity \in {-Speed, Speed} /\ Speed \in Nat \ {0} /\ interaction # 0 /\ ~ReachedFloor
      /\ FloorCount' = FloorCount /\ FloorCount # 0 /\ current \in DOMAIN floorY
      /\ floorY[current] \in Nat
  BY LiftAssumption DEF Travel, LiftInv, Calls, LiftTypeOK, Floors, Moves, Step, FloorCount, Arrives
<1>2. /\ IF Pixels(cabin + velocity) \in 0 .. LastY
         THEN cabin' = cabin + velocity /\ UNCHANGED <<velocity, script>>
         ELSE cabin' = 2 * Pixels(cabin) /\ velocity' = 0 /\ script' = "event_6"
  BY DEF Travel
<1>3. CASE velocity' = 0
  BY <1>1, <1>2, <1>3 DEF Moves
<1>4. CASE velocity' # 0
  <2>1. cabin' = cabin + velocity /\ UNCHANGED <<velocity, script>>
    BY <1>2, <1>4
  <2>2. CASE velocity = Speed
    <3>1. Position < floorY[current] /\ velocity > 0 /\ ~(velocity < 0)
      BY <1>1, <2>2 DEF ReachedFloor, Position, Pixels
    <3>2. Position' <= Position + Step /\ Position <= Position'
      BY <1>1, <2>1, <2>2 DEF Position, Pixels, Step
    <3>3. script = "event_2" => floorY[current] <= Position + Step
      BY <1>1 DEF LiftInv, Moves
    <3>4. Position \in Int /\ Position' \in Int
      BY <1>1, <2>1 DEF Position, Pixels
    <3>5. Position' <= floorY[current] + Step
      BY <1>1, <3>1, <3>2, <3>4
    <3>6. script = "event_2" => floorY[current] <= Position' + Step
      BY <1>1, <3>2, <3>3, <3>4
    <3> QED
      BY <1>1, <2>1, <3>1, <3>5, <3>6 DEF Moves, Step
  <2>3. CASE velocity = -Speed
    <3>1. floorY[current] < Position /\ velocity < 0 /\ ~(velocity > 0)
      BY <1>1, <2>3 DEF ReachedFloor, Position, Pixels
    <3>2. Position <= Position' + Step /\ Position' <= Position
      BY <1>1, <2>1, <2>3 DEF Position, Pixels, Step
    <3>3. script = "event_1" => Position <= floorY[current] + Step
      BY <1>1 DEF LiftInv, Moves
    <3>4. Position \in Int /\ Position' \in Int
      BY <1>1, <2>1 DEF Position, Pixels
    <3>5. floorY[current] <= Position' + Step
      <4>1. floorY[current] \in Int /\ Step \in Int
        BY <1>1
      <4>2. floorY[current] < Position /\ Position <= Position' + Step
        BY <3>1, <3>2
      <4>3. \A f, x, y, d \in Int : f < x /\ x <= y + d => f <= y + d
        OBVIOUS
      <4> QED
        BY <3>4, <4>1, <4>2, <4>3, Zenon
    <3>6. script = "event_1" => Position' <= floorY[current] + Step
      BY <1>1, <3>2, <3>3, <3>4
    <3> QED
      BY <1>1, <2>1, <3>1, <3>5, <3>6 DEF Moves, Step
  <2> QED
    BY <1>1, <2>2, <2>3
<1> QED
  BY <1>3, <1>4

LEMMA MovesNext ==
  ASSUME LiftInv, Careful, [LiftNext]_liftVars
  PROVE  Moves'
<1>1. ASSUME UNCHANGED <<cabin, velocity, interaction, current, floorY>>,
             script' \in {script, "none"},
             \A i \in DOMAIN slots' : slots'[i] # NoButton =>
                i \in DOMAIN slots /\ slots[i] # NoButton /\ floorIndex'[slots'[i]] = floorIndex[slots[i]]
      PROVE  Moves'
  <2>1. Position' = Position /\ FloorCount' = FloorCount
    BY <1>1 DEF Position, FloorCount
  <2>2. NotMoved => NotMoved'
    BY <1>1, <2>1 DEF NotMoved
  <2> QED
    BY <1>1, <2>1, <2>2 DEF LiftInv, Moves, Step
<1>2. CASE UNCHANGED liftVars \/ Hold \/ Release
  BY <1>1, <1>2 DEF liftVars, Hold, Release
<1>3. CASE \E b \in Buttons : Forget(b)
  BY <1>1, <1>3 DEF Forget
<1>4. CASE \E b \in Buttons : Place(b)
  BY <1>4, MovesPlace
<1>5. CASE \E b \in Buttons, c \in BOOLEAN : Request(b, c)
  <2>1. PICK b \in Buttons, c \in BOOLEAN : Request(b, c)
    BY <1>5
  <2>2. /\ UNCHANGED <<cabin, velocity, interaction, current, floorY, floorIndex, script>>
        /\ interaction # 0 \/ current # floorIndex[b]
        /\ DOMAIN slots' = DOMAIN slots
    BY <2>1 DEF Request
  <2>3. \A i \in DOMAIN slots : slots'[i] \in {slots[i], b}
    BY <2>1, CallsRequest DEF LiftInv
  <2>4. Position' = Position /\ FloorCount' = FloorCount
    BY <2>2 DEF Position, FloorCount
  <2>5. interaction = 0 /\ NotMoved => NotMoved'
    BY <2>2, <2>3, <2>4 DEF NotMoved
  <2> QED
    BY <2>2, <2>4, <2>5 DEF LiftInv, Moves, Step
<1>6. CASE \E down \in BOOLEAN : PassengerMove(down)
  <2>1. PICK down \in BOOLEAN : PassengerMove(down)
    BY <1>6
  <2>2. /\ UNCHANGED <<velocity, floorY>> /\ interaction = 0 /\ interaction' = 1
        /\ cabin' = 2 * Pixels(cabin)
        /\ current' = IF down THEN current + 1 ELSE current - 1
        /\ IF down THEN current < FloorCount - 1 ELSE current > 0
        /\ script' = IF down THEN "event_1" ELSE "event_2"
    BY <2>1 DEF PassengerMove
  <2>3. /\ DOMAIN floorY = 0 .. FloorCount - 1 /\ FloorCount \in Nat /\ current \in Nat
        /\ FloorCount = 0 => current = 0
        /\ FloorCount # 0 => current \in DOMAIN floorY
    BY LiftAssumption DEF LiftInv, Calls, LiftTypeOK, Moves, Unregistered
  <2>4. CASE down
    <3>1. current' \in DOMAIN floorY /\ current < current' /\ current' # 0 /\ script' = "event_1"
      BY <2>2, <2>3, <2>4
    <3> QED
      BY <2>2, <3>1, MovesBegin
  <2>5. CASE ~down
    <3>1. /\ current' \in DOMAIN floorY /\ current' <= current /\ current # 0
          /\ script' = "event_2"
      BY <2>2, <2>3, <2>5
    <3>2. ~NotMoved
      BY <3>1 DEF NotMoved
    <3> QED
      BY <2>2, <3>1, <3>2, MovesBegin
  <2> QED
    BY <2>4, <2>5
<1>7. CASE Select
  <2>1. UNCHANGED <<velocity, floorY, floorIndex, slots>>
    BY <1>7 DEF Select
  <2>2. CASE cooldown # 0 \/ Nearest = {}
    <3>1. UNCHANGED <<cabin, interaction, current, script>>
      BY <1>7, <2>2 DEF Select
    <3> QED
      BY <1>1, <2>1, <3>1
  <2>3. CASE cooldown = 0 /\ Nearest # {}
    <3>1. PICK i \in Nearest : /\ selected' = i /\ current' = floorIndex[slots[i]]
                               /\ interaction' = IF current < current' THEN 1 ELSE 2
                               /\ script' = IF current < current' THEN "event_1" ELSE "event_2"
                               /\ cabin' = 2 * Pixels(cabin)
      BY <1>7, <2>3 DEF Select
    <3>2. interaction = 0 /\ i \in DOMAIN slots /\ slots[i] # NoButton
      BY <1>7, <2>3 DEF Select, Nearest, ReadSlots
    <3>3. slots[i] \in Buttons /\ floorIndex[slots[i]] # Unregistered
      BY <3>2 DEF LiftInv, Calls, Waiting, Registered, LiftTypeOK
    <3>4. current' \in DOMAIN floorY /\ DOMAIN floorY = 0 .. FloorCount - 1 /\ FloorCount \in Nat
          /\ current \in Nat
      BY <3>1, <3>3, LiftAssumption DEF LiftInv, Calls, Floors, LiftTypeOK, Unregistered
    <3>5. NotMoved => current' # 0
      BY <3>1, <3>2 DEF NotMoved
    <3>6. \/ script' = "event_1" /\ current < current'
          \/ script' = "event_2" /\ current' <= current
      BY <3>1, <3>4
    <3>7. interaction' \in {1, 2}
      BY <3>1
    <3> QED
      BY <2>1, <3>1, <3>2, <3>4, <3>5, <3>6, <3>7, MovesBegin
  <2> QED
    BY <2>2, <2>3
<1>8. CASE Arrive
  <2>1. /\ UNCHANGED <<current, floorY, floorIndex>> /\ interaction # 0 /\ Arrives
        /\ velocity' = 0 /\ cabin' = 2 * Pixels(cabin) /\ interaction' = 0 /\ script' = "event_0"
        /\ cabin \in Int
    BY <1>8, LiftAssumption DEF Arrive, LiftInv, Calls, LiftTypeOK
  <2>2. Position' = Position /\ FloorCount' = FloorCount
    BY <2>1, HalfPixels DEF Position, FloorCount
  <2>3. Gap(Position, floorY[current]) <= Step
    BY <2>1, ArrivesNear
  <2> QED
    BY <2>1, <2>2, <2>3 DEF LiftInv, Moves, Step
<1>9. CASE Travel
  BY <1>9, MovesTravel
<1>10. CASE RunScript
  <2>1. /\ UNCHANGED <<cabin, interaction, current, slots, floorY, floorIndex>>
        /\ velocity' = IF script = "event_1" THEN Speed
                       ELSE IF script = "event_2" THEN -Speed ELSE velocity
        /\ script' = "none" /\ Speed \in Nat \ {0}
    BY <1>10, LiftAssumption DEF RunScript
  <2>2. Position' = Position /\ FloorCount' = FloorCount /\ (NotMoved => NotMoved')
    BY <2>1 DEF Position, FloorCount, NotMoved
  <2>3. /\ velocity' > 0 => velocity > 0 \/ script = "event_1"
        /\ velocity' < 0 => velocity < 0 \/ script = "event_2"
    BY <2>1
  <2> QED
    BY <2>1, <2>2, <2>3 DEF LiftInv, Moves, Step
<1> QED
  BY <1>2, <1>3, <1>4, <1>5, <1>6, <1>7, <1>8, <1>9, <1>10 DEF LiftNext, Disturb, Tick

LEMMA LiftInvInit == LiftInit => LiftInv
<1> SUFFICES ASSUME LiftInit PROVE LiftInv
  OBVIOUS
<1>1. /\ velocity = 0 /\ interaction = 0 /\ current = 0 /\ selected = -1
      /\ floorY = [i \in {} |-> 0] /\ script = "none"
  BY DEF LiftInit
<1>2. FloorCount = 0
  <2>1. DOMAIN floorY = {}
    BY <1>1
  <2> QED
    BY <2>1, FS_EmptySet DEF FloorCount
<1>3. \A b \in Buttons : Position <= RoomY[b]
  <2>1. PICK a \in Buttons : (\A c \in Buttons : RoomY[a] <= RoomY[c]) /\ cabin = 2 * RoomY[a]
    BY DEF LiftInit
  <2>2. RoomY[a] \in Int
    BY LiftAssumption
  <2>3. Position = RoomY[a]
    BY <2>1, <2>2 DEF Position, Pixels
  <2> QED
    BY <2>1, <2>3
<1> QED
  BY <1>1, <1>2, <1>3, CallsInit DEF LiftInv, Selection, Moves

LEMMA LiftInvNext == Careful /\ LiftInv /\ [LiftNext]_liftVars => LiftInv'
<1> SUFFICES ASSUME Careful, LiftInv, [LiftNext]_liftVars PROVE LiftInv'
  OBVIOUS
<1>1. Calls'
  BY CallsNext DEF LiftInv
<1>2. Selection'
  BY <1>1, SelectionNext DEF LiftInv
<1> QED
  BY <1>1, <1>2, MovesNext DEF LiftInv

\* The lift travels to the call it has selected, as long as buttons come and go
\* only while it rests: the index it keeps over many ticks stays true.
THEOREM LiftIsSound ==
  ASSUME Careful
  PROVE  LiftSpec => []LiftSound
<1>1. LiftInv => LiftSound
  <2> SUFFICES ASSUME LiftInv PROVE LiftSound
    OBVIOUS
  <2>1. LiftTypeOK /\ LitIsQueued
    BY DEF LiftInv, Calls
  <2>2. SelectedIsTarget
    BY DEF LiftInv, Selection, SelectedIsTarget
  <2> QED
    BY <2>1, <2>2 DEF LiftSound
<1>2. Careful
  OBVIOUS
<1> QED
  BY <1>1, <1>2, LiftInvInit, LiftInvNext, PTL DEF LiftSpec

\* A light goes out in front of its own floor, whatever the fraction of the
\* speed: the band of Lift::tick and the test behind it never miss by more.
THEOREM LightsGoOutAtTheirFloor ==
  ASSUME Careful
  PROVE  LiftSpec => AnsweredAtItsFloor
<1>1. LiftInv /\ [LiftNext]_liftVars =>
        [\A b \in lit \ lit' : b \in placed' =>
           Gap(Pixels(cabin'), RoomY[b]) <= (Speed + 1) \div 2]_liftVars
  <2> SUFFICES ASSUME LiftInv, LiftNext, NEW b \in lit \ lit', b \in placed'
               PROVE  Gap(Pixels(cabin'), RoomY[b]) <= (Speed + 1) \div 2
    OBVIOUS
  <2>1. Arrive
    <3>1. CASE \E c \in Buttons : Place(c) \/ Forget(c) \/ \E k \in BOOLEAN : Request(c, k)
      BY <3>1 DEF Place, Forget, Request
    <3>2. CASE (\E d \in BOOLEAN : PassengerMove(d)) \/ Hold \/ Release \/ Select \/ Travel \/ RunScript
      BY <3>2 DEF PassengerMove, Hold, Release, Select, Travel, RunScript
    <3> QED
      BY <3>1, <3>2 DEF LiftNext, Disturb, Tick
  <2>2. /\ interaction # 0 /\ Arrives /\ cabin' = 2 * Pixels(cabin)
        /\ selected # -1 /\ b = slots[selected] /\ cabin \in Int
    BY <2>1, LiftAssumption DEF Arrive, LiftInv, Calls, LiftTypeOK
  <2>3. b \in Buttons /\ selected \in DOMAIN slots
    BY <2>2, LiftAssumption DEF LiftInv, Calls, LiftTypeOK, Unregistered
  <2>4. floorIndex[b] = current /\ floorIndex[b] # Unregistered
    BY <2>2, <2>3 DEF LiftInv, Selection, Calls, Waiting, Registered
  <2>5. floorY[current] = RoomY[b]
    BY <2>3, <2>4 DEF LiftInv, Calls, Floors
  <2>6. Pixels(cabin') = Position
    BY <2>2, HalfPixels DEF Position
  <2> QED
    BY <2>2, <2>5, <2>6, ArrivesNear DEF Step
<1>2. Careful
  OBVIOUS
<1> QED
  BY <1>1, <1>2, LiftInvInit, LiftInvNext, PTL DEF LiftSpec, AnsweredAtItsFloor

-----------------------------------------------------------------------------
(***************************************************************************)
(* Who carries whom: modes, references and waiting events fit each other,  *)
(* and the hand comes back, for any norns, things and vehicles, in whatever*)
(* order they are clicked, taken, let, killed and deleted.                 *)
(***************************************************************************)

-----------------------------------------------------------------------------
(* What waits *)

Holds(n, t) == mode[t] = "held" /\ ref[t] = n
Waits(q, e) == \E i \in 1 .. Len(q) : q[i] = e
\* Only who is carried tells the hand to hide, and no vehicle tells it to come back.
Civil(e) == e.to = Hand => IF e.kind = "let" THEN e.from \in Carried ELSE e.from \notin Vehicles
Living == {e \in Event : /\ e.from = Hand \/ Exists(e.from)
                         /\ e.to = Hand \/ Exists(e.to)
                         /\ Civil(e)}

\* Everything in TypeOK but the queue; each part of the queue's is in Waiting.
Placed ==
  /\ mode \in [Carried -> {"world", "hand", "held", "aboard"}]
  /\ ref \in [Carried -> Norns \union Vehicles \union {Nil}]
  /\ \A x \in Carried : mode[x] \in {"world", "hand"} => ref[x] = Nil

Rides ==
  \A x \in Carried :
    /\ mode[x] = "aboard" => ref[x] \in Vehicles
    /\ mode[x] = "held" => ref[x] \in Norns \union {Nil}
    /\ ref[x] # Nil => Exists(ref[x])
    /\ ~Exists(x) => mode[x] = "world"

\* Of two things that one norn holds, the drop of one is on its way.
Surplus ==
  \A n \in Norns, t, u \in Things :
    t # u /\ Holds(n, t) /\ Holds(n, u) => Waits(queue, Let(n, t)) \/ Waits(queue, Let(n, u))

Phase == draining => queue # <<>>

RidesInv ==
  /\ Placed /\ life \in [Objects -> {"ticks", "dead", "killed", "gone"}]
  /\ {shown, draining, astray} \subseteq BOOLEAN
  /\ Rides /\ queue \in Seq(Living) /\ Surplus /\ Phase

LEMMA OrderOf ==
  ASSUME NEW S, IsFiniteSet(S)
  PROVE  /\ Cardinality(S) \in Nat /\ SetToSeq(S) \in [1 .. Cardinality(S) -> S]
         /\ \A x \in S : \E i \in 1 .. Cardinality(S) : SetToSeq(S)[i] = x
<1> DEFINE n == Cardinality(S)
<1>1. n \in Nat /\ ExistsBijection(1 .. n, S)
  BY FS_CardinalityType, Zenon
<1>2. PICK g \in [1 .. n -> S] : IsInjective(g)
  BY <1>1 DEF ExistsBijection, Bijection, Injection, IsInjective
<1>3. SetToSeq(S) \in [1 .. n -> S] /\ IsInjective(SetToSeq(S))
  BY <1>2, Zenon DEF SetToSeq
<1>4. SetToSeq(S) \in Injection(1 .. n, S)
  BY <1>3 DEF Injection, IsInjective
<1>5. Cardinality(1 .. n) = n
  <2>1. 1 \in Int /\ n \in Int
    BY <1>1
  <2>2. Cardinality(1 .. n) = IF 1 > n THEN 0 ELSE n - 1 + 1
    BY <2>1, FS_Interval, Zenon
  <2> QED  BY <1>1, <2>2
<1>6. SetToSeq(S) \in Surjection(1 .. n, S)
  BY <1>4, <1>5, FS_Injection, Zenon
<1> QED  BY <1>1, <1>3, <1>6 DEF Surjection

LEMMA EventsAre ==
  /\ \A a \in Parties, b \in Carried \union {Hand} :
       /\ Take(a, b) \in Event /\ Let(a, b) \in Event
       /\ (a = Hand \/ Exists(a)) /\ (b = Hand \/ Exists(b)) =>
            /\ b # Hand \/ a \notin Vehicles => Take(a, b) \in Living
            /\ b # Hand \/ a \in Carried => Let(a, b) \in Living
  /\ \A a, b, c, d : /\ Take(a, b) # Let(c, d)
                     /\ Take(a, b) = Take(c, d) <=> a = c /\ b = d
                     /\ Let(a, b) = Let(c, d) <=> a = c /\ b = d
                     /\ Take(a, b).from = a /\ Take(a, b).to = b
                     /\ Let(a, b).from = a /\ Let(a, b).to = b
BY DEF Take, Let, Event, Living, Civil

LEMMA PartiesAre ==
  /\ Norns \subseteq Carried /\ Things \subseteq Carried /\ Vehicles \subseteq Objects
  /\ Carried \subseteq Objects /\ Objects \subseteq Parties /\ Hand \in Parties
  /\ \A x \in Objects : x # Hand /\ x # Nil
  /\ \A x \in Carried : x \notin Vehicles
  /\ \A n \in Norns : n \notin Things
  /\ IsFiniteSet(Norns) /\ IsFiniteSet(Things) /\ IsFiniteSet(Carried)
<1>1. Norns \in SUBSET Objects /\ Things \in SUBSET Objects /\ Carried \in SUBSET Objects
  BY DEF Objects, Carried
<1>2. IsFiniteSet(Norns) /\ IsFiniteSet(Things) /\ IsFiniteSet(Carried)
  BY <1>1, PartiesAssumption, FS_Subset, Zenon
<1> QED  BY <1>2, PartiesAssumption DEF Objects, Carried, Parties

\* What a handler queues comes after what waits.
LEMMA Behind ==
  ASSUME NEW S, NEW q \in Seq(S), NEW more \in Seq(S)
  PROVE  /\ q \o more \in Seq(S)
         /\ \A e : Waits(q, e) \/ Waits(more, e) => Waits(q \o more, e)
         /\ q # <<>> => q \o more # <<>>
<1>1. /\ q \o more \in Seq(S) /\ Len(q \o more) = Len(q) + Len(more)
      /\ Len(q) \in Nat /\ Len(more) \in Nat
      /\ \A i \in 1 .. Len(q) : (q \o more)[i] = q[i]
      /\ \A i \in 1 .. Len(more) : (q \o more)[Len(q) + i] = more[i]
  OBVIOUS
<1>2. \A i \in 1 .. Len(q) : i \in 1 .. Len(q \o more)
  BY <1>1
<1>3. \A i \in 1 .. Len(more) : Len(q) + i \in 1 .. Len(q \o more)
  BY <1>1
<1>4. \A e : Waits(q, e) \/ Waits(more, e) => Waits(q \o more, e)
  BY <1>1, <1>2, <1>3 DEF Waits
<1> QED  BY <1>1, <1>4

\* Whatever was held twice still is noticed: nothing new is held, and a drop that waits goes
\* on to wait while the thing is held.
LEMMA SurplusKept ==
  ASSUME Surplus,
         \A n \in Norns, t \in Things :
           Holds(n, t)' => Holds(n, t) /\ (Waits(queue, Let(n, t)) => Waits(queue', Let(n, t)))
  PROVE  Surplus'
<1> SUFFICES ASSUME NEW n \in Norns, NEW t \in Things, NEW u \in Things,
                    t # u, Holds(n, t)', Holds(n, u)'
             PROVE  Waits(queue', Let(n, t)) \/ Waits(queue', Let(n, u))
  BY DEF Surplus, Let
<1>1. Holds(n, t) /\ Holds(n, u)
  BY Zenon
<1>2. Waits(queue, Let(n, t)) \/ Waits(queue, Let(n, u))
  BY <1>1, Zenon DEF Surplus
<1> QED  BY <1>2, Zenon

\* More waits, and nothing else is new.
LEMMA MoreWaits ==
  ASSUME RidesInv, NEW more \in Seq(Living), queue' = queue \o more,
         UNCHANGED <<mode, ref, life, shown, draining>>, astray' \in BOOLEAN
  PROVE  RidesInv'
<1>1. /\ Surplus /\ Phase /\ queue \in Seq(Living)
  BY DEF RidesInv
<1>2. /\ queue' \in Seq(Living) /\ (queue # <<>> => queue' # <<>>)
      /\ \A e : Waits(queue, e) => Waits(queue', e)
  BY <1>1, Behind, Zenon
<1>3. Living' = Living
  BY DEF Living, Exists
<1>4. Surplus'
  <2>1. \A n, t : Holds(n, t)' <=> Holds(n, t)
    BY DEF Holds
  <2> QED  BY <1>1, <1>2, <2>1, SurplusKept, Zenon
<1>5. {shown', draining', astray'} \subseteq BOOLEAN
  BY DEF RidesInv
<1> QED  BY <1>1, <1>2, <1>3, <1>4, <1>5 DEF RidesInv, Placed, Rides, Exists, Phase

-----------------------------------------------------------------------------
(* Clicks and scripts *)

\* One event for each member of a set, in some order.
LEMMA LetEach ==
  ASSUME NEW S, IsFiniteSet(S), NEW a, NEW Good, \A x \in S : Let(a, x) \in Good
  PROVE  LET f == [i \in 1 .. Cardinality(S) |-> Let(a, SetToSeq(S)[i])]
         IN  f \in Seq(Good) /\ \A x \in S : Waits(f, Let(a, x))
<1> DEFINE f == [i \in 1 .. Cardinality(S) |-> Let(a, SetToSeq(S)[i])]
<1>1. /\ Cardinality(S) \in Nat /\ SetToSeq(S) \in [1 .. Cardinality(S) -> S]
      /\ \A x \in S : \E i \in 1 .. Cardinality(S) : SetToSeq(S)[i] = x
  BY OrderOf, Zenon
<1>2. f \in [1 .. Cardinality(S) -> Good]
  BY <1>1
<1>3. f \in Seq(Good) /\ Len(f) = Cardinality(S)
  BY <1>1, <1>2
<1>4. \A x \in S : Waits(f, Let(a, x))
  BY <1>1, <1>3 DEF Waits
<1> QED  BY <1>3, <1>4

LEMMA TakeEach ==
  ASSUME NEW S, IsFiniteSet(S), NEW a, NEW Good, \A x \in S : Take(a, x) \in Good
  PROVE  [i \in 1 .. Cardinality(S) |-> Take(a, SetToSeq(S)[i])] \in Seq(Good)
<1> DEFINE f == [i \in 1 .. Cardinality(S) |-> Take(a, SetToSeq(S)[i])]
<1>1. Cardinality(S) \in Nat /\ SetToSeq(S) \in [1 .. Cardinality(S) -> S]
  BY OrderOf, Zenon
<1>2. f \in [1 .. Cardinality(S) -> Good]
  BY <1>1
<1> QED  BY <1>1, <1>2

\* Whoever refers to someone is there.
LEMMA RefersExists ==
  ASSUME RidesInv, NEW x \in Carried, ref[x] # Nil
  PROVE  Exists(x) /\ Exists(ref[x])
BY DEF RidesInv, Rides, Placed

LEMMA AsksKeep ==
  ASSUME RidesInv,
         \/ \E x \in Carried : Click(x) \/ ClickCarried(x)
         \/ \E n \in Norns, x \in Things \union {Hand} : NornTakes(n, x)
         \/ \E n \in Norns : NornDrops(n)
         \/ \E v \in Vehicles, S \in SUBSET Norns : Gather(v, S)
         \/ Load
  PROVE  RidesInv'
<1>1. \A e \in Living : <<e>> \in Seq(Living)
  OBVIOUS
<1>2. ASSUME NEW x \in Carried, Click(x) \/ ClickCarried(x) PROVE RidesInv'
  <2>1. Exists(x)
    BY <1>2 DEF Click, ClickCarried, Exists
  <2>2. Take(Hand, x) \in Living /\ Let(x, x) \in Living
    BY <2>1, EventsAre, PartiesAre
  <2>3. \E more \in Seq(Living) : queue' = queue \o more
    BY <1>1, <1>2, <2>2 DEF Click, ClickCarried, Queues
  <2> QED  BY <1>2, <2>3, MoreWaits DEF Click, ClickCarried, RidesInv
<1>3. ASSUME NEW n \in Norns, NEW x \in Things \union {Hand}, NornTakes(n, x) PROVE RidesInv'
  <2>1. Exists(n) /\ (x = Hand \/ Exists(x))
    BY <1>3 DEF NornTakes, Exists
  <2>2. Take(n, x) \in Living
    BY <2>1, EventsAre, PartiesAre
  <2>3. \E more \in Seq(Living) : queue' = queue \o more
    BY <1>1, <1>3, <2>2 DEF NornTakes, Queues
  <2> QED  BY <1>3, <2>3, MoreWaits DEF NornTakes, RidesInv
<1>4. ASSUME NEW n \in Norns, NornDrops(n) PROVE RidesInv'
  <2> DEFINE S == {t \in Carried : ref[t] = n}
  <2>1. Exists(n) /\ n \in Parties /\ n # Nil
    BY <1>4, PartiesAre DEF NornDrops, Exists
  <2>2. \A x \in S : Let(n, x) \in Living
    <3>1. \A x \in S : Exists(x) /\ x \in Carried /\ x # Hand
      BY <2>1, RefersExists, PartiesAre
    <3> QED  BY <2>1, <3>1, EventsAre
  <2>3. IsFiniteSet(S)
    <3>1. S \in SUBSET Carried
      OBVIOUS
    <3> QED  BY <3>1, PartiesAre, FS_Subset, Zenon
  <2> DEFINE more == [i \in 1 .. Cardinality(S) |-> Let(n, SetToSeq(S)[i])]
  <2>4. queue' = queue \o more /\ UNCHANGED <<mode, ref, life, shown, draining, astray>>
    BY <1>4 DEF NornDrops, Queues
  <2> HIDE DEF S
  <2>5. more \in Seq(Living)
    BY <2>2, <2>3, LetEach, Zenon
  <2> QED  BY <2>4, <2>5, MoreWaits DEF RidesInv
<1>5. ASSUME NEW v \in Vehicles, NEW S \in SUBSET Norns, Gather(v, S) PROVE RidesInv'
  <2>1. Exists(v) /\ v \in Parties
    BY <1>5, PartiesAre DEF Gather, Exists
  <2>2. \A x \in S : Take(v, x) \in Living
    <3>1. \A x \in S : Exists(x) /\ x \in Carried /\ x # Hand
      BY <1>5, PartiesAre DEF Gather
    <3> QED  BY <2>1, <3>1, EventsAre
  <2>3. IsFiniteSet(S)
    BY PartiesAre, FS_Subset, Zenon
  <2> DEFINE more == [i \in 1 .. Cardinality(S) |-> Take(v, SetToSeq(S)[i])]
  <2>4. queue' = queue \o more /\ UNCHANGED <<mode, ref, life, shown, draining, astray>>
    BY <1>5 DEF Gather, Queues
  <2>5. more \in Seq(Living)
    BY <2>2, <2>3, TakeEach, Zenon
  <2> QED  BY <2>4, <2>5, MoreWaits DEF RidesInv
<1>6. CASE Load
  <2>1. Take(Hand, Hand) \in Living
    BY EventsAre, PartiesAre
  <2>2. \E more \in Seq(Living) : queue' = queue \o more
    BY <1>1, <1>6, <2>1 DEF Load, Queues
  <2>3. astray' \in BOOLEAN
    BY <1>6 DEF Load
  <2> QED  BY <1>6, <2>2, <2>3, MoreWaits DEF Load
<1> QED  BY <1>2, <1>3, <1>4, <1>5, <1>6

\* What waits is only taken from the queue, and nobody moves.
LEMMA AllOffKeeps ==
  ASSUME RidesInv, NEW v \in Vehicles, AllOff(v)
  PROVE  RidesInv'
<1> DEFINE gone == {e \in Event : e.from = v /\ e.kind = "take"}
           left == Without(queue, gone)
           S == {n \in Norns : ref[n] = v}
           more == [i \in 1 .. Cardinality(S) |-> Let(v, SetToSeq(S)[i])]
<1>1. /\ life[v] = "ticks" /\ queue' = left \o more /\ UNCHANGED <<mode, ref, life, shown>>
      /\ draining' = (draining /\ queue' # <<>>)
      /\ astray' = (astray \/ \E n \in InHand : Take(v, n) \in ToSet(queue))
  BY DEF AllOff
<1>2. queue \in Seq(Living) /\ Surplus
  BY DEF RidesInv
<1>3. Exists(v) /\ v \in Parties /\ v # Nil
  BY <1>1, PartiesAre DEF Exists
<1>4. IsFiniteSet(S)
  <2>1. S \in SUBSET Norns
    OBVIOUS
  <2> QED  BY <2>1, PartiesAre, FS_Subset, Zenon
<1>5. \A x \in S : Let(v, x) \in Living
  <2>1. \A x \in S : Exists(x) /\ x \in Carried /\ x # Hand
    BY <1>3, PartiesAre, RefersExists
  <2> QED  BY <1>3, <2>1, EventsAre
<1>6. \A a, b : Let(a, b) \notin gone
  BY DEF Let
<1> HIDE DEF S, gone
<1>7. left \in Seq(Living) /\ \A y : Waits(left, y) <=> y \notin gone /\ Waits(queue, y)
  BY <1>2, WithoutIsSeq, WithoutKeeps, Zenon DEF Waits
<1>8. more \in Seq(Living)
  BY <1>4, <1>5, LetEach, Zenon
<1> HIDE DEF left, more
<1>9. /\ queue' \in Seq(Living) /\ \A e : Waits(left, e) => Waits(queue', e)
  BY <1>1, <1>7, <1>8, Behind, Zenon
<1>10. Surplus'
  <2>1. \A n, t : /\ Holds(n, t)' <=> Holds(n, t)
                  /\ Waits(queue, Let(n, t)) => Waits(queue', Let(n, t))
    BY <1>1, <1>6, <1>7, <1>9, Zenon DEF Holds
  <2> QED  BY <1>2, <2>1, SurplusKept, Zenon
<1>11. Living' = Living
  BY <1>1 DEF Living, Exists
<1>12. {shown', draining', astray'} \subseteq BOOLEAN /\ Phase'
  BY <1>1 DEF RidesInv, Phase
<1> QED  BY <1>1, <1>9, <1>10, <1>11, <1>12 DEF RidesInv, Placed, Rides, Exists

-----------------------------------------------------------------------------
(* Moves and ends *)

\* Some who are carried land in the world, and the queue stays.
LEMMA LandKeeps ==
  ASSUME RidesInv, NEW S \in SUBSET Carried,
         mode' = [x \in Carried |-> IF x \in S THEN "world" ELSE mode[x]],
         ref' = [x \in Carried |-> IF x \in S THEN Nil ELSE ref[x]],
         life' \in [Objects -> {"ticks", "dead", "killed", "gone"}],
         \A x \in Objects : life'[x] = "gone" <=> life[x] = "gone",
         UNCHANGED <<queue, draining>>, shown' \in BOOLEAN, astray' \in BOOLEAN
  PROVE  RidesInv'
<1>1. /\ Placed /\ Rides /\ Surplus /\ Phase /\ queue \in Seq(Living)
      /\ draining \in BOOLEAN /\ Nil \notin Objects
  BY PartiesAre DEF RidesInv
<1>2. Placed'
  BY <1>1 DEF Placed
<1>3. \A x \in Objects : Exists(x)' <=> Exists(x)
  BY DEF Exists
<1>4. Rides'
  <2>1. \A x \in Carried : ref[x] # Nil => ref[x] \in Objects
    BY <1>1, PartiesAre DEF Placed
  <2> QED  BY <1>1, <1>3, <2>1, PartiesAre DEF Rides
<1>5. Living' = Living
  <2>1. \A e \in Event : e.from \in Objects \union {Hand} /\ e.to \in Objects \union {Hand}
    BY PartiesAre DEF Event, Parties
  <2> QED  BY <1>3, <2>1 DEF Living
<1>6. Surplus'
  <2>1. \A n \in Norns, t \in Things : Holds(n, t)' => Holds(n, t)
    BY PartiesAre DEF Holds
  <2> QED  BY <1>1, <2>1, SurplusKept, Zenon
<1> QED  BY <1>1, <1>2, <1>4, <1>5, <1>6 DEF RidesInv, Phase

LEMMA MovesKeep ==
  ASSUME RidesInv,
         \/ \E v \in Vehicles : Teleport(v)
         \/ \E x \in Carried : MoveTo(x)
         \/ \E t \in Things : Settle(t)
         \/ \E x \in Objects : Kill(x)
  PROVE  RidesInv'
<1>1. /\ mode \in [Carried -> {"world", "hand", "held", "aboard"}]
      /\ ref \in [Carried -> Norns \union Vehicles \union {Nil}]
      /\ life \in [Objects -> {"ticks", "dead", "killed", "gone"}]
      /\ shown \in BOOLEAN /\ draining \in BOOLEAN /\ astray \in BOOLEAN
  BY DEF RidesInv, Placed
<1>2. ASSUME NEW x \in Carried, Put(x, "world", Nil),
             life' \in [Objects -> {"ticks", "dead", "killed", "gone"}],
             \A y \in Objects : life'[y] = "gone" <=> life[y] = "gone",
             UNCHANGED <<queue, draining>>, shown' \in BOOLEAN, astray' \in BOOLEAN
      PROVE  RidesInv'
  <2> DEFINE S == {x}
  <2>1. /\ mode' = [y \in Carried |-> IF y \in S THEN "world" ELSE mode[y]]
        /\ ref' = [y \in Carried |-> IF y \in S THEN Nil ELSE ref[y]]
    BY <1>1, <1>2 DEF Put
  <2>2. S \in SUBSET Carried
    OBVIOUS
  <2> HIDE DEF S
  <2> QED  BY <1>2, <2>1, <2>2, LandKeeps
<1>3. ASSUME NEW v \in Vehicles, Teleport(v) PROVE RidesInv'
  <2> DEFINE S == {n \in Norns : ref[n] = v}
  <2>1. S \in SUBSET Carried
    BY PartiesAre
  <2>2. /\ mode' = [x \in Carried |-> IF x \in S THEN "world" ELSE mode[x]]
        /\ ref' = [x \in Carried |-> IF x \in S THEN Nil ELSE ref[x]]
        /\ UNCHANGED <<life, shown, queue, draining, astray>>
    BY <1>3 DEF Teleport
  <2> HIDE DEF S
  <2> QED  BY <1>1, <2>1, <2>2, LandKeeps
<1>4. ASSUME NEW x \in Carried, MoveTo(x) PROVE RidesInv'
  <2>1. /\ Put(x, "world", Nil) /\ UNCHANGED <<life, shown, queue, draining>>
        /\ astray' \in BOOLEAN
    BY <1>4 DEF MoveTo
  <2> QED  BY <1>1, <1>2, <2>1
<1>5. ASSUME NEW t \in Things, Settle(t) PROVE RidesInv'
  <2>1. /\ Put(t, "world", Nil) /\ UNCHANGED <<life, shown, queue, draining, astray>> /\ t \in Carried
    BY <1>5, PartiesAre DEF Settle
  <2> QED  BY <1>1, <1>2, <2>1
<1>6. ASSUME NEW x \in Objects, Kill(x) PROVE RidesInv'
  <2>1. /\ life[x] = "ticks" /\ life' = [life EXCEPT ![x] = "killed"] /\ LetGo(x)
        /\ UNCHANGED <<queue, draining>> /\ astray' \in BOOLEAN
    BY <1>6 DEF Kill
  <2>2. /\ life' \in [Objects -> {"ticks", "dead", "killed", "gone"}]
        /\ \A y \in Objects : life'[y] = "gone" <=> life[y] = "gone"
    BY <1>1, <2>1
  <2>3. CASE x \in InHand
    <3>1. x \in Carried /\ Put(x, "world", Nil) /\ shown' \in BOOLEAN
      BY <2>1, <2>3 DEF LetGo, InHand
    <3> QED  BY <1>2, <2>1, <2>2, <3>1
  <2>4. CASE x \notin InHand
    <3>1. UNCHANGED <<mode, ref, shown>>
      BY <2>1, <2>4 DEF LetGo, Stays
    <3> DEFINE S == {}
    <3>2. /\ mode' = [y \in Carried |-> IF y \in S THEN "world" ELSE mode[y]]
          /\ ref' = [y \in Carried |-> IF y \in S THEN Nil ELSE ref[y]]
          /\ S \in SUBSET Carried
      BY <1>1, <3>1
    <3> HIDE DEF S
    <3> QED  BY <1>1, <2>1, <2>2, <3>1, <3>2, LandKeeps
  <2> QED  BY <2>3, <2>4
<1> QED  BY <1>3, <1>4, <1>5, <1>6

LEMMA DieKeeps ==
  ASSUME RidesInv, NEW n \in Norns, Die(n)
  PROVE  RidesInv'
<1>1. /\ Placed /\ Rides /\ Surplus /\ Phase /\ queue \in Seq(Living)
      /\ {shown, draining, astray} \subseteq BOOLEAN
      /\ life[n] = "ticks" /\ life' = [life EXCEPT ![n] = "dead"]
      /\ life \in [Objects -> {"ticks", "dead", "killed", "gone"}]
      /\ ref' = [x \in Carried |-> IF ref[x] = n THEN Nil ELSE ref[x]]
      /\ UNCHANGED <<mode, shown, queue, draining, astray>>
      /\ n \in Objects /\ n \notin Vehicles
  BY PartiesAre DEF RidesInv, Die, Forgotten
<1>2. \A x \in Objects : Exists(x)' <=> Exists(x)
  BY <1>1 DEF Exists
<1>3. Placed'
  BY <1>1 DEF Placed
<1>4. Rides'
  <2>1. \A x \in Carried : ref[x] # Nil => ref[x] \in Objects
    BY <1>1, PartiesAre DEF Placed
  <2> QED  BY <1>1, <1>2, <2>1, PartiesAre DEF Rides
<1>5. Living' = Living
  <2>1. \A e \in Event : e.from \in Objects \union {Hand} /\ e.to \in Objects \union {Hand}
    BY PartiesAre DEF Event, Parties
  <2> QED  BY <1>2, <2>1 DEF Living
<1>6. Surplus'
  <2>1. \A m \in Norns, t \in Things : Holds(m, t)' => Holds(m, t)
    BY <1>1, PartiesAre DEF Holds
  <2> QED  BY <1>1, <2>1, SurplusKept, Zenon
<1>7. life' \in [Objects -> {"ticks", "dead", "killed", "gone"}]
  BY <1>1
<1> QED  BY <1>1, <1>3, <1>4, <1>5, <1>6, <1>7 DEF RidesInv, Phase

\* One who goes takes its events along, and nobody refers to it any more.
LEMMA DeleteKeeps ==
  ASSUME RidesInv, NEW n \in Norns, Delete(n)
  PROVE  RidesInv'
<1> DEFINE gone == {e \in Event : n \in {e.from, e.to}}
<1>1. /\ Placed /\ Rides /\ Surplus /\ Phase /\ queue \in Seq(Living)
      /\ {shown, draining, astray} \subseteq BOOLEAN
      /\ life' = [life EXCEPT ![n] = "gone"]
      /\ life \in [Objects -> {"ticks", "dead", "killed", "gone"}]
      /\ mode' = [mode EXCEPT ![n] = "world"]
      /\ ref' = [x \in Carried |-> IF x = n \/ ref[x] = n THEN Nil ELSE ref[x]]
      /\ queue' = Without(queue, gone)
      /\ draining' = (draining /\ queue' # <<>>)
      /\ shown' = (shown \/ n \in InHand) /\ astray' = astray
      /\ n \in Objects /\ n \notin Vehicles /\ n \in Carried /\ n \notin Things /\ n # Nil /\ n # Hand
  BY PartiesAre DEF RidesInv, Delete, Purged
<1>2. \A x \in Objects : Exists(x)' <=> Exists(x) /\ x # n
  BY <1>1 DEF Exists
<1>3. Placed'
  BY <1>1 DEF Placed
<1>4. Rides'
  <2>1. \A x \in Carried : ref[x] # Nil => ref[x] \in Objects
    BY <1>1, PartiesAre DEF Placed
  <2>2. \A x \in Carried : mode[x] = "aboard" => ref[x] # n
    BY <1>1 DEF Rides
  <2>3. /\ \A x \in Carried : x # n => mode'[x] = mode[x]
        /\ mode'[n] = "world" /\ ref'[n] = Nil
        /\ \A x \in Carried : ref'[x] = IF x = n \/ ref[x] = n THEN Nil ELSE ref[x]
    BY <1>1 DEF Placed
  <2>4. \A x \in Carried : ref'[x] # Nil => life'[ref'[x]] # "gone"
    <3>1. \A y \in Objects : life'[y] # "gone" <=> life[y] # "gone" /\ y # n
      BY <1>1
    <3>2. \A x \in Carried : ref[x] # Nil => life[ref[x]] # "gone"
      BY <1>1 DEF Rides, Exists
    <3> QED  BY <2>1, <2>3, <3>1, <3>2
  <2>5. \A x \in Carried : life'[x] = "gone" => mode'[x] = "world"
    <3>1. \A x \in Carried : life[x] = "gone" => mode[x] = "world"
      BY <1>1 DEF Rides, Exists
    <3> QED  BY <1>1, <2>3, <3>1, PartiesAre
  <2>6. \A x \in Carried : /\ mode'[x] = "aboard" => ref'[x] \in Vehicles
                           /\ mode'[x] = "held" => ref'[x] \in Norns \union {Nil}
    BY <1>1, <2>2, <2>3 DEF Rides
  <2> QED  BY <2>4, <2>5, <2>6 DEF Rides, Exists
<1>5. queue \in Seq(Living) /\ Living \ gone \subseteq Living'
  <2>1. \A e \in Event : e.from \in Objects \union {Hand} /\ e.to \in Objects \union {Hand}
    BY PartiesAre DEF Event, Parties
  <2> QED  BY <1>1, <1>2, <2>1 DEF Living
<1>6. \A m \in Norns, t \in Things : m # n => Let(m, t) \notin gone
  BY <1>1 DEF Let
<1> HIDE DEF gone
<1>7. /\ Without(queue, gone) \in Seq(Living \ gone)
      /\ \A y : Waits(Without(queue, gone), y) <=> y \notin gone /\ Waits(queue, y)
  BY <1>5, WithoutIsSeq, WithoutKeeps, Zenon DEF Waits
<1>8. queue' \in Seq(Living')
  BY <1>1, <1>5, <1>7
<1>9. Surplus'
  <2>1. \A m \in Norns, t \in Things : Holds(m, t)' => Holds(m, t) /\ m # n
    BY <1>1, PartiesAre DEF Holds
  <2> QED  BY <1>1, <1>6, <1>7, <2>1, SurplusKept, Zenon
<1>10. /\ life' \in [Objects -> {"ticks", "dead", "killed", "gone"}]
       /\ {shown', draining', astray'} \subseteq BOOLEAN /\ Phase'
  BY <1>1 DEF Phase
<1> QED  BY <1>3, <1>4, <1>8, <1>9, <1>10 DEF RidesInv

LEMMA ReapLeaves ==
  ASSUME RidesInv, NEW x \in Objects, Reap(x)
  PROVE  RidesInv'
<1>1. /\ Placed /\ Rides /\ Surplus /\ Phase /\ queue \in Seq(Living)
      /\ {shown, draining, astray} \subseteq BOOLEAN
      /\ life[x] = "killed" /\ CanBeDestroyed(x)
      /\ life' = [life EXCEPT ![x] = "gone"]
      /\ life \in [Objects -> {"ticks", "dead", "killed", "gone"}]
      /\ mode' = [y \in Carried |-> IF y = x THEN "world" ELSE mode[y]]
      /\ ref' = [y \in Carried |-> IF y = x THEN Nil ELSE ref[y]]
      /\ UNCHANGED <<shown, queue, draining, astray>> /\ x # Nil /\ x # Hand
  BY PartiesAre DEF RidesInv, Reap
<1>2. \A y \in Objects : Exists(y)' <=> Exists(y) /\ y # x
  BY <1>1 DEF Exists
<1>3. Placed'
  BY <1>1 DEF Placed
<1>4. \A y \in Carried : ref[y] # x
  BY <1>1, RefersExists DEF CanBeDestroyed
<1>5. Rides'
  <2>1. \A y \in Carried : ref[y] # Nil => ref[y] \in Objects
    BY <1>1, PartiesAre DEF Placed
  <2> QED  BY <1>1, <1>2, <1>4, <2>1, PartiesAre DEF Rides
<1>6. queue' \in Seq(Living')
  <2>1. \A i \in 1 .. Len(queue) : queue[i] \in Living /\ x \notin {queue[i].from, queue[i].to}
    BY <1>1 DEF CanBeDestroyed
  <2>2. \A e \in Event : e.from \in Objects \union {Hand} /\ e.to \in Objects \union {Hand}
    BY PartiesAre DEF Event, Parties
  <2>3. \A i \in 1 .. Len(queue) : queue[i] \in Living'
    BY <1>2, <2>1, <2>2 DEF Living
  <2> HIDE DEF Living
  <2> QED  BY <1>1, <2>3, SeqDef
<1>7. Surplus'
  <2>1. \A m \in Norns, t \in Things : Holds(m, t)' => Holds(m, t)
    BY <1>1, PartiesAre DEF Holds
  <2> QED  BY <1>1, <2>1, SurplusKept, Zenon
<1>8. life' \in [Objects -> {"ticks", "dead", "killed", "gone"}] /\ Phase'
  BY <1>1 DEF Phase
<1> QED  BY <1>1, <1>3, <1>5, <1>6, <1>7, <1>8 DEF RidesInv

LEMMA BeginPhaseKeeps ==
  ASSUME RidesInv, BeginPhase
  PROVE  RidesInv'
<1>1. UNCHANGED <<mode, ref, life, shown, queue, astray>> /\ queue # <<>> /\ draining' = TRUE
  BY DEF BeginPhase
<1>2. Living' = Living
  BY <1>1 DEF Living, Exists
<1>3. Surplus'
  BY <1>1 DEF RidesInv, Surplus, Holds, Waits
<1> QED  BY <1>1, <1>2, <1>3 DEF RidesInv, Placed, Rides, Exists, Phase

-----------------------------------------------------------------------------
(* The event phase *)

\* One event is taken, and what its handler queues waits behind the others.
LEMMA HandledIs ==
  ASSUME RidesInv, draining, NEW events \in Seq(Living), Handled(events)
  PROVE  /\ queue # <<>> /\ queue[1] \in Living
         /\ queue' \in Seq(Living) /\ Living' = Living /\ Phase' /\ draining' \in BOOLEAN
         /\ \A e : (Waits(queue, e) /\ e # queue[1]) \/ Waits(events, e) => Waits(queue', e)
<1>1. /\ queue \in Seq(Living) /\ queue # <<>> /\ queue' = Tail(queue) \o events
      /\ draining' = (queue' # <<>>) /\ life' = life
  BY DEF RidesInv, Phase, Handled
<1>2. /\ Tail(queue) \in Seq(Living) /\ queue[1] \in Living
      /\ Len(queue) \in Nat /\ Len(queue) >= 1 /\ Len(Tail(queue)) = Len(queue) - 1
      /\ \A i \in 1 .. Len(queue) - 1 : Tail(queue)[i] = queue[i + 1]
  BY <1>1
<1>3. /\ queue' \in Seq(Living)
      /\ \A e : Waits(Tail(queue), e) \/ Waits(events, e) => Waits(queue', e)
  BY <1>1, <1>2, Behind, Zenon
<1>4. \A e : Waits(queue, e) /\ e # queue[1] => Waits(Tail(queue), e)
  <2> SUFFICES ASSUME NEW e, NEW i \in 1 .. Len(queue), queue[i] = e, e # queue[1]
               PROVE  Waits(Tail(queue), e)
    BY DEF Waits
  <2>1. i - 1 \in 1 .. Len(queue) - 1 /\ (i - 1) + 1 = i
    BY <1>2
  <2>2. Tail(queue)[i - 1] = e
    BY <1>2, <2>1
  <2> QED  BY <1>2, <2>1, <2>2 DEF Waits
<1>5. Living' = Living
  BY <1>1 DEF Living, Exists
<1> QED  BY <1>1, <1>2, <1>3, <1>4, <1>5 DEF Phase

LEMMA HandledKeeps ==
  ASSUME RidesInv, draining, NEW events \in Seq(Living), Handled(events),
         Placed', Rides', Surplus', shown' \in BOOLEAN, astray' \in BOOLEAN
  PROVE  RidesInv'
<1>1. /\ queue' \in Seq(Living) /\ Living' = Living /\ Phase' /\ draining' \in BOOLEAN
  BY HandledIs, Zenon
<1>2. life' \in [Objects -> {"ticks", "dead", "killed", "gone"}]
  BY DEF Handled, RidesInv
<1> QED  BY <1>1, <1>2 DEF RidesInv

\* The drop of what is held still goes on to wait.
LEMMA HandledSurplus ==
  ASSUME RidesInv, draining, NEW events \in Seq(Living), Handled(events),
         \A n \in Norns, t \in Things : Holds(n, t)' => Holds(n, t) /\ queue[1] # Let(n, t)
  PROVE  Surplus'
<1>1. \A e : Waits(queue, e) /\ e # queue[1] => Waits(queue', e)
  BY HandledIs, Zenon
<1>2. Surplus
  BY DEF RidesInv
<1> QED  BY <1>1, <1>2, SurplusKept, Zenon

LEMMA StaysKeeps ==
  ASSUME RidesInv, draining, NEW events \in Seq(Living), Handled(events), Stays,
         shown' \in BOOLEAN, astray' \in BOOLEAN,
         \A n \in Norns, t \in Things : Holds(n, t) => queue[1] # Let(n, t)
  PROVE  RidesInv'
<1>1. Placed' /\ Rides'
  BY DEF RidesInv, Placed, Rides, Exists, Stays, Handled
<1>2. \A n, t : Holds(n, t)' <=> Holds(n, t)
  BY DEF Holds, Stays
<1>3. Surplus'
  BY <1>2, HandledSurplus, Zenon
<1> QED  BY <1>1, <1>3, HandledKeeps, Zenon

\* A place someone can be put, with whom it is bound to there.
LEMMA PutIs ==
  ASSUME RidesInv, NEW x \in Carried, Exists(x), NEW where, NEW whose, Put(x, where, whose),
         life' = life,
         \/ where \in {"world", "hand"} /\ whose = Nil
         \/ where = "aboard" /\ whose \in Vehicles /\ Exists(whose)
         \/ where = "held" /\ whose \in Norns /\ Exists(whose)
  PROVE  /\ Placed' /\ Rides'
         /\ \A n \in Norns, t \in Things :
              Holds(n, t)' => \/ t # x /\ Holds(n, t)
                              \/ t = x /\ where = "held" /\ n = whose
<1>1. /\ mode \in [Carried -> {"world", "hand", "held", "aboard"}]
      /\ ref \in [Carried -> Norns \union Vehicles \union {Nil}]
      /\ \A y \in Carried : mode[y] \in {"world", "hand"} => ref[y] = Nil
  BY DEF RidesInv, Placed
<1>2. /\ mode' \in [Carried -> {"world", "hand", "held", "aboard"}]
      /\ ref' \in [Carried -> Norns \union Vehicles \union {Nil}]
      /\ \A y \in Carried : mode'[y] = IF y = x THEN where ELSE mode[y]
      /\ \A y \in Carried : ref'[y] = IF y = x THEN whose ELSE ref[y]
  BY <1>1 DEF Put
<1>3. Placed'
  BY <1>1, <1>2 DEF Placed
<1>4. Rides'
  <2>1. \A y \in Carried : /\ mode[y] = "aboard" => ref[y] \in Vehicles
                           /\ mode[y] = "held" => ref[y] \in Norns \union {Nil}
                           /\ ref[y] # Nil => life[ref[y]] # "gone"
                           /\ life[y] = "gone" => mode[y] = "world"
    BY DEF RidesInv, Rides, Exists
  <2>2. life[x] # "gone" /\ (whose # Nil => life[whose] # "gone")
    BY DEF Exists
  <2>3. \A y \in Carried : /\ mode'[y] = "aboard" => ref'[y] \in Vehicles
                           /\ mode'[y] = "held" => ref'[y] \in Norns \union {Nil}
                           /\ ref'[y] # Nil => life'[ref'[y]] # "gone"
                           /\ life'[y] = "gone" => mode'[y] = "world"
    <3> SUFFICES ASSUME NEW y \in Carried
                 PROVE  /\ mode'[y] = "aboard" => ref'[y] \in Vehicles
                        /\ mode'[y] = "held" => ref'[y] \in Norns \union {Nil}
                        /\ ref'[y] # Nil => life'[ref'[y]] # "gone"
                        /\ life'[y] = "gone" => mode'[y] = "world"
      OBVIOUS
    <3>1. CASE y = x
      BY <1>2, <2>2, <3>1
    <3>2. CASE y # x
      BY <1>2, <2>1, <3>2
    <3> QED  BY <3>1, <3>2
  <2> QED  BY <2>3 DEF Rides, Exists
<1>5. ASSUME NEW n \in Norns, NEW t \in Things, Holds(n, t)'
      PROVE  (t # x /\ Holds(n, t)) \/ (t = x /\ where = "held" /\ n = whose)
  BY <1>2, <1>5, PartiesAre DEF Holds
<1> QED  BY <1>3, <1>4, <1>5

\* Put anywhere but with a norn.
LEMMA PutKeeps ==
  ASSUME RidesInv, draining, NEW events \in Seq(Living), Handled(events),
         NEW x \in Carried, Exists(x), NEW where, NEW whose, Put(x, where, whose),
         \/ where \in {"world", "hand"} /\ whose = Nil
         \/ where = "aboard" /\ whose \in Vehicles /\ Exists(whose),
         shown' \in BOOLEAN, astray' \in BOOLEAN,
         \A n \in Norns, t \in Things : t # x => queue[1] # Let(n, t)
  PROVE  RidesInv'
<1>1. life' = life /\ where # "held"
  BY DEF Handled
<1>2. /\ Placed' /\ Rides'
      /\ \A n \in Norns, t \in Things :
           Holds(n, t)' => \/ t # x /\ Holds(n, t)
                           \/ t = x /\ where = "held" /\ n = whose
  BY <1>1, PutIs, Zenon
<1>3. Surplus'
  BY <1>1, <1>2, HandledSurplus, Zenon
<1> QED  BY <1>2, <1>3, HandledKeeps, Zenon

LEMMA FirstLives ==
  ASSUME RidesInv, draining
  PROVE  \A a, b : \/ queue[1] = Take(a, b)
                   \/ queue[1] = Let(a, b)
                   => /\ a \in Parties /\ b \in Carried \union {Hand}
                      /\ (a = Hand \/ Exists(a)) /\ (b = Hand \/ Exists(b))
                      /\ (b \in Carried => Exists(b)) /\ (a \in Objects => Exists(a))
<1>1. queue \in Seq(Living) /\ queue # <<>>
  BY DEF RidesInv, Phase
<1>2. queue[1] \in Living
  BY <1>1
<1>3. \A a, b : Take(a, b) \in Living \/ Let(a, b) \in Living
        => /\ a \in Parties /\ b \in Carried \union {Hand}
           /\ (a = Hand \/ Exists(a)) /\ (b = Hand \/ Exists(b))
  BY DEF Living, Event, Take, Let
<1> QED  BY <1>2, <1>3, PartiesAre

LEMMA Few ==
  /\ <<>> \in Seq(Living)
  /\ \A e \in Living : <<e>> \in Seq(Living)
  /\ \A e, f \in Living : <<e, f>> \in Seq(Living)
OBVIOUS

LEMMA HandTakesThingKeeps ==
  ASSUME RidesInv, draining, NEW t \in Things, HandTakesThing(t)
  PROVE  RidesInv'
<1>1. /\ t \in Carried /\ Exists(t) /\ shown' \in BOOLEAN /\ astray' \in BOOLEAN
      /\ \A n, u : queue[1] # Let(n, u)
  BY FirstLives, EventsAre, PartiesAre DEF HandTakesThing, RidesInv
<1>2. CASE InHand # {}
  BY <1>1, <1>2, StaysKeeps, Few DEF HandTakesThing
<1>3. CASE InHand = {}
  <2> DEFINE events == <<Let(t, Hand)>>
  <2>1. Put(t, "hand", Nil) /\ Handled(events)
    BY <1>3 DEF HandTakesThing
  <2>2. events \in Seq(Living)
    BY <1>1, EventsAre, PartiesAre, Few
  <2> HIDE DEF events
  <2> QED  BY <1>1, <2>1, <2>2, PutKeeps
<1> QED  BY <1>2, <1>3

LEMMA NornTakesThingKeeps ==
  ASSUME RidesInv, draining, NEW t \in Things, NEW n \in Norns, NornTakesThing(n, t)
  PROVE  RidesInv'
<1> DEFINE S == HeldBy(n) \ {t}
           lets == LetsGo(n, t)
           tells == IF t \in InHand THEN <<Take(t, Hand)>> ELSE <<>>
           events == tells \o lets
<1>1. /\ t \in Carried /\ Exists(t) /\ Exists(n) /\ n \in Parties /\ t \in Parties
      /\ shown' \in BOOLEAN /\ astray' \in BOOLEAN /\ Surplus
      /\ \A m, u : queue[1] # Let(m, u)
  BY FirstLives, EventsAre, PartiesAre DEF NornTakesThing, RidesInv
<1>2. Put(t, "held", n) /\ Handled(events) /\ life' = life
  BY DEF NornTakesThing, Handled
<1>3. \A x \in S : x \in Things /\ Exists(x) /\ Let(n, x) \in Living
  <2>1. \A x \in S : x \in Carried /\ x \in Things /\ ref[x] # Nil /\ x # Hand
    BY PartiesAre DEF HeldBy
  <2>2. \A x \in S : Exists(x)
    BY <2>1, RefersExists
  <2> QED  BY <1>1, <2>1, <2>2, EventsAre
<1>4. IsFiniteSet(S)
  <2>1. S \in SUBSET Things
    BY DEF HeldBy
  <2> QED  BY <2>1, PartiesAre, FS_Subset, Zenon
<1>5. lets = [i \in 1 .. Cardinality(S) |-> Let(n, SetToSeq(S)[i])]
  <2> HIDE DEF S
  <2>1. SetToSeq(S) \in [1 .. Cardinality(S) -> S]
    BY <1>4, OrderOf, Zenon
  <2>2. DOMAIN SetToSeq(S) = 1 .. Cardinality(S)
    BY <2>1
  <2>3. lets = [i \in DOMAIN SetToSeq(S) |-> Let(n, SetToSeq(S)[i])]
    BY Zenon DEF LetsGo, S
  <2> HIDE DEF lets
  <2> QED  BY <2>2, <2>3
<1>6. tells \in Seq(Living)
  BY <1>1, EventsAre, PartiesAre, Few
<1>7. \A u \in Things : Holds(n, u) /\ u # t => u \in S
  BY DEF Holds, HeldBy
<1> HIDE DEF S, lets, tells
<1>8. lets \in Seq(Living) /\ \A x \in S : Waits(lets, Let(n, x))
  BY <1>3, <1>4, <1>5, LetEach, Zenon
<1>9. events \in Seq(Living) /\ \A e : Waits(lets, e) => Waits(events, e)
  BY <1>6, <1>8, Behind, Zenon
<1> HIDE DEF events
<1>10. /\ Placed' /\ Rides'
       /\ \A m \in Norns, u \in Things :
            Holds(m, u)' => (u # t /\ Holds(m, u)) \/ (u = t /\ m = n)
  <2>1. /\ Placed' /\ Rides'
        /\ \A m \in Norns, u \in Things :
             Holds(m, u)' => (u # t /\ Holds(m, u)) \/ (u = t /\ "held" = "held" /\ m = n)
    BY <1>1, <1>2, PutIs
  <2> QED  BY <2>1
<1>11. \A e : (Waits(queue, e) /\ e # queue[1]) \/ Waits(events, e) => Waits(queue', e)
  BY <1>2, <1>9, HandledIs, Zenon
<1>12. Surplus'
  <2> SUFFICES ASSUME NEW m \in Norns, NEW u \in Things, NEW w \in Things,
                      u # w, Holds(m, u)', Holds(m, w)'
               PROVE  Waits(queue', Let(m, u)) \/ Waits(queue', Let(m, w))
    BY DEF Surplus, Let
  <2>1. \A y \in S : Waits(queue', Let(n, y))
    BY <1>8, <1>9, <1>11, Zenon
  <2>2. CASE u = t
    BY <1>7, <1>10, <2>1, <2>2
  <2>3. CASE w = t
    BY <1>7, <1>10, <2>1, <2>3
  <2>4. CASE u # t /\ w # t
    <3>1. Holds(m, u) /\ Holds(m, w)
      BY <1>10, <2>4, Zenon
    <3>2. Waits(queue, Let(m, u)) \/ Waits(queue, Let(m, w))
      BY <1>1, <3>1, Zenon DEF Surplus
    <3> QED  BY <1>1, <1>11, <3>2, Zenon
  <2> QED  BY <2>2, <2>3, <2>4
<1> QED  BY <1>1, <1>2, <1>9, <1>10, <1>12, HandledKeeps, Zenon

LEMMA ThingIsLetKeeps ==
  ASSUME RidesInv, draining, NEW t \in Things, NEW a \in Parties, ThingIsLet(t, a)
  PROVE  RidesInv'
<1>1. /\ t \in Carried /\ Exists(t) /\ shown' \in BOOLEAN /\ astray' \in BOOLEAN
      /\ t \in Parties /\ queue[1] = Let(a, t)
      /\ \A n, u : u # t => queue[1] # Let(n, u)
  BY FirstLives, EventsAre, PartiesAre DEF ThingIsLet, RidesInv
<1>2. ASSUME NEW events \in Seq(Living), EndInteraction(t), Handled(events) PROVE RidesInv'
  <2>1. CASE Put(t, "world", Nil)
    BY <1>1, <1>2, <2>1, PutKeeps
  <2>2. ASSUME NEW v \in Vehicles, Exists(v), Put(t, "aboard", v) PROVE RidesInv'
    BY <1>1, <1>2, <2>2, PutKeeps
  <2> QED  BY <1>2, <2>1, <2>2 DEF EndInteraction
<1>3. CASE t \in InHand
  <2>1. <<Take(t, Hand)>> \in Seq(Living)
    BY <1>1, EventsAre, PartiesAre, Few
  <2>2. EndInteraction(t) /\ Handled(<<Take(t, Hand)>>)
    BY <1>3 DEF ThingIsLet
  <2> QED  BY <1>2, <2>1, <2>2
<1>4. CASE t \notin InHand /\ LetByHolder(t, a)
  <2>1. EndInteraction(t) /\ Handled(<<>>)
    BY <1>4 DEF ThingIsLet
  <2> QED  BY <1>2, <2>1, Few
<1>5. CASE t \notin InHand /\ ~LetByHolder(t, a)
  <2>1. Stays /\ Handled(<<>>)
    BY <1>5 DEF ThingIsLet
  <2>2. \A n \in Norns, u \in Things : Holds(n, u) => queue[1] # Let(n, u)
    BY <1>1, <1>5, EventsAre DEF Holds, LetByHolder
  <2> QED  BY <1>1, <2>1, <2>2, StaysKeeps, Few
<1> QED  BY <1>3, <1>4, <1>5

LEMMA NornIsCarriedKeeps ==
  ASSUME RidesInv, draining, NEW n \in Norns,
         \/ \E v \in Vehicles : NornBoards(n, v) \/ NornLeaves(n, v)
         \/ \E privileged, clicked \in BOOLEAN : HandTakesNorn(n, privileged, clicked)
         \/ \E a \in Parties : NornIsLet(n, a)
  PROVE  RidesInv'
<1>1. /\ n \in Carried /\ n \in Parties /\ {shown, astray} \subseteq BOOLEAN
      /\ \A a, m : \A t \in Things : Let(a, n) # Let(m, t)
      /\ \A a, b, m, t : Take(a, b) # Let(m, t)
  BY EventsAre, PartiesAre DEF RidesInv
<1>2. \A a, b : Exists(n) /\ (queue[1] = Take(a, n) \/ queue[1] = Let(a, n) \/ queue[1] = b)
        => Take(Hand, Hand) \in Living /\ Let(n, n) \in Living /\ Let(n, Hand) \in Living
  BY <1>1, EventsAre, PartiesAre
<1>3. ASSUME NEW v \in Vehicles, NornBoards(n, v) PROVE RidesInv'
  <2> DEFINE events == IF n \in InHand THEN <<Take(Hand, Hand)>> ELSE <<>>
  <2>1. /\ queue[1] = Take(v, n) /\ Put(n, "aboard", v) /\ Handled(events)
        /\ UNCHANGED <<shown, astray>>
    BY <1>3 DEF NornBoards
  <2>2. Exists(n) /\ Exists(v)
    BY <1>1, <2>1, FirstLives, PartiesAre
  <2>3. events \in Seq(Living)
    BY <1>2, <2>1, <2>2, Few
  <2> HIDE DEF events
  <2> QED  BY <1>1, <2>1, <2>2, <2>3, PutKeeps
<1>4. ASSUME NEW v \in Vehicles, NornLeaves(n, v) PROVE RidesInv'
  <2>1. /\ queue[1] = Let(v, n) /\ Put(n, "world", Nil) /\ Handled(<<>>)
        /\ shown' = shown /\ astray' \in BOOLEAN
    BY <1>4 DEF NornLeaves
  <2>2. Exists(n)
    BY <1>1, <2>1, FirstLives
  <2> QED  BY <1>1, <2>1, <2>2, PutKeeps, Few
<1>5. ASSUME NEW privileged \in BOOLEAN, NEW clicked \in BOOLEAN,
             HandTakesNorn(n, privileged, clicked)
      PROVE  RidesInv'
  <2>1. queue[1] = Take(Hand, n) /\ shown' = shown
    BY <1>5 DEF HandTakesNorn
  <2>2. Exists(n)
    BY <1>1, <2>1, FirstLives
  <2>3. CASE ~privileged
    <3>1. Stays /\ Handled(<<>>) /\ astray' = astray
      BY <1>5, <2>3 DEF HandTakesNorn
    <3> QED  BY <1>1, <2>1, <3>1, StaysKeeps, Few
  <2>4. CASE privileged
    <3> DEFINE clicks == IF clicked THEN <<Let(n, n)>> ELSE <<>>
               tells == <<Let(n, Hand)>>
               events == clicks \o tells
    <3>1. Put(n, "hand", Nil) /\ Handled(events) /\ astray' \in BOOLEAN
      BY <1>5, <2>4 DEF HandTakesNorn
    <3>2. clicks \in Seq(Living) /\ tells \in Seq(Living)
      BY <1>2, <2>1, <2>2, Few
    <3> HIDE DEF clicks, tells
    <3>3. events \in Seq(Living)
      BY <3>2, Behind, Zenon
    <3> HIDE DEF events
    <3> QED  BY <1>1, <2>1, <2>2, <3>1, <3>3, PutKeeps
  <2> QED  BY <2>3, <2>4
<1>6. ASSUME NEW a \in Parties, NornIsLet(n, a) PROVE RidesInv'
  <2>1. queue[1] = Let(a, n) /\ UNCHANGED <<shown, astray>>
    BY <1>6 DEF NornIsLet
  <2>2. Exists(n)
    BY <1>1, <2>1, FirstLives
  <2>3. CASE Stays /\ Handled(<<>>)
    BY <1>1, <2>1, <2>3, StaysKeeps, Few
  <2>4. CASE Put(n, "world", Nil) /\ Handled(<<Take(Hand, Hand)>>)
    <3>1. <<Take(Hand, Hand)>> \in Seq(Living)
      BY <1>2, <2>1, <2>2, Few
    <3> QED  BY <1>1, <2>1, <2>2, <2>4, <3>1, PutKeeps
  <2>5. ASSUME NEW v \in Vehicles, Exists(v), Put(n, "hand", Nil),
               Handled(<<Take(v, n), Take(Hand, Hand)>>)
        PROVE  RidesInv'
    <3>1. Take(v, n) \in Living /\ Take(Hand, Hand) \in Living
      BY <1>1, <1>2, <2>1, <2>2, <2>5, EventsAre, PartiesAre
    <3> DEFINE events == <<Take(v, n), Take(Hand, Hand)>>
    <3>2. events \in Seq(Living)
      BY <3>1, Few
    <3> HIDE DEF events
    <3>3. Handled(events)
      BY <2>5 DEF events
    <3> QED  BY <1>1, <2>1, <2>2, <2>5, <3>2, <3>3, PutKeeps
  <2> QED  BY <1>6, <2>3, <2>4, <2>5 DEF NornIsLet
<1> QED  BY <1>3, <1>4, <1>5, <1>6

LEMMA HandIsToldKeeps ==
  ASSUME RidesInv, draining, NEW a \in Parties, HandReturns(a) \/ HandHides(a)
  PROVE  RidesInv'
<1>1. \A n \in Norns, t \in Things : queue[1] # Let(n, t)
  BY EventsAre, PartiesAre DEF HandReturns, HandHides
<1>2. Stays /\ astray' \in BOOLEAN /\ shown \in BOOLEAN
  BY DEF HandReturns, HandHides, Stays, RidesInv
<1>3. CASE HandReturns(a) /\ a \in Norns
  <2>1. Exists(a) /\ a \in Carried
    BY <1>3, FirstLives, PartiesAre DEF HandReturns
  <2>2. <<Take(Hand, a)>> \in Seq(Living)
    BY <2>1, EventsAre, PartiesAre, Few
  <2>3. Handled(<<Take(Hand, a)>>) /\ shown' = shown
    BY <1>3 DEF HandReturns
  <2> QED  BY <1>1, <1>2, <2>2, <2>3, StaysKeeps
<1>4. CASE (HandReturns(a) /\ a \notin Norns) \/ HandHides(a)
  <2>1. Handled(<<>>) /\ shown' \in BOOLEAN
    BY <1>4 DEF HandReturns, HandHides
  <2> QED  BY <1>1, <1>2, <2>1, StaysKeeps, Few
<1> QED  BY <1>3, <1>4

LEMMA HandleKeeps ==
  ASSUME RidesInv, Handle
  PROVE  RidesInv'
<1>1. draining
  BY DEF Handle
<1>2. \/ \E t \in Things : HandTakesThing(t)
      \/ \E t \in Things, n \in Norns : NornTakesThing(n, t)
      \/ \E t \in Things, a \in Parties : ThingIsLet(t, a)
      \/ \E n \in Norns, v \in Vehicles : NornBoards(n, v) \/ NornLeaves(n, v)
      \/ \E n \in Norns, privileged, clicked \in BOOLEAN : HandTakesNorn(n, privileged, clicked)
      \/ \E n \in Norns, a \in Parties : NornIsLet(n, a)
      \/ \E a \in Parties : HandReturns(a) \/ HandHides(a)
  BY DEF Handle
<1> QED  BY <1>1, <1>2, HandTakesThingKeeps, NornTakesThingKeeps, ThingIsLetKeeps,
            NornIsCarriedKeeps, HandIsToldKeeps, Zenon

-----------------------------------------------------------------------------
(* The invariant and the theorems *)

LEMMA RidesInit == Init => RidesInv
<1> SUFFICES ASSUME Init PROVE RidesInv
  OBVIOUS
<1>1. \A x \in Carried : mode[x] = "world" /\ ref[x] = Nil
  BY DEF Init
<1>2. Placed /\ life \in [Objects -> {"ticks", "dead", "killed", "gone"}]
  BY DEF Init, Placed
<1>3. Rides
  BY <1>1 DEF Rides
<1>4. Surplus
  <2>1. \A n, t : t \in Things => ~Holds(n, t)
    BY <1>1, PartiesAre DEF Holds
  <2> QED  BY <2>1, Zenon DEF Surplus
<1>5. queue \in Seq(Living)
  BY Few, Zenon DEF Init
<1>6. Phase /\ {shown, draining, astray} \subseteq BOOLEAN
  BY DEF Init, Phase
<1> QED  BY <1>2, <1>3, <1>4, <1>5, <1>6 DEF RidesInv

LEMMA RidesNext == RidesInv /\ [Next]_vars => RidesInv'
<1> SUFFICES ASSUME RidesInv, [Next]_vars PROVE RidesInv'
  OBVIOUS
<1>1. CASE UNCHANGED vars
  BY <1>1 DEF RidesInv, Placed, Rides, Exists, Surplus, Holds, Waits, Phase, Living, vars
<1>2. CASE \/ \E x \in Carried : Click(x) \/ ClickCarried(x)
           \/ \E n \in Norns, x \in Things \union {Hand} : NornTakes(n, x)
           \/ \E n \in Norns : NornDrops(n)
           \/ \E v \in Vehicles, S \in SUBSET Norns : Gather(v, S)
           \/ Load
  BY <1>2, AsksKeep, Zenon
<1>3. CASE \/ \E v \in Vehicles : Teleport(v)
           \/ \E x \in Carried : MoveTo(x)
           \/ \E t \in Things : Settle(t)
           \/ \E x \in Objects : Kill(x)
  BY <1>3, MovesKeep, Zenon
<1>4. CASE \/ \E n \in Norns : Die(n) \/ Delete(n)
           \/ \E v \in Vehicles : AllOff(v)
           \/ \E x \in Objects : Reap(x)
  BY <1>4, DieKeeps, DeleteKeeps, AllOffKeeps, ReapLeaves, Zenon
<1>5. CASE BeginPhase \/ Handle
  BY <1>5, BeginPhaseKeeps, HandleKeeps, Zenon
<1> QED  BY <1>1, <1>2, <1>3, <1>4, <1>5, Zenon DEF Next

\* Modes, references, lives and waiting events fit each other in every state, whatever is
\* clicked, run and handled in between: what refers to somebody refers to somebody who is
\* there, and the drop of a thing too many that a norn holds waits until it is handled.
THEOREM RidesInductive == Spec => []RidesInv
<1> QED  BY RidesInit, RidesNext, PTL DEF Spec

LEMMA RidesAreSound == RidesInv => RidesSound
<1> SUFFICES ASSUME RidesInv PROVE RidesSound
  OBVIOUS
<1>1. queue \in Seq(Living) /\ Surplus
  BY DEF RidesInv
<1>2. TypeOK
  <2>1. queue \in Seq(Event)
    BY <1>1 DEF Living
  <2> QED  BY <2>1 DEF RidesInv, Placed, TypeOK
<1>3. OneHeld
  <2> SUFFICES ASSUME queue = <<>>, NEW n \in Norns PROVE Cardinality(HeldBy(n)) <= 1
    BY DEF OneHeld
  <2>1. \A t, u \in HeldBy(n) : t = u
    BY <1>1 DEF Surplus, Holds, Waits, HeldBy
  <2>2. CASE HeldBy(n) = {}
    BY <2>2, FS_EmptySet
  <2>3. ASSUME NEW t \in HeldBy(n) PROVE Cardinality(HeldBy(n)) <= 1
    <3>1. HeldBy(n) = {t}
      BY <2>1
    <3>2. Cardinality({t}) = 1
      BY FS_Singleton, Zenon
    <3> QED  BY <3>1, <3>2
  <2> QED  BY <2>2, <2>3
<1>4. NoDangling
  <2>1. \A x \in Carried : /\ mode[x] = "aboard" => ref[x] \in Vehicles
                           /\ mode[x] = "held" => ref[x] \in Norns \union {Nil}
                           /\ ref[x] # Nil => Exists(ref[x])
    BY DEF RidesInv, Rides
  <2>2. \A i \in DOMAIN queue : queue[i] \in Living
    BY <1>1
  <2>3. \A i \in DOMAIN queue : \A x \in {queue[i].from, queue[i].to} \ {Hand} : Exists(x)
    BY <2>2 DEF Living
  <2> QED  BY <2>1, <2>3 DEF NoDangling
<1> QED  BY <1>2, <1>3, <1>4 DEF RidesSound

\* No passenger follows a vehicle that was freed, nobody holds or waits for one who is gone,
\* and a norn with no event on its way holds one thing at most.
THEOREM NobodyDangles == Spec => []RidesSound
<1> QED  BY RidesInductive, RidesAreSound, PTL

\* A drop is only obeyed when it comes from the norn that holds the thing, and nothing else
\* that happens looks like the handling of a drop.
LEMMA DropsAskTheHolder ==
  ASSUME RidesInv, [Next]_vars, NEW t \in Things, NEW n \in Norns, NEW m \in Norns,
         mode[t] = "held", ref[t] = n, m # n, draining, queue[1] = Let(m, t),
         queue' = Tail(queue)
  PROVE  mode'[t] = "held" /\ ref'[t] = n
<1>1. /\ queue \in Seq(Living) /\ queue # <<>> /\ draining = TRUE
      /\ t \in Carried /\ t \in Objects /\ n \in Objects /\ n # Nil /\ t \notin InHand
  BY PartiesAre DEF RidesInv, Phase, InHand
<1>2. /\ Len(queue) \in Nat /\ Len(queue') = Len(queue) - 1 /\ Len(queue) >= 1
  BY <1>1
<1>3. ASSUME NEW more \in Seq(Living), queue' = queue \o more PROVE FALSE
  <2>1. Len(queue') = Len(queue) + Len(more) /\ Len(more) \in Nat
    BY <1>1, <1>3
  <2> QED  BY <1>2, <2>1
<1>4. queue' # queue
  BY <1>2
<1>5. CASE UNCHANGED <<mode, ref>>
  BY <1>5
<1>6. ASSUME NEW x \in Norns, Delete(x) PROVE mode'[t] = "held" /\ ref'[t] = n
  <2>1. /\ mode' = [mode EXCEPT ![x] = "world"] /\ t # x
        /\ ref' = [y \in Carried |-> IF y = x \/ ref[y] = x THEN Nil ELSE ref[y]]
        /\ queue' = Purged(x)
    BY <1>6, PartiesAre DEF Delete
  <2>2. mode'[t] = mode[t]
    BY <1>1, <2>1 DEF RidesInv, Placed
  <2>3. CASE x # n
    BY <1>1, <2>1, <2>2, <2>3
  <2>4. CASE x = n
    <3> DEFINE gone == {e \in Event : x \in {e.from, e.to}}
    <3>1. queue[1] \notin gone /\ queue' = Without(queue, gone)
      <4>1. n # t
        BY PartiesAre
      <4>2. Let(m, t).from = m /\ Let(m, t).to = t
        BY EventsAre
      <4>3. Let(m, t) \notin gone
        BY <2>4, <4>1, <4>2
      <4> QED  BY <2>1, <4>3 DEF Purged
    <3> HIDE DEF gone
    <3>2. Without(queue, gone) \in Seq(Living)
          /\ \A y : Waits(Without(queue, gone), y) => y \notin gone
      BY <1>1, WithoutIsSeq, WithoutKeeps, Zenon DEF Waits
    <3>3. \A i \in 1 .. Len(queue) : queue[i] \notin gone
      <4> SUFFICES ASSUME NEW i \in 1 .. Len(queue), i # 1 PROVE queue[i] \notin gone
        BY <3>1
      <4>1. i - 1 \in 1 .. Len(queue') /\ queue'[i - 1] = queue[i]
        BY <1>1, <1>2
      <4>2. Waits(queue', queue[i])
        BY <4>1, Zenon DEF Waits
      <4> QED  BY <3>1, <3>2, <4>2
    <3>4. queue' = queue
      BY <1>1, <3>1, <3>3, WithoutNothing
    <3> QED  BY <1>4, <3>4
  <2> QED  BY <2>3, <2>4
<1>7. ASSUME NEW v \in Vehicles, AllOff(v) PROVE UNCHANGED <<mode, ref>>
  BY <1>7 DEF AllOff
<1>8. ASSUME NEW x \in Norns, Die(x) PROVE mode'[t] = "held" /\ ref'[t] = n
  BY <1>4, <1>8 DEF Die
<1>9. CASE \/ \E x \in Carried : Click(x) \/ ClickCarried(x)
           \/ \E x \in Norns, y \in Things \union {Hand} : NornTakes(x, y)
           \/ \E x \in Norns : NornDrops(x)
           \/ \E v \in Vehicles, S \in SUBSET Norns : Gather(v, S)
           \/ Load \/ BeginPhase
  BY <1>5, <1>9 DEF Click, ClickCarried, NornTakes, NornDrops, Gather, Load, BeginPhase
<1>10. CASE \/ \E v \in Vehicles : Teleport(v)
            \/ \E x \in Carried : MoveTo(x)
            \/ \E y \in Things : Settle(y)
            \/ \E x \in Objects : Kill(x) \/ Reap(x)
  BY <1>4, <1>10 DEF Teleport, MoveTo, Settle, Kill, Reap
<1>11. CASE Handle
  <2>1. \/ \E a \in Parties : ThingIsLet(t, a) /\ queue[1] = Let(a, t)
        \/ UNCHANGED <<mode, ref>>
    <3>1. \A a, b, c : Let(m, t) # Take(a, b) /\ (Let(m, t) = Let(a, c) <=> a = m /\ c = t)
      BY EventsAre
    <3>2. /\ \A x \in Things : ~HandTakesThing(x)
          /\ \A x \in Things, y \in Norns : ~NornTakesThing(y, x)
          /\ \A x \in Norns, v \in Vehicles : ~NornBoards(x, v) /\ ~NornLeaves(x, v)
          /\ \A x \in Norns, privileged, clicked \in BOOLEAN : ~HandTakesNorn(x, privileged, clicked)
          /\ \A x \in Norns, a \in Parties : ~NornIsLet(x, a)
      BY <3>1, PartiesAre
      DEF HandTakesThing, NornTakesThing, NornBoards, NornLeaves, HandTakesNorn, NornIsLet
    <3>3. \A a \in Parties : HandReturns(a) \/ HandHides(a) => UNCHANGED <<mode, ref>>
      BY DEF HandReturns, HandHides
    <3>4. \A x \in Things, a \in Parties : ThingIsLet(x, a) => x = t /\ queue[1] = Let(a, t)
      <4> SUFFICES ASSUME NEW x \in Things, NEW a \in Parties, ThingIsLet(x, a)
                   PROVE  x = t /\ queue[1] = Let(a, t)
        OBVIOUS
      <4>1. queue[1] = Let(a, x)
        BY DEF ThingIsLet
      <4>2. Let(m, t) = Let(a, x)
        BY <4>1
      <4>3. x = t
        <5>1. Let(m, t).to = t /\ Let(a, x).to = x
          BY EventsAre
        <5> QED  BY <4>2, <5>1
      <4> QED  BY <4>1, <4>3
    <3> QED  BY <1>11, <3>2, <3>3, <3>4, Zenon DEF Handle
  <2>2. ASSUME NEW a \in Parties, ThingIsLet(t, a), queue[1] = Let(a, t) PROVE UNCHANGED <<mode, ref>>
    <3>1. a = m
      <4>1. Let(a, t) = Let(m, t)
        BY <2>2
      <4>2. Let(a, t).from = a /\ Let(m, t).from = m
        BY EventsAre
      <4> QED  BY <4>1, <4>2
    <3>2. ~LetByHolder(t, a)
      BY <3>1 DEF LetByHolder
    <3> QED  BY <1>1, <2>2, <3>2 DEF ThingIsLet, Stays
  <2> QED  BY <1>5, <2>1, <2>2
<1> QED
  <2>1. CASE UNCHANGED vars
    BY <1>5, <2>1 DEF vars
  <2>2. CASE Next
    BY <1>5, <1>6, <1>7, <1>8, <1>9, <1>10, <1>11, <2>2, Zenon DEF Next
  <2> QED  BY <2>1, <2>2

\* A norn keeps what it holds when the drop of another, which held it before, comes late.
THEOREM LateDropsAreIgnored == Spec => KeepsWhatItHolds
<1>1. RidesInv /\ [Next]_vars
      => [\A t \in Things, n, m \in Norns :
            mode[t] = "held" /\ ref[t] = n /\ m # n
            /\ draining /\ queue[1] = Let(m, t) /\ queue' = Tail(queue)
              => mode'[t] = "held" /\ ref'[t] = n]_vars
  BY DropsAskTheHolder
<1> QED  BY <1>1, RidesInductive, PTL DEF KeepsWhatItHolds, Spec

-----------------------------------------------------------------------------
(* The hand *)

\* Each element of A in the queue has one of B after it.
MadeGood(q, A, B) ==
  \A i \in 1 .. Len(q) : q[i] \in A => \E j \in 1 .. Len(q) : i < j /\ q[j] \in B

\* What the hand shows itself for; and what tells it that x has left.
Shows == {e \in Event : e.kind = "take" /\ e.to = Hand /\ e.from \in Things \union {Hand}}
Back(x) == {e \in Shows : e.from \in {Hand, x}}

\* Nothing that was killed hangs from the hand or is to. The hand holds one at most; for every
\* other whose notice to hide waits, that it left waits behind; while nothing hangs from it the
\* hand is shown or will be, while something does it is hidden or will be, unless that has been
\* let go over a vehicle, which will take it.
Parked == \A x \in Carried : life[x] \in {"killed", "gone"} =>
            mode[x] # "hand" /\ ~Waits(queue, Take(Hand, x))
OneInHand == \A x, y \in InHand : x = y
Left(q, I) == \A x \in Carried \ I : MadeGood(q, {Let(x, Hand)}, Back(x))
Empty(q, I, s) == I = {} => s \/ \E e \in Shows : Waits(q, e)
Hung(q, x, s) == /\ MadeGood(q, Shows, {Let(x, Hand)})
                 /\ ~s \/ Waits(q, Let(x, Hand))
Taken(q, x) == \E v \in Vehicles : Waits(q, Take(v, x))
Full(q, I, s) == \A x \in I : Taken(q, x) \/ Hung(q, x, s)
Follows(q, I, s) == Left(q, I) /\ Empty(q, I, s) /\ Full(q, I, s)

HandInv ==
  /\ \A n \in Norns : life[n] # "killed"
  /\ ~astray => Parked /\ OneInHand /\ Follows(queue, InHand, shown)

LEMMA MadeGoodTail ==
  ASSUME NEW S, NEW q \in Seq(S), q # <<>>, NEW A, NEW B, MadeGood(q, A, B)
  PROVE  MadeGood(Tail(q), A, B)
<1>1. /\ Tail(q) \in Seq(S) /\ Len(q) \in Nat /\ Len(q) >= 1 /\ Len(Tail(q)) = Len(q) - 1
      /\ \A i \in 1 .. Len(q) - 1 : Tail(q)[i] = q[i + 1]
  OBVIOUS
<1> SUFFICES ASSUME NEW i \in 1 .. Len(Tail(q)), Tail(q)[i] \in A
             PROVE  \E j \in 1 .. Len(Tail(q)) : i < j /\ Tail(q)[j] \in B
  BY DEF MadeGood
<1>2. i + 1 \in 1 .. Len(q) /\ q[i + 1] \in A
  BY <1>1
<1>3. PICK j \in 1 .. Len(q) : i + 1 < j /\ q[j] \in B
  BY <1>2 DEF MadeGood
<1>4. j - 1 \in 1 .. Len(q) - 1 /\ i < j - 1 /\ (j - 1) + 1 = j
  BY <1>1, <1>3
<1>5. Tail(q)[j - 1] = q[j]
  BY <1>1, <1>4
<1> QED  BY <1>1, <1>3, <1>4, <1>5

LEMMA MadeGoodConcat ==
  ASSUME NEW S, NEW q \in Seq(S), NEW r \in Seq(S), NEW A, NEW B,
         MadeGood(r, A, B),
         MadeGood(q, A, B) \/ \E e \in B : Waits(r, e)
  PROVE  MadeGood(q \o r, A, B)
<1> DEFINE s == q \o r
<1>1. /\ Len(s) = Len(q) + Len(r) /\ Len(q) \in Nat /\ Len(r) \in Nat
      /\ \A i \in 1 .. Len(q) : s[i] = q[i]
      /\ \A i \in 1 .. Len(r) : s[Len(q) + i] = r[i]
  OBVIOUS
<1> HIDE DEF s
<1>2. SUFFICES ASSUME NEW i \in 1 .. Len(s), s[i] \in A
               PROVE  \E j \in 1 .. Len(s) : i < j /\ s[j] \in B
  BY DEF MadeGood, s
<1>3. CASE i <= Len(q)
  <2>1. i \in 1 .. Len(q) /\ q[i] \in A
    BY <1>1, <1>2, <1>3
  <2>2. CASE MadeGood(q, A, B)
    <3>1. PICK j \in 1 .. Len(q) : i < j /\ q[j] \in B
      BY <2>1, <2>2 DEF MadeGood
    <3>2. j \in 1 .. Len(s) /\ s[j] = q[j]
      BY <1>1
    <3> QED  BY <3>1, <3>2
  <2>3. CASE \E e \in B : Waits(r, e)
    <3>1. PICK k \in 1 .. Len(r) : r[k] \in B
      BY <2>3 DEF Waits
    <3>2. Len(q) + k \in 1 .. Len(s) /\ i < Len(q) + k /\ s[Len(q) + k] = r[k]
      BY <1>1, <2>1
    <3> QED  BY <3>1, <3>2
  <2> QED  BY <2>2, <2>3
<1>4. CASE i > Len(q)
  <2>1. i - Len(q) \in 1 .. Len(r) /\ Len(q) + (i - Len(q)) = i
    BY <1>1, <1>4
  <2>2. r[i - Len(q)] \in A
    BY <1>1, <1>2, <2>1
  <2>3. PICK j \in 1 .. Len(r) : i - Len(q) < j /\ r[j] \in B
    BY <2>1, <2>2 DEF MadeGood
  <2>4. Len(q) + j \in 1 .. Len(s) /\ i < Len(q) + j /\ s[Len(q) + j] = r[j]
    BY <1>1, <2>3
  <2> QED  BY <2>3, <2>4
<1> QED  BY <1>1, <1>3, <1>4

\* What is taken out of the queue for another reason changes nothing.
LEMMA MadeGoodWithout ==
  ASSUME NEW S, NEW q \in Seq(S), NEW A, NEW B, NEW gone, A \intersect B = {},
         B \intersect gone = {}, MadeGood(q, A, B)
  PROVE  MadeGood(Without(q, gone), A, B)
<1> DEFINE Good == {s \in Seq(S) : MadeGood(s, A, B) => MadeGood(Without(s, gone), A, B)}
<1>1. <<>> \in Good
  <2>1. MadeGood(<<>>, A, B)
    BY DEF MadeGood
  <2> QED  BY <2>1, WithoutEmpty
<1>2. ASSUME NEW s \in Seq(S), NEW x \in S, s \in Good, MadeGood(Append(s, x), A, B)
      PROVE  MadeGood(Without(Append(s, x), gone), A, B)
  <2> DEFINE t == Append(s, x)
             w == Without(s, gone)
  <2>1. /\ Len(s) \in Nat /\ Len(t) = Len(s) + 1 /\ t[Len(s) + 1] = x
        /\ \A i \in 1 .. Len(s) : t[i] = s[i]
    OBVIOUS
  <2>2. w \in Seq(S)
    BY WithoutIsSeq, Zenon
  <2>3. Without(t, gone) = IF x \in gone THEN w ELSE Append(w, x)
    BY WithoutAppend, Zenon
  <2>4. x \notin A
    <3>1. Len(s) + 1 \in 1 .. Len(t) /\ \A j \in 1 .. Len(t) : ~(Len(s) + 1 < j)
      BY <2>1
    <3>2. MadeGood(t, A, B)
      BY <1>2
    <3> HIDE DEF t
    <3> QED  BY <2>1, <3>1, <3>2 DEF MadeGood
  <2>5. CASE x \in B
    <3>1. Without(t, gone) = Append(w, x)
      BY <2>3, <2>5
    <3>2. /\ Len(w) \in Nat /\ Len(Append(w, x)) = Len(w) + 1 /\ Append(w, x)[Len(w) + 1] = x
      BY <2>2
    <3>3. \A i \in 1 .. Len(w) + 1 : Append(w, x)[i] \in A => i < Len(w) + 1
      BY <2>4, <3>2
    <3> DEFINE u == Append(w, x)
    <3>4. Len(u) \in 1 .. Len(u) /\ u[Len(u)] \in B
      BY <2>5, <3>2
    <3>5. \A i \in 1 .. Len(u) : u[i] \in A => i < Len(u)
      BY <3>2, <3>3
    <3> HIDE DEF w, t, u
    <3>6. MadeGood(u, A, B)
      BY <3>4, <3>5 DEF MadeGood
    <3> QED  BY <3>1, <3>6 DEF u, t
  <2>6. CASE x \notin B
    <3>1. MadeGood(s, A, B)
      <4> SUFFICES ASSUME NEW i \in 1 .. Len(s), s[i] \in A
                   PROVE  \E j \in 1 .. Len(s) : i < j /\ s[j] \in B
        BY DEF MadeGood
      <4>1. i \in 1 .. Len(t) /\ t[i] \in A
        BY <2>1
      <4>2. PICK j \in 1 .. Len(t) : i < j /\ t[j] \in B
        BY <1>2, <4>1 DEF MadeGood
      <4>3. j \in 1 .. Len(s)
        BY <2>1, <2>6, <4>2
      <4> QED  BY <2>1, <4>2, <4>3
    <3>2. MadeGood(w, A, B)
      BY <1>2, <3>1
    <3>3. CASE x \in gone
      BY <2>3, <3>2, <3>3
    <3>4. CASE x \notin gone
      <4>1. /\ Len(w) \in Nat /\ Len(Append(w, x)) = Len(w) + 1 /\ Append(w, x)[Len(w) + 1] = x
            /\ \A i \in 1 .. Len(w) : Append(w, x)[i] = w[i]
        BY <2>2
      <4> DEFINE u == Append(w, x)
      <4>2. MadeGood(u, A, B)
        <5> SUFFICES ASSUME NEW i \in 1 .. Len(u), u[i] \in A
                     PROVE  \E j \in 1 .. Len(u) : i < j /\ u[j] \in B
          BY DEF MadeGood
        <5>1. i \in 1 .. Len(w) /\ w[i] \in A
          BY <2>4, <4>1
        <5>2. PICK j \in 1 .. Len(w) : i < j /\ w[j] \in B
          BY <3>2, <5>1 DEF MadeGood
        <5>3. j \in 1 .. Len(u) /\ u[j] = w[j]
          BY <4>1
        <5> QED  BY <5>2, <5>3
      <4> QED  BY <2>3, <3>4, <4>2
    <3> QED  BY <3>3, <3>4
  <2> QED  BY <2>5, <2>6
<1>3. Seq(S) \subseteq Good
  <2>1. \A s \in Seq(S) : \A x \in S : s \in Good => Append(s, x) \in Good
    BY <1>2
  <2> HIDE DEF Good
  <2> QED  BY <1>1, <2>1, SequencesAre, Zenon
<1> QED  BY <1>3

LEMMA WaitsIn ==
  ASSUME NEW S, NEW q \in Seq(S), NEW r \in Seq(S)
  PROVE  /\ \A e : Waits(q \o r, e) <=> Waits(q, e) \/ Waits(r, e)
         /\ \A e : ~Waits(<<>>, e)
         /\ \A d, e : Waits(<<d>>, e) <=> e = d
         /\ \A c, d, e : Waits(<<c, d>>, e) <=> e = c \/ e = d
<1>1. /\ Len(q \o r) = Len(q) + Len(r) /\ Len(q) \in Nat /\ Len(r) \in Nat
      /\ \A i \in 1 .. Len(q) : (q \o r)[i] = q[i]
      /\ \A i \in 1 .. Len(r) : (q \o r)[Len(q) + i] = r[i]
  OBVIOUS
<1>2. ASSUME NEW e, Waits(q \o r, e) PROVE Waits(q, e) \/ Waits(r, e)
  <2>1. PICK i \in 1 .. Len(q \o r) : (q \o r)[i] = e
    BY <1>2 DEF Waits
  <2>2. CASE i <= Len(q)
    <3>1. i \in 1 .. Len(q) /\ q[i] = e
      BY <1>1, <2>1, <2>2
    <3> QED  BY <3>1 DEF Waits
  <2>3. CASE ~(i <= Len(q))
    <3>1. i - Len(q) \in 1 .. Len(r) /\ Len(q) + (i - Len(q)) = i
      BY <1>1, <2>3
    <3>2. r[i - Len(q)] = e
      BY <1>1, <2>1, <3>1
    <3> QED  BY <3>1, <3>2 DEF Waits
  <2> QED  BY <2>2, <2>3
<1>3. \A e : Waits(q, e) \/ Waits(r, e) => Waits(q \o r, e)
  BY Behind, Zenon
<1>4. \A e : ~Waits(<<>>, e)
  BY DEF Waits
<1>5. \A d, e : Waits(<<d>>, e) <=> e = d
  BY DEF Waits
<1>6. \A c, d, e : Waits(<<c, d>>, e) <=> e = c \/ e = d
  <2> SUFFICES ASSUME NEW c, NEW d, NEW e PROVE Waits(<<c, d>>, e) <=> e = c \/ e = d
    OBVIOUS
  <2> DEFINE t == <<c, d>>
  <2>1. Len(t) = 2 /\ t[1] = c /\ t[2] = d /\ 1 .. 2 = {1, 2}
    OBVIOUS
  <2> HIDE DEF t
  <2>2. Waits(t, e) <=> e = c \/ e = d
    BY <2>1 DEF Waits
  <2> QED  BY <2>2 DEF t
<1> QED  BY <1>2, <1>3, <1>4, <1>5, <1>6

LEMMA WaitsInTail ==
  ASSUME NEW S, NEW q \in Seq(S), q # <<>>
  PROVE  /\ Tail(q) \in Seq(S)
         /\ \A e : Waits(q, e) <=> e = q[1] \/ Waits(Tail(q), e)
<1>1. /\ Tail(q) \in Seq(S) /\ Len(q) \in Nat /\ Len(q) >= 1 /\ Len(Tail(q)) = Len(q) - 1
      /\ \A i \in 1 .. Len(q) - 1 : Tail(q)[i] = q[i + 1]
  OBVIOUS
<1>2. ASSUME NEW i \in 1 .. Len(q), i # 1 PROVE Waits(Tail(q), q[i])
  <2>1. i - 1 \in 1 .. Len(q) - 1 /\ (i - 1) + 1 = i
    BY <1>1, <1>2
  <2>2. i - 1 \in 1 .. Len(Tail(q)) /\ Tail(q)[i - 1] = q[i]
    BY <1>1, <2>1
  <2> QED  BY <2>2 DEF Waits
<1>3. ASSUME NEW i \in 1 .. Len(Tail(q)) PROVE Waits(q, Tail(q)[i])
  <2>1. i + 1 \in 1 .. Len(q) /\ Tail(q)[i] = q[i + 1]
    BY <1>1
  <2> QED  BY <2>1 DEF Waits
<1>4. 1 \in 1 .. Len(q)
  BY <1>1
<1> QED  BY <1>1, <1>2, <1>3, <1>4 DEF Waits

LEMMA MadeGoodBehind ==
  ASSUME NEW S, NEW q \in Seq(S), NEW r \in Seq(S), NEW A, NEW B,
         \A e \in A : ~Waits(r, e),
         MadeGood(q, A, B) \/ \E e \in B : Waits(r, e)
  PROVE  MadeGood(q \o r, A, B)
<1>1. MadeGood(r, A, B)
  BY DEF MadeGood, Waits
<1> QED  BY <1>1, MadeGoodConcat, Zenon

LEMMA NoticesAre ==
  /\ \A a \in Things \union {Hand} : Take(a, Hand) \in Shows
  /\ \A a, b : Let(a, b) \notin Shows
  /\ \A a, b : b # Hand => Take(a, b) \notin Shows
  /\ \A n \in Norns : Take(n, Hand) \notin Shows
  /\ \A x : Take(Hand, Hand) \in Back(x)
  /\ \A t \in Things : Take(t, Hand) \in Back(t)
  /\ \A x : Back(x) \subseteq Shows /\ Let(x, Hand) \notin Back(x)
BY EventsAre, PartiesAre DEF Shows, Back, Take, Let, Event

\* Neither shows nor hides the hand.
Quiet(q) == (\A e \in Shows : ~Waits(q, e)) /\ \A x \in Carried : ~Waits(q, Let(x, Hand))

LEMMA QuietMore ==
  ASSUME NEW q \in Seq(Living), NEW more \in Seq(Living), NEW I \in SUBSET Carried,
         NEW s \in BOOLEAN, Follows(q, I, s), Quiet(more)
  PROVE  Follows(q \o more, I, s)
<1>1. \A e : Waits(q \o more, e) <=> Waits(q, e) \/ Waits(more, e)
  BY WaitsIn, Zenon
<1>2. Left(q \o more, I)
  <2> SUFFICES ASSUME NEW x \in Carried \ I PROVE MadeGood(q \o more, {Let(x, Hand)}, Back(x))
    BY DEF Left
  <2> DEFINE A == {Let(x, Hand)}
  <2>1. MadeGood(q, A, Back(x)) /\ \A e \in A : ~Waits(more, e)
    BY DEF Follows, Left, Quiet
  <2> HIDE DEF A
  <2>2. MadeGood(q \o more, A, Back(x))
    BY <2>1, MadeGoodBehind, Zenon
  <2> QED  BY <2>2 DEF A
<1>3. Empty(q \o more, I, s)
  BY <1>1 DEF Follows, Empty
<1>4. Full(q \o more, I, s)
  <2> SUFFICES ASSUME NEW x \in I, ~Taken(q \o more, x) PROVE Hung(q \o more, x, s)
    BY DEF Full
  <2>1. Hung(q, x, s)
    BY <1>1 DEF Follows, Full, Taken
  <2> DEFINE B == {Let(x, Hand)}
  <2>2. MadeGood(q, Shows, B) /\ \A e \in Shows : ~Waits(more, e)
    BY <2>1 DEF Hung, Quiet
  <2> HIDE DEF B
  <2>3. MadeGood(q \o more, Shows, B)
    BY <2>2, MadeGoodBehind, Zenon
  <2> QED  BY <1>1, <2>1, <2>3 DEF Hung, B
<1> QED  BY <1>2, <1>3, <1>4 DEF Follows

\* What has left the hand tells it so.
LEMMA HandIsLeft ==
  ASSUME NEW q \in Seq(Living), NEW more \in Seq(Living), NEW I \in SUBSET Carried,
         NEW x, I \subseteq {x}, NEW s \in BOOLEAN, Left(q, I),
         NEW b \in Back(x), Waits(more, b), \A y \in Carried : ~Waits(more, Let(y, Hand))
  PROVE  Follows(q \o more, {}, s)
<1>1. \A e : Waits(q \o more, e) <=> Waits(q, e) \/ Waits(more, e)
  BY WaitsIn, Zenon
<1>2. Left(q \o more, {})
  <2> SUFFICES ASSUME NEW y \in Carried PROVE MadeGood(q \o more, {Let(y, Hand)}, Back(y))
    BY DEF Left
  <2> DEFINE A == {Let(y, Hand)}
  <2>1. \A e \in A : ~Waits(more, e)
    OBVIOUS
  <2>2. MadeGood(q, A, Back(y)) \/ \E e \in Back(y) : Waits(more, e)
    <3>1. CASE y \in I
      BY <3>1
    <3>2. CASE y \notin I
      BY <3>2 DEF Left
    <3> QED  BY <3>1, <3>2
  <2> HIDE DEF A
  <2>3. MadeGood(q \o more, A, Back(y))
    BY <2>1, <2>2, MadeGoodBehind, Zenon
  <2> QED  BY <2>3 DEF A
<1>3. \E e \in Shows : Waits(q \o more, e)
  BY <1>1, NoticesAre
<1> QED  BY <1>2, <1>3 DEF Follows, Empty, Full

\* What comes into the hand tells it so.
LEMMA HandIsEntered ==
  ASSUME NEW q \in Seq(Living), NEW more \in Seq(Living), NEW I \in SUBSET Carried,
         NEW x \in Carried, I \subseteq {x}, NEW s \in BOOLEAN, Left(q, I),
         Waits(more, Let(x, Hand)), \A e \in Shows : ~Waits(more, e),
         \A y \in Carried : Waits(more, Let(y, Hand)) => y = x
  PROVE  Follows(q \o more, {x}, s)
<1>1. \A e : Waits(q \o more, e) <=> Waits(q, e) \/ Waits(more, e)
  BY WaitsIn, Zenon
<1>2. Left(q \o more, {x})
  <2> SUFFICES ASSUME NEW y \in Carried, y # x PROVE MadeGood(q \o more, {Let(y, Hand)}, Back(y))
    BY DEF Left
  <2> DEFINE A == {Let(y, Hand)}
  <2>1. MadeGood(q, A, Back(y)) /\ \A e \in A : ~Waits(more, e)
    BY DEF Left
  <2> HIDE DEF A
  <2>2. MadeGood(q \o more, A, Back(y))
    BY <2>1, MadeGoodBehind, Zenon
  <2> QED  BY <2>2 DEF A
<1>3. Hung(q \o more, x, s)
  <2> DEFINE B == {Let(x, Hand)}
  <2>1. \E e \in B : Waits(more, e)
    OBVIOUS
  <2> HIDE DEF B
  <2>2. MadeGood(q \o more, Shows, B)
    BY <2>1, MadeGoodBehind, Zenon
  <2> QED  BY <1>1, <2>2 DEF Hung, B
<1> QED  BY <1>2, <1>3 DEF Follows, Empty, Full

\* What hangs on over a vehicle waits for it.
LEMMA HandIsRelieved ==
  ASSUME NEW q \in Seq(Living), NEW more \in Seq(Living), NEW I \in SUBSET Carried,
         NEW x, I = {x}, NEW s \in BOOLEAN, Left(q, I), Taken(more, x),
         \A y \in Carried : ~Waits(more, Let(y, Hand))
  PROVE  Follows(q \o more, I, s)
<1>1. \A e : Waits(q \o more, e) <=> Waits(q, e) \/ Waits(more, e)
  BY WaitsIn, Zenon
<1>2. Left(q \o more, I)
  <2> SUFFICES ASSUME NEW y \in Carried \ I PROVE MadeGood(q \o more, {Let(y, Hand)}, Back(y))
    BY DEF Left
  <2> DEFINE A == {Let(y, Hand)}
  <2>1. MadeGood(q, A, Back(y)) /\ \A e \in A : ~Waits(more, e)
    BY DEF Left
  <2> HIDE DEF A
  <2>2. MadeGood(q \o more, A, Back(y))
    BY <2>1, MadeGoodBehind, Zenon
  <2> QED  BY <2>2 DEF A
<1> QED  BY <1>1, <1>2 DEF Follows, Empty, Full, Taken

LEMMA LeftTail ==
  ASSUME NEW q \in Seq(Living), q # <<>>, NEW I, Left(q, I)
  PROVE  Left(Tail(q), I)
<1> SUFFICES ASSUME NEW y \in Carried \ I PROVE MadeGood(Tail(q), {Let(y, Hand)}, Back(y))
  BY DEF Left
<1> DEFINE A == {Let(y, Hand)}
<1>1. MadeGood(q, A, Back(y))
  BY DEF Left
<1> HIDE DEF A
<1>2. MadeGood(Tail(q), A, Back(y))
  BY <1>1, MadeGoodTail, Zenon
<1> QED  BY <1>2 DEF A

\* An event that the hand is not told of, nor a norn that it would lose, is handled.
LEMMA QuietFirst ==
  ASSUME NEW q \in Seq(Living), q # <<>>, NEW I \in SUBSET Carried, NEW s \in BOOLEAN,
         Follows(q, I, s), q[1] \notin Shows, \A x \in Carried : q[1] # Let(x, Hand),
         \A v \in Vehicles, x \in I : q[1] # Take(v, x)
  PROVE  Follows(Tail(q), I, s)
<1>1. \A e : Waits(q, e) <=> e = q[1] \/ Waits(Tail(q), e)
  BY WaitsInTail, Zenon
<1>2. Left(Tail(q), I)
  BY LeftTail, Zenon DEF Follows
<1>3. Empty(Tail(q), I, s)
  BY <1>1 DEF Follows, Empty
<1>4. Full(Tail(q), I, s)
  <2> SUFFICES ASSUME NEW x \in I, ~Taken(Tail(q), x) PROVE Hung(Tail(q), x, s)
    BY DEF Full
  <2>1. Hung(q, x, s)
    BY <1>1 DEF Follows, Full, Taken
  <2> DEFINE B == {Let(x, Hand)}
  <2>2. MadeGood(q, Shows, B)
    BY <2>1 DEF Hung
  <2> HIDE DEF B
  <2>3. MadeGood(Tail(q), Shows, B)
    BY <2>2, MadeGoodTail, Zenon
  <2> QED  BY <1>1, <2>1, <2>3 DEF Hung, B
<1> QED  BY <1>2, <1>3, <1>4 DEF Follows

\* The hand shows itself, and what hides it again is behind.
LEMMA ShowFirst ==
  ASSUME NEW q \in Seq(Living), q # <<>>, NEW I \in SUBSET Carried, NEW s \in BOOLEAN,
         Follows(q, I, s), q[1] \in Shows
  PROVE  Follows(Tail(q), I, TRUE)
<1>1. \A e : Waits(q, e) <=> e = q[1] \/ Waits(Tail(q), e)
  BY WaitsInTail, Zenon
<1>2. Left(Tail(q), I) /\ Empty(Tail(q), I, TRUE)
  BY LeftTail, Zenon DEF Follows, Empty
<1>3. Full(Tail(q), I, TRUE)
  <2> SUFFICES ASSUME NEW x \in I, ~Taken(Tail(q), x) PROVE Hung(Tail(q), x, TRUE)
    BY DEF Full
  <2>1. \A v \in Vehicles : q[1] # Take(v, x)
    BY PartiesAre, NoticesAre
  <2>2. Hung(q, x, s)
    BY <1>1, <2>1 DEF Follows, Full, Taken
  <2> DEFINE B == {Let(x, Hand)}
  <2>3. MadeGood(q, Shows, B)
    BY <2>2 DEF Hung
  <2> HIDE DEF B
  <2>4. MadeGood(Tail(q), Shows, B)
    BY <2>3, MadeGoodTail, Zenon
  <2>5. Len(q) \in Nat /\ 1 \in 1 .. Len(q)
    OBVIOUS
  <2>6. PICK j \in 1 .. Len(q) : 1 < j /\ q[j] \in B
    BY <2>3, <2>5 DEF MadeGood
  <2>7. q[j] = Let(x, Hand) /\ q[j] # q[1]
    BY <2>6, NoticesAre DEF B
  <2>8. Waits(Tail(q), Let(x, Hand))
    BY <1>1, <2>6, <2>7 DEF Waits
  <2> QED  BY <2>4, <2>8 DEF Hung, B
<1> QED  BY <1>2, <1>3 DEF Follows

\* The hand hides itself: for something that hangs from it, or what shows it is behind.
LEMMA HideFirst ==
  ASSUME NEW q \in Seq(Living), q # <<>>, NEW I \in SUBSET Carried, NEW s \in BOOLEAN,
         Follows(q, I, s), NEW a \in Carried, q[1] = Let(a, Hand)
  PROVE  Follows(Tail(q), I, FALSE)
<1>1. \A e : Waits(q, e) <=> e = q[1] \/ Waits(Tail(q), e)
  BY WaitsInTail, Zenon
<1>2. Left(Tail(q), I)
  BY LeftTail, Zenon DEF Follows
<1>3. Empty(Tail(q), I, FALSE)
  <2> SUFFICES ASSUME I = {} PROVE \E e \in Shows : Waits(Tail(q), e)
    BY DEF Empty
  <2>1. MadeGood(q, {Let(a, Hand)}, Back(a))
    BY DEF Follows, Left
  <2>2. Len(q) \in Nat /\ 1 \in 1 .. Len(q)
    OBVIOUS
  <2>3. PICK j \in 1 .. Len(q) : 1 < j /\ q[j] \in Back(a)
    BY <2>1, <2>2 DEF MadeGood
  <2>4. q[j] \in Shows /\ q[j] # q[1]
    BY <2>3, NoticesAre
  <2> QED  BY <1>1, <2>4 DEF Waits
<1>4. Full(Tail(q), I, FALSE)
  <2> SUFFICES ASSUME NEW x \in I, ~Taken(Tail(q), x) PROVE Hung(Tail(q), x, FALSE)
    BY DEF Full
  <2>1. \A v \in Vehicles : q[1] # Take(v, x)
    BY EventsAre
  <2>2. Hung(q, x, s)
    BY <1>1, <2>1 DEF Follows, Full, Taken
  <2> DEFINE B == {Let(x, Hand)}
  <2>3. MadeGood(q, Shows, B)
    BY <2>2 DEF Hung
  <2> HIDE DEF B
  <2>4. MadeGood(Tail(q), Shows, B)
    BY <2>3, MadeGoodTail, Zenon
  <2> QED  BY <2>4 DEF Hung, B
<1> QED  BY <1>2, <1>3, <1>4 DEF Follows

-----------------------------------------------------------------------------
(* The hand and the clicks and scripts *)

Fit(x) == life[x] \notin {"killed", "gone"}
Meek == {e \in Living : /\ e \notin Shows /\ \A x \in Carried : e # Let(x, Hand)
                        /\ \A x \in Carried : e = Take(Hand, x) => Fit(x)}

LEMMA MeekAre ==
  ASSUME NEW more \in Seq(Meek)
  PROVE  /\ more \in Seq(Living) /\ Quiet(more)
         /\ \A x \in Carried : Waits(more, Take(Hand, x)) => Fit(x)
<1>1. \A e : Waits(more, e) => e \in Meek
  BY DEF Waits
<1>2. Meek \subseteq Living
  BY DEF Meek
<1>3. more \in Seq(Living)
  BY <1>2
<1> QED  BY <1>1, <1>3 DEF Meek, Quiet

LEMMA MeekFew ==
  /\ <<>> \in Seq(Meek)
  /\ \A e \in Meek : <<e>> \in Seq(Meek)
OBVIOUS

\* What is said between objects, and what a norn says to the hand.
LEMMA MeekEvents ==
  /\ \A a \in Objects, b \in Carried : Take(a, b) \in Living => Take(a, b) \in Meek
  /\ \A a \in Parties, b \in Carried : Let(a, b) \in Living => Let(a, b) \in Meek
  /\ \A n \in Norns : Take(n, Hand) \in Living => Take(n, Hand) \in Meek
  /\ \A b \in Carried : Take(Hand, b) \in Living /\ Fit(b) => Take(Hand, b) \in Meek
<1>1. /\ \A a, b, c, d : /\ Take(a, b) # Let(c, d)
                         /\ Take(a, b) = Take(c, d) <=> a = c /\ b = d
                         /\ Let(a, b) = Let(c, d) <=> a = c /\ b = d
  BY EventsAre, Zenon
<1>2. /\ \A x \in Objects : x # Hand
      /\ Carried \subseteq Objects /\ Norns \subseteq Carried
  BY PartiesAre, Zenon
<1> QED  BY <1>1, <1>2, NoticesAre DEF Meek

LEMMA HandIsAsked ==
  ASSUME RidesInv, HandInv, NEW more \in Seq(Meek), queue' = queue \o more,
         UNCHANGED <<mode, life, shown, astray>>
  PROVE  HandInv'
<1>1. /\ queue \in Seq(Living) /\ shown \in BOOLEAN
  BY DEF RidesInv
<1>2. InHand' = InHand /\ InHand \in SUBSET Carried
  BY DEF InHand
<1>3. \A e : Waits(queue', e) <=> Waits(queue, e) \/ Waits(more, e)
  BY <1>1, MeekAre, WaitsIn, Zenon
<1> SUFFICES ASSUME ~astray PROVE (Parked /\ OneInHand /\ Follows(queue, InHand, shown))'
  BY DEF HandInv
<1>4. Parked /\ OneInHand /\ Follows(queue, InHand, shown)
  BY DEF HandInv
<1>5. Parked'
  BY <1>3, <1>4, MeekAre DEF Parked, Fit, Take
<1>6. Follows(queue', InHand, shown)
  BY <1>1, <1>2, <1>4, MeekAre, QuietMore
<1>7. Follows(queue, InHand, shown)'
  BY <1>2, <1>6 DEF Follows, Left, Empty, Full, Hung, Taken, Shows, Back, Take, Let, MadeGood, Waits, Event
<1>8. OneInHand'
  BY <1>2, <1>4 DEF OneInHand
<1> QED  BY <1>5, <1>7, <1>8

LEMMA LiveOf ==
  ASSUME RidesInv, NEW more \in Seq(Living)
  PROVE  /\ queue \in Seq(Living) /\ shown \in BOOLEAN /\ draining \in BOOLEAN
         /\ draining => queue # <<>>
         /\ InHand \in SUBSET Carried /\ \A x \in Carried : mode[x] = "hand" <=> x \in InHand
BY DEF RidesInv, Phase, InHand

LEMMA AsksKeepHand ==
  ASSUME RidesInv, HandInv,
         \/ \E x \in Carried : Click(x) \/ ClickCarried(x)
         \/ \E n \in Norns, x \in Things \union {Hand} : NornTakes(n, x)
         \/ \E n \in Norns : NornDrops(n)
         \/ \E v \in Vehicles, S \in SUBSET Norns : Gather(v, S)
  PROVE  HandInv'
<1>1. ASSUME NEW x \in Carried, Click(x) \/ ClickCarried(x) PROVE HandInv'
  <2>1. Exists(x) /\ Fit(x) /\ x \in Parties /\ x \in Objects /\ Hand \in Parties /\ x # Hand
    BY <1>1, PartiesAre DEF Click, ClickCarried, Exists, Fit
  <2>2. Take(Hand, x) \in Living /\ Let(x, x) \in Living
    BY <2>1, EventsAre
  <2>3. Take(Hand, x) \in Meek /\ Let(x, x) \in Meek
    BY <2>1, <2>2, MeekEvents
  <2>4. \E more \in Seq(Meek) : queue' = queue \o more
    BY <1>1, <2>3, MeekFew DEF Click, ClickCarried, Queues
  <2> QED  BY <1>1, <2>4, HandIsAsked DEF Click, ClickCarried
<1>2. ASSUME NEW n \in Norns, NEW x \in Things \union {Hand}, NornTakes(n, x) PROVE HandInv'
  <2>1. /\ Exists(n) /\ (x = Hand \/ Exists(x)) /\ n \in Parties /\ n \in Objects
        /\ n \notin Vehicles /\ (x = Hand \/ x \in Carried)
    BY <1>2, PartiesAre DEF NornTakes, Exists
  <2>2. Take(n, x) \in Living
    BY <2>1, EventsAre
  <2>3. Take(n, x) \in Meek
    BY <2>1, <2>2, MeekEvents
  <2>4. \E more \in Seq(Meek) : queue' = queue \o more
    BY <1>2, <2>3, MeekFew DEF NornTakes, Queues
  <2> QED  BY <1>2, <2>4, HandIsAsked DEF NornTakes
<1>3. ASSUME NEW n \in Norns, NornDrops(n) PROVE HandInv'
  <2> DEFINE S == {t \in Carried : ref[t] = n}
  <2>1. Exists(n) /\ n \in Parties /\ n # Nil
    BY <1>3, PartiesAre DEF NornDrops, Exists
  <2>2. \A x \in S : Let(n, x) \in Meek
    <3>1. \A x \in S : Exists(x) /\ x \in Carried /\ x # Hand
      BY <2>1, RefersExists, PartiesAre
    <3>2. \A x \in S : Let(n, x) \in Living
      BY <2>1, <3>1, EventsAre
    <3> QED  BY <2>1, <3>1, <3>2, MeekEvents
  <2>3. IsFiniteSet(S)
    <3>1. S \in SUBSET Carried
      OBVIOUS
    <3> QED  BY <3>1, PartiesAre, FS_Subset, Zenon
  <2> DEFINE more == [i \in 1 .. Cardinality(S) |-> Let(n, SetToSeq(S)[i])]
  <2>4. queue' = queue \o more /\ UNCHANGED <<mode, ref, life, shown, draining, astray>>
    BY <1>3 DEF NornDrops, Queues
  <2> HIDE DEF S
  <2>5. more \in Seq(Meek)
    BY <2>2, <2>3, LetEach, Zenon
  <2> QED  BY <2>4, <2>5, HandIsAsked
<1>4. ASSUME NEW v \in Vehicles, NEW S \in SUBSET Norns, Gather(v, S) PROVE HandInv'
  <2>1. Exists(v) /\ v \in Parties /\ v \in Objects
    BY <1>4, PartiesAre DEF Gather, Exists
  <2>2. \A x \in S : Take(v, x) \in Meek
    <3>1. \A x \in S : Exists(x) /\ x \in Carried /\ x # Hand
      BY <1>4, PartiesAre DEF Gather
    <3>2. \A x \in S : Take(v, x) \in Living
      BY <2>1, <3>1, EventsAre
    <3> QED  BY <2>1, <3>1, <3>2, MeekEvents
  <2>3. IsFiniteSet(S)
    BY PartiesAre, FS_Subset, Zenon
  <2> DEFINE more == [i \in 1 .. Cardinality(S) |-> Take(v, SetToSeq(S)[i])]
  <2>4. queue' = queue \o more /\ UNCHANGED <<mode, ref, life, shown, draining, astray>>
    BY <1>4 DEF Gather, Queues
  <2>5. more \in Seq(Meek)
    BY <2>2, <2>3, TakeEach, Zenon
  <2> QED  BY <2>4, <2>5, HandIsAsked
<1> QED  BY <1>1, <1>2, <1>3, <1>4

\* After a load the hand is told to show itself, if nothing hangs from it.
LEMMA LoadKeepsHand ==
  ASSUME RidesInv, HandInv, Load
  PROVE  HandInv'
<1>1. /\ InHand = {} /\ queue' = queue \o <<Take(Hand, Hand)>>
      /\ astray' = (astray /\ queue # <<>>) /\ UNCHANGED <<mode, ref, life, shown, draining>>
  BY DEF Load, Queues
<1> DEFINE more == <<Take(Hand, Hand)>>
<1>2. /\ \A e : Waits(more, e) <=> e = Take(Hand, Hand)
      /\ \A e : Waits(queue \o more, e) <=> Waits(queue, e) \/ Waits(more, e)
  <2>1. Take(Hand, Hand) \in Living
    BY EventsAre, PartiesAre
  <2>2. more \in Seq(Living) /\ queue \in Seq(Living)
    BY <2>1 DEF RidesInv
  <2>3. \A e : Waits(more, e) <=> e = Take(Hand, Hand)
    BY <2>2, WaitsIn, Zenon
  <2> HIDE DEF more
  <2>4. \A e : Waits(queue \o more, e) <=> Waits(queue, e) \/ Waits(more, e)
    BY <2>2, WaitsIn, Zenon
  <2> QED  BY <2>3, <2>4
<1>3. more \in Seq(Living) /\ queue \in Seq(Living) /\ shown \in BOOLEAN
  BY EventsAre, PartiesAre DEF RidesInv
<1> HIDE DEF more
<1>4. InHand' = {}
  BY <1>1 DEF InHand
<1> SUFFICES ASSUME ~astray' PROVE (Parked /\ OneInHand /\ Follows(queue, InHand, shown))'
  BY <1>1 DEF HandInv
<1>5. \A x \in Carried : Take(Hand, x) # Take(Hand, Hand)
  BY EventsAre, PartiesAre
<1>6. Parked /\ Left(queue, {})
  <2>1. CASE ~astray
    BY <1>1, <2>1 DEF HandInv, Follows
  <2>2. CASE astray
    <3>1. queue = <<>>
      BY <1>1, <2>2
    <3>2. \A e : ~Waits(queue, e)
      BY <3>1 DEF Waits
    <3>3. \A x \in Carried : mode[x] # "hand"
      BY <1>1 DEF InHand
    <3> QED  BY <3>1, <3>2, <3>3 DEF Parked, Left, MadeGood
  <2> QED  BY <2>1, <2>2
<1>7. Parked'
  BY <1>1, <1>2, <1>5, <1>6 DEF Parked, more, Take
<1>8. Follows(queue \o more, {}, shown)
  <2>1. \A y \in Carried : ~Waits(more, Let(y, Hand))
    BY <1>2, EventsAre
  <2> DEFINE I == {}
  <2>2. I \in SUBSET Carried /\ I \subseteq {Hand} /\ Left(queue, I)
    BY <1>6
  <2> HIDE DEF I
  <2> QED  BY <1>2, <1>3, <2>1, <2>2, NoticesAre, HandIsLeft
<1>9. Follows(queue, InHand, shown)'
  BY <1>1, <1>4, <1>8 DEF Follows, Left, Empty, Full, Hung, Taken, Shows, Back, Take, Let, MadeGood, Waits, Event, more
<1>10. OneInHand'
  BY <1>4 DEF OneInHand
<1> QED  BY <1>7, <1>9, <1>10

\* What a vehicle will not take any more is not what the hand is told.
LEMMA AllOffKeepsHand ==
  ASSUME RidesInv, HandInv, NEW v \in Vehicles, AllOff(v)
  PROVE  HandInv'
<1> DEFINE gone == {e \in Event : e.from = v /\ e.kind = "take"}
           left == Without(queue, gone)
           S == {n \in Norns : ref[n] = v}
           more == [i \in 1 .. Cardinality(S) |-> Let(v, SetToSeq(S)[i])]
<1>1. /\ life[v] = "ticks" /\ queue' = left \o more /\ UNCHANGED <<mode, ref, life, shown>>
      /\ astray' = (astray \/ \E n \in InHand : Take(v, n) \in ToSet(queue))
  BY DEF AllOff
<1>2. queue \in Seq(Living) /\ shown \in BOOLEAN /\ InHand \in SUBSET Carried
  BY DEF RidesInv, InHand
<1>3. /\ Exists(v) /\ v \in Parties /\ v # Nil /\ v \in Objects /\ v # Hand
      /\ v \notin Carried
  BY <1>1, PartiesAre DEF Exists
<1>4. IsFiniteSet(S)
  <2>1. S \in SUBSET Norns
    OBVIOUS
  <2> QED  BY <2>1, PartiesAre, FS_Subset, Zenon
<1>5. \A x \in S : Let(v, x) \in Meek
  <2>1. \A x \in S : Exists(x) /\ x \in Carried /\ x # Hand
    BY <1>3, PartiesAre, RefersExists
  <2>2. \A x \in S : Let(v, x) \in Living
    BY <1>3, <2>1, EventsAre
  <2> QED  BY <1>3, <2>1, <2>2, MeekEvents
<1>6. /\ \A a, b : Let(a, b) \notin gone
      /\ \A a, b : Take(a, b) \in gone => a = v
      /\ \A e \in Living \intersect Shows : e \notin gone
      /\ \A x \in Carried : Back(x) \intersect gone = {}
  BY <1>3, PartiesAre DEF Let, Take, Shows, Back
<1> HIDE DEF S, gone
<1>7. left \in Seq(Living) /\ \A y : Waits(left, y) <=> y \notin gone /\ Waits(queue, y)
  BY <1>2, WithoutIsSeq, WithoutKeeps, Zenon DEF Waits
<1>8. more \in Seq(Meek)
  BY <1>4, <1>5, LetEach, Zenon
<1> SUFFICES ASSUME ~astray' PROVE (Parked /\ OneInHand /\ Follows(queue, InHand, shown))'
  BY <1>1 DEF HandInv
<1>9. Parked /\ OneInHand /\ Follows(queue, InHand, shown)
  BY <1>1 DEF HandInv
<1>10. \A n \in InHand : ~Waits(queue, Take(v, n))
  <2>1. \A e : Waits(queue, e) => e \in ToSet(queue)
    BY <1>2 DEF ToSet, Waits
  <2> QED  BY <1>1, <2>1
<1>11. Follows(left, InHand, shown)
  <2>1. Left(left, InHand)
    <3> SUFFICES ASSUME NEW y \in Carried \ InHand PROVE MadeGood(left, {Let(y, Hand)}, Back(y))
      BY DEF Left
    <3> DEFINE A == {Let(y, Hand)}
    <3>1. MadeGood(queue, A, Back(y)) /\ A \intersect Back(y) = {} /\ Back(y) \intersect gone = {}
      BY <1>6, <1>9, NoticesAre DEF Follows, Left
    <3> HIDE DEF A
    <3>2. MadeGood(left, A, Back(y))
      BY <1>2, <3>1, MadeGoodWithout, Zenon
    <3> QED  BY <3>2 DEF A
  <2>2. Empty(left, InHand, shown)
    <3>1. \A e : Waits(queue, e) => e \in Living
      BY <1>2 DEF Waits
    <3> QED  BY <1>6, <1>7, <1>9, <3>1 DEF Follows, Empty
  <2>3. Full(left, InHand, shown)
    <3> SUFFICES ASSUME NEW x \in InHand, ~Taken(left, x) PROVE Hung(left, x, shown)
      BY DEF Full
    <3>1. ~Taken(queue, x)
      BY <1>6, <1>7, <1>10 DEF Taken
    <3>2. Hung(queue, x, shown)
      BY <1>9, <3>1 DEF Follows, Full
    <3> DEFINE B == {Let(x, Hand)}
    <3>3. MadeGood(queue, Shows, B) /\ Shows \intersect B = {} /\ B \intersect gone = {}
      BY <1>6, <3>2, NoticesAre DEF Hung
    <3> HIDE DEF B
    <3>4. MadeGood(left, Shows, B)
      BY <1>2, <3>3, MadeGoodWithout, Zenon
    <3> QED  BY <1>6, <1>7, <3>2, <3>4 DEF Hung, B
  <2> QED  BY <2>1, <2>2, <2>3 DEF Follows
<1> HIDE DEF left, more
<1>12. more \in Seq(Living) /\ Quiet(more) /\ \A x \in Carried : Waits(more, Take(Hand, x)) => Fit(x)
  BY <1>8, MeekAre, Zenon
<1>13. Follows(left \o more, InHand, shown) /\ Follows(queue', InHand, shown)
  <2>1. Follows(left \o more, InHand, shown)
    BY <1>2, <1>7, <1>11, <1>12, QuietMore, Zenon
  <2> QED  BY <1>1, <2>1
<1>14. \A e : Waits(left \o more, e) <=> Waits(left, e) \/ Waits(more, e)
  BY <1>7, <1>12, WaitsIn, Zenon
<1>15. InHand' = InHand
  BY <1>1 DEF InHand
<1>16. Parked'
  BY <1>1, <1>7, <1>9, <1>12, <1>14 DEF Parked, Fit, Take
<1>17. Follows(queue, InHand, shown)'
  BY <1>1, <1>13, <1>15 DEF Follows, Left, Empty, Full, Hung, Taken, Shows, Back, Take, Let, MadeGood, Waits, Event
<1>18. OneInHand'
  BY <1>9, <1>15 DEF OneInHand
<1> QED  BY <1>16, <1>17, <1>18

-----------------------------------------------------------------------------
(* The hand, and moves and ends *)

\* Nothing comes into the hand or leaves it, and nothing more waits.
LEMMA HandStays ==
  ASSUME RidesInv, HandInv, InHand' = InHand, UNCHANGED <<shown, queue>>,
         astray => astray',
         \A n \in Norns : life'[n] # "killed",
         ~astray' => \A x \in Carried : life'[x] \in {"killed", "gone"} =>
           \/ life[x] \in {"killed", "gone"}
           \/ mode[x] # "hand" /\ ~Waits(queue, Take(Hand, x))
  PROVE  HandInv'
<1> SUFFICES ASSUME ~astray' PROVE (Parked /\ OneInHand /\ Follows(queue, InHand, shown))'
  BY DEF HandInv
<1>1. ~astray
  OBVIOUS
<1>2. Parked /\ OneInHand /\ Follows(queue, InHand, shown)
  BY <1>1 DEF HandInv
<1>3. \A x \in Carried : mode'[x] = "hand" <=> mode[x] = "hand"
  BY DEF InHand
<1>4. Parked'
  BY <1>2, <1>3 DEF Parked, Take, Waits
<1>5. Follows(queue', InHand, shown)
  BY <1>2
<1>6. Follows(queue, InHand, shown)'
  BY <1>5 DEF Follows, Left, Empty, Full, Hung, Taken, Shows, Back, Take, Let, MadeGood, Waits, Event
<1>7. OneInHand'
  BY <1>2 DEF OneInHand
<1> QED  BY <1>4, <1>6, <1>7

LEMMA MovesKeepHand ==
  ASSUME RidesInv, HandInv,
         \/ \E v \in Vehicles : Teleport(v)
         \/ \E x \in Carried : MoveTo(x)
         \/ \E t \in Things : Settle(t)
         \/ \E n \in Norns : Die(n)
         \/ BeginPhase
  PROVE  HandInv'
<1>1. /\ mode \in [Carried -> {"world", "hand", "held", "aboard"}]
      /\ ref \in [Carried -> Norns \union Vehicles \union {Nil}]
      /\ life \in [Objects -> {"ticks", "dead", "killed", "gone"}]
      /\ astray \in BOOLEAN
      /\ \A x \in InHand : x \in Carried /\ ref[x] = Nil
  BY DEF RidesInv, Placed, InHand
<1>2. \A n \in Norns : life[n] # "killed"
  BY DEF HandInv
<1>3. ASSUME NEW v \in Vehicles, Teleport(v) PROVE HandInv'
  <2>1. /\ mode' = [x \in Carried |-> IF x \in {n \in Norns : ref[n] = v} THEN "world" ELSE mode[x]]
        /\ UNCHANGED <<life, shown, queue, astray>> /\ v # Nil
    BY <1>3, PartiesAre DEF Teleport
  <2>2. InHand' = InHand
    BY <1>1, <2>1 DEF InHand
  <2> QED  BY <1>1, <1>2, <2>1, <2>2, HandStays
<1>4. ASSUME NEW x \in Carried, MoveTo(x) PROVE HandInv'
  <2>1. /\ mode' = [mode EXCEPT ![x] = "world"] /\ UNCHANGED <<life, shown, queue>>
        /\ astray' = (astray \/ x \in InHand)
    BY <1>4 DEF MoveTo, Put
  <2>2. CASE x \in InHand
    BY <1>2, <2>1, <2>2 DEF HandInv
  <2>3. CASE x \notin InHand
    <3>1. InHand' = InHand
      BY <1>1, <2>1, <2>3 DEF InHand
    <3> QED  BY <1>1, <1>2, <2>1, <2>3, <3>1, HandStays
  <2> QED  BY <2>2, <2>3
<1>5. ASSUME NEW t \in Things, Settle(t) PROVE HandInv'
  <2>1. /\ mode' = [mode EXCEPT ![t] = "world"] /\ UNCHANGED <<life, shown, queue, astray>>
        /\ mode[t] = "held"
    BY <1>5 DEF Settle, Put
  <2>2. InHand' = InHand
    BY <1>1, <2>1 DEF InHand
  <2> QED  BY <1>1, <1>2, <2>1, <2>2, HandStays
<1>6. ASSUME NEW n \in Norns, Die(n) PROVE HandInv'
  <2>1. /\ life' = [life EXCEPT ![n] = "dead"] /\ life[n] = "ticks"
        /\ UNCHANGED <<mode, shown, queue, astray>> /\ n \in Objects
        /\ Norns \subseteq Objects /\ Carried \subseteq Objects
    BY <1>6, PartiesAre DEF Die
  <2>2. InHand' = InHand
    BY <2>1 DEF InHand
  <2>3. /\ \A x \in Carried : life'[x] \in {"killed", "gone"} => life[x] \in {"killed", "gone"}
        /\ \A m \in Norns : life'[m] # "killed"
    BY <1>1, <1>2, <2>1
  <2> QED  BY <1>1, <2>1, <2>2, <2>3, HandStays
<1>7. CASE BeginPhase
  <2>1. UNCHANGED <<mode, life, shown, queue, astray>>
    BY <1>7 DEF BeginPhase
  <2>2. InHand' = InHand
    BY <2>1 DEF InHand
  <2> QED  BY <1>1, <1>2, <2>1, <2>2, HandStays
<1> QED  BY <1>3, <1>4, <1>5, <1>6, <1>7

\* The hand shows itself when what hangs from it ends.
LEMMA HandIsFreed ==
  ASSUME NEW q \in Seq(Living), NEW x \in Carried, NEW I \in SUBSET Carried, I \subseteq {x},
         Left(q, I), ~Waits(q, Let(x, Hand))
  PROVE  Follows(q, {}, TRUE)
<1>1. Left(q, {})
  <2> SUFFICES ASSUME NEW y \in Carried PROVE MadeGood(q, {Let(y, Hand)}, Back(y))
    BY DEF Left
  <2>1. CASE y = x
    BY <2>1 DEF MadeGood, Waits
  <2>2. CASE y # x
    BY <2>2 DEF Left
  <2> QED  BY <2>1, <2>2
<1> QED  BY <1>1 DEF Follows, Empty, Full

LEMMA KillKeepsHand ==
  ASSUME RidesInv, HandInv, NEW x \in Objects, Kill(x)
  PROVE  HandInv'
<1>1. /\ life' = [life EXCEPT ![x] = "killed"] /\ LetGo(x) /\ UNCHANGED <<queue, draining>>
      /\ astray' = (astray \/ Take(Hand, x) \in ToSet(queue) \/ Let(x, Hand) \in ToSet(queue))
      /\ x \in Things \union Vehicles
  BY DEF Kill
<1>2. /\ queue \in Seq(Living) /\ life \in [Objects -> {"ticks", "dead", "killed", "gone"}]
      /\ mode \in [Carried -> {"world", "hand", "held", "aboard"}]
      /\ InHand \in SUBSET Carried
      /\ Norns \subseteq Objects /\ Carried \subseteq Objects /\ x \notin Norns
      /\ astray \in BOOLEAN /\ shown \in BOOLEAN
  BY <1>1, PartiesAre DEF RidesInv, Placed, InHand
<1>3. /\ \A n \in Norns : life'[n] # "killed"
      /\ \A y \in Carried : life'[y] \in {"killed", "gone"} => y = x \/ life[y] \in {"killed", "gone"}
  BY <1>1, <1>2 DEF HandInv
<1>4. \A e : Waits(queue, e) => e \in ToSet(queue)
  BY <1>2 DEF ToSet, Waits
<1>5. CASE x \notin InHand
  <2>1. InHand' = InHand /\ shown' = shown
    BY <1>1, <1>5 DEF LetGo, Stays, InHand
  <2>2. ~astray' => ~Waits(queue, Take(Hand, x))
    BY <1>1, <1>4
  <2>3. x \in Carried => mode[x] # "hand"
    BY <1>5 DEF InHand
  <2> QED  BY <1>1, <1>2, <1>3, <2>1, <2>2, <2>3, HandStays
<1>6. CASE x \in InHand
  <2>1. shown' = TRUE /\ mode' = [mode EXCEPT ![x] = "world"]
    BY <1>1, <1>6 DEF LetGo, Put
  <2> SUFFICES ASSUME ~astray' PROVE (Parked /\ OneInHand /\ Follows(queue, InHand, shown))'
    BY <1>3 DEF HandInv
  <2>2. /\ Parked /\ OneInHand /\ Follows(queue, InHand, shown)
        /\ ~Waits(queue, Take(Hand, x)) /\ ~Waits(queue, Let(x, Hand))
    BY <1>1, <1>4 DEF HandInv
  <2>3. InHand \subseteq {x} /\ InHand' = {}
    BY <1>2, <1>6, <2>1, <2>2 DEF OneInHand, InHand
  <2>4. Follows(queue, {}, TRUE) /\ Follows(queue', {}, TRUE)
    <3>1. Follows(queue, {}, TRUE)
      BY <1>2, <1>6, <2>2, <2>3, HandIsFreed DEF Follows
    <3> QED  BY <1>1, <3>1
  <2>5. Parked'
    <3>1. \A y \in Carried : mode'[y] = IF y = x THEN "world" ELSE mode[y]
      BY <1>2, <2>1
    <3> QED  BY <1>1, <1>3, <2>2, <3>1 DEF Parked, Take, Waits
  <2>6. Follows(queue, InHand, shown)'
    BY <2>1, <2>3, <2>4 DEF Follows, Left, Empty, Full, Hung, Taken, Shows, Back, Take, Let, MadeGood, Waits, Event
  <2>7. OneInHand'
    BY <2>3 DEF OneInHand
  <2> QED  BY <2>5, <2>6, <2>7
<1> QED  BY <1>5, <1>6

\* What was killed does not hang from the hand, so a save leaves the hand as it is.
LEMMA ReapKeepsHand ==
  ASSUME RidesInv, HandInv, NEW x \in Objects, Reap(x)
  PROVE  HandInv'
<1>1. /\ life' = [life EXCEPT ![x] = "gone"] /\ UNCHANGED <<shown, queue, astray>>
      /\ mode' = [y \in Carried |-> IF y = x THEN "world" ELSE mode[y]]
      /\ life[x] = "killed"
  BY DEF Reap
<1>2. /\ life \in [Objects -> {"ticks", "dead", "killed", "gone"}]
      /\ mode \in [Carried -> {"world", "hand", "held", "aboard"}]
      /\ Norns \subseteq Objects /\ Carried \subseteq Objects /\ astray \in BOOLEAN
  BY PartiesAre DEF RidesInv, Placed
<1>3. /\ \A n \in Norns : life'[n] # "killed"
      /\ \A y \in Carried : life'[y] \in {"killed", "gone"} => life[y] \in {"killed", "gone"}
  BY <1>1, <1>2 DEF HandInv
<1>4. CASE astray
  BY <1>1, <1>3, <1>4 DEF HandInv
<1>5. CASE ~astray
  <2>1. x \notin InHand
    BY <1>1, <1>5 DEF HandInv, Parked, InHand
  <2>2. InHand' = InHand
    BY <1>1, <1>2, <2>1 DEF InHand
  <2> QED  BY <1>1, <1>2, <1>3, <2>2, HandStays
<1> QED  BY <1>4, <1>5

\* A norn that goes takes along what the hand was to be told of it.
LEMMA DeleteKeepsHand ==
  ASSUME RidesInv, HandInv, NEW n \in Norns, Delete(n)
  PROVE  HandInv'
<1> DEFINE gone == {e \in Event : n \in {e.from, e.to}}
<1>1. /\ life' = [life EXCEPT ![n] = "gone"] /\ mode' = [mode EXCEPT ![n] = "world"]
      /\ queue' = Without(queue, gone) /\ astray' = astray
      /\ shown' = (shown \/ n \in InHand)
  BY DEF Delete, Purged
<1>2. /\ queue \in Seq(Living) /\ life \in [Objects -> {"ticks", "dead", "killed", "gone"}]
      /\ mode \in [Carried -> {"world", "hand", "held", "aboard"}]
      /\ InHand \in SUBSET Carried /\ shown \in BOOLEAN
      /\ Norns \subseteq Objects /\ Carried \subseteq Objects /\ n \in Carried
  BY PartiesAre DEF RidesInv, Placed, InHand
<1>3. /\ \A m \in Norns : life'[m] # "killed"
      /\ \A y \in Carried : life'[y] \in {"killed", "gone"} => y = n \/ life[y] \in {"killed", "gone"}
  BY <1>1, <1>2 DEF HandInv
<1>4. /\ \A y \in Carried : y # n => Let(y, Hand) \notin gone /\ Back(y) \intersect gone = {}
      /\ \A y \in Carried, v \in Vehicles : y # n => Take(v, y) \notin gone
      /\ Shows \intersect gone = {}
      /\ \A e \in Living : e = Let(n, Hand) \/ e = Take(Hand, n) => e \in gone
  <2>1. /\ n # Hand /\ n \notin Things /\ \A v \in Vehicles : n # v
    BY <1>2, PartiesAre
  <2>2. \A a, b : /\ Take(a, b).from = a /\ Take(a, b).to = b
                  /\ Let(a, b).from = a /\ Let(a, b).to = b
    BY EventsAre, Zenon
  <2> QED  BY <2>1, <2>2 DEF Shows, Back, Living
<1>5. \A e : Waits(queue, e) => e \in Living
  BY <1>2 DEF Waits
<1> HIDE DEF gone
<1>6. \A y : Waits(Without(queue, gone), y) <=> y \notin gone /\ Waits(queue, y)
  BY <1>2, WithoutKeeps, Zenon DEF Waits
<1> DEFINE q == Without(queue, gone)
<1>7. q \in Seq(Living)
  BY <1>2, WithoutIsSeq, Zenon
<1> SUFFICES ASSUME ~astray PROVE (Parked /\ OneInHand /\ Follows(queue, InHand, shown))'
  BY <1>1, <1>3 DEF HandInv
<1>8. Parked /\ OneInHand /\ Follows(queue, InHand, shown)
  BY DEF HandInv
<1>9. \A y \in Carried : mode'[y] = IF y = n THEN "world" ELSE mode[y]
  BY <1>1, <1>2
<1>10. Parked'
  BY <1>1, <1>3, <1>4, <1>5, <1>6, <1>8, <1>9 DEF Parked, Take
<1>11. InHand' = InHand \ {n} /\ (n \in InHand => InHand \subseteq {n} /\ InHand' = {})
  BY <1>8, <1>9 DEF InHand, OneInHand
<1>12. Left(q, InHand) /\ ~Waits(q, Let(n, Hand))
  <2>1. ~Waits(q, Let(n, Hand))
    BY <1>4, <1>5, <1>6
  <2> SUFFICES ASSUME NEW y \in Carried \ InHand PROVE MadeGood(q, {Let(y, Hand)}, Back(y))
    BY <2>1 DEF Left
  <2>2. CASE y = n
    BY <2>1, <2>2 DEF MadeGood, Waits
  <2>3. CASE y # n
    <3> DEFINE A == {Let(y, Hand)}
    <3>1. MadeGood(queue, A, Back(y)) /\ A \intersect Back(y) = {} /\ Back(y) \intersect gone = {}
      BY <1>4, <1>8, <2>3, NoticesAre DEF Follows, Left
    <3> HIDE DEF A
    <3>2. MadeGood(q, A, Back(y))
      BY <1>2, <3>1, MadeGoodWithout, Zenon
    <3> QED  BY <3>2 DEF A
  <2> QED  BY <2>2, <2>3
<1> HIDE DEF q
<1>13. CASE n \in InHand
  <2>1. Follows(q, {}, TRUE)
    BY <1>2, <1>7, <1>11, <1>12, <1>13, HandIsFreed
  <2>2. Follows(queue', {}, TRUE)
    BY <1>1, <2>1 DEF q
  <2>3. Follows(queue, InHand, shown)'
    BY <1>1, <1>11, <1>13, <2>2 DEF Follows, Left, Empty, Full, Hung, Taken, Shows, Back, Take, Let, MadeGood, Waits, Event
  <2>4. OneInHand'
    BY <1>11, <1>13 DEF OneInHand
  <2> QED  BY <1>10, <2>3, <2>4
<1>14. CASE n \notin InHand
  <2>1. InHand' = InHand /\ shown' = shown
    BY <1>1, <1>2, <1>11, <1>14
  <2>2. Empty(q, InHand, shown)
    BY <1>4, <1>6, <1>8 DEF Follows, Empty, q
  <2>3. Full(q, InHand, shown)
    <3> SUFFICES ASSUME NEW x \in InHand, ~Taken(q, x) PROVE Hung(q, x, shown)
      BY DEF Full
    <3>1. x # n /\ x \in Carried
      BY <1>2, <1>14
    <3>2. ~Taken(queue, x)
      BY <1>4, <1>6, <3>1 DEF Taken, q
    <3>3. Hung(queue, x, shown)
      BY <1>8, <3>2 DEF Follows, Full
    <3> DEFINE B == {Let(x, Hand)}
    <3>4. MadeGood(queue, Shows, B) /\ Shows \intersect B = {} /\ B \intersect gone = {}
      BY <1>4, <3>1, <3>3, NoticesAre DEF Hung
    <3> HIDE DEF B
    <3>5. MadeGood(Without(queue, gone), Shows, B)
      BY <1>2, <3>4, MadeGoodWithout, Zenon
    <3> QED  BY <1>4, <1>6, <3>1, <3>3, <3>5 DEF Hung, B, q
  <2>4. Follows(queue', InHand, shown)
    BY <1>1, <1>12, <2>2, <2>3 DEF Follows, q
  <2>5. Follows(queue, InHand, shown)'
    BY <2>1, <2>4 DEF Follows, Left, Empty, Full, Hung, Taken, Shows, Back, Take, Let, MadeGood, Waits, Event
  <2>6. OneInHand'
    BY <1>8, <2>1 DEF OneInHand
  <2> QED  BY <1>10, <2>5, <2>6
<1> QED  BY <1>13, <1>14

-----------------------------------------------------------------------------
(* The hand, and the event phase *)

\* What a handler leaves of the things said before, and adds.
LEMMA HandledParks ==
  ASSUME RidesInv, HandInv, draining, ~astray, NEW events \in Seq(Living), Handled(events),
         \A x \in Carried : Waits(events, Take(Hand, x)) => Fit(x),
         \A x \in Carried : mode'[x] = "hand" => mode[x] = "hand" \/ Fit(x)
  PROVE  /\ Parked' /\ queue' = Tail(queue) \o events
         /\ queue \in Seq(Living) /\ queue # <<>> /\ Tail(queue) \in Seq(Living)
         /\ Left(Tail(queue), InHand) /\ InHand \in SUBSET Carried
<1>1. /\ queue \in Seq(Living) /\ queue # <<>> /\ queue' = Tail(queue) \o events /\ life' = life
  BY DEF RidesInv, Phase, Handled
<1>2. Parked /\ Left(queue, InHand) /\ InHand \in SUBSET Carried
  BY DEF HandInv, Follows, InHand
<1>3. Tail(queue) \in Seq(Living) /\ \A e : Waits(Tail(queue), e) => Waits(queue, e)
  BY <1>1, WaitsInTail, Zenon
<1>4. \A e : Waits(queue', e) => Waits(Tail(queue), e) \/ Waits(events, e)
  BY <1>1, <1>3, WaitsIn, Zenon
<1>5. Left(Tail(queue), InHand)
  BY <1>1, <1>2, LeftTail, Zenon
<1>6. Parked'
  BY <1>1, <1>2, <1>3, <1>4 DEF Parked, Fit, Take
<1> QED  BY <1>1, <1>2, <1>3, <1>5, <1>6

LEMMA HandFollows ==
  ASSUME HandInv, life' = life, Parked', OneInHand', Follows(queue', InHand', shown')
  PROVE  HandInv'
<1>1. Follows(queue, InHand, shown)'
  BY DEF Follows, Left, Empty, Full, Hung, Taken, Shows, Back, Take, Let, MadeGood, Waits, Event
<1> QED  BY <1>1 DEF HandInv

\* Nothing comes into the hand or leaves it.
LEMMA QuietHandled ==
  ASSUME RidesInv, HandInv, draining, NEW more \in Seq(Meek), Handled(more),
         astray => astray', shown' = shown,
         queue[1] \notin Shows, \A x \in Carried : queue[1] # Let(x, Hand),
         ~astray' => /\ InHand' = InHand
                     /\ \A v \in Vehicles, x \in InHand : queue[1] # Take(v, x)
  PROVE  HandInv'
<1>1. CASE astray'
  BY <1>1 DEF HandInv, Handled
<1>2. CASE ~astray'
  <2>1. more \in Seq(Living) /\ Quiet(more) /\ \A x \in Carried : Waits(more, Take(Hand, x)) => Fit(x)
    BY MeekAre, Zenon
  <2>2. ~astray /\ InHand' = InHand /\ shown \in BOOLEAN
    BY <1>2 DEF RidesInv
  <2>3. \A x \in Carried : mode'[x] = "hand" => mode[x] = "hand"
    BY <2>2 DEF InHand
  <2>4. /\ Parked' /\ queue' = Tail(queue) \o more
        /\ queue \in Seq(Living) /\ queue # <<>> /\ Tail(queue) \in Seq(Living)
        /\ InHand \in SUBSET Carried
    BY <2>1, <2>2, <2>3, HandledParks
  <2>5. OneInHand /\ Follows(queue, InHand, shown)
    BY <2>2 DEF HandInv
  <2>6. Follows(Tail(queue), InHand, shown)
    BY <1>2, <2>2, <2>4, <2>5, QuietFirst
  <2>7. Follows(queue', InHand, shown)
    BY <2>1, <2>2, <2>4, <2>6, QuietMore
  <2>8. OneInHand'
    BY <2>2, <2>5 DEF OneInHand
  <2> QED  BY <2>2, <2>4, <2>7, <2>8, HandFollows DEF Handled
<1> QED  BY <1>1, <1>2

\* What hangs from the hand, x, leaves it and says so.
LEMMA LeavingHandled ==
  ASSUME RidesInv, HandInv, draining, NEW events \in Seq(Living), Handled(events),
         astray' = astray, shown' = shown,
         NEW x \in InHand, NEW where, where # "hand", mode' = [mode EXCEPT ![x] = where],
         NEW b \in Back(x), Waits(events, b),
         \A y \in Carried : ~Waits(events, Let(y, Hand)) /\ ~Waits(events, Take(Hand, y))
  PROVE  HandInv'
<1>1. CASE astray
  BY <1>1 DEF HandInv, Handled
<1>2. CASE ~astray
  <2>1. \A y \in Carried : mode'[y] = IF y = x THEN where ELSE mode[y]
    BY DEF RidesInv, Placed
  <2>2. InHand \subseteq {x} /\ InHand' = {} /\ shown \in BOOLEAN
    BY <1>2, <2>1 DEF HandInv, OneInHand, InHand, RidesInv
  <2>3. /\ Parked' /\ queue' = Tail(queue) \o events
        /\ Tail(queue) \in Seq(Living)
        /\ Left(Tail(queue), InHand) /\ InHand \in SUBSET Carried
    BY <1>2, <2>1, HandledParks
  <2>4. Follows(queue', {}, shown)
    BY <2>2, <2>3, HandIsLeft
  <2>5. OneInHand'
    BY <2>2 DEF OneInHand
  <2> QED  BY <2>2, <2>3, <2>4, <2>5, HandFollows DEF Handled
<1> QED  BY <1>1, <1>2

\* x comes into the hand, in which there is nothing else, and says so.
LEMMA EnteringHandled ==
  ASSUME RidesInv, HandInv, draining, NEW events \in Seq(Living), Handled(events),
         NEW x \in Carried, astray => astray', ~astray' => InHand \subseteq {x}, shown' = shown,
         mode' = [mode EXCEPT ![x] = "hand"], ~astray => Fit(x),
         Waits(events, Let(x, Hand)), \A e \in Shows : ~Waits(events, e),
         \A y \in Carried : /\ Waits(events, Let(y, Hand)) => y = x
                            /\ ~Waits(events, Take(Hand, y))
  PROVE  HandInv'
<1>1. CASE astray'
  BY <1>1 DEF HandInv, Handled
<1>2. CASE ~astray'
  <2>1. \A y \in Carried : mode'[y] = IF y = x THEN "hand" ELSE mode[y]
    BY DEF RidesInv, Placed
  <2>2. InHand \subseteq {x} /\ InHand' = {x} /\ shown \in BOOLEAN /\ ~astray
    BY <1>2, <2>1 DEF InHand, RidesInv
  <2>3. /\ Parked' /\ queue' = Tail(queue) \o events
        /\ Tail(queue) \in Seq(Living)
        /\ Left(Tail(queue), InHand) /\ InHand \in SUBSET Carried
    BY <2>1, <2>2, HandledParks
  <2>4. Follows(queue', {x}, shown)
    BY <2>2, <2>3, HandIsEntered
  <2>5. OneInHand'
    BY <2>2 DEF OneInHand
  <2> QED  BY <2>2, <2>3, <2>4, <2>5, HandFollows DEF Handled
<1> QED  BY <1>1, <1>2

\* x hangs on, until the vehicle below it takes it.
LEMMA RelievedHandled ==
  ASSUME RidesInv, HandInv, draining, NEW events \in Seq(Living), Handled(events),
         astray' = astray, shown' = shown,
         NEW x \in InHand, mode' = [mode EXCEPT ![x] = "hand"], Taken(events, x),
         \A y \in Carried : ~Waits(events, Let(y, Hand)) /\ ~Waits(events, Take(Hand, y))
  PROVE  HandInv'
<1>1. CASE astray
  BY <1>1 DEF HandInv, Handled
<1>2. CASE ~astray
  <2>1. \A y \in Carried : mode'[y] = IF y = x THEN "hand" ELSE mode[y]
    BY DEF RidesInv, Placed
  <2>2. InHand = {x} /\ InHand' = {x} /\ shown \in BOOLEAN
    BY <1>2, <2>1 DEF HandInv, OneInHand, InHand, RidesInv
  <2>3. \A y \in Carried : mode'[y] = "hand" => mode[y] = "hand"
    BY <2>1 DEF InHand
  <2>4. /\ Parked' /\ queue' = Tail(queue) \o events
        /\ Tail(queue) \in Seq(Living)
        /\ Left(Tail(queue), InHand) /\ InHand \in SUBSET Carried
    BY <1>2, <2>3, HandledParks
  <2>5. Follows(queue', InHand, shown)
    BY <2>2, <2>4, HandIsRelieved
  <2>6. OneInHand'
    BY <2>2 DEF OneInHand
  <2> QED  BY <2>2, <2>4, <2>5, <2>6, HandFollows DEF Handled
<1> QED  BY <1>1, <1>2

LEMMA SaysFirst ==
  ASSUME RidesInv, draining
  PROVE  /\ queue \in Seq(Living) /\ queue # <<>> /\ queue[1] \in Living /\ Waits(queue, queue[1])
         /\ \A a, b : b # Hand /\ (queue[1] = Take(a, b) \/ queue[1] = Let(a, b))
              => queue[1] \notin Shows /\ \A x \in Carried : queue[1] # Let(x, Hand)
<1>1. queue \in Seq(Living) /\ queue # <<>>
  BY DEF RidesInv, Phase
<1>2. queue[1] \in Living /\ 1 \in 1 .. Len(queue)
  BY <1>1
<1>3. Waits(queue, queue[1])
  BY <1>2, Zenon DEF Waits
<1>4. \A a, b : b # Hand => Take(a, b) \notin Shows /\ Let(a, b) \notin Shows
  BY NoticesAre
<1>5. \A a, b, x : b # Hand => Take(a, b) # Let(x, Hand) /\ Let(a, b) # Let(x, Hand)
  BY EventsAre
<1>6. ASSUME NEW a, NEW b, b # Hand, queue[1] = Take(a, b) \/ queue[1] = Let(a, b)
      PROVE  queue[1] \notin Shows /\ \A x \in Carried : queue[1] # Let(x, Hand)
  BY <1>4, <1>5, <1>6
<1> QED  BY <1>1, <1>2, <1>3, <1>6

\* Someone who does not hang from the hand is put elsewhere.
LEMMA HandIsSpared ==
  ASSUME RidesInv, NEW x \in Carried, x \notin InHand, NEW where, where # "hand",
         mode' = [mode EXCEPT ![x] = where]
  PROVE  InHand' = InHand
<1>1. \A y \in Carried : mode'[y] = IF y = x THEN where ELSE mode[y]
  BY DEF RidesInv, Placed
<1> QED  BY <1>1 DEF InHand

LEMMA HandTakesThingKeepsHand ==
  ASSUME RidesInv, HandInv, draining, NEW t \in Things, HandTakesThing(t)
  PROVE  HandInv'
<1>1. /\ queue[1] = Take(Hand, t) /\ t \in Carried /\ t # Hand /\ Exists(t) /\ t \in Parties
      /\ UNCHANGED <<shown, astray>> /\ astray \in BOOLEAN /\ \A v \in Vehicles : v # Hand
  BY PartiesAre, FirstLives DEF HandTakesThing, RidesInv
<1>2. queue[1] \notin Shows /\ \A x \in Carried : queue[1] # Let(x, Hand)
  BY <1>1, SaysFirst
<1>3. CASE InHand # {}
  <2>1. Handled(<<>>) /\ InHand' = InHand
    BY <1>3 DEF HandTakesThing, Stays, InHand
  <2>2. \A v \in Vehicles, x \in InHand : queue[1] # Take(v, x)
    BY <1>1, EventsAre
  <2> QED  BY <1>1, <1>2, <2>1, <2>2, MeekFew, QuietHandled
<1>4. CASE InHand = {}
  <2> DEFINE events == <<Let(t, Hand)>>
  <2>1. Let(t, Hand) \in Living
    BY <1>1, EventsAre
  <2>2. events \in Seq(Living) /\ \A e : Waits(events, e) <=> e = Let(t, Hand)
    BY <2>1, Few, WaitsIn
  <2>3. Handled(events) /\ mode' = [mode EXCEPT ![t] = "hand"]
    BY <1>4 DEF HandTakesThing, Put
  <2> HIDE DEF events
  <2>4. ~astray => Fit(t)
    BY <1>1, SaysFirst DEF HandInv, Parked, Fit
  <2>5. /\ \A e \in Shows : ~Waits(events, e)
        /\ \A y \in Carried : /\ Waits(events, Let(y, Hand)) => y = t
                              /\ ~Waits(events, Take(Hand, y))
    BY <2>2, EventsAre, NoticesAre
  <2> QED  BY <1>1, <1>4, <2>2, <2>3, <2>4, <2>5, EnteringHandled
<1> QED  BY <1>3, <1>4

LEMMA NornTakesThingKeepsHand ==
  ASSUME RidesInv, HandInv, draining, NEW t \in Things, NEW n \in Norns, NornTakesThing(n, t)
  PROVE  HandInv'
<1> DEFINE S == HeldBy(n) \ {t}
           lets == LetsGo(n, t)
           tells == IF t \in InHand THEN <<Take(t, Hand)>> ELSE <<>>
           events == tells \o lets
<1>1. /\ queue[1] = Take(n, t) /\ t # Hand /\ t \notin Vehicles /\ n \in Objects
      /\ t \in Carried /\ Exists(t) /\ Exists(n) /\ n \in Parties /\ t \in Parties
      /\ UNCHANGED <<shown, astray>> /\ astray \in BOOLEAN /\ n \notin Vehicles
  BY FirstLives, PartiesAre DEF NornTakesThing, RidesInv
<1>2. Put(t, "held", n) /\ Handled(events) /\ mode' = [mode EXCEPT ![t] = "held"]
  BY DEF NornTakesThing, Put
<1>3. \A x \in S : Let(n, x) \in Meek
  <2>1. \A x \in S : x \in Carried /\ x \in Things /\ ref[x] # Nil /\ x # Hand
    BY PartiesAre DEF HeldBy
  <2>2. \A x \in S : Exists(x)
    BY <2>1, RefersExists
  <2>3. \A x \in S : Let(n, x) \in Living
    BY <1>1, <2>1, <2>2, EventsAre
  <2> QED  BY <1>1, <2>1, <2>3, MeekEvents
<1>4. IsFiniteSet(S)
  <2>1. S \in SUBSET Things
    BY DEF HeldBy
  <2> QED  BY <2>1, PartiesAre, FS_Subset, Zenon
<1>5. lets = [i \in 1 .. Cardinality(S) |-> Let(n, SetToSeq(S)[i])]
  <2> HIDE DEF S
  <2>1. SetToSeq(S) \in [1 .. Cardinality(S) -> S]
    BY <1>4, OrderOf, Zenon
  <2>2. DOMAIN SetToSeq(S) = 1 .. Cardinality(S)
    BY <2>1
  <2>3. lets = [i \in DOMAIN SetToSeq(S) |-> Let(n, SetToSeq(S)[i])]
    BY Zenon DEF LetsGo, S
  <2> HIDE DEF lets
  <2> QED  BY <2>2, <2>3
<1> HIDE DEF S, lets
<1>6. lets \in Seq(Meek)
  BY <1>3, <1>4, <1>5, LetEach, Zenon
<1>7. CASE t \notin InHand
  <2>1. Handled(lets)
    <3>1. events = lets
      BY <1>6, <1>7
    <3> QED  BY <1>2, <3>1
  <2>2. InHand' = InHand
    BY <1>1, <1>2, <1>7, HandIsSpared
  <2>3. \A v \in Vehicles, x \in InHand : queue[1] # Take(v, x)
    BY <1>1, EventsAre
  <2>4. queue[1] \notin Shows /\ \A x \in Carried : queue[1] # Let(x, Hand)
    BY <1>1, SaysFirst
  <2> QED  BY <1>1, <1>6, <2>1, <2>2, <2>3, <2>4, QuietHandled
<1>8. CASE t \in InHand
  <2>1. tells = <<Take(t, Hand)>>
    BY <1>8
  <2>2. Take(t, Hand) \in Living
    BY <1>1, EventsAre
  <2>3. tells \in Seq(Living) /\ \A e : Waits(tells, e) <=> e = Take(t, Hand)
    BY <2>1, <2>2, Few, WaitsIn
  <2> HIDE DEF tells
  <2>4. lets \in Seq(Living) /\ Quiet(lets) /\ \A e : Waits(lets, e) => e \in {Let(n, x) : x \in S}
    <3>1. \A x \in S : Let(n, x) \in {Let(n, y) : y \in S}
      OBVIOUS
    <3> DEFINE G == {Let(n, y) : y \in S}
    <3> HIDE DEF G
    <3>2. lets \in Seq(G)
      BY <1>4, <1>5, <3>1, LetEach, Zenon DEF G
    <3>3. \A e : Waits(lets, e) => e \in G
      BY <3>2 DEF Waits
    <3> QED  BY <1>6, <3>3, MeekAre DEF G
  <2>5. /\ events \in Seq(Living)
        /\ \A e : Waits(events, e) <=> Waits(tells, e) \/ Waits(lets, e)
    BY <2>3, <2>4, Behind, WaitsIn, Zenon
  <2> HIDE DEF events
  <2>6. \A y \in Carried : ~Waits(events, Let(y, Hand)) /\ ~Waits(events, Take(Hand, y))
    <3>1. \A y, x : Take(Hand, y) # Let(n, x) /\ Take(t, Hand) # Let(y, Hand)
      BY EventsAre
    <3>2. \A y : Take(t, Hand) # Take(Hand, y)
      BY <1>1, EventsAre
    <3> QED  BY <2>3, <2>4, <2>5, <3>1, <3>2 DEF Quiet
  <2>7. Take(t, Hand) \in Back(t) /\ Waits(events, Take(t, Hand))
    BY <2>3, <2>5, NoticesAre
  <2> QED  BY <1>1, <1>2, <1>8, <2>5, <2>6, <2>7, LeavingHandled
<1> QED  BY <1>7, <1>8

LEMMA ThingIsLetKeepsHand ==
  ASSUME RidesInv, HandInv, draining, NEW t \in Things, NEW a \in Parties, ThingIsLet(t, a)
  PROVE  HandInv'
<1>1. /\ queue[1] = Let(a, t) /\ t \in Carried /\ t # Hand /\ Exists(t) /\ t \in Parties
      /\ UNCHANGED <<shown, astray>> /\ astray \in BOOLEAN /\ t \notin Vehicles
  BY PartiesAre, FirstLives DEF ThingIsLet, RidesInv
<1>2. /\ queue[1] \notin Shows /\ \A x \in Carried : queue[1] # Let(x, Hand)
      /\ \A v \in Vehicles, x \in InHand : queue[1] # Take(v, x)
  BY <1>1, SaysFirst, EventsAre
<1>3. EndInteraction(t) => \E where : where # "hand" /\ mode' = [mode EXCEPT ![t] = where]
  BY DEF EndInteraction, Put
<1>4. CASE t \in InHand
  <2> DEFINE events == <<Take(t, Hand)>>
  <2>1. Take(t, Hand) \in Living
    BY <1>1, EventsAre
  <2>2. events \in Seq(Living) /\ \A e : Waits(events, e) <=> e = Take(t, Hand)
    BY <2>1, Few, WaitsIn
  <2>3. Handled(events) /\ EndInteraction(t)
    BY <1>4 DEF ThingIsLet
  <2> HIDE DEF events
  <2>4. /\ \A y \in Carried : ~Waits(events, Let(y, Hand)) /\ ~Waits(events, Take(Hand, y))
        /\ Take(t, Hand) \in Back(t) /\ Waits(events, Take(t, Hand))
    BY <1>1, <2>2, EventsAre, NoticesAre
  <2> QED  BY <1>1, <1>3, <1>4, <2>2, <2>3, <2>4, LeavingHandled
<1>5. CASE t \notin InHand
  <2>1. Handled(<<>>) /\ (EndInteraction(t) \/ Stays)
    BY <1>5 DEF ThingIsLet
  <2>2. InHand' = InHand
    <3>1. CASE EndInteraction(t)
      BY <1>1, <1>3, <1>5, <3>1, HandIsSpared
    <3>2. CASE Stays
      BY <3>2 DEF Stays, InHand
    <3> QED  BY <2>1, <3>1, <3>2
  <2> QED  BY <1>1, <1>2, <2>1, <2>2, MeekFew, QuietHandled
<1> QED  BY <1>4, <1>5

LEMMA NornIsCarriedKeepsHand ==
  ASSUME RidesInv, HandInv, draining, NEW n \in Norns,
         \/ \E v \in Vehicles : NornBoards(n, v) \/ NornLeaves(n, v)
         \/ \E privileged, clicked \in BOOLEAN : HandTakesNorn(n, privileged, clicked)
         \/ \E a \in Parties : NornIsLet(n, a)
  PROVE  HandInv'
<1>1. /\ n \in Carried /\ n # Hand /\ n \in Parties /\ n \notin Vehicles /\ n \in Objects
      /\ {shown, astray} \subseteq BOOLEAN /\ \A v \in Vehicles : v # Hand
  BY PartiesAre DEF RidesInv
<1>2. \A a : queue[1] = Take(a, n) \/ queue[1] = Let(a, n)
        => queue[1] \notin Shows /\ \A x \in Carried : queue[1] # Let(x, Hand)
  BY <1>1, SaysFirst
<1> DEFINE back == <<Take(Hand, Hand)>>
<1>3. /\ back \in Seq(Living) /\ \A e : Waits(back, e) <=> e = Take(Hand, Hand)
      /\ Take(Hand, Hand) \in Living
  <2>1. Take(Hand, Hand) \in Living
    BY EventsAre, PartiesAre
  <2> QED  BY <2>1, Few, WaitsIn
<1>4. \A y \in Carried : Take(Hand, Hand) # Let(y, Hand) /\ Take(Hand, Hand) # Take(Hand, y)
  BY PartiesAre, EventsAre
<1>5. \A y \in Carried : ~Waits(back, Let(y, Hand)) /\ ~Waits(back, Take(Hand, y))
  BY <1>3, <1>4
<1>6. Take(Hand, Hand) \in Back(n)
  BY NoticesAre
<1>7. ASSUME NEW v \in Vehicles, NornBoards(n, v) PROVE HandInv'
  <2>1. /\ queue[1] = Take(v, n) /\ mode' = [mode EXCEPT ![n] = "aboard"]
        /\ UNCHANGED <<shown, astray>>
    BY <1>7 DEF NornBoards, Put
  <2>2. CASE n \in InHand
    <3>1. Handled(back)
      BY <1>7, <2>2 DEF NornBoards
    <3> HIDE DEF back
    <3> QED  BY <1>1, <1>3, <1>5, <1>6, <2>1, <2>2, <3>1, LeavingHandled
  <2>3. CASE n \notin InHand
    <3>1. Handled(<<>>)
      BY <1>7, <2>3 DEF NornBoards
    <3>2. InHand' = InHand
      BY <1>1, <2>1, <2>3, HandIsSpared
    <3>3. \A w \in Vehicles, x \in InHand : queue[1] # Take(w, x)
      BY <2>1, <2>3, EventsAre
    <3> QED  BY <1>1, <1>2, <2>1, <3>1, <3>2, <3>3, MeekFew, QuietHandled
  <2> QED  BY <2>2, <2>3
<1>8. ASSUME NEW v \in Vehicles, NornLeaves(n, v) PROVE HandInv'
  <2>1. /\ queue[1] = Let(v, n) /\ mode' = [mode EXCEPT ![n] = "world"] /\ Handled(<<>>)
        /\ shown' = shown /\ astray' = (astray \/ n \in InHand)
    BY <1>8 DEF NornLeaves, Put
  <2>2. ~astray' => InHand' = InHand
    BY <1>1, <2>1, HandIsSpared
  <2>3. \A w \in Vehicles, x \in InHand : queue[1] # Take(w, x)
    BY <2>1, EventsAre
  <2> QED  BY <1>1, <1>2, <2>1, <2>2, <2>3, MeekFew, QuietHandled
<1>9. ASSUME NEW privileged \in BOOLEAN, NEW clicked \in BOOLEAN,
             HandTakesNorn(n, privileged, clicked)
      PROVE  HandInv'
  <2>1. queue[1] = Take(Hand, n) /\ shown' = shown
    BY <1>9 DEF HandTakesNorn
  <2>2. Exists(n)
    BY <1>1, <2>1, FirstLives
  <2>3. CASE ~privileged
    <3>1. Handled(<<>>) /\ astray' = astray /\ InHand' = InHand
      BY <1>9, <2>3 DEF HandTakesNorn, Stays, InHand
    <3>2. \A w \in Vehicles, x \in InHand : queue[1] # Take(w, x)
      BY <1>1, <2>1, EventsAre
    <3> QED  BY <1>1, <1>2, <2>1, <3>1, <3>2, MeekFew, QuietHandled
  <2>4. CASE privileged
    <3> DEFINE clicks == IF clicked THEN <<Let(n, n)>> ELSE <<>>
               tells == <<Let(n, Hand)>>
               events == clicks \o tells
    <3>1. /\ mode' = [mode EXCEPT ![n] = "hand"] /\ Handled(events)
          /\ astray' = (astray \/ InHand \ {n} # {})
      BY <1>9, <2>4 DEF HandTakesNorn, Put
    <3>2. Let(n, n) \in Living /\ Let(n, Hand) \in Living
      BY <1>1, <2>2, EventsAre
    <3>3. /\ clicks \in Seq(Living) /\ tells \in Seq(Living)
          /\ \A e : Waits(clicks, e) => e = Let(n, n)
          /\ \A e : Waits(tells, e) <=> e = Let(n, Hand)
      <4>1. tells \in Seq(Living) /\ \A e : Waits(tells, e) <=> e = Let(n, Hand)
        BY <3>2, Few, WaitsIn
      <4>2. CASE clicked
        <5>1. clicks = <<Let(n, n)>>
          BY <4>2
        <5> HIDE DEF clicks
        <5>2. clicks \in Seq(Living) /\ \A e : Waits(clicks, e) <=> e = Let(n, n)
          BY <3>2, <5>1, Few, WaitsIn
        <5> QED  BY <4>1, <5>2
      <4>3. CASE ~clicked
        <5>1. clicks = <<>>
          BY <4>3
        <5> HIDE DEF clicks
        <5>2. clicks \in Seq(Living) /\ \A e : ~Waits(clicks, e)
          BY <5>1, Few, WaitsIn
        <5> QED  BY <4>1, <5>2
      <4> QED  BY <4>2, <4>3
    <3> HIDE DEF clicks, tells
    <3>4. /\ events \in Seq(Living)
          /\ \A e : Waits(events, e) <=> Waits(clicks, e) \/ Waits(tells, e)
      BY <3>3, Behind, WaitsIn, Zenon
    <3> HIDE DEF events
    <3>5. /\ Waits(events, Let(n, Hand)) /\ \A e \in Shows : ~Waits(events, e)
          /\ \A y \in Carried : /\ Waits(events, Let(y, Hand)) => y = n
                                /\ ~Waits(events, Take(Hand, y))
      <4>1. \A e : Waits(events, e) => e = Let(n, n) \/ e = Let(n, Hand)
        BY <3>3, <3>4
      <4>2. \A y : /\ Let(y, Hand) # Let(n, n) /\ (Let(y, Hand) = Let(n, Hand) => y = n)
                   /\ Take(Hand, y) # Let(n, n) /\ Take(Hand, y) # Let(n, Hand)
        BY <1>1, EventsAre
      <4> QED  BY <3>3, <3>4, <4>1, <4>2, NoticesAre
    <3>6. ~astray => Fit(n)
      BY <1>1, <2>1, SaysFirst DEF HandInv, Parked, Fit
    <3> QED  BY <1>1, <2>1, <3>1, <3>4, <3>5, <3>6, EnteringHandled
  <2> QED  BY <2>3, <2>4
<1>10. ASSUME NEW a \in Parties, NornIsLet(n, a) PROVE HandInv'
  <2>1. queue[1] = Let(a, n) /\ UNCHANGED <<shown, astray>>
    BY <1>10 DEF NornIsLet
  <2>2. Exists(n)
    BY <1>1, <2>1, FirstLives
  <2>3. CASE n \notin InHand
    <3>1. Handled(<<>>) /\ InHand' = InHand
      BY <1>10, <2>3 DEF NornIsLet, Stays, InHand
    <3>2. \A w \in Vehicles, x \in InHand : queue[1] # Take(w, x)
      BY <2>1, EventsAre
    <3> QED  BY <1>1, <1>2, <2>1, <3>1, <3>2, MeekFew, QuietHandled
  <2>4. CASE n \in InHand /\ Put(n, "world", Nil) /\ Handled(<<Take(Hand, Hand)>>)
    <3>1. Handled(back) /\ mode' = [mode EXCEPT ![n] = "world"]
      BY <2>4 DEF Put
    <3> HIDE DEF back
    <3> QED  BY <1>1, <1>3, <1>5, <1>6, <2>1, <2>4, <3>1, LeavingHandled
  <2>5. ASSUME n \in InHand, NEW v \in Vehicles, Exists(v), Put(n, "hand", Nil),
               Handled(<<Take(v, n), Take(Hand, Hand)>>)
        PROVE  HandInv'
    <3> DEFINE events == <<Take(v, n), Take(Hand, Hand)>>
    <3>1. Take(v, n) \in Living
      BY <1>1, <2>2, <2>5, EventsAre, PartiesAre
    <3>2. events \in Seq(Living) /\ \A e : Waits(events, e) <=> e = Take(v, n) \/ e = Take(Hand, Hand)
      BY <1>3, <3>1, Few, WaitsIn
    <3>3. Handled(events)
      BY <2>5
    <3> HIDE DEF events
    <3>4. \A y \in Carried : ~Waits(events, Let(y, Hand)) /\ ~Waits(events, Take(Hand, y))
      <4>1. \A y : Take(v, n) # Let(y, Hand) /\ Take(v, n) # Take(Hand, y)
        BY <1>1, EventsAre
      <4> QED  BY <1>4, <3>2, <4>1
    <3>5. Taken(events, n)
      BY <3>2 DEF Taken
    <3>6. mode' = [mode EXCEPT ![n] = "hand"]
      BY <2>5 DEF Put
    <3> QED  BY <1>1, <2>1, <2>5, <3>2, <3>3, <3>4, <3>5, <3>6, RelievedHandled
  <2> QED  BY <1>10, <2>3, <2>4, <2>5 DEF NornIsLet
<1> QED  BY <1>7, <1>8, <1>9, <1>10

LEMMA HandIsToldKeepsHand ==
  ASSUME RidesInv, HandInv, draining, NEW a \in Parties, HandReturns(a) \/ HandHides(a)
  PROVE  HandInv'
<1>1. /\ InHand' = InHand /\ UNCHANGED <<mode, astray>> /\ life' = life
      /\ InHand \in SUBSET Carried /\ {shown, astray} \subseteq BOOLEAN
      /\ queue \in Seq(Living) /\ queue # <<>> /\ queue[1] \in Living
  BY SaysFirst DEF HandReturns, HandHides, Handled, InHand, RidesInv
<1>2. CASE HandReturns(a) /\ a \in Norns
  <2>1. queue[1] = Take(a, Hand) /\ Handled(<<Take(Hand, a)>>) /\ shown' = shown
    BY <1>2 DEF HandReturns
  <2>2. Exists(a) /\ a \in Carried /\ a \in Parties /\ a \in Objects /\ a # Hand
      /\ Hand \in Parties
    BY <1>2, <2>1, FirstLives, PartiesAre
  <2>3. Fit(a)
    BY <1>2, <2>2 DEF HandInv, Fit, Exists
  <2>4. Take(Hand, a) \in Living
    BY <2>2, EventsAre
  <2>5. Take(Hand, a) \in Meek
    BY <2>2, <2>3, <2>4, MeekEvents
  <2>6. /\ queue[1] \notin Shows /\ \A x \in Carried : queue[1] # Let(x, Hand)
        /\ \A w \in Vehicles, x \in InHand : queue[1] # Take(w, x)
    BY <1>1, <1>2, <2>1, NoticesAre, EventsAre, PartiesAre
  <2> QED  BY <1>1, <2>1, <2>5, <2>6, MeekFew, QuietHandled
<1>3. CASE (HandReturns(a) /\ a \notin Norns) \/ HandHides(a)
  <2>1. Handled(<<>>)
    BY <1>3 DEF HandReturns, HandHides
  <2>2. queue' = Tail(queue)
    BY <1>1, <2>1 DEF Handled
  <2>3. CASE astray
    BY <1>1, <2>3 DEF HandInv
  <2>4. CASE ~astray
    <3>1. Parked'
      <4>1. <<>> \in Seq(Living) /\ \A x \in Carried : ~Waits(<<>>, Take(Hand, x))
        BY DEF Waits
      <4>2. \A x \in Carried : mode'[x] = "hand" => mode[x] = "hand"
        BY <1>1
      <4> QED  BY <2>1, <2>4, <4>1, <4>2, HandledParks
    <3>2. OneInHand' /\ Follows(queue, InHand, shown)
      BY <1>1, <2>4 DEF HandInv, OneInHand
    <3>3. Follows(queue', InHand', shown')
      <4>1. CASE HandReturns(a) /\ a \notin Norns
        <5>1. queue[1] = Take(a, Hand) /\ shown' = TRUE
          BY <4>1 DEF HandReturns
        <5>2. a \in Things \union {Hand}
          <6>1. Civil(Take(a, Hand))
            BY <1>1, <5>1 DEF Living
          <6>2. a \notin Vehicles
            BY <6>1 DEF Civil, Take
          <6> QED  BY <4>1, <6>2 DEF Parties, Objects, Carried
        <5>3. queue[1] \in Shows
          BY <5>1, <5>2, NoticesAre
        <5>4. Follows(Tail(queue), InHand, TRUE)
          BY <1>1, <3>2, <5>3, ShowFirst
        <5> QED  BY <1>1, <2>2, <5>1, <5>4
      <4>2. CASE HandHides(a)
        <5>1. queue[1] = Let(a, Hand) /\ shown' = FALSE
          BY <4>2 DEF HandHides
        <5>2. a \in Carried
          <6>1. Civil(Let(a, Hand))
            BY <1>1, <5>1 DEF Living
          <6> QED  BY <6>1 DEF Civil, Let
        <5>3. Follows(Tail(queue), InHand, FALSE)
          BY <1>1, <3>2, <5>1, <5>2, HideFirst
        <5> QED  BY <1>1, <2>2, <5>1, <5>3
      <4> QED  BY <1>3, <4>1, <4>2
    <3> QED  BY <1>1, <3>1, <3>2, <3>3, HandFollows
  <2> QED  BY <1>1, <2>3, <2>4
<1> QED  BY <1>2, <1>3

-----------------------------------------------------------------------------
(* The hand comes back *)

LEMMA HandInit == Init => HandInv
<1> SUFFICES ASSUME Init PROVE HandInv
  OBVIOUS
<1>1. /\ \A x \in Carried : mode[x] = "world" /\ life[x] = "ticks"
      /\ \A n \in Norns : life[n] = "ticks" /\ queue = <<>> /\ shown = TRUE
  BY PartiesAre DEF Init
<1>2. InHand = {}
  BY <1>1 DEF InHand
<1>3. Parked /\ OneInHand
  BY <1>1, <1>2 DEF Parked, OneInHand
<1>4. Follows(queue, InHand, shown)
  BY <1>2 DEF Init, Follows, Left, Empty, Full, MadeGood
<1> QED  BY <1>1, <1>3, <1>4 DEF HandInv

LEMMA HandNext == RidesInv /\ HandInv /\ [Next]_vars => HandInv'
<1> SUFFICES ASSUME RidesInv, HandInv, [Next]_vars PROVE HandInv'
  OBVIOUS
<1>1. CASE UNCHANGED vars
  <2>1. /\ InHand' = InHand /\ UNCHANGED <<shown, queue, astray, mode, life>>
    BY <1>1 DEF vars, InHand
  <2>2. \A n \in Norns : life'[n] # "killed"
    BY <2>1 DEF HandInv
  <2> QED  BY <2>1, <2>2, HandStays DEF RidesInv
<1>2. CASE \/ \E x \in Carried : Click(x) \/ ClickCarried(x)
           \/ \E n \in Norns, x \in Things \union {Hand} : NornTakes(n, x)
           \/ \E n \in Norns : NornDrops(n)
           \/ \E v \in Vehicles, S \in SUBSET Norns : Gather(v, S)
  BY <1>2, AsksKeepHand, Zenon
<1>3. CASE \/ \E v \in Vehicles : Teleport(v)
           \/ \E x \in Carried : MoveTo(x)
           \/ \E t \in Things : Settle(t)
           \/ \E n \in Norns : Die(n)
           \/ BeginPhase
  BY <1>3, MovesKeepHand, Zenon
<1>4. CASE \/ \E n \in Norns : Delete(n)
           \/ \E v \in Vehicles : AllOff(v)
           \/ \E x \in Objects : Kill(x) \/ Reap(x)
           \/ Load
  BY <1>4, DeleteKeepsHand, AllOffKeepsHand, KillKeepsHand, ReapKeepsHand, LoadKeepsHand, Zenon
<1>5. CASE Handle
  <2>1. draining
    BY <1>5 DEF Handle
  <2>2. \/ \E t \in Things : HandTakesThing(t)
        \/ \E t \in Things, n \in Norns : NornTakesThing(n, t)
        \/ \E t \in Things, a \in Parties : ThingIsLet(t, a)
        \/ \E n \in Norns, v \in Vehicles : NornBoards(n, v) \/ NornLeaves(n, v)
        \/ \E n \in Norns, privileged, clicked \in BOOLEAN : HandTakesNorn(n, privileged, clicked)
        \/ \E n \in Norns, a \in Parties : NornIsLet(n, a)
        \/ \E a \in Parties : HandReturns(a) \/ HandHides(a)
    BY <1>5 DEF Handle
  <2> QED  BY <2>1, <2>2, HandTakesThingKeepsHand, NornTakesThingKeepsHand,
              ThingIsLetKeepsHand, NornIsCarriedKeepsHand, HandIsToldKeepsHand, Zenon
<1> QED  BY <1>1, <1>2, <1>3, <1>4, <1>5, Zenon DEF Next

LEMMA HandInvFrees ==
  ASSUME RidesInv, HandInv
  PROVE  HandFree
<1> SUFFICES ASSUME queue = <<>>, ~astray
             PROVE  Cardinality(InHand) = IF shown THEN 0 ELSE 1
  BY DEF HandFree
<1>1. /\ OneInHand /\ Follows(queue, InHand, shown) /\ \A e : ~Waits(queue, e)
      /\ shown \in BOOLEAN
  BY DEF HandInv, Waits, RidesInv
<1>2. CASE InHand = {}
  <2>1. shown
    BY <1>1, <1>2 DEF Follows, Empty
  <2>2. Cardinality({}) = 0
    BY FS_EmptySet, Zenon
  <2> QED  BY <1>2, <2>1, <2>2
<1>3. ASSUME NEW x \in InHand PROVE Cardinality(InHand) = IF shown THEN 0 ELSE 1
  <2>1. ~shown
    BY <1>1 DEF Follows, Full, Taken, Hung
  <2>2. InHand = {x}
    BY <1>1 DEF OneInHand
  <2>3. Cardinality({x}) = 1
    BY FS_Singleton, Zenon
  <2> QED  BY <2>1, <2>2, <2>3
<1> QED  BY <1>2, <1>3

\* Whenever no event waits, the hand is hidden just while one object hangs from it, whatever
\* was clicked, run, killed, deleted and loaded before and in whatever order the notices came:
\* only the steps that set astray leave it hidden for nothing or shown for something.
THEOREM HandComesBack == Spec => []HandFree
<1>1. RidesInv /\ HandInv /\ [Next]_vars => HandInv'
  BY HandNext
<1> QED  BY <1>1, HandInit, RidesInductive, HandInvFrees, PTL DEF Spec
=============================================================================
