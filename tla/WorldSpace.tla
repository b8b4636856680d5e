------------------------------ MODULE WorldSpace ------------------------------
(***************************************************************************)
(* The space the objects of a world move in, as operators: a ring of       *)
(* WorldWidth columns on which a rectangle may cross the seam (its right   *)
(* edge then lies beyond WorldWidth), the rooms of the map and the floors  *)
(* things fall to, the view that scrolls round the ring, and the queue of  *)
(* rectangles that wait to be redrawn.                                     *)
(***************************************************************************)
EXTENDS Integers, Sequences

CONSTANTS
  WorldWidth,   \* kWorldWidth
  WorldHeight,  \* kWorldHeight
  QueueSize     \* queued_dirty_rects_.size()

ASSUME SpaceAssumption ==
  /\ WorldWidth \in Nat \ {0}
  /\ WorldHeight \in Nat \ {0}
  /\ QueueSize \in Nat \ {0}

Smaller(a, b) == IF a <= b THEN a ELSE b
Larger(a, b) == IF a >= b THEN a ELSE b
Distance(a, b) == IF a >= b THEN a - b ELSE b - a

\* C++ division by two: towards zero.
Half(n) == IF n >= 0 THEN n \div 2 ELSE -((-n) \div 2)

\* Where least[i] is smallest, and the first of those: what the loops that keep
\* the best so far, and replace it only by a better one, find.
FirstLeast(least) ==
  CHOOSE i \in DOMAIN least :
    \A j \in DOMAIN least : least[i] < least[j] \/ (least[i] = least[j] /\ i <= j)

-------------------------------------------------------------------------------
(* Rectangles on the ring *)

Corners == [min_x : Int, min_y : Int, max_x : Int, max_y : Int]

\* What the code hands to the functions below: the left edge is on the map, the
\* right edge at most one turn further.  Merged rectangles stay inside this set.
WorldRect ==
  {r \in Corners : /\ 0 <= r.min_x /\ r.min_x < WorldWidth
                   /\ r.min_x < r.max_x /\ r.max_x <= 2 * WorldWidth
                   /\ r.min_y < r.max_y}

Columns == 0 .. WorldWidth - 1

\* The rectangle has the point of column x and row y.
Covers(r, x, y) ==
  /\ r.min_y <= y /\ y < r.max_y
  /\ \/ r.min_x <= x /\ x < r.max_x
     \/ r.min_x <= x + WorldWidth /\ x + WorldWidth < r.max_x

Wraps(r) == r.max_x >= WorldWidth

WrappedRectsOverlap(a, b) ==
  /\ b.min_y < a.max_y /\ a.min_y < b.max_y
  /\ \/ Wraps(a) /\ Wraps(b)
     \/ a.min_x < b.max_x /\ b.min_x < a.max_x
     \/ Wraps(b) /\ a.min_x < b.max_x - WorldWidth
     \/ Wraps(a) /\ b.min_x < a.max_x - WorldWidth

\* What is left of the view for a rectangle that overlaps it.  When only the
\* rectangle crosses the seam the code cuts the rectangle, which nobody reads.
Intersected(view, r) ==
  LET rows == [view EXCEPT !.min_y = Larger(@, r.min_y), !.max_y = Smaller(@, r.max_y)]
  IN IF Wraps(r) /\ ~Wraps(view) THEN rows
     ELSE IF Wraps(view) /\ ~Wraps(r) /\ r.max_x <= view.min_x
     THEN [rows EXCEPT !.min_x = r.min_x, !.max_x = Smaller(r.max_x, @ - WorldWidth)]
     ELSE [rows EXCEPT !.min_x = Larger(@, r.min_x), !.max_x = Smaller(@, r.max_x)]

\* Both pieces of the view, or of the rectangle, meet the other: only one of the
\* two parts they share is kept.
MeetTwice(view, r) ==
  /\ Wraps(view)
  /\ \/ r.min_x < view.max_x - WorldWidth /\ view.min_x < r.max_x
     \/ Wraps(r) /\ view.min_x < r.max_x - WorldWidth

UnionOf(a, b) ==
  LET rows == [a EXCEPT !.min_y = Smaller(@, b.min_y), !.max_y = Larger(@, b.max_y)]
  IN IF Wraps(b) /\ ~Wraps(a) /\ a.max_x <= b.min_x
     THEN [rows EXCEPT !.min_x = b.min_x, !.max_x = Larger(a.max_x + WorldWidth, b.max_x)]
     ELSE IF Wraps(a) /\ ~Wraps(b) /\ b.max_x <= a.min_x
     THEN [rows EXCEPT !.max_x = Larger(@, b.max_x + WorldWidth)]
     ELSE [rows EXCEPT !.min_x = Smaller(@, b.min_x), !.max_x = Larger(@, b.max_x)]

\* The object's and the pointer's bounds in the narrowest of three placements.
Placements == {-WorldWidth, 0, WorldWidth}
LeftEdge(a, b, shift) == Smaller(a.min_x, b.min_x + shift)
WidthAt(a, b, shift) == Larger(a.max_x, b.max_x + shift) - LeftEdge(a, b, shift)

PointerUnion(a, b) ==
  LET narrow == {s \in Placements : WidthAt(a, b, s) <= WorldWidth}
      rows == [a EXCEPT !.min_y = Smaller(@, b.min_y), !.max_y = Larger(@, b.max_y)]
  IN IF narrow = {} THEN rows
     ELSE LET s == FirstLeast([n \in narrow |-> WidthAt(a, b, n)])
              left == LeftEdge(a, b, s) % WorldWidth
          IN [rows EXCEPT !.min_x = left, !.max_x = left + WidthAt(a, b, s)]

\* A compound object's parts reach 32 pixels beyond its bounds.
CompoundMargin == 32
ExpandedCompound(r) ==
  LET turn == IF r.min_x < CompoundMargin THEN WorldWidth ELSE 0
  IN [min_x |-> r.min_x - CompoundMargin + turn,
      max_x |-> r.max_x + CompoundMargin + turn,
      min_y |-> Larger(0, r.min_y - CompoundMargin),
      max_y |-> Smaller(WorldHeight, r.max_y + CompoundMargin)]

\* The queue of a deferred drawing: a rectangle joins the first it overlaps, or
\* the last one when the queue is full.
Joined(queue, i, r) == [queue EXCEPT ![i] = UnionOf(@, r)]
QueuedDirty(queue, r) ==
  LET near == {i \in DOMAIN queue : WrappedRectsOverlap(queue[i], r)}
  IN IF near # {} THEN Joined(queue, FirstLeast([i \in near |-> i]), r)
     ELSE IF Len(queue) < QueueSize THEN Append(queue, r)
     ELSE Joined(queue, Len(queue), r)

-------------------------------------------------------------------------------
(* The view *)

WidthOf(r) == r.max_x - r.min_x
HeightOf(r) == r.max_y - r.min_y
Shifted(r, x, y) == [min_x |-> r.min_x + x, max_x |-> r.max_x + x,
                     min_y |-> r.min_y + y, max_y |-> r.max_y + y]

\* Moves in the world after which the left edge is on the map again.
WrapOnce(x) == IF x < 0 THEN x + WorldWidth
               ELSE IF x >= WorldWidth THEN x - WorldWidth ELSE x

\* The top of a view of some height that is asked to stand at y.
TopFor(y, height) == IF y < 0 THEN 0 ELSE Smaller(y, WorldHeight - height)

\* The step down or up that is left inside the world; sideways it is all there.
StepInside(view, dy) == TopFor(view.min_y + dy, HeightOf(view)) - view.min_y
Scrolled(view, dx, dy) ==
  Shifted(view, WrapOnce(view.min_x + dx) - view.min_x, StepInside(view, dy))

OriginSet(view, x, y) ==
  Shifted(view, (x % WorldWidth) - view.min_x,
          Larger(0, Smaller(Larger(y, 0), WorldHeight - HeightOf(view))) - view.min_y)

\* The shorter way round the ring.
ShorterWay(dx) ==
  IF dx < 1 - WorldWidth \div 2 THEN dx + WorldWidth
  ELSE IF dx > WorldWidth \div 2 THEN dx - WorldWidth ELSE dx

\* A glide: what remains of the way, what it has covered, its last step.
AtRest == [left |-> 0, covered |-> 0, step |-> 0]
GlideOver(distance) == [AtRest EXCEPT !.left = distance]

\* request_viewport_origin: a view that is near glides, one that is far jumps.
OriginRequested(view, smooth, x, y) ==
  LET from == IF smooth THEN view ELSE OriginSet(view, x, y)
      dx == ShorterWay(x - from.min_x)
      dy == y - from.min_y
      near == dx \in -WidthOf(view) .. WidthOf(view) /\ dy \in -HeightOf(view) .. HeightOf(view)
  IN IF near THEN [view |-> from, x |-> GlideOver(dx), y |-> GlideOver(dy)]
             ELSE [view |-> OriginSet(from, x, y), x |-> AtRest, y |-> AtRest]

\* The next step of a glide: four pixels faster while there is room to slow down
\* again, else four slower but at least eight, and the last four at once.
StepAhead(left, covered, step) ==
  IF left <= 4 THEN left
  ELSE IF covered + 4 + step < left THEN step + 4
  ELSE Larger(8, step - 4)
ScrollStep(g) == IF g.left < 0 THEN -StepAhead(-g.left, -g.covered, -g.step)
                               ELSE StepAhead(g.left, g.covered, g.step)

Advanced(g, step) == [left |-> g.left - step, covered |-> g.covered + step, step |-> step]

\* advance_smooth_scroll: `step` is what scroll_viewport made of it.
Glided(s) ==
  LET dx == ScrollStep(s.x)
      dy == ScrollStep(s.y)
      moves == dx # 0 \/ dy # 0
  IN IF s.x.left = 0 /\ s.y.left = 0 THEN s
     ELSE [view |-> IF moves THEN Scrolled(s.view, dx, dy) ELSE s.view,
           x |-> Advanced(s.x, dx),
           y |-> Advanced(s.y, IF moves THEN StepInside(s.view, dy) ELSE dy)]

\* Following a creature's foot: the view aims its middle column, and the row at
\* five eighths of its height, at the foot.
ToFoot(view, foot) ==
  LET dx == foot.x - Half(view.min_x + view.max_x)
  IN [x |-> IF dx < -(WorldWidth \div 2) THEN dx + WorldWidth
            ELSE IF dx > WorldWidth \div 2 - 1 THEN dx - WorldWidth ELSE dx,
      y |-> foot.y - (view.min_y * 3 + view.max_y * 5) \div 8]

\* A foot too far from the aim speeds the view up; each step slows it again.
SpeedLimit == 49
SpedUp(speed, off, margin) ==
  IF off < -margin /\ speed > -SpeedLimit THEN speed - 9
  ELSE IF off > margin /\ speed < SpeedLimit THEN speed + 9 ELSE speed
SlowedDown(speed) == IF speed < 0 THEN Smaller(speed + 3, 0) ELSE Larger(speed - 3, 0)
Third(n) == IF n >= 0 THEN n \div 3 ELSE -((-n) \div 3)

\* The foot is well inside the view; at the world's upper and lower edge the view
\* cannot follow, and its margin there is none.
InSafeArea(view, foot) ==
  LET side == WidthOf(view) \div 6
      band == HeightOf(view) \div 4
      left == view.min_x + side
      right == view.max_x - side
      top == IF view.min_y > 0 THEN view.min_y + band ELSE view.min_y
      bottom == IF view.max_y < WorldHeight THEN view.max_y - band ELSE view.max_y
  IN /\ top <= foot.y /\ foot.y < bottom
     /\ IF right < WorldWidth THEN left <= foot.x /\ foot.x < right
        ELSE left <= foot.x \/ foot.x < right - WorldWidth

\* follow_selected_creature_viewport, of a creature free to be followed: `s` has
\* the view and the two speeds.
Followed(s, foot, smooth) ==
  LET off == ToFoot(s.view, foot)
      w == WidthOf(s.view)
      h == HeightOf(s.view)
      fast_x == SpedUp(s.x, off.x, w \div 4)
      fast_y == SpedUp(s.y, off.y, h \div 6)
      far == ~smooth \/ Distance(off.x, 0) > 2 * w \/ Distance(off.y, 0) > 2 * h
  IN IF ~smooth /\ InSafeArea(s.view, foot) THEN s
     ELSE IF far THEN [s EXCEPT !.view = Scrolled(@, off.x, off.y)]
     ELSE [view |-> Scrolled(s.view, Third(fast_x), Third(fast_y)),
           x |-> SlowedDown(fast_x), y |-> SlowedDown(fast_y)]

\* Where a rectangle of the world lies in the view's own coordinates.
ToViewport(view, r) ==
  LET left == r.min_x - view.min_x
      placed == IF left > WorldWidth - WidthOf(view) THEN left - WorldWidth
                ELSE IF left < WidthOf(view) - WorldWidth THEN left + WorldWidth
                ELSE left
  IN [min_x |-> placed, max_x |-> placed + WidthOf(r),
      min_y |-> r.min_y - view.min_y, max_y |-> r.max_y - view.min_y]

\* How an object is heard: in view, half a view further, or not at all.
Audibility(view, object) ==
  LET left == view.min_x - Half(WidthOf(view))
      turn == IF left < 0 THEN WorldWidth ELSE 0
      extended == [min_x |-> left + turn,
                   max_x |-> view.max_x + Half(WidthOf(view)) + turn,
                   min_y |-> Larger(0, view.min_y - Half(HeightOf(view))),
                   max_y |-> Smaller(WorldHeight, view.max_y + Half(HeightOf(view)))]
  IN IF WrappedRectsOverlap(view, object) THEN "active_viewport"
     ELSE IF WrappedRectsOverlap(extended, object) THEN "extended_range"
     ELSE "out_of_range"

-------------------------------------------------------------------------------
(* Rooms and floors *)

NoRoomBottom == 9999  \* kNoRoomBottom

Spans(room, x) == room.min_x <= x /\ x <= room.max_x
FarFrom(room, x, y) ==
  LET dx == Larger(0, Larger(room.min_x - x, x - room.max_x))
      dy == Larger(0, Larger(room.min_y - y, y - room.max_y))
  IN dx * dx + dy * dy

\* The room over the point whose floor is nearest; `fixed` is LC_FIX(22), which
\* takes the nearest room for a point that no room is above or below.
NearestRoomBounds(rooms, x, y, bounds, fixed) ==
  LET over == {i \in DOMAIN rooms :
                 /\ Spans(rooms[i], x)
                 /\ Distance(y, rooms[i].max_y) < Distance(y, NoRoomBottom)}
  IN IF over # {} THEN rooms[FirstLeast([i \in over |-> Distance(y, rooms[i].max_y)])]
     ELSE IF fixed /\ rooms # <<>>
     THEN rooms[FirstLeast([i \in DOMAIN rooms |-> FarFrom(rooms[i], x, y)])]
     ELSE [bounds EXCEPT !.max_y = NoRoomBottom]

FloorsBelow(rooms, x, y) == {i \in DOMAIN rooms : Spans(rooms[i], x) /\ y <= rooms[i].max_y}
FloorRoomBelow(rooms, x, y) ==
  rooms[FirstLeast([i \in FloorsBelow(rooms, x, y) |-> rooms[i].max_y])]

\* The rooms a point is in, right and lower edges excluded; the first counts.
RoomsContaining(rooms, x, y) ==
  {i \in DOMAIN rooms : /\ rooms[i].min_x <= x /\ x < rooms[i].max_x
                        /\ rooms[i].min_y <= y /\ y < rooms[i].max_y}
AmbientTemperature(rooms, outdoors, x, y, temperature) ==
  LET inside == RoomsContaining(rooms, x, y)
  IN IF inside # {} /\ FirstLeast([i \in inside |-> i]) \notin outdoors THEN 0 ELSE temperature

\* What an object may not leave.  `cage` says where the object is: "world" (with
\* room_bound, its flag 0x40), "unbounded", "vehicle" or "explicit".
MovementBounds(object, rooms, reference, fixed) ==
  LET all == [min_x |-> 0, min_y |-> 0, max_x |-> WorldWidth, max_y |-> WorldHeight]
  IN IF object.edited THEN all
     ELSE CASE object.cage = "world" ->
                 IF object.room_bound
                 THEN NearestRoomBounds(rooms, object.at.min_x, object.at.max_y,
                                        object.bounds, fixed)
                 ELSE all
            [] object.cage = "unbounded" ->
                 [min_x |-> 0, min_y |-> 0, max_x |-> 32767, max_y |-> 32767]
            [] object.cage = "vehicle" -> Shifted(reference.inside, reference.x, reference.y)
            [] object.cage = "explicit" -> IF reference.there THEN reference.bounds ELSE object.bounds

\* Where an object bound to rooms comes to rest when it is let go of over no
\* vehicle (LC_FIX(27)); `size` is that of the pose its drop script chose.  Half
\* its height may be under the floor line, and a creature lets go on the floor it stands on.
FootMargin == 16
Probe(at, height, holder) ==
  IF holder.there
  THEN [x |-> holder.at.min_x + Half(WidthOf(holder.at)), y |-> holder.at.max_y - FootMargin]
  ELSE [x |-> at.x, y |-> at.y + Half(height)]

LetGoOf(at, size, rooms, bounds, holder) ==
  LET probe == Probe(at, size.height, holder)
      found == FloorsBelow(rooms, probe.x, probe.y) # {}
      cage == IF found THEN FloorRoomBelow(rooms, probe.x, probe.y) ELSE bounds
      x == IF found /\ holder.there
           THEN Larger(cage.min_x, Smaller(at.x, cage.max_x - size.width)) ELSE at.x
      rest == cage.max_y - size.height
      falls == found /\ rest > at.y
  IN [x |-> x, y |-> IF falls THEN at.y ELSE rest, cage |-> cage, rest |-> rest,
      falling |-> falls, velocity |-> 0]

Gravity == 8
TopSpeed == 56
Faster(velocity) == Smaller(velocity + Gravity, TopSpeed)
NextFallStep(velocity) == (velocity + Faster(velocity)) \div 2

\* One tick of a fall; an object that something else has moved falls no more.
FallAdvanced(o, moved) ==
  IF ~o.falling THEN o
  ELSE IF moved THEN [o EXCEPT !.falling = FALSE]
  ELSE LET y == Smaller(o.y + NextFallStep(o.velocity), o.rest)
       IN [o EXCEPT !.y = y, !.velocity = Faster(@), !.falling = y < o.rest]

\* What a sound waits for: the ticks that FallAdvanced will take, 1000 at most.
MaxTicks == 1000
TicksUntilLanding(o) ==
  LET Ticks[n \in 0 .. MaxTicks, y \in Int, v \in 0 .. TopSpeed] ==
        IF y < o.rest /\ n < MaxTicks THEN Ticks[n + 1, y + NextFallStep(v), Faster(v)] ELSE n
  IN IF o.falling THEN Ticks[0, o.y, o.velocity] ELSE 0

\* How far a creature is pushed back into its room, and whether that is all it
\* needs: in a room too narrow for it, it is put in the middle.
Correction(sprite, room) ==
  LET back == IF room.max_x < sprite.max_x THEN room.max_x - sprite.max_x
              ELSE Larger(0, room.min_x - sprite.min_x)
      sides == (room.min_x - sprite.min_x) + (room.max_x - sprite.max_x)
      pushed == Shifted(sprite, back, 0)
      fits == room.min_x <= pushed.min_x /\ pushed.max_x <= room.max_x
  IN [by |-> IF fits THEN back ELSE Half(sides), fits |-> fits]
===============================================================================
