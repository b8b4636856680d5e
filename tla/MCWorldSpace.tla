---------------------------- MODULE MCWorldSpace ----------------------------
(***************************************************************************)
(* The space evaluated on a small ring: every rectangle of it, few rows,   *)
(* two waiting rectangles.  TLC evaluates these assumptions before the run *)
(* of the module that extends this one.                                    *)
(***************************************************************************)
EXTENDS WorldSpace, SequencesExt

McRow(a, b) == [min_y |-> a, max_y |-> b]
McRows == {McRow(0, 2), McRow(1, 2), McRow(2, 3)}
McRects == {[min_x |-> l, max_x |-> l + w, min_y |-> row.min_y, max_y |-> row.max_y] :
              l \in Columns, w \in 1 .. WorldWidth, row \in McRows}
McPoints == Columns \X (0 .. 2)
McHas(r) == {p \in McPoints : Covers(r, p[1], p[2])}
McFlat == {r \in McRects : r.min_y = 0}

\* Two rectangles overlap where they share a point; what is kept of the first
\* has only shared points, and all of them unless the two meet twice.
ASSUME OverlapsOnSmall ==
  \A a \in McFlat, b \in McRects :
    LET both == McHas(a) \cap McHas(b) IN
    /\ WrappedRectsOverlap(a, b) <=> both # {}
    /\ both # {} =>
         LET kept == McHas(Intersected(a, b)) IN
         /\ kept \subseteq McHas(a)
         /\ ~MeetTwice(a, b) => both \subseteq kept

\* A view over the seam and a creature's move past it, which the union of both
\* ends makes nearly as wide as the world: the second piece of the view is lost.
ASSUME SecondPieceIsLost ==
  LET view == [min_x |-> WorldWidth - 2, max_x |-> WorldWidth + 2, min_y |-> 0, max_y |-> 2]
      wide == [min_x |-> 0, max_x |-> WorldWidth - 1, min_y |-> 0, max_y |-> 2]
  IN /\ <<0, 0>> \in McHas(view) \cap McHas(wide)
     /\ <<0, 0>> \notin McHas(Intersected(view, wide))

\* A union has every point of both, and the pointer's is as narrow as can be.
ASSUME UnionsOnSmall ==
  \A a \in McFlat, b \in McRects :
    /\ McHas(a) \cup McHas(b) \subseteq McHas(UnionOf(a, b))
    /\ WidthOf(a) + WidthOf(b) <= WorldWidth =>
         /\ McHas(a) \cup McHas(b) \subseteq McHas(PointerUnion(a, b))
         /\ \A c \in McRects :
              McHas(a) \cup McHas(b) \subseteq McHas(c) =>
                WidthOf(PointerUnion(a, b)) <= WidthOf(c)

\* Nothing that waits to be drawn is forgotten by a queue that merges.
ASSUME QueueForgetsNothing ==
  LET narrow == {r \in McFlat : WidthOf(r) = 2} IN
  \A a, b, c, d \in narrow :
    LET queue == FoldLeft(QueuedDirty, <<>>, <<a, b, c, d>>) IN
    /\ Len(queue) <= QueueSize
    /\ UNION {McHas(r) : r \in {a, b, c, d}}
         \subseteq UNION {McHas(queue[i]) : i \in DOMAIN queue}

McView(left, top) == [min_x |-> left, max_x |-> left + 3, min_y |-> top, max_y |-> top + 2]
McStuck(s, n) ==
  LET After[k \in 0 .. n] == IF k = 0 THEN s ELSE Glided(After[k - 1]) IN After[n]

McNext(glide) == Advanced(glide, ScrollStep(glide))

\* A glide ends, where it was asked to and however far it is to go.
ASSUME GlideArrives ==
  \A distance \in -120 .. 120 :
    LET After[k \in 0 .. 60] ==
          IF k = 0 THEN GlideOver(distance) ELSE McNext(After[k - 1])
    IN After[60].left = 0 /\ After[60].covered = distance

\* Asked for a place above the world, the view stays at its top and its glide
\* never ends.
ASSUME GlideAboveNeverEnds ==
  \A n \in 1 .. 9 :
    McStuck(OriginRequested(McView(0, 0), TRUE, 0, -1), n)
      = [view |-> McView(0, 0), x |-> AtRest, y |-> GlideOver(-1)]

\* A foot outside the safe area is brought to the middle column of the view,
\* whichever side of the seam both are on.
ASSUME FollowingArrives ==
  \A left \in Columns, x \in Columns, y \in 0 .. WorldHeight - 1 :
    LET s == Followed([view |-> McView(left, 0), x |-> 0, y |-> 0], [x |-> x, y |-> y], FALSE)
    IN \/ InSafeArea(s.view, [x |-> x, y |-> y])
       \/ ToFoot(s.view, [x |-> x, y |-> y]).x = 0

McRooms == {[min_x |-> l, max_x |-> l + w, min_y |-> t, max_y |-> t + 2] :
              l \in {0, 4}, w \in {2, 4}, t \in {0, 3}}
McMaps == {<<>>} \cup {<<a>> : a \in McRooms} \cup {<<a, b>> : a, b \in McRooms}

\* With the repair of the gaps (row 22) an object always has a floor; one let go
\* of above a floor comes to rest on it in the ticks its sound waits for.
ASSUME FloorsOnSmall ==
  \A rooms \in McMaps, x \in 0 .. 9, y \in 0 .. 6 :
    LET old == [min_x |-> 0, max_x |-> 1, min_y |-> 0, max_y |-> 1]
        o == LetGoOf([x |-> x, y |-> y], [width |-> 1, height |-> 1], rooms, old,
                     [there |-> FALSE])
        After[n \in 0 .. 9] == IF n = 0 THEN o ELSE FallAdvanced(After[n - 1], FALSE)
    IN /\ rooms # <<>> => NearestRoomBounds(rooms, x, y, old, TRUE) \in ToSet(rooms)
       /\ o.falling => /\ \E i \in DOMAIN rooms : o.rest = rooms[i].max_y - 1
                       /\ \A n \in 0 .. 9 : After[n].falling <=> n < TicksUntilLanding(o)
                       /\ After[9].y = o.rest

\* A creature is pushed inside its room, or to its middle when it does not fit.
ASSUME CorrectionsOnSmall ==
  \A left \in -6 .. 6, width \in 1 .. 8, room \in McRooms :
    LET sprite == [min_x |-> left, max_x |-> left + width, min_y |-> 0, max_y |-> 1]
        push == Correction(sprite, room)
        after == Shifted(sprite, push.by, 0)
    IN /\ push.fits <=> width <= WidthOf(room)
       /\ push.fits => room.min_x <= after.min_x /\ after.max_x <= room.max_x
       /\ ~push.fits => Distance(room.min_x - after.min_x, after.max_x - room.max_x) <= 1
=============================================================================
