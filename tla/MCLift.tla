--------------------------------- MODULE MCLift ---------------------------------
EXTENDS Lift, TLC
CONSTANTS b1, b2, b3, b4
\* floors a speed of 384 (3 half pixels) steps over in both directions
McRoomY == b1 :> 0 @@ b2 :> 2 @@ b3 :> 5 @@ b4 :> 8
=============================================================================
