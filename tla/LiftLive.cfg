CONSTANTS
    b1 = b1
    b2 = b2
    b3 = b3
    b4 = b4
    Buttons = {b1, b2, b3, b4}
    RoomY <- McRoomY
    Proof = {b2}
    Capacity = 3
    Speed = 3
    NoButton = NoButton
    LastY = 9
    Careful = TRUE
SPECIFICATION LiftFairSpec
INVARIANTS LiftSound
PROPERTIES AnsweredAtItsFloor LiftServes
