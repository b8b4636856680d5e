---- MODULE MCWorldTick ----
(* WorldTick on a small instance; the chemistry and the brains its tick runs
   are checked on bounded inputs before it. *)
EXTENDS WorldTick, MCBiochemistry, MCLobes, TLC
CONSTANTS c1, c2, c3, k1
McCreatures == {c1, c2, c3}
McKits == {k1}
McNoHands == {}
====
