----------------------------- MODULE SequenceFilter -----------------------------
(***************************************************************************)
(* What is left of a sequence when some of its elements are taken out: the *)
(* loops that compact a ring, a list of pointers or a queue in place.      *)
(***************************************************************************)
EXTENDS Naturals, Sequences

\* The elements of s that are not in `gone`, in order.
Without(s, gone) ==
  LET kept[i \in 0 .. Len(s)] ==
        IF i = 0 THEN <<>>
        ELSE IF s[i] \in gone THEN kept[i - 1] ELSE Append(kept[i - 1], s[i])
  IN  kept[Len(s)]
================================================================================
