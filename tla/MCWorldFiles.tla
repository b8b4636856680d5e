---- MODULE MCWorldFiles ----
EXTENDS WorldFiles, TLC
CONSTANTS n1, n2
McNorns == {n1, n2}
====
