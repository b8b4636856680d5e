-------------------------- MODULE MCMacroScheduler --------------------------
EXTENDS MacroScheduler, TLC
CONSTANTS m1, m2, m3, norn, toy, zzz

Addresses == Permutations(Macros)
=============================================================================
