----------------------------- MODULE MCCookieJar -----------------------------
(* CookieJar with two requests at a time; three inodes are one for each save  *)
(* and one for the jar.                                                       *)
EXTENDS CookieJar, TLC

CONSTANTS s1, s2, i1, i2, i3

Symmetric == Permutations(Slots) \cup Permutations(Inodes)
=============================================================================
