----------------------------- MODULE MCWriter -----------------------------
(* Instances of Writer for TLC: two builds of one history and a third whose *)
(* first migration was rewritten.                                          *)
EXTENDS Writer

CONSTANTS c1, s1, n1, first, second, rewritten

TwoBuildsAndAnother == {<<first>>, <<first, second>>, <<rewritten>>}

=============================================================================
