-------------------------- MODULE MCBreakContract --------------------------
EXTENDS BreakContract

\* Three centres one tolerance apart, so that a creep adds up to a retune; a
\* rate outside the band of theirs; a header that declares no rate.
MCGeometries ==
  {[center |-> c, rate |-> 10] : c \in 0..2}
    \cup {[center |-> 0, rate |-> 12], [center |-> 0, rate |-> 0]}

MCSkews == {-1, 0, 1}
=============================================================================
