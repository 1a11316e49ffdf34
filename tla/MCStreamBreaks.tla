--------------------------- MODULE MCStreamBreaks ---------------------------
EXTENDS StreamBreaks

\* Centres one tolerance apart (a creep adds up to a retune) and a header
\* without a rate.
MCGeometries ==
  {[center |-> 0, rate |-> 10], [center |-> 1, rate |-> 10],
   [center |-> 2, rate |-> 11], [center |-> 0, rate |-> 0]}

MCSkews == {-1, 0, 1}
=============================================================================
