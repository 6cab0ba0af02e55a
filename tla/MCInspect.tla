------------------------------ MODULE MCInspect ------------------------------
EXTENDS Inspect

MCNames ==
  { <<"o", "1">>, <<"i", "7">>, <<"sp">>, <<"psr">>, <<"f", "0", "7">>, <<"f", "1", "2">>,
    <<"d", "0", "4">>, <<"w", "2">>, <<"w", "2", "g", "3">>, <<"g", "8">> }
MCValues == {9}
MCCounts == {1, 2}
MCSizes == {3}
MCPointers == {3}
MCLate == {2, 12}
=============================================================================
