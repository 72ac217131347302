---------------------------- MODULE MCImageFraming ----------------------------
EXTENDS ImageFraming

MCCounts == {-1, 0, 1, 2, 3, 4}
MCDeviations == {-1, 0, 1}
=============================================================================
