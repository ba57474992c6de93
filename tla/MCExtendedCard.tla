--------------------------- MODULE MCExtendedCard ---------------------------
EXTENDS ExtendedCard

CONSTANTS c1, c2, c3
=============================================================================
