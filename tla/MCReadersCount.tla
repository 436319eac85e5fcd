--------------------------- MODULE MCReadersCount ---------------------------
EXTENDS ReadersCount
=============================================================================
