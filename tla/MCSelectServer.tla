--------------------------- MODULE MCSelectServer ---------------------------
EXTENDS SelectServer
=============================================================================
