--------------------------- MODULE MCAppLifespan ---------------------------
EXTENDS AppLifespan

CONSTANTS t1, t2
=============================================================================
