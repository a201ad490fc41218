--------------------------- MODULE MCUserScheme ---------------------------
EXTENDS UserScheme
=============================================================================
