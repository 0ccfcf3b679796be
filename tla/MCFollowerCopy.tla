--------------------------- MODULE MCFollowerCopy ---------------------------
EXTENDS FollowerCopy

CONSTANTS f1
=============================================================================
