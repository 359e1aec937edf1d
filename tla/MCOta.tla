------------------------------- MODULE MCOta --------------------------------
EXTENDS OtaUpdate
CONSTANTS c1, c2
MCConnections == {c1, c2}
MCChunks == {1, 2}
=============================================================================
