--------------------------- MODULE MCRemoteClaims ---------------------------
EXTENDS RemoteClaims
=============================================================================
