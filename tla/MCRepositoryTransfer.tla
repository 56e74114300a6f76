------------------------ MODULE MCRepositoryTransfer ------------------------
EXTENDS RepositoryTransfer
=============================================================================
