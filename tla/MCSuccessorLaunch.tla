------------------------- MODULE MCSuccessorLaunch --------------------------
EXTENDS SuccessorLaunch
=============================================================================
