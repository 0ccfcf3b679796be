---------------------------- MODULE MCMasterFills ----------------------------
EXTENDS MasterFills

CONSTANTS a
=============================================================================
