--------------------------- MODULE MCHostRunners ---------------------------
EXTENDS HostRunners

CONSTANTS t1, volume, system
=============================================================================
