-------------------------------- MODULE MCDisk --------------------------------
EXTENDS Disk
==============================================================================
