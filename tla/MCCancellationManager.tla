--------------------- MODULE MCCancellationManager ---------------------
EXTENDS CancellationManager
=============================================================================
