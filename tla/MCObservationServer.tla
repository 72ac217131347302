-------------------------- MODULE MCObservationServer --------------------------
EXTENDS ObservationServer
=============================================================================
