------------------------ MODULE MCRealtimeTransport -------------------------
EXTENDS RealtimeTransport
OneClient == [b \in Browsers |-> 1]
=============================================================================
