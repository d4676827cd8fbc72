------------------------ MODULE MCColocateExchange ------------------------
\* Colocated exchange on a few devices.
EXTENDS ColocateExchange
=============================================================================
