--------------------------- MODULE MCMetaServer ---------------------------
\* A few clients of the MetaServer.
EXTENDS MetaServer
=============================================================================
