------------------------ MODULE MCSeparateExchange ------------------------
\* Separate-mode exchange with a few engines and training ranks.
EXTENDS SeparateExchange
=============================================================================
