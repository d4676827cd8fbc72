-------------------------- MODULE MCCircleShift --------------------------
\* The circle-shift transport on small groups.
EXTENDS CircleShift

AllPlans == SUBSET Pairs
=============================================================================
