---------------------------- MODULE MCOneByOne ----------------------------
\* One-by-one transfers between a few training and inference ranks.
EXTENDS OneByOne
=============================================================================
