------------------------- MODULE MCSglangAdapter -------------------------
\* SglangAdapter for TLC: three ranks, the two tags the engines release.
EXTENDS SglangAdapter

MCRank == 0 .. 2
MCTags == {"kv_cache", "weights"}
=============================================================================
