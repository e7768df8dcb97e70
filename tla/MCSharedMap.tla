----------------------------- MODULE MCSharedMap -----------------------------
EXTENDS SharedMap
MCValue == {<<1, "x">>, <<2, "y">>}
=============================================================================
