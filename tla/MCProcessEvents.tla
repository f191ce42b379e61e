--------------------------- MODULE MCProcessEvents ---------------------------
EXTENDS ProcessEvents
CONSTANTS s1, s2
MCStreams == {s1, s2}
=============================================================================
