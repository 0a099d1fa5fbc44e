------------------------- MODULE MCSchedulerControl -------------------------
EXTENDS SchedulerControl

CONSTANTS h1, h2, s1, s2, s3

TwoHandlers == {h1, h2}
MCPids      == {s1, s2, s3}
=============================================================================
