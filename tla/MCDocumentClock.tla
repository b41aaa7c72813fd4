-------------------------- MODULE MCDocumentClock --------------------------
EXTENDS DocumentClock

CONSTANTS t1, t2
MCTabs == {t1, t2}
MCDelays == {1}
=============================================================================
