---------------------------- MODULE MCLogReader -----------------------------
EXTENDS LogReader

\* One record of 1 or 3 bytes; two records of 1 byte.
MCBatchEnds == {<<1>>, <<3>>, <<1, 2>>}
=============================================================================
