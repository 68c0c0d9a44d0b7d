---- MODULE MCDcFifo ----
EXTENDS DcFifo
====
