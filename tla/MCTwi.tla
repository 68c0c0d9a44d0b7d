---- MODULE MCTwi ----
EXTENDS TwiProofs
====
