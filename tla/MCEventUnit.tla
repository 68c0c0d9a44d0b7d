---- MODULE MCEventUnit ----
EXTENDS EventUnit
====
