---- MODULE MCRiscyCore ----
EXTENDS RiscyCoreProofs
NoDebugger == {}
HaltAndResume == [reg : {"CTRL"}, halt : BOOLEAN, sste : {FALSE}]
FullDebugger == [reg : {"CTRL"}, halt : BOOLEAN, sste : BOOLEAN]
                  \cup [reg : {"IE"}, traps : {{"ebreak"}}]
                  \cup [reg : {"NPC"}]
                  \cup [reg : {"MSTATUS"}, mie : BOOLEAN, mpie : BOOLEAN]
====
