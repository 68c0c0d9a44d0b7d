\* A debugger that halts, resumes, single-steps, traps ebreak and sets the PC and mstatus.
SPECIFICATION Spec
CONSTANTS
  Insns = {"alu", "elw", "brTaken", "jal", "csrDI", "mret", "ebreak"}
  Ids = {0}
  SlowData = FALSE
  DbgWrites <- FullDebugger
INVARIANTS SingleStep HaltAgreement BranchNotLost TakenOnlyWhenEnabled
