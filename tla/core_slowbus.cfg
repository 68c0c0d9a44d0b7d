\* Late data, a debugger that halts and resumes; jumps through registers; liveness.
SPECIFICATION FairSpec
CONSTANTS
  Insns = {"load", "elw", "brTaken", "jalr", "mret"}
  Ids = {0}
  SlowData = TRUE
  DbgWrites <- HaltAndResume
INVARIANTS TypeOK JumpDoneIsMine NoReLatch
PROPERTIES HaltAnswered IrqResolved
