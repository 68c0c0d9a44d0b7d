\* No debugger; data RAM answers in the next cycle; every class but jalr.
SPECIFICATION Spec
CONSTANTS
  Insns = {"alu", "div", "load", "store", "elw", "brTaken", "brNot", "jal", "csrEI", "csrDI", "ecall", "illegal", "mret", "wfi", "ebreak"}
  Ids = {0}
  SlowData = FALSE
  DbgWrites <- NoDebugger
INVARIANTS OnlyRightPathExecutes NothingForgotten
