\* Two programs: a main loop woken by an event whose line also interrupts, and
\* one with the interrupt alone, whose handler triggers the event by software.
SPECIFICATION Spec
CONSTANTS
  Line <- MCLine
  Images <- MCImages
  MaxPulses = 3
INVARIANTS GatedOnlyAtRest IrqIsReal SleepMeansAsleep
PROPERTY NoLostWakeUp
