\* Tasks of three priorities under every program of MCRtos.
SPECIFICATION Spec
CONSTANTS
  Task = {"idle", "a", "b", "c"}
  Idle = "idle"
  Prio <- MCPrio
  EventList <- MCEventList
  TickMod = 3
  WrapMod = 2
  Programs <- MCPrograms
  uxLength = 1
  Bits = {1, 2}
INVARIANTS TypeOK ListsAgree SuspendExcludes HighestRuns NoWaiterForgotten NoOversleep GiveWakes NoBitsMissed
PROPERTIES NoEarlyWake ReleasedTogether
