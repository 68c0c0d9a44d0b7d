\* Two tasks that yield and are interrupted by the tick.
SPECIFICATION Spec
CONSTANTS
  Task = {"a", "b"}
  First = "a"
  Length = 3
  MaxFrames = 3
INVARIANT ResumesAsItStopped
