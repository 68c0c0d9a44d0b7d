\* A one-shot and an auto-reload timer over many cycles of the tick count.
SPECIFICATION Spec
CONSTANTS
  Timer = {"shot", "auto"}
  AutoReload = {"auto"}
  Periods = {1, 2}
  Applications <- MCApplications
  TickMod = 5
  QueueLength = 2
  MaxLate = 2
INVARIANTS TypeOK NeverEarly NoOverdueAsleep AutoReloadGoesOn
