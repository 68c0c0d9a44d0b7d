---- MODULE MCWakeUp ----
EXTENDS WakeUpProofs, TLC
Op(k) == [k |-> k, to |-> 0, wr |-> EU!NoTransfer]
Jump(a) == [k |-> "jal", to |-> a, wr |-> EU!NoTransfer]
Store(u, r, v) == [k |-> "store", to |-> 0, wr |-> [unit |-> u, wr |-> [reg |-> r, data |-> v]]]
MCLine == 1
EventLoop == (0 :> Store("EVENT", "ENABLE", {MCLine})) @@ (1 :> Store("IRQ", "ENABLE", {MCLine}))
  @@ (2 :> Op("csrEI"))
  @@ (3 :> Store("SLEEP", "SLEEP_CTRL", TRUE)) @@ (4 :> Op("wfi"))
  @@ (5 :> Store("EVENT", "CLEAR_PENDING", {MCLine})) @@ (6 :> Op("load")) @@ (7 :> Jump(3))
  @@ (8 :> Store("IRQ", "CLEAR_PENDING", {MCLine})) @@ (9 :> Op("mret"))
IrqOnly == (0 :> Store("IRQ", "ENABLE", {MCLine})) @@ (1 :> Op("csrEI"))
  @@ (2 :> Store("SLEEP", "SLEEP_CTRL", TRUE)) @@ (3 :> Op("wfi"))
  @@ (4 :> Store("EVENT", "CLEAR_PENDING", {MCLine})) @@ (5 :> Op("load")) @@ (6 :> Jump(2))
  @@ (7 :> Store("IRQ", "CLEAR_PENDING", {MCLine}))
  @@ (8 :> Store("EVENT", "SET_PENDING", {MCLine})) @@ (9 :> Op("mret"))
MCImages == {[program |-> EventLoop, vector |-> 8, work |-> 6],
             [program |-> IrqOnly, vector |-> 7, work |-> 5]}
====
