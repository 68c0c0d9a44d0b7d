------------------------------ MODULE MCRtos ------------------------------
\* Programs that bring the calls of the kernel together on four tasks.
EXTENDS Rtos

MCPrio == [idle |-> 0, a |-> 1, b |-> 1, c |-> 2]
MCEventList == {toSend, toReceive, forBits}

Call(f, w) == [fn |-> f, wait |-> w]
To(f, u) == [fn |-> f, wait |-> 0, to |-> u]
Bit(f, set) == [fn |-> f, wait |-> 0, set |-> set]
WaitFor(want, all, clear, w) ==
  [fn |-> "waitbits", wait |-> w, want |-> want, all |-> all, clear |-> clear]
SyncAt(set, w) ==
  [fn |-> "sync", wait |-> w, set |-> set, want |-> {1, 2}, all |-> TRUE, clear |-> TRUE]

Prog(a, b, c, isr, created, held) ==
  [calls |-> [idle |-> {Call("idle", 0)}, a |-> a, b |-> b, c |-> c],
   isr |-> isr, created |-> created, held |-> held]

All == <<"a", "b", "c", "idle">>

\* Receivers of two priorities, messages from a handler and from a task.
P1 == Prog({Call("receive", 1)}, {}, {Call("receive", 1)}, {"send"}, <<"a", "c", "idle">>, 1)
P2 == Prog({Call("receive", 1)}, {Call("send", 0)}, {Call("receive", 1)}, {}, All, 1)
\* Senders of two priorities, room made by a task and by a handler.
P3 == Prog({Call("send", 1)}, {Call("receive", 0)}, {Call("send", 1)}, {}, All, 1)
P4 == Prog({Call("send", 1)}, {}, {Call("delay", 1)}, {"receive"}, <<"a", "c", "idle">>, 1)
\* A mailbox: peeks, overwriting and resets.
P5 == Prog({Call("receive", 0), Call("peek", 1)}, {Call("overwrite", 0), Call("reset", 0)},
           {Call("send", 2)}, {}, <<"b", "a", "c", "idle">>, 2)
\* Delays of both kinds, longer than half the cycle of the tick count.
P6 == Prog({Call("until", 2), Call("delay", 2)}, {Call("until", 1), Call("yield", 0)},
           {Call("delay", 1)}, {}, All, 2)
\* Notifications from a task and a handler, with the scheduler suspended.
P7 == Prog({Call("take", 2)}, {To("give", "a"), To("give", "c"), Call("exclusive", 0)},
           {Call("notifywait", 1)}, {"give"}, All, 2)
\* A task deleted while it waits; one created late that deletes itself.
P8 == Prog({Call("receive", 1)}, {Call("delay", 1), To("delete", "a"), To("create", "c")},
           {Call("yield", 0), To("delete", "c")}, {}, <<"a", "b", "idle">>, 1)
\* Event groups: waits for one or for all bits, with and without clearing.
P9 == Prog({WaitFor({1}, FALSE, TRUE, 1)}, {Bit("setbits", {1}), Bit("setbits", {2})},
           {WaitFor({1, 2}, TRUE, FALSE, 2), Bit("clearbits", {1, 2})}, {}, All, 1)
\* A rendezvous of two tasks that a third one watches.
P10 == Prog({SyncAt({1}, 2)}, {WaitFor({1, 2}, FALSE, TRUE, 0), WaitFor({2}, TRUE, TRUE, 2)},
            {SyncAt({2}, 1)}, {}, All, 1)

MCPrograms == {P1, P2, P3, P4, P5, P6, P7, P8, P9, P10}
=============================================================================
