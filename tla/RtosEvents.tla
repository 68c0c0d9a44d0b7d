---------------------------- MODULE RtosEvents ----------------------------
(***************************************************************************)
(* Event groups (event_groups.c).  Their bodies run with the scheduler     *)
(* suspended and touch nothing an interrupt handler touches: each is one   *)
(* step between vTaskSuspendAll and xTaskResumeAll.                        *)
(***************************************************************************)
EXTENDS RtosCalls

\* What a waiting task's event item holds: the bits, whether all are waited for
\* and whether they are cleared; and, once it is released, the bits that did it.
Waiting(c) == [want |-> c.want, all |-> c.all, clear |-> c.clear, unblocked |-> FALSE, by |-> {}]
NotInUse == [want |-> {}, all |-> FALSE, clear |-> FALSE, unblocked |-> FALSE, by |-> {}]

prvTestWaitCondition(bits, c) ==
  IF c.all THEN c.want \subseteq bits ELSE c.want \cap bits # {}

\* xTaskRemoveFromUnorderedEventList.
xTaskRemoveFromUnorderedEventList(s, t) ==
  [MakeReady(RemoveEventItem(s, t), t) EXCEPT !.yield = @ \/ Prio[t] > Prio[s.cur]]

vTaskPlaceOnUnorderedEventList(s, ticks) ==
  DelayCurrentTask([s EXCEPT !.event[forBits] = Append(@, s.cur)], ticks)

\* Faulty variant: a released task's bits are cleared before the next is looked at.
ClearAtOnce(s, g, set) ==
  LET walk(r, t) ==
        IF ~prvTestWaitCondition(r.g.bits, r.g.item[t]) THEN r
        ELSE [k |-> xTaskRemoveFromUnorderedEventList(r.k, t),
              g |-> [r.g EXCEPT !.bits = IF r.g.item[t].clear THEN @ \ r.g.item[t].want ELSE @,
                                !.item[t].unblocked = TRUE, !.item[t].by = r.g.bits]]
  IN  FoldLeft(walk, [k |-> s, g |-> [g EXCEPT !.bits = @ \cup set]], s.event[forBits])

\* Those whose condition the bits meet become ready, in the order of the list.
Release(s, released) ==
  FoldLeft(LAMBDA r, t : IF t \in released THEN xTaskRemoveFromUnorderedEventList(r, t) ELSE r,
           s, s.event[forBits])

\* Faulty variant: only the first waiting task is looked at.
ReleaseHead(s, g, set) ==
  LET bits == g.bits \cup set
      released == {t \in ToSet(s.event[forBits]) :
                     t = Head(s.event[forBits]) /\ prvTestWaitCondition(bits, g.item[t])}
  IN  [k |-> Release(s, released),
       g |-> [bits |-> bits,
              item |-> [t \in Task |-> IF t \notin released THEN g.item[t]
                                       ELSE [g.item[t] EXCEPT !.unblocked = TRUE, !.by = bits]]]]

\* xEventGroupSetBits between its suspend and its resume: every task whose
\* condition the bits meet is released, and only then are bits cleared.
xEventGroupSetBits(s, g, set) ==
  LET bits == g.bits \cup set
      released == {t \in ToSet(s.event[forBits]) : prvTestWaitCondition(bits, g.item[t])}
      cleared == UNION {g.item[t].want : t \in {u \in released : g.item[u].clear}}
  IN  [k |-> Release(s, released),
       g |-> [bits |-> bits \ cleared,
              item |-> [t \in Task |-> IF t \notin released THEN g.item[t]
                                       ELSE [g.item[t] EXCEPT !.unblocked = TRUE, !.by = bits]]]]

\* With the condition met the bits are cleared if asked for; else the task is
\* placed in the list if it may wait.
TakeOrPlace(t, s, g, c, met) ==
  CASE met ->
         /\ k' = s
         /\ group' = [g EXCEPT !.bits = IF c.clear THEN @ \ c.want ELSE @]
         /\ Goto(t, "resume", [at[t] EXCEPT !.onward = "return"])
    [] ~met /\ c.wait = 0 ->
         k' = s /\ group' = g /\ Goto(t, "resume", [at[t] EXCEPT !.onward = "return"])
    [] ~met /\ c.wait > 0 ->
         /\ k' = vTaskPlaceOnUnorderedEventList(s, c.wait)
         /\ group' = [g EXCEPT !.item[t] = Waiting(c)]
         /\ Goto(t, "resume", [at[t] EXCEPT !.onward = "blocked"])

xEventGroupWaitBits(t) ==
  /\ pc[t] = "bits" /\ at[t].call.fn = "waitbits"
  /\ TakeOrPlace(t, k, group, at[t].call, prvTestWaitCondition(group.bits, at[t].call))

\* It sets the bits first (its nested suspend and resume change nothing more)
\* and then asks whether the bits there were, with those, are all it waits for.
xEventGroupSync(t) ==
  /\ pc[t] = "bits" /\ at[t].call.fn = "sync"
  /\ LET c == at[t].call
         r == xEventGroupSetBits(k, group, c.set)
     IN  TakeOrPlace(t, r.k, r.g, c, c.want \subseteq group.bits \cup c.set)

SetBits(t) ==
  /\ pc[t] = "bits" /\ at[t].call.fn = "setbits"
  /\ LET r == xEventGroupSetBits(k, group, at[t].call.set) IN k' = r.k /\ group' = r.g
  /\ Goto(t, "resume", at[t])

xEventGroupClearBits(t) ==
  /\ \E c \in CallsNow(t) :
       /\ c.fn = "clearbits" /\ Here(t, "clearbits", c)
       /\ group' = [group EXCEPT !.bits = @ \ c.set]
  /\ Leave(t) /\ UNCHANGED k

\* After the wait: what released the task is in its item; without that it has
\* timed out and looks at the bits once more.
WaitOver(t) ==
  /\ pc[t] = "bitsback"
  /\ LET c == at[t].call
         again == ~group.item[t].unblocked /\ prvTestWaitCondition(group.bits, c)
     IN  group' = [bits |-> IF again /\ c.clear THEN group.bits \ c.want ELSE group.bits,
                   item |-> [group.item EXCEPT ![t] = NotInUse]]
  /\ Leave(t) /\ UNCHANGED k
=============================================================================
