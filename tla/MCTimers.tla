----------------------------- MODULE MCTimers -----------------------------
EXTENDS Timers

\* Both timers started again and again; each alone with the other commands.
MCApplications ==
  {{<<"shot", "start">>, <<"auto", "start">>},
   {<<"auto", "start">>, <<"auto", "stop">>},
   {<<"auto", "start">>, <<"auto", "period">>},
   {<<"shot", "start">>, <<"shot", "delete">>, <<"auto", "period">>}}
=============================================================================
