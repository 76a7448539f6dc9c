-------------------------- MODULE ConnectionPhases --------------------------
(***************************************************************************)
(* What serve() sees of one connection task: it serves (perhaps with a     *)
(* close callback running under the closing lock), it cleans up, it is     *)
(* done.  PortalSessionLease checks that PortalSession moves this way, and *)
(* ServerLifecycle builds its connections from these moves.                *)
(***************************************************************************)

\* finishing: a close callback runs and the stop branch is queued on closing;
\* stopped: that callback has returned and the stop branch is about to run.
Live == {"serving", "closing", "finishing", "stopped"}
Phases == Live \cup {"cleanup", "done"}

\* The task's own moves.
Own == {<<"serving", "closing">>, <<"closing", "serving">>, <<"finishing", "stopped">>,
        <<"serving", "cleanup">>, <<"stopped", "cleanup">>, <<"cleanup", "done">>}

\* The moves of the stop branch, once it has been signalled.
OnStop == {<<"serving", "cleanup">>, <<"closing", "finishing">>, <<"stopped", "cleanup">>}

\* The moves of a task that is aborted.
OnAbort == {<<p, "cleanup">> : p \in Live}

=============================================================================
