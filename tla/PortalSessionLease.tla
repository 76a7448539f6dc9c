------------------------- MODULE PortalSessionLease -------------------------
(***************************************************************************)
(* PortalSession implements ResourceLease: the PythonPortals maps are what *)
(* the connection holds, the close callback it awaits is the one closing.  *)
(***************************************************************************)
EXTENDS PortalSession, ConnectionPhases

closingName == IF call.op \in CloseOps THEN call.name ELSE None

Lease == INSTANCE ResourceLease WITH
    Portals <- PortalNames, Statements <- StatementNames,
    phase <- task, held <- statements, closing <- closingName,
    uses <- [p \in PortalNames |-> IF portals[p].bound THEN portals[p].stmt ELSE None]

\* set_session, on_parse, on_bind, close_portal, close_statement, the stop
\* branch of the connection task and cleanup_entries keep the promise: every
\* step of the connection is a step of the lease or changes nothing in it.
ImplementsLease == Lease!Spec

\* The phase of the connection task as serve() sees it.
phase ==
    IF task # "serving" THEN task
    ELSE IF call.op \in CloseOps
      THEN IF stopping = "queued" THEN "finishing" ELSE "closing"
      ELSE IF stopping = "queued" THEN "stopped" ELSE "serving"

\* "Shutdown must not drop a protocol Close callback halfway through"
\* (extended.rs): the select! of the connection task moves only as
\* ServerLifecycle's connections do, so that only an abort ends serving in the
\* middle of a close, and a stop that queued for closing lets no further close
\* begin.
FollowsPhases ==
    [][phase' # phase =>
         <<phase, phase'>> \in Own \cup IF stopping = "no" THEN {} ELSE OnStop]_vars

=============================================================================
