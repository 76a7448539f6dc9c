---------------------------- MODULE ResourceLease ----------------------------
(***************************************************************************)
(* What a pywire connection promises the Python objects it holds, with no  *)
(* protocol, locks or stores: an object is held from the moment its        *)
(* creation is known until its close callback has been called, a portal    *)
(* only while its statement is held, one close runs at a time, no close    *)
(* that was begun is cut short by the end of serving, and the objects left *)
(* then are closed, portals before statements before the session.          *)
(***************************************************************************)
CONSTANTS Portals, Statements, None

VARIABLES
    phase,     \* serving, cleanup or done
    uses,      \* the statement each held portal was made from, or None
    held,      \* the statements held
    session,   \* the session is held
    closing    \* the object whose close callback runs, or None

leaseVars == <<phase, uses, held, session, closing>>

Init ==
    /\ phase = "serving" /\ uses = [p \in Portals |-> None]
    /\ held = {} /\ session = FALSE /\ closing = None

HeldPortals == {p \in Portals : uses[p] # None}

HoldSession ==
    /\ phase = "serving" /\ closing = None /\ ~session
    /\ session' = TRUE
    /\ UNCHANGED <<phase, uses, held, closing>>

HoldStatement(s) ==
    /\ phase = "serving" /\ closing = None /\ s \notin held
    /\ held' = held \cup {s}
    /\ UNCHANGED <<phase, uses, session, closing>>

HoldPortal(p, s) ==
    /\ phase = "serving" /\ closing = None /\ uses[p] = None /\ s \in held
    /\ uses' = [uses EXCEPT ![p] = s]
    /\ UNCHANGED <<phase, held, session, closing>>

BeginClosePortal(p) ==
    /\ phase # "done" /\ closing = None /\ uses[p] # None
    /\ closing' = p
    /\ UNCHANGED <<phase, uses, held, session>>

\* While serving, a statement goes when its portals have gone; in cleanup,
\* when all portals have.
BeginCloseStatement(s) ==
    /\ phase # "done" /\ closing = None /\ s \in held
    /\ \A p \in HeldPortals : phase = "serving" /\ uses[p] # s
    /\ closing' = s
    /\ UNCHANGED <<phase, uses, held, session>>

Release ==
    /\ closing # None /\ closing' = None
    /\ uses' = [p \in Portals |-> IF p = closing THEN None ELSE uses[p]]
    /\ held' = held \ {closing}
    /\ UNCHANGED <<phase, session>>

\* A close that raised: only cleanup gives up on the object.
Keep ==
    /\ closing # None /\ phase = "serving"
    /\ closing' = None
    /\ UNCHANGED <<phase, uses, held, session>>

EndServing ==
    /\ phase = "serving" /\ closing = None
    /\ phase' = "cleanup"
    /\ UNCHANGED <<uses, held, session, closing>>

CloseSession ==
    /\ phase = "cleanup" /\ closing = None
    /\ HeldPortals = {} /\ held = {}
    /\ phase' = "done" /\ session' = FALSE
    /\ UNCHANGED <<uses, held, closing>>

Next ==
    \/ HoldSession \/ Release \/ Keep \/ EndServing \/ CloseSession
    \/ \E s \in Statements : HoldStatement(s) \/ BeginCloseStatement(s)
    \/ \E p \in Portals : BeginClosePortal(p)
    \/ \E p \in Portals, s \in Statements : HoldPortal(p, s)

Spec == Init /\ [][Next]_leaseVars

=============================================================================
