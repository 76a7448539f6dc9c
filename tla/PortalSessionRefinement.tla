----------------------- MODULE PortalSessionRefinement -----------------------
(***************************************************************************)
(* A connection keeps the promise of ResourceLease, step by step, unless   *)
(* its task is aborted.                                                    *)
(***************************************************************************)
EXTENDS PortalSessionInvariants

-----------------------------------------------------------------------------
(* The lease as the connection's variables show it *)

Uses == [p \in PortalNames |-> IF portals[p].bound THEN portals[p].stmt ELSE None]
LeaseInv == TypeInv /\ StoreInv /\ PythonInv /\ LockInv

\* What the lease says of a portal, and of the callback that is awaited.
LEMMA LeaseFacts ==
  ASSUME TypeInv
  PROVE  /\ \A p \in PortalNames :
              /\ Uses[p] = IF portals[p].bound THEN portals[p].stmt ELSE None
              /\ portals[p].bound => portals[p].stmt \in StatementNames /\ portals[p].stmt # None
         /\ call.op = "close_portal" => closingName = call.name /\ call.name \in PortalNames
         /\ call.op = "close_statement" => closingName = call.name /\ call.name \in StatementNames
         /\ call.op \in CloseOps => closingName # None
         /\ call.op \notin CloseOps => closingName = None
         /\ NoCall.op \notin CloseOps /\ NoEntry.bound = FALSE
         /\ None \notin PortalNames \cup StatementNames
         /\ \A p \in PortalNames, s \in StatementNames : p # s
  BY ServingTypes, ConstantFacts DEF Uses, closingName, CloseOps, Calls, NoCall, Entries, NoEntry

\* A step that changes nothing the lease can see.
LEMMA Stutter ==
  ASSUME UNCHANGED <<task, Uses, statements, session, closingName>>
  PROVE  UNCHANGED Lease!leaseVars
  BY DEF Lease!leaseVars, Uses

LEMMA SameUses == ASSUME portals' = portals PROVE Uses' = Uses
  BY DEF Uses

LEMMA LeaseInit == Init => Lease!Init
<1> SUFFICES ASSUME Init PROVE Lease!Init
  OBVIOUS
<1>1. \A p \in PortalNames : ~portals[p].bound
  BY DEF Init, NoEntry
<1>2. closingName = None
  BY DEF Init, closingName, NoCall, CloseOps
<1> QED
  BY <1>1, <1>2 DEF Lease!Init, Init

\* Without an abort the lock stays with the close.
LEMMA LockInvariant == ASSUME ~AllowAbort PROVE Spec => []LockInv
<1>1. Init => LockInv
  BY DEF Init, LockInv, NoCall, CloseOps
<1>2. TypeInv /\ LockInv /\ [Next]_vars => LockInv'
  BY PhaseStep DEF TypeInv
<1> QED
  BY <1>1, <1>2, TypeInvariant, PTL DEF Spec

-----------------------------------------------------------------------------
(* The steps of the handlers *)

LEMMA HandlerLease ==
  ASSUME LeaseInv, task' = "serving",
         \/ \E m \in Messages : Receive(m)
         \/ GoingOn \/ Answering \/ Failing \/ CallPython \/ DoQueryReturned
         \/ QueryReply \/ QueryReplyFailed \/ ExecuteReply \/ ReportError
  PROVE  [Lease!Next]_(Lease!leaseVars)
<1> USE LeaseFacts, ServingTypes DEF LeaseInv, At, Returned, taskVars, mapVars, Quiet
<1>1. CASE \/ \E m \in Messages : Receive(m)
           \/ Proceed \/ Replied \/ QueryCloseStatement \/ EmptyParsed \/ ExecuteReplyFailed
           \/ SyncReply \/ HangUp \/ QueryReply \/ QueryReplyFailed \/ ExecuteReply \/ ReportError
  <2>1. UNCHANGED <<task, portals, statements, session, call>>
    BY <1>1 DEF Receive, Proceed, Replied, QueryCloseStatement, EmptyParsed, ExecuteReplyFailed,
       SyncReply, HangUp, QueryReply, QueryReplyFailed, ExecuteReply, ReportError
  <2> QED
    BY <2>1, SameUses, Stutter DEF closingName
<1>2. CASE CallPython \/ Described \/ DoQueryReturned \/ CallbackRaised
  <2>1. UNCHANGED <<task, portals, statements, session>>
    BY <1>2 DEF CallPython, Described, DoQueryReturned, CallbackRaised, Raise, EndHandler
  <2>2. call.op \notin CloseOps /\ call'.op \notin CloseOps
    <3>1. CASE CallPython
      BY <3>1 DEF CallPython, Start, CloseOps
    <3>2. CASE Described \/ DoQueryReturned \/ CallbackRaised
      BY <3>2, ReturnedFrom DEF Described, DoQueryReturned, QueryReturned, ExecuteReturned,
         CallbackRaised, Raise, EndHandler, CloseOps
    <3> QED
      BY <1>2, <3>1, <3>2
  <2> QED
    BY <2>1, <2>2, SameUses, Stutter DEF closingName
<1>3. CASE EmptyBound
  <2>1. /\ UNCHANGED <<task, statements, session, call>>
        /\ portals' = [portals EXCEPT ![msg.portal] = [stmt |-> msg.stmt, bound |-> FALSE]]
        /\ portals[msg.portal] = NoEntry
    BY <1>3 DEF EmptyBound, StoreInv, ServingInv, LabelInv, Nothing
  <2>2. Uses' = Uses
    BY <2>1 DEF Uses
  <2> QED
    BY <2>1, <2>2, Stutter DEF closingName
<1>4. CASE SessionOpened
  <2>1. /\ UNCHANGED <<task, portals, statements>> /\ session' = TRUE /\ task = "serving"
        /\ closingName = None /\ closingName' = None
    BY <1>4, ReturnedFrom DEF SessionOpened, CloseOps, closingName
  <2>2. CASE session
    <3>1. session \in BOOLEAN
      BY DEF TypeInv, TypeOK
    <3> QED
      BY <2>1, <2>2, <3>1, SameUses, Stutter
  <2>3. CASE ~session
    <3>1. Lease!HoldSession
      BY <2>1, <2>3 DEF Lease!HoldSession
    <3> QED
      BY <3>1 DEF Lease!Next
  <2> QED
    BY <2>2, <2>3
<1>5. CASE StatementParsed
  <2>1. /\ UNCHANGED <<task, portals, session>> /\ statements' = statements \cup {msg.stmt}
        /\ task = "serving" /\ closingName = None /\ closingName' = None
        /\ msg.stmt \notin statements
    BY <1>5, ReturnedFrom
       DEF StatementParsed, CloseOps, closingName, StoreInv, StoresAgree, ServingInv, LabelInv, Nothing
  <2>2. Lease!HoldStatement(msg.stmt)
    BY <2>1 DEF Lease!HoldStatement
  <2> QED
    BY <2>2 DEF Lease!Next
<1>6. CASE PortalBound
  <2>1. /\ UNCHANGED <<task, statements, session>> /\ task = "serving"
        /\ closingName = None /\ closingName' = None
        /\ portals[msg.portal] = NoEntry /\ msg.stmt \in statements
        /\ portals' = [portals EXCEPT ![msg.portal] = [stmt |-> msg.stmt, bound |-> TRUE]]
    BY <1>6, ReturnedFrom
       DEF PortalBound, CloseOps, closingName, StoreInv, StoresAgree, ServingInv, LabelInv, Nothing
  <2>2. Uses' = [Uses EXCEPT ![msg.portal] = msg.stmt] /\ Uses[msg.portal] = None
    BY <2>1 DEF Uses
  <2> PICK p \in PortalNames, s \in StatementNames : p = msg.portal /\ s = msg.stmt
    OBVIOUS
  <2>3. Lease!HoldPortal(p, s)
    BY <2>1, <2>2 DEF Lease!HoldPortal, Uses
  <2> QED
    BY <2>3 DEF Lease!Next
<1>7. CASE CloseRaised \/ CancelQuery
  <2>1. /\ UNCHANGED <<task, portals, statements, session>> /\ task = "serving" /\ closingName' = None
    BY <1>7 DEF CloseRaised, CancelQuery, Raise, EndHandler, closingName
  <2>2. CASE closingName = None
    BY <2>1, <2>2, SameUses, Stutter
  <2>3. CASE closingName # None
    <3>1. Lease!Keep
      BY <2>1, <2>3, SameUses DEF Lease!Keep, Uses
    <3> QED
      BY <3>1 DEF Lease!Next
  <2> QED
    BY <2>2, <2>3
<1> QED
  BY <1>1, <1>2, <1>3, <1>4, <1>5, <1>6, <1>7 DEF GoingOn, Answering, Failing

-----------------------------------------------------------------------------
(* The closes, and the end *)

\* A close callback that is over gives its object up.
LEMMA ReleaseFacts ==
  ASSUME TypeInv, call.op \in CloseOps, call' = NoCall, UNCHANGED <<task, session>>,
         \/ /\ call.op = "close_portal" /\ statements' = statements
            /\ portals' = [portals EXCEPT ![call.name] = NoEntry]
         \/ /\ call.op = "close_statement" /\ portals' = portals
            /\ statements' = statements \ {call.name}
  PROVE  Lease!Release
<1> USE LeaseFacts, ServingTypes
<1>1. closingName = call.name /\ closingName # None /\ closingName' = None
  BY DEF closingName, CloseOps
<1>2. Uses' = [p \in PortalNames |-> IF p = closingName THEN None ELSE Uses[p]]
  BY <1>1 DEF Uses
<1>3. statements' = statements \ {closingName}
  BY <1>1 DEF CloseOps
<1> QED
  BY <1>1, <1>2, <1>3 DEF Lease!Release, Uses

LEMMA ClosingLease ==
  ASSUME LeaseInv, task' = "serving", Closing
  PROVE  [Lease!Next]_(Lease!leaseVars)
<1> USE LeaseFacts, ServingTypes DEF LeaseInv, taskVars, mapVars
<1>1. CASE \E p \in PortalNames : CloseNextPortal(p)
  <2> PICK p \in PortalNames : CloseNextPortal(p)
    BY <1>1
  <2>1. task = "serving" /\ task' = task /\ call = NoCall /\ closingName = None
    BY DEF CloseNextPortal
  <2>2. CASE portals[p].bound
    <3>1. /\ UNCHANGED <<task, portals, statements, session>>
          /\ call'.op = "close_portal" /\ call'.name = p
      BY <2>1, <2>2 DEF CloseNextPortal, Start
    <3>2. closingName' = p /\ Uses[p] # None
      BY <2>2, <3>1 DEF closingName, CloseOps
    <3>3. Lease!BeginClosePortal(p)
      BY <2>1, <3>1, <3>2, SameUses DEF Lease!BeginClosePortal, Uses
    <3> QED
      BY <3>3 DEF Lease!Next
  <2>3. CASE ~portals[p].bound
    <3>1. /\ UNCHANGED <<task, statements, session, call>>
          /\ portals' = [portals EXCEPT ![p] = NoEntry]
      BY <2>1, <2>3 DEF CloseNextPortal, RemovePortal
    <3>2. Uses' = Uses
      BY <2>3, <3>1 DEF Uses
    <3> QED
      BY <3>1, <3>2, Stutter DEF closingName
  <2> QED
    BY <2>2, <2>3
<1>2. CASE CloseTheStatement
  <2>1. /\ task = "serving" /\ task' = task /\ call = NoCall /\ closingName = None
        /\ todo = [portals |-> {}, then |-> "statement"]
        /\ UNCHANGED <<portals, session>>
    BY <1>2 DEF CloseTheStatement, RemoveStatement
  <2>2. CASE sstore[msg.stmt] = "value"
    <3> PICK s \in StatementNames : s = msg.stmt
      OBVIOUS
    <3>1. statements' = statements /\ s \in statements /\ call'.op = "close_statement" /\ call'.name = s
      BY <1>2, <2>1, <2>2 DEF CloseTheStatement, Start, StoreInv, StoresAgree
    <3>2. closingName' = s
      BY <3>1 DEF closingName, CloseOps
    <3>3. ASSUME NEW p \in PortalNames PROVE Uses[p] # s
      <4>1. Dependents(s) = {}
        BY <2>1 DEF StoreInv, ServingInv, RoutineInv
      <4> QED
        BY <4>1 DEF Dependents, Present
    <3>4. Lease!BeginCloseStatement(s)
      BY <2>1, <3>1, <3>2, <3>3, SameUses DEF Lease!BeginCloseStatement, Lease!HeldPortals, Uses
    <3> QED
      BY <3>4 DEF Lease!Next
  <2>3. CASE sstore[msg.stmt] # "value"
    <3>1. statements' = statements \ {msg.stmt} /\ call' = call
      BY <1>2, <2>3 DEF CloseTheStatement, RemoveStatement
    <3>2. msg.stmt \notin statements
      BY <2>1, <2>3 DEF StoreInv, StoresAgree
    <3>3. statements' = statements
      BY <3>1, <3>2
    <3> QED
      BY <2>1, <3>1, <3>3, SameUses, Stutter DEF closingName
  <2> QED
    BY <2>2, <2>3
<1>3. CASE CloseDefaultPortal
  <2>1. UNCHANGED <<task, portals, statements, session, call>>
    BY <1>3 DEF CloseDefaultPortal
  <2> QED
    BY <2>1, SameUses, Stutter DEF closingName
<1>4. CASE CloseReturned
  <2>1. Lease!Release
    BY <1>4, ReleaseFacts DEF CloseReturned, RemovePortal, RemoveStatement
  <2> QED
    BY <2>1 DEF Lease!Next
<1> QED
  BY <1>1, <1>2, <1>3, <1>4 DEF Closing

\* Serving ends with no close under way: the stop branch has the lock, or the
\* handler is done.
LEMMA EndLease ==
  ASSUME LeaseInv, StopDrop \/ SocketDone
  PROVE  Lease!Next
<1> USE LeaseFacts DEF LeaseInv
<1>1. /\ task = "serving" /\ task' = "cleanup" /\ call' = NoCall
      /\ UNCHANGED <<portals, statements, session>>
  BY DEF StopDrop, SocketDone, At, DropSocket, mapVars
<1>2. call.op \notin CloseOps
  BY DEF StopDrop, SocketDone, At, LockInv
<1>3. Lease!EndServing
  BY <1>1, <1>2 DEF Lease!EndServing, closingName
<1> QED
  BY <1>3 DEF Lease!Next

LEMMA CleanupLease ==
  ASSUME LeaseInv, task # "serving",
         \/ \E p \in PortalNames : CleanupPortal(p)
         \/ \E s \in StatementNames : CleanupStatement(s)
         \/ CleanupReturned \/ CleanupSession
  PROVE  [Lease!Next]_(Lease!leaseVars)
<1> USE LeaseFacts, ServingTypes DEF LeaseInv, taskVars, mapVars
<1>1. CASE \E p \in PortalNames : CleanupPortal(p)
  <2> PICK p \in PortalNames : CleanupPortal(p)
    BY <1>1
  <2>1. task = "cleanup" /\ call = NoCall /\ closingName = None
        /\ UNCHANGED <<task, statements, session>>
    BY DEF CleanupPortal
  <2>2. CASE portals[p].bound
    <3>1. portals' = portals /\ call'.op = "close_portal" /\ call'.name = p
      BY <2>2 DEF CleanupPortal, Start
    <3>2. closingName' = p /\ Uses[p] # None
      BY <2>2, <3>1 DEF closingName, CloseOps
    <3>3. Lease!BeginClosePortal(p)
      BY <2>1, <3>1, <3>2, SameUses DEF Lease!BeginClosePortal, Uses
    <3> QED
      BY <3>3 DEF Lease!Next
  <2>3. CASE ~portals[p].bound
    <3>1. portals' = [portals EXCEPT ![p] = NoEntry] /\ call' = call
      BY <2>3 DEF CleanupPortal
    <3>2. Uses' = Uses
      BY <2>3, <3>1 DEF Uses
    <3> QED
      BY <2>1, <3>1, <3>2, Stutter DEF closingName
  <2> QED
    BY <2>2, <2>3
<1>2. CASE \E s \in StatementNames : CleanupStatement(s)
  <2> PICK s \in StatementNames : CleanupStatement(s)
    BY <1>2
  <2>1. /\ task = "cleanup" /\ call = NoCall /\ closingName = None /\ Present = {}
        /\ s \in statements /\ call'.op = "close_statement" /\ call'.name = s
        /\ UNCHANGED <<task, portals, statements, session>>
    BY DEF CleanupStatement, Start, PortalsGone
  <2>2. closingName' = s
    BY <2>1 DEF closingName, CloseOps
  <2>3. \A p \in PortalNames : Uses[p] = None
    BY <2>1 DEF Present
  <2>4. Lease!BeginCloseStatement(s)
    BY <2>1, <2>2, <2>3, SameUses DEF Lease!BeginCloseStatement, Lease!HeldPortals, Uses
  <2> QED
    BY <2>4 DEF Lease!Next
<1>3. CASE CleanupReturned
  <2>1. Lease!Release
    BY <1>3, ReleaseFacts DEF CleanupReturned, CloseOps
  <2> QED
    BY <2>1 DEF Lease!Next
<1>4. CASE CleanupSession
  <2>1. /\ task = "cleanup" /\ task' = "done" /\ session' = FALSE /\ call = NoCall /\ call' = call
        /\ closingName = None /\ closingName' = None /\ Present = {} /\ statements = {}
        /\ UNCHANGED <<portals, statements>>
    BY <1>4 DEF CleanupSession, AllGone, closingName
  <2>2. \A p \in PortalNames : Uses[p] = None
    BY <2>1 DEF Present
  <2>3. Lease!CloseSession
    BY <2>1, <2>2, SameUses DEF Lease!CloseSession, Lease!HeldPortals, Uses
  <2> QED
    BY <2>3 DEF Lease!Next
<1> QED
  BY <1>1, <1>2, <1>3, <1>4

\* Python and the stop signal are not part of the lease.
LEMMA OutsideLease ==
  ASSUME LeaseInv, PyReturn \/ LostReturn \/ Stop \/ StopQueue \/ UNCHANGED vars
  PROVE  UNCHANGED Lease!leaseVars
<1>1. UNCHANGED <<task, portals, statements, session>>
  BY DEF PyReturn, LostReturn, Stop, StopQueue, vars, taskVars, mapVars
<1>2. call'.op = call.op /\ call'.name = call.name
  BY PyReturnFacts DEF LeaseInv, LostReturn, Stop, StopQueue, vars
<1> QED
  BY <1>1, <1>2, SameUses, Stutter DEF closingName

\* Unless the task is aborted, everything a connection does to the Python
\* objects it holds, while serving and in cleanup, is what ResourceLease
\* allows: no close is cut short by the end of serving, no statement closes
\* before its portals, and the session goes last.
THEOREM ConnectionKeepsItsLease ==
  ASSUME ~AllowAbort PROVE Spec => ImplementsLease
<1>1. LeaseInv /\ [Next]_vars => [Lease!Next]_(Lease!leaseVars)
  <2> SUFFICES ASSUME LeaseInv, [Next]_vars PROVE [Lease!Next]_(Lease!leaseVars)
    OBVIOUS
  <2>1. CASE task = "serving" /\ task' = "serving"
    BY <2>1, ServingSteps, HandlerLease, ClosingLease, OutsideLease
  <2>2. CASE task = "serving" /\ task' # "serving"
    <3>1. ~PyReturn /\ ~LostReturn /\ ~CleanupSession
      BY <2>2 DEF PyReturn, LostReturn, CleanupSession, taskVars
    <3>2. StopDrop \/ SocketDone
      BY <2>2, <3>1, PythonOnly DEF Abort
    <3> QED
      BY <3>2, EndLease
  <2>3. CASE task # "serving"
    BY <2>3, CleanupSteps, CleanupLease, OutsideLease
  <2> QED
    BY <2>1, <2>2, <2>3
<1>2. Spec => []LeaseInv
  <2>1. TypeInv /\ StoreInv /\ PythonInv /\ LockInv => LeaseInv
    BY DEF LeaseInv
  <2> QED
    BY <2>1, TypeInvariant, StoreInvariant, PythonInvariant, LockInvariant, PTL
<1> QED
  BY <1>1, <1>2, LeaseInit, PTL DEF Spec, ImplementsLease, Lease!Spec

=============================================================================
