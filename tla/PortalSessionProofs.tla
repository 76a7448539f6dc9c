------------------------- MODULE PortalSessionProofs -------------------------
(***************************************************************************)
(* Invariants of PortalSession for every set of portal and statement names.*)
(***************************************************************************)
EXTENDS PortalSessionLease, TLAPS

\* No message is answered more than once before its handler fails, so that
\* the error's ReadyForQuery is at most the second.
AnsweredInv ==
    /\ pc \notin {"query_done", "fail", "read", "gone"} => answered = 0
    /\ pc \in {"query_done", "fail"} => answered \in 0..1

\* A close routine runs, and a callback is awaited, only at the labels that
\* started them.
ControlInv ==
    task = "serving" =>
        /\ todo # Nothing =>
             pc \in {"query_statement", "query_run", "query_reply", "query_done",
                     "query_failed", "parse", "bind", "execute_reply", "sync", "reply"}
        /\ call.op \in CloseOps => todo # Nothing
        /\ call.op \notin CloseOps \cup {"none"} =>
             /\ todo = Nothing
             /\ pc \in {"startup", "query_run", "parse", "bind", "describe", "execute"}

\* Typing, with the bound on the answers and the control state that make it
\* inductive.
TypeInv == TypeOK /\ AnsweredInv /\ ControlInv

\* The constants' assumptions in the form the steps use.
LEMMA ConstantFacts ==
    /\ DefaultPortal \in PortalNames /\ DefaultStatement \in StatementNames
    /\ None \notin PortalNames /\ None \notin StatementNames
    /\ PortalNames \cap StatementNames = {}
  BY NamesAssumption

LEMMA TypeInit == Init => TypeInv
<1> SUFFICES ASSUME Init PROVE TypeInv
  OBVIOUS
<1> USE ConstantFacts DEF Init
<1>1. NoCall \in Calls /\ Startup \in Messages /\ Nothing \in Routines /\ NoEntry \in Entries
  BY DEF Calls, NoCall, CloseOps, Outcomes, Names, Messages, Startup, Message, Kinds, Routines,
         Nothing, Entries
<1>2. /\ portals \in [PortalNames -> Entries]
      /\ pstore \in [PortalNames -> PortalStates]
      /\ sstore \in [StatementNames -> {"none", "empty", "value"}]
      /\ pyPortals \in [PortalNames -> StatementNames \cup {None}]
  BY <1>1 DEF PortalStates
<1>3. /\ statements \in SUBSET StatementNames /\ session \in BOOLEAN
      /\ pyStatements \in SUBSET StatementNames /\ refused \in SUBSET Names
  OBVIOUS
<1>4. AnsweredInv /\ ControlInv
  BY DEF AnsweredInv, ControlInv, NoCall, CloseOps
<1>5. TypeOK
  BY <1>1, <1>2, <1>3, FlagsAssumption DEF TypeOK, Labels, Effects, NoEffect, Statuses
<1> QED
  BY <1>4, <1>5 DEF TypeInv

\* What a callback, a query and a dropped future do, by type.
LEMMA EffectTypes ==
  ASSUME TypeOK, NEW c \in Calls, NEW outcome, Effect(c, outcome)
  PROVE  /\ pySession' \in {"none", "open", "closed"}
         /\ pyStatements' \in SUBSET StatementNames
         /\ pyPortals' \in [PortalNames -> StatementNames \cup {None}]
         /\ refused' \in SUBSET Names
<1> USE DEF TypeOK, Calls, NoCall, CloseOps, CallOps, Names
<1>1. pySession' \in {"none", "open", "closed"}
  BY DEF Effect
<1>2. pyStatements' \in SUBSET StatementNames
  BY DEF Effect
<1>3. pyPortals' \in [PortalNames -> StatementNames \cup {None}]
  BY DEF Effect
<1>4. refused' \in SUBSET Names
  BY DEF Effect
<1> QED
  BY <1>1, <1>2, <1>3, <1>4

LEMMA QueryEffectTypes ==
  ASSUME TypeOK, QueryEffect PROVE eff' \in Effects /\ pyTxn' \in {"Idle", "Transaction"}
  BY DEF QueryEffect, TypeOK, Effects, Statuses, StatusAfter, ResponseStatus, ToError

LEMMA AbandonTypes ==
  ASSUME TypeOK, Abandon
  PROVE  lost' \in SUBSET Calls /\ forsaken' \in SUBSET (CallOps \X (Names \cup {None}))
<1> DEFINE left == IF call.op \in {"query", "describe"}
                     THEN [call EXCEPT !.name = None, !.of = None] ELSE call
<1>1. CASE call = NoCall
  BY <1>1 DEF TypeOK, Abandon, NoCall
<1>2. CASE call # NoCall
  <2>1. left \in Calls /\ left.op \in CallOps /\ left.name \in Names \cup {None}
    BY <1>2 DEF TypeOK, Calls, CallOps, CloseOps
  <2> HIDE DEF left
  <2>2. /\ lost' = lost \cup IF call.out = "running" THEN {left} ELSE {}
        /\ forsaken' = forsaken \cup {<<left.op, left.name>>}
    BY <1>2 DEF Abandon, left
  <2> QED
    BY <2>1, <2>2 DEF TypeOK
<1> QED
  BY <1>1, <1>2

LEMMA TypeStep == TypeInv /\ [Next]_vars => TypeInv'
<1> SUFFICES ASSUME TypeInv, [Next]_vars PROVE TypeInv'
  OBVIOUS
<1> USE ConstantFacts DEF TypeInv, TypeOK, AnsweredInv, ControlInv, Labels, Routines, Nothing, NoCall, Calls,
        CloseOps, CallOps, Outcomes, Names, Effects, NoEffect, Statuses, PortalStates, Entries, NoEntry, Messages, Kinds,
        taskVars, wireVars, storeVars, mapVars, pyVars
<1>1. CASE CallPython
  BY <1>1 DEF CallPython, At, Start, Quiet
<1>2. CASE Proceed
  BY <1>2 DEF Proceed, At, Quiet
<1>3. CASE CallbackRaised
  BY <1>3 DEF CallbackRaised, Raise, EndHandler, CloseIfIdle, CloseAllPortals, Present
<1>4. CASE DoQueryReturned
  BY <1>4 DEF DoQueryReturned, QueryReturned, ExecuteReturned, Returned, CloseAllPortals, Present
<1>5. CASE SessionOpened
  BY <1>5 DEF SessionOpened, Returned
<1>6. CASE QueryCloseStatement
  <2>1. todo' \in Routines
    BY <1>6 DEF QueryCloseStatement, CloseStatement, Dependents, Present
  <2> QED
    BY <1>6, <2>1 DEF QueryCloseStatement, At, Quiet
<1>7. CASE QueryReply
  BY <1>7 DEF QueryReply, At, CloseIfIdle, CloseAllPortals, Present
<1>8. CASE QueryReplyFailed
  <2>1. todo' \in Routines
    BY <1>8 DEF QueryReplyFailed, CloseIfIdle, CloseAllPortals, Present
  <2>2. txn' \in Statuses
    BY <1>8 DEF QueryReplyFailed, StatusAfter
  <2> QED
    BY <1>8, <2>1, <2>2 DEF QueryReplyFailed, At
<1>9. CASE EmptyParsed
  BY <1>9 DEF EmptyParsed, At
<1>10. CASE StatementParsed
  BY <1>10 DEF StatementParsed, Returned
<1>11. CASE EmptyBound
  <2>1. [stmt |-> msg.stmt, bound |-> FALSE] \in Entries
    OBVIOUS
  <2>2. /\ portals' = [portals EXCEPT ![msg.portal] = [stmt |-> msg.stmt, bound |-> FALSE]]
        /\ pstore' = [pstore EXCEPT ![msg.portal] = "empty"]
        /\ pc = "bind" /\ pc' = "reply" /\ call = NoCall
        /\ UNCHANGED <<taskVars, lock, msg, todo, call, wireVars, sstore, statements, session, pyVars>>
    BY <1>11 DEF EmptyBound, At
  <2> HIDE DEF Entries
  <2>3. portals' \in [PortalNames -> Entries]
    BY <2>1, <2>2
  <2> QED
    BY <2>2, <2>3
<1>12. CASE PortalBound
  BY <1>12 DEF PortalBound, Returned
<1>13. CASE Described
  BY <1>13 DEF Described, Returned, Quiet
<1>14. CASE ExecuteReply
  <2>1. pstore' \in [PortalNames -> PortalStates]
    BY <1>14 DEF ExecuteReply
  <2> QED
    BY <1>14, <2>1 DEF ExecuteReply, At
<1>15. CASE OnSync
  BY <1>15 DEF OnSync, Receive, Message, At, CloseIfIdle, CloseAllPortals, Present
<1>16. CASE SyncReply
  BY <1>16 DEF SyncReply, At
<1>17. CASE \E empty \in BOOLEAN : OnQuery(empty)
  BY <1>17 DEF OnQuery, Receive, Message, At, ClosePortal
<1>18. CASE \E s \in StatementNames, empty \in BOOLEAN : OnParse(s, empty)
  BY <1>18 DEF OnParse, Receive, Message, At, CloseStatement, Dependents, Present
<1>19. CASE \E p \in PortalNames, s \in StatementNames : OnBind(p, s)
  BY <1>19 DEF OnBind, Receive, Message, At, ClosePortal
<1>20. CASE \E kind \in {"describe", "execute"}, p \in PortalNames : OnPortal(kind, p)
  <2> PICK kind \in {"describe", "execute"}, p \in PortalNames : OnPortal(kind, p)
    BY <1>20
  <2>1. todo' = Nothing /\ pc' \in {"reply", "fail", "execute_reply", kind}
    BY DEF OnPortal
  <2> QED
    BY <2>1 DEF OnPortal, Receive, Message, At
<1>21. CASE \E p \in PortalNames : OnClosePortal(p)
  BY <1>21 DEF OnClosePortal, Receive, Message, At, ClosePortal
<1>22. CASE \E s \in StatementNames : OnDescribeStatement(s) \/ OnCloseStatement(s)
  <2> PICK s \in StatementNames : OnDescribeStatement(s) \/ OnCloseStatement(s)
    BY <1>22
  <2>1. CASE OnCloseStatement(s)
    BY <2>1 DEF OnCloseStatement, Receive, Message, At, CloseStatement, Dependents, Present
  <2>2. CASE OnDescribeStatement(s)
    <3>1. sstore[s] \in {"none", "empty", "value"}
      OBVIOUS
    <3>2. todo' = Nothing /\ pc' \in {"reply", "fail", "describe"}
      BY <2>2, <3>1 DEF OnDescribeStatement
    <3> QED
      BY <2>2, <3>2 DEF OnDescribeStatement, Receive, Message, At
  <2> QED
    BY <2>1, <2>2
<1>23. CASE \E p \in PortalNames : CloseNextPortal(p)
  BY <1>23 DEF CloseNextPortal, Start, TakeLock, RemovePortal
<1>24. CASE CloseTheStatement
  BY <1>24 DEF CloseTheStatement, Start, TakeLock, RemoveStatement
<1>25. CASE CloseDefaultPortal
  BY <1>25 DEF CloseDefaultPortal
<1>26. CASE CloseReturned
  BY <1>26 DEF CloseReturned, RemovePortal, RemoveStatement
<1>27. CASE CloseRaised
  BY <1>27 DEF CloseRaised, Raise, EndHandler, CloseIfIdle, CloseAllPortals, Present
<1>28. CASE ReportError
  BY <1>28 DEF ReportError, At, ToError, Forget, Startup, Message
<1>29. CASE HangUp
  BY <1>29 DEF HangUp, At, Quiet
<1>30. CASE Stop
  BY <1>30 DEF Stop
<1>31. CASE StopQueue
  BY <1>31 DEF StopQueue
<1>32. CASE DropSocket
  BY <1>32, AbandonTypes DEF DropSocket, Startup, Message
<1>33. CASE CleanupReturned
  BY <1>33 DEF CleanupReturned
<1>34. CASE CleanupSession
  <2>1. pySession' \in {"none", "open", "closed"}
    BY <1>34 DEF CleanupSession
  <2>2. /\ session' \in BOOLEAN /\ task' = "done"
        /\ UNCHANGED <<stopping, lost, forsaken, cancels, lock, pc, msg, todo, call,
                       wireVars, storeVars, portals, statements, pyStatements, pyPortals,
                       pyTxn, refused>>
    BY <1>34 DEF CleanupSession
  <2> QED
    BY <2>1, <2>2
<1>35. CASE \E p \in PortalNames : CleanupPortal(p)
  BY <1>35 DEF CleanupPortal, Start, Present
<1>36. CASE \E s \in StatementNames : CleanupStatement(s)
  BY <1>36 DEF CleanupStatement, Start
<1>37. CASE PyReturn
  BY <1>37, EffectTypes, QueryEffectTypes DEF PyReturn
<1>38. CASE LostReturn
  BY <1>38, EffectTypes DEF LostReturn
<1>39. CASE UNCHANGED vars
  BY <1>39 DEF vars
<1>40. CASE Replied
  BY <1>40 DEF Replied, At, Quiet, Forget, Startup, Message
<1>41. CASE ExecuteReplyFailed
  BY <1>41 DEF ExecuteReplyFailed, At, Quiet
<1>42. CASE CancelQuery
  <2>1. todo' \in Routines
    BY <1>42 DEF CancelQuery, EndHandler, CloseIfIdle, CloseAllPortals, Present
  <2>2. cancels' \in 0..MaxCancels
    BY <1>42, FlagsAssumption DEF CancelQuery
  <2> QED
    BY <1>42, <2>1, <2>2, AbandonTypes DEF CancelQuery, EndHandler, CloseIfIdle
<1> QED
  BY <1>1, <1>2, <1>3, <1>4, <1>5, <1>6, <1>7, <1>8, <1>9, <1>10, <1>11, <1>12, <1>13, <1>14, <1>15, <1>16, <1>17, <1>18, <1>19, <1>20,
     <1>21, <1>22, <1>23, <1>24, <1>25, <1>26, <1>27, <1>28, <1>29, <1>30, <1>31, <1>32, <1>33, <1>34, <1>35, <1>36, <1>37, <1>38, <1>39, <1>40,
     <1>41, <1>42
     DEF Next, HandlerStep, CloseStep, CleanupStep, StopDrop, Abort, SocketDone, Terminated

\* Every variable keeps its type, and a message is answered at most twice,
\* through the whole connection, startup, shutdown and cleanup included.
THEOREM TypeCorrect == Spec => []TypeOK
<1>1. TypeInv => TypeOK
  BY DEF TypeInv
<1> QED
  BY <1>1, TypeInit, TypeStep, PTL DEF Spec

LEMMA TypeInvariant == Spec => []TypeInv
  BY TypeInit, TypeStep, PTL DEF Spec

-----------------------------------------------------------------------------

\* The handler holds closing exactly while it awaits a close callback, so that
\* the stop branch, which needs closing, cannot drop it there; a stop branch
\* that is queued keeps it from starting another close.
LockInv == task = "serving" => (lock = "handler") = (call.op \in CloseOps)

\* A step of a handler takes a message, or goes on with the one it has.
LEMMA HandlerSteps ==
  ASSUME HandlerStep
  PROVE  \/ \E m \in Messages : Receive(m)
         \/ CallPython \/ CallbackRaised \/ Proceed \/ Replied \/ DoQueryReturned
         \/ SessionOpened \/ QueryCloseStatement \/ QueryReply \/ QueryReplyFailed
         \/ EmptyParsed \/ StatementParsed \/ EmptyBound \/ PortalBound \/ Described
         \/ ExecuteReply \/ ExecuteReplyFailed \/ SyncReply
<1>1. \A kind \in Kinds, p \in PortalNames, s \in StatementNames, e \in BOOLEAN :
         Message(kind, p, s, e) \in Messages
  BY DEF Message, Messages
<1>2. DefaultPortal \in PortalNames /\ DefaultStatement \in StatementNames
  BY ConstantFacts
<1>3. {"query", "parse", "bind", "describe", "execute", "describe_statement",
       "close_portal", "close_statement", "sync"} \subseteq Kinds
  BY DEF Kinds
<1>4. CASE \E s \in StatementNames, empty \in BOOLEAN : OnParse(s, empty)
  BY <1>1, <1>2, <1>3, <1>4 DEF OnParse
<1>5. CASE \E p \in PortalNames, s \in StatementNames : OnBind(p, s)
  BY <1>1, <1>2, <1>3, <1>5 DEF OnBind
<1>6. CASE \/ \E kind \in {"describe", "execute"}, p \in PortalNames : OnPortal(kind, p)
           \/ \E p \in PortalNames : OnClosePortal(p)
  BY <1>1, <1>2, <1>3, <1>6 DEF OnPortal, OnClosePortal
<1>7. CASE \E s \in StatementNames : OnDescribeStatement(s) \/ OnCloseStatement(s)
  BY <1>1, <1>2, <1>3, <1>7 DEF OnDescribeStatement, OnCloseStatement
<1>8. CASE OnSync \/ \E empty \in BOOLEAN : OnQuery(empty)
  BY <1>1, <1>2, <1>3, <1>8 DEF OnSync, OnQuery
<1> QED
  BY <1>4, <1>5, <1>6, <1>7, <1>8 DEF HandlerStep

\* Without an abort every step keeps the lock with the close and moves the
\* phase as ConnectionPhases says.
LEMMA PhaseStep ==
  ASSUME ~AllowAbort, TypeOK, ControlInv, LockInv, [Next]_vars
  PROVE  /\ LockInv'
         /\ phase' # phase =>
              <<phase, phase'>> \in Own \cup IF stopping = "no" THEN {} ELSE OnStop
<1> USE DEF LockInv, phase, Own, OnStop, Live, NoCall, CloseOps, taskVars
<1>1. CASE \E m \in Messages : Receive(m)
  BY <1>1 DEF Receive, At
<1>2. CASE CallPython \/ CallbackRaised
  BY <1>2 DEF CallPython, CallbackRaised, Raise, EndHandler, At, Start, Quiet
<1>3. CASE \/ DoQueryReturned \/ SessionOpened \/ StatementParsed \/ PortalBound \/ Described
  <2>1. task = "serving" /\ todo = Nothing /\ call' = NoCall
    BY <1>3 DEF DoQueryReturned, QueryReturned, ExecuteReturned, SessionOpened, StatementParsed,
                PortalBound, Described, Returned
  <2>2. call.op \notin CloseOps
    BY <2>1 DEF ControlInv
  <2>3. UNCHANGED <<taskVars, lock>>
    BY <1>3 DEF DoQueryReturned, SessionOpened, StatementParsed, PortalBound, Described, Quiet
  <2> QED
    BY <2>1, <2>2, <2>3
<1>4. CASE \/ Proceed \/ Replied \/ QueryCloseStatement \/ QueryReply \/ QueryReplyFailed
           \/ EmptyParsed \/ EmptyBound \/ ExecuteReply \/ ExecuteReplyFailed \/ SyncReply
  <2>1. UNCHANGED <<taskVars, lock, call>>
    BY <1>4 DEF Proceed, Replied, QueryCloseStatement, QueryReply, QueryReplyFailed, EmptyParsed,
                EmptyBound, ExecuteReply, ExecuteReplyFailed, SyncReply, Quiet
  <2> QED
    BY <2>1
<1>5. CASE CloseStep
  BY <1>5 DEF CloseStep, CloseNextPortal, CloseTheStatement, CloseDefaultPortal,
              CloseReturned, CloseRaised, Raise, EndHandler, TakeLock, LockFree, Start
<1>6. CASE ReportError \/ HangUp \/ Stop \/ StopQueue \/ CancelQuery
  BY <1>6 DEF ReportError, HangUp, Stop, StopQueue, CancelQuery, EndHandler, At, Quiet
<1>7. CASE StopDrop \/ SocketDone
  \* Either the lock is free, so no close runs, or no callback does.
  BY <1>7 DEF StopDrop, SocketDone, DropSocket, At, TypeOK
<1>8. CASE \/ \E p \in PortalNames : CleanupPortal(p)
           \/ \E s \in StatementNames : CleanupStatement(s)
           \/ CleanupReturned \/ CleanupSession
  <2>1. task = "cleanup" /\ task' \in {"cleanup", "done"}
    BY <1>8 DEF CleanupPortal, CleanupStatement, CleanupReturned, CleanupSession
  <2>2. phase = "cleanup" /\ phase' \in {"cleanup", "done"}
    BY <2>1
  <2> HIDE DEF phase
  <2> QED
    BY <2>1, <2>2
<1>9. CASE PyReturn
  <2>1. call'.op = call.op
    BY <1>9 DEF PyReturn, TypeOK, Calls
  <2> QED
    BY <1>9, <2>1 DEF PyReturn
<1>10. CASE LostReturn \/ Terminated \/ UNCHANGED vars
  BY <1>10 DEF LostReturn, Terminated, vars
<1> QED
  BY <1>1, <1>2, <1>3, <1>4, <1>5, <1>6, <1>7, <1>8, <1>9, <1>10, HandlerSteps
     DEF Next, CleanupStep, Abort

\* extended.rs's "Shutdown must not drop a protocol Close callback halfway
\* through": unless the task itself is aborted, it leaves a close only when the
\* callback has finished or the client cancelled the query, never to clean up,
\* and once the stop branch is queued on closing no other close begins.
THEOREM CloseIsNotCutShort ==
  ASSUME ~AllowAbort PROVE Spec => FollowsPhases
<1>1. Init => LockInv
  BY DEF Init, LockInv, NoCall, CloseOps
<1>2. TypeOK /\ ControlInv /\ LockInv /\ [Next]_vars =>
        LockInv' /\ [phase' # phase =>
          <<phase, phase'>> \in Own \cup IF stopping = "no" THEN {} ELSE OnStop]_vars
  BY PhaseStep
<1>3. Spec => [](TypeOK /\ ControlInv)
  <2>1. TypeInv => TypeOK /\ ControlInv
    BY DEF TypeInv
  <2> QED
    BY <2>1, TypeInvariant, PTL
<1> QED
  BY <1>1, <1>2, <1>3, PTL DEF Spec, FollowsPhases

=============================================================================
