----------------------- MODULE PortalSessionInvariants -----------------------
(***************************************************************************)
(* The safety properties of PortalSession, for every set of portal and     *)
(* statement names and any number of cancel requests.                      *)
(***************************************************************************)
EXTENDS PortalSessionProofs

-----------------------------------------------------------------------------
(* The inductive invariant *)

\* The message a label belongs to.
QueryLabels == {"query_statement", "query_run", "query_reply", "query_done", "query_failed"}
KindInv ==
    /\ pc = "startup" => msg.kind = "startup"
    /\ pc \in QueryLabels => msg.kind = "query"
    /\ pc = "parse" => msg.kind = "parse"
    /\ pc = "bind" => msg.kind = "bind"
    /\ pc = "describe" => msg.kind \in {"describe", "describe_statement"}
    /\ pc \in {"execute", "execute_reply"} => msg.kind = "execute"
    /\ pc = "sync" => msg.kind = "sync"
    /\ pc = "reply" => msg.kind \notin {"query", "sync"}

\* The callback awaited at a label, and the object it is about.
CallInv ==
    /\ call.op = "open" => pc = "startup"
    /\ call.op = "query" =>
         \/ pc = "query_run" /\ call.name = None
         \/ /\ pc = "execute" /\ call.name = msg.portal
            /\ call.of = portals[msg.portal].stmt
    /\ call.op = "parse" => pc = "parse" /\ call.name = msg.stmt
    /\ call.op = "bind" =>
         pc = "bind" /\ call.name = msg.portal /\ call.of = msg.stmt /\ sstore[msg.stmt] = "value"
    /\ call.op = "describe" =>
         /\ pc = "describe" /\ msg.kind = "describe"
         /\ call.name = msg.portal /\ call.of = portals[msg.portal].stmt
    /\ call.op = "describe_statement" =>
         pc = "describe" /\ msg.kind = "describe_statement" /\ call.name = msg.stmt
    /\ call.op = "close_portal" => call.name \in todo.portals /\ portals[call.name].bound
    /\ call.op = "close_statement" =>
         /\ todo = [portals |-> {}, then |-> "statement"]
         /\ call.name = msg.stmt /\ sstore[msg.stmt] = "value"

\* A close routine has still to close whatever would be in the way at its end.
RoutineInv ==
    /\ todo.then = "default" => Present \subseteq todo.portals
    /\ todo.then = "statement" =>
         pc \in {"query_run", "parse", "reply"} /\ Dependents(msg.stmt) \subseteq todo.portals
    /\ pc \in {"query_reply", "execute_reply"} => todo = Nothing \/ todo.then = "default"

\* What a handler found in the stores before it closed anything still holds
\* when it goes on.
LabelInv ==
    /\ pc = "query_statement" => msg.stmt = DefaultStatement
    /\ pc = "parse" => sstore[msg.stmt] = "none" \/ todo.then = "statement"
    /\ pc = "bind" =>
         /\ sstore[msg.stmt] # "none"
         /\ portals[msg.portal] = NoEntry \/ msg.portal \in todo.portals
    /\ pc = "execute" \/ (pc = "describe" /\ msg.kind = "describe") => portals[msg.portal].bound
    /\ pc = "describe" /\ msg.kind = "describe_statement" => sstore[msg.stmt] = "value"
    /\ pc = "execute_reply" => pstore[msg.portal] # "empty"

\* The stores, the maps and the handler, while serving.
ServingInv == KindInv /\ CallInv /\ RoutineInv /\ LabelInv
StoreInv == StoresAgree /\ PortalHasStatement /\ (task = "serving" => ServingInv)

\* An abandoned callback that still runs is in the history; a handler abandons
\* only queries and the closes after them.
LostInv ==
    /\ \A c \in lost : <<c.op, c.name>> \in forsaken
    /\ \A f \in forsaken :
         /\ f[1] \in {"parse", "close_statement"} => f[2] \in StatementNames
         /\ f[1] \in {"bind", "close_portal"} => f[2] \in PortalNames
         /\ task = "serving" => f[1] \in {"query", "close_portal"}

\* While serving, Python and the maps differ by the result that is on its way.
Done(op) == call.op = op /\ call.out = "ok"
MirrorInv ==
    /\ pyStatements = IF Done("parse") THEN statements \cup {call.name}
                      ELSE IF Done("close_statement") THEN statements \ {call.name}
                      ELSE statements
    /\ \A p \in PortalNames :
         /\ pyPortals[p] # None =>
              /\ ~(Done("close_portal") /\ p = call.name)
              /\ \/ portals[p] = [stmt |-> pyPortals[p], bound |-> TRUE]
                 \/ Done("bind") /\ p = call.name /\ pyPortals[p] = call.of
         /\ portals[p].bound \/ (Done("bind") /\ p = call.name) =>
              pyPortals[p] # None \/ p \in Doubtful \/ (Done("close_portal") /\ p = call.name)

\* Cleanup closes portals, then statements; what it has not closed is what
\* Python holds, but for refusals and abandoned callbacks.
CleanupInv ==
    /\ call.op \in CloseOps \cup {"none"} /\ (call.op \in CloseOps => task = "cleanup")
    /\ call.op = "close_portal" => portals[call.name].bound
    /\ call.op = "close_statement" => Present = {} /\ call.name \in statements
    /\ task = "done" => Present = {} /\ statements = {}
    /\ \A p \in PortalNames :
         portals[p].bound => portals[p].stmt \in statements /\ portals[p].stmt \notin Doubtful
LeftInv ==
    /\ \A p \in PortalNames :
         /\ portals[p].bound /\ p \notin Doubtful =>
              pyPortals[p] # None \/ (Done("close_portal") /\ p = call.name)
         /\ pyPortals[p] # None /\ p \notin Unreachable =>
              portals[p] = [stmt |-> pyPortals[p], bound |-> TRUE] \/ p \in refused
    /\ \A s \in statements \ Doubtful : s \in pyStatements \/ (Done("close_statement") /\ s = call.name)
    /\ pyStatements \subseteq statements \cup refused \cup Unreachable
    /\ call.op = "close_portal" /\ call.out \in Outcomes /\ call.name \notin Unreachable =>
         call.name \in refused \/ pyPortals[call.name] = None
    /\ call.op = "close_statement" /\ call.out \in Outcomes /\ call.name \notin Unreachable =>
         call.name \in refused \/ call.name \notin pyStatements

PythonInv ==
    /\ LostInv /\ (pySession = "closed" => task = "done")
    /\ task = "serving" => MirrorInv
    /\ task # "serving" => CleanupInv /\ LeftInv

\* An open session is known to the maps, or about to be, and is closed at the
\* end: only the one whose open() was abandoned is not.
GivenUp == \E f \in forsaken : f[1] = "open"
SessionInv ==
    pySession = "open" => GivenUp \/ (task # "done" /\ (session \/ Done("open")))

\* The responses of a query on their way, and what they will do.
Pending == Done("query") \/ pc \in {"query_reply", "execute_reply"}
EffectInv ==
    /\ ~Pending /\ pc # "gone" => eff = NoEffect(txn)
    /\ eff.ends /\ pc \in {"query_reply", "execute_reply"} => todo.then = "default" \/ Present = {}
    /\ /\ pc \notin {"fail", "query_failed", "gone"} /\ eff.txn = "Transaction"
       /\ \A f \in forsaken : f[1] # "query"
       => pyTxn = "Transaction"

\* An idle connection has no portals once a Query or Sync is over.
Clean == Present = {} \/ refused # {} \/ Doubtful # {}
IdleInv ==
    /\ pc \in {"query_done", "query_failed", "sync"} /\ txn = "Idle" =>
         todo.then = "default" \/ Present = {}
    /\ pc = "fail" /\ msg.kind = "query" /\ txn = "Idle" => Clean
    /\ /\ pc = "read" /\ msg.kind \in {"query", "sync"}
       /\ cstate = "ReadyForQuery" /\ txn = "Idle"
       => Clean
    /\ call.op \in CloseOps /\ call.out = "raised" => refused # {} \/ Doubtful # {}

AnswerInv ==
    /\ pc = "query_done" \/ (pc = "read" /\ msg.kind = "query") => answered >= 1
    /\ pc = "fail" /\ msg.kind = "query" => answered = 0 \/ refused # {} \/ Doubtful # {}
    /\ pc = "read" /\ msg.kind = "query" => answered = 1 \/ refused # {} \/ Doubtful # {}
    /\ pc = "fail" /\ msg.kind = "sync" => answered = 0
    /\ pc = "read" /\ msg.kind = "sync" => (answered = 1) = (cstate = "ReadyForQuery")

ClientInv == task = "serving" => EffectInv /\ IdleInv /\ AnswerInv

-----------------------------------------------------------------------------
(* The stores and the handler *)

\* A connection that no longer serves never does again.
LEMMA ServingBefore ==
  ASSUME [Next]_vars, task' = "serving" PROVE task = "serving"
<1> USE DEF taskVars
<1>1. CASE \E m \in Messages : Receive(m)
  BY <1>1 DEF Receive, At
<1>2. CASE HandlerStep /\ ~ \E m \in Messages : Receive(m)
  BY <1>2, HandlerSteps DEF CallPython, CallbackRaised, Proceed, Replied, DoQueryReturned, QueryReturned,
     ExecuteReturned, SessionOpened, QueryCloseStatement, QueryReply, QueryReplyFailed, EmptyParsed,
     StatementParsed, EmptyBound, PortalBound, Described, ExecuteReply, ExecuteReplyFailed, SyncReply,
     At, Returned
<1>3. CASE CloseStep
  BY <1>3 DEF CloseStep, CloseNextPortal, CloseTheStatement, CloseDefaultPortal, CloseReturned, CloseRaised
<1>4. CASE ReportError \/ HangUp \/ CancelQuery \/ Stop \/ StopQueue \/ StopDrop \/ Abort
  BY <1>4 DEF ReportError, HangUp, CancelQuery, Stop, StopQueue, StopDrop, Abort, DropSocket, At
<1>5. CASE CleanupStep
  BY <1>5 DEF CleanupStep, SocketDone, DropSocket, CleanupReturned, CleanupSession, CleanupPortal,
     CleanupStatement
<1>6. CASE PyReturn \/ LostReturn \/ UNCHANGED vars
  BY <1>6 DEF PyReturn, LostReturn, vars
<1> QED
  BY <1>1, <1>2, <1>3, <1>4, <1>5, <1>6 DEF Next, Terminated

\* What depends on the stores and the maps alone.
LEMMA StoresUnchanged ==
  ASSUME StoresAgree, PortalHasStatement, task = "serving",
         UNCHANGED <<pstore, sstore, portals, statements>>
  PROVE  /\ StoresAgree' /\ PortalHasStatement' /\ Present' = Present /\ Bound' = Bound
         /\ Dependents(msg.stmt)' = {p \in Present : portals[p].stmt = msg'.stmt}
  BY DEF StoresAgree, PortalHasStatement, Present, Bound, Dependents

\* The type facts the steps use.
LEMMA ServingTypes ==
  ASSUME TypeInv
  PROVE  /\ msg.portal \in PortalNames /\ msg.stmt \in StatementNames
         /\ portals \in [PortalNames -> Entries]
         /\ \A p \in PortalNames : portals[p].bound => portals[p] # NoEntry
         /\ pstore \in [PortalNames -> PortalStates]
         /\ sstore \in [StatementNames -> {"none", "empty", "value"}]
         /\ statements \subseteq StatementNames
         /\ todo.portals \subseteq PortalNames /\ todo.then \in {"return", "statement", "default"}
         /\ todo = [portals |-> todo.portals, then |-> todo.then]
         /\ call \in Calls /\ (call = NoCall <=> call.op = "none")
  BY DEF TypeInv, TypeOK, Messages, Routines, Calls, NoCall, CallOps, CloseOps, Entries, NoEntry

\* The callback that returns at a label.
LEMMA ReturnedFrom ==
  ASSUME TypeInv, StoreInv, NEW l, Returned(l)
  PROVE  /\ l = "startup" => call.op = "open"
         /\ l \in {"query_run", "execute"} => call.op = "query"
         /\ l = "parse" => call.op = "parse" /\ call.name = msg.stmt
         /\ l = "bind" => /\ call.op = "bind" /\ call.name = msg.portal /\ call.of = msg.stmt
                          /\ sstore[msg.stmt] = "value"
         /\ l = "describe" => call.op \in {"describe", "describe_statement"}
<1>1. task = "serving" /\ pc = l /\ todo = Nothing /\ call.out = "ok"
  BY DEF Returned
<1>2. call.op \in CallOps \ CloseOps
  BY <1>1 DEF TypeInv, TypeOK, ControlInv, Calls, NoCall, CallOps
<1> QED
  BY <1>1, <1>2 DEF StoreInv, ServingInv, CallInv, CallOps, CloseOps

\* Taking a message.
LEMMA ReceiveKeeps ==
  ASSUME TypeInv, StoreInv, HandlerStep, NEW m \in Messages, Receive(m)
  PROVE  StoreInv'
<1> USE ServingTypes DEF StoreInv, ServingInv, KindInv, CallInv, RoutineInv, LabelInv, QueryLabels,
            storeVars, mapVars, taskVars, Receive, At, Message
<1>1. /\ task = "serving" /\ pc = "read" /\ todo = Nothing /\ call = NoCall /\ call' = call
      /\ UNCHANGED <<task, pstore, sstore, portals, statements>>
  OBVIOUS
<1>2. /\ StoresAgree' /\ PortalHasStatement' /\ Present' = Present
      /\ Dependents(msg.stmt)' = {p \in Present : portals[p].stmt = msg'.stmt}
  BY <1>1, StoresUnchanged
<1>3. CallInv'
  BY <1>1 DEF NoCall, CloseOps
<1>4. CASE \E empty \in BOOLEAN : OnQuery(empty)
  BY <1>1, <1>2, <1>3, <1>4 DEF OnQuery, ClosePortal
<1>5. CASE \E s \in StatementNames, empty \in BOOLEAN : OnParse(s, empty)
  BY <1>1, <1>2, <1>3, <1>5 DEF OnParse, CloseStatement, Dependents, Nothing
<1>6. CASE \E p \in PortalNames, s \in StatementNames : OnBind(p, s)
  BY <1>1, <1>2, <1>3, <1>6 DEF OnBind, ClosePortal, Nothing
<1>7. CASE \E kind \in {"describe", "execute"}, p \in PortalNames : OnPortal(kind, p)
  BY <1>1, <1>2, <1>3, <1>7 DEF OnPortal, Nothing
<1>8. CASE \E p \in PortalNames : OnClosePortal(p)
  BY <1>1, <1>2, <1>3, <1>8 DEF OnClosePortal, ClosePortal
<1>9. CASE \E s \in StatementNames : OnDescribeStatement(s)
  BY <1>1, <1>2, <1>3, <1>9 DEF OnDescribeStatement, Nothing
<1>10. CASE \E s \in StatementNames : OnCloseStatement(s)
  BY <1>1, <1>2, <1>3, <1>10 DEF OnCloseStatement, CloseStatement, Dependents
<1>11. CASE OnSync
  BY <1>1, <1>2, <1>3, <1>11 DEF OnSync, CloseIfIdle, CloseAllPortals, Nothing
<1> QED
  \* No other step of a handler begins at the label "read".
  BY <1>1, <1>4, <1>5, <1>6, <1>7, <1>8, <1>9, <1>10, <1>11
     DEF HandlerStep, CallPython, CallbackRaised, Proceed, Replied, DoQueryReturned, QueryReturned,
         ExecuteReturned, SessionOpened, QueryCloseStatement, QueryReply, QueryReplyFailed,
         EmptyParsed, StatementParsed, EmptyBound, PortalBound, Described, ExecuteReply,
         ExecuteReplyFailed, SyncReply, Returned, NoCall

\* Going on with a message, the stores as they are.
LEMMA ControlKeeps ==
  ASSUME TypeInv, StoreInv, task' = "serving",
         \/ CallPython \/ CallbackRaised \/ Proceed \/ Replied \/ DoQueryReturned \/ SessionOpened
         \/ QueryCloseStatement \/ QueryReply \/ QueryReplyFailed \/ Described
         \/ ExecuteReplyFailed \/ SyncReply \/ ReportError \/ HangUp \/ CancelQuery \/ CloseRaised
  PROVE  StoreInv'
<1> USE ServingTypes DEF StoreInv, ServingInv, KindInv, CallInv, RoutineInv, LabelInv, QueryLabels,
            storeVars, mapVars, taskVars, Quiet, At, Returned
<1>1. /\ task = "serving" /\ UNCHANGED <<pstore, sstore, portals, statements>>
  BY DEF CallPython, CallbackRaised, Proceed, Replied, DoQueryReturned, QueryReturned, ExecuteReturned,
     SessionOpened, QueryCloseStatement, QueryReply, QueryReplyFailed, Described, ExecuteReplyFailed,
     SyncReply, ReportError, HangUp, CancelQuery, CloseRaised, Raise, EndHandler
<1>2. /\ StoresAgree' /\ PortalHasStatement' /\ Present' = Present
      /\ Dependents(msg.stmt)' = {p \in Present : portals[p].stmt = msg'.stmt}
      /\ Dependents(msg.stmt) = {p \in Present : portals[p].stmt = msg.stmt}
  BY <1>1, StoresUnchanged DEF Dependents
<1>3. CASE CallPython
  BY <1>1, <1>2, <1>3 DEF CallPython, Start, CloseOps
<1>4. CASE Proceed \/ HangUp \/ ExecuteReplyFailed
  BY <1>1, <1>2, <1>4 DEF Proceed, HangUp, ExecuteReplyFailed, NoCall, Nothing
<1>5. CASE Replied \/ ReportError
  <2>1. /\ pc' = "read" /\ call = NoCall /\ call' = NoCall /\ todo' = Nothing
    BY <1>5 DEF Replied, ReportError
  <2> QED
    BY <1>1, <1>2, <2>1 DEF NoCall, Nothing
<1>6. CASE DoQueryReturned
  BY <1>1, <1>2, <1>6 DEF DoQueryReturned, QueryReturned, ExecuteReturned, CloseAllPortals, NoCall, Nothing,
     StoresAgree
<1>7. CASE SessionOpened \/ Described
  BY <1>1, <1>2, <1>7 DEF SessionOpened, Described, NoCall
<1>8. CASE QueryCloseStatement
  BY <1>1, <1>2, <1>8 DEF QueryCloseStatement, CloseStatement, NoCall, Nothing, Dependents
<1>9. CASE QueryReply \/ QueryReplyFailed
  <2>1. pc \in {"query_reply"} /\ pc' \in {"query_done", "query_failed"} /\ call = NoCall /\ call' = NoCall
        /\ msg' = msg /\ (todo' = Nothing \/ todo' = CloseAllPortals)
    BY <1>9 DEF QueryReply, QueryReplyFailed, CloseIfIdle
  <2> QED
    BY <1>1, <1>2, <2>1 DEF CloseAllPortals, NoCall, Nothing
<1>10. CASE SyncReply
  BY <1>1, <1>2, <1>10 DEF SyncReply, NoCall, Nothing
<1>11. CASE CallbackRaised \/ CancelQuery \/ CloseRaised
  BY <1>1, <1>2, <1>11 DEF CallbackRaised, CancelQuery, CloseRaised, Raise, EndHandler, CloseIfIdle,
     CloseAllPortals, NoCall, Nothing
<1> QED
  BY <1>3, <1>4, <1>5, <1>6, <1>7, <1>8, <1>9, <1>10, <1>11

\* Removing a portal that is in the way of nothing, with its Python object or
\* without.
LEMMA PortalRemoved ==
  ASSUME TypeInv, StoreInv, task = "serving", task' = "serving",
         NEW p \in todo.portals, RemovePortal(p), call' = NoCall,
         call = NoCall \/ (call.op = "close_portal" /\ call.name = p), UNCHANGED <<pc, msg>>
  PROVE  StoreInv'
<1> USE ServingTypes DEF StoreInv, ServingInv
<1>1. /\ p \in PortalNames /\ sstore' = sstore /\ statements' = statements
      /\ portals' = [portals EXCEPT ![p] = NoEntry] /\ pstore' = [pstore EXCEPT ![p] = "none"]
      /\ todo'.portals = todo.portals \ {p} /\ todo'.then = todo.then
  BY DEF RemovePortal
<1>2. NoEntry.bound = FALSE
  BY DEF NoEntry
<1>3. Present' = Present \ {p} /\ Bound' = Bound \ {p}
  BY <1>1, <1>2 DEF Present, Bound
<1>4. StoresAgree' /\ PortalHasStatement'
  BY <1>1, <1>2, <1>3 DEF StoresAgree, PortalHasStatement, Present
<1>5. pc \notin {"execute", "describe"}
  BY DEF TypeInv, ControlInv, Nothing, NoCall, CloseOps
<1>6. KindInv' /\ CallInv' /\ LabelInv'
  BY <1>1, <1>5 DEF KindInv, CallInv, LabelInv, QueryLabels, NoCall
<1>7. RoutineInv'
  BY <1>1, <1>3 DEF RoutineInv, Dependents, Present, Nothing
<1> QED
  BY <1>4, <1>6, <1>7

\* Removing the statement of the message, no portal of which is left.
LEMMA StatementRemoved ==
  ASSUME TypeInv, StoreInv, task = "serving", task' = "serving",
         todo = [portals |-> {}, then |-> "statement"], RemoveStatement(msg.stmt),
         call' = NoCall, UNCHANGED <<pc, msg>>
  PROVE  StoreInv'
<1> USE ServingTypes DEF StoreInv, ServingInv
<1>1. /\ sstore' = [sstore EXCEPT ![msg.stmt] = "none"] /\ statements' = statements \ {msg.stmt}
      /\ UNCHANGED <<portals, pstore>> /\ todo' = Nothing
  BY DEF RemoveStatement
<1>2. \A p \in Present : portals[p].stmt # msg.stmt
  BY DEF RoutineInv, Dependents
<1>3. Present' = Present /\ Bound' = Bound
  BY <1>1 DEF Present, Bound
<1>4. StoresAgree'
  BY <1>1, <1>3 DEF StoresAgree
<1>5. PortalHasStatement'
  <2>1. \A p \in Present : portals[p].stmt \in StatementNames
    BY DEF Present, Entries, NoEntry
  <2> QED
    BY <1>1, <1>2, <1>3, <2>1 DEF PortalHasStatement
<1>6. pc \in {"query_run", "parse", "reply"}
  BY DEF TypeInv, ControlInv, Nothing, RoutineInv
<1>7. KindInv' /\ CallInv' /\ LabelInv' /\ RoutineInv'
  BY <1>1, <1>6 DEF KindInv, CallInv, LabelInv, RoutineInv, QueryLabels, NoCall, Nothing
<1> QED
  BY <1>4, <1>5, <1>7

\* The steps that change the stores and the maps.
LEMMA ChangeKeeps ==
  ASSUME TypeInv, StoreInv, task' = "serving",
         \/ EmptyParsed \/ StatementParsed \/ EmptyBound \/ PortalBound \/ ExecuteReply
         \/ CloseStep
  PROVE  StoreInv'
<1> USE ServingTypes DEF StoreInv, ServingInv
<1>1. CASE CloseRaised
  BY <1>1, ControlKeeps
<1>2. CASE \E p \in PortalNames : CloseNextPortal(p)
  <2> PICK p \in PortalNames : CloseNextPortal(p)
    BY <1>2
  <2>1. CASE portals[p].bound
    <3>1. /\ task = "serving" /\ p \in todo.portals /\ call' = [op |-> "close_portal", name |-> p,
                of |-> None, out |-> "running"]
          /\ UNCHANGED <<task, pc, msg, todo, pstore, sstore, portals, statements>>
      BY <2>1 DEF CloseNextPortal, Start, storeVars, mapVars, taskVars
    <3>2. /\ StoresAgree' /\ PortalHasStatement' /\ Present' = Present
          /\ Dependents(msg.stmt)' = Dependents(msg.stmt)
      BY <3>1, StoresUnchanged DEF Dependents
    <3> QED
      BY <2>1, <3>1, <3>2 DEF KindInv, CallInv, RoutineInv, LabelInv, QueryLabels
  <2>2. CASE ~portals[p].bound
    BY <2>2, PortalRemoved DEF CloseNextPortal, taskVars
  <2> QED
    BY <2>1, <2>2
<1>3. CASE CloseTheStatement
  <2>1. CASE sstore[msg.stmt] = "value"
    <3>1. /\ task = "serving" /\ todo = [portals |-> {}, then |-> "statement"]
          /\ call' = [op |-> "close_statement", name |-> msg.stmt, of |-> None, out |-> "running"]
          /\ UNCHANGED <<task, pc, msg, todo, pstore, sstore, portals, statements>>
      BY <1>3, <2>1 DEF CloseTheStatement, Start, storeVars, mapVars, taskVars
    <3>2. /\ StoresAgree' /\ PortalHasStatement' /\ Present' = Present
          /\ Dependents(msg.stmt)' = Dependents(msg.stmt)
      BY <3>1, StoresUnchanged DEF Dependents
    <3> QED
      BY <2>1, <3>1, <3>2 DEF KindInv, CallInv, RoutineInv, LabelInv, QueryLabels
  <2>2. CASE sstore[msg.stmt] # "value"
    BY <1>3, <2>2, StatementRemoved DEF CloseTheStatement, taskVars
  <2> QED
    BY <2>1, <2>2
<1>4. CASE CloseDefaultPortal
  <2>1. /\ task = "serving" /\ todo = [portals |-> {}, then |-> "default"] /\ todo' = Nothing
        /\ pstore' = [pstore EXCEPT ![DefaultPortal] = "none"] /\ call = NoCall
        /\ UNCHANGED <<task, pc, msg, call, sstore, portals, statements>>
    BY <1>4 DEF CloseDefaultPortal, mapVars, taskVars
  <2>2. Present = {} /\ Present' = {} /\ Bound' = Bound
    BY <2>1 DEF RoutineInv, Present, Bound
  <2>3. StoresAgree' /\ PortalHasStatement'
    BY <2>1, <2>2 DEF StoresAgree, PortalHasStatement, Present
  <2> QED
    BY <2>1, <2>2, <2>3 DEF KindInv, CallInv, RoutineInv, LabelInv, QueryLabels, NoCall, Nothing
<1>5. CASE CloseReturned
  <2>1. CASE call.op = "close_portal"
    BY <1>5, <2>1, PortalRemoved DEF CloseReturned, CallInv, taskVars
  <2>2. CASE call.op = "close_statement"
    BY <1>5, <2>2, StatementRemoved DEF CloseReturned, CallInv, taskVars
  <2> QED
    BY <1>5, <2>1, <2>2 DEF CloseReturned
<1>6. CASE EmptyParsed \/ StatementParsed
  <2>1. /\ task = "serving" /\ pc = "parse" /\ pc' = "reply" /\ todo = Nothing /\ call' = NoCall
        /\ sstore[msg.stmt] = "none" /\ msg.kind = "parse"
        /\ UNCHANGED <<task, msg, todo, pstore, portals>>
    BY <1>6 DEF EmptyParsed, StatementParsed, At, Returned, KindInv, LabelInv, Nothing, mapVars, taskVars
  <2>2. \/ sstore' = [sstore EXCEPT ![msg.stmt] = "empty"] /\ statements' = statements
        \/ /\ sstore' = [sstore EXCEPT ![msg.stmt] = "value"]
           /\ statements' = statements \cup {msg.stmt}
    BY <1>6 DEF EmptyParsed, StatementParsed, mapVars
  <2>3. Present' = Present /\ Bound' = Bound
    BY <2>1 DEF Present, Bound
  <2>4. StoresAgree' /\ PortalHasStatement'
    BY <2>1, <2>2, <2>3 DEF StoresAgree, PortalHasStatement, Present, Entries
  <2> QED
    BY <2>1, <2>3, <2>4 DEF KindInv, CallInv, RoutineInv, LabelInv, QueryLabels, NoCall, Nothing
<1>7. CASE EmptyBound \/ PortalBound
  <2>1. /\ task = "serving" /\ pc = "bind" /\ pc' = "reply" /\ todo = Nothing /\ call' = NoCall
        /\ portals[msg.portal] = NoEntry /\ msg.kind = "bind" /\ sstore[msg.stmt] # "none"
        /\ UNCHANGED <<task, msg, todo, sstore, statements>>
    BY <1>7 DEF EmptyBound, PortalBound, At, Returned, KindInv, LabelInv, Nothing, mapVars, taskVars
  <2>2. \E b \in BOOLEAN :
          /\ portals' = [portals EXCEPT ![msg.portal] = [stmt |-> msg.stmt, bound |-> b]]
          /\ pstore' = [pstore EXCEPT ![msg.portal] = IF b THEN "value" ELSE "empty"]
          /\ sstore[msg.stmt] = IF b THEN "value" ELSE "empty"
    <3>1. CASE EmptyBound
      BY <2>1, <3>1 DEF EmptyBound
    <3>2. CASE PortalBound
      BY <2>1, <3>2, ReturnedFrom DEF PortalBound
    <3> QED
      BY <1>7, <3>1, <3>2
  <2>3. NoEntry.bound = FALSE /\ NoEntry.stmt = None /\ None \notin StatementNames
    BY ConstantFacts DEF NoEntry
  <2>4. StoresAgree' /\ PortalHasStatement'
    BY <2>1, <2>2, <2>3 DEF StoresAgree, PortalHasStatement, Present, Bound, Entries
  <2> QED
    BY <2>1, <2>4 DEF KindInv, CallInv, RoutineInv, LabelInv, QueryLabels, NoCall, Nothing
<1>8. CASE ExecuteReply
  <2>1. /\ task = "serving" /\ pc = "execute_reply" /\ pc' = "reply" /\ todo = Nothing /\ call = NoCall
        /\ UNCHANGED <<task, msg, todo, call, sstore, portals, statements>>
        /\ msg.kind = "execute" /\ pstore[msg.portal] # "empty"
    BY <1>8 DEF ExecuteReply, At, KindInv, LabelInv, mapVars, taskVars
  <2>2. \/ pstore' = pstore
        \/ /\ pstore[msg.portal] \in {"value", "suspended"}
           /\ \E st \in {"value", "suspended"} : pstore' = [pstore EXCEPT ![msg.portal] = st]
    BY <1>8, <2>1 DEF ExecuteReply, PortalStates
  <2>3. Present' = Present /\ Bound' = Bound
    BY <2>1 DEF Present, Bound
  <2>4. StoresAgree' /\ PortalHasStatement'
    BY <2>1, <2>2, <2>3 DEF StoresAgree, PortalHasStatement, Present
  <2> QED
    BY <2>1, <2>3, <2>4 DEF KindInv, CallInv, RoutineInv, LabelInv, QueryLabels, NoCall, Nothing
<1> QED
  BY <1>1, <1>2, <1>3, <1>4, <1>5, <1>6, <1>7, <1>8 DEF CloseStep

LEMMA StoreInit == Init => StoreInv
<1> SUFFICES ASSUME Init PROVE StoreInv
  OBVIOUS
<1>1. Present = {} /\ Bound = {} /\ \A p \in PortalNames : ~portals[p].bound
  BY DEF Init, Present, Bound, NoEntry
<1>2. StoresAgree /\ PortalHasStatement
  BY <1>1 DEF Init, StoresAgree, PortalHasStatement
<1>3. ServingInv
  BY DEF Init, ServingInv, KindInv, QueryLabels, CallInv, NoCall, RoutineInv, Nothing, LabelInv,
         Startup, Message
<1> QED
  BY <1>2, <1>3 DEF StoreInv

LEMMA StoreStep == TypeInv /\ StoreInv /\ [Next]_vars => StoreInv'
<1> SUFFICES ASSUME TypeInv, StoreInv, [Next]_vars, task' = "serving" PROVE StoreInv'
  BY DEF StoreInv, StoresAgree, PortalHasStatement
<1>1. task = "serving"
  BY ServingBefore
<1>2. CASE HandlerStep
  BY <1>2, HandlerSteps, ReceiveKeeps, ControlKeeps, ChangeKeeps
<1>3. CASE CloseStep \/ ReportError \/ HangUp \/ CancelQuery
  BY <1>3, ChangeKeeps, ControlKeeps
<1>4. CASE Stop \/ StopQueue \/ PyReturn \/ LostReturn \/ UNCHANGED vars
  <2>1. /\ UNCHANGED <<task, pc, msg, todo, pstore, sstore, portals, statements>>
        /\ call'.op = call.op /\ call'.name = call.name /\ call'.of = call.of
    BY <1>4, ServingTypes DEF Stop, StopQueue, PyReturn, LostReturn, vars, storeVars, mapVars,
                              taskVars, Calls, NoCall
  <2>2. /\ StoresAgree' /\ PortalHasStatement' /\ Present' = Present
        /\ Dependents(msg.stmt)' = Dependents(msg.stmt)
    BY <1>1, <2>1, StoresUnchanged DEF StoreInv, Dependents
  <2> QED
    BY <1>1, <2>1, <2>2 DEF StoreInv, ServingInv, KindInv, CallInv, RoutineInv, LabelInv, QueryLabels
<1>5. CASE StopDrop \/ Abort \/ CleanupStep
  BY <1>1, <1>5 DEF StopDrop, Abort, CleanupStep, SocketDone, DropSocket, CleanupPortal,
     CleanupStatement, CleanupReturned, CleanupSession
<1> QED
  BY <1>2, <1>3, <1>4, <1>5 DEF Next, Terminated

LEMMA StoreInvariant == Spec => []StoreInv
  BY TypeInvariant, StoreInit, StoreStep, PTL DEF Spec

\* pgwire's stores and the maps are written one after the other by different
\* functions of extended.rs: between two awaits they never disagree.
THEOREM StoresAndMapsAgree == Spec => []StoresAgree
<1>1. StoreInv => StoresAgree
  BY DEF StoreInv
<1> QED
  BY <1>1, StoreInvariant, PTL

\* on_parse and close_statement close the portals of a statement before the
\* statement goes: no entry names one that is not there.
THEOREM PortalsKeepTheirStatement == Spec => []PortalHasStatement
<1>1. StoreInv => PortalHasStatement
  BY DEF StoreInv
<1> QED
  BY <1>1, StoreInvariant, PTL

-----------------------------------------------------------------------------
(* Python and the maps *)

\* What a callback does to one object and leaves of the others.
LEMMA EffectFacts ==
  ASSUME TypeInv, NEW c \in Calls, NEW outcome, Effect(c, outcome)
  PROVE  /\ pyStatements' = IF c.op = "parse" /\ outcome = "ok" THEN pyStatements \cup {c.name}
                            ELSE IF c.op = "close_statement" /\ outcome = "ok"
                              THEN pyStatements \ {c.name}
                            ELSE pyStatements
         /\ \A p \in PortalNames :
              pyPortals'[p] = IF c.op = "bind" /\ outcome = "ok" /\ p = c.name THEN c.of
                              ELSE IF c.op = "close_portal" /\ outcome = "ok" /\ p = c.name THEN None
                              ELSE pyPortals[p]
         /\ refused' = IF c.op \notin CloseOps THEN refused
                       ELSE IF outcome = "ok" THEN refused \ {c.name} ELSE refused \cup {c.name}
         /\ pySession' # pySession => pySession' = "open" /\ c.op = "open" /\ outcome = "ok"
<1>1. pyPortals \in [PortalNames -> StatementNames \cup {None}]
  BY DEF TypeInv, TypeOK
<1> QED
  BY <1>1 DEF Effect, CloseOps

\* The history only grows.
LEMMA HistoryGrows ==
  ASSUME forsaken \subseteq forsaken'
  PROVE  Doubtful \subseteq Doubtful' /\ Unreachable \subseteq Unreachable'
  BY DEF Doubtful, Unreachable

LEMMA HistoryNames ==
  ASSUME NEW op, NEW n, <<op, n>> \in forsaken
  PROVE  (op \in CloseOps => n \in Doubtful) /\ (op \in {"parse", "bind"} => n \in Unreachable)
<1>1. <<op, n>>[1] = op /\ <<op, n>>[2] = n
  OBVIOUS
<1> QED
  BY <1>1 DEF Doubtful, Unreachable

LEMMA AbandonFacts ==
  ASSUME TypeInv, Abandon
  PROVE  /\ forsaken \subseteq forsaken'
         /\ call = NoCall => lost' = lost /\ forsaken' = forsaken
         /\ call.op \in CallOps \ {"query", "describe"} => <<call.op, call.name>> \in forsaken'
         /\ \A c \in lost' : c \in lost \/ <<c.op, c.name>> \in forsaken'
         /\ \A f \in forsaken' :
              f \in forsaken \/ (f[1] = call.op /\ (f[1] \notin {"query", "describe"} => f[2] = call.name))
<1> USE DEF CallOps, CloseOps
<1> DEFINE left == IF call.op \in {"query", "describe"}
                     THEN [call EXCEPT !.name = None, !.of = None] ELSE call
<1>1. call = NoCall => lost' = lost /\ forsaken' = forsaken
  BY DEF Abandon, NoCall
<1>2. CASE call # NoCall
  <2>1. left.op = call.op /\ (call.op \notin {"query", "describe"} => left.name = call.name)
    BY <1>2 DEF TypeInv, TypeOK, Calls
  <2>2. /\ lost' = lost \cup IF call.out = "running" THEN {left} ELSE {}
        /\ forsaken' = forsaken \cup {<<left.op, left.name>>}
    BY <1>2 DEF Abandon
  <2> HIDE DEF left
  <2>3. <<left.op, left.name>>[1] = left.op /\ <<left.op, left.name>>[2] = left.name
    OBVIOUS
  <2> QED
    BY <1>2, <2>1, <2>2, <2>3
<1> QED
  BY <1>1, <1>2 DEF NoCall

LEMMA HistoryUnchanged ==
  ASSUME [Next]_vars, ~CancelQuery, ~DropSocket, ~LostReturn
  PROVE  UNCHANGED <<lost, forsaken>>
<1> USE DEF taskVars, Quiet
<1>1. CASE \E m \in Messages : Receive(m)
  BY <1>1 DEF Receive
<1>2. CASE HandlerStep /\ ~ \E m \in Messages : Receive(m)
  BY <1>2, HandlerSteps DEF CallPython, CallbackRaised, Raise, Proceed, Replied, DoQueryReturned,
     SessionOpened, QueryCloseStatement, QueryReply, QueryReplyFailed, EmptyParsed,
     StatementParsed, EmptyBound, PortalBound, Described, ExecuteReply, ExecuteReplyFailed, SyncReply
<1>3. CASE CloseStep
  BY <1>3 DEF CloseStep, CloseNextPortal, CloseTheStatement, CloseDefaultPortal, CloseReturned,
     CloseRaised, Raise
<1>4. CASE ReportError \/ HangUp \/ Stop \/ StopQueue
  BY <1>4 DEF ReportError, HangUp, Stop, StopQueue
<1>5. CASE CleanupStep \/ StopDrop \/ Abort
  BY <1>5 DEF CleanupStep, SocketDone, StopDrop, Abort, CleanupReturned, CleanupSession, CleanupPortal,
     CleanupStatement
<1>6. CASE PyReturn \/ UNCHANGED vars
  BY <1>6 DEF PyReturn, vars
<1> QED
  BY <1>1, <1>2, <1>3, <1>4, <1>5, <1>6 DEF Next, Terminated

\* A cancel request ends a query or the close of a portal after one.
LEMMA CancelledCall ==
  ASSUME TypeInv, StoreInv, CancelQuery
  PROVE  task = "serving" /\ task' = "serving" /\ call.op \in {"query", "close_portal", "none"}
<1>1. task = "serving" /\ task' = "serving"
  BY DEF CancelQuery
<1>2. CASE call.op = "query"
  BY <1>1, <1>2
<1>3. CASE pc \in {"query_reply", "execute_reply"} /\ todo # Nothing
  <2>1. todo.then = "default"
    BY <1>1, <1>3 DEF StoreInv, ServingInv, RoutineInv
  <2> QED
    BY <1>1, <1>3, <2>1
       DEF TypeInv, TypeOK, ControlInv, Calls, CallOps, CloseOps, NoCall, StoreInv, ServingInv, CallInv
<1> QED
  BY <1>1, <1>2, <1>3 DEF CancelQuery

LEMMA LostStep == TypeInv /\ StoreInv /\ LostInv /\ [Next]_vars => LostInv'
<1> SUFFICES ASSUME TypeInv, StoreInv, LostInv, [Next]_vars PROVE LostInv'
  OBVIOUS
<1> USE DEF LostInv
<1>1. CASE CancelQuery
  <2>1. Abandon
    BY <1>1 DEF CancelQuery
  <2>2. call.op = "close_portal" => call.name \in PortalNames
    BY DEF TypeInv, TypeOK, Calls, NoCall
  <2> QED
    BY <1>1, <2>1, <2>2, AbandonFacts, CancelledCall, ServingTypes
<1>2. CASE DropSocket
  <2>1. Abandon /\ task' = "cleanup"
    BY <1>2 DEF DropSocket
  <2>2. /\ call.op \in {"parse", "close_statement"} => call.name \in StatementNames
        /\ call.op \in {"bind", "close_portal"} => call.name \in PortalNames
    BY DEF TypeInv, TypeOK, Calls, NoCall
  <2> QED
    BY <2>1, <2>2, AbandonFacts
<1>3. CASE LostReturn
  BY <1>3 DEF LostReturn
<1>4. CASE ~CancelQuery /\ ~DropSocket /\ ~LostReturn
  BY <1>4, HistoryUnchanged, ServingBefore
<1> QED
  BY <1>1, <1>2, <1>3, <1>4

\* A result that is on its way and will change the maps.
Landing == call.out = "ok" /\ call.op \in CloseOps \cup {"parse", "bind"}

\* Nothing moves in the maps or in Python.
LEMMA MirrorKept ==
  ASSUME MirrorInv, ~Landing, ~Landing', forsaken \subseteq forsaken',
         UNCHANGED <<portals, statements, pyStatements, pyPortals>>
  PROVE  MirrorInv'
  BY HistoryGrows DEF MirrorInv, Landing, Done, CloseOps

\* The callbacks that end without a change of the maps.
LEMMA NothingLands ==
  ASSUME TypeInv, StoreInv,
         \/ DoQueryReturned \/ SessionOpened \/ Described \/ CallbackRaised \/ CloseRaised
  PROVE  ~Landing
<1>1. CASE DoQueryReturned
  BY <1>1, ReturnedFrom DEF DoQueryReturned, QueryReturned, ExecuteReturned, Landing, CloseOps
<1>2. CASE SessionOpened
  BY <1>2, ReturnedFrom DEF SessionOpened, Landing, CloseOps
<1>3. CASE Described
  BY <1>3, ReturnedFrom DEF Described, Landing, CloseOps
<1>4. CASE CallbackRaised \/ CloseRaised
  BY <1>4 DEF CallbackRaised, CloseRaised, Landing
<1> QED
  BY <1>1, <1>2, <1>3, <1>4

LEMMA MirrorStep ==
  ASSUME TypeInv, StoreInv, LostInv, MirrorInv, task = "serving", task' = "serving", [Next]_vars
  PROVE  MirrorInv'
<1> USE DEF storeVars, mapVars, taskVars, pyVars, Quiet, At, Returned
<1>1. /\ NoCall.out = "none" /\ NoCall.op = "none" /\ NoEntry.bound = FALSE
      /\ \A p \in PortalNames :
           portals[p] = [stmt |-> pyPortals[p], bound |-> TRUE] => portals[p].bound
  BY DEF NoCall, NoEntry
<1>2. CASE \/ \E m \in Messages : Receive(m)
           \/ CallPython \/ Proceed \/ Replied \/ QueryCloseStatement \/ QueryReply \/ QueryReplyFailed
           \/ EmptyParsed \/ ExecuteReply \/ ExecuteReplyFailed \/ SyncReply \/ ReportError \/ HangUp
           \/ CloseDefaultPortal
  <2>1. call = NoCall /\ (call' = NoCall \/ call'.out = "running")
    <3>1. CASE CallPython
      BY <3>1 DEF CallPython, Start
    <3>2. CASE ~CallPython
      BY <1>2, <3>2 DEF Receive, Proceed, Replied, QueryCloseStatement, QueryReply, QueryReplyFailed,
         EmptyParsed, ExecuteReply, ExecuteReplyFailed, SyncReply, ReportError, HangUp, CloseDefaultPortal
    <3> QED
      BY <3>1, <3>2
  <2>2. UNCHANGED <<portals, statements, pyStatements, pyPortals, forsaken>>
    BY <1>2 DEF Receive, CallPython, Start, Proceed, Replied, QueryCloseStatement, QueryReply,
       QueryReplyFailed, EmptyParsed, ExecuteReply, ExecuteReplyFailed, SyncReply, ReportError, HangUp,
       CloseDefaultPortal
  <2> QED
    BY <1>1, <2>1, <2>2, MirrorKept DEF Landing
<1>3. CASE DoQueryReturned \/ SessionOpened \/ Described \/ CallbackRaised \/ CloseRaised
  <2>1. call' = NoCall /\ UNCHANGED <<portals, statements, pyStatements, pyPortals, forsaken>>
    BY <1>3 DEF DoQueryReturned, QueryReturned, ExecuteReturned, SessionOpened, Described,
       CallbackRaised, CloseRaised, Raise, EndHandler
  <2> QED
    BY <1>1, <1>3, <2>1, MirrorKept, NothingLands DEF Landing
<1>4. CASE StatementParsed
  <2>1. /\ Done("parse") /\ call.name = msg.stmt /\ call' = NoCall
        /\ statements' = statements \cup {msg.stmt}
        /\ UNCHANGED <<portals, pyStatements, pyPortals, forsaken>>
    BY <1>4, ReturnedFrom DEF StatementParsed, Done
  <2> QED
    BY <1>1, <2>1 DEF MirrorInv, Done, Doubtful
<1>5. CASE PortalBound
  <2>1. /\ Done("bind") /\ call.name = msg.portal /\ call.of = msg.stmt /\ call' = NoCall
        /\ portals' = [portals EXCEPT ![msg.portal] = [stmt |-> msg.stmt, bound |-> TRUE]]
        /\ UNCHANGED <<statements, pyStatements, pyPortals, forsaken>>
    BY <1>5, ReturnedFrom DEF PortalBound, Done
  <2>2. portals[msg.portal] = NoEntry
    BY <1>5 DEF PortalBound, StoreInv, ServingInv, LabelInv, Nothing
  <2>3. \A p \in PortalNames : portals'[p] = IF p = msg.portal
                                               THEN [stmt |-> msg.stmt, bound |-> TRUE] ELSE portals[p]
    BY <2>1, ServingTypes
  <2>4. /\ pyPortals[msg.portal] \in {None, msg.stmt}
        /\ pyPortals[msg.portal] # None \/ msg.portal \in Doubtful
    BY <1>1, <2>1, <2>2, ServingTypes DEF MirrorInv, Done
  <2>5. pyStatements' = statements' /\ Doubtful' = Doubtful
    BY <2>1 DEF MirrorInv, Done, Doubtful
  <2>6. \A p \in PortalNames : p # msg.portal =>
          /\ pyPortals[p] # None => portals[p] = [stmt |-> pyPortals[p], bound |-> TRUE]
          /\ portals[p].bound => pyPortals[p] # None \/ p \in Doubtful
    BY <2>1 DEF MirrorInv, Done
  <2>7. call'.out = "none"
    BY <1>1, <2>1
  <2> QED
    BY <2>1, <2>3, <2>4, <2>5, <2>6, <2>7 DEF MirrorInv, Done
<1>6. CASE EmptyBound
  <2>1. /\ call = NoCall /\ call' = NoCall
        /\ portals' = [portals EXCEPT ![msg.portal] = [stmt |-> msg.stmt, bound |-> FALSE]]
        /\ UNCHANGED <<statements, pyStatements, pyPortals, forsaken>>
    BY <1>6 DEF EmptyBound
  <2>2. portals[msg.portal] = NoEntry
    BY <1>6 DEF EmptyBound, StoreInv, ServingInv, LabelInv, Nothing
  <2>3. \A p \in PortalNames : portals'[p] = IF p = msg.portal
                                               THEN [stmt |-> msg.stmt, bound |-> FALSE] ELSE portals[p]
    BY <2>1, ServingTypes
  <2>4. pyPortals[msg.portal] = None
    BY <1>1, <2>1, <2>2, ServingTypes DEF MirrorInv, Done
  <2>5. call'.out = "none" /\ call.out = "none" /\ Doubtful' = Doubtful
    BY <1>1, <2>1 DEF Doubtful
  <2> QED
    BY <2>1, <2>3, <2>4, <2>5 DEF MirrorInv, Done
<1>7. CASE \E p \in PortalNames : CloseNextPortal(p)
  <2> PICK p \in PortalNames : CloseNextPortal(p)
    BY <1>7
  <2>1. CASE portals[p].bound
    <3>1. call = NoCall /\ call'.out = "running"
          /\ UNCHANGED <<portals, statements, pyStatements, pyPortals, forsaken>>
      BY <2>1 DEF CloseNextPortal, Start
    <3> QED
      BY <1>1, <3>1, MirrorKept DEF Landing
  <2>2. CASE ~portals[p].bound
    <3>1. /\ call = NoCall /\ call' = NoCall /\ portals' = [portals EXCEPT ![p] = NoEntry]
          /\ UNCHANGED <<statements, pyStatements, pyPortals, forsaken>>
      BY <2>2 DEF CloseNextPortal, RemovePortal
    <3> QED
      BY <1>1, <2>2, <3>1, ServingTypes DEF MirrorInv, Done, Doubtful
  <2> QED
    BY <2>1, <2>2
<1>8. CASE CloseTheStatement
  <2>1. /\ call = NoCall /\ (call' = NoCall \/ call'.out = "running")
        /\ UNCHANGED <<portals, pyStatements, pyPortals, forsaken>>
    BY <1>8 DEF CloseTheStatement, Start, RemoveStatement
  <2>2. statements' = statements
    <3>1. CASE sstore[msg.stmt] = "value"
      BY <1>8, <3>1 DEF CloseTheStatement, mapVars
    <3>2. CASE sstore[msg.stmt] # "value"
      <4>1. msg.stmt \notin statements
        BY <1>8, <3>2, ServingTypes DEF CloseTheStatement, StoreInv, StoresAgree
      <4>2. statements' = statements \ {msg.stmt}
        BY <1>8, <3>2 DEF CloseTheStatement, RemoveStatement
      <4> QED
        BY <4>1, <4>2
    <3> QED
      BY <3>1, <3>2
  <2> QED
    BY <1>1, <2>1, <2>2, MirrorKept DEF Landing
<1>9. CASE CloseReturned
  <2>1. /\ call.out = "ok" /\ call' = NoCall /\ UNCHANGED <<pyStatements, pyPortals, forsaken>>
    BY <1>9 DEF CloseReturned
  <2>2. CASE call.op = "close_portal" /\ RemovePortal(call.name)
    <3>1. portals' = [portals EXCEPT ![call.name] = NoEntry] /\ statements' = statements
      BY <2>2 DEF RemovePortal
    <3> QED
      BY <1>1, <2>1, <2>2, <3>1, ServingTypes DEF MirrorInv, Done, Doubtful, NoEntry
  <2>3. CASE call.op = "close_statement" /\ RemoveStatement(call.name)
    <3>1. statements' = statements \ {call.name} /\ portals' = portals
      BY <2>3 DEF RemoveStatement
    <3> QED
      BY <1>1, <2>1, <2>3, <3>1 DEF MirrorInv, Done, Doubtful
  <2> QED
    BY <1>9, <2>2, <2>3 DEF CloseReturned
<1>10. CASE CancelQuery
  <2>1. /\ call' = NoCall /\ Abandon /\ UNCHANGED <<portals, statements, pyStatements, pyPortals>>
    BY <1>10 DEF CancelQuery, EndHandler
  <2>2. forsaken \subseteq forsaken'
    BY <2>1, AbandonFacts
  <2>3. CASE call.op = "close_portal"
    <3>1. <<call.op, call.name>> \in forsaken'
      BY <2>1, <2>3, AbandonFacts DEF CallOps, CloseOps
    <3>2. call.name \in Doubtful' /\ Doubtful \subseteq Doubtful'
      <4>1. <<call.op, call.name>>[1] = call.op /\ <<call.op, call.name>>[2] = call.name
        OBVIOUS
      <4> QED
        BY <2>2, <2>3, <3>1, <4>1 DEF Doubtful, CloseOps
    <3> QED
      BY <1>1, <2>1, <2>3, <3>2 DEF MirrorInv, Done
  <2>4. CASE call.op # "close_portal"
    <3>1. ~Landing
      BY <1>10, <2>4, CancelledCall DEF Landing, CloseOps
    <3> QED
      BY <1>1, <2>1, <2>2, <3>1, MirrorKept DEF Landing
  <2> QED
    BY <2>3, <2>4
<1>11. CASE PyReturn
  <2> PICK outcome \in Outcomes : call' = [call EXCEPT !.out = outcome] /\ Effect(call, outcome)
    BY <1>11 DEF PyReturn
  <2>1. /\ call.out = "running" /\ call'.out = outcome /\ call'.op = call.op /\ call'.name = call.name
        /\ call'.of = call.of
        /\ (call.op = "bind" => call.of \in StatementNames)
        /\ UNCHANGED <<portals, statements, forsaken>>
    BY <1>11, ServingTypes DEF PyReturn, Calls, NoCall
  <2>2. call.op = "bind" => call.of # None
    BY <2>1, ConstantFacts
  <2> QED
    BY <2>1, <2>2, EffectFacts, ServingTypes DEF MirrorInv, Done, Doubtful, Outcomes
<1>12. CASE LostReturn
  <2> PICK c \in lost, outcome \in Outcomes : Effect(c, outcome)
    BY <1>12 DEF LostReturn
  <2>1. UNCHANGED <<call, portals, statements, forsaken>>
    BY <1>12 DEF LostReturn
  <2>2. c \in Calls
    BY DEF TypeInv, TypeOK
  <2>3. <<c.op, c.name>> \in forsaken /\ c.op \in {"query", "close_portal"}
    <3>1. <<c.op, c.name>>[1] = c.op
      OBVIOUS
    <3> QED
      BY <3>1 DEF LostInv
  <2>4. c.op = "close_portal" => c.name \in Doubtful
    BY <2>3, HistoryNames DEF CloseOps
  <2>5. pyStatements' = pyStatements
        /\ \A p \in PortalNames : pyPortals'[p] = pyPortals[p] \/ (pyPortals'[p] = None /\ p \in Doubtful)
    BY <2>2, <2>3, <2>4, EffectFacts
  <2> QED
    BY <2>1, <2>5 DEF MirrorInv, Done, Doubtful
<1>13. CASE Stop \/ StopQueue \/ UNCHANGED vars
  <2>1. UNCHANGED <<call, portals, statements, forsaken, pyStatements, pyPortals>>
    BY <1>13 DEF Stop, StopQueue, vars
  <2> QED
    BY <2>1 DEF MirrorInv, Done, Doubtful
<1>14. CASE StopDrop \/ Abort \/ CleanupStep
  BY <1>14 DEF StopDrop, Abort, CleanupStep, SocketDone, DropSocket, CleanupPortal,
     CleanupStatement, CleanupReturned, CleanupSession
<1> QED
  BY <1>2, <1>3, <1>4, <1>5, <1>6, <1>7, <1>8, <1>9, <1>10, <1>11, <1>12, <1>13, <1>14, HandlerSteps
     DEF Next, CloseStep, Terminated

\* Serving ends: what the maps hold is what cleanup has to close.
LEMMA CleanupBegins ==
  ASSUME TypeInv, StoreInv, LostInv, MirrorInv, task = "serving", DropSocket
  PROVE  CleanupInv' /\ LeftInv'
<1>1. /\ task' = "cleanup" /\ call' = NoCall /\ Abandon
      /\ UNCHANGED <<portals, statements, pyStatements, pyPortals, refused>>
  BY DEF DropSocket, mapVars, pyVars
<1>2. NoCall.out = "none" /\ NoCall.op = "none"
  BY DEF NoCall
<1>3. /\ Doubtful \subseteq Doubtful' /\ Unreachable \subseteq Unreachable'
      /\ call.op \in CloseOps => call.name \in Doubtful'
      /\ call.op \in {"parse", "bind"} => call.name \in Unreachable'
  <2>1. forsaken \subseteq forsaken'
    BY <1>1, AbandonFacts
  <2>2. call.op \in CloseOps \cup {"parse", "bind"} => <<call.op, call.name>> \in forsaken'
    BY <1>1, AbandonFacts DEF CallOps, CloseOps
  <2>3. <<call.op, call.name>>[1] = call.op /\ <<call.op, call.name>>[2] = call.name
    OBVIOUS
  <2> QED
    BY <2>1, <2>2, <2>3 DEF Doubtful, Unreachable
<1>4. ASSUME NEW p \in PortalNames, portals[p].bound
      PROVE  portals[p].stmt \in statements /\ portals[p].stmt \notin Doubtful'
  <2>1. p \in Present /\ sstore[portals[p].stmt] = "value" /\ portals[p].stmt \in StatementNames
    BY <1>4, ServingTypes, ConstantFacts DEF StoreInv, PortalHasStatement, Present, Entries, NoEntry
  <2>2. portals[p].stmt \in statements
    BY <2>1 DEF StoreInv, StoresAgree
  <2>3. ASSUME NEW f \in forsaken', f[1] \in CloseOps PROVE f[2] # portals[p].stmt
    <3>1. CASE f \in forsaken
      BY <2>1, <2>3, <3>1, ConstantFacts DEF LostInv, CloseOps
    <3>2. CASE f \notin forsaken
      <4>1. f[2] = call.name /\ call.op \in CloseOps
        BY <1>1, <2>3, <3>2, AbandonFacts DEF CloseOps
      <4>2. call.op = "close_portal" => call.name \in PortalNames
        BY ServingTypes DEF Calls, NoCall
      <4>3. call.op = "close_statement" => portals[p].stmt # call.name
        BY <2>1 DEF StoreInv, ServingInv, CallInv, RoutineInv, Dependents
      <4> QED
        BY <2>1, <4>1, <4>2, <4>3, ConstantFacts DEF CloseOps
    <3> QED
      BY <3>1, <3>2
  <2> QED
    BY <2>2, <2>3 DEF Doubtful
<1>5. CleanupInv'
  BY <1>1, <1>2, <1>4 DEF CleanupInv, CloseOps
<1>6. LeftInv'
  <2>1. ASSUME NEW p \in PortalNames
        PROVE  /\ portals[p].bound /\ p \notin Doubtful' => pyPortals[p] # None
               /\ pyPortals[p] # None /\ p \notin Unreachable' =>
                    portals[p] = [stmt |-> pyPortals[p], bound |-> TRUE]
    BY <1>3 DEF MirrorInv, Done, CloseOps
  <2>2. \A s \in statements : s \notin Doubtful' => s \in pyStatements
    BY <1>3 DEF MirrorInv, Done, CloseOps
  <2>3. \A s \in pyStatements : s \in statements \/ s \in Unreachable'
    BY <1>3 DEF MirrorInv, Done
  <2>4. \A s : s \in Doubtful => s \in Doubtful'
    BY <1>3
  <2> QED
    BY <1>1, <1>2, <2>1, <2>2, <2>3, <2>4 DEF LeftInv, Done, CloseOps
<1> QED
  BY <1>5, <1>6

\* What is left when no abandoned callback is in the way.
LEMMA CleanupCall ==
  ASSUME TypeInv, CleanupInv
  PROVE  /\ call = NoCall \/ call.op \in CloseOps
         /\ call.op = "close_portal" => call.name \in PortalNames
         /\ call.op = "close_statement" => call.name \in StatementNames
         /\ call = NoCall => call.out = "none" /\ call.op = "none"
         /\ pyStatements \subseteq StatementNames
<1> USE DEF NoCall
<1>1. call.op \in CloseOps \cup {"none"} /\ pyStatements \subseteq StatementNames
  BY DEF CleanupInv, TypeInv, TypeOK
<1> QED
  BY <1>1, ServingTypes DEF Calls, CloseOps, CallOps

LEMMA CleanupSteps ==
  ASSUME [Next]_vars, task # "serving"
  PROVE  \/ \E p \in PortalNames : CleanupPortal(p)
         \/ \E s \in StatementNames : CleanupStatement(s)
         \/ CleanupReturned \/ CleanupSession \/ PyReturn \/ LostReturn \/ UNCHANGED vars
<1>1. ~(\E m \in Messages : Receive(m)) /\ ~ReportError /\ ~HangUp /\ ~CancelQuery /\ ~Stop /\ ~StopQueue
      /\ ~StopDrop /\ ~Abort /\ ~SocketDone
  BY DEF Receive, At, ReportError, HangUp, CancelQuery, Stop, StopQueue, StopDrop, Abort, SocketDone
<1>2. ~CloseStep
  BY DEF CloseStep, CloseNextPortal, CloseTheStatement, CloseDefaultPortal, CloseReturned, CloseRaised
<1>3. ~HandlerStep
  BY <1>1, HandlerSteps DEF CallPython, CallbackRaised, Proceed, Replied, DoQueryReturned, QueryReturned,
     ExecuteReturned, SessionOpened, QueryCloseStatement, QueryReply, QueryReplyFailed, EmptyParsed,
     StatementParsed, EmptyBound, PortalBound, Described, ExecuteReply, ExecuteReplyFailed, SyncReply,
     At, Returned
<1> QED
  BY <1>1, <1>2, <1>3 DEF Next, CleanupStep, Terminated

\* The type facts the cleanup steps use.
LEMMA CleanupTypes ==
  ASSUME TypeInv
  PROVE  /\ portals \in [PortalNames -> Entries] /\ NoEntry.bound = FALSE
         /\ \A p \in PortalNames :
              portals[p] = [stmt |-> pyPortals[p], bound |-> TRUE] => portals[p].bound
         /\ \A p \in PortalNames, s \in StatementNames : p # s
         /\ lost \subseteq Calls /\ statements \subseteq StatementNames
  BY ConstantFacts DEF TypeInv, TypeOK, NoEntry

LEMMA CleanupReturnedStep ==
  ASSUME TypeInv, CleanupInv, LeftInv, CleanupReturned
  PROVE  CleanupInv' /\ LeftInv'
<1> USE CleanupCall, CleanupTypes
<1>1. /\ task = "cleanup" /\ task' = task /\ call.out \in Outcomes /\ call' = NoCall
      /\ Doubtful' = Doubtful /\ Unreachable' = Unreachable
      /\ UNCHANGED <<pyStatements, pyPortals, refused>>
  BY DEF CleanupReturned, taskVars, pyVars, Doubtful, Unreachable
<1>2. NoCall.out = "none" /\ NoCall.op = "none"
  BY DEF NoCall
<1>3. CASE call.op = "close_portal"
  <2>1. portals' = [portals EXCEPT ![call.name] = NoEntry] /\ statements' = statements
    BY <1>3 DEF CleanupReturned
  <2>2. CleanupInv'
    BY <1>1, <1>2, <2>1 DEF CleanupInv, CloseOps
  <2>3. pyPortals[call.name] # None /\ call.name \notin Unreachable => call.name \in refused
    BY <1>1, <1>3 DEF LeftInv
  <2>4. ASSUME NEW p \in PortalNames
        PROVE  /\ portals'[p].bound /\ p \notin Doubtful => pyPortals[p] # None
               /\ pyPortals[p] # None /\ p \notin Unreachable =>
                    portals'[p] = [stmt |-> pyPortals[p], bound |-> TRUE] \/ p \in refused
    BY <1>3, <2>1, <2>3 DEF LeftInv, Done
  <2>5. \A s \in statements \ Doubtful : s \in pyStatements
    BY <1>3 DEF LeftInv, Done
  <2> QED
    BY <1>1, <1>2, <2>1, <2>2, <2>4, <2>5 DEF LeftInv, Done
<1>4. CASE call.op = "close_statement"
  <2>1. statements' = statements \ {call.name} /\ portals' = portals /\ Present = {}
    BY <1>4 DEF CleanupReturned, CleanupInv
  <2>2. \A p \in PortalNames : ~portals[p].bound
    BY <2>1 DEF Present
  <2>3. CleanupInv'
    BY <1>1, <1>2, <2>1, <2>2 DEF CleanupInv, CloseOps, Present
  <2>4. call.name \in pyStatements /\ call.name \notin Unreachable => call.name \in refused
    BY <1>1, <1>4 DEF LeftInv
  <2> QED
    BY <1>1, <1>2, <1>4, <2>1, <2>2, <2>3, <2>4 DEF LeftInv, Done
<1> QED
  BY <1>3, <1>4 DEF CleanupReturned

LEMMA CleanupEffect ==
  ASSUME TypeInv, LostInv, CleanupInv, LeftInv, task # "serving", PyReturn
  PROVE  CleanupInv' /\ LeftInv'
<1> USE CleanupCall, CleanupTypes
<1> PICK outcome \in Outcomes : call' = [call EXCEPT !.out = outcome] /\ Effect(call, outcome)
  BY DEF PyReturn
<1>1. /\ call.out = "running" /\ call.op \in CloseOps
      /\ call'.out = outcome /\ call'.op = call.op /\ call'.name = call.name
      /\ UNCHANGED <<task, portals, statements>> /\ Doubtful' = Doubtful /\ Unreachable' = Unreachable
  BY ServingTypes DEF PyReturn, Calls, NoCall, taskVars, mapVars, Doubtful, Unreachable
<1>2. CleanupInv'
  BY <1>1 DEF CleanupInv, Present
<1>3. CASE call.op = "close_portal"
  <2>1. /\ pyStatements' = pyStatements
        /\ \A p \in PortalNames :
             /\ pyPortals'[p] = IF outcome = "ok" /\ p = call.name THEN None ELSE pyPortals[p]
             /\ p # call.name => (p \in refused' <=> p \in refused)
             /\ p = call.name => (p \in refused' <=> outcome # "ok")
        /\ \A s \in StatementNames : s \in refused' <=> s \in refused
    BY <1>1, <1>3, ServingTypes, EffectFacts DEF CloseOps
  <2>2. ASSUME NEW p \in PortalNames
        PROVE  /\ portals[p].bound /\ p \notin Doubtful =>
                    pyPortals'[p] # None \/ (outcome = "ok" /\ p = call.name)
               /\ pyPortals'[p] # None /\ p \notin Unreachable =>
                    portals[p] = [stmt |-> pyPortals'[p], bound |-> TRUE] \/ p \in refused'
    BY <1>1, <1>3, <2>1 DEF LeftInv, Done, Outcomes
  <2>3. /\ \A s \in statements \ Doubtful : s \in pyStatements
        /\ \A s \in pyStatements : s \in statements \/ s \in refused' \/ s \in Unreachable
    BY <1>1, <1>3, <2>1 DEF LeftInv, Done
  <2> QED
    BY <1>1, <1>2, <1>3, <2>1, <2>2, <2>3 DEF LeftInv, Done, Outcomes
<1>4. CASE call.op = "close_statement"
  <2>1. /\ pyStatements' = IF outcome = "ok" THEN pyStatements \ {call.name} ELSE pyStatements
        /\ \A p \in PortalNames :
             pyPortals'[p] = pyPortals[p] /\ (p \in refused' <=> p \in refused)
        /\ \A s \in StatementNames :
             /\ s # call.name => (s \in refused' <=> s \in refused)
             /\ s = call.name => (s \in refused' <=> outcome # "ok")
    BY <1>1, <1>4, ServingTypes, EffectFacts DEF CloseOps
  <2>2. ASSUME NEW p \in PortalNames
        PROVE  /\ portals[p].bound /\ p \notin Doubtful => pyPortals'[p] # None
               /\ pyPortals'[p] # None /\ p \notin Unreachable =>
                    portals[p] = [stmt |-> pyPortals'[p], bound |-> TRUE] \/ p \in refused'
    BY <1>1, <1>4, <2>1 DEF LeftInv, Done
  <2>3. /\ \A s \in statements \ Doubtful :
             s \in pyStatements' \/ (outcome = "ok" /\ s = call.name)
        /\ \A s \in pyStatements' : s \in statements \/ s \in refused' \/ s \in Unreachable
    BY <1>1, <1>4, <2>1 DEF LeftInv, Done, Outcomes
  <2> QED
    BY <1>1, <1>2, <1>4, <2>1, <2>2, <2>3 DEF LeftInv, Done, Outcomes
<1> QED
  BY <1>1, <1>3, <1>4 DEF CloseOps

LEMMA CleanupLost ==
  ASSUME TypeInv, LostInv, CleanupInv, LeftInv, LostReturn
  PROVE  CleanupInv' /\ LeftInv'
<1> USE CleanupCall, CleanupTypes
<1> PICK c \in lost, outcome \in Outcomes : Effect(c, outcome)
  BY DEF LostReturn
<1>1. /\ UNCHANGED <<task, call, portals, statements>> /\ Doubtful' = Doubtful
      /\ Unreachable' = Unreachable
  BY DEF LostReturn, mapVars, Doubtful, Unreachable
<1>2. CleanupInv'
  BY <1>1 DEF CleanupInv, Present
<1>3. /\ c.op \in CloseOps => c.name \in Doubtful
      /\ c.op \in {"parse", "bind"} => c.name \in Unreachable
  BY HistoryNames DEF LostInv
<1>4. c \in Calls
  OBVIOUS
<1>5. /\ c.op \in {"parse", "close_statement"} => c.name \in StatementNames
      /\ c.op \in {"bind", "close_portal"} => c.name \in PortalNames
      /\ c.op = "bind" => c.of \in StatementNames
  BY <1>4 DEF Calls, NoCall
<1>6. CASE c.op \notin CloseOps \cup {"parse", "bind"}
  <2>1. UNCHANGED <<pyStatements, refused>> /\ \A p \in PortalNames : pyPortals'[p] = pyPortals[p]
    BY <1>4, <1>6, EffectFacts DEF CloseOps
  <2> QED
    BY <1>1, <1>2, <2>1 DEF LeftInv, Done
<1>7. CASE c.op = "close_portal"
  <2>1. /\ pyStatements' = pyStatements
        /\ \A p \in PortalNames :
             /\ pyPortals'[p] = IF outcome = "ok" /\ p = c.name THEN None ELSE pyPortals[p]
             /\ p # c.name => (p \in refused' <=> p \in refused)
             /\ p = c.name => (p \in refused' <=> outcome # "ok")
        /\ \A s \in StatementNames : s \in refused' <=> s \in refused
    BY <1>4, <1>5, <1>7, EffectFacts DEF CloseOps
  <2>2. c.name \in Doubtful
    BY <1>3, <1>7 DEF CloseOps
  <2> QED
    BY <1>1, <1>2, <1>5, <1>7, <2>1, <2>2 DEF LeftInv, Done, Outcomes
<1>8. CASE c.op = "close_statement"
  <2>1. /\ pyStatements' = IF outcome = "ok" THEN pyStatements \ {c.name} ELSE pyStatements
        /\ \A p \in PortalNames :
             pyPortals'[p] = pyPortals[p] /\ (p \in refused' <=> p \in refused)
        /\ \A s \in StatementNames :
             /\ s # c.name => (s \in refused' <=> s \in refused)
             /\ s = c.name => (s \in refused' <=> outcome # "ok")
    BY <1>4, <1>5, <1>8, EffectFacts DEF CloseOps
  <2>2. c.name \in Doubtful
    BY <1>3, <1>8 DEF CloseOps
  <2> QED
    BY <1>1, <1>2, <1>5, <1>8, <2>1, <2>2 DEF LeftInv, Done, Outcomes
<1>9. CASE c.op = "parse"
  <2>1. /\ pyStatements' = IF outcome = "ok" THEN pyStatements \cup {c.name} ELSE pyStatements
        /\ refused' = refused /\ \A p \in PortalNames : pyPortals'[p] = pyPortals[p]
    BY <1>4, <1>9, EffectFacts DEF CloseOps
  <2> QED
    BY <1>1, <1>2, <1>3, <1>5, <1>9, <2>1 DEF LeftInv, Done
<1>10. CASE c.op = "bind"
  <2>1. /\ pyStatements' = pyStatements /\ refused' = refused
        /\ \A p \in PortalNames :
             pyPortals'[p] = IF outcome = "ok" /\ p = c.name THEN c.of ELSE pyPortals[p]
    BY <1>4, <1>10, EffectFacts DEF CloseOps
  <2>2. c.of # None /\ c.name \in Unreachable
    BY <1>3, <1>5, <1>10, ConstantFacts
  <2> QED
    BY <1>1, <1>2, <1>5, <1>10, <2>1, <2>2 DEF LeftInv, Done
<1> QED
  BY <1>6, <1>7, <1>8, <1>9, <1>10 DEF CloseOps

\* Only callbacks and the end of cleanup touch Python, and only a dropped
\* socket and the end of cleanup move the task.
LEMMA PythonOnly ==
  ASSUME [Next]_vars, ~PyReturn, ~LostReturn, ~CleanupSession
  PROVE  UNCHANGED pyVars /\ (StopDrop \/ Abort \/ SocketDone \/ task' = task)
<1> USE DEF taskVars, Quiet
<1>1. CASE \E m \in Messages : Receive(m)
  BY <1>1 DEF Receive
<1>2. CASE HandlerStep /\ ~ \E m \in Messages : Receive(m)
  BY <1>2, HandlerSteps DEF CallPython, CallbackRaised, Raise, EndHandler, Proceed, Replied,
     DoQueryReturned, SessionOpened, QueryCloseStatement, QueryReply, QueryReplyFailed, EmptyParsed,
     StatementParsed, EmptyBound, PortalBound, Described, ExecuteReply, ExecuteReplyFailed, SyncReply
<1>3. CASE CloseStep
  BY <1>3 DEF CloseStep, CloseNextPortal, CloseTheStatement, CloseDefaultPortal, CloseReturned,
     CloseRaised, Raise, EndHandler
<1>4. CASE ReportError \/ HangUp \/ Stop \/ StopQueue
  BY <1>4 DEF ReportError, HangUp, Stop, StopQueue
<1>5. CASE CancelQuery
  BY <1>5 DEF CancelQuery, EndHandler
<1>6. CASE StopDrop \/ Abort \/ SocketDone
  BY <1>6 DEF SocketDone, StopDrop, Abort, DropSocket
<1>7. CASE \/ CleanupReturned \/ \E p \in PortalNames : CleanupPortal(p)
           \/ \E s \in StatementNames : CleanupStatement(s)
  BY <1>7 DEF CleanupReturned, CleanupPortal, CleanupStatement
<1>8. CASE UNCHANGED vars
  BY <1>8 DEF vars
<1> QED
  BY <1>1, <1>2, <1>3, <1>4, <1>5, <1>6, <1>7, <1>8 DEF Next, Terminated, CleanupStep

LEMMA PythonInit == Init => PythonInv
<1> SUFFICES ASSUME Init PROVE PythonInv
  OBVIOUS
<1>1. LostInv
  BY DEF Init, LostInv
<1>2. MirrorInv
  BY DEF Init, MirrorInv, Done, NoCall, NoEntry
<1> QED
  BY <1>1, <1>2 DEF Init, PythonInv

LEMMA PythonStep == TypeInv /\ StoreInv /\ PythonInv /\ [Next]_vars => PythonInv'
<1> SUFFICES ASSUME TypeInv, StoreInv, PythonInv, [Next]_vars PROVE PythonInv'
  OBVIOUS
<1> USE DEF PythonInv
<1>1. LostInv'
  BY LostStep
<1>2. pySession' = "closed" => task' = "done"
  <2>1. CASE PyReturn \/ LostReturn
    <3>1. task' = task /\ (pySession' # pySession => pySession' = "open")
      BY <2>1, ServingTypes, EffectFacts DEF PyReturn, LostReturn, TypeInv, TypeOK, taskVars
    <3> QED
      BY <3>1
  <2>2. CASE CleanupSession
    BY <2>2 DEF CleanupSession
  <2>3. CASE ~PyReturn /\ ~LostReturn /\ ~CleanupSession
    <3>1. pySession' = pySession /\ (StopDrop \/ Abort \/ SocketDone \/ task' = task)
      BY <2>3, PythonOnly DEF pyVars
    <3> QED
      BY <3>1 DEF StopDrop, Abort, SocketDone, At
  <2> QED
    BY <2>1, <2>2, <2>3
<1>3. CASE task' = "serving"
  BY <1>1, <1>2, <1>3, ServingBefore, MirrorStep
<1>4. CASE task = "serving" /\ task' # "serving"
  <2>1. DropSocket
    BY <1>4, PythonOnly DEF PyReturn, LostReturn, CleanupSession, StopDrop, Abort, SocketDone, taskVars
  <2> QED
    BY <1>1, <1>2, <1>4, <2>1, CleanupBegins
<1>5. CASE task # "serving" /\ task' # "serving"
  <2>1. CleanupInv /\ LeftInv
    BY <1>5
  <2>2. CASE \E p \in PortalNames : CleanupPortal(p)
    <3> PICK p \in PortalNames : CleanupPortal(p)
      BY <2>2
    <3>1. /\ call = NoCall /\ task = "cleanup" /\ NoCall.out = "none" /\ NoCall.op = "none"
          /\ task' = task /\ Doubtful' = Doubtful /\ Unreachable' = Unreachable
          /\ UNCHANGED <<statements, pyStatements, pyPortals, refused>>
      BY DEF CleanupPortal, NoCall, taskVars, pyVars, Doubtful, Unreachable
    <3>2. CASE portals[p].bound
      <4>1. portals' = portals /\ call'.op = "close_portal" /\ call'.name = p /\ call'.out = "running"
        BY <3>2 DEF CleanupPortal, Start
      <4> QED
        BY <1>1, <1>2, <2>1, <3>1, <3>2, <4>1 DEF CleanupInv, LeftInv, Done, CloseOps, Present, Outcomes
    <3>3. CASE ~portals[p].bound
      <4>1. portals' = [portals EXCEPT ![p] = NoEntry] /\ call' = call
        BY <3>3 DEF CleanupPortal
      <4> QED
        BY <1>1, <1>2, <2>1, <3>1, <3>3, <4>1, CleanupTypes
           DEF CleanupInv, LeftInv, Done, CloseOps, Present, Outcomes
    <3> QED
      BY <3>2, <3>3
  <2>3. CASE \E s \in StatementNames : CleanupStatement(s)
    <3> PICK s \in StatementNames : CleanupStatement(s)
      BY <2>3
    <3>1. /\ call = NoCall /\ task = "cleanup" /\ NoCall.out = "none" /\ NoCall.op = "none"
          /\ task' = task /\ Doubtful' = Doubtful /\ Unreachable' = Unreachable
          /\ UNCHANGED <<portals, statements, pyStatements, pyPortals, refused>>
          /\ call'.op = "close_statement" /\ call'.name = s /\ call'.out = "running"
          /\ Present = {} /\ s \in statements
      BY DEF CleanupStatement, Start, NoCall, taskVars, pyVars, mapVars, Doubtful, Unreachable,
         PortalsGone
    <3> QED
      BY <1>1, <1>2, <2>1, <3>1 DEF CleanupInv, LeftInv, Done, CloseOps, Present, Outcomes
  <2>4. CASE CleanupReturned
    BY <1>1, <1>2, <1>5, <2>1, <2>4, CleanupReturnedStep
  <2>5. CASE CleanupSession
    <3>1. /\ call = NoCall /\ NoCall.op = "none" /\ Present = {} /\ statements = {}
          /\ Doubtful' = Doubtful /\ Unreachable' = Unreachable
          /\ UNCHANGED <<portals, statements, call, pyStatements, pyPortals, refused>>
      BY <2>5 DEF CleanupSession, AllGone, NoCall, Doubtful, Unreachable
    <3> QED
      BY <1>1, <1>2, <1>5, <2>1, <3>1 DEF CleanupInv, LeftInv, Done, CloseOps, Present
  <2>6. CASE PyReturn \/ LostReturn
    BY <1>1, <1>2, <1>5, <2>1, <2>6, CleanupEffect, CleanupLost
  <2>7. CASE UNCHANGED vars
    <3>1. UNCHANGED <<task, call, portals, statements, forsaken, pyStatements, pyPortals, refused>>
      BY <2>7 DEF vars, taskVars, mapVars, pyVars
    <3> QED
      BY <1>1, <1>2, <1>5, <2>1, <3>1 DEF CleanupInv, LeftInv, Done, Present, Doubtful, Unreachable
  <2> QED
    BY <1>5, <2>2, <2>3, <2>4, <2>5, <2>6, <2>7, CleanupSteps
<1> QED
  BY <1>3, <1>4, <1>5

LEMMA PythonInvariant == Spec => []PythonInv
  BY TypeInvariant, StoreInvariant, PythonInit, PythonStep, PTL DEF Spec

\* The maps are a faithful picture of Python between two callbacks: a handler
\* updates them only after Python has answered, and only if it agreed.
THEOREM MapsAreFaithful == Spec => []MapsMirrorPython
<1>1. TypeInv /\ PythonInv => MapsMirrorPython
  BY DEF PythonInv, MirrorInv, MapsMirrorPython, Done, Outcomes
<1> QED
  BY <1>1, TypeInvariant, PythonInvariant, PTL

\* What a handler read before it waited for the closing lock and for Python is
\* still true when it calls Python.
THEOREM PythonIsCalledLegally == Spec => []CallsAreLegal
<1>1. TypeInv /\ StoreInv /\ PythonInv => CallsAreLegal
  <2> SUFFICES ASSUME TypeInv, StoreInv, PythonInv, call.out = "running" PROVE CallsAreLegal
    BY DEF CallsAreLegal
  <2> USE ServingTypes DEF PythonInv
  <2>1. \A op \in CallOps : ~Done(op)
    BY DEF Done
  <2>2. CASE task = "serving"
    <3>1. /\ CallInv /\ LabelInv /\ MirrorInv
          /\ \A s \in StatementNames : sstore[s] = "value" <=> s \in statements
      BY <2>2 DEF StoreInv, ServingInv, StoresAgree
    <3>2. /\ pyStatements = statements
          /\ \A p \in PortalNames :
               /\ pyPortals[p] # None => portals[p] = [stmt |-> pyPortals[p], bound |-> TRUE]
               /\ portals[p].bound => pyPortals[p] # None \/ p \in Doubtful
      BY <2>1, <3>1 DEF MirrorInv, CallOps, CloseOps
    <3>3. call.op \in {"parse", "bind"} => todo = Nothing
      BY <2>2 DEF TypeInv, ControlInv, CloseOps
    <3>4. call.op = "parse" => call.name \notin pyStatements
      BY <3>1, <3>2, <3>3 DEF CallInv, LabelInv, Nothing
    <3>5. call.op = "bind" => pyPortals[call.name] = None /\ call.of \in pyStatements
      BY <3>1, <3>2, <3>3, CleanupTypes DEF CallInv, LabelInv, Nothing
    <3>6. call.op \in {"describe_statement", "close_statement"} => call.name \in pyStatements
      BY <3>1, <3>2 DEF CallInv, LabelInv
    <3>7. call.op \in {"describe", "query"} /\ call.name \in PortalNames \ Doubtful =>
            pyPortals[call.name] = call.of
      <4>1. SUFFICES ASSUME call.op \in {"describe", "query"}, call.name \in PortalNames \ Doubtful
                     PROVE  pyPortals[call.name] = call.of
        OBVIOUS
      <4>2. call.name = msg.portal /\ portals[msg.portal].bound /\ call.of = portals[msg.portal].stmt
        BY <3>1, <4>1, ConstantFacts DEF CallInv, LabelInv
      <4>3. portals[msg.portal] = [stmt |-> pyPortals[msg.portal], bound |-> TRUE]
        BY <3>2, <4>1, <4>2
      <4> QED
        BY <4>2, <4>3
    <3>8. call.op = "close_portal" /\ call.name \notin Doubtful => pyPortals[call.name] # None
      BY <3>1, <3>2 DEF CallInv
    <3> QED
      BY <3>4, <3>5, <3>6, <3>7, <3>8 DEF CallsAreLegal
  <2>3. CASE task # "serving"
    BY <2>1, <2>3, CleanupCall DEF CallsAreLegal, CleanupInv, LeftInv, CallOps, CloseOps
  <2> QED
    BY <2>2, <2>3
<1> QED
  BY <1>1, TypeInvariant, StoreInvariant, PythonInvariant, PTL

\* close_statement, on_parse and cleanup_entries all close a statement's
\* portals first: through the whole connection no portal outlives the object
\* it was bound to.
THEOREM PortalsGoFirst == Spec => []StatementOutlivesPortals
<1>1. TypeInv /\ StoreInv /\ PythonInv => StatementOutlivesPortals
  <2> SUFFICES ASSUME TypeInv, StoreInv, PythonInv, NEW p \in PortalNames, p \notin Unreachable,
                      pyPortals[p] # None
               PROVE  pyPortals[p] \in pyStatements \/ (task # "serving" /\ p \in refused)
    BY DEF StatementOutlivesPortals
  <2> DEFINE s == pyPortals[p]
  <2> USE ServingTypes DEF PythonInv
  <2>1. CASE portals[p] = [stmt |-> s, bound |-> TRUE]
    <3>1. p \in Present /\ portals[p].bound /\ portals[p].stmt = s
      BY <2>1, CleanupTypes DEF Present
    <3>2. CASE task = "serving"
      <4>1. sstore[s] = "value" /\ s \in StatementNames /\ s \in statements
        BY <3>1, <3>2, ConstantFacts DEF StoreInv, PortalHasStatement, StoresAgree, TypeInv, TypeOK
      <4>2. call.op = "close_statement" => s # call.name
        BY <3>1, <3>2 DEF StoreInv, ServingInv, CallInv, RoutineInv, Dependents
      <4> QED
        BY <3>2, <4>1, <4>2 DEF MirrorInv, Done
    <3>3. CASE task # "serving"
      <4>1. s \in statements \ Doubtful /\ call.op # "close_statement"
        BY <3>1, <3>3 DEF CleanupInv
      <4> QED
        BY <3>3, <4>1 DEF LeftInv, Done
    <3> QED
      BY <3>2, <3>3
  <2>2. CASE portals[p] # [stmt |-> s, bound |-> TRUE]
    <3>1. CASE task = "serving"
      <4>1. call.op = "bind" /\ s = call.of /\ pyStatements = statements
        BY <2>2, <3>1 DEF MirrorInv, Done
      <4>2. s \in statements
        BY <3>1, <4>1 DEF StoreInv, ServingInv, CallInv, StoresAgree
      <4> QED
        BY <4>1, <4>2
    <3>2. CASE task # "serving"
      BY <2>2, <3>2 DEF LeftInv
    <3> QED
      BY <3>1, <3>2
  <2> QED
    BY <2>1, <2>2
<1> QED
  BY <1>1, TypeInvariant, StoreInvariant, PythonInvariant, PTL

\* The session and its open() are left alone by all but a few steps.
LEMMA SessionKept ==
  ASSUME TypeInv, StoreInv, PythonInv, [Next]_vars,
         ~SessionOpened, ~CleanupSession, ~PyReturn, ~LostReturn, ~DropSocket
  PROVE  session' = session /\ (Done("open") => Done("open")')
<1> USE DEF Done
<1>1. Done("open") => call # NoCall /\ call.op \notin CloseOps /\ call.out # "raised" /\ call.out # "running"
  BY DEF NoCall, CloseOps
<1>2. CASE \E m \in Messages : Receive(m)
  BY <1>2 DEF Receive, mapVars
<1>3. CASE DoQueryReturned \/ StatementParsed \/ PortalBound \/ Described
  <2>1. CASE DoQueryReturned
    BY <2>1, ReturnedFrom DEF DoQueryReturned, QueryReturned, ExecuteReturned, mapVars
  <2>2. CASE StatementParsed
    BY <2>2, ReturnedFrom DEF StatementParsed
  <2>3. CASE PortalBound
    BY <2>3, ReturnedFrom DEF PortalBound
  <2>4. CASE Described
    BY <2>4, ReturnedFrom DEF Described, Quiet, mapVars
  <2> QED
    BY <1>3, <2>1, <2>2, <2>3, <2>4
<1>4. CASE CallPython \/ CallbackRaised \/ Proceed \/ Replied \/ QueryCloseStatement \/ EmptyParsed
           \/ EmptyBound \/ SyncReply \/ ExecuteReplyFailed
  BY <1>1, <1>4 DEF CallPython, CallbackRaised, Proceed, Replied, QueryCloseStatement, EmptyParsed,
     EmptyBound, SyncReply, ExecuteReplyFailed, At, Quiet, mapVars
<1>5. CASE QueryReply \/ QueryReplyFailed \/ ExecuteReply \/ ReportError \/ HangUp
  BY <1>5 DEF QueryReply, QueryReplyFailed, ExecuteReply, ReportError, HangUp, Quiet, mapVars
<1>6. CASE CloseStep
  BY <1>1, <1>6 DEF CloseStep, CloseNextPortal, CloseTheStatement, CloseDefaultPortal, CloseReturned,
     CloseRaised, RemovePortal, RemoveStatement, mapVars
<1>7. CASE CancelQuery
  BY <1>7, CancelledCall DEF CancelQuery, mapVars
<1>8. CASE Stop \/ StopQueue \/ UNCHANGED vars
  BY <1>8 DEF Stop, StopQueue, vars, mapVars
<1>9. CASE \/ CleanupReturned \/ \E p \in PortalNames : CleanupPortal(p)
           \/ \E s \in StatementNames : CleanupStatement(s)
  <2>1. task = "cleanup" /\ session' = session
    BY <1>9 DEF CleanupReturned, CleanupPortal, CleanupStatement, mapVars
  <2>2. call.op # "open"
    BY <2>1 DEF PythonInv, CleanupInv, CloseOps
  <2> QED
    BY <2>1, <2>2
<1> QED
  BY <1>2, <1>3, <1>4, <1>5, <1>6, <1>7, <1>8, <1>9, HandlerSteps
     DEF Next, CleanupStep, SocketDone, StopDrop, Abort, Terminated

LEMMA SessionStep == TypeInv /\ StoreInv /\ PythonInv /\ SessionInv /\ [Next]_vars => SessionInv'
<1> SUFFICES ASSUME TypeInv, StoreInv, PythonInv, SessionInv, [Next]_vars, pySession' = "open"
             PROVE  GivenUp' \/ (task' # "done" /\ (session' \/ Done("open")'))
  BY DEF SessionInv
<1>1. GivenUp => GivenUp'
  <2>1. forsaken \subseteq forsaken'
    BY HistoryUnchanged, AbandonFacts DEF CancelQuery, DropSocket, LostReturn
  <2> QED
    BY <2>1 DEF GivenUp
<1>2. CASE SessionOpened
  BY <1>2 DEF SessionOpened, Returned, taskVars
<1>3. CASE CleanupSession
  <2>1. call = NoCall /\ ~session /\ pySession = "open"
    BY <1>3 DEF CleanupSession
  <2> QED
    BY <1>1, <2>1 DEF SessionInv, Done, NoCall
<1>4. CASE PyReturn
  <2> PICK outcome \in Outcomes : call' = [call EXCEPT !.out = outcome] /\ Effect(call, outcome)
    BY <1>4 DEF PyReturn
  <2>1. /\ call.out = "running" /\ call'.out = outcome /\ call'.op = call.op
        /\ session' = session /\ task' = task
    BY <1>4, ServingTypes DEF PyReturn, Calls, NoCall, mapVars, taskVars
  <2>2. CASE pySession = "open"
    BY <1>1, <2>1, <2>2 DEF SessionInv, Done
  <2>3. CASE pySession # "open"
    <3>1. call.op = "open" /\ outcome = "ok"
      BY <2>3, ServingTypes, EffectFacts
    <3>2. task # "done"
      BY <3>1 DEF PythonInv, CleanupInv, CloseOps
    <3> QED
      BY <2>1, <3>1, <3>2 DEF Done
  <2> QED
    BY <2>2, <2>3
<1>5. CASE LostReturn
  <2> PICK c \in lost, outcome \in Outcomes : Effect(c, outcome)
    BY <1>5 DEF LostReturn
  <2>1. UNCHANGED <<call, session, task, forsaken>>
    BY <1>5 DEF LostReturn, mapVars
  <2>2. CASE pySession = "open"
    BY <1>1, <2>1, <2>2 DEF SessionInv, Done
  <2>3. CASE pySession # "open"
    <3>1. c \in Calls /\ <<c.op, c.name>> \in forsaken /\ <<c.op, c.name>>[1] = c.op
      BY DEF PythonInv, LostInv, TypeInv, TypeOK
    <3>2. c.op = "open"
      BY <2>3, <3>1, EffectFacts
    <3> QED
      BY <2>1, <3>1, <3>2 DEF GivenUp
  <2> QED
    BY <2>2, <2>3
<1>6. CASE DropSocket
  <2>1. Abandon /\ task' = "cleanup" /\ session' = session /\ pySession' = pySession
    BY <1>6 DEF DropSocket, mapVars, pyVars
  <2>2. CASE Done("open")
    <3>1. <<call.op, call.name>> \in forsaken' /\ <<call.op, call.name>>[1] = "open"
      BY <2>1, <2>2, AbandonFacts DEF Done, CallOps
    <3> QED
      BY <3>1 DEF GivenUp
  <2> QED
    BY <1>1, <2>1, <2>2 DEF SessionInv
<1>7. CASE ~SessionOpened /\ ~CleanupSession /\ ~PyReturn /\ ~LostReturn /\ ~DropSocket
  <2>1. pySession' = pySession /\ task' = task
    BY <1>7, PythonOnly DEF pyVars, SocketDone, StopDrop, Abort
  <2> QED
    BY <1>1, <1>7, <2>1, SessionKept DEF SessionInv
<1> QED
  BY <1>2, <1>3, <1>4, <1>5, <1>6, <1>7

LEMMA SessionInvariant == Spec => []SessionInv
<1>1. Init => SessionInv
  BY DEF Init, SessionInv
<1> QED
  BY <1>1, TypeInvariant, StoreInvariant, PythonInvariant, SessionStep, PTL DEF Spec

\* cleanup_entries leaves nothing behind but what refused to close and what
\* nobody can reach, however the connection ended; and it closes the session.
THEOREM NothingIsLeaked == Spec => []ReleasedBeforeSession
<1>1. PythonInv /\ SessionInv => ReleasedBeforeSession
  <2> SUFFICES ASSUME PythonInv, SessionInv, task = "done" PROVE ReleasedBeforeSession
    BY DEF PythonInv, ReleasedBeforeSession
  <2>1. CleanupInv /\ LeftInv
    BY DEF PythonInv
  <2>2. Present = {} /\ statements = {}
    BY <2>1 DEF CleanupInv
  <2>3. \A p \in PortalNames : portals[p] # [stmt |-> pyPortals[p], bound |-> TRUE]
    BY <2>2 DEF Present, NoEntry
  <2>4. pySession = "open" => \E f \in forsaken : f[1] = "open"
    BY DEF SessionInv, GivenUp
  <2> QED
    BY <2>1, <2>2, <2>3, <2>4 DEF LeftInv, ReleasedBeforeSession
<1> QED
  BY <1>1, PythonInvariant, SessionInvariant, PTL

-----------------------------------------------------------------------------
(* What the client is told *)

\* Where the next message leads.
LEMMA ReceiveFacts ==
  ASSUME TypeInv, HandlerStep, NEW m \in Messages, Receive(m)
  PROVE  /\ pc = "read" /\ call = NoCall /\ call' = call /\ answered' = 0
         /\ pc' \in {"query_statement", "parse", "bind", "describe", "execute", "execute_reply",
                     "sync", "reply", "fail"}
         /\ pc' = "sync" => todo' = CloseIfIdle(txn)
         /\ pc' = "fail" => msg'.kind # "query"
         /\ UNCHANGED <<task, forsaken, cstate, txn, eff, portals, pyTxn, refused>>
<1> USE ServingTypes DEF Receive, At, Message, taskVars, storeVars, mapVars, pyVars
<1>1. /\ pc = "read" /\ call = NoCall /\ call' = call /\ answered' = 0
      /\ UNCHANGED <<task, forsaken, cstate, txn, eff, portals, pyTxn, refused>>
  OBVIOUS
<1>2. CASE \E empty \in BOOLEAN : OnQuery(empty)
  BY <1>1, <1>2 DEF OnQuery
<1>3. CASE \E s \in StatementNames, empty \in BOOLEAN : OnParse(s, empty)
  BY <1>1, <1>3 DEF OnParse
<1>4. CASE \E p \in PortalNames, s \in StatementNames : OnBind(p, s)
  BY <1>1, <1>4 DEF OnBind
<1>5. CASE \E kind \in {"describe", "execute"}, p \in PortalNames : OnPortal(kind, p)
  BY <1>1, <1>5 DEF OnPortal
<1>6. CASE \E p \in PortalNames : OnClosePortal(p)
  BY <1>1, <1>6 DEF OnClosePortal
<1>7. CASE \E s \in StatementNames : OnDescribeStatement(s) \/ OnCloseStatement(s)
  BY <1>1, <1>7 DEF OnDescribeStatement, OnCloseStatement
<1>8. CASE OnSync
  BY <1>1, <1>8 DEF OnSync
<1> QED
  BY <1>1, <1>2, <1>3, <1>4, <1>5, <1>6, <1>7, <1>8
     DEF HandlerStep, CallPython, CallbackRaised, Proceed, Replied, DoQueryReturned, QueryReturned,
         ExecuteReturned, SessionOpened, QueryCloseStatement, QueryReply, QueryReplyFailed,
         EmptyParsed, StatementParsed, EmptyBound, PortalBound, Described, ExecuteReply,
         ExecuteReplyFailed, SyncReply, Returned, NoCall

\* A close routine leaves fewer entries behind and, when it is over, none that
\* it had to close.
LEMMA RoutineFacts ==
  ASSUME TypeInv, StoreInv, task' = "serving",
         \/ \E p \in PortalNames : CloseNextPortal(p)
         \/ CloseTheStatement \/ CloseDefaultPortal \/ CloseReturned
  PROVE  /\ task = "serving" /\ todo # Nothing
         /\ UNCHANGED <<pc, msg, forsaken, cstate, txn, eff, answered, pyTxn, refused>>
         /\ call'.out # "raised" /\ call'.op # "query" /\ call.op # "query"
         /\ todo.then = "default" \/ Present = {} => todo'.then = "default" \/ Present' = {}
<1> USE ServingTypes DEF storeVars, mapVars, taskVars, wireVars, pyVars
<1>1. /\ task = "serving" /\ todo # Nothing
      /\ UNCHANGED <<pc, msg, forsaken, cstate, txn, eff, answered, pyTxn, refused>>
  <2>1. CASE CloseReturned
    BY <2>1 DEF CloseReturned, TypeInv, ControlInv
  <2>2. CASE CloseTheStatement \/ CloseDefaultPortal \/ \E p \in PortalNames : CloseNextPortal(p)
    BY <2>2 DEF CloseTheStatement, CloseDefaultPortal, CloseNextPortal, Nothing
  <2> QED
    BY <2>1, <2>2
<1>2. call'.out # "raised" /\ call'.op # "query" /\ call.op # "query"
  BY DEF CloseReturned, CloseTheStatement, CloseDefaultPortal, CloseNextPortal, Start, NoCall, CloseOps
<1>3. ASSUME NEW p \in PortalNames, RemovePortal(p)
      PROVE  Present' \subseteq Present /\ todo'.then = todo.then
  BY <1>3 DEF RemovePortal, Present
<1>4. CASE \E p \in PortalNames : CloseNextPortal(p)
  <2>1. Present' \subseteq Present /\ todo'.then = todo.then
    BY <1>3, <1>4 DEF CloseNextPortal, Present
  <2> QED
    BY <1>1, <1>2, <2>1
<1>5. CASE CloseTheStatement
  <2>1. todo.then = "statement" /\ Present' = Present
    BY <1>5 DEF CloseTheStatement, RemoveStatement, Present
  <2> QED
    BY <1>1, <1>2, <2>1
<1>6. CASE CloseDefaultPortal
  <2>1. Present' = Present /\ Present = {}
    BY <1>1, <1>6 DEF CloseDefaultPortal, Present, StoreInv, ServingInv, RoutineInv
  <2> QED
    BY <1>1, <1>2, <2>1
<1>7. CASE CloseReturned
  <2>1. CASE call.op = "close_portal" /\ RemovePortal(call.name)
    <3>1. call.name \in PortalNames
      BY <2>1 DEF Calls, NoCall
    <3> QED
      BY <1>1, <1>2, <1>3, <2>1, <3>1
  <2>2. CASE call.op = "close_statement" /\ RemoveStatement(call.name)
    <3>1. todo.then = "statement" /\ Present' = Present
      BY <1>1, <2>2 DEF RemoveStatement, Present, StoreInv, ServingInv, CallInv
    <3> QED
      BY <1>1, <1>2, <3>1
  <2> QED
    BY <1>7, <2>1, <2>2 DEF CloseReturned
<1> QED
  BY <1>4, <1>5, <1>6, <1>7

\* Handlers that go on with no close routine and no callback.
GoingOn ==
    \/ Proceed \/ Replied \/ QueryCloseStatement \/ EmptyParsed \/ EmptyBound \/ ExecuteReplyFailed
    \/ SyncReply \/ HangUp
Answering == SessionOpened \/ StatementParsed \/ PortalBound \/ Described

\* Where they go, and what they leave alone.
LEMMA GoingOnFacts ==
  ASSUME GoingOn
  PROVE  /\ task = "serving" /\ task' = task /\ call = NoCall /\ call' = call /\ todo = Nothing
         /\ UNCHANGED <<forsaken, txn, eff, pyTxn, refused>>
         /\ \/ pc = "query_run" /\ pc' = "query_reply" /\ msg' = msg /\ answered' = answered
            \/ /\ pc \in {"startup", "query_done"} /\ pc' = "read"
               /\ UNCHANGED <<msg, answered, cstate, portals>>
            \/ pc = "query_failed" /\ pc' = "fail" /\ UNCHANGED <<msg, answered, portals>>
            \/ pc = "reply" /\ pc' = "read" /\ msg'.kind \in {msg.kind, "startup"}
            \/ pc = "query_statement" /\ pc' = "query_run"
            \/ pc \in {"parse", "bind"} /\ pc' = "reply"
            \/ pc = "execute_reply" /\ pc' = "fail" /\ msg' = msg /\ eff = NoEffect(txn)
            \/ /\ pc = "sync" /\ pc' = "read" /\ UNCHANGED <<msg, portals>>
               /\ answered' = answered + 1 /\ cstate' = "ReadyForQuery"
            \/ pc' = "gone"
<1> USE DEF taskVars, wireVars, storeVars, mapVars, pyVars, Quiet, At
<1>1. CASE Proceed \/ HangUp \/ ExecuteReplyFailed
  BY <1>1 DEF Proceed, HangUp, ExecuteReplyFailed
<1>2. CASE Replied
  BY <1>2 DEF Replied, Forget, Startup, Message
<1>3. CASE QueryCloseStatement \/ EmptyParsed \/ EmptyBound \/ SyncReply
  BY <1>3 DEF QueryCloseStatement, EmptyParsed, EmptyBound, SyncReply
<1> QED
  BY <1>1, <1>2, <1>3 DEF GoingOn

LEMMA AnsweringFacts ==
  ASSUME TypeInv, StoreInv, Answering
  PROVE  /\ task = "serving" /\ task' = task /\ call' = NoCall /\ todo = Nothing /\ call.op # "query"
         /\ call.op \notin CloseOps /\ msg' = msg
         /\ UNCHANGED <<forsaken, txn, eff, pyTxn, refused, answered, cstate>>
         /\ \/ pc = "startup" /\ pc' = "read"
            \/ pc \in {"parse", "bind", "describe"} /\ pc' = "reply"
<1> USE DEF taskVars, wireVars, storeVars, mapVars, pyVars, Quiet
<1>1. CASE SessionOpened
  BY <1>1, ReturnedFrom DEF SessionOpened, Returned, CloseOps
<1>2. CASE StatementParsed
  BY <1>2, ReturnedFrom DEF StatementParsed, Returned, CloseOps
<1>3. CASE PortalBound
  BY <1>3, ReturnedFrom DEF PortalBound, Returned, CloseOps
<1>4. CASE Described
  BY <1>4, ReturnedFrom DEF Described, Returned, CloseOps
<1> QED
  BY <1>1, <1>2, <1>3, <1>4 DEF Answering

\* A handler that fails.
LEMMA EndFacts ==
  ASSUME TypeInv, StoreInv, CallbackRaised \/ CloseRaised \/ CancelQuery
  PROVE  /\ task = "serving" /\ task' = task /\ call' = NoCall /\ eff' = NoEffect(txn)
         /\ msg' = msg /\ UNCHANGED <<txn, answered, portals, refused, pyTxn>>
         /\ forsaken \subseteq forsaken'
         /\ \/ pc' = "query_failed" /\ todo' = CloseIfIdle(txn)
            \/ /\ pc' = "fail" /\ pc # "read"
               /\ msg.kind = "query" => call.op \in CloseOps /\ call.out = "raised"
<1> USE DEF taskVars, mapVars, pyVars
<1>1. /\ task = "serving" /\ task' = task /\ call' = NoCall /\ eff' = NoEffect(txn)
      /\ msg' = msg /\ UNCHANGED <<txn, answered, portals, refused, pyTxn>>
  BY DEF CallbackRaised, CloseRaised, CancelQuery, Raise, EndHandler
<1>2. forsaken \subseteq forsaken'
  BY AbandonFacts DEF CallbackRaised, CloseRaised, CancelQuery, Raise
<1>3. KindInv
  BY <1>1 DEF StoreInv, ServingInv
<1>4. CASE CloseRaised
  <2>1. /\ call.op \in CloseOps /\ call.out = "raised" /\ pc # "read"
        /\ \/ pc' = "query_failed" /\ todo' = CloseIfIdle(txn)
           \/ pc' = "fail"
    BY <1>1, <1>4 DEF CloseRaised, Raise, EndHandler, TypeInv, ControlInv
  <2> QED
    BY <1>1, <1>2, <2>1
<1>5. CASE CallbackRaised
  <2>1. pc \in {"startup", "query_run", "parse", "bind", "describe", "execute"}
    BY <1>1, <1>5, ServingTypes DEF CallbackRaised, TypeInv, ControlInv, NoCall
  <2>2. \/ pc = "query_run" /\ pc' = "query_failed" /\ todo' = CloseIfIdle(txn)
        \/ pc # "query_run" /\ pc' = "fail"
    BY <1>5 DEF CallbackRaised, Raise, EndHandler
  <2> QED
    BY <1>1, <1>2, <1>3, <2>1, <2>2 DEF KindInv
<1>6. CASE CancelQuery
  <2>1. \/ pc' = "query_failed" /\ todo' = CloseIfIdle(txn)
        \/ pc \in {"execute", "execute_reply"} /\ pc' = "fail"
    BY <1>6 DEF CancelQuery, EndHandler
  <2> QED
    BY <1>1, <1>2, <1>3, <2>1 DEF KindInv
<1> QED
  BY <1>4, <1>5, <1>6

Closing ==
    \/ \E p \in PortalNames : CloseNextPortal(p)
    \/ CloseTheStatement \/ CloseDefaultPortal \/ CloseReturned
Failing == CallbackRaised \/ CloseRaised \/ CancelQuery

\* The steps of a connection that goes on serving.
LEMMA ServingSteps ==
  ASSUME [Next]_vars, task = "serving", task' = "serving"
  PROVE  \/ HandlerStep /\ \E m \in Messages : Receive(m)
         \/ GoingOn \/ Answering \/ Failing \/ Closing \/ CallPython \/ DoQueryReturned
         \/ QueryReply \/ QueryReplyFailed \/ ExecuteReply \/ ReportError
         \/ PyReturn \/ LostReturn \/ Stop \/ StopQueue \/ UNCHANGED vars
<1>1. ~DropSocket /\ ~CleanupStep
  BY DEF DropSocket, CleanupStep, SocketDone, CleanupPortal, CleanupStatement, CleanupReturned,
         CleanupSession
<1> QED
  BY <1>1, HandlerSteps DEF Next, CloseStep, Closing, Failing, GoingOn, Answering, StopDrop, Abort,
     SocketDone, Terminated

\* Steps that none of the three invariants below sees.
LEMMA Unseen ==
  ASSUME Stop \/ StopQueue \/ UNCHANGED vars
  PROVE  UNCHANGED <<pc, msg, todo, call, cstate, txn, eff, answered, portals, pyTxn, refused, forsaken>>
  BY DEF Stop, StopQueue, vars, taskVars, wireVars, storeVars, mapVars, pyVars

\* What a callback that returns tells the client's side.
LEMMA PyReturnFacts ==
  ASSUME TypeInv, PyReturn
  PROVE  /\ call.out = "running" /\ call'.op = call.op /\ call'.name = call.name /\ call'.out \in Outcomes
         /\ call.op \in CallOps
         /\ UNCHANGED <<task, forsaken, pc, msg, todo, cstate, txn, answered, portals>>
         /\ UNCHANGED <<eff, pyTxn>> \/ (call.op = "query" /\ call'.out = "ok" /\ QueryEffect)
         /\ call.op \in CloseOps /\ call'.out = "raised" => refused' # {}
         /\ call.op \notin CloseOps => refused' = refused
<1> PICK outcome \in Outcomes :
        /\ call' = [call EXCEPT !.out = outcome] /\ Effect(call, outcome)
        /\ IF call.op = "query" /\ outcome = "ok" THEN QueryEffect ELSE UNCHANGED <<eff, pyTxn>>
  BY DEF PyReturn
<1>1. /\ call.out = "running" /\ call'.op = call.op /\ call'.name = call.name /\ call'.out = outcome
      /\ call \in Calls /\ call.op \in CallOps
  BY ServingTypes DEF PyReturn, Calls, NoCall
<1>2. UNCHANGED <<task, forsaken, pc, msg, todo, cstate, txn, answered, portals>>
  BY DEF PyReturn, taskVars, mapVars
<1>3. /\ call.op \in CloseOps /\ outcome # "ok" => call.name \in refused'
      /\ call.op \notin CloseOps => refused' = refused
  BY <1>1, EffectFacts
<1> QED
  BY <1>1, <1>2, <1>3

LEMMA LostReturnFacts ==
  ASSUME TypeInv, LostInv, LostReturn
  PROVE  /\ UNCHANGED <<task, forsaken, pc, msg, todo, call, cstate, txn, eff, answered, portals>>
         /\ refused' = refused \/ Doubtful # {}
         /\ pyTxn' = pyTxn \/ \E f \in forsaken : f[1] = "query"
<1> PICK c \in lost, outcome \in Outcomes :
        /\ Effect(c, outcome)
        /\ pyTxn' \in {pyTxn} \cup IF c.op = "query" THEN {"Idle", "Transaction"} ELSE {}
  BY DEF LostReturn
<1>1. c \in Calls /\ <<c.op, c.name>> \in forsaken /\ <<c.op, c.name>>[1] = c.op
  BY DEF LostInv, TypeInv, TypeOK
<1>2. UNCHANGED <<task, forsaken, pc, msg, todo, call, cstate, txn, eff, answered, portals>>
  BY DEF LostReturn, wireVars, mapVars
<1>3. refused' = refused \/ Doubtful # {}
  BY <1>1, EffectFacts, HistoryNames
<1>4. pyTxn' = pyTxn \/ c.op = "query"
  OBVIOUS
<1> QED
  BY <1>1, <1>2, <1>3, <1>4

LEMMA EffectStep ==
  ASSUME TypeInv, StoreInv, LostInv, EffectInv, task = "serving", task' = "serving", [Next]_vars
  PROVE  EffectInv'
<1> USE DEF EffectInv, Pending, Done
<1>1. /\ NoCall.out = "none" /\ NoCall.op = "none"
      /\ \A t : NoEffect(t).ends = FALSE /\ NoEffect(t).txn = t
  BY DEF NoCall, NoEffect
<1>2. call.op = "query" => pc \in {"query_run", "execute"}
  BY DEF StoreInv, ServingInv, CallInv
<1>3. portals' = portals => Present' = Present
  BY DEF Present
<1>4. CASE HandlerStep /\ \E m \in Messages : Receive(m)
  BY <1>1, <1>4, ReceiveFacts
<1>5. CASE GoingOn
  BY <1>1, <1>5, GoingOnFacts
<1>6. CASE Answering
  BY <1>1, <1>2, <1>6, AnsweringFacts
<1>7. CASE Failing
  BY <1>1, <1>7, EndFacts DEF Failing
<1>8. CASE Closing
  BY <1>8, RoutineFacts DEF Closing
<1>9. CASE CallPython
  <2>1. /\ call = NoCall /\ call'.out = "running"
        /\ UNCHANGED <<pc, todo, txn, eff, portals, pyTxn, forsaken>>
    BY <1>9 DEF CallPython, At, Start, Quiet, taskVars, wireVars, mapVars, pyVars
  <2> QED
    BY <1>1, <1>3, <2>1
<1>10. CASE DoQueryReturned
  <2>1. /\ call' = NoCall /\ pc \in {"query_run", "execute"} /\ pc' \in {"query_reply", "execute_reply"}
        /\ todo' = IF eff.ends THEN CloseAllPortals ELSE Nothing
        /\ UNCHANGED <<txn, eff, portals, pyTxn, forsaken>>
    BY <1>10 DEF DoQueryReturned, QueryReturned, ExecuteReturned, Returned, taskVars, wireVars, mapVars,
       pyVars
  <2> QED
    BY <1>1, <2>1 DEF CloseAllPortals
<1>11. CASE QueryReply \/ QueryReplyFailed \/ ExecuteReply
  <2>1. /\ call = NoCall /\ call' = NoCall /\ eff' = NoEffect(txn')
        /\ UNCHANGED <<portals, pyTxn, forsaken>>
        /\ \/ pc \in {"query_reply", "execute_reply"} /\ txn' = eff.txn /\ pc' \in {"query_done", "reply"}
           \/ pc' = "query_failed"
    BY <1>11 DEF QueryReply, QueryReplyFailed, ExecuteReply, At, taskVars, mapVars, pyVars
  <2> QED
    BY <1>1, <2>1
<1>12. CASE ReportError
  <2>1. call' = NoCall /\ eff' = NoEffect(txn') /\ txn' # "Transaction" /\ pc' = "read"
    BY <1>12 DEF ReportError, At, ToError
  <2> QED
    BY <1>1, <2>1
<1>13. CASE PyReturn
  <2>1. CASE UNCHANGED <<eff, pyTxn>>
    BY <1>3, <1>13, <2>1, PyReturnFacts
  <2>2. CASE call.op = "query" /\ call'.out = "ok" /\ QueryEffect
    <3>1. /\ pc \in {"query_run", "execute"} /\ call'.op = "query" /\ call.out = "running"
          /\ UNCHANGED <<forsaken, pc, txn>>
      BY <1>2, <1>13, <2>2, PyReturnFacts
    <3>2. eff = NoEffect(txn)
      BY <3>1
    <3>3. PICK ends \in BOOLEAN :
            \E t \in IF call.name = None THEN StatusAfter(txn, ends) ELSE ResponseStatus(txn, ends) :
              /\ eff' = [ends |-> ends, txn |-> t]
              /\ pyTxn' = CASE t = "Transaction" /\ (ends \/ txn = "Idle") -> "Transaction"
                            [] t = "Idle" /\ ends -> "Idle"
                            [] OTHER -> pyTxn
      BY <2>2 DEF QueryEffect
    <3> PICK t \in IF call.name = None THEN StatusAfter(txn, ends) ELSE ResponseStatus(txn, ends) :
            /\ eff' = [ends |-> ends, txn |-> t]
            /\ pyTxn' = CASE t = "Transaction" /\ (ends \/ txn = "Idle") -> "Transaction"
                          [] t = "Idle" /\ ends -> "Idle"
                          [] OTHER -> pyTxn
      BY <3>3
    <3>4. t = "Transaction" => pyTxn' = "Transaction" \/ (txn = "Transaction" /\ pyTxn' = pyTxn)
      <4>1. txn \in {"Idle", "Transaction", "Error"}
        BY DEF TypeInv, TypeOK, Statuses
      <4> QED
        BY <3>3, <4>1 DEF StatusAfter, ResponseStatus, ToError
    <3> QED
      BY <1>1, <2>2, <3>1, <3>2, <3>3, <3>4
  <2> QED
    BY <1>13, <2>1, <2>2, PyReturnFacts
<1>14. CASE LostReturn
  BY <1>3, <1>14, LostReturnFacts
<1>15. CASE Stop \/ StopQueue \/ UNCHANGED vars
  BY <1>3, <1>15, Unseen
<1> QED
  BY <1>4, <1>5, <1>6, <1>7, <1>8, <1>9, <1>10, <1>11, <1>12, <1>13, <1>14, <1>15, ServingSteps

LEMMA AnswerStep ==
  ASSUME TypeInv, StoreInv, LostInv, IdleInv, AnswerInv, task = "serving", task' = "serving",
         [Next]_vars
  PROVE  AnswerInv'
<1> USE DEF AnswerInv
<1>1. /\ KindInv /\ AnsweredInv
      /\ forsaken \subseteq forsaken' => (Doubtful # {} => Doubtful' # {})
  BY HistoryGrows DEF StoreInv, ServingInv, TypeInv
<1>2. CASE HandlerStep /\ \E m \in Messages : Receive(m)
  BY <1>2, ReceiveFacts
<1>3. CASE GoingOn
  BY <1>1, <1>3, GoingOnFacts DEF KindInv, AnsweredInv, QueryLabels
<1>4. CASE Answering
  BY <1>1, <1>4, AnsweringFacts DEF KindInv
<1>5. CASE Failing
  <2>1. /\ msg' = msg /\ answered' = answered /\ refused' = refused /\ forsaken \subseteq forsaken'
        /\ \/ pc' = "query_failed"
           \/ /\ pc' = "fail" /\ pc # "read"
              /\ msg.kind = "query" => call.op \in CloseOps /\ call.out = "raised"
    BY <1>5, EndFacts DEF Failing
  <2>2. pc' = "fail" => pc # "gone" /\ (msg.kind = "query" => refused' # {} \/ Doubtful' # {})
    <3>1. pc # "gone"
      BY <1>5, ServingTypes DEF Failing, CallbackRaised, CloseRaised, CancelQuery, TypeInv, ControlInv, NoCall
    <3>2. call.op \in CloseOps /\ call.out = "raised" => refused # {} \/ Doubtful # {}
      BY DEF IdleInv
    <3> QED
      BY <1>1, <2>1, <3>1, <3>2
  <2>3. pc' = "fail" /\ msg'.kind = "sync" => answered' = 0
    BY <1>1, <2>1, <2>2 DEF KindInv, AnsweredInv, QueryLabels
  <2> QED
    BY <2>1, <2>2, <2>3
<1>6. CASE Closing
  <2>1. pc \notin {"read", "fail"}
    BY <1>6, RoutineFacts DEF Closing, TypeInv, ControlInv
  <2> QED
    BY <1>6, <2>1, RoutineFacts DEF Closing
<1>7. CASE CallPython
  BY <1>7 DEF CallPython, Quiet, wireVars
<1>8. CASE DoQueryReturned
  BY <1>8 DEF DoQueryReturned, QueryReturned, ExecuteReturned
<1>9. CASE QueryReply \/ QueryReplyFailed \/ ExecuteReply
  <2>1. \/ pc = "query_reply" /\ pc' = "query_done" /\ answered' = answered + 1 /\ msg' = msg
        \/ pc' \in {"query_failed", "reply"}
    BY <1>9 DEF QueryReply, QueryReplyFailed, ExecuteReply, At
  <2> QED
    BY <1>1, <2>1 DEF AnsweredInv, KindInv, QueryLabels
<1>10. CASE ReportError
  <2>1. /\ pc = "fail" /\ pc' = "read"
        /\ IF msg.kind \in {"startup", "query"}
             THEN answered' = answered + 1 /\ UNCHANGED cstate
             ELSE cstate' = "AwaitingSync" /\ UNCHANGED answered
        /\ msg' = IF msg.kind \in {"query", "sync"} THEN msg ELSE Startup
        /\ UNCHANGED <<forsaken, refused>>
    BY <1>10 DEF ReportError, At, Forget, taskVars, pyVars
  <2>2. Startup.kind = "startup"
    BY DEF Startup, Message
  <2>3. answered \in 0..1
    BY <1>1, <2>1 DEF AnsweredInv
  <2>4. CASE msg.kind = "sync"
    <3>1. answered' = 0 /\ cstate' = "AwaitingSync" /\ msg' = msg
      BY <2>1, <2>4
    <3>2. ~(answered' = 1) /\ ~(cstate' = "ReadyForQuery")
      BY <3>1
    <3> QED
      BY <2>1, <2>4, <3>1, <3>2
  <2>5. CASE msg.kind # "sync"
    BY <1>1, <2>1, <2>2, <2>3, <2>5
  <2> QED
    BY <2>4, <2>5
<1>11. CASE PyReturn
  <2>1. pc \notin {"read", "fail"}
    BY <1>11, PyReturnFacts DEF TypeInv, ControlInv, CallOps, CloseOps
  <2> QED
    BY <1>11, <2>1, PyReturnFacts
<1>12. CASE LostReturn
  BY <1>1, <1>12, LostReturnFacts
<1>13. CASE Stop \/ StopQueue \/ UNCHANGED vars
  BY <1>1, <1>13, Unseen
<1> QED
  BY <1>2, <1>3, <1>4, <1>5, <1>6, <1>7, <1>8, <1>9, <1>10, <1>11, <1>12, <1>13, ServingSteps

LEMMA IdleStep ==
  ASSUME TypeInv, StoreInv, LostInv, IdleInv, task = "serving", task' = "serving", [Next]_vars
  PROVE  IdleInv'
<1> USE DEF IdleInv, Clean
<1>1. /\ NoCall.out = "none" /\ NoCall.op = "none" /\ Nothing.then = "return"
      /\ \A t : t = "Idle" => CloseIfIdle(t).then = "default"
  BY DEF NoCall, Nothing, CloseIfIdle, CloseAllPortals
<1>2. KindInv
  BY DEF StoreInv, ServingInv
<1>3. /\ portals' = portals => Present' = Present
      /\ forsaken \subseteq forsaken' => (Doubtful # {} => Doubtful' # {})
  BY HistoryGrows DEF Present
<1>4. CASE HandlerStep /\ \E m \in Messages : Receive(m)
  BY <1>1, <1>4, ReceiveFacts
<1>5. CASE GoingOn
  <2>1. /\ call' = NoCall /\ UNCHANGED <<forsaken, txn, refused>>
        /\ \/ /\ pc \in {"startup", "query_done", "sync"} /\ pc' = "read" /\ todo = Nothing
              /\ UNCHANGED <<msg, portals>>
           \/ pc = "query_failed" /\ pc' = "fail" /\ todo = Nothing /\ UNCHANGED <<msg, portals>>
           \/ pc = "reply" /\ pc' = "read" /\ msg'.kind \in {msg.kind, "startup"}
           \/ pc = "execute_reply" /\ pc' = "fail" /\ msg' = msg
           \/ pc' \in {"query_run", "query_reply", "reply", "gone"}
    BY <1>5, GoingOnFacts
  <2> QED
    BY <1>1, <1>2, <1>3, <2>1 DEF KindInv, QueryLabels
<1>6. CASE Answering
  BY <1>1, <1>2, <1>6, AnsweringFacts DEF KindInv
<1>7. CASE Failing
  <2>1. /\ call' = NoCall /\ msg' = msg /\ UNCHANGED <<txn, portals, refused>>
        /\ forsaken \subseteq forsaken'
        /\ \/ pc' = "query_failed" /\ todo' = CloseIfIdle(txn)
           \/ /\ pc' = "fail" /\ pc # "read"
              /\ msg.kind = "query" => call.op \in CloseOps /\ call.out = "raised"
    BY <1>7, EndFacts DEF Failing
  <2> QED
    BY <1>1, <1>3, <2>1 DEF CloseOps
<1>8. CASE Closing
  <2>1. pc \notin {"read", "fail"}
    BY <1>8, RoutineFacts DEF Closing, TypeInv, ControlInv
  <2> QED
    BY <1>3, <1>8, <2>1, RoutineFacts DEF Closing
<1>9. CASE CallPython
  <2>1. /\ call = NoCall /\ call'.out = "running"
        /\ UNCHANGED <<pc, msg, todo, txn, cstate, portals, refused, forsaken>>
    BY <1>9 DEF CallPython, At, Start, Quiet, taskVars, wireVars, mapVars, pyVars
  <2> QED
    BY <1>3, <2>1 DEF Doubtful
<1>10. CASE DoQueryReturned
  BY <1>1, <1>10 DEF DoQueryReturned, QueryReturned, ExecuteReturned, Returned, CloseOps
<1>11. CASE QueryReply \/ QueryReplyFailed \/ ExecuteReply
  <2>1. /\ call' = NoCall
        /\ \/ pc' \in {"query_done", "query_failed"} /\ todo' = CloseIfIdle(txn')
           \/ pc' = "reply"
    BY <1>11 DEF QueryReply, QueryReplyFailed, ExecuteReply, At
  <2> QED
    BY <1>1, <2>1 DEF CloseOps
<1>12. CASE ReportError
  <2>1. /\ pc = "fail" /\ pc' = "read" /\ call' = NoCall /\ (txn' = "Idle" => txn = "Idle")
        /\ UNCHANGED <<forsaken, portals, refused>>
        /\ msg.kind \notin {"startup", "query"} => cstate' = "AwaitingSync"
        /\ msg' = IF msg.kind \in {"query", "sync"} THEN msg ELSE Startup
    BY <1>12 DEF ReportError, At, Forget, ToError, taskVars, mapVars, pyVars
  <2>2. Startup.kind = "startup"
    BY DEF Startup, Message
  <2> QED
    BY <1>1, <1>3, <2>1, <2>2 DEF CloseOps
<1>13. CASE PyReturn
  <2>1. pc \notin {"read", "fail"}
    BY <1>13, PyReturnFacts DEF TypeInv, ControlInv, CallOps, CloseOps
  <2> QED
    BY <1>3, <1>13, <2>1, PyReturnFacts
<1>14. CASE LostReturn
  BY <1>3, <1>14, LostReturnFacts
<1>15. CASE Stop \/ StopQueue \/ UNCHANGED vars
  BY <1>3, <1>15, Unseen
<1> QED
  BY <1>4, <1>5, <1>6, <1>7, <1>8, <1>9, <1>10, <1>11, <1>12, <1>13, <1>14, <1>15, ServingSteps

LEMMA ClientInit == Init => ClientInv
<1> SUFFICES ASSUME Init PROVE ClientInv
  OBVIOUS
<1> USE DEF Init, NoCall, NoEffect, Startup, Message
<1>1. EffectInv
  BY DEF EffectInv, Pending, Done
<1>2. IdleInv /\ AnswerInv
  BY DEF IdleInv, AnswerInv, CloseOps
<1> QED
  BY <1>1, <1>2 DEF ClientInv

LEMMA ClientStep == TypeInv /\ StoreInv /\ PythonInv /\ ClientInv /\ [Next]_vars => ClientInv'
  BY ServingBefore, EffectStep, IdleStep, AnswerStep DEF ClientInv, PythonInv

LEMMA ClientInvariant == Spec => []ClientInv
  BY TypeInvariant, StoreInvariant, PythonInvariant, ClientInit, ClientStep, PTL DEF Spec

\* The simple and the extended handlers answer a message before they take the
\* next one, whatever fails in between.
THEOREM MessagesAreAnswered == Spec => []RequestsAnswered
<1>1. ClientInv => RequestsAnswered
  BY DEF ClientInv, AnswerInv, RequestsAnswered, At
<1> QED
  BY <1>1, ClientInvariant, PTL

\* A status "Transaction" that a client was told is true: do_query's effect on
\* it is what Python did.
THEOREM ToldOfARealTransaction == Spec => []TransactionIsOpen
<1>1. ClientInv => TransactionIsOpen
  <2> SUFFICES ASSUME ClientInv, At("read"), txn = "Transaction", \A f \in forsaken : f[1] # "query"
               PROVE  pyTxn = "Transaction"
    BY DEF TransactionIsOpen
  <2>1. eff = NoEffect(txn)
    BY DEF ClientInv, EffectInv, Pending, Done, At, NoCall
  <2> QED
    BY <2>1 DEF ClientInv, EffectInv, At, NoEffect
<1> QED
  BY <1>1, ClientInvariant, PTL

\* on_query and Sync close all portals of an idle connection.
THEOREM IdleHasNoPortals == Spec => []NoPortalAcrossIdle
<1>1. ClientInv => NoPortalAcrossIdle
  BY DEF ClientInv, IdleInv, Clean, NoPortalAcrossIdle, At
<1> QED
  BY <1>1, ClientInvariant, PTL

\* do_query closes all portals before it hands on a response that ends a
\* transaction.
THEOREM TransactionEndsWithItsPortals == Spec => []EndClosesPortals
<1>1. TypeInv /\ PythonInv /\ ClientInv => EndClosesPortals
  <2> SUFFICES ASSUME TypeInv, PythonInv, ClientInv, At("query_reply") \/ At("execute_reply"), eff.ends,
                      NEW p \in PortalNames
               PROVE  pyPortals[p] = None
    BY DEF EndClosesPortals
  <2>1. task = "serving" /\ call = NoCall /\ todo = Nothing /\ pc \in {"query_reply", "execute_reply"}
    BY DEF At
  <2>2. Present = {}
    BY <2>1 DEF ClientInv, EffectInv, Nothing
  <2>3. portals[p] # [stmt |-> pyPortals[p], bound |-> TRUE]
    BY <2>2, CleanupTypes, ServingTypes DEF Present
  <2> QED
    BY <2>1, <2>3 DEF PythonInv, MirrorInv, Done, NoCall
<1> QED
  BY <1>1, TypeInvariant, PythonInvariant, ClientInvariant, PTL

=============================================================================
