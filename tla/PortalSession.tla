---------------------------- MODULE PortalSession ----------------------------
(***************************************************************************)
(* One server connection of pywire: the handlers run by process_socket,    *)
(* pgwire's portal and statement stores, the PythonPortals maps, the       *)
(* Python callbacks, the closing lock, the stop branch of the connection   *)
(* task and the cleanup after it.                                          *)
(*                                                                         *)
(* An action is what happens between two awaits of a lock, a callback or   *)
(* the socket.  pc says where the handler resumes once nothing is left to  *)
(* close (todo) and no callback is outstanding (call).  SQL, parameters,   *)
(* rows and formats are reduced to the outcomes they lead to.              *)
(***************************************************************************)
EXTENDS Naturals, FiniteSets

CONSTANTS
    PortalNames, StatementNames,      \* names a client uses
    DefaultPortal, DefaultStatement,  \* the unnamed ones (DEFAULT_NAME)
    None,              \* no name
    HasFactory,        \* serve() was given a session_factory
    AllowAbort,        \* the JoinSet of the connection tasks may be dropped
    MaxCancels         \* bound on the cancel requests that reach a query

ASSUME NamesAssumption ==
    /\ DefaultPortal \in PortalNames /\ DefaultStatement \in StatementNames
    /\ PortalNames \cap StatementNames = {}
    /\ None \notin PortalNames \cup StatementNames
ASSUME FlagsAssumption ==
    HasFactory \in BOOLEAN /\ AllowAbort \in BOOLEAN /\ MaxCancels \in Nat

VARIABLES
    \* the connection task
    task,          \* serving, cleanup or done
    stopping,      \* its stop branch: not signalled, signalled, queued on closing
    lock,          \* PythonPortals.closing
    lost,          \* abandoned callbacks that still run: their future was dropped
    cancels,       \* cancel requests that dropped a do_query
    \* the handler
    pc,            \* where it resumes
    msg,           \* the message it handles, or handled last
    todo,          \* what the running close routine still has to do
    call,          \* the Python callback the task awaits
    \* pgwire's client
    cstate, txn,   \* connection state and transaction status
    eff,           \* what the responses of the running query will do to txn
    answered,      \* ReadyForQuery messages sent for msg
    pstore, sstore,               \* portal and statement store
    portals, statements, session, \* the PythonPortals maps
    \* Python, as its callbacks have completed
    pySession, pyStatements,
    pyPortals,     \* the statement each live Python portal was bound to
    pyTxn,         \* the transaction its queries have left open, or Idle
    refused,       \* names whose latest close callback raised
    \* history
    forsaken       \* callbacks abandoned so far, as <<op, name>>

taskVars == <<task, stopping, lost, forsaken, cancels>>
wireVars == <<cstate, txn, eff, answered>>
storeVars == <<pstore, sstore>>
mapVars == <<portals, statements, session>>
pyVars == <<pySession, pyStatements, pyPortals, pyTxn, refused>>
vars == <<taskVars, lock, pc, msg, todo, call, wireVars, storeVars, mapVars, pyVars>>

-----------------------------------------------------------------------------
(* Types *)

Names == PortalNames \cup StatementNames
CloseOps == {"close_portal", "close_statement"}
CallOps == CloseOps \cup {"open", "query", "parse", "bind", "describe", "describe_statement"}
Outcomes == {"ok", "raised"}
Kinds == {"startup", "query", "parse", "bind", "describe", "execute",
          "describe_statement", "close_portal", "close_statement", "sync"}
Statuses == {"Idle", "Transaction", "Error"}
Effects == [ends : BOOLEAN, txn : Statuses]
NoEffect(t) == [ends |-> FALSE, txn |-> t]
PortalStates == {"none", "empty", "value", "suspended"}
Labels == {"startup", "read", "query_statement", "query_run", "query_reply",
           "query_done", "query_failed", "parse", "bind", "describe", "execute",
           "execute_reply", "sync", "reply", "fail", "gone"}

NoEntry == [stmt |-> None, bound |-> FALSE]
Entries == {NoEntry} \cup [stmt : StatementNames, bound : BOOLEAN]
NoCall == [op |-> "none", name |-> None, of |-> None, out |-> "none"]
Calls ==
    {NoCall} \cup
    {c \in [op : CallOps, name : Names \cup {None}, of : StatementNames \cup {None},
            out : Outcomes \cup {"running"}] :
       /\ c.op \in {"parse", "close_statement"} => c.name \in StatementNames
       /\ c.op \in {"bind", "close_portal"} => c.name \in PortalNames
       /\ c.op = "bind" => c.of \in StatementNames}
Message(kind, p, s, empty) == [kind |-> kind, portal |-> p, stmt |-> s, empty |-> empty]
Startup == Message("startup", DefaultPortal, DefaultStatement, FALSE)
Messages == [kind : Kinds, portal : PortalNames, stmt : StatementNames, empty : BOOLEAN]
Routines == [portals : SUBSET PortalNames, then : {"return", "statement", "default"}]
Nothing == [portals |-> {}, then |-> "return"]

TypeOK ==
    /\ task \in {"serving", "cleanup", "done"}
    /\ stopping \in {"no", "signalled", "queued"} /\ lock \in {"free", "handler"}
    /\ pc \in Labels /\ msg \in Messages /\ todo \in Routines
    /\ call \in Calls /\ lost \in SUBSET Calls /\ cancels \in 0..MaxCancels
    /\ cstate \in {"ReadyForQuery", "AwaitingSync"}
    /\ txn \in Statuses /\ eff \in Effects /\ answered \in 0..2
    /\ pstore \in [PortalNames -> PortalStates]
    /\ sstore \in [StatementNames -> {"none", "empty", "value"}]
    /\ portals \in [PortalNames -> Entries]
    /\ statements \in SUBSET StatementNames /\ session \in BOOLEAN
    /\ pySession \in {"none", "open", "closed"}
    /\ pyStatements \in SUBSET StatementNames
    /\ pyPortals \in [PortalNames -> StatementNames \cup {None}]
    /\ pyTxn \in {"Idle", "Transaction"} /\ refused \in SUBSET Names
    /\ forsaken \in SUBSET (CallOps \X (Names \cup {None}))

Init ==
    /\ task = "serving" /\ stopping = "no" /\ lock = "free"
    /\ lost = {} /\ forsaken = {} /\ cancels = 0
    /\ pc = "startup" /\ msg = Startup /\ todo = Nothing /\ call = NoCall
    /\ cstate = "ReadyForQuery" /\ txn = "Idle" /\ eff = NoEffect("Idle") /\ answered = 0
    /\ pstore = [p \in PortalNames |-> "none"]
    /\ sstore = [s \in StatementNames |-> "none"]
    /\ portals = [p \in PortalNames |-> NoEntry] /\ statements = {} /\ session = FALSE
    /\ pySession = "none" /\ pyStatements = {} /\ pyTxn = "Idle" /\ refused = {}
    /\ pyPortals = [p \in PortalNames |-> None]

-----------------------------------------------------------------------------
(* Closing Python resources while the connection is served *)

\* Entries of the portals map, and those that hold a Python portal.
Present == {p \in PortalNames : portals[p] # NoEntry}
Bound == {p \in PortalNames : portals[p].bound}
Dependents(s) == {p \in Present : portals[p].stmt = s}

\* The close routines: the portals they close first, and how they end
\* (close_statement closes msg.stmt, close_all_portals drops the unnamed
\* portal from the store).
ClosePortal(p) == [portals |-> {p}, then |-> "return"]
CloseAlone(s) == [portals |-> {}, then |-> "statement"]  \* mutant
CloseStatement(s) == [portals |-> Dependents(s), then |-> "statement"]
CloseNamed == [portals |-> Present \ {DefaultPortal}, then |-> "default"]  \* mutant
CloseAllPortals == [portals |-> Present, then |-> "default"]
KeepIdle(t) == Nothing  \* mutant
CloseIfIdle(t) == IF t = "Idle" THEN CloseAllPortals ELSE Nothing

\* closing is a fair mutex: a queued stop branch is next to get it.
Barging == lock = "free"  \* mutant
LockFree == lock = "free" /\ stopping # "queued"
TakeNoLock == LockFree /\ lock' = lock  \* mutant
TakeLock == LockFree /\ lock' = "handler"

Start(op, name, of) ==
    call' = [op |-> op, name |-> name, of |-> of, out |-> "running"]

\* A portal, or statement, leaves the map and the store together.  The first
\* two operators are mutants that forget one of them.
RemoveFromMap(p) ==
    /\ portals' = [portals EXCEPT ![p] = NoEntry]
    /\ todo' = [todo EXCEPT !.portals = @ \ {p}]
    /\ UNCHANGED <<pstore, sstore, statements, session>>
RemoveFromStore(p) ==
    /\ pstore' = [pstore EXCEPT ![p] = "none"]
    /\ todo' = [todo EXCEPT !.portals = @ \ {p}]
    /\ UNCHANGED <<portals, sstore, statements, session>>
RemovePortal(p) ==
    /\ portals' = [portals EXCEPT ![p] = NoEntry]
    /\ pstore' = [pstore EXCEPT ![p] = "none"]
    /\ todo' = [todo EXCEPT !.portals = @ \ {p}]
    /\ UNCHANGED <<sstore, statements, session>>
RemoveStatement(s) ==
    /\ statements' = statements \ {s}
    /\ sstore' = [sstore EXCEPT ![s] = "none"]
    /\ todo' = Nothing
    /\ UNCHANGED <<pstore, portals, session>>

\* close_portal: a missing or empty entry is removed at once, a bound one is
\* first closed by Python with the lock held.
CloseNextPortal(p) ==
    /\ task = "serving" /\ p \in todo.portals /\ call = NoCall
    /\ IF portals[p].bound
         THEN TakeLock /\ Start("close_portal", p, None) /\ UNCHANGED <<todo, mapVars, storeVars>>
         ELSE LockFree /\ RemovePortal(p) /\ UNCHANGED <<lock, call>>
    /\ UNCHANGED <<taskVars, pc, msg, wireVars, pyVars>>

\* close_statement after its dependent portals: only a statement with a
\* Python object is closed by Python.
CloseTheStatement ==
    /\ task = "serving" /\ todo = [portals |-> {}, then |-> "statement"] /\ call = NoCall
    /\ IF sstore[msg.stmt] = "value"
         THEN /\ TakeLock /\ Start("close_statement", msg.stmt, None)
              /\ UNCHANGED <<todo, mapVars, storeVars>>
         ELSE LockFree /\ RemoveStatement(msg.stmt) /\ UNCHANGED <<lock, call>>
    /\ UNCHANGED <<taskVars, pc, msg, wireVars, pyVars>>

\* The end of close_all_portals.
CloseDefaultPortal ==
    /\ task = "serving" /\ todo = [portals |-> {}, then |-> "default"] /\ call = NoCall
    /\ pstore' = [pstore EXCEPT ![DefaultPortal] = "none"] /\ todo' = Nothing
    /\ UNCHANGED <<taskVars, lock, pc, msg, call, wireVars, sstore, mapVars, pyVars>>

\* The close callback returned: the lock goes with the object.
CloseReturned ==
    /\ task = "serving" /\ call.op \in CloseOps /\ call.out = "ok"
    /\ lock' = "free" /\ call' = NoCall
    /\ \/ call.op = "close_portal" /\ RemovePortal(call.name)
       \/ call.op = "close_statement" /\ RemoveStatement(call.name)
    /\ UNCHANGED <<taskVars, pc, msg, wireVars, pyVars>>

\* The handler fails with the error a callback raised, and the rest of a close
\* routine is skipped.  An error of the simple protocol's do_query goes
\* through on_query, which closes all portals of an idle connection.
EndHandler(inDoQuery) ==
    /\ call' = NoCall /\ eff' = NoEffect(txn)
    /\ pc' = IF inDoQuery THEN "query_failed" ELSE "fail"
    /\ todo' = IF inDoQuery THEN CloseIfIdle(txn) ELSE Nothing
    /\ UNCHANGED <<msg, cstate, txn, answered, storeVars, pyVars>>
Raise(inDoQuery) == EndHandler(inDoQuery) /\ UNCHANGED taskVars

\* A close callback raised: its entry stays.  (The mutants remove it, or go on
\* as if the callback had returned.)
CloseRaisedForgetting ==
    /\ task = "serving" /\ call.op \in CloseOps /\ call.out = "raised"
    /\ lock' = "free" /\ Raise(pc = "query_reply")
    /\ portals' = [p \in PortalNames |-> IF p = call.name THEN NoEntry ELSE portals[p]]
    /\ UNCHANGED <<statements, session>>
CloseRaisedQuietly ==
    /\ task = "serving" /\ call.op \in CloseOps /\ call.out = "raised"
    /\ lock' = "free" /\ call' = NoCall /\ todo' = Nothing /\ eff' = NoEffect(txn)
    /\ UNCHANGED <<taskVars, pc, msg, cstate, txn, answered, storeVars, mapVars, pyVars>>
CloseRaised ==
    /\ task = "serving" /\ call.op \in CloseOps /\ call.out = "raised"
    /\ lock' = "free" /\ Raise(pc = "query_reply") /\ UNCHANGED mapVars

\* Another callback raised: nothing was stored.
CallbackRaised ==
    /\ task = "serving" /\ call.op \notin CloseOps /\ call.out = "raised"
    /\ Raise(pc = "query_run") /\ UNCHANGED <<lock, mapVars>>

CloseStep ==
    \/ \E p \in PortalNames : CloseNextPortal(p)
    \/ CloseTheStatement \/ CloseDefaultPortal \/ CloseReturned \/ CloseRaised

-----------------------------------------------------------------------------
(* Handlers: common parts *)

\* The handler is at label l with nothing left to close and no callback out.
At(l) == task = "serving" /\ pc = l /\ todo = Nothing /\ call = NoCall

\* Only the handler's control moves.
Quiet == UNCHANGED <<taskVars, lock, wireVars, storeVars, mapVars, pyVars>>

\* The handler takes the next message.  After a failed extended message all
\* but Sync are discarded, which changes nothing here.
Receive(m) ==
    /\ At("read")
    /\ cstate = "ReadyForQuery" \/ m.kind = "sync"
    /\ msg' = m /\ answered' = 0
    /\ UNCHANGED <<taskVars, lock, call, cstate, txn, eff, storeVars, mapVars, pyVars>>

\* The callbacks handlers await, by label.  Startup opens the session once
\* pgwire has authenticated the client; statements and portals of empty
\* queries have no Python object.
CallPython ==
    /\ At(pc)
    /\ \/ pc = "startup" /\ HasFactory /\ Start("open", None, None)
       \/ pc = "query_run" /\ ~msg.empty /\ Start("query", None, None)
       \/ pc = "execute" /\ Start("query", msg.portal, portals[msg.portal].stmt)
       \/ pc = "parse" /\ ~msg.empty /\ Start("parse", msg.stmt, None)
       \/ pc = "bind" /\ sstore[msg.stmt] = "value" /\ Start("bind", msg.portal, msg.stmt)
       \/ /\ pc = "describe" /\ msg.kind = "describe"
          /\ Start("describe", msg.portal, portals[msg.portal].stmt)
       \/ /\ pc = "describe" /\ msg.kind = "describe_statement"
          /\ Start("describe_statement", msg.stmt, None)
    /\ UNCHANGED <<pc, msg, todo>> /\ Quiet

\* The callback awaited at label l has returned.
Returned(l) ==
    /\ task = "serving" /\ pc = l /\ todo = Nothing
    /\ call.out = "ok" /\ call' = NoCall

\* Steps that only go on to the next label.  pgwire answers an empty query.
Proceed ==
    /\ \/ At("startup") /\ ~HasFactory /\ pc' = "read"
       \/ At("query_run") /\ msg.empty /\ pc' = "query_reply"
       \/ At("query_done") /\ pc' = "read"
       \/ At("query_failed") /\ pc' = "fail"
    /\ UNCHANGED <<msg, todo, call>> /\ Quiet

\* The handler is done with a message; which one is remembered only where its
\* answer is at stake.
Forget == msg' = IF msg.kind \in {"query", "sync"} THEN msg ELSE Startup
Replied ==
    /\ At("reply") /\ pc' = "read" /\ Forget
    /\ UNCHANGED <<todo, call>> /\ Quiet

\* The transaction status after an error.
ToError(t) == IF t = "Idle" THEN "Idle" ELSE "Error"

\* The status that responses lead to, with or without a TransactionEnd among
\* them; an Execute has one response.
StatusAfter(t, ends) ==
    IF ends \/ t = "Idle" THEN Statuses
    ELSE IF t = "Transaction" THEN {"Transaction", "Error"} ELSE {"Error"}
ResponseStatus(t, ends) ==
    IF ends THEN {"Idle"}
    ELSE IF t = "Error" THEN {"Error"} ELSE {"Transaction", ToError(t)}

\* do_query returned: a TransactionEnd in its responses closes all portals
\* before any response is written.
QueryReturned == Returned("query_run") /\ pc' = "query_reply"
ExecuteReturned == Returned("execute") /\ pc' = "execute_reply"
DoQueryReturned ==
    /\ QueryReturned \/ ExecuteReturned
    /\ todo' = IF eff.ends THEN CloseAllPortals ELSE Nothing
    /\ UNCHANGED <<taskVars, lock, msg, wireVars, storeVars, mapVars, pyVars>>

-----------------------------------------------------------------------------
(* Startup and the simple query protocol *)

SessionOpened ==
    /\ Returned("startup")
    /\ session' = TRUE /\ pc' = "read"
    /\ UNCHANGED <<taskVars, lock, msg, todo, wireVars, storeVars, portals, statements, pyVars>>

\* on_query: the unnamed portal goes first, then the unnamed statement.
OnQuery(empty) ==
    /\ Receive(Message("query", DefaultPortal, DefaultStatement, empty))
    /\ todo' = ClosePortal(DefaultPortal) /\ pc' = "query_statement"

QueryCloseStatement ==
    /\ At("query_statement")
    /\ todo' = CloseStatement(DefaultStatement) /\ pc' = "query_run"
    /\ UNCHANGED <<msg, call>> /\ Quiet

\* pgwire wrote the responses and ReadyForQuery; on_query then closes all
\* portals of an idle connection.  (The mutant answers a second time.)
QueryReplyTwice ==
    /\ At("query_reply")
    /\ txn' = eff.txn /\ eff' = NoEffect(txn') /\ answered' = answered + 2
    /\ todo' = CloseIfIdle(txn') /\ pc' = "query_done"
    /\ UNCHANGED <<taskVars, lock, msg, call, cstate, storeVars, mapVars, pyVars>>
QueryReply ==
    /\ At("query_reply")
    /\ txn' = eff.txn /\ eff' = NoEffect(txn') /\ answered' = answered + 1
    /\ todo' = CloseIfIdle(txn') /\ pc' = "query_done"
    /\ UNCHANGED <<taskVars, lock, msg, call, cstate, storeVars, mapVars, pyVars>>

\* A row stream or the socket failed before ReadyForQuery was written: the
\* responses before it have had their effect.
QueryReplyFailed ==
    /\ At("query_reply") /\ ~msg.empty
    /\ txn' \in StatusAfter(txn, FALSE) \cup StatusAfter(txn, eff.ends)
    /\ eff' = NoEffect(txn') /\ todo' = CloseIfIdle(txn') /\ pc' = "query_failed"
    /\ UNCHANGED <<taskVars, lock, msg, call, cstate, answered, storeVars, mapVars, pyVars>>

-----------------------------------------------------------------------------
(* The extended query protocol *)

\* on_parse: the unnamed statement is replaced, a named one must be new.  (The
\* mutant lets a named one be parsed again.)
OnParseAgain(s, empty) ==
    /\ Receive(Message("parse", DefaultPortal, s, empty))
    /\ todo' = IF s = DefaultStatement THEN CloseStatement(s) ELSE Nothing
    /\ pc' = "parse"
OnParse(s, empty) ==
    /\ Receive(Message("parse", DefaultPortal, s, empty))
    /\ todo' = IF s = DefaultStatement THEN CloseStatement(s) ELSE Nothing
    /\ pc' = IF s = DefaultStatement \/ sstore[s] = "none" THEN "parse" ELSE "fail"

EmptyParsed ==
    /\ At("parse") /\ msg.empty
    /\ sstore' = [sstore EXCEPT ![msg.stmt] = "empty"] /\ pc' = "reply"
    /\ UNCHANGED <<taskVars, lock, msg, todo, call, wireVars, pstore, mapVars, pyVars>>

StatementParsed ==
    /\ Returned("parse")
    /\ statements' = statements \cup {msg.stmt}
    /\ sstore' = [sstore EXCEPT ![msg.stmt] = "value"] /\ pc' = "reply"
    /\ UNCHANGED <<taskVars, lock, msg, todo, wireVars, pstore, portals, session, pyVars>>

\* on_bind: a named portal must be new, the unnamed one is closed first.  A
\* message with bad formats or parameters fails like one for no statement.
OnBind(p, s) ==
    /\ Receive(Message("bind", p, s, FALSE))
    /\ \/ /\ p = DefaultPortal \/ pstore[p] = "none"
          /\ sstore[s] # "none"
          /\ todo' = ClosePortal(p) /\ pc' = "bind"
       \/ todo' = Nothing /\ pc' = "fail"

EmptyBound ==
    /\ At("bind") /\ sstore[msg.stmt] # "value"
    /\ portals' = [portals EXCEPT ![msg.portal] = [stmt |-> msg.stmt, bound |-> FALSE]]
    /\ pstore' = [pstore EXCEPT ![msg.portal] = "empty"] /\ pc' = "reply"
    /\ UNCHANGED <<taskVars, lock, msg, todo, call, wireVars, sstore, statements, session, pyVars>>

PortalBound ==
    /\ Returned("bind")
    /\ portals' = [portals EXCEPT ![msg.portal] = [stmt |-> msg.stmt, bound |-> TRUE]]
    /\ pstore' = [pstore EXCEPT ![msg.portal] = "value"] /\ pc' = "reply"
    /\ UNCHANGED <<taskVars, lock, msg, todo, wireVars, sstore, statements, session, pyVars>>

\* Describe and Execute: pgwire answers for what is empty, and portal_for
\* looks a stored portal up in the map.
OnPortal(kind, p) ==
    /\ Receive(Message(kind, p, DefaultStatement, FALSE)) /\ todo' = Nothing
    /\ pc' = CASE pstore[p] = "empty" -> "reply"
               [] pstore[p] = "suspended" /\ kind = "execute" -> "execute_reply"
               [] /\ portals[p].bound
                  /\ pstore[p] = "value" \/ (pstore[p] = "suspended" /\ kind = "describe") -> kind
               [] OTHER -> "fail"
OnDescribeStatement(s) ==
    /\ Receive(Message("describe_statement", DefaultPortal, s, FALSE)) /\ todo' = Nothing
    /\ pc' = CASE sstore[s] = "empty" -> "reply"
               [] sstore[s] = "value" -> "describe"
               [] OTHER -> "fail"

Described ==
    /\ Returned("describe") /\ pc' = "reply"
    /\ UNCHANGED <<msg, todo>> /\ Quiet

\* pgwire wrote the response.  A portal that is still in the store may stay
\* there with the row stream it has left, for the next Execute.
ExecuteReply ==
    /\ At("execute_reply")
    /\ txn' = eff.txn /\ eff' = NoEffect(txn') /\ pc' = "reply"
    /\ pstore' \in {pstore} \cup
         IF pstore[msg.portal] = "none" THEN {}
         ELSE {[pstore EXCEPT ![msg.portal] = s] : s \in {"value", "suspended"}}
    /\ UNCHANGED <<taskVars, lock, msg, todo, call, cstate, answered, sstore, mapVars, pyVars>>

\* The row stream, the one kind of response that can fail, raised.
ExecuteReplyFailed ==
    /\ At("execute_reply") /\ eff = NoEffect(txn) /\ pc' = "fail"
    /\ UNCHANGED <<msg, todo, call>> /\ Quiet

OnClosePortal(p) ==
    /\ Receive(Message("close_portal", p, DefaultStatement, FALSE))
    /\ todo' = ClosePortal(p) /\ pc' = "reply"
OnCloseStatement(s) ==
    /\ Receive(Message("close_statement", DefaultPortal, s, FALSE))
    /\ todo' = CloseStatement(s) /\ pc' = "reply"

OnSync ==
    /\ Receive(Message("sync", DefaultPortal, DefaultStatement, FALSE))
    /\ todo' = CloseIfIdle(txn) /\ pc' = "sync"
SyncReplyWithout ==  \* mutant
    /\ At("sync")
    /\ cstate' = "ReadyForQuery" /\ pc' = "read"
    /\ UNCHANGED <<taskVars, lock, msg, todo, call, txn, eff, answered, storeVars, mapVars, pyVars>>
SyncReply ==
    /\ At("sync")
    /\ answered' = answered + 1 /\ cstate' = "ReadyForQuery" /\ pc' = "read"
    /\ UNCHANGED <<taskVars, lock, msg, todo, call, txn, eff, storeVars, mapVars, pyVars>>

HandlerStep ==
    \/ CallPython \/ CallbackRaised \/ Proceed \/ Replied \/ DoQueryReturned \/ SessionOpened
    \/ \E empty \in BOOLEAN : OnQuery(empty)
    \/ QueryCloseStatement \/ QueryReply \/ QueryReplyFailed
    \/ \E s \in StatementNames, empty \in BOOLEAN : OnParse(s, empty)
    \/ EmptyParsed \/ StatementParsed
    \/ \E p \in PortalNames, s \in StatementNames : OnBind(p, s)
    \/ EmptyBound \/ PortalBound
    \/ \E kind \in {"describe", "execute"}, p \in PortalNames : OnPortal(kind, p)
    \/ \E p \in PortalNames : OnClosePortal(p)
    \/ \E s \in StatementNames : OnDescribeStatement(s) \/ OnCloseStatement(s)
    \/ Described \/ ExecuteReply \/ ExecuteReplyFailed \/ OnSync \/ SyncReply

-----------------------------------------------------------------------------
(* Errors, the end of the connection and its cleanup *)

\* process_error: a simple message is answered with ErrorResponse and
\* ReadyForQuery, an extended one puts the client in AwaitingSync.
ReportError ==
    /\ At("fail")
    /\ txn' = ToError(txn) /\ eff' = NoEffect(txn') /\ pc' = "read" /\ Forget
    /\ IF msg.kind \in {"startup", "query"}
         THEN answered' = answered + 1 /\ UNCHANGED cstate
         ELSE cstate' = "AwaitingSync" /\ UNCHANGED answered
    /\ UNCHANGED <<taskVars, lock, todo, call, storeVars, mapVars, pyVars>>

\* The client disconnects or terminates, a write fails, the error is fatal,
\* or startup ends without an authenticated client.
HangUp ==
    /\ \E l \in {"startup", "read", "reply", "sync", "execute_reply", "fail"} : At(l)
    /\ pc' = "gone"
    /\ UNCHANGED <<msg, todo, call>> /\ Quiet

\* A future is dropped: a Python callback it awaited goes on, but nothing
\* receives its result.  Which portal a query runs on no longer matters.
Abandon ==
    LET left == IF call.op \in {"query", "describe"}
                  THEN [call EXCEPT !.name = None, !.of = None] ELSE call IN
    /\ lost' = lost \cup IF call.out = "running" THEN {left} ELSE {}
    /\ forsaken' = forsaken \cup IF call = NoCall THEN {} ELSE {<<left.op, left.name>>}

\* The process_socket future is dropped: the stores and the lock go with it.
DropSocket ==
    /\ task' = "cleanup" /\ pc' = "gone"
    /\ Abandon /\ call' = NoCall
    /\ lock' = "free" /\ todo' = Nothing /\ msg' = Startup
    /\ cstate' = "ReadyForQuery" /\ txn' = "Idle" /\ eff' = NoEffect("Idle") /\ answered' = 0
    /\ pstore' = [p \in PortalNames |-> "none"]
    /\ sstore' = [s \in StatementNames |-> "none"]
    /\ UNCHANGED <<stopping, cancels, mapVars, pyVars>>

\* A cancel request of the client ends the query: do_query, which may await
\* the Python query or a close that follows it, is dropped.  (In the mutant
\* close_all_portals has taken its portals out of the map before it closes
\* them, and those it has not come to are dropped with it.)
CancelDrained ==
    /\ task = "serving" /\ cancels < MaxCancels
    /\ \/ pc \in {"query_run", "execute"} /\ call.op = "query"
       \/ pc \in {"query_reply", "execute_reply"} /\ todo # Nothing
    /\ cancels' = cancels + 1 /\ Abandon
    /\ lock' = "free" /\ EndHandler(pc \in {"query_run", "query_reply"})
    /\ portals' = [p \in PortalNames |-> IF p \in todo.portals THEN NoEntry ELSE portals[p]]
    /\ UNCHANGED <<task, stopping, statements, session>>
CancelQuery ==
    /\ task = "serving" /\ cancels < MaxCancels
    /\ \/ pc \in {"query_run", "execute"} /\ call.op = "query"
       \/ pc \in {"query_reply", "execute_reply"} /\ todo # Nothing
    /\ cancels' = cancels + 1 /\ Abandon
    /\ lock' = "free" /\ EndHandler(pc \in {"query_run", "query_reply"})
    /\ UNCHANGED <<task, stopping, mapVars>>

SocketDone == At("gone") /\ DropSocket

\* serve() tells its connections to stop.
Stop ==
    /\ stopping = "no" /\ task = "serving"
    /\ stopping' = "signalled"
    /\ UNCHANGED <<task, lost, forsaken, cancels, lock, pc, msg, todo, call, wireVars, storeVars,
                   mapVars, pyVars>>

\* The stop branch waits for closing while the handler closes a resource ...
StopQueue ==
    /\ task = "serving" /\ stopping = "signalled" /\ lock = "handler"
    /\ stopping' = "queued"
    /\ UNCHANGED <<task, lost, forsaken, cancels, lock, pc, msg, todo, call, wireVars, storeVars,
                   mapVars, pyVars>>

\* ... and ends process_socket at its next await once it has the lock.
StopDrop == task = "serving" /\ stopping # "no" /\ lock = "free" /\ DropSocket

\* The task is aborted with its JoinSet: the Drop of PythonPortals detaches
\* the same cleanup.
Abort == AllowAbort /\ task = "serving" /\ DropSocket

\* cleanup_entries: portals first, then statements, then the session.
AtOnce == TRUE  \* mutant
PortalsGone == Present = {}
AllGone == Present = {} /\ statements = {}
CleanupPortal(p) ==
    /\ task = "cleanup" /\ call = NoCall /\ p \in Present
    /\ IF portals[p].bound
         THEN Start("close_portal", p, None) /\ UNCHANGED portals
         ELSE portals' = [portals EXCEPT ![p] = NoEntry] /\ UNCHANGED call
    /\ UNCHANGED <<taskVars, lock, pc, msg, todo, wireVars, storeVars, statements, session, pyVars>>

CleanupStatement(s) ==
    /\ task = "cleanup" /\ call = NoCall /\ PortalsGone /\ s \in statements
    /\ Start("close_statement", s, None)
    /\ UNCHANGED <<taskVars, lock, pc, msg, todo, wireVars, storeVars, mapVars, pyVars>>

\* Whatever the callback did, its error is ignored and the entry is gone.
CleanupReturned ==
    /\ task = "cleanup" /\ call.out \in Outcomes
    /\ call' = NoCall
    /\ \/ /\ call.op = "close_portal"
          /\ portals' = [portals EXCEPT ![call.name] = NoEntry]
          /\ UNCHANGED statements
       \/ /\ call.op = "close_statement"
          /\ statements' = statements \ {call.name}
          /\ UNCHANGED portals
    /\ UNCHANGED <<taskVars, lock, pc, msg, todo, wireVars, storeVars, session, pyVars>>

CleanupSession ==
    /\ task = "cleanup" /\ call = NoCall /\ AllGone
    /\ session' = FALSE /\ task' = "done"
    /\ pySession' = IF session THEN "closed" ELSE pySession
    /\ UNCHANGED <<stopping, lost, forsaken, cancels, lock, pc, msg, todo, call, wireVars,
                   storeVars, portals, statements, pyStatements, pyPortals, pyTxn, refused>>

CleanupStep ==
    \/ SocketDone \/ CleanupReturned \/ CleanupSession
    \/ \E p \in PortalNames : CleanupPortal(p)
    \/ \E s \in StatementNames : CleanupStatement(s)

-----------------------------------------------------------------------------
(* Python: a callback returns or raises *)

Effect(c, outcome) ==
    LET done(op) == c.op = op /\ outcome = "ok" IN
    /\ pySession' = IF done("open") THEN "open" ELSE pySession
    /\ pyStatements' = CASE done("parse") -> pyStatements \cup {c.name}
                         [] done("close_statement") -> pyStatements \ {c.name}
                         [] OTHER -> pyStatements
    /\ pyPortals' = CASE done("bind") -> [pyPortals EXCEPT ![c.name] = c.of]
                      [] done("close_portal") -> [pyPortals EXCEPT ![c.name] = None]
                      [] OTHER -> pyPortals
    /\ refused' = IF c.op \notin CloseOps THEN refused
                  ELSE IF outcome = "ok" THEN refused \ {c.name} ELSE refused \cup {c.name}

\* A query returned: what it did to the transaction is in its responses.
QueryEffect ==
    \E ends \in BOOLEAN :
    \E t \in IF call.name = None THEN StatusAfter(txn, ends) ELSE ResponseStatus(txn, ends) :
        /\ eff' = [ends |-> ends, txn |-> t]
        /\ pyTxn' = CASE t = "Transaction" /\ (ends \/ txn = "Idle") -> "Transaction"
                     [] t = "Idle" /\ ends -> "Idle"
                     [] OTHER -> pyTxn

PyReturn ==
    /\ call.out = "running"
    /\ \E outcome \in Outcomes :
         /\ call' = [call EXCEPT !.out = outcome] /\ Effect(call, outcome)
         /\ IF call.op = "query" /\ outcome = "ok" THEN QueryEffect ELSE UNCHANGED <<eff, pyTxn>>
    /\ UNCHANGED <<taskVars, lock, pc, msg, todo, cstate, txn, answered, storeVars, mapVars>>

LostReturn ==
    /\ \E c \in lost, outcome \in Outcomes :
         /\ lost' = lost \ {c} /\ Effect(c, outcome)
         /\ pyTxn' \in {pyTxn} \cup IF c.op = "query" THEN {"Idle", "Transaction"} ELSE {}
    /\ UNCHANGED <<task, stopping, forsaken, cancels, lock, pc, msg, todo, call, wireVars,
                   storeVars, mapVars>>

Terminated == task = "done" /\ lost = {} /\ UNCHANGED vars

Next ==
    \/ HandlerStep \/ CloseStep
    \/ ReportError \/ HangUp
    \/ CancelQuery \/ Stop \/ StopQueue \/ StopDrop \/ Abort
    \/ CleanupStep \/ PyReturn \/ LostReturn \/ Terminated

\* tokio polls a task that can move, and a close callback must finish; no
\* other callback and no client needs to.
Fairness ==
    /\ WF_vars(StopQueue \/ StopDrop)
    /\ WF_vars(CloseReturned \/ CloseRaised)
    /\ WF_vars(CleanupStep)
    /\ WF_vars(call.op \in CloseOps /\ PyReturn)

Spec == Init /\ [][Next]_vars
FairSpec == Spec /\ Fairness

-----------------------------------------------------------------------------
(* Properties *)

\* The objects whose creation was abandoned by the end of serving, which
\* nobody can close; and the names whose close was abandoned, by a cancel
\* request or an abort.  That close may complete at any later time and goes by
\* the name alone, so that it may be called twice, or hit a newer object.
Unreachable == {f[2] : f \in {g \in forsaken : g[1] \in {"parse", "bind"}}}
Doubtful == {f[2] : f \in {g \in forsaken : g[1] \in CloseOps}}

\* A close routine and a creation touch Python first and the maps afterwards,
\* or not at all if Python raised or the query was cancelled.  Except while a
\* result is on its way, the maps hold what Python holds: nothing is leaked
\* while serving, and what Execute and Describe pass on, and a suspended row
\* stream goes on with, is open.
MapsMirrorPython ==
    task = "serving" /\ call.out \notin Outcomes =>
        /\ pyStatements = statements
        /\ \A p \in PortalNames :
             /\ pyPortals[p] # None => portals[p] = [stmt |-> pyPortals[p], bound |-> TRUE]
             /\ portals[p].bound => pyPortals[p] # None \/ p \in Doubtful

\* A client that is told it is in a transaction is in one: not one that Python
\* has committed and whose answer was given up because a portal would not
\* close, a row stream raised or the socket failed.  A cancelled query goes on
\* in Python, and may do anything to the transaction.
TransactionIsOpen ==
    /\ At("read") /\ txn = "Transaction"
    /\ \A f \in forsaken : f[1] # "query"
    => pyTxn = "Transaction"

\* pgwire's two stores and the PythonPortals maps are updated by separate
\* calls in every handler; between two awaits they name the same portals and
\* statements, so portal_for finds what Execute found and cleanup misses
\* nothing the client can still name.
StoresAgree ==
    task = "serving" =>
        /\ \A p \in PortalNames :
             /\ pstore[p] \in {"value", "suspended"} <=> portals[p].bound
             /\ pstore[p] = "empty" <=> p \in Present \ Bound
        /\ \A s \in StatementNames : sstore[s] = "value" <=> s \in statements

\* on_bind, close_statement and on_parse keep every portal's statement
\* defined: no entry names a statement that was closed or replaced by one of
\* the other kind.
PortalHasStatement ==
    task = "serving" =>
        \A p \in Present :
            sstore[portals[p].stmt] = IF portals[p].bound THEN "value" ELSE "empty"

\* Python's view of the same rule, through cleanup: a statement object is
\* closed only after every portal bound to it has been closed, or refused to.
\* Exempt is the portal of an abandoned Bind, which nobody can close.
StatementOutlivesPortals ==
    \A p \in PortalNames \ Unreachable :
        pyPortals[p] # None =>
            pyPortals[p] \in pyStatements \/ (task # "serving" /\ p \in refused)

\* docs/BINDING_STRATEGY.md: "bind_portal runs once for each Bind; Describe and
\* Execute receive that same Python portal object", and every object is closed
\* once. A handler decides which object it passes before the lock and the
\* closes it awaits; still Python is never asked to create an object under a
\* name it holds, nor to use or close one it has not got.  A portal whose close
\* was abandoned may be closed again.
CallsAreLegal ==
    call.out = "running" =>
        /\ call.op = "parse" => call.name \notin pyStatements
        /\ call.op = "bind" => pyPortals[call.name] = None /\ call.of \in pyStatements
        /\ call.op \in {"describe_statement", "close_statement"} /\ call.name \notin Doubtful =>
             call.name \in pyStatements
        /\ call.op \in {"describe", "query"} /\ call.name \in PortalNames \ Doubtful =>
             pyPortals[call.name] = call.of
        /\ call.op = "close_portal" /\ call.name \notin Doubtful => pyPortals[call.name] # None

\* When the session object is closed, and when the task ends, every portal and
\* statement Python created has been closed or has refused to close, and when
\* it ends so has the session; the one exception is the object of the callback
\* abandoned by the stop.
ReleasedBeforeSession ==
    task = "done" \/ pySession = "closed" =>
        /\ \A p \in PortalNames \ Unreachable : pyPortals[p] # None => p \in refused
        /\ pyStatements \subseteq refused \cup Unreachable
        /\ pySession = "open" => \E f \in forsaken : f[1] = "open"

\* Outside a transaction a portal lives until the next Sync or Query: once
\* such a message has been handled and the connection is idle, only a refused
\* close leaves a portal behind.
NoPortalAcrossIdle ==
    /\ At("read") /\ msg.kind \in {"query", "sync"}
    /\ cstate = "ReadyForQuery" /\ txn = "Idle" /\ refused = {} /\ Doubtful = {}
    => Present = {}

\* do_query: by the time a COMMIT or ROLLBACK is reported to the client, in
\* either protocol, no portal of the transaction is left in Python.
EndClosesPortals ==
    /\ At("query_reply") \/ At("execute_reply")
    /\ eff.ends
    => \A p \in PortalNames : pyPortals[p] = None

\* The handler takes another message only when a Query has been answered with
\* ReadyForQuery, once unless a close was refused, and a Sync either answered or
\* turned into AwaitingSync.
RequestsAnswered ==
    At("read") =>
        /\ msg.kind = "query" =>
             answered >= 1 /\ (refused = {} /\ Doubtful = {} => answered = 1)
        /\ msg.kind = "sync" => (answered = 1) = (cstate = "ReadyForQuery")

\* A stop, and a connection that ended, get through cleanup even if no other
\* callback ever returns and the client never sends or reads again.
StopCompletes == (stopping # "no" \/ pc = "gone") ~> task = "done"

\* SessionFactory's documentation: "If it has a synchronous close method,
\* pywire calls it when the connection is released."
SessionClosed == task = "done" /\ lost = {} => pySession # "open"

\* tests/test_server.py: "a Z (ReadyForQuery) is the server's all done for one
\* simple-query exchange".
OneReadyPerQuery == At("read") /\ msg.kind = "query" => answered = 1

=============================================================================
