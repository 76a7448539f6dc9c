--------------------------- MODULE ServerLifecycle ---------------------------
(***************************************************************************)
(* pywire.serve: the accept loop of the Rust future, its JoinSet of        *)
(* connection tasks, the shutdown event and the stop signal, the asyncio   *)
(* task that waits for the event on the future's behalf, and the Python    *)
(* coroutine that shields the future from cancellation.                    *)
(***************************************************************************)
EXTENDS Naturals, ConnectionPhases

CONSTANTS
    Conns,          \* the connections accepted in the server's life
    MaxCancels,     \* bound on the cancellations of the Python task
    AcceptMayFail   \* accept() or HandlerConfig::build may return an error

ASSUME ServerAssumption == MaxCancels \in Nat /\ AcceptMayFail \in BOOLEAN

VARIABLES
    server,     \* the Rust future
    listening,  \* the listener is bound
    stop,       \* the value of the stop_connections watch
    tasks,      \* the tasks in the JoinSet
    conn,       \* the phase of each connection's task
    wrapper,    \* the Python coroutine serve()
    event,      \* its shutdown event is set
    cancels,    \* cancellations delivered to it
    waiter      \* the task of event.wait() that the shutdown branch awaits

rustVars == <<server, listening, stop, tasks>>
pythonVars == <<wrapper, event, cancels, waiter>>
vars == <<rustVars, conn, pythonVars>>

\* How the coroutine ends, and the future: interrupted is failed with the
\* CancelledError of its event.wait().
Finished == {"returned", "cancelled", "raised"}
Cut == {"failed", "interrupted"}
Ended == {"returned"} \cup Cut

TypeOK ==
    /\ server \in {"starting", "accepting", "draining"} \cup Ended
    /\ listening \in BOOLEAN /\ stop \in BOOLEAN /\ event \in BOOLEAN
    /\ conn \in [Conns -> Phases \cup {"none"}]
    /\ tasks \subseteq {c \in Conns : conn[c] # "none"}
    /\ wrapper \in {"awaiting", "cancelling"} \cup Finished
    /\ cancels \in 0..MaxCancels
    /\ waiter \in {"none", "waiting", "woken", "cancelled"}

Init ==
    /\ server = "starting" /\ listening = FALSE /\ stop = FALSE
    /\ tasks = {} /\ conn = [c \in Conns |-> "none"]
    /\ wrapper = "awaiting" /\ event = FALSE /\ cancels = 0
    /\ waiter = "none"

-----------------------------------------------------------------------------
(* The Rust future *)

BindListener ==
    /\ server = "starting"
    /\ \/ server' = "accepting" /\ listening' = TRUE
       \/ server' = "failed" /\ UNCHANGED listening
    /\ UNCHANGED <<stop, tasks, conn, pythonVars>>

\* Mutant: the task is in the set before it exists.
AcceptEarly(c) ==
    /\ server = "accepting" /\ conn[c] = "none"
    /\ tasks' = tasks \cup {c}
    /\ UNCHANGED <<server, listening, stop, conn, pythonVars>>

\* A socket is accepted, its handlers are built, and a task that has
\* subscribed to the stop signal is spawned.
Accept(c) ==
    /\ server = "accepting" /\ conn[c] = "none"
    /\ conn' = [conn EXCEPT ![c] = "serving"]
    /\ tasks' = tasks \cup {c}
    /\ UNCHANGED <<server, listening, stop, pythonVars>>

\* The first poll of the shutdown branch wraps event.wait() in a task of the
\* event loop, which ends when the event is set.  (Wrapping fails only where
\* the event loop is closed.)
StartWaiting ==
    /\ server = "accepting" /\ waiter = "none" /\ waiter' = "waiting"
    /\ UNCHANGED <<rustVars, conn, wrapper, event, cancels>>

Wake ==
    /\ waiter = "waiting" /\ event /\ waiter' = "woken"
    /\ UNCHANGED <<rustVars, conn, wrapper, event, cancels>>

\* An error of accept() or build leaves the future by "?": the listener and
\* the JoinSet are dropped with it.
AcceptFailed ==
    /\ AcceptMayFail /\ server = "accepting"
    /\ server' = "failed" /\ listening' = FALSE /\ tasks' = {}
    /\ UNCHANGED <<stop, conn, pythonVars>>

\* join_next takes a finished task out of the set, in the loop or the drain.
Reap(c) ==
    /\ server \in {"accepting", "draining"}
    /\ c \in tasks /\ conn[c] = "done"
    /\ tasks' = tasks \ {c}
    /\ UNCHANGED <<server, listening, stop, conn, pythonVars>>

\* Mutant: the connections are not told.
BeginDrainSilently ==
    /\ server = "accepting" /\ waiter = "woken"
    /\ server' = "draining" /\ listening' = FALSE
    /\ UNCHANGED <<stop, tasks, conn, pythonVars>>

\* The shutdown branch wins: no more connections, and those there are told.
BeginDrain ==
    /\ server = "accepting" /\ waiter = "woken"
    /\ server' = "draining" /\ listening' = FALSE /\ stop' = TRUE
    /\ UNCHANGED <<tasks, conn, pythonVars>>

\* The shutdown branch wins with an error: the "?" of its result skips the
\* drain and drops the JoinSet.
ShutdownFailed ==
    /\ server = "accepting" /\ waiter = "cancelled"
    /\ server' = "interrupted" /\ listening' = FALSE /\ tasks' = {}
    /\ UNCHANGED <<stop, conn, pythonVars>>

Drained ==
    /\ server = "draining" /\ tasks = {}
    /\ server' = "returned"
    /\ UNCHANGED <<listening, stop, tasks, conn, pythonVars>>

-----------------------------------------------------------------------------
(* The connection tasks *)

Move(c, relation) ==
    /\ \E to \in Phases : <<conn[c], to>> \in relation /\ conn' = [conn EXCEPT ![c] = to]
    /\ UNCHANGED <<rustVars, pythonVars>>

TaskStep(c) == Move(c, Own)
StopStep(c) == stop /\ Move(c, OnStop)

\* Mutant: the tasks are detached instead of aborted.
DetachStep(c) == FALSE /\ Move(c, OnAbort)

\* A task is aborted when its JoinSet is dropped; the cleanup it leaves to the
\* Drop of PythonPortals runs on its own.
AbortStep(c) == server \in Cut /\ Move(c, OnAbort)

-----------------------------------------------------------------------------
(* The Python coroutine *)

\* Mutant: a second cancellation ends the wait.
CancelAgain ==
    /\ wrapper \in {"awaiting", "cancelling"} /\ cancels < MaxCancels
    /\ cancels' = cancels + 1 /\ event' = TRUE
    /\ wrapper' = IF wrapper = "awaiting" THEN "cancelling" ELSE "cancelled"
    /\ UNCHANGED <<rustVars, conn>>

\* The first cancellation sets the event, later ones are absorbed while the
\* future runs.
CancelWrapper ==
    /\ wrapper \in {"awaiting", "cancelling"} /\ cancels < MaxCancels
    /\ cancels' = cancels + 1 /\ event' = TRUE /\ wrapper' = "cancelling"
    /\ UNCHANGED <<rustVars, conn>>

\* serve()'s own task is cancelled.
Cancel == CancelWrapper /\ UNCHANGED waiter

\* Every task of the event loop is, as asyncio.run does when its main
\* coroutine is over: event.wait() too, unless it has come back.
CancelAll ==
    /\ CancelWrapper
    /\ waiter' = IF waiter = "waiting" THEN "cancelled" ELSE waiter

\* The future is done: its error is raised, or else the cancellation.
Resume ==
    /\ wrapper \in {"awaiting", "cancelling"} /\ server \in Ended
    /\ wrapper' = IF server = "failed" THEN "raised"
                  ELSE IF server = "interrupted" \/ wrapper = "cancelling" THEN "cancelled"
                  ELSE "returned"
    /\ UNCHANGED <<rustVars, conn, event, cancels, waiter>>

Terminated ==
    /\ wrapper \in Finished /\ \A c \in Conns : conn[c] \in {"none", "done"}
    /\ UNCHANGED vars

Next ==
    \/ BindListener \/ StartWaiting \/ Wake
    \/ AcceptFailed \/ BeginDrain \/ ShutdownFailed \/ Drained
    \/ \E c \in Conns : Accept(c) \/ Reap(c) \/ TaskStep(c) \/ StopStep(c) \/ AbortStep(c)
    \/ Cancel \/ CancelAll \/ Resume \/ Terminated

\* The runtime polls the future and its tasks, the event loop its own, and the callbacks run by a
\* close or by a cleanup finish; clients need not do anything.
CloseStep(c) == conn[c] \in {"closing", "finishing", "cleanup"} /\ TaskStep(c)

Fairness ==
    /\ WF_vars(BindListener) /\ WF_vars(StartWaiting) /\ WF_vars(Wake)
    /\ WF_vars(BeginDrain) /\ WF_vars(ShutdownFailed) /\ WF_vars(Drained) /\ WF_vars(Resume)
    /\ \A c \in Conns :
         /\ WF_vars(Reap(c)) /\ WF_vars(StopStep(c)) /\ WF_vars(AbortStep(c))
         /\ WF_vars(CloseStep(c))

Spec == Init /\ [][Next]_vars
FairSpec == Spec /\ Fairness

-----------------------------------------------------------------------------
(* Properties *)

Over(c) == conn[c] \in {"none", "done"}

\* server.py: when a cancelled serve() ends with the cancellation, the port is
\* free, and every connection's cleanup has finished, however often it was
\* cancelled meanwhile -- if not event.wait() was cancelled with it.
CancelWaits ==
    wrapper = "cancelled" =>
        ~listening /\ (waiter # "cancelled" => \A c \in Conns : Over(c))

\* A cancelled serve() ends, once close callbacks finish, whatever the clients
\* do, and however many of them there are.
CancelEnds == wrapper = "cancelling" ~> wrapper \in Finished

\* When the future has ended, by drain or by error, every connection's Python
\* objects are eventually released.
AllReleased == server \in Ended ~> \A c \in Conns : Over(c)

\* pywire/server.py: "Cancellation stops accepting connections and waits for
\* their async portal/statement cleanup before returning."
CancelAlwaysWaits ==
    cancels > 0 /\ wrapper \in Finished => \A c \in Conns : Over(c)

=============================================================================
