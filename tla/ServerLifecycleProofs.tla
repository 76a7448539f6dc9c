------------------------ MODULE ServerLifecycleProofs ------------------------
(***************************************************************************)
(* What a caller of serve() may rely on when it returns, proved for every  *)
(* set of connections and any number of cancellations.                     *)
(***************************************************************************)
EXTENDS ServerLifecycle, TLAPS

LEMMA TypeInit == Init => TypeOK
<1>1. Init => cancels \in 0..MaxCancels
  BY ServerAssumption DEF Init
<1>2. Init => conn \in [Conns -> Phases \cup {"none"}]
  BY DEF Init
<1> QED
  BY <1>1, <1>2 DEF Init, TypeOK

\* Whatever moves a connection moves one that has a task, to another phase.
LEMMA MoveTypes ==
  ASSUME TypeOK, NEW c \in Conns, NEW relation, Move(c, relation),
         relation \in {Own, OnStop, OnAbort}
  PROVE  /\ conn' \in [Conns -> Phases \cup {"none"}]
         /\ conn[c] \in Live \cup {"cleanup"}
         /\ \A d \in Conns : d # c => conn'[d] = conn[d]
         /\ conn'[c] \in Phases
         /\ UNCHANGED <<rustVars, pythonVars>>
  BY DEF Move, TypeOK, Own, OnStop, OnAbort, Live, Phases, rustVars, pythonVars

LEMMA ConnectionMoves ==
  ASSUME NEW c \in Conns, TaskStep(c) \/ StopStep(c) \/ AbortStep(c)
  PROVE  \E relation \in {Own, OnStop, OnAbort} : Move(c, relation)
  BY DEF TaskStep, StopStep, AbortStep

LEMMA TypeStep == TypeOK /\ [Next]_vars => TypeOK'
<1> SUFFICES ASSUME TypeOK, [Next]_vars PROVE TypeOK'
  OBVIOUS
<1> USE ServerAssumption DEF TypeOK, Finished, Ended, Cut, rustVars, pythonVars
<1>1. CASE BindListener \/ AcceptFailed \/ BeginDrain \/ ShutdownFailed \/ Drained
  BY <1>1 DEF BindListener, AcceptFailed, BeginDrain, ShutdownFailed, Drained
<1>2. CASE \E c \in Conns : Accept(c)
  BY <1>2 DEF Accept, Phases, Live
<1>3. CASE \E c \in Conns : Reap(c)
  BY <1>3 DEF Reap
<1>4. CASE \E c \in Conns : TaskStep(c) \/ StopStep(c) \/ AbortStep(c)
  <2> PICK c \in Conns : TaskStep(c) \/ StopStep(c) \/ AbortStep(c)
    BY <1>4
  <2>1. PICK relation \in {Own, OnStop, OnAbort} : Move(c, relation)
    BY ConnectionMoves
  <2>2. "none" \notin Phases
    BY DEF Phases, Live
  <2> QED
    BY <2>1, <2>2, MoveTypes
<1>5. CASE Cancel \/ CancelAll
  <2>1. /\ cancels' \in 0..MaxCancels /\ event' = TRUE /\ wrapper' = "cancelling"
        /\ UNCHANGED <<rustVars, conn>>
    BY <1>5 DEF Cancel, CancelAll, CancelWrapper
  <2>2. waiter' \in {waiter, "cancelled"}
    BY <1>5 DEF Cancel, CancelAll
  <2> QED
    BY <2>1, <2>2
<1>6. CASE StartWaiting \/ Wake
  BY <1>6 DEF StartWaiting, Wake
<1>7. CASE Resume
  BY <1>7 DEF Resume
<1>8. CASE UNCHANGED vars
  BY <1>8 DEF vars
<1> QED
  BY <1>1, <1>2, <1>3, <1>4, <1>5, <1>6, <1>7, <1>8 DEF Next, Terminated

\* The future, its tasks and the coroutine keep their types; what is in the
\* JoinSet has been spawned.
THEOREM LifecycleTypes == Spec => []TypeOK
  BY TypeInit, TypeStep, PTL DEF Spec

-----------------------------------------------------------------------------

\* A connection leaves the JoinSet of a future that is not cut short only when
\* it is done; a future that drains accepts nothing, and returns with an empty
\* set; only one that returned, or was interrupted because event.wait() was
\* cancelled, lets the cancellation through.
DrainInv ==
    /\ server \notin Cut => \A c \in Conns : Over(c) \/ c \in tasks
    /\ server \in {"draining", "returned", "interrupted"} => ~listening
    /\ server = "returned" => tasks = {}
    /\ server = "interrupted" => waiter = "cancelled"
    /\ wrapper = "cancelled" => server \in {"returned", "interrupted"}

LEMMA DrainInit == Init => DrainInv
  BY DEF Init, DrainInv, Over, Cut

LEMMA DrainStep == TypeOK /\ DrainInv /\ [Next]_vars => DrainInv'
<1> SUFFICES ASSUME TypeOK, DrainInv, [Next]_vars PROVE DrainInv'
  OBVIOUS
<1> USE DEF DrainInv, Over, Cut, Ended, rustVars, pythonVars
<1>1. CASE BindListener \/ AcceptFailed \/ BeginDrain \/ ShutdownFailed \/ Drained
  BY <1>1 DEF BindListener, AcceptFailed, BeginDrain, ShutdownFailed, Drained
<1>2. CASE \E c \in Conns : Accept(c)
  BY <1>2 DEF Accept, TypeOK
<1>3. CASE \E c \in Conns : Reap(c)
  BY <1>3 DEF Reap
<1>4. CASE \E c \in Conns : TaskStep(c) \/ StopStep(c) \/ AbortStep(c)
  \* A connection that moves has not been over: it is in the set.
  <2> PICK c \in Conns : TaskStep(c) \/ StopStep(c) \/ AbortStep(c)
    BY <1>4
  <2>1. /\ conn[c] \in Live \cup {"cleanup"} /\ UNCHANGED <<rustVars, pythonVars>>
        /\ \A d \in Conns : d # c => conn'[d] = conn[d]
    BY ConnectionMoves, MoveTypes
  <2>2. ~Over(c)
    BY <2>1 DEF Live
  <2> QED
    BY <2>1, <2>2
<1>5. CASE Cancel \/ CancelAll \/ StartWaiting \/ Wake
  BY <1>5 DEF Cancel, CancelAll, CancelWrapper, StartWaiting, Wake
<1>6. CASE Resume
  BY <1>6 DEF Resume
<1>7. CASE UNCHANGED vars
  BY <1>7 DEF vars
<1> QED
  BY <1>1, <1>2, <1>3, <1>4, <1>5, <1>6, <1>7 DEF Next, Terminated

LEMMA DrainInvariant == Spec => []DrainInv
  BY LifecycleTypes, DrainInit, DrainStep, PTL DEF Spec

\* pywire.serve's shield: when a CancelledError leaves the coroutine the port
\* is free, and the cleanup of every connection has finished, however many
\* connections there were and however often it was cancelled, unless the
\* future's event.wait() has been cancelled too.
THEOREM CancellationWaits == Spec => []CancelWaits
<1>1. DrainInv => CancelWaits
  BY DEF DrainInv, Cut, CancelWaits
<1> QED
  BY <1>1, DrainInvariant, PTL

-----------------------------------------------------------------------------

\* Without errors of accepting a future fails only to bind, and has no
\* connections; else it is the cancellation of event.wait() that cuts it short.
BoundInv ==
    /\ server \in {"starting", "failed"} => \A c \in Conns : conn[c] = "none"
    /\ wrapper \in Finished => server \in Ended

LEMMA BoundStep ==
  ~AcceptMayFail /\ TypeOK /\ BoundInv /\ [Next]_vars => BoundInv'
<1> SUFFICES ASSUME ~AcceptMayFail, TypeOK, BoundInv, [Next]_vars PROVE BoundInv'
  OBVIOUS
<1> USE DEF BoundInv, Finished, Ended, Cut, rustVars, pythonVars
<1>1. CASE BindListener \/ AcceptFailed \/ BeginDrain \/ ShutdownFailed \/ Drained
  BY <1>1 DEF BindListener, AcceptFailed, BeginDrain, ShutdownFailed, Drained
<1>2. CASE \E c \in Conns : Accept(c)
  BY <1>2 DEF Accept
<1>3. CASE \E c \in Conns : Reap(c)
  BY <1>3 DEF Reap
<1>4. CASE \E c \in Conns : TaskStep(c) \/ StopStep(c) \/ AbortStep(c)
  <2> PICK c \in Conns : TaskStep(c) \/ StopStep(c) \/ AbortStep(c)
    BY <1>4
  <2>1. conn[c] \in Live \cup {"cleanup"} /\ UNCHANGED <<rustVars, pythonVars>>
    BY ConnectionMoves, MoveTypes
  <2>2. conn[c] # "none"
    BY <2>1 DEF Live
  <2> QED
    BY <2>1, <2>2
<1>5. CASE Cancel \/ CancelAll \/ StartWaiting \/ Wake
  BY <1>5 DEF Cancel, CancelAll, CancelWrapper, StartWaiting, Wake
<1>6. CASE Resume
  BY <1>6 DEF Resume
<1>7. CASE UNCHANGED vars
  BY <1>7 DEF vars
<1> QED
  BY <1>1, <1>2, <1>3, <1>4, <1>5, <1>6, <1>7 DEF Next, Terminated

\* pywire/server.py: "Cancellation stops accepting connections and waits for
\* their async portal/statement cleanup before returning."  Two errors of the
\* select loop, and nothing else, make serve() leave connections behind: that
\* of accepting, and that of an event.wait() that was cancelled.
THEOREM OnlyErrorsCutTheWaitShort ==
  ASSUME ~AcceptMayFail
  PROVE  Spec => [](waiter # "cancelled" => CancelAlwaysWaits)
<1>1. Init => BoundInv
  BY DEF Init, BoundInv, Finished
<1>2. TypeOK /\ DrainInv /\ BoundInv => (waiter # "cancelled" => CancelAlwaysWaits)
  BY DEF TypeOK, DrainInv, BoundInv, Over, Ended, Cut, CancelAlwaysWaits
<1>3. TypeOK /\ DrainInv /\ BoundInv /\ [Next]_vars => BoundInv'
  BY BoundStep
<1> QED
  BY <1>1, <1>2, <1>3, LifecycleTypes, DrainInvariant, PTL DEF Spec

=============================================================================
