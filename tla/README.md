# A TLA+ verification of pywire

pywire lets a Python program act as a PostgreSQL server: a Rust extension (tokio, pgwire,
pyo3) owns the sockets and the protocol, and calls Python coroutines for everything that has
a meaning. This directory holds TLA+ models of the parts of it whose correctness depends on
order and failure, TLC configurations that check them, and TLAPS proofs.

## 1. The system

### Components

| Component | Source | State it keeps | Operations |
|---|---|---|---|
| Serve wrapper | `pywire/server.py` `serve` | the shutdown `asyncio.Event`, the shielded future | first and repeated cancellation, re-raising |
| Accept loop | `src/server.rs` `serve` | listener, `JoinSet`, `stop_connections` watch | bind, accept, build handlers, reap, drain |
| Connection task | `src/server.rs:552-566` | a `select!` between `process_socket` and the stop branch | serve, stop, cleanup |
| Startup | `src/server.rs:153-258` | pgwire's connection state, the session | TLS requirement, authentication dispatch, `SessionFactory.open` |
| Simple query adapter | `src/server.rs:69-123` | none of its own | `on_query`, `do_query` |
| Extended query handler | `src/extended.rs` | `PythonPortals` (portals, statements, session, `closing` lock) beside pgwire's portal store | Parse, Bind, Describe, Execute, Close, Sync |
| Resource cleanup | `src/extended.rs:83-133` | the maps it took | `cleanup`, `Drop`, `cleanup_entries` |
| SCRAM verifier | `src/scram_verifier.rs` | exchange state per connection | lookup, start, verify, register, mock verifier |
| Password source | `src/auth.rs` | none | `get_password` |
| Results | `src/query.rs` | the Python row iterator | encode rows, stream rows, convert responses |
| Errors | `src/errors.rs` | none | Python exception to `PgWireError` and back |
| Messages, COPY classes, runtime, TLS loading, sync wrapper | `src/messages.rs`, `pywire/copy.py`, `src/runtime.rs`, `src/lib.rs`, `src/server.rs:369-391`, `pywire/sync.py` | none that changes | value classes, start-up code |

### How they interact

A task is spawned for each accepted socket. It polls pgwire's `process_socket`, which reads one
message at a time and awaits its handler before it reads the next, and next to it a stop branch
that waits for the watch and then for the `closing` lock. Handlers await Python callbacks on the
program's event loop. Dropping a Rust future that awaits a Python coroutine does not stop the
coroutine: it runs on and its result is lost. When either branch of the `select!` ends, the task
cleans up: portals, statements, session. `PythonPortals` and pgwire's store describe the same
portals and statements and are updated by separate calls.

### What is hard

* a stop can come at any await: during a close, a Parse, a Bind, a query, the opening of the
  session;
* a close callback may raise in the middle of a routine that closes several objects;
* two stores and Python's own objects must stay in agreement on every path;
* the cleanup must order portals, statements and session whatever failed before;
* the Python coroutine can be cancelled again and again while it waits;
* an error of the accept loop, or of the asyncio task that waits for the shutdown event on its behalf,
  aborts the tasks instead of stopping them;
* a cancel request drops `do_query` at any await, and what it awaited in Python goes on;
* the transaction a client is told it is in, and the one Python has open, are two things.

`PROJECT.json` lists each hazard at its line with the properties that cover it.

### What makes each component correct

* *Extended handler and cleanup*: the stores agree; a portal never outlives its statement; each
  object is created, used and closed only as Python's own state allows, and released before the
  session; a refused close is retried; a portal outlives neither its transaction nor, outside one,
  the next Sync or Query; a client that is told it is in a transaction is in one.
* *Connection task*: a stop never cuts a running close short, and always leads to the end of the
  cleanup.
* *Accept loop and wrapper*: a cancelled `serve` returns when every cleanup has ended, and does
  return.
* *Protocol*: a Query is answered with ReadyForQuery once; a Sync is answered or turned into the
  skipping of messages.
* *Startup and SCRAM*: nobody is ready without the proof, the binding and the authorization the
  configuration asks for; an exchange allows one guess and does not tell an unknown user from a
  wrong password; resources and session are set up once; whoever is ready, and nobody else, has a
  key for cancel requests; texts are read as their grammar says.
* *Results*: rows reach the client in order, framed so that it reads what Python wrote, completely
  or with an error.
* *Formats*: Python gets for every parameter and column the format the client asked for.
* *Errors*: a variant and its text survive the crossing into Python and back.
* *Empty queries*: Python sees every query that has anything but blanks and comments in it.

## 2. The modules

| Module | Models |
|---|---|
| `PortalSession` | one connection: handlers, stores, maps, lock, Python callbacks, cancel requests, stop, abort, cleanup |
| `ResourceLease` | abstract: what a connection promises the Python objects it holds |
| `ConnectionPhases` | the phases of a connection task as `serve` sees them |
| `PortalSessionLease` | `PortalSession` implements `ResourceLease` and moves as `ConnectionPhases` says |
| `ServerLifecycle` | accept loop, connection tasks (by `ConnectionPhases`), the task of `event.wait()`, Python wrapper |
| `PortalSessionProofs` | proofs: types, control and the closing lock of `PortalSession` |
| `PortalSessionInvariants` | proofs: every safety invariant of `PortalSession` |
| `PortalSessionRefinement` | proof that `PortalSession` implements `ResourceLease` |
| `ServerLifecycleProofs` | proofs about `ServerLifecycle` |
| `Startup` | `serve`'s arguments, the TLS requirement, the authentication methods, the SCRAM verifier exchange, the opening of the session |
| `StartupProofs` | proofs about `Startup` |
| `RowStream` | the rows of one response: list, async iterator, failures, portions |
| `RowStreamProofs` | proofs about `RowStream` |
| `EmptyQuery` | the scanner `is_empty_query` and a reference definition |
| `ErrorMapping` | Python exception to `PgWireError` and back |
| `ScramText` | the parsers of stored verifiers and of a client's SCRAM messages, and their grammar |
| `BindFormats` | the format codes of a Bind, from the message to the Python call |
| `Conversions` | `RowStream`, `EmptyQuery`, `ErrorMapping`, `ScramText` and `BindFormats` on inputs of their own, for one run |
| `ScramTextProofs` | proofs about the parsers of `ScramText`, for every text |
| `ConversionsProofs` | proofs about `Conversions` |

`PortalSession` begins where `Startup` ends: its label `startup` is `Startup`'s callback `open`.
`RowStream` refines what its `QueryReply` does in one step, `EmptyQuery` decides its `msg.empty`,
`ErrorMapping` says what the error of a callback that raised looks like, `ScramText` when a message
of `Startup` is `wellformed`, `BindFormats` which Bind fails for its formats and what reaches Python.

### PortalSession

An action is what a task does between two awaits. `pc` is where the handler resumes; `todo` is
what the running close routine (`close_portal`, `close_statement`, `close_all_portals`) has left;
`call` is the Python callback that is awaited, with its outcome once it has returned.

| In the module | In the code |
|---|---|
| `portals`, `statements`, `session`, `lock` | the fields of `PythonPortals` (`extended.rs:50-56`) |
| `pstore`, `sstore` | pgwire's `PortalStore`: absent, `Entry::Empty`, `Entry::Value`, and a portal suspended with its row stream |
| `cstate`, `txn`, `answered` | pgwire's client: connection state, transaction status, ReadyForQuery sent |
| `eff` | what the responses of the query that returned will do to `txn` once written |
| `OnQuery`, `OnParse`, `OnBind`, `OnPortal`, `OnClose...`, `OnSync`, ... | the handlers up to their first await |
| `CallPython`, then `QueryReturned`, `ExecuteReturned`, `StatementParsed`, `PortalBound`, `Described` or `CallbackRaised` | a Python callback and what the handler does with its outcome |
| `Receive`, `Proceed`, `QueryReply`, `ExecuteReply`, `SyncReply`, `ReportError` | pgwire around the handlers |
| `CloseNextPortal`, `CloseTheStatement`, `CloseDefaultPortal`, `CloseReturned`, `CloseRaised` | the close routines; the map iteration order is free |
| `Stop`, `StopQueue`, `StopDrop`, `SocketDone`, `Abort` | `server.rs:552-563` and the `Drop` of `PythonPortals` |
| `CancelQuery` | a cancel request that ends the active query: pgwire drops `do_query`, which may await the query or a close after it |
| `Cleanup...` | `cleanup_entries` |
| `PyReturn`, `LostReturn` | Python finishes the awaited callback, or one whose future was dropped |
| `pySession`, `pyStatements`, `pyPortals`, `pyTxn`, `refused` | Python: what it has created and closed, the transaction it has open, the closes it refused |
| `lost`, `forsaken` | callbacks that run on without their future; history of all that were abandoned |

pgwire, pyo3-async-runtimes and tokio are not in the repository. What the module assumes of them:
one message at a time; an error is reported with ReadyForQuery for a simple message and by
skipping to Sync for an extended one; `to_error_state` leaves an idle client idle; a tokio mutex is
fair, so a handler cannot overtake a stop branch that is queued; a dropped future does not stop
its Python coroutine, which may still do to its object, or to the transaction, what it was asked
to, at any later time; a cancel request drops `do_query` and then goes the way of an error it
raised; an Execute with rows left may suspend its portal, and the next one goes on with the stream
without calling `do_query`. Rows, SQL and formats are reduced to the outcomes they lead to: a message
with wrong formats is a Bind that fails, the responses of a query are whether a TransactionEnd is
among them and the status they lead to. CopyData messages, which no handler of the server takes, and
a `Drop` after the runtime has gone are left out.

### ServerLifecycle

The Rust future (`server`), its `JoinSet` (`tasks`), the watch (`stop`), each task's phase
(`conn`), the Python coroutine (`wrapper`, `event`, `cancels`) and the asyncio task of `event.wait()`
that the shutdown branch awaits (`waiter`). Connections move by the relations
of `ConnectionPhases`, which `PortalSession` is checked to follow.

The future leaves its loop in three ways: the shutdown branch ends well and the connections are
drained (`BeginDrain`), it ends with the error of its task (`ShutdownFailed`), or accepting fails
(`AcceptFailed`); the last two drop the `JoinSet`. Somebody may cancel `serve` (`Cancel`) or every
task of the event loop (`CancelAll`), as `asyncio.run` does when its main coroutine is over; then
the task of `event.wait()` is cancelled unless it has come back. An event loop that has been closed,
on which no task can be made and no callback runs any more, is not modelled.

### Startup

| In the module | In the code |
|---|---|
| `Arguments`, `Method`, `Accepted`, `Builds` | the checks in `serve` and `HandlerConfig::build` |
| `cstate` | pgwire's connection state |
| `step`, `exchange` | `State` and `Exchange` of the verifier handler |
| `pc` | where `on_startup` awaits: a callback, the sending of the success (`finishing`); `published` is the return from the inner handler to `PyStartupHandler` |
| `session`, `installed` | the `PySession` and `Arc<PythonPortals>` extensions |
| `registered` | the connection manager knows the key (`register_connection`, and pgwire's own) |
| `known` | whether `get_scram_verifier` has a verifier for the user |
| `opens`, `proofs`, `first`, `final` | history |

A SCRAM message is a record of what the checks look at: mechanism, flag, grammar, echoed binding
and nonce, and whether the proof is right for the stored verifier. Hashes are not modelled: `Verify`
keeps the order of the checks of `Exchange::verify` and takes from the message which of them it
passes. The cleartext and SCRAM handlers of pgwire ask `get_password` and succeed or fail freely;
like the verifier handler they register the connection (`Publish`) before they send the success
(`SuccessSent`), and sending may fail. Only then does `PyStartupHandler` go on (`Prepare`): it installs
the resources, and opens a session if the inner handler has opened none.

### RowStream

`items` is what Python will yield and how it ends, `rows` the state of `stream::unfold`, `sent` the
DataRows on the wire. A row is a sequence of cells, a cell its size in bytes or NULL: the code never
looks into one. `Encode` writes the number of cells as an integer of `2 * Half` values and each size
as one of `2 * HalfLength`; `Reads` is what a client makes of it.

### Conversions

`EmptyQuery`: one step for each character or pair the scanner consumes; the reference finds where
comments end by counting marks and never scans. `ErrorMapping`: the 35 arms of `pywire_to_py_err`
(`ClassOf`) and the 23 of `py_err_to_pywire` (`VariantOf`) as two tables written out from the code, a
class as its `qualname` and the pywire class it derives from, a text as the number of phrases wrapped
around it. `ScramText`: a text is a sequence of separators, attribute names, digits and words; the
parsers split it as the code does, the reference is the set of all ways to cut it by the grammar.
`BindFormats`: the guards of `on_bind`, pgwire's `Format` and the two helpers that turn it into lists.
`Conversions` has an initial state for every input, in which one of them has work to do and the others
are at rest; a stream of rows is one of them.

## 3. The runs

| Run | Question | Result |
|---|---|---|
| `portal_session` | safety of one connection: stop and abort at any await, suspended portals, transactions | passes |
| `portal_session_lease` | without aborts, with a cancel request that drops a query, or the closes after it, half way: what Python and the maps say of each other, refinement of `ResourceLease`, phases, and does a stopped or finished connection end? | passes |
| `session_closed` | documented: the session is closed when the connection is released | violated |
| `one_ready_per_query` | assumed by the tests: one ReadyForQuery per Query | violated |
| `server_lifecycle` | a cancelled `serve` ends, having finished every cleanup if its `event.wait()` was let be; aborted connections are released | passes |
| `cancel_always_waits` | documented: cancellation waits for cleanup before returning | violated |
| `startup` | who becomes ready, with what, after what, and who can be cancelled | passes |
| `startup_open` | documented: authorization before success is published | violated |
| `conversions` | scanner, SCRAM parsers and parameter formats agree with their references; variants survive the crossings; rows in order, readable, complete | passes |
| `result_formats` | documented: `result_formats` has one entry per column, or none | violated |
| `round_trip` | documented: variants that carry a text round-trip faithfully | violated |
| `subclass_rejects` | documented: any subclass of `AuthError` rejects the connection | violated |

**Bounds.** `PortalSession` runs with two portals and two statements, the unnamed ones and one named
of each: the code treats all named ones alike, and two portals are needed for a routine that fails
half way, for two portals on one statement, and for a portal left behind by the close of another.
Messages, transactions and failures may go on for ever, and TLC explores all reachable states;
`answered` stays within 0..2 by itself. `portal_session_lease` has the unnamed statement only, no
session factory, no abort, and one cancel request (`MaxCancels`): a second abandoned call of the
same kind adds nothing the properties tell apart, while the abandoned one runs on through everything
that follows, next to further queries. With one statement name the closes a cancel request
interrupts are those after an Execute: a Query has closed the unnamed statement's portals before.
Those after a Query, with portals of a named statement, and an abort after a cancel request are left
to the theorems, which hold for any names, any number of requests and, but for the refinement and
the phases, with aborts. The other runs have no cancel request. `ServerLifecycle` has three
connections, so that one can be accepted late, one be in a close and one in cleanup, and three
cancellations (`MaxCancels`), each of `serve` alone or of every task: the first, a repeated one and
one after the future ended. `Startup` has no bound: arguments and messages are finite sets, and a
connection takes few steps. `RowStream`: up to two rows (`MaxRows`) of up to three cells
(`MaxColumns`) with `Half` = 3, so that rows of none, one and two cells fit and one of three does
not, sizes on both sides of `HalfLength` = 2, and Executes of up to two rows (`MaxFetch`), so that a
portal is suspended in the middle, at the end and never. `Conversions`: all queries of up to six
characters (`MaxLength`) over the five kinds the scanner tells apart, which has "/*/**/" and what
overlapping marks make of it, and of up to nine (`MaxComment`) of "/" and "*", which has a nested
comment that is closed; four crossings (`MaxCrossings`), there and back twice; up to three codes,
parameters and columns (`MaxCodes`): none, one and many; and SCRAM texts that are two insertions,
replacements or removals away from a good one, with `MaxIterations` = 99 for `u32::MAX`, so that two
more digits are too wide. That makes every field empty, doubled, out of place and of the wrong kind.

**Fairness.** A tokio task that can move is polled: the stop branch, the cleanup and the handler
after a close callback are weakly fair. Close callbacks finish, as `serve` documents ("Cleanup
callbacks must finish"). Clients and all other callbacks are not fair: the liveness properties
hold although a client never speaks and a query never returns. In `ServerLifecycle` the accept
loop, the drain and the tasks are weakly fair, accepting a connection is not. Weak fairness of the
shutdown branch, with its error and without, is justified by `select!`, which picks among its ready
branches at random; that of the task it waits for by the event loop, which runs what is ready. Nobody
need cancel anything.

**Findings.**

1. `SessionClosed`: a session whose `open()` is running when the server stops is created by Python
   and closed by nobody. The same holds for a Bind or a Parse caught by the stop; the properties
   `ReleasedBeforeSession` and `StatementOutlivesPortals` exempt exactly that one object, the session
   included: every other one is closed when the task is done. Under an
   abort or a cancel request the abandoned callback may also be a close, which is then called a
   second time: `CallsAreLegal` exempts that call, and `FollowsPhases` shows that a stop never
   does it.
2. `OneReadyPerQuery`: `on_query` closes the portals of an idle connection after pgwire has sent
   ReadyForQuery; a close that raises there makes pgwire send an error and a second one.
   `RequestsAnswered` says that nothing else does: without a refused or abandoned close a Query is
   answered once.
3. `CancelAlwaysWaits`: two errors of the `select!` leave the accept loop by `?`, without a drain,
   and the cleanup goes on detached. One is that of the shutdown branch itself: the task of
   `event.wait()` is a task of the same event loop, and where it is cancelled together with `serve`,
   as `asyncio.run` does, `serve` ends with the CancelledError it was promised and has waited for
   nothing. The other is that of accepting, in the moment between the cancellation and the shutdown
   branch. The run shows the first (it has `AcceptMayFail` = FALSE); `OnlyErrorsCutTheWaitShort`
   proves that there is no third. `docs/api/server.md` says that cancellation "aborts active
   connection tasks": that is what these two errors do, and what the drain, which the docstring of
   `serve` describes, does not.
4. `OpenBeforeReady`: except with the verifier method, `PyStartupHandler` opens the session after
   pgwire has sent ReadyForQuery. A client is told that it is connected before the program had its
   say, and stays connected to the process-wide handlers if `open()` raises.
5. `SubclassRejects`: `py_err_to_pywire` goes by the name of the exception's own class, so an
   application's subclass of `InvalidPassword` is an `ApiError` for the client.
6. `RoundTripsFaithfully`: the message of a Python exception is pgwire's Display of the error, which
   puts a phrase before the variant's own text, and on the way back the whole message becomes the
   variant's text. Each crossing of a PortalNotFound, an InvalidPassword and so on adds the phrase
   once more. (Their variant survives: `VariantSurvives`.)
7. `OneFormatPerColumn`: a single binary result code, which the protocol lets stand for every column,
   reaches Python as `[1]`, whatever the number of columns; one for the parameters is expanded
   (`ParameterFormatsAgree`).

One limit a property states rather than hides. `RowsInOrder` says what a client reads of rows of
fewer than 2^15 cells of less than 2^31 bytes: `encode_data_row` casts both numbers, and what is
larger is framed with another one.

One hazard has no property: that rows are pulled from Python only as the client takes them. The code
hands pgwire a stream that asks Python when it is polled, and when to poll is pgwire's affair; the model
pulls a row and writes it in one step.

## 4. The proofs

Every invariant the passing runs check is a theorem, for every value of the constants, and so are
their action property and the refinement of the lease. What follows is the argument of each module.

**`PortalSessionProofs`**, for any sets of names:

* `TypeCorrect`: `TypeOK` is an invariant. The inductive invariant `TypeInv` adds where a close
  routine or a callback can be running (`ControlInv`) and how often a message may have been answered
  at each label (`AnsweredInv`); without them the count of answers is not bounded by two.
* `CloseIsNotCutShort`: without aborts, `FollowsPhases`: serving ends only while no close runs under
  the lock, and once the stop branch is queued no other close begins. The inductive invariant `LockInv`
  says that the lock is held exactly while the handler awaits a close; the stop branch needs it
  free. It holds with any number of cancel requests, which do cut a close short but go on serving.

**`PortalSessionInvariants`** builds four more inductive invariants on `TypeInv`, each of which
uses the ones before it:

* `StoreInv`, for `StoresAndMapsAgree` and `PortalsKeepTheirStatement`. The stores are only
  kept in agreement by what a handler found in them before it awaited a close or a callback and relies
  on afterwards: `LabelInv` says what that is at each label, `CallInv` which object the awaited
  callback is about, `RoutineInv` that a routine has still to close whatever would be in the way at its
  end (all portals of the statement, or all portals), and `KindInv` which message a label belongs to.
* `PythonInv`, for `MapsAreFaithful`, `PythonIsCalledLegally`, `PortalsGoFirst` and `NothingIsLeaked`.
  While serving, Python and the maps differ by exactly the result that is on its way (`MirrorInv`);
  in cleanup, what the maps still hold is what Python still holds, but for refused closes and abandoned
  callbacks (`CleanupInv`, `LeftInv`); an abandoned callback that can still act is in the history
  (`LostInv`). `MirrorInv` becomes `LeftInv` in the step that ends serving, with or without a
  callback in flight: that step is the centre of the proof.
* `SessionInv`, for the session's part of `NothingIsLeaked`: a session open in Python is in the maps, or
  its `open()` has just returned, or that call was abandoned; the cleanup closes what is in the maps.
* `ClientInv`, for `MessagesAreAnswered`, `ToldOfARealTransaction`, `IdleHasNoPortals` and
  `TransactionEndsWithItsPortals`: the responses on their way say what Python did (`EffectInv`); at
  the end of a Query or Sync outside a transaction all portals are closed or a close was refused
  (`IdleInv`); what was answered at each label, and that a Query fails after its answer only by a close
  that Python refused (`AnswerInv`).

**`PortalSessionRefinement`** proves `ConnectionKeepsItsLease`: with `~AllowAbort`, `Spec` implements
`ResourceLease`. (With aborts it does not: an aborted task drops a close half way.) Under the
refinement mapping of `PortalSessionLease` a step of a handler that moves no map is a stutter; a
callback that goes out or comes back, the end of serving, and each close of the cleanup are steps of
the lease. The invariant is `LeaseInv`, all of the above but `ClientInv`; `LockInv` is needed where
serving ends, since the lease lets nobody end with a close under way.

**`StartupProofs`**, whatever the client sends and whatever fails:

* `OnlyProvedIsReady`, `BindingIsNotDowngraded`, `AuthorizationPrecedesReady` (for the verifier
  method): a ready client has proved a stored verifier's password over the binding its connection
  offers, and Python was asked in between;
* `ExchangeAllowsOneGuess`: at most one proof is looked at;
* `KeysAreForClients`: for every method, whoever is ready is registered for cancel requests, and with
  the verifier method nobody is registered who was not let in;
* `FactoryIsAskedOnce`, `TlsPrecedesEverything`, `StartupTypes` and `ReadyHasResources`, for every
  method: the last says that the resources are there when the next message of a ready client is
  read, also where `open()` raised or the verifier handler had opened the session before; and
  `MockIsNoOracle`: an unknown user and a wrong password fail alike.

The first five rest on `StartupInv`: until the last message nothing was proved, opened or published
and the exchange is the one negotiated (`ExchangeInv`), and whatever was opened or published since was
proved (`SuccessInv`). The last line rests on `MethodsInv`, which follows the opening of the session
through all methods (`OpeningInv`), keeps a plain connection where it began if TLS is required
(`PlainInv`), knows the shape of the messages (`ScramTypes`) and that a ready client without resources
is one whose inner handler has just returned (`ResourcesInv`). `VerifyAccepts` is the lemma on
`Verify`, independent of the order of its checks.

**`ServerLifecycleProofs`**, for any set of connections and any number of cancellations:
`LifecycleTypes` and `CancellationWaits`. The invariant `DrainInv` relates the future to its
`JoinSet`: a connection leaves the set of a future that is not cut short only when it is done, a
draining future accepts nothing, it returns with an empty set, and the cancellation is let through only
then, or by a future whose `event.wait()` was cancelled. `CancelWaits` alone is not inductive: it does
not say that a task out of the set is done. `OnlyErrorsCutTheWaitShort`, under the one hypothesis
`~AcceptMayFail`: as long as `event.wait()` is not cancelled a future that fails has failed to bind its
port and has no connections to wait for (`BoundInv`), so that `CancelAlwaysWaits` holds.

**`RowStreamProofs`**, for rows of any number of cells of any size, integers of any width and any
number of Executes: `StreamTypes`, `RowsArriveInOrder`, `CompletionIsHonest`. The
invariant `StreamInv` says that what was written is what was pulled but for an item that was no row
(`Written`), and counts both (`Counts`). `EncodedRowIsRead` is the lemma on `encode_data_row`: below
`Half` cells of less than `HalfLength` bytes a client reads the row that Python gave, NULLs included.

**`ScramTextProofs`**, for texts of any length over any tokens: `VerifiersAreRead`, `FirstsAreRead`,
`FinalsAreRead`. The reference is a set of cuts; each theorem says that it has the one reading the
parser returns, or none where the parser refuses. In one direction the separators `split_once` finds
are cuts (`SplitOnce`, `FirstExists`); in the other, legal fields contain no separator
(`LegalWords`), so the cuts of the grammar are the ones `split_once` finds, and the proof of the grammar
is the one after the last ",p=" (`ProofOfGrammar`). That a least or greatest position exists is taken
from the library's well-foundedness of `<` and the minimal elements it gives.

**`ConversionsProofs`**: `ErrorsKeepTheirVariant` for any number of crossings, from the lemma
`TablesUndoEachOther` on the two tables of `ErrorMapping`, arm by arm, and the invariant `ErrorInv`,
which says which names an error can still have on each side; `PythonLearnsTheFormats` for any number
of codes and parameters; `ScramReadsTheGrammar` from the theorems on texts.
`ScannerAnswersTheReference`, for a query of any length: the invariant `ScanInv` says that the
answer depends on the rest of the text at the scanner's position, or at the beginning of the comment
it is in, and that `depth` is the marks that opened less the marks that closed so far. The reference
is written with recursive functions, and TLA+ defines such a function as some solution of its
equation, if it has one. The proof gives a solution that needs no induction: of a run of overlapping
marks every other one is taken (`InTurn`, `TakenEquation`), and a text is empty from a position that
has a way through it, a set of positions closed under the steps of the reference that leads to the
end (`EmptyEquation`). Two solutions need not be equal for this: the scanner's steps use the
equation only.

**Assumptions.** `NamesAssumption` (the unnamed names are names, the two kinds are disjoint, `None` is
neither), `FlagsAssumption`, `ServerAssumption`, `WidthAssumption` and `BoundsAssumption`
give the constants their types and no more, and TLC evaluates them in the runs. The
bounds `MaxCancels`, `MaxRows`, `MaxColumns`, `MaxFetch`, `MaxCrossings` and `MaxCodes` are arbitrary
natural numbers in the proofs.

**Only model-checked.** Liveness under fairness is outside what the prover handles: `StopCompletes` in
`portal_session_lease`, `CancelEnds` and `AllReleased` in `server_lifecycle`.

## 5. Not modelled

Message and COPY classes, runtime start-up, TLS file loading and the synchronous wrapper have no
state or ordering of their own: `messages.rs` wraps pgwire's codecs in value classes, and
`serve_forever` is `asyncio.run` around `serve`. Of the modelled parts: `ErrorInfo`'s fields, column
descriptions and command tags, `LoginInfo`, the bytes of passwords, hashes and nonces, and how pgwire
finds the connection a cancel request names (the model begins where it ends the query).

## 6. Plan

Done: the model, and proofs of every invariant the passing runs check, of the phases and of the
refinement of `ResourceLease`. Left to TLC: the liveness properties, and with them the fairness that
`ServerLifecycle` assumes of its connections and `PortalSession` has to provide.
