------------------------------- MODULE Startup -------------------------------
(***************************************************************************)
(* From serve()'s arguments to a client that may send queries: the         *)
(* validation of the arguments, PyStartupHandler's TLS requirement and     *)
(* dispatch over the authentication methods, pywire's own SCRAM exchange   *)
(* against stored verifiers, and the opening of the Python session.        *)
(*                                                                         *)
(* An action is what on_startup does between two awaits; pc is what it     *)
(* awaits.  Keys, nonces and hashes are reduced to whether they match.     *)
(***************************************************************************)
EXTENDS Naturals

CONSTANTS
    None,          \* no binding data
    EndPoint       \* the tls-server-end-point hash of the server certificate

ASSUME BindingAssumption == None # EndPoint

-----------------------------------------------------------------------------
(* The arguments of serve *)

Arguments ==
    [auth : BOOLEAN, factory : BOOLEAN, require_tls : BOOLEAN,
     auth_method : {"trust", "cleartext", "scram", "verifier", "unknown"},
     scram_iterations : {"few", "enough"},
     tls : {"neither", "one", "both"},              \* tls_cert and tls_key
     certificate : {"supported", "unsupported"}]    \* its signature algorithm

\* The method the arguments select; trust is also what no auth means.
Method(a) ==
    CASE a.auth_method = "trust" -> "trust"
      [] a.auth_method = "cleartext" -> IF a.auth THEN "cleartext" ELSE "trust"
      [] a.auth_method \in {"scram", "verifier"} /\ a.auth -> a.auth_method
      [] OTHER -> "rejected"

\* serve() raises for everything else.  Only the verifier method looks at the
\* certificate's algorithm here; scram does when a connection is built.
Supported(a) == a.certificate = "supported"
Accepted(a) ==
    /\ Method(a) # "rejected" /\ a.scram_iterations = "enough"
    /\ a.tls = "both" \/ (a.tls = "neither" /\ ~a.require_tls)
    /\ Method(a) = "verifier" /\ a.tls = "both" => Supported(a)
Builds(a) == Method(a) = "scram" /\ a.tls = "both" => Supported(a)

-----------------------------------------------------------------------------
VARIABLES
    args,       \* of the serve() this connection belongs to
    secure,     \* the connection is TLS
    known,      \* Python has a verifier for the startup user
    cstate,     \* pgwire's connection state
    pc,         \* idle, the await (or, published, the return) on_startup is at, or closed
    step,       \* the State of the SCRAM handler (pywire's or pgwire's) ...
    exchange,   \* ... and the Exchange of pywire's ServerFirstSent
    session,    \* set_session and the PySession extension
    installed,  \* the PythonPortals are in the session extensions
    registered, \* the connection manager knows its key: it can be cancelled
    \* history
    opens, proofs,         \* session_factory.open() calls, proofs checked
    first, final           \* the client's SCRAM messages

vars == <<args, secure, known, cstate, pc, step, exchange, session,
          installed, registered, opens, proofs, first, final>>
history == <<opens, proofs, first, final>>
connection == <<args, secure, known>>
scram == <<step, exchange>>
published == <<cstate, installed, registered>>

\* client-first-message: mechanism, gs2 flag ("p" is tls-server-end-point) and
\* whether it follows the grammar.
Firsts == [mechanism : {"SCRAM-SHA-256", "SCRAM-SHA-256-PLUS", "other"},
           flag : {"n", "y", "p", "other"}, wellformed : BOOLEAN]

\* client-final-message: the binding and nonce it echoes, and its proof, which
\* may be right for the password of the verifier the server holds.
Bindings == [flag : {"n", "y", "p"}, data : {None, EndPoint}]
Finals == [wellformed : BOOLEAN, binding : Bindings, nonce : {"same", "other"},
           proof : {"right", "wrong", "undecodable"}]

NoMessage == [wellformed |-> FALSE]
Exchanges == [binding : Bindings, mock : BOOLEAN]
NoExchange == [binding |-> [flag |-> "n", data |-> None], mock |-> TRUE]

TypeOK ==
    /\ args \in Arguments /\ secure \in BOOLEAN /\ known \in BOOLEAN
    /\ cstate \in {"AwaitingStartup", "AuthenticationInProgress", "ReadyForQuery"}
    /\ pc \in {"idle", "get_password", "get_scram_verifier", "authorize",
              "finishing", "published", "open", "closed"}
    /\ step \in {"Initial", "ServerFirstSent", "Done"} /\ exchange \in Exchanges
    /\ session \in BOOLEAN /\ installed \in BOOLEAN /\ registered \in BOOLEAN
    /\ opens \in 0..2 /\ proofs \in 0..2
    /\ first \in Firsts \cup {NoMessage} /\ final \in Finals \cup {NoMessage}

Init ==
    /\ args \in {a \in Arguments : Accepted(a) /\ Builds(a)}
    /\ secure \in BOOLEAN /\ (secure => args.tls = "both")
    /\ known \in BOOLEAN
    /\ cstate = "AwaitingStartup" /\ pc = "idle"
    /\ step = "Initial" /\ exchange = NoExchange
    /\ session = FALSE /\ installed = FALSE /\ registered = FALSE
    /\ opens = 0 /\ proofs = 0
    /\ first = NoMessage /\ final = NoMessage

-----------------------------------------------------------------------------
(* Common parts *)

\* A message reaches on_startup.
Receive(state) == pc = "idle" /\ cstate = state

\* on_startup returns an error; pgwire closes the connection if it is fatal,
\* or if the error cannot be sent.
Fail == pc' \in {"idle", "closed"}

\* Mutant: the connection is not registered.
PublishUnregistered == pc' = "finishing" /\ UNCHANGED <<published, opens>>

\* The inner handler has finished authentication: it registers the connection,
\* and awaits the sending of the success.
Publish ==
    /\ registered' = TRUE /\ pc' = "finishing"
    /\ UNCHANGED <<cstate, installed, opens>>

\* pgwire's handlers may refuse before that; a message that cannot be sent
\* closes the connection.
SendFailed == pc' = "closed" /\ UNCHANGED <<published, opens>>
Refuse == Fail /\ UNCHANGED <<published, opens>>

\* The client has its key and ReadyForQuery; the inner handler returns.
SuccessSent ==
    /\ pc = "finishing"
    /\ \/ cstate' = "ReadyForQuery" /\ pc' = "published" /\ UNCHANGED <<installed, registered, opens>>
       \/ SendFailed
    /\ UNCHANGED <<connection, scram, session, proofs, first, final>>

\* A ready client without a session of a factory that there is.
SessionMissing == args.factory /\ ~session

\* Mutants: the session is opened whether or not there is one; one check
\* stands for both, and what the verifier handler opened is taken for both.
PrepareAndOpen ==
    /\ pc = "published" /\ installed' = TRUE
    /\ IF args.factory THEN pc' = "open" /\ opens' = opens + 1
                       ELSE pc' = "idle" /\ UNCHANGED opens
    /\ UNCHANGED <<connection, scram, session, cstate, registered, proofs, first, final>>
PrepareTogether ==
    /\ pc = "published" /\ installed' = ~session
    /\ IF SessionMissing THEN pc' = "open" /\ opens' = opens + 1
                         ELSE pc' = "idle" /\ UNCHANGED opens
    /\ UNCHANGED <<connection, scram, session, cstate, registered, proofs, first, final>>

\* PyStartupHandler goes on after an inner handler that left the client ready:
\* the resources are installed, then a session that is not there is opened.
Prepare ==
    /\ pc = "published" /\ installed' = TRUE
    /\ IF SessionMissing THEN pc' = "open" /\ opens' = opens + 1
                         ELSE pc' = "idle" /\ UNCHANGED opens
    /\ UNCHANGED <<connection, scram, session, cstate, registered, proofs, first, final>>

-----------------------------------------------------------------------------
(* pgwire's handlers *)

\* Mutant: TLS is advertised but not required.
TlsOptional == TRUE
TlsSatisfied == args.require_tls => secure

\* The startup packet.  Where TLS is required, without it the error is FATAL;
\* trust is pgwire's handler that asks for nothing; the others ask for the
\* password, the verifier handler by the mechanisms it offers.
TlsRefused ==
    ~TlsSatisfied /\ pc' = "closed" /\ UNCHANGED <<published, opens>>
Trusted == TlsSatisfied /\ Method(args) = "trust" /\ UNCHANGED session /\ (Publish \/ Refuse)
PasswordRequested ==
    /\ TlsSatisfied /\ Method(args) # "trust"
    /\ cstate' = "AuthenticationInProgress" /\ pc' \in {"idle", "closed"}
    /\ UNCHANGED <<installed, registered, opens>>
StartupMessage ==
    /\ Receive("AwaitingStartup")
    /\ \/ TlsRefused \/ Trusted \/ PasswordRequested
       \/ Fail /\ UNCHANGED <<published, opens>>
    /\ UNCHANGED <<connection, scram, session, proofs, first, final>>

\* Cleartext and the first message of pgwire's SCRAM ask AuthSource for the
\* password.
PasswordMessage ==
    /\ Receive("AuthenticationInProgress") /\ Method(args) \in {"cleartext", "scram"}
    /\ step = "Initial" /\ (pc' = "get_password" \/ Fail)
    /\ UNCHANGED <<connection, published, scram, session, history>>

PasswordReturned ==
    /\ pc = "get_password" /\ UNCHANGED <<session, exchange>>
    /\ \/ Method(args) = "cleartext" /\ (Publish \/ Refuse) /\ UNCHANGED step
       \/ /\ Method(args) = "scram" /\ step' = "ServerFirstSent" /\ pc' = "idle"
          /\ UNCHANGED <<published, opens>>
       \/ Method(args) = "scram" /\ Fail /\ UNCHANGED <<published, step, opens>>
    /\ UNCHANGED <<connection, proofs, first, final>>

\* The last message of pgwire's SCRAM.
ScramFinal ==
    /\ Receive("AuthenticationInProgress") /\ Method(args) = "scram"
    /\ step = "ServerFirstSent" /\ UNCHANGED session
    /\ Publish \/ Refuse
    /\ UNCHANGED <<connection, scram, proofs, first, final>>

-----------------------------------------------------------------------------
(* The verifier handler *)

\* SCRAM-SHA-256-PLUS is offered on TLS connections.
PlusOffered == secure /\ Method(args) = "verifier"

\* negotiate: the binding data the client must echo, or an error.
NegotiateLoosely(f) == f.mechanism = "SCRAM-SHA-256" /\ f.flag \in {"n", "y"}  \* mutant
NegotiatesPlain(f) ==
    /\ f.mechanism = "SCRAM-SHA-256"
    /\ f.flag = "n" \/ (f.flag = "y" /\ ~PlusOffered)
NegotiatesPlus(f) == f.mechanism = "SCRAM-SHA-256-PLUS" /\ f.flag = "p" /\ PlusOffered

\* take_state: whatever follows, the state has been consumed.
PeekState == UNCHANGED scram  \* mutant
TakeState == step' = "Done" /\ UNCHANGED exchange

\* The first password message: parsed and negotiated before Python is asked.
ClientFirst(f) ==
    /\ Receive("AuthenticationInProgress") /\ Method(args) = "verifier"
    /\ step = "Initial" /\ TakeState /\ first' = f
    /\ IF f.wellformed /\ (NegotiatesPlain(f) \/ NegotiatesPlus(f))
         THEN pc' = "get_scram_verifier"
         ELSE Fail
    /\ UNCHANGED <<connection, published, session, opens, proofs, final>>

\* get_scram_verifier returned a verifier or None, for which the exchange runs
\* against a mock, or it raised or returned something else.
VerifierReturned ==
    /\ pc = "get_scram_verifier"
    /\ \/ /\ exchange' = [binding |-> [flag |-> first.flag,
                                       data |-> IF NegotiatesPlus(first) THEN EndPoint ELSE None],
                          mock |-> ~known]
          /\ step' = "ServerFirstSent" /\ pc' \in {"idle", "closed"}
       \/ Fail /\ UNCHANGED scram
    /\ UNCHANGED <<connection, published, session, history>>

\* Mutants: the mock is found out first; the binding is not compared.
VerifyMockFirst(e, m) ==
    IF e.mock THEN "password"
    ELSE IF ~m.wellformed THEN "malformed"
    ELSE IF m.binding # e.binding THEN "binding"
    ELSE IF m.nonce = "other" THEN "nonce"
    ELSE IF m.proof = "undecodable" THEN "malformed"
    ELSE IF m.proof = "wrong" THEN "password" ELSE "ok"
VerifyUnbound(e, m) ==
    IF ~m.wellformed THEN "malformed"
    ELSE IF m.nonce = "other" THEN "nonce"
    ELSE IF m.proof = "undecodable" THEN "malformed"
    ELSE IF m.proof = "wrong" \/ e.mock THEN "password" ELSE "ok"

\* Exchange::verify, in the order of its checks.
Verify(e, m) ==
    IF ~m.wellformed THEN "malformed"
    ELSE IF m.binding # e.binding THEN "binding"
    ELSE IF m.nonce = "other" THEN "nonce"
    ELSE IF m.proof = "undecodable" THEN "malformed"
    ELSE IF m.proof = "wrong" \/ e.mock THEN "password" ELSE "ok"

\* The second password message: only a verified client reaches Python's
\* session, and only then the success.
ClientFinal(m) ==
    /\ Receive("AuthenticationInProgress") /\ Method(args) = "verifier"
    /\ step = "ServerFirstSent" /\ TakeState /\ final' = m
    /\ proofs' = proofs + 1
    /\ \/ /\ Verify(exchange, m) # "ok"
          /\ Fail /\ UNCHANGED <<session, published, opens>>
       \/ /\ Verify(exchange, m) = "ok" /\ args.factory
          /\ pc' = "authorize" /\ opens' = opens + 1
          /\ UNCHANGED <<session, published>>
       \/ /\ Verify(exchange, m) = "ok" /\ ~args.factory
          /\ UNCHANGED session /\ (Publish \/ SendFailed)
    /\ UNCHANGED <<connection, first>>

\* Mutant: a refusal is noticed after the success was sent.
AuthorizedAnyway ==
    /\ pc = "authorize" /\ session' \in BOOLEAN /\ Publish
    /\ UNCHANGED <<connection, scram, proofs, first, final>>

\* The session was opened: SASLFinal, the registration and ReadyForQuery follow.
Authorized ==
    /\ pc = "authorize"
    /\ \/ session' = TRUE /\ (Publish \/ SendFailed)
       \/ Fail /\ UNCHANGED <<session, published, opens>>
    /\ UNCHANGED <<connection, scram, proofs, first, final>>

\* Any password message after that is InvalidSASLState.
LateMessage ==
    /\ Receive("AuthenticationInProgress") /\ Method(args) = "verifier"
    /\ step = "Done" /\ Fail
    /\ UNCHANGED <<connection, published, scram, session, history>>

-----------------------------------------------------------------------------
(* The session of the other methods, and the end *)

SessionOpened ==
    /\ pc = "open"
    /\ \/ session' = TRUE /\ pc' = "idle"
       \/ Fail /\ UNCHANGED session
    /\ UNCHANGED <<connection, published, scram, history>>

\* The client disconnects, or the stop drops the handler at any await.
Drop ==
    /\ pc \notin {"published", "closed"} /\ pc' = "closed"
    /\ UNCHANGED <<connection, published, scram, session, history>>

Closed == pc = "closed" /\ UNCHANGED vars

Next ==
    \/ StartupMessage \/ PasswordMessage \/ PasswordReturned \/ ScramFinal
    \/ \E f \in Firsts : ClientFirst(f)
    \/ VerifierReturned
    \/ \E m \in Finals : ClientFinal(m)
    \/ Authorized \/ LateMessage \/ SuccessSent \/ Prepare \/ SessionOpened \/ Drop \/ Closed

Spec == Init /\ [][Next]_vars

-----------------------------------------------------------------------------
(* Properties *)

Ready == cstate = "ReadyForQuery"
Verified == Method(args) = "verifier"

\* The verifier method lets a client through only if Python has a verifier
\* for its user and its final message proved the password, echoing the
\* binding and the nonce of this exchange.
ReadyIsProved ==
    Verified /\ Ready =>
        /\ known /\ final.wellformed /\ final.proof = "right" /\ final.nonce = "same"
        /\ final.binding = [flag |-> first.flag,
                            data |-> IF first.mechanism = "SCRAM-SHA-256-PLUS"
                                       THEN EndPoint ELSE None]

\* "y with PLUS on offer is a downgrade": a client that supports binding is
\* not let through without it on a connection that offers it.
NoDowngrade ==
    Verified /\ Ready /\ PlusOffered => first.flag # "y"

\* "an unknown user fails at the same step and with the same error as a wrong
\* password": whatever is sent with a wrong proof, and even a right one for an
\* unknown user, the mock answers as a stored verifier would.
MockFailsAlike ==
    step = "ServerFirstSent" =>
        \A m \in Finals :
            LET wrong == [m EXCEPT !.proof = IF @ = "right" THEN "wrong" ELSE @] IN
            Verify([exchange EXCEPT !.mock = TRUE], m)
              = Verify([exchange EXCEPT !.mock = FALSE], wrong)

\* take_state: a connection gets one guess.  An error at any point of the
\* exchange, raised by Python or found in a message, leaves nothing to retry.
OneGuess == proofs <= 1 /\ (final # NoMessage => step = "Done")

\* test_verifier_session_authorization_precedes_connection_success: open() is
\* not called without a proof, and its refusal keeps the client out.
AuthorizedBeforeReady ==
    Verified /\ args.factory =>
        /\ opens = 1 => proofs = 1 /\ known /\ final.proof = "right"
        /\ Ready => session

\* docs/api/server.md: "PostgreSQL cancel requests cancel the active query
\* future": every ready client is registered, whichever handler made it ready,
\* and the verifier handler gives a key to nobody who was not let in.
CancelKeys ==
    /\ Ready => registered
    /\ Verified /\ registered =>
         known /\ final.proof = "right" /\ (args.factory => session)

\* Whatever the method, one session per connection: the verifier handler's and
\* PyStartupHandler's opening exclude each other.
OneSession == opens <= 1 /\ (session => opens = 1)

\* "TLS is required": nothing but the refusal happens on a plain connection.
TlsBeforeAuth ==
    args.require_tls /\ ~secure => cstate = "AwaitingStartup" /\ opens = 0 /\ ~registered

\* extended.rs's expect("startup installed connection resources"): a client
\* whose next message may be a query has them, whichever handler made it ready
\* and whoever opened its session, or failed to.
ResourcesInstalled == Receive("ReadyForQuery") => installed

\* initialize_python_session's comment: "Complete per-connection Python
\* authorization before publishing startup success."
OpenBeforeReady == Ready /\ args.factory => session

=============================================================================
