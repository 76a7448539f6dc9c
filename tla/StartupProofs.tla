---------------------------- MODULE StartupProofs ----------------------------
(***************************************************************************)
(* What Startup guarantees, proved for every pair of binding data.  First  *)
(* the verifier method: nobody is let through without a proof, and an      *)
(* exchange allows one.  Then what holds for every method.                 *)
(***************************************************************************)
EXTENDS Startup, TLAPS

\* The exchange began with a message whose mechanism and flag fit what the
\* connection offers.
Negotiated == first \in Firsts /\ (NegotiatesPlain(first) \/ NegotiatesPlus(first))

\* What client-final-message must have echoed and proved.
Expected == [flag |-> first.flag,
             data |-> IF NegotiatesPlus(first) THEN EndPoint ELSE None]
Proved ==
    /\ Negotiated /\ known /\ proofs = 1 /\ step = "Done"
    /\ final \in Finals /\ final.wellformed /\ final.proof = "right"
    /\ final.nonce = "same" /\ final.binding = Expected

\* Before the last message nothing was proved, opened or published; the
\* exchange is the one negotiated; and whatever was opened or published since
\* then was proved.
NothingYet ==
    /\ proofs = 0 /\ final = NoMessage /\ opens = 0 /\ ~session /\ ~registered
    /\ cstate # "ReadyForQuery" /\ pc \in {"idle", "get_scram_verifier", "closed"}
ExchangeInv ==
    /\ step \in {"Initial", "ServerFirstSent", "Done"}
    /\ proofs \in {0, 1}
    /\ step # "Done" => NothingYet /\ pc # "get_scram_verifier"
    /\ pc = "get_scram_verifier" => NothingYet /\ Negotiated /\ step = "Done"
    /\ step = "ServerFirstSent" =>
         Negotiated /\ exchange.binding = Expected /\ exchange.mock = ~known
SuccessInv ==
    /\ cstate = "ReadyForQuery" \/ registered \/ pc = "authorize" \/ opens > 0 \/ session => Proved
    /\ pc # "open"
    /\ pc = "authorize" => cstate # "ReadyForQuery" /\ ~registered
    /\ pc \in {"finishing", "published"} => Proved /\ registered
    /\ registered /\ args.factory => session
VerifierInv ==
    /\ opens \in Nat /\ (cstate = "ReadyForQuery" => registered)
    /\ pc \in {"finishing", "published"} => registered
    /\ pc \in {"get_password", "authorize", "finishing"} => cstate # "ReadyForQuery"
    /\ Verified => ExchangeInv /\ SuccessInv

\* The other methods leave the verifier handler's history alone.
OthersInv == ~Verified => final = NoMessage /\ proofs = 0

StartupInv == VerifierInv /\ OthersInv

LEMMA StartupInit == Init => StartupInv
  BY DEF Init, StartupInv, VerifierInv, OthersInv, ExchangeInv, SuccessInv, NothingYet, NoMessage

\* No message is mistaken for NoMessage, which has no proof.
LEMMA FinalsDiffer == \A m \in Finals : m # NoMessage
  BY DEF Finals, NoMessage

\* What Exchange::verify lets through, in whatever order it looks.
LEMMA VerifyAccepts ==
    ASSUME NEW e, NEW m, Verify(e, m) = "ok"
    PROVE  /\ m.wellformed /\ m.binding = e.binding /\ m.nonce # "other"
           /\ m.proof \notin {"undecodable", "wrong"} /\ ~e.mock
  BY DEF Verify

LEMMA StartupStep == StartupInv /\ [Next]_vars => StartupInv'
<1> SUFFICES ASSUME StartupInv, [Next]_vars PROVE StartupInv'
  OBVIOUS
<1> USE DEF StartupInv, VerifierInv, OthersInv, ExchangeInv, SuccessInv, NothingYet, Proved,
            Negotiated, Expected, Verified, NegotiatesPlain, NegotiatesPlus, PlusOffered,
            connection, scram, published, history
<1>1. CASE StartupMessage
  BY <1>1 DEF StartupMessage, TlsRefused, Trusted, PasswordRequested, Receive, Publish, Refuse, Fail
<1>2. CASE PasswordMessage \/ PasswordReturned \/ ScramFinal
  BY <1>2 DEF PasswordMessage, PasswordReturned, ScramFinal, Receive, Publish, Refuse, Fail
<1>3. CASE \E f \in Firsts : ClientFirst(f)
  BY <1>3 DEF ClientFirst, Receive, TakeState, Fail
<1>4. CASE VerifierReturned
  BY <1>4 DEF VerifierReturned, Fail
<1>5. CASE \E m \in Finals : ClientFinal(m)
  <2> PICK m \in Finals : ClientFinal(m)
    BY <1>5
  <2>1. m \in Finals /\ final' = m /\ proofs' = proofs + 1 /\ step = "ServerFirstSent" /\ step' = "Done"
    BY DEF ClientFinal, TakeState
  <2>2. m.nonce \in {"same", "other"} /\ m.proof \in {"right", "wrong", "undecodable"}
    BY DEF Finals
  <2>3. Verify(exchange, m) = "ok" => Proved'
    <3> SUFFICES ASSUME Verify(exchange, m) = "ok" PROVE Proved'
      OBVIOUS
    <3>1. /\ m.wellformed /\ m.binding = exchange.binding /\ m.nonce # "other"
          /\ m.proof \notin {"undecodable", "wrong"} /\ ~exchange.mock
      BY VerifyAccepts
    <3>2. /\ Verified /\ proofs' = 1 /\ first' = first
          /\ known' = known /\ secure' = secure /\ args' = args
      BY <2>1 DEF ClientFinal
    <3>3. Negotiated /\ exchange.binding = Expected /\ known
      BY <2>1, <3>1, <3>2
    <3>4. Negotiated' /\ Expected' = Expected /\ known'
      BY <3>2, <3>3
    <3> QED
      BY <2>1, <2>2, <3>1, <3>2, <3>3, <3>4
  <2>4. CASE Verify(exchange, m) # "ok"
    BY <2>1, <2>4 DEF ClientFinal, Receive, Fail
  <2>5. CASE Verify(exchange, m) = "ok" /\ args.factory
    BY <2>1, <2>3, <2>5 DEF ClientFinal, Receive
  <2>6. CASE Verify(exchange, m) = "ok" /\ ~args.factory
    BY <2>1, <2>3, <2>6 DEF ClientFinal, Receive, Publish, SendFailed
  <2> QED
    BY <2>4, <2>5, <2>6
<1>6. CASE Authorized
  BY <1>6 DEF Authorized, Publish, SendFailed, Fail
<1>7. CASE LateMessage
  BY <1>7 DEF LateMessage, Receive, Fail
<1>8. CASE SessionOpened
  BY <1>8 DEF SessionOpened, Fail
<1>9. CASE Drop
  BY <1>9 DEF Drop
<1>10. CASE SuccessSent
  BY <1>10 DEF SuccessSent, SendFailed
<1>11. CASE Prepare
  BY <1>11 DEF Prepare, SessionMissing
<1>12. CASE UNCHANGED vars
  BY <1>12 DEF vars
<1> QED
  BY <1>1, <1>2, <1>3, <1>4, <1>5, <1>6, <1>7, <1>8, <1>9, <1>10, <1>11, <1>12 DEF Next, Closed

LEMMA StartupInvariant == Spec => []StartupInv
  BY StartupInit, StartupStep, PTL DEF Spec

-----------------------------------------------------------------------------
(* The properties *)

\* Whatever is sent in whatever order, and whatever fails in between: a client
\* that on_startup's verifier handler makes ready has proved the password of a
\* stored verifier, with the binding data of its own connection.
THEOREM OnlyProvedIsReady == Spec => []ReadyIsProved
<1>1. StartupInv => ReadyIsProved
  BY DEF StartupInv, VerifierInv, SuccessInv, Proved, Negotiated, Expected, NegotiatesPlain,
         NegotiatesPlus, ReadyIsProved, Ready
<1> QED
  BY <1>1, StartupInvariant, PTL

\* negotiate refuses the flag "y" where SCRAM-SHA-256-PLUS is offered.
THEOREM BindingIsNotDowngraded == Spec => []NoDowngrade
<1>1. StartupInv => NoDowngrade
  BY DEF StartupInv, VerifierInv, SuccessInv, Proved, Negotiated, NegotiatesPlain,
         NegotiatesPlus, NoDowngrade, Ready
<1> QED
  BY <1>1, StartupInvariant, PTL

\* take_state consumes the exchange before anything can fail.
THEOREM ExchangeAllowsOneGuess == Spec => []OneGuess
<1>1. StartupInv => OneGuess
  BY DEF StartupInv, VerifierInv, OthersInv, ExchangeInv, NothingYet, OneGuess
<1> QED
  BY <1>1, StartupInvariant, PTL

\* Every client that is ready is in the connection manager, and nobody who has
\* not proved a password, or whom Python refused, has a cancel key.
THEOREM KeysAreForClients == Spec => []CancelKeys
<1>1. StartupInv => CancelKeys
  BY DEF StartupInv, VerifierInv, SuccessInv, Proved, CancelKeys, Ready
<1> QED
  BY <1>1, StartupInvariant, PTL

\* With the verifier method Python's session_factory is asked after the proof
\* and before the client is ready.
THEOREM AuthorizationPrecedesReady == Spec => []AuthorizedBeforeReady
<1>1. StartupInv => AuthorizedBeforeReady
  BY DEF StartupInv, VerifierInv, SuccessInv, Proved, AuthorizedBeforeReady, Ready
<1> QED
  BY <1>1, StartupInvariant, PTL

-----------------------------------------------------------------------------
(* Every method *)

\* Who has been asked to open a session: nobody before authentication, and
\* nobody whom an opened session, or a refusal, follows.  get_password is
\* awaited by a client that is not through.
OpeningInv ==
    /\ opens \in {0, 1}
    /\ session \/ pc \in {"authorize", "open"} => opens = 1
    /\ pc \in {"authorize", "open"} => ~session
    /\ cstate # "ReadyForQuery" /\ ~Verified => opens = 0
    /\ pc = "published" => Ready /\ (~Verified => opens = 0)
    /\ cstate = "AwaitingStartup" => pc \in {"idle", "finishing", "closed"} /\ opens = 0
    /\ pc \in {"get_password", "get_scram_verifier", "authorize"}
         => cstate = "AuthenticationInProgress"
    /\ pc \in {"get_scram_verifier", "authorize"} => Verified

\* A plain connection where TLS is required stays where it began.
PlainInv ==
    args.require_tls /\ ~secure =>
        cstate = "AwaitingStartup" /\ pc # "finishing" /\ ~registered

\* The records the checks of the exchange look into.
ScramTypes ==
    /\ args \in Arguments /\ secure \in BOOLEAN /\ known \in BOOLEAN
    /\ cstate \in {"AwaitingStartup", "AuthenticationInProgress", "ReadyForQuery"}
    /\ pc \in {"idle", "get_password", "get_scram_verifier", "authorize",
              "finishing", "published", "open", "closed"}
    /\ step \in {"Initial", "ServerFirstSent", "Done"} /\ exchange \in Exchanges
    /\ session \in BOOLEAN /\ installed \in BOOLEAN /\ registered \in BOOLEAN
    /\ first \in Firsts \cup {NoMessage} /\ final \in Finals \cup {NoMessage}

\* Between becoming ready and having its resources a client is not read from.
ResourcesInv == Ready => installed \/ pc = "published"

MethodsInv == OpeningInv /\ PlainInv /\ ScramTypes /\ ResourcesInv

LEMMA MethodsInit == Init => MethodsInv
<1> SUFFICES ASSUME Init PROVE MethodsInv
  OBVIOUS
<1>1. OpeningInv /\ PlainInv /\ ResourcesInv
  BY DEF Init, OpeningInv, PlainInv, ResourcesInv, Ready
<1>2. NoExchange \in Exchanges
  BY DEF NoExchange, Exchanges, Bindings
<1> QED
  BY <1>1, <1>2 DEF Init, MethodsInv, ScramTypes

\* An exchange is begun with a flag that a binding can have.
LEMMA ExchangeTypes ==
  ASSUME StartupInv, OpeningInv, ScramTypes, VerifierReturned PROVE exchange' \in Exchanges
<1>1. CASE UNCHANGED scram
  BY <1>1 DEF scram, ScramTypes
<1>2. CASE exchange' = [binding |-> [flag |-> first.flag,
                                     data |-> IF NegotiatesPlus(first) THEN EndPoint ELSE None],
                        mock |-> ~known]
  <2>1. pc = "get_scram_verifier"
    BY DEF VerifierReturned
  <2>2. Negotiated
    BY <2>1 DEF OpeningInv, StartupInv, VerifierInv, ExchangeInv
  <2>3. first.flag \in {"n", "y", "p"}
    BY <2>2 DEF Negotiated, NegotiatesPlain, NegotiatesPlus
  <2> QED
    BY <1>2, <2>3 DEF Exchanges, Bindings, ScramTypes
<1> QED
  BY <1>1, <1>2 DEF VerifierReturned

LEMMA MethodsStep == StartupInv /\ MethodsInv /\ [Next]_vars => MethodsInv'
<1> SUFFICES ASSUME StartupInv, MethodsInv, [Next]_vars PROVE MethodsInv'
  OBVIOUS
<1> USE DEF MethodsInv, OpeningInv, PlainInv, ResourcesInv, Ready, Verified, connection, scram,
            published, history, Receive, Publish, Refuse, SendFailed, Fail, TakeState
<1>1. CASE StartupMessage
  <2>1. /\ cstate = "AwaitingStartup" /\ pc = "idle" /\ opens = 0 /\ session = FALSE
        /\ UNCHANGED <<connection, scram, session, first, final>>
    BY <1>1 DEF StartupMessage, ScramTypes
  <2>2. CASE Trusted
    BY <2>1, <2>2 DEF Trusted, TlsSatisfied, ScramTypes
  <2>3. CASE PasswordRequested
    BY <2>1, <2>3 DEF PasswordRequested, TlsSatisfied, ScramTypes
  <2>4. CASE TlsRefused \/ (Fail /\ UNCHANGED <<published, opens>>)
    BY <2>1, <2>4 DEF TlsRefused, ScramTypes
  <2> QED
    BY <1>1, <2>2, <2>3, <2>4 DEF StartupMessage
<1>2. CASE PasswordMessage
  BY <1>2 DEF PasswordMessage, ScramTypes
<1>3. CASE PasswordReturned
  <2>1. /\ pc = "get_password" /\ ~Verified /\ UNCHANGED <<connection, session, exchange, first, final>>
        /\ step' \in {step, "ServerFirstSent"}
    BY <1>3 DEF PasswordReturned
  <2>2. cstate = "AuthenticationInProgress" /\ opens = 0 /\ session = FALSE
    BY <2>1 DEF ScramTypes
  <2>3. CASE Publish
    BY <2>1, <2>2, <2>3 DEF ScramTypes
  <2>4. CASE Refuse
    BY <2>1, <2>2, <2>4 DEF ScramTypes
  <2>5. CASE pc' \in {"idle", "closed"} /\ UNCHANGED <<published, opens>>
    BY <2>1, <2>2, <2>5 DEF ScramTypes
  <2> QED
    BY <1>3, <2>3, <2>4, <2>5 DEF PasswordReturned
<1>4. CASE ScramFinal
  <2>1. /\ pc = "idle" /\ cstate = "AuthenticationInProgress" /\ ~Verified
        /\ UNCHANGED <<connection, scram, session, first, final>>
    BY <1>4 DEF ScramFinal
  <2>2. opens = 0 /\ session = FALSE
    BY <2>1 DEF ScramTypes
  <2>3. CASE Publish
    BY <2>1, <2>2, <2>3 DEF ScramTypes
  <2>4. CASE Refuse
    BY <2>1, <2>2, <2>4 DEF ScramTypes
  <2> QED
    BY <1>4, <2>3, <2>4 DEF ScramFinal
<1>5. CASE \E f \in Firsts : ClientFirst(f)
  BY <1>5 DEF ClientFirst, ScramTypes
<1>6. CASE VerifierReturned
  <2>1. exchange' \in Exchanges
    BY <1>6, ExchangeTypes
  <2> QED
    BY <1>6, <2>1 DEF VerifierReturned, ScramTypes
<1>7. CASE \E m \in Finals : ClientFinal(m)
  <2> PICK m \in Finals : ClientFinal(m)
    BY <1>7
  <2>1. /\ Verified /\ step = "ServerFirstSent" /\ pc = "idle"
        /\ cstate = "AuthenticationInProgress"
        /\ step' = "Done" /\ final' = m /\ UNCHANGED <<connection, session, exchange, first>>
    BY DEF ClientFinal
  <2>2. opens = 0 /\ session = FALSE
    BY <2>1 DEF StartupInv, VerifierInv, ExchangeInv, NothingYet, ScramTypes
  <2>3. CASE Fail /\ UNCHANGED <<published, opens>>
    BY <2>1, <2>2, <2>3 DEF ScramTypes
  <2>4. CASE pc' = "authorize" /\ opens' = opens + 1 /\ UNCHANGED published
    BY <2>1, <2>2, <2>4 DEF ScramTypes
  <2>5. CASE Publish \/ SendFailed
    BY <2>1, <2>2, <2>5 DEF ScramTypes
  <2> QED
    BY <2>3, <2>4, <2>5 DEF ClientFinal
<1>8. CASE Authorized
  <2>1. /\ pc = "authorize" /\ opens = 1 /\ session = FALSE /\ cstate = "AuthenticationInProgress"
        /\ Verified /\ UNCHANGED <<connection, scram, proofs, first, final>>
    BY <1>8 DEF Authorized, ScramTypes
  <2>2. CASE session' = TRUE /\ (Publish \/ SendFailed)
    BY <2>1, <2>2 DEF ScramTypes
  <2>3. CASE Fail /\ UNCHANGED <<session, published, opens>>
    BY <2>1, <2>3 DEF ScramTypes
  <2> QED
    BY <1>8, <2>2, <2>3 DEF Authorized
<1>9. CASE LateMessage
  BY <1>9 DEF LateMessage, ScramTypes
<1>10. CASE SessionOpened
  <2>1. /\ pc = "open" /\ pc' \in {"idle", "closed"} /\ session' \in {session, TRUE}
        /\ UNCHANGED <<connection, published, scram, history>>
    BY <1>10 DEF SessionOpened
  <2>2. opens = 1 /\ ~session
    BY <2>1
  <2>3. OpeningInv'
    BY <2>1, <2>2 DEF ScramTypes
  <2>4. PlainInv' /\ ResourcesInv'
    BY <2>1
  <2>5. ScramTypes'
    BY <2>1 DEF ScramTypes
  <2> QED
    BY <2>3, <2>4, <2>5
<1>11. CASE Drop
  BY <1>11 DEF Drop, ScramTypes
<1>12. CASE SuccessSent
  <2>1. /\ pc = "finishing" /\ cstate # "ReadyForQuery" /\ ~(args.require_tls /\ ~secure)
        /\ UNCHANGED <<connection, scram, session, installed, registered, opens, first, final>>
    BY <1>12 DEF SuccessSent, StartupInv, VerifierInv
  <2>2. CASE cstate' = "ReadyForQuery" /\ pc' = "published"
    BY <2>1, <2>2 DEF ScramTypes
  <2>3. CASE SendFailed
    BY <2>1, <2>3 DEF ScramTypes
  <2> QED
    BY <1>12, <2>2, <2>3 DEF SuccessSent
<1>13. CASE Prepare
  \* The verifier handler's session is there; the other methods have asked for none.
  <2>1. /\ pc = "published" /\ installed' = TRUE /\ pc' \in {"idle", "open"}
        /\ UNCHANGED <<connection, scram, session, cstate, registered, first, final>>
    BY <1>13 DEF Prepare
  <2>2. CASE pc' = "open" /\ opens' = opens + 1 /\ ~session
    <3>1. ~Verified
      BY <1>13, <2>2 DEF Prepare, SessionMissing, StartupInv, VerifierInv, SuccessInv
    <3> QED
      BY <2>1, <2>2, <3>1 DEF ScramTypes
  <2>3. CASE pc' = "idle" /\ UNCHANGED opens
    BY <2>1, <2>3 DEF ScramTypes, StartupInv, VerifierInv, SuccessInv
  <2> QED
    BY <1>13, <2>2, <2>3 DEF Prepare, SessionMissing
<1>14. CASE UNCHANGED vars
  BY <1>14 DEF vars, ScramTypes
<1> QED
  BY <1>1, <1>2, <1>3, <1>4, <1>5, <1>6, <1>7, <1>8, <1>9, <1>10, <1>11, <1>12, <1>13, <1>14
     DEF Next, Closed

LEMMA MethodsInvariant == Spec => []MethodsInv
  BY MethodsInit, MethodsStep, StartupInvariant, PTL DEF Spec

\* Startup keeps the types of its state, and counts at most one opening and
\* one proof.
THEOREM StartupTypes == Spec => []TypeOK
<1>1. StartupInv /\ MethodsInv => TypeOK
  BY DEF StartupInv, VerifierInv, OthersInv, ExchangeInv, MethodsInv, OpeningInv, ScramTypes, TypeOK
<1> QED
  BY <1>1, StartupInvariant, MethodsInvariant, PTL

\* initialize_python_session opens a session only where the verifier handler
\* has not: whatever the method and whatever fails, Python's factory is asked
\* once for a connection.
THEOREM FactoryIsAskedOnce == Spec => []OneSession
<1>1. MethodsInv => OneSession
  BY DEF MethodsInv, OpeningInv, OneSession
<1> QED
  BY <1>1, MethodsInvariant, PTL

\* on_startup refuses before it dispatches: with require_tls no method asks a
\* plain connection for anything.
THEOREM TlsPrecedesEverything == Spec => []TlsBeforeAuth
<1>1. MethodsInv => TlsBeforeAuth
  BY DEF MethodsInv, OpeningInv, PlainInv, TlsBeforeAuth
<1> QED
  BY <1>1, MethodsInvariant, PTL

\* PyStartupHandler installs the resources, whether or not a session is there,
\* before it asks for one: extended.rs's expect cannot fail, not even for a
\* client whose open() raised or whose session the verifier handler opened.
THEOREM ReadyHasResources == Spec => []ResourcesInstalled
<1>1. MethodsInv => ResourcesInstalled
  BY DEF MethodsInv, ResourcesInv, Receive, Ready, ResourcesInstalled
<1> QED
  BY <1>1, MethodsInvariant, PTL

\* Verify looks at the mock last: what an unknown user is answered does not
\* depend on the message any more than what a wrong password is.
THEOREM MockIsNoOracle == Spec => []MockFailsAlike
<1>1. ASSUME NEW e \in Exchanges, NEW m \in Finals,
             NEW wrong, wrong = [m EXCEPT !.proof = IF @ = "right" THEN "wrong" ELSE @]
      PROVE  Verify([e EXCEPT !.mock = TRUE], m) = Verify([e EXCEPT !.mock = FALSE], wrong)
  <2>1. /\ [e EXCEPT !.mock = TRUE].mock = TRUE /\ [e EXCEPT !.mock = TRUE].binding = e.binding
        /\ [e EXCEPT !.mock = FALSE].mock = FALSE /\ [e EXCEPT !.mock = FALSE].binding = e.binding
    BY DEF Exchanges
  <2>2. /\ wrong.wellformed = m.wellformed /\ wrong.binding = m.binding /\ wrong.nonce = m.nonce
        /\ wrong.proof = IF m.proof = "right" THEN "wrong" ELSE m.proof
        /\ m.proof \in {"right", "wrong", "undecodable"}
    BY <1>1 DEF Finals
  <2> QED
    BY <2>1, <2>2 DEF Verify
<1>2. MethodsInv => MockFailsAlike
  BY <1>1 DEF MethodsInv, ScramTypes, MockFailsAlike
<1> QED
  BY <1>2, MethodsInvariant, PTL

=============================================================================
