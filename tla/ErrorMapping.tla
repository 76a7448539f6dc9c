----------------------------- MODULE ErrorMapping -----------------------------
(***************************************************************************)
(* pywire_to_py_err and py_err_to_pywire: an error crosses between         *)
(* PgWireError and Python exceptions, once when a handler raises it and    *)
(* again when it let through what a pywire call raised into it.            *)
(*                                                                         *)
(* A text is the number of phrases put around the words the error began    *)
(* with.                                                                   *)
(***************************************************************************)
EXTENDS Naturals

CONSTANT MaxCrossings    \* bound on how often an error crosses

\* The arms of pywire_to_py_err: the class raised for each variant.
ClassOf == [
    UnsupportedProtocolVersion |-> "UnsupportedProtocolVersion",
    InvalidCancelRequest |-> "InvalidCancelRequest", InvalidSecretKey |-> "InvalidSecretKey",
    InvalidMessageType |-> "InvalidMessageType", MessageTooLarge |-> "MessageTooLarge",
    InvalidElementCount |-> "InvalidElementCount", InvalidTargetType |-> "InvalidTargetType",
    InvalidTransactionStatus |-> "InvalidTransactionStatus",
    InvalidSSLRequestMessage |-> "InvalidSSLRequestMessage",
    InvalidGssEncRequestMessage |-> "InvalidGssEncRequestMessage",
    InvalidStartupMessage |-> "InvalidStartupMessage",
    InvalidAuthenticationMessageCode |-> "InvalidAuthenticationMessageCode",
    FailedToCoercePasswordMessage |-> "FailedToCoercePasswordMessage",
    InvalidSASLState |-> "InvalidSASLState",
    UnsupportedSASLAuthMethod |-> "UnsupportedSASLAuthMethod", IoError |-> "OSError",
    PortalNotFound |-> "PortalNotFound", PortalNotStarted |-> "PortalNotStarted",
    StatementNotFound |-> "StatementNotFound",
    ParameterIndexOutOfBound |-> "ParameterIndexOutOfBound",
    InvalidRustTypeForParameter |-> "InvalidRustTypeForParameter",
    FailedToParseParameter |-> "FailedToParseParameter",
    InvalidScramMessage |-> "InvalidScramMessage", InvalidPassword |-> "InvalidPassword",
    UnsupportedCertificateSignatureAlgorithm |-> "UnsupportedCertificateSignatureAlgorithm",
    UserNameRequired |-> "UserNameRequired", NotReadyForQuery |-> "NotReadyForQuery",
    QueryCanceled |-> "QueryCanceled", InvalidOptionValue |-> "InvalidOptionValue",
    InvalidOauthMessage |-> "InvalidOauthMessage",
    OAuthAuthenticationFailed |-> "OAuthAuthenticationFailed",
    OAuthValidationError |-> "OAuthValidationError", OauthAuthzIdError |-> "OauthAuthzIdError",
    ApiError |-> "ApiError", UserError |-> "UserError"]

\* The arms of py_err_to_pywire: the variant made for each qualname.
VariantOf == [
    InvalidCancelRequest |-> "InvalidCancelRequest", InvalidSecretKey |-> "InvalidSecretKey",
    InvalidSSLRequestMessage |-> "InvalidSSLRequestMessage",
    InvalidGssEncRequestMessage |-> "InvalidGssEncRequestMessage",
    InvalidStartupMessage |-> "InvalidStartupMessage",
    FailedToCoercePasswordMessage |-> "FailedToCoercePasswordMessage",
    InvalidSASLState |-> "InvalidSASLState",
    UnsupportedCertificateSignatureAlgorithm |-> "UnsupportedCertificateSignatureAlgorithm",
    UserNameRequired |-> "UserNameRequired", NotReadyForQuery |-> "NotReadyForQuery",
    QueryCanceled |-> "QueryCanceled", PortalNotStarted |-> "PortalNotStarted",
    UnsupportedSASLAuthMethod |-> "UnsupportedSASLAuthMethod",
    PortalNotFound |-> "PortalNotFound", StatementNotFound |-> "StatementNotFound",
    InvalidRustTypeForParameter |-> "InvalidRustTypeForParameter",
    InvalidScramMessage |-> "InvalidScramMessage", InvalidPassword |-> "InvalidPassword",
    InvalidOptionValue |-> "InvalidOptionValue", InvalidOauthMessage |-> "InvalidOauthMessage",
    OAuthAuthenticationFailed |-> "OAuthAuthenticationFailed",
    OAuthValidationError |-> "OAuthValidationError", OauthAuthzIdError |-> "OauthAuthzIdError"]

\* The variants that carry a String, no data, and data Python cannot give back.
Variants == DOMAIN ClassOf
Text == {"UnsupportedSASLAuthMethod", "PortalNotFound", "StatementNotFound",
    "InvalidRustTypeForParameter", "InvalidScramMessage", "InvalidPassword",
    "InvalidOptionValue", "InvalidOauthMessage", "OAuthAuthenticationFailed",
    "OAuthValidationError", "OauthAuthzIdError"}
Unit == DOMAIN VariantOf \ Text
Typed == Variants \ (Unit \cup Text \cup {"ApiError"})

\* The exception classes below AuthError: these reject a connection.
Auth == {"FailedToCoercePasswordMessage", "InvalidSASLState", "UnsupportedSASLAuthMethod",
    "InvalidScramMessage", "InvalidPassword", "UnsupportedCertificateSignatureAlgorithm",
    "UserNameRequired", "InvalidOauthMessage", "OAuthAuthenticationFailed",
    "OAuthValidationError", "OauthAuthzIdError"}

VARIABLES
    side,        \* rust or python
    name,        \* its variant, or the qualname of its class
    base,        \* in Python: the pywire class it is or is derived from
    text,        \* phrases around the words (a variant without data has none)
    crossings,
    began        \* history: the side, variant or class, and name it began with

vars == <<side, name, base, text, crossings, began>>

\* Exceptions of pywire's classes, of a class derived from one under another
\* name, and of classes that only share a name with one.
Init ==
    /\ \/ side = "rust" /\ name \in Variants /\ base = "none"
       \/ side = "python" /\ base \in (Variants \ {"IoError"}) \cup {"OSError"} /\ name \in {base, "Custom"}
       \/ side = "python" /\ base = "none" /\ name \in (Variants \ {"IoError"}) \cup {"Custom"}
    /\ text = 0 /\ crossings = 0 /\ began = [side |-> side, name |-> name]

-----------------------------------------------------------------------------

\* pywire_to_py_err: the class is chosen by variant, the message is Display's,
\* which puts the words of the variant around what it carries.
ToPython ==
    /\ side = "rust" /\ crossings < MaxCrossings
    /\ name' = ClassOf[name] /\ base' = name'
    /\ text' = IF name \in Unit THEN 0 ELSE IF name = "IoError" THEN text ELSE text + 1
    /\ side' = "python" /\ crossings' = crossings + 1 /\ UNCHANGED began

\* Mutant: an arm makes another variant.
ConvertSwapped ==
    IF name = "PortalNotFound" THEN "StatementNotFound"
    ELSE IF name \in DOMAIN VariantOf THEN VariantOf[name] ELSE "ApiError"

\* py_err_to_pywire: the variant is chosen by the qualname of the class alone.
Convert == IF name \in DOMAIN VariantOf THEN VariantOf[name] ELSE "ApiError"

\* Its payload: the class name in front of the message is stripped; ApiError
\* keeps it.
Payload == text

ToRust ==
    /\ side = "python" /\ crossings < MaxCrossings
    /\ name' = Convert /\ base' = "none"
    /\ text' = CASE name \in Unit -> 0
                 [] name \in Text -> Payload
                 [] OTHER -> text + 1
    /\ side' = "rust" /\ crossings' = crossings + 1 /\ UNCHANGED began

\* The error has reached the client or the caller.
Arrived == crossings = MaxCrossings /\ UNCHANGED vars

Next == ToPython \/ ToRust \/ Arrived

Spec == Init /\ [][Next]_vars

-----------------------------------------------------------------------------
(* Properties *)

\* "have it land on the wire as the corresponding pgwire variant with the
\* right SQLSTATE code": the two tables undo each other, so that an error stays
\* what it is however often it crosses and wherever it began.  "rather than
\* fabricate numeric data": a variant with data Python does not have is one
\* that pgwire made, and was never in Python.
VariantSurvives ==
    /\ began.name \in Unit \cup Text => name = began.name
    /\ side = "rust" /\ name \in Typed => crossings = 0

\* py_err_to_pywire's doc: "The unit and string-carrying variants ... round-trip
\* faithfully": back on the side it began on, the error says what it said.
RoundTripsFaithfully ==
    side = began.side /\ began.name \in Unit \cup Text => name = began.name /\ text = 0

\* AuthSource.get_password's doc: "Raise `pywire.errors.InvalidPassword` (or
\* any subclass of `pywire.errors.AuthError`) to reject the connection."
SubclassRejects ==
    [][side = "python" /\ base \in Auth /\ ToRust => name' \in Auth]_vars

=============================================================================
