----------------------------- MODULE Conversions -----------------------------
(***************************************************************************)
(* The parts of pywire that turn one form into another, each on an input   *)
(* of its own while the others are at rest: the scanner of is_empty_query, *)
(* an error between Rust and Python, the rows of a response, and the texts *)
(* of SCRAM and the format codes of a Bind, which take no step.            *)
(***************************************************************************)
EXTENDS EmptyQuery, RowStream, ScramText, BindFormats

CONSTANTS
    MaxCrossings,    \* bound on how often an error crosses
    MaxCodes         \* bound on the parameters and format codes of a Bind

ASSUME BoundsAssumption ==
    MaxCrossings \in Nat /\ MaxCodes \in Nat /\ MaxIterations \in Nat

VARIABLES
    side, name, base, text, crossings, began,    \* of ErrorMapping
    input    \* the kind of a text or a Bind, and the text or Bind

Errors == INSTANCE ErrorMapping
error == <<side, name, base, text, crossings, began>>

Nothing == [kind |-> "none"]
NoQuery == sql = <<>> /\ at = 1 /\ mode = "done" /\ depth = 0 /\ answer = TRUE
NoError ==
    /\ side = "rust" /\ name = "QueryCanceled" /\ base = "none" /\ text = 0
    /\ crossings = MaxCrossings /\ began = [side |-> side, name |-> name]
NoRows ==
    /\ kind = "query" /\ items = <<>> /\ ending = "stop" /\ pulled = 0 /\ rows = TRUE
    /\ sent = <<>> /\ phase = "closed" /\ fetched = 0 /\ max = 0

-----------------------------------------------------------------------------
(* Texts: well formed ones, and what one or two changes make of them *)

Changed(s, tokens) ==
    {InsertAt(s, i, t) : i \in 1..(Len(s) + 1), t \in tokens}
    \cup {ReplaceAt(s, i, t) : i \in DOMAIN s, t \in tokens}
    \cup {RemoveAt(s, i) : i \in DOMAIN s}
Near(S, tokens) == S \cup UNION {Changed(s, tokens) : s \in S}

VerifierTexts ==
    LET tokens == {"SCRAM-SHA-256$", ":", "$", "0", "9", "salt", "key", "bare"} IN
    Near(Near({<<"SCRAM-SHA-256$", "9", ":", "salt", "$", "key", ":", "key">>}, tokens), tokens)

FirstTexts ==
    LET tokens == {",", "n=", "r=", "a=", "m=", "bare"} IN
    Near(Near({<<"bare", ",", ",", "n=", ",", "r=", "bare">>,
               <<",", "a=", "bare", ",", "n=", "bare", ",", "r=", "bare", ",", "bare">>}, tokens), tokens)

FinalTexts ==
    LET tokens == {",", "c=", "r=", "p=", "key", "bare"} IN
    Near(Near({<<"c=", "bare", ",", "r=", "bare", ",", "p=", "key">>,
               <<"c=", "bare", ",", "r=", "bare", ",", "p=", "key", ",", "p=", "key">>}, tokens), tokens)

Inputs ==
    [kind : {"verifier"}, text : VerifierTexts] \cup [kind : {"first"}, text : FirstTexts]
    \cup [kind : {"final"}, text : FinalTexts]
    \cup [kind : {"bind"}, bind : BindMessage({0, 1, 2}, MaxCodes)]

-----------------------------------------------------------------------------

ConversionInit ==
    \/ Init /\ NoError /\ NoRows /\ input = Nothing
    \/ NoQuery /\ Errors!Init /\ NoRows /\ input = Nothing
    \/ NoQuery /\ NoError /\ RowsInit /\ input = Nothing
    \/ NoQuery /\ NoError /\ NoRows /\ input \in Inputs

ConversionNext ==
    \/ Next /\ UNCHANGED <<error, stream, input>>
    \/ Errors!Next /\ UNCHANGED <<vars, stream, input>>
    \/ RowsNext /\ UNCHANGED <<vars, error, input>>

ConversionSpec == ConversionInit /\ [][ConversionNext]_<<vars, error, stream, input>>

-----------------------------------------------------------------------------
(* Properties.  AnswersReference is EmptyQuery's; RowsTypeOK, RowsInOrder and  *)
(* CompleteMeansAll are RowStream's.                                          *)

\* However often an error crosses, it stays the variant it is.
VariantSurvives == Errors!VariantSurvives

\* A verifier and the messages of a client are accepted exactly when their
\* grammar has them, and read as it reads them: no word moves into another
\* field, a mandatory extension is not taken for a user, the proof is the last
\* attribute, and header and bare are "verbatim: the client signs the exact
\* bytes it sent".
ScramTextParsed ==
    LET t == input.text IN
    /\ input.kind = "verifier" =>
         Verifiers(t) = IF VerifierParses(t) THEN {VerifierFields(t)} ELSE {}
    /\ input.kind = "first" => Firsts(t) = IF FirstParses(t) THEN {FirstFields(t)} ELSE {}
    /\ input.kind = "final" => Finals(t) = IF FinalParses(t) THEN {FinalFields(t)} ELSE {}

\* "lists of `0` (text) or `1` (binary) per input/output column": an accepted
\* Bind gives Python one format for each parameter, the one the protocol's rule
\* gives it.
ParameterFormatsAgree ==
    LET m == input.bind IN
    input.kind = "bind" /\ BindAccepted(m) /\ m.statement = "value" =>
        /\ Len(parameter_formats(m)) = m.parameters
        /\ \A i \in 1..m.parameters :
             parameter_formats(m)[i] = CodeOf(m.parameter_format_codes, i)

\* The same sentence for the output columns, and "An empty list means all
\* text": a client that sends as many codes as the protocol asks for.
OneFormatPerColumn ==
    LET m == input.bind IN
    input.kind = "bind" /\ BindAccepted(m) /\ m.statement = "value" /\ m.columns > 0
      /\ Len(m.result_column_format_codes) \in {0, 1, m.columns}
      => Len(result_formats(m)) \in {0, m.columns}

=============================================================================
