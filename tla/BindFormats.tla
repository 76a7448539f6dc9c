------------------------------ MODULE BindFormats ------------------------------
(***************************************************************************)
(* The format codes of a Bind: what on_bind checks, what pgwire's Portal   *)
(* keeps of them and what bind_portal hands to Python.                     *)
(***************************************************************************)
EXTENDS Integers, Sequences, SequencesExt

\* A Bind names a statement of Python ("value"), whose result has columns the
\* server does not know, or an empty one.
BindMessage(codes, maxCodes) ==
    [statement : {"value", "empty"}, parameters : 0..maxCodes, columns : 0..maxCodes,
     parameter_format_codes : BoundedSeq(codes, maxCodes),
     result_column_format_codes : BoundedSeq(codes, maxCodes)]

\* The guards of on_bind.  (The mutant does not count the codes.)
CodesKnown(m) ==
    /\ ToSet(m.parameter_format_codes) \subseteq {0, 1}
    /\ ToSet(m.result_column_format_codes) \subseteq {0, 1}
EmptyFits(m) ==
    m.statement = "empty" => m.parameters = 0 /\ Len(m.result_column_format_codes) <= 1
BindUncounted(m) == CodesKnown(m) /\ EmptyFits(m)
BindAccepted(m) ==
    /\ Len(m.parameter_format_codes) > 1 => Len(m.parameter_format_codes) = m.parameters
    /\ CodesKnown(m) /\ EmptyFits(m)

\* pgwire's Format.
FormatOf(codes) ==
    IF codes = <<>> \/ codes = <<0>> THEN [kind |-> "UnifiedText"]
    ELSE IF Len(codes) = 1 THEN [kind |-> "UnifiedBinary"]
    ELSE [kind |-> "Individual", codes |-> codes]

format_codes(format, len) ==
    CASE format.kind = "UnifiedText" -> [i \in 1..len |-> 0]
      [] format.kind = "UnifiedBinary" -> [i \in 1..len |-> 1]
      [] format.kind = "Individual" -> format.codes

result_format_codes(format) ==
    CASE format.kind = "UnifiedText" -> <<>>
      [] format.kind = "UnifiedBinary" -> <<1>>
      [] format.kind = "Individual" -> format.codes

\* What bind_portal passes.
parameter_formats(m) == format_codes(FormatOf(m.parameter_format_codes), m.parameters)
result_formats(m) == result_format_codes(FormatOf(m.result_column_format_codes))

-----------------------------------------------------------------------------

\* The protocol's rule: no code is text for all, one code holds for all, and
\* otherwise there is one for each value.
CodeOf(codes, i) == IF codes = <<>> THEN 0 ELSE IF Len(codes) = 1 THEN codes[1] ELSE codes[i]

=============================================================================
