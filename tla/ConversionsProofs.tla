--------------------------- MODULE ConversionsProofs ---------------------------
(***************************************************************************)
(* What a conversion keeps: the variant of an error, however often it      *)
(* crosses between Rust and Python, the format of every parameter of a     *)
(* Bind, the fields of a text of SCRAM, and the answer to a query of       *)
(* blanks and comments.                                                    *)
(***************************************************************************)
EXTENDS Conversions, ScramTextProofs, FiniteSetTheorems, TLAPS

-----------------------------------------------------------------------------
(* An error that crosses *)

\* The invariant: what began as a variant without typed data keeps its name on
\* both sides, and no arm of py_err_to_pywire makes another kind of variant.
ErrorInv ==
    /\ began.name \in Errors!Unit \cup Errors!Text => name = began.name
    /\ side = "rust" /\ name \in Errors!Typed => crossings = 0

\* The two match tables undo each other, arm by arm: the class of a variant
\* without typed data, and no other class, leads back to that variant.
LEMMA TablesUndoEachOther ==
  /\ Errors!Unit \cup Errors!Text = DOMAIN Errors!VariantOf
  /\ \A n \in DOMAIN Errors!VariantOf :
       n \in Errors!Variants /\ Errors!ClassOf[n] = n /\ Errors!VariantOf[n] = n
  /\ \A n \in Errors!Variants \ DOMAIN Errors!VariantOf :
       Errors!ClassOf[n] \notin DOMAIN Errors!VariantOf
<1>1. \A n \in Errors!Text : n \in DOMAIN Errors!VariantOf
  BY DEF Errors!Text, Errors!VariantOf
<1>2. \A n \in DOMAIN Errors!VariantOf : n \in Errors!Variants
  BY DEF Errors!Variants, Errors!VariantOf, Errors!ClassOf
<1>3. \A n \in DOMAIN Errors!VariantOf : Errors!ClassOf[n] = n /\ Errors!VariantOf[n] = n
  BY DEF Errors!VariantOf, Errors!ClassOf
<1>4. \A n \in Errors!Variants \ DOMAIN Errors!VariantOf :
        Errors!ClassOf[n] \notin DOMAIN Errors!VariantOf
  BY DEF Errors!Variants, Errors!VariantOf, Errors!ClassOf
<1> QED
  BY <1>1, <1>2, <1>3, <1>4 DEF Errors!Unit

LEMMA ErrorInit == ConversionInit => ErrorInv
<1> SUFFICES ASSUME ConversionInit PROVE ErrorInv
  OBVIOUS
<1>1. CASE NoError
  <2>1. "QueryCanceled" \in Errors!Unit \cup Errors!Text
    BY TablesUndoEachOther DEF Errors!VariantOf
  <2> QED
    BY <1>1, <2>1 DEF NoError, ErrorInv, Errors!Typed
<1>2. CASE Errors!Init
  <2>1. crossings = 0 /\ began.name = name
    BY <1>2 DEF Errors!Init
  <2> QED
    BY <2>1 DEF ErrorInv
<1> QED
  BY <1>1, <1>2 DEF ConversionInit

LEMMA ToPythonKeeps == ErrorInv /\ Errors!ToPython => ErrorInv'
<1> SUFFICES ASSUME ErrorInv, Errors!ToPython PROVE ErrorInv'
  OBVIOUS
<1>1. side' = "python" /\ name' = Errors!ClassOf[name] /\ began' = began
  BY DEF Errors!ToPython
<1>2. ASSUME began.name \in Errors!Unit \cup Errors!Text PROVE name' = name
  BY <1>1, <1>2, TablesUndoEachOther DEF ErrorInv
<1> QED
  BY <1>1, <1>2 DEF ErrorInv

LEMMA ToRustKeeps == ErrorInv /\ Errors!ToRust => ErrorInv'
<1> SUFFICES ASSUME ErrorInv, Errors!ToRust PROVE ErrorInv'
  OBVIOUS
<1>1. /\ side' = "rust" /\ began' = began
      /\ name' = IF name \in DOMAIN Errors!VariantOf THEN Errors!VariantOf[name] ELSE "ApiError"
  BY DEF Errors!ToRust, Errors!Convert
<1>2. ASSUME began.name \in Errors!Unit \cup Errors!Text PROVE name' = name
  BY <1>1, <1>2, TablesUndoEachOther DEF ErrorInv
<1>3. name' \notin Errors!Typed
  BY <1>1, TablesUndoEachOther DEF Errors!Typed
<1> QED
  BY <1>1, <1>2, <1>3 DEF ErrorInv

LEMMA ErrorStep == ErrorInv /\ [ConversionNext]_<<vars, error, stream, input>> => ErrorInv'
<1> SUFFICES ASSUME ErrorInv, [ConversionNext]_<<vars, error, stream, input>> PROVE ErrorInv'
  OBVIOUS
<1>1. CASE Errors!ToPython \/ Errors!ToRust
  BY <1>1, ToPythonKeeps, ToRustKeeps
<1>2. CASE UNCHANGED error
  BY <1>2 DEF error, ErrorInv
<1>3. Errors!ToPython \/ Errors!ToRust \/ UNCHANGED error
  BY DEF ConversionNext, Errors!Next, Errors!Arrived, Errors!vars, error
<1> QED
  BY <1>1, <1>2, <1>3

LEMMA ErrorInvariant == ConversionSpec => []ErrorInv
  BY ErrorInit, ErrorStep, PTL DEF ConversionSpec

\* An error stays the variant it is, so that the client learns the SQLSTATE the
\* handler raised, and no data is invented for a variant that carries some:
\* the arms of pywire_to_py_err and py_err_to_pywire undo each other, for any
\* number of crossings.
THEOREM ErrorsKeepTheirVariant == ConversionSpec => []VariantSurvives
<1>1. ErrorInv => VariantSurvives
  BY DEF ErrorInv, VariantSurvives, Errors!VariantSurvives
<1> QED
  BY <1>1, ErrorInvariant, PTL

-----------------------------------------------------------------------------
(* The formats of a Bind *)

LEMMA CodesOfASet ==
  ASSUME NEW S, NEW T, NEW s \in Seq(S), ToSet(s) \subseteq T
  PROVE  s \in Seq(T)
<1>1. \A i \in 1..Len(s) : s[i] \in ToSet(s)
  BY DEF ToSet
<1> QED
  BY <1>1

LEMMA SeveralCodes ==
  ASSUME NEW codes \in Seq({0, 1}), Len(codes) > 1
  PROVE  codes # <<>> /\ codes # <<0>> /\ Len(codes) # 1
<1> DEFINE n == Len(codes)
<1>1. n \in Nat /\ n > 1
  OBVIOUS
<1>2. codes # <<>>
  OBVIOUS
<1>3. codes = <<0>> => n = 1
  OBVIOUS
<1> HIDE DEF n
<1>4. n # 1
  BY <1>1
<1> QED
  BY <1>2, <1>3, <1>4 DEF n

\* No code, one code, or several.
LEMMA FormatCases ==
  ASSUME NEW codes \in Seq({0, 1})
  PROVE  \/ codes = <<>> /\ FormatOf(codes) = [kind |-> "UnifiedText"]
         \/ codes = <<0>> /\ FormatOf(codes) = [kind |-> "UnifiedText"]
         \/ codes = <<1>> /\ FormatOf(codes) = [kind |-> "UnifiedBinary"]
         \/ /\ Len(codes) \in Nat /\ Len(codes) > 1 /\ codes # <<>>
            /\ FormatOf(codes) = [kind |-> "Individual", codes |-> codes]
<1>1. CASE Len(codes) = 0
  <2>1. codes = <<>>
    BY <1>1
  <2> QED
    BY <2>1 DEF FormatOf
<1>2. CASE Len(codes) = 1
  <2>1. codes = <<codes[1]>> /\ codes[1] \in {0, 1} /\ codes # <<>>
    BY <1>2
  <2>2. codes = <<0>> \/ codes = <<1>>
    BY <2>1
  <2>3. <<1>> # <<>> /\ <<1>> # <<0>> /\ Len(<<1>>) = 1
    <3>1. <<1>>[1] = 1 /\ <<0>>[1] = 0 /\ Len(<<1>>) = 1 /\ Len(<<>>) = 0
      OBVIOUS
    <3> QED
      BY <3>1
  <2> QED
    BY <2>2, <2>3 DEF FormatOf
<1>3. CASE Len(codes) > 1
  <2>1. codes # <<>> /\ codes # <<0>> /\ Len(codes) # 1
    BY <1>3, SeveralCodes
  <2>2. FormatOf(codes) = [kind |-> "Individual", codes |-> codes]
    BY <2>1 DEF FormatOf
  <2> QED
    BY <1>3, <2>1, <2>2
<1> DEFINE n == Len(codes)
<1>4. n \in Nat
  OBVIOUS
<1> HIDE DEF n
<1>5. n = 0 \/ n = 1 \/ n > 1
  BY <1>4
<1> QED
  BY <1>1, <1>2, <1>3, <1>5 DEF n

LEMMA ParameterRule ==
  ASSUME NEW codes \in Seq({0, 1}), NEW len \in Nat, Len(codes) > 1 => Len(codes) = len
  PROVE  /\ Len(format_codes(FormatOf(codes), len)) = len
         /\ \A i \in 1..len : format_codes(FormatOf(codes), len)[i] = CodeOf(codes, i)
<1>1. CASE FormatOf(codes) = [kind |-> "UnifiedText"] /\ codes \in {<<>>, <<0>>}
  <2>1. format_codes(FormatOf(codes), len) = [i \in 1..len |-> 0]
    BY <1>1 DEF format_codes
  <2>2. \A i \in 1..len : CodeOf(codes, i) = 0
    BY <1>1 DEF CodeOf
  <2> QED
    BY <2>1, <2>2
<1>2. CASE FormatOf(codes) = [kind |-> "UnifiedBinary"] /\ codes = <<1>>
  <2>1. format_codes(FormatOf(codes), len) = [i \in 1..len |-> 1]
    BY <1>2 DEF format_codes
  <2>2. Len(<<1>>) = 1 /\ <<1>>[1] = 1 /\ <<1>> # <<>>
    OBVIOUS
  <2>3. \A i \in 1..len : CodeOf(codes, i) = 1
    BY <1>2, <2>2 DEF CodeOf
  <2> QED
    BY <2>1, <2>3
<1>3. CASE /\ FormatOf(codes) = [kind |-> "Individual", codes |-> codes]
           /\ codes # <<>> /\ Len(codes) > 1
  <2>1. format_codes(FormatOf(codes), len) = codes
    BY <1>3 DEF format_codes
  <2>2. Len(codes) # 1
    BY <1>3, SeveralCodes
  <2>3. \A i \in 1..len : CodeOf(codes, i) = codes[i]
    BY <1>3, <2>2 DEF CodeOf
  <2> QED
    BY <1>3, <2>1, <2>3
<1> QED
  BY <1>1, <1>2, <1>3, FormatCases

\* What parameter_formats makes of the codes a Bind was accepted with.
LEMMA FormatsFollowTheRule ==
  ASSUME NEW m \in BindMessage({0, 1, 2}, MaxCodes), BindAccepted(m)
  PROVE  /\ Len(parameter_formats(m)) = m.parameters
         /\ \A i \in 1..m.parameters :
              parameter_formats(m)[i] = CodeOf(m.parameter_format_codes, i)
<1>1. m.parameter_format_codes \in Seq({0, 1, 2}) /\ m.parameters \in Nat
  BY BoundsAssumption DEF BindMessage, BoundedSeq, SeqOf
<1>2. m.parameter_format_codes \in Seq({0, 1})
  BY <1>1, CodesOfASet DEF BindAccepted, CodesKnown
<1>3. Len(m.parameter_format_codes) > 1 => Len(m.parameter_format_codes) = m.parameters
  BY DEF BindAccepted
<1> QED
  BY <1>1, <1>2, <1>3, ParameterRule DEF parameter_formats

BindInv == input.kind = "bind" => input.bind \in BindMessage({0, 1, 2}, MaxCodes)

\* bind_portal gives Python one format for each value, the one the protocol's
\* rule gives it, for a Bind of any number of codes and parameters.
THEOREM PythonLearnsTheFormats == ConversionSpec => []ParameterFormatsAgree
<1>1. ConversionInit => BindInv
  <2> SUFFICES ASSUME ConversionInit PROVE BindInv
    OBVIOUS
  <2>1. CASE input = Nothing
    BY <2>1 DEF Nothing, BindInv
  <2>2. CASE input \in Inputs
    BY <2>2 DEF Inputs, BindInv
  <2> QED
    BY <2>1, <2>2 DEF ConversionInit
<1>2. BindInv /\ [ConversionNext]_<<vars, error, stream, input>> => BindInv'
  BY DEF ConversionNext, BindInv
<1>3. BindInv => ParameterFormatsAgree
  <2> SUFFICES ASSUME BindInv, input.kind = "bind", BindAccepted(input.bind)
               PROVE  ParameterFormatsAgree
    BY DEF ParameterFormatsAgree
  <2> DEFINE m == input.bind
  <2>1. m \in BindMessage({0, 1, 2}, MaxCodes)
    BY DEF BindInv
  <2> QED
    BY <2>1, FormatsFollowTheRule DEF ParameterFormatsAgree
<1> QED
  BY <1>1, <1>2, <1>3, PTL DEF ConversionSpec


-----------------------------------------------------------------------------
(* The texts of SCRAM *)

LEMMA ChangedTexts ==
  ASSUME NEW s \in TokenSeq, NEW tokens, tokens \subseteq Token
  PROVE  Changed(s, tokens) \subseteq TokenSeq
<1> PICK n \in Nat : n = Len(s)
  BY DEF TokenSeq
<1>0. SubSeq(s, 1, n) = s
  BY SubSeqFull DEF TokenSeq
<1>1. \A a, b \in Int : Within(s, a, b) => SubSeq(s, a, b) \in TokenSeq
  BY SliceFacts
<1>2. \A u \in TokenSeq, v \in TokenSeq : u \o v \in TokenSeq
  BY ConcatProperties DEF TokenSeq
<1>3. ASSUME NEW t \in tokens PROVE <<t>> \in TokenSeq
  BY DEF TokenSeq
<1>4. \A i \in 1..(n + 1) : SubSeq(s, 1, i - 1) \in TokenSeq /\ SubSeq(s, i, n) \in TokenSeq
  <2> TAKE i \in 1..(n + 1)
  <2> PICK p \in Int, o \in Int : p = i - 1 /\ o = 1
    OBVIOUS
  <2>1. Within(s, o, p) /\ Within(s, i, n)
    BY DEF Within
  <2>2. SubSeq(s, o, p) \in TokenSeq /\ SubSeq(s, i, n) \in TokenSeq
    BY <1>1, <2>1
  <2> QED
    BY <2>2
<1>5. \A i \in DOMAIN s : i \in 1..n
  BY DEF TokenSeq
<1>6. \A i \in 1..(n + 1), t \in tokens : InsertAt(s, i, t) \in TokenSeq
  BY <1>2, <1>3, <1>4 DEF InsertAt
<1>7. \A i \in DOMAIN s, t \in tokens : ReplaceAt(s, i, t) \in TokenSeq
  BY ExceptSeq DEF ReplaceAt, TokenSeq
<1>8. \A i \in DOMAIN s : RemoveAt(s, i) \in TokenSeq
  <2> TAKE i \in DOMAIN s
  <2>1. i + 1 \in 1..(n + 1) /\ i \in 1..(n + 1)
    BY <1>5
  <2>2. SubSeq(s, 1, i - 1) \in TokenSeq /\ SubSeq(s, i + 1, n) \in TokenSeq
    BY <1>4, <2>1
  <2> QED
    BY <1>2, <2>2 DEF RemoveAt
<1> QED
  BY <1>6, <1>7, <1>8 DEF Changed

LEMMA NearTexts ==
  ASSUME NEW S, S \subseteq TokenSeq, NEW tokens, tokens \subseteq Token
  PROVE  Near(S, tokens) \subseteq TokenSeq
  BY ChangedTexts DEF Near

LEMMA TextsAreTexts ==
  VerifierTexts \subseteq TokenSeq /\ FirstTexts \subseteq TokenSeq /\ FinalTexts \subseteq TokenSeq
<1>0. ASSUME NEW u \in Token, NEW v \in Token, NEW w \in Token,
             NEW x \in Token, NEW y \in Token, NEW z \in Token
      PROVE  /\ <<v, x, y, z, w, u, y, u>> \in TokenSeq
             /\ <<x, v, v, y, v, z, x>> \in TokenSeq
             /\ <<v, w, x, v, y, x, v, z, x, v, x>> \in TokenSeq
             /\ <<w, x, v, y, x, v, z, u>> \in TokenSeq
             /\ <<w, x, v, y, x, v, z, u, v, z, u>> \in TokenSeq
  BY DEF TokenSeq
<1>1. \A S, tokens : S \subseteq TokenSeq /\ tokens \subseteq Token
        => Near(Near(S, tokens), tokens) \subseteq TokenSeq
  BY NearTexts
<1>2. VerifierTexts \subseteq TokenSeq
  <2> DEFINE tokens == {"SCRAM-SHA-256$", ":", "$", "0", "9", "salt", "key", "bare"}
  <2> DEFINE S == {<<"SCRAM-SHA-256$", "9", ":", "salt", "$", "key", ":", "key">>}
  <2>1. tokens \subseteq Token
    BY DEF Token
  <2>2. S \subseteq TokenSeq
    BY <1>0 DEF Token
  <2>3. VerifierTexts = Near(Near(S, tokens), tokens)
    BY Zenon DEF VerifierTexts
  <2> QED
    BY <1>1, <2>1, <2>2, <2>3, Zenon
<1>3. FirstTexts \subseteq TokenSeq
  <2> DEFINE tokens == {Comma, "n=", "r=", "a=", "m=", "bare"}
  <2> DEFINE S == {<<"bare", Comma, Comma, "n=", Comma, "r=", "bare">>,
                   <<Comma, "a=", "bare", Comma, "n=", "bare", Comma, "r=", "bare", Comma, "bare">>}
  <2>1. tokens \subseteq Token
    BY DEF Token
  <2>2. S \subseteq TokenSeq
    <3>1. <<"bare", Comma, Comma, "n=", Comma, "r=", "bare">> \in TokenSeq
      BY <1>0 DEF Token
    <3>2. <<Comma, "a=", "bare", Comma, "n=", "bare", Comma, "r=", "bare", Comma, "bare">> \in TokenSeq
      BY <1>0 DEF Token
    <3> QED
      BY <3>1, <3>2, Zenon
  <2>3. FirstTexts = Near(Near(S, tokens), tokens)
    BY Zenon DEF FirstTexts, Comma
  <2> QED
    BY <1>1, <2>1, <2>2, <2>3, Zenon
<1>4. FinalTexts \subseteq TokenSeq
  <2> DEFINE tokens == {Comma, "c=", "r=", "p=", "key", "bare"}
  <2> DEFINE S == {<<"c=", "bare", Comma, "r=", "bare", Comma, "p=", "key">>,
                   <<"c=", "bare", Comma, "r=", "bare", Comma, "p=", "key", Comma, "p=", "key">>}
  <2>1. tokens \subseteq Token
    BY DEF Token
  <2>2. S \subseteq TokenSeq
    BY <1>0 DEF Token
  <2>3. FinalTexts = Near(Near(S, tokens), tokens)
    BY Zenon DEF FinalTexts, Comma
  <2> QED
    BY <1>1, <2>1, <2>2, <2>3, Zenon
<1> QED
  BY <1>2, <1>3, <1>4

ScramInv == input.kind \in {"verifier", "first", "final"} => input.text \in TokenSeq

\* A verifier and the messages of a client are read as their grammar reads
\* them, whatever their length: PyScramVerifier::parse, ClientFirst::parse and
\* the splits of Exchange::verify.
THEOREM ScramReadsTheGrammar == ConversionSpec => []ScramTextParsed
<1>1. ConversionInit => ScramInv
  <2> SUFFICES ASSUME ConversionInit PROVE ScramInv
    OBVIOUS
  <2>1. CASE input = Nothing
    BY <2>1 DEF Nothing, ScramInv
  <2>2. CASE input \in Inputs
    <3>1. \/ input \in [kind : {"verifier"}, text : VerifierTexts]
          \/ input \in [kind : {"first"}, text : FirstTexts]
          \/ input \in [kind : {"final"}, text : FinalTexts]
          \/ input \in [kind : {"bind"}, bind : BindMessage({0, 1, 2}, MaxCodes)]
      BY <2>2, Zenon DEF Inputs
    <3> QED
      BY <3>1, TextsAreTexts DEF ScramInv
  <2> QED
    BY <2>1, <2>2 DEF ConversionInit
<1>2. ScramInv /\ [ConversionNext]_<<vars, error, stream, input>> => ScramInv'
  BY DEF ConversionNext, ScramInv
<1>3. ScramInv => ScramTextParsed
  BY VerifiersAreRead, FirstsAreRead, FinalsAreRead DEF ScramInv, ScramTextParsed
<1> QED
  BY <1>1, <1>2, <1>3, PTL DEF ConversionSpec

-----------------------------------------------------------------------------
(* The reference of an empty query: its recursive functions satisfy the     *)
(* equations that define them, because each has a solution                  *)

\* Of a run of marks that overlap, every other one is taken, from the first on.
FirstOfRun(t, from, j, i) ==
    /\ \A k \in j..i : Mark(t, k)
    /\ j = from \/ ~Mark(t, j - 1)
InTurn(t, from, i) == \E j \in from..i : FirstOfRun(t, from, j, i) /\ (i - j) % 2 = 0

\* The run of marks that ends at i has a first one.
LEMMA RunBegins ==
  ASSUME NEW t, NEW from \in Nat \ {0}, NEW i \in Nat, from <= i, Mark(t, i)
  PROVE  \E j \in from..i : FirstOfRun(t, from, j, i)
<1> DEFINE begins == {j \in from..i : \A k \in j..i : Mark(t, k)}
<1>1. i \in begins
  OBVIOUS
<1>2. Min(begins) \in begins /\ \A y \in begins : Min(begins) <= y
  BY <1>1, LeastExists
<1>3. PICK j \in begins : \A y \in begins : j <= y
  BY <1>2
<1>4. ASSUME j # from, Mark(t, j - 1) PROVE FALSE
  <2>1. j - 1 \in from..i /\ \A k \in (j - 1)..i : k = j - 1 \/ k \in j..i
    BY <1>4
  <2>2. j - 1 \in begins
    BY <2>1, <1>4
  <2> QED
    BY <2>2, <1>3
<1> QED
  BY <1>4 DEF FirstOfRun

\* To be in turn is to be a mark whose neighbour on the left is not in turn.
LEMMA TurnsAlternate ==
  ASSUME NEW t, NEW from \in Nat \ {0}, NEW i \in Int, i >= from - 1
  PROVE  InTurn(t, from, i) <=> i >= from /\ Mark(t, i) /\ ~InTurn(t, from, i - 1)
<1>1. ASSUME InTurn(t, from, i) PROVE i >= from /\ Mark(t, i)
  BY <1>1 DEF InTurn, FirstOfRun
<1>2. ASSUME InTurn(t, from, i), InTurn(t, from, i - 1) PROVE FALSE
  <2>1. PICK j \in from..i : FirstOfRun(t, from, j, i) /\ (i - j) % 2 = 0
    BY <1>2 DEF InTurn
  <2>2. PICK m \in from..(i - 1) : FirstOfRun(t, from, m, i - 1) /\ (i - 1 - m) % 2 = 0
    BY <1>2 DEF InTurn
  <2>3. ~ (j < m)
    <3>1. j < m => m - 1 \in j..i /\ m # from
      OBVIOUS
    <3> QED
      BY <3>1, <2>1, <2>2 DEF FirstOfRun
  <2>4. ~ (m < j)
    <3>1. m < j => j - 1 \in m..(i - 1) /\ j # from
      OBVIOUS
    <3> QED
      BY <3>1, <2>1, <2>2 DEF FirstOfRun
  <2>5. j = m
    BY <2>3, <2>4
  <2> QED
    BY <2>1, <2>2, <2>5
<1>3. ASSUME i >= from, Mark(t, i), ~InTurn(t, from, i - 1) PROVE InTurn(t, from, i)
  <2>1. CASE i > from /\ Mark(t, i - 1)
    <3>1. PICK j \in from..(i - 1) : FirstOfRun(t, from, j, i - 1)
      BY <2>1, RunBegins
    <3>2. (i - 1 - j) % 2 # 0
      BY <3>1, <1>3 DEF InTurn
    <3>3. FirstOfRun(t, from, j, i)
      BY <3>1, <1>3 DEF FirstOfRun
    <3> QED
      BY <3>2, <3>3 DEF InTurn
  <2>2. CASE ~(i > from /\ Mark(t, i - 1))
    <3>1. FirstOfRun(t, from, i, i)
      BY <2>2, <1>3 DEF FirstOfRun
    <3> QED
      BY <3>1, <1>3 DEF InTurn
  <2> QED
    BY <2>1, <2>2
<1> QED
  BY <1>1, <1>2, <1>3

\* So the turns solve the equation of Taken, and Taken, chosen among the solutions,
\* is one.
LEMMA TakenEquation ==
  ASSUME NEW t, Len(t) \in Nat, NEW from \in Nat \ {0}
  PROVE  Taken(t, from) = [i \in (from - 1)..Len(t) |->
                              i >= from /\ Mark(t, i) /\ ~Taken(t, from)[i - 1]]
<1> DEFINE Body(f) == [i \in (from - 1)..Len(t) |->
                          i >= from /\ Mark(t, i) /\ ~f[i - 1]]
           turns == [i \in (from - 1)..Len(t) |-> InTurn(t, from, i)]
<1>1. turns = Body(turns)
  <2>1. ASSUME NEW i \in (from - 1)..Len(t)
        PROVE  InTurn(t, from, i) <=> i >= from /\ Mark(t, i) /\ ~turns[i - 1]
    BY TurnsAlternate
  <2>2. \A i : InTurn(t, from, i) \in BOOLEAN
    BY DEF InTurn
  <2>3. \A i \in (from - 1)..Len(t) :
          InTurn(t, from, i) = (i >= from /\ Mark(t, i) /\ ~turns[i - 1])
    BY <2>1, <2>2
  <2> HIDE DEF turns
  <2>4. Body(turns) = [i \in (from - 1)..Len(t) |-> InTurn(t, from, i)]
    BY <2>3
  <2> QED
    BY <2>4 DEF turns
<1>2. Taken(t, from) = CHOOSE f : f = Body(f)
  BY DEF Taken
<1> HIDE DEF turns, Body
<1>3. Taken(t, from) = Body(Taken(t, from))
  BY <1>1, <1>2
<1> QED
  BY <1>3 DEF Body

LEMMA TakenMarks ==
  ASSUME NEW t, Len(t) \in Nat, NEW from \in 1..Len(t)
  PROVE  /\ ~Taken(t, from)[from - 1]
         /\ \A i \in from..Len(t) : Taken(t, from)[i] <=> Mark(t, i) /\ ~Taken(t, from)[i - 1]
<1> DEFINE taken == Taken(t, from)
<1> HIDE DEF taken
<1>1. taken = [i \in (from - 1)..Len(t) |-> i >= from /\ Mark(t, i) /\ ~taken[i - 1]]
  BY TakenEquation DEF taken
<1>2. \A i \in (from - 1)..Len(t) : taken[i] = (i >= from /\ Mark(t, i) /\ ~taken[i - 1])
  BY <1>1
<1>3. from - 1 \in (from - 1)..Len(t) /\ ~ (from - 1 >= from)
  OBVIOUS
<1>4. ~taken[from - 1]
  BY <1>2, <1>3
<1>5. ASSUME NEW i \in from..Len(t) PROVE taken[i] <=> Mark(t, i) /\ ~taken[i - 1]
  <2>1. i \in (from - 1)..Len(t) /\ i >= from
    OBVIOUS
  <2>2. taken[i] = (i >= from /\ Mark(t, i) /\ ~taken[i - 1])
    BY <2>1, <1>2
  <2> QED
    BY <2>1, <2>2, Zenon
<1> QED
  BY <1>4, <1>5 DEF taken

\* Where the text goes on after a blank, a line comment or a block comment at i:
\* behind its last character if a line comment has no end.
LeadsTo(t, i, j) ==
    \/ i <= Len(t) /\ Blank(t[i]) /\ j = i + 1
    \/ /\ i < Len(t) /\ t[i] = "-" /\ t[i + 1] = "-"
       /\ j = IF LineEnds(t, i) = {} THEN Len(t) + 1 ELSE Min(LineEnds(t, i)) + 1
    \/ OpenAt(t, i) /\ Ends(t, i) # {} /\ j = Min(Ends(t, i))

\* The positions of a way through the text, each followed by one of them.
Way(t, positions) ==
    \A k \in positions : k = Len(t) + 1 \/ \E j \in positions : LeadsTo(t, k, j)
HasWay(t, i) == \E positions \in SUBSET (1..(Len(t) + 1)) : i \in positions /\ Way(t, positions)

\* A way goes on from a position exactly if one goes on from the next: no induction
\* over the text is needed.
LEMMA WaysGoOn ==
  ASSUME NEW t, Len(t) \in Nat, NEW i \in 1..(Len(t) + 1)
  PROVE  HasWay(t, i) <=>
           i = Len(t) + 1 \/ \E j \in 1..(Len(t) + 1) : LeadsTo(t, i, j) /\ HasWay(t, j)
<1>1. ASSUME HasWay(t, i), i # Len(t) + 1
      PROVE  \E j \in 1..(Len(t) + 1) : LeadsTo(t, i, j) /\ HasWay(t, j)
  BY <1>1 DEF HasWay, Way
<1>2. ASSUME i = Len(t) + 1 PROVE HasWay(t, i)
  <2>1. Way(t, {i})
    BY <1>2 DEF Way
  <2> QED
    BY <2>1 DEF HasWay
<1>3. ASSUME NEW j \in 1..(Len(t) + 1), LeadsTo(t, i, j), HasWay(t, j) PROVE HasWay(t, i)
  <2>1. PICK positions \in SUBSET (1..(Len(t) + 1)) : j \in positions /\ Way(t, positions)
    BY <1>3 DEF HasWay
  <2>2. Way(t, positions \cup {i})
    BY <2>1, <1>3 DEF Way
  <2> QED
    BY <2>2 DEF HasWay
<1> QED
  BY <1>1, <1>2, <1>3

\* A line or a block comment ends within the text, or just behind it.
LEMMA NextPosition ==
  ASSUME NEW t, Len(t) \in Nat, NEW i \in 1..Len(t)
  PROVE  /\ LineEnds(t, i) # {} =>
              /\ Min(LineEnds(t, i)) \in LineEnds(t, i)
              /\ \A k \in LineEnds(t, i) : Min(LineEnds(t, i)) <= k
              /\ Min(LineEnds(t, i)) + 1 \in 1..(Len(t) + 1)
         /\ Ends(t, i) # {} =>
              /\ Min(Ends(t, i)) \in Ends(t, i)
              /\ \A k \in Ends(t, i) : Min(Ends(t, i)) <= k
              /\ Min(Ends(t, i)) \in 1..(Len(t) + 1)
<1>1. LineEnds(t, i) \subseteq Nat /\ \A k \in LineEnds(t, i) : k \in 1..Len(t)
  BY DEF LineEnds
<1>2. \A e \in Ends(t, i) : e \in 1..(Len(t) + 1)
  BY DEF Ends, Closes, CloseAt
<1>3. Ends(t, i) \subseteq Nat
  BY <1>2
<1>4. LineEnds(t, i) # {} =>
        Min(LineEnds(t, i)) \in LineEnds(t, i) /\ \A k \in LineEnds(t, i) : Min(LineEnds(t, i)) <= k
  BY <1>1, LeastExists
<1>5. Ends(t, i) # {} =>
        Min(Ends(t, i)) \in Ends(t, i) /\ \A k \in Ends(t, i) : Min(Ends(t, i)) <= k
  BY <1>3, LeastExists
<1>6. LineEnds(t, i) # {} => Min(LineEnds(t, i)) + 1 \in 1..(Len(t) + 1)
  BY <1>1, <1>4
<1>7. Ends(t, i) # {} => Min(Ends(t, i)) \in 1..(Len(t) + 1)
  BY <1>2, <1>5
<1> QED
  BY <1>4, <1>5, <1>6, <1>7

\* The positions with a way are those EmptyAt accepts.
LEMMA WaysAreEmpty ==
  ASSUME NEW t, Len(t) \in Nat, NEW i \in 1..(Len(t) + 1), NEW ways,
         \A j \in 1..(Len(t) + 1) : ways[j] <=> HasWay(t, j)
  PROVE  HasWay(t, i) <=> EmptyAt(t, ways, i)
<1>1. CASE i = Len(t) + 1
  BY <1>1, WaysGoOn DEF EmptyAt
<1>2. CASE i # Len(t) + 1
  <2>1. i \in 1..Len(t) /\ Len(t) + 1 \in 1..(Len(t) + 1) /\ i + 1 \in 1..(Len(t) + 1)
    BY <1>2
  <2>2. HasWay(t, Len(t) + 1)
    BY <2>1, WaysGoOn
  <2>3. HasWay(t, i) <=> \E j \in 1..(Len(t) + 1) : LeadsTo(t, i, j) /\ HasWay(t, j)
    BY <1>2, WaysGoOn
  <2>4. /\ LineEnds(t, i) # {} => Min(LineEnds(t, i)) + 1 \in 1..(Len(t) + 1)
        /\ Ends(t, i) # {} => Min(Ends(t, i)) \in 1..(Len(t) + 1)
    BY <2>1, NextPosition
  <2>5. ASSUME EmptyAt(t, ways, i)
        PROVE  \E j \in 1..(Len(t) + 1) : LeadsTo(t, i, j) /\ HasWay(t, j)
    BY <2>5, <2>1, <2>2, <2>4, <1>2 DEF EmptyAt, LeadsTo
  <2>6. ASSUME NEW j \in 1..(Len(t) + 1), LeadsTo(t, i, j), HasWay(t, j)
        PROVE  EmptyAt(t, ways, i)
    BY <2>6 DEF EmptyAt, LeadsTo
  <2> QED
    BY <2>3, <2>5, <2>6
<1> QED
  BY <1>1, <1>2

\* So they solve the equation of EmptyFrom.
LEMMA EmptyEquation ==
  ASSUME NEW t, Len(t) \in Nat
  PROVE  EmptyFrom(t) = [i \in 1..(Len(t) + 1) |-> EmptyAt(t, EmptyFrom(t), i)]
<1> DEFINE Body(f) == [i \in 1..(Len(t) + 1) |-> EmptyAt(t, f, i)]
           ways == [i \in 1..(Len(t) + 1) |-> HasWay(t, i)]
<1>1. ways = Body(ways)
  <2>1. ASSUME NEW i \in 1..(Len(t) + 1) PROVE HasWay(t, i) <=> EmptyAt(t, ways, i)
    <3>1. \A j \in 1..(Len(t) + 1) : ways[j] <=> HasWay(t, j)
      OBVIOUS
    <3> HIDE DEF ways
    <3> QED
      BY <3>1, WaysAreEmpty
  <2>2. \A i : HasWay(t, i) \in BOOLEAN /\ EmptyAt(t, ways, i) \in BOOLEAN
    BY DEF HasWay, EmptyAt
  <2> HIDE DEF ways
  <2>3. \A i \in 1..(Len(t) + 1) : HasWay(t, i) = EmptyAt(t, ways, i)
    BY <2>1, <2>2
  <2>4. Body(ways) = [i \in 1..(Len(t) + 1) |-> HasWay(t, i)]
    BY <2>3
  <2> QED
    BY <2>4 DEF ways
<1>2. EmptyFrom(t) = CHOOSE f : f = Body(f)
  BY DEF EmptyFrom
<1> HIDE DEF ways, Body
<1>3. EmptyFrom(t) = Body(EmptyFrom(t))
  BY <1>1, <1>2
<1> QED
  BY <1>3 DEF Body

\* What EmptyFrom says of a position, by the characters there.
LEMMA EmptyByCharacter ==
  ASSUME NEW t, Len(t) \in Nat, NEW i \in 1..(Len(t) + 1), NEW empty, empty = EmptyFrom(t)
  PROVE  /\ empty[i] \in BOOLEAN
         /\ i = Len(t) + 1 => empty[i]
         /\ i <= Len(t) /\ Blank(t[i]) => empty[i] = empty[i + 1]
         /\ i < Len(t) /\ t[i] = "-" /\ t[i + 1] = "-" =>
              (empty[i] <=> LineEnds(t, i) = {} \/ empty[Min(LineEnds(t, i)) + 1])
         /\ OpenAt(t, i) => (empty[i] <=> Ends(t, i) # {} /\ empty[Min(Ends(t, i))])
         /\ i <= Len(t) /\ ~Blank(t[i]) /\ ~OpenAt(t, i)
              /\ ~(i < Len(t) /\ t[i] = "-" /\ t[i + 1] = "-") => ~empty[i]
<1>1. \A j \in 1..(Len(t) + 1) : empty[j] = EmptyAt(t, empty, j)
  BY EmptyEquation
<1>2. \A j \in 1..(Len(t) + 1) : empty[j] \in BOOLEAN
  BY <1>1 DEF EmptyAt
<1>3. empty[i] <=> EmptyAt(t, empty, i)
  BY <1>1
<1>4. i <= Len(t) /\ Blank(t[i]) => (empty[i] <=> empty[i + 1])
  <2>1. Blank(t[i]) => t[i] # "-" /\ t[i] # "/"
    BY DEF Blank
  <2>2. i <= Len(t) => i # Len(t) + 1
    OBVIOUS
  <2> QED
    BY <1>3, <2>1, <2>2, Zenon DEF EmptyAt, OpenAt
<1>5. i <= Len(t) => i + 1 \in 1..(Len(t) + 1)
  OBVIOUS
<1>6. i <= Len(t) /\ Blank(t[i]) => empty[i] = empty[i + 1]
  BY <1>2, <1>4, <1>5
<1>7. i < Len(t) /\ t[i] = "-" /\ t[i + 1] = "-" =>
        (empty[i] <=> LineEnds(t, i) = {} \/ empty[Min(LineEnds(t, i)) + 1])
  BY <1>3 DEF EmptyAt, OpenAt, Blank
<1>8. OpenAt(t, i) => (empty[i] <=> Ends(t, i) # {} /\ empty[Min(Ends(t, i))])
  BY <1>3 DEF EmptyAt, OpenAt, Blank
<1>9. i <= Len(t) /\ ~Blank(t[i]) /\ ~OpenAt(t, i)
        /\ ~(i < Len(t) /\ t[i] = "-" /\ t[i + 1] = "-") => ~empty[i]
  BY <1>3 DEF EmptyAt
<1>10. i = Len(t) + 1 => empty[i]
  BY <1>3 DEF EmptyAt
<1> QED
  BY <1>2, <1>6, <1>7, <1>8, <1>9, <1>10

-----------------------------------------------------------------------------
(* The marks of a comment, counted *)

\* A mark more, or none.
LEMMA LeftOfNext ==
  ASSUME NEW n \in Nat, NEW S, \A x \in S : x \in 1..n, NEW k \in Nat
  PROVE  /\ LeftOf(S, k) \in Nat
         /\ k \in S => LeftOf(S, k + 1) = LeftOf(S, k) + 1
         /\ k \notin S => LeftOf(S, k + 1) = LeftOf(S, k)
<1> DEFINE left == {x \in S : x < k}
           grown == {x \in S : x < k + 1}
<1>1. LeftOf(S, k) = Cardinality(left) /\ LeftOf(S, k + 1) = Cardinality(grown)
  BY DEF LeftOf
<1>2. left \in SUBSET (1..n)
  OBVIOUS
<1>3. \A x \in S : x \in Nat /\ (x < k + 1 <=> x < k \/ x = k)
  OBVIOUS
<1>4. k \in S => grown = left \cup {k}
  BY <1>3
<1>5. k \notin S => grown = left
  BY <1>3
<1>6. k \notin left
  OBVIOUS
<1> HIDE DEF left, grown
<1>7. IsFiniteSet(left)
  <2>1. IsFiniteSet(1..n)
    BY FS_Interval
  <2> QED
    BY <1>2, <2>1, FS_Subset
<1>8. Cardinality(left) \in Nat /\ Cardinality(left \cup {k}) = Cardinality(left) + 1
  BY <1>6, <1>7, FS_CardinalityType, FS_AddElement
<1> QED
  BY <1>1, <1>4, <1>5, <1>8

\* Nothing is left of the first position.
LEMMA NoneLeft ==
  ASSUME NEW n \in Nat, NEW k \in Nat, NEW S, \A x \in S : x \in k..n
  PROVE  LeftOf(S, k) = 0
<1> DEFINE left == {x \in S : x < k}
<1>1. LeftOf(S, k) = Cardinality(left)
  BY DEF LeftOf
<1>2. left = {}
  OBVIOUS
<1> QED
  BY <1>1, <1>2, FS_EmptySet

\* Inside a block comment: what is taken at a position, and the counts behind it.
LEMMA CountsGoOn ==
  ASSUME NEW t, Len(t) \in Nat, NEW i \in 1..Len(t), NEW p \in i..Len(t), ~Taken(t, i)[p - 1]
  PROVE  LET opened(k) == LeftOf(Opens(t, i), k)
             closed(k) == LeftOf(Closes(t, i), k)
         IN  /\ opened(p) \in Nat /\ closed(p) \in Nat
             /\ OpenAt(t, p) => /\ ~Taken(t, i)[p + 1] /\ p \notin Closes(t, i)
                                /\ p + 1 \notin Closes(t, i)
                                /\ opened(p + 2) = opened(p) + 1 /\ closed(p + 2) = closed(p)
             /\ CloseAt(t, p) => /\ ~Taken(t, i)[p + 1] /\ p \in Closes(t, i)
                                 /\ p + 1 \notin Closes(t, i) /\ closed(p + 1) = closed(p) + 1
                                 /\ opened(p + 2) = opened(p) /\ closed(p + 2) = closed(p) + 1
             /\ ~Mark(t, p) => /\ ~Taken(t, i)[p] /\ p \notin Closes(t, i)
                               /\ opened(p + 1) = opened(p) /\ closed(p + 1) = closed(p)
<1> DEFINE opened(k) == LeftOf(Opens(t, i), k)
           closed(k) == LeftOf(Closes(t, i), k)
<1>1. \A k \in i..Len(t) : Taken(t, i)[k] <=> Mark(t, k) /\ ~Taken(t, i)[k - 1]
  BY TakenMarks
<1>2. \A k \in Opens(t, i) \cup Closes(t, i) : k \in 1..Len(t)
  BY DEF Opens, Closes
<1>3. \A k \in Nat : /\ opened(k) \in Nat /\ closed(k) \in Nat
                     /\ k \in Opens(t, i) => opened(k + 1) = opened(k) + 1
                     /\ k \notin Opens(t, i) => opened(k + 1) = opened(k)
                     /\ k \in Closes(t, i) => closed(k + 1) = closed(k) + 1
                     /\ k \notin Closes(t, i) => closed(k + 1) = closed(k)
  BY <1>2, LeftOfNext
<1> HIDE DEF opened, closed
<1>4. p \in Nat /\ p + 1 \in Nat /\ (p + 1) + 1 = p + 2 /\ (p + 1) - 1 = p
  OBVIOUS
<1>5. ASSUME OpenAt(t, p) \/ CloseAt(t, p)
      PROVE  /\ p + 1 \in i..Len(t) /\ Taken(t, i)[p] /\ ~Taken(t, i)[p + 1]
             /\ p + 1 \notin Opens(t, i) /\ p + 1 \notin Closes(t, i)
             /\ ~ (OpenAt(t, p) /\ CloseAt(t, p))
  <2>1. p + 1 \in i..Len(t) /\ ~ (OpenAt(t, p) /\ CloseAt(t, p))
    BY <1>5 DEF OpenAt, CloseAt
  <2>2. Taken(t, i)[p]
    BY <1>1, <1>5 DEF Mark
  <2>3. ~Taken(t, i)[p + 1]
    BY <1>1, <1>4, <2>1, <2>2
  <2> QED
    BY <2>1, <2>2, <2>3 DEF Opens, Closes
<1>6. ASSUME OpenAt(t, p)
      PROVE  /\ ~Taken(t, i)[p + 1] /\ p \notin Closes(t, i) /\ p + 1 \notin Closes(t, i)
             /\ opened(p + 2) = opened(p) + 1 /\ closed(p + 2) = closed(p)
  <2>1. p \in Opens(t, i) /\ p \notin Closes(t, i)
    BY <1>5, <1>6 DEF Opens, Closes
  <2> QED
    BY <1>3, <1>4, <1>5, <1>6, <2>1
<1>7. ASSUME CloseAt(t, p)
      PROVE  /\ ~Taken(t, i)[p + 1] /\ p \in Closes(t, i) /\ p + 1 \notin Closes(t, i)
             /\ closed(p + 1) = closed(p) + 1
             /\ opened(p + 2) = opened(p) /\ closed(p + 2) = closed(p) + 1
  <2>1. p \notin Opens(t, i) /\ p \in Closes(t, i)
    BY <1>5, <1>7 DEF Opens, Closes
  <2> QED
    BY <1>3, <1>4, <1>5, <1>7, <2>1
<1>8. ASSUME ~Mark(t, p)
      PROVE  /\ ~Taken(t, i)[p] /\ p \notin Closes(t, i)
             /\ opened(p + 1) = opened(p) /\ closed(p + 1) = closed(p)
  <2>1. ~Taken(t, i)[p] /\ p \notin Opens(t, i) /\ p \notin Closes(t, i)
    BY <1>1, <1>8 DEF Opens, Closes
  <2> QED
    BY <1>3, <1>4, <2>1
<1> QED
  BY <1>3, <1>4, <1>6, <1>7, <1>8 DEF opened, closed

\* A comment that has just opened is open once.
LEMMA BlockBegins ==
  ASSUME NEW t, Len(t) \in Nat, NEW i \in 1..Len(t), OpenAt(t, i)
  PROVE  /\ ~Taken(t, i)[i + 1]
         /\ LeftOf(Opens(t, i), i + 2) - LeftOf(Closes(t, i), i + 2) = 1
         /\ \A c \in Closes(t, i) : ~ (c < i + 2)
<1>1. ~Taken(t, i)[i - 1]
  BY TakenMarks
<1>2. LeftOf(Opens(t, i), i) = 0 /\ LeftOf(Closes(t, i), i) = 0
  <2>1. \A k \in Opens(t, i) \cup Closes(t, i) : k \in i..Len(t)
    BY DEF Opens, Closes
  <2> QED
    BY <2>1, NoneLeft
<1>3. /\ ~Taken(t, i)[i + 1] /\ i \notin Closes(t, i) /\ i + 1 \notin Closes(t, i)
      /\ LeftOf(Opens(t, i), i + 2) = LeftOf(Opens(t, i), i) + 1
      /\ LeftOf(Closes(t, i), i + 2) = LeftOf(Closes(t, i), i)
  <2>1. i \in i..Len(t)
    OBVIOUS
  <2> QED
    BY <1>1, <2>1, CountsGoOn
<1>4. \A c \in Closes(t, i) : ~ (c < i + 2)
  <2>1. \A c \in Closes(t, i) : c \in i..Len(t)
    BY DEF Closes
  <2> QED
    BY <1>3, <2>1
<1> QED
  BY <1>2, <1>3, <1>4

-----------------------------------------------------------------------------
(* The scanner of an empty query *)

Scanned ==
    /\ sql \in Seq(Chars) /\ at \in 1..(Len(sql) + 1) /\ depth \in Nat
    /\ mode \in {"text", "line", "block", "done"}

\* The text is empty if it is from i on.
DependsOn(i) == IsEmpty(sql) = EmptyFrom(sql)[i]

\* The scanner is in the line comment that began at i.
InLine(i) ==
    /\ i + 2 <= at /\ sql[i] = "-" /\ sql[i + 1] = "-" /\ DependsOn(i)
    /\ \A k \in (i + 2)..(at - 1) : sql[k] # "n"

\* The scanner is in the block comment that opened at i: no mark covers its
\* position, depth counts the comments open there, and none before it closed the
\* first.
InBlock(i) ==
    /\ i + 2 <= at /\ OpenAt(sql, i) /\ ~Taken(sql, i)[at - 1] /\ DependsOn(i)
    /\ depth = LeftOf(Opens(sql, i), at) - LeftOf(Closes(sql, i), at) /\ depth > 0
    /\ \A c \in Closes(sql, i) : c < at => ~Balanced(sql, i, c)
\* The invariant: what the answer still depends on, which AnswersReference says
\* only of a scanner that is done.
ScanInv ==
    /\ Scanned
    /\ mode = "text" => DependsOn(at)
    /\ mode = "line" => \E i \in 1..Len(sql) : InLine(i)
    /\ mode = "block" => \E i \in 1..Len(sql) : InBlock(i)
    /\ AnswersReference

LEMMA ScanInit == ConversionInit => ScanInv
<1> SUFFICES ASSUME ConversionInit PROVE ScanInv
  OBVIOUS
<1>1. CASE Init
  <2>1. sql \in Seq(Chars)
    <3>1. \A n \in Nat : BoundedSeq(Chars, n) \subseteq Seq(Chars)
      BY DEF BoundedSeq, SeqOf
    <3>2. \A n \in Nat : BoundedSeq({"/", "*"}, n) \subseteq BoundedSeq(Chars, n)
      <4>1. {"/", "*"} \subseteq Chars
        BY DEF Chars
      <4>2. \A m \in Nat : [1..m -> {"/", "*"}] \subseteq [1..m -> Chars]
        BY <4>1
      <4> QED
        BY <4>2 DEF BoundedSeq, SeqOf
    <3> QED
      BY <1>1, <3>1, <3>2, LengthAssumption DEF Init, Texts
  <2>2. Len(sql) \in Nat
    BY <2>1
  <2>3. DependsOn(1)
    BY DEF DependsOn, IsEmpty
  <2>4. Scanned
    BY <1>1, <2>1, <2>2 DEF Init, Scanned
  <2> QED
    BY <1>1, <2>3, <2>4 DEF Init, ScanInv, AnswersReference
<1>2. CASE NoQuery
  <2>1. sql \in Seq(Chars) /\ Len(sql) = 0
    BY <1>2 DEF NoQuery
  <2>2. EmptyFrom(sql)[1] \in BOOLEAN /\ EmptyFrom(sql)[1]
    BY <2>1, EmptyByCharacter
  <2>3. IsEmpty(sql) = TRUE
    BY <2>2 DEF IsEmpty
  <2>4. at = 1 /\ mode = "done" /\ depth = 0 /\ answer = TRUE
    BY <1>2 DEF NoQuery
  <2>5. Scanned
    BY <2>1, <2>4 DEF Scanned
  <2> QED
    BY <2>3, <2>4, <2>5 DEF ScanInv, AnswersReference
<1> QED
  BY <1>1, <1>2 DEF ConversionInit

\* Between tokens.
LEMMA TextKeeps == ScanInv /\ Text => ScanInv'
<1> SUFFICES ASSUME ScanInv, Text PROVE ScanInv'
  OBVIOUS
<1> DEFINE empty == EmptyFrom(sql)
<1>0. PICK i \in Int : i = at
  BY DEF ScanInv, Scanned
<1>1. /\ sql \in Seq(Chars) /\ Len(sql) \in Nat /\ at \in 1..(Len(sql) + 1) /\ depth \in Nat
      /\ mode = "text" /\ IsEmpty(sql) = empty[at] /\ sql' = sql
  BY DEF ScanInv, Scanned, DependsOn, Text, Go, Return
<1> HIDE DEF empty
<1>2. /\ empty[at] \in BOOLEAN
      /\ at = Len(sql) + 1 => empty[at]
      /\ at <= Len(sql) /\ Blank(sql[at]) => empty[at] = empty[at + 1]
      /\ at <= Len(sql) /\ ~Blank(sql[at]) /\ ~OpenAt(sql, at)
              /\ ~(at < Len(sql) /\ sql[at] = "-" /\ sql[at + 1] = "-") => ~empty[at]
  BY <1>1, EmptyByCharacter DEF empty
<1>3. CASE ~More
  <2>1. mode' = "done" /\ answer' = TRUE /\ at' = at /\ depth' = depth
    BY <1>1, <1>3 DEF Text, Return, More, Pair
  <2>2. IsEmpty(sql) = TRUE
    BY <1>1, <1>2, <1>3 DEF More
  <2> QED
    BY <1>1, <2>1, <2>2 DEF ScanInv, Scanned, AnswersReference
<1>4. CASE More /\ Blank(sql[at])
  <2>1. mode' = "text" /\ at' = at + 1 /\ depth' = 0
    BY <1>1, <1>4 DEF Text, Go, Pair, Blank
  <2>2. IsEmpty(sql) = empty[at + 1] /\ at + 1 \in 1..(Len(sql) + 1)
    BY <1>1, <1>2, <1>4 DEF More
  <2> QED
    BY <1>1, <2>1, <2>2 DEF ScanInv, Scanned, AnswersReference, DependsOn, empty
<1>5. CASE Pair("-", "-")
  <2>1. mode' = "line" /\ at' = at + 2 /\ depth' = 0
    BY <1>1, <1>5 DEF Text, Go, Pair, Blank, More
  <2>2. at \in 1..Len(sql) /\ at + 2 \in 1..(Len(sql) + 1) /\ sql[at] = "-" /\ sql[at + 1] = "-"
    BY <1>1, <1>5 DEF Pair
  <2>3. InLine(i)'
    BY <1>0, <1>1, <2>1, <2>2 DEF InLine, DependsOn, empty
  <2> QED
    BY <1>0, <1>1, <2>1, <2>2, <2>3 DEF ScanInv, Scanned, AnswersReference
<1>6. CASE Pair("/", "*")
  <2>1. mode' = "block" /\ at' = at + 2 /\ depth' = 1
    BY <1>1, <1>6 DEF Text, Go, Pair, Blank, More
  <2>2. at \in 1..Len(sql) /\ at + 2 \in 1..(Len(sql) + 1) /\ OpenAt(sql, at)
    BY <1>1, <1>6 DEF Pair, OpenAt
  <2>3. InBlock(i)'
    BY <1>0, <1>1, <2>1, <2>2, BlockBegins DEF InBlock, DependsOn, empty
  <2> QED
    BY <1>0, <1>1, <2>1, <2>2, <2>3 DEF ScanInv, Scanned, AnswersReference
<1>7. CASE More /\ ~Blank(sql[at]) /\ ~Pair("-", "-") /\ ~Pair("/", "*")
  <2>1. mode' = "done" /\ answer' = FALSE /\ at' = at /\ depth' = depth
    BY <1>1, <1>7 DEF Text, Return
  <2>2. IsEmpty(sql) = FALSE
    BY <1>1, <1>2, <1>7 DEF More, Pair, OpenAt
  <2> QED
    BY <1>1, <2>1, <2>2 DEF ScanInv, Scanned, AnswersReference
<1> QED
  BY <1>3, <1>4, <1>5, <1>6, <1>7

\* In a line comment.
LEMMA LineKeeps == ScanInv /\ Line => ScanInv'
<1> SUFFICES ASSUME ScanInv, Line PROVE ScanInv'
  OBVIOUS
<1> DEFINE empty == EmptyFrom(sql)
<1>1. /\ sql \in Seq(Chars) /\ Len(sql) \in Nat /\ at \in 1..(Len(sql) + 1) /\ depth \in Nat
      /\ mode = "line" /\ sql' = sql
  BY DEF ScanInv, Scanned, Line, Go
<1>2. PICK i \in 1..Len(sql) : InLine(i)
  BY <1>1 DEF ScanInv
<1>3. /\ i + 2 <= at /\ i < Len(sql) /\ sql[i] = "-" /\ sql[i + 1] = "-" /\ IsEmpty(sql) = empty[i]
      /\ \A k \in (i + 2)..(at - 1) : sql[k] # "n"
  BY <1>1, <1>2 DEF InLine, DependsOn
<1> DEFINE ends == LineEnds(sql, i)
<1> HIDE DEF empty, ends
<1>4. /\ \A k \in 1..(Len(sql) + 1) : empty[k] \in BOOLEAN
      /\ empty[Len(sql) + 1]
      /\ empty[i] <=> ends = {} \/ empty[Min(ends) + 1]
  <2>1. Len(sql) + 1 \in 1..(Len(sql) + 1) /\ i \in 1..(Len(sql) + 1)
    BY <1>1
  <2>2. \A k \in 1..(Len(sql) + 1) : empty[k] \in BOOLEAN
    BY <1>1, EmptyByCharacter DEF empty
  <2>3. empty[Len(sql) + 1]
    BY <1>1, <2>1, EmptyByCharacter DEF empty
  <2>4. empty[i] <=> ends = {} \/ empty[Min(ends) + 1]
    BY <1>1, <1>3, <2>1, EmptyByCharacter DEF empty, ends
  <2> QED
    BY <2>2, <2>3, <2>4
<1>5. CASE ~More
  <2>1. mode' = "text" /\ at' = at /\ depth' = 0
    BY <1>1, <1>5 DEF Line, Go
  <2>2. at = Len(sql) + 1 /\ ends = {}
    BY <1>1, <1>3, <1>5 DEF More, ends, LineEnds
  <2>3. IsEmpty(sql) = empty[at]
    BY <1>1, <1>3, <1>4, <2>2
  <2> QED
    BY <1>1, <2>1, <2>3 DEF ScanInv, Scanned, AnswersReference, DependsOn, empty
<1>6. CASE More /\ sql[at] = "n"
  <2>1. mode' = "text" /\ at' = at + 1 /\ depth' = 0 /\ at \in 1..Len(sql)
    BY <1>1, <1>6 DEF Line, Go, More
  <2>2. at \in ends /\ \A k \in ends : k \in Nat /\ at <= k
    BY <1>1, <1>3, <1>6, <2>1 DEF ends, LineEnds
  <2>3. ends # {} => Min(ends) \in ends /\ \A k \in ends : Min(ends) <= k
    BY <1>1, NextPosition DEF ends
  <2>4. Min(ends) = at
    <3>1. Min(ends) \in ends /\ Min(ends) <= at
      BY <2>2, <2>3
    <3>2. Min(ends) \in Nat /\ at <= Min(ends)
      BY <2>2, <3>1
    <3> QED
      BY <2>1, <3>1, <3>2
  <2>5. IsEmpty(sql) = empty[at + 1] /\ at + 1 \in 1..(Len(sql) + 1)
    <3>1. at + 1 \in 1..(Len(sql) + 1) /\ i \in 1..(Len(sql) + 1)
      BY <2>1
    <3>2. empty[i] <=> empty[at + 1]
      BY <1>4, <2>2, <2>4
    <3> QED
      BY <1>3, <1>4, <3>1, <3>2
  <2> QED
    BY <1>1, <2>1, <2>5 DEF ScanInv, Scanned, AnswersReference, DependsOn, empty
<1>7. CASE More /\ sql[at] # "n"
  <2>1. mode' = "line" /\ at' = at + 1 /\ depth' = 0 /\ at \in 1..Len(sql)
    BY <1>1, <1>7 DEF Line, Go, More
  <2>2. InLine(i)'
    BY <1>1, <1>3, <1>7, <2>1 DEF InLine, DependsOn, empty
  <2> QED
    BY <1>1, <2>1, <2>2 DEF ScanInv, Scanned, AnswersReference
<1> QED
  BY <1>5, <1>6, <1>7

\* In a block comment.
LEMMA BlockKeeps == ScanInv /\ Block => ScanInv'
<1> SUFFICES ASSUME ScanInv, Block PROVE ScanInv'
  OBVIOUS
<1> DEFINE empty == EmptyFrom(sql)
<1>1. /\ sql \in Seq(Chars) /\ Len(sql) \in Nat /\ at \in 1..(Len(sql) + 1) /\ depth \in Nat
      /\ mode = "block" /\ sql' = sql
  BY DEF ScanInv, Scanned, Block, Go, Return
<1>2. PICK i \in 1..Len(sql) : InBlock(i)
  BY <1>1 DEF ScanInv
<1> DEFINE opened(k) == LeftOf(Opens(sql, i), k)
           closed(k) == LeftOf(Closes(sql, i), k)
           closes == Closes(sql, i)
           ends == Ends(sql, i)
<1>3. /\ i + 2 <= at /\ OpenAt(sql, i) /\ ~Taken(sql, i)[at - 1] /\ IsEmpty(sql) = empty[i]
      /\ depth = opened(at) - closed(at) /\ depth > 0
      /\ \A c \in closes : c < at => ~Balanced(sql, i, c)
  BY <1>2 DEF InBlock, DependsOn
<1>4. \A c \in closes : c \in 1..Len(sql) /\ c < Len(sql)
  BY <1>1 DEF Closes, CloseAt
<1>5. \A c \in closes : Balanced(sql, i, c) <=> opened(c) = closed(c + 1)
  BY DEF Balanced
<1>6. \A e : e \in ends <=> \E c \in closes : Balanced(sql, i, c) /\ e = c + 2
  BY DEF Ends
<1>7. at <= Len(sql) =>
        /\ opened(at) \in Nat /\ closed(at) \in Nat
        /\ OpenAt(sql, at) => /\ ~Taken(sql, i)[at + 1] /\ at \notin closes
                              /\ at + 1 \notin closes
                              /\ opened(at + 2) = opened(at) + 1 /\ closed(at + 2) = closed(at)
        /\ CloseAt(sql, at) => /\ ~Taken(sql, i)[at + 1] /\ at \in closes
                               /\ at + 1 \notin closes /\ closed(at + 1) = closed(at) + 1
                               /\ opened(at + 2) = opened(at) /\ closed(at + 2) = closed(at) + 1
        /\ ~Mark(sql, at) => /\ ~Taken(sql, i)[at] /\ at \notin closes
                             /\ opened(at + 1) = opened(at) /\ closed(at + 1) = closed(at)
  <2>1. at <= Len(sql) => at \in i..Len(sql)
    BY <1>1, <1>3
  <2> QED
    BY <1>1, <1>3, <2>1, CountsGoOn
<1>8. /\ empty[i] \in BOOLEAN
      /\ empty[i] <=> ends # {} /\ empty[Min(ends)]
  <2>1. i \in 1..(Len(sql) + 1)
    BY <1>1
  <2> QED
    BY <1>1, <1>3, <2>1, EmptyByCharacter
<1> HIDE DEF empty, opened, closed, closes, ends
<1>9. CASE ~More
  <2>1. mode' = "done" /\ answer' = FALSE /\ at' = at /\ depth' = depth
    BY <1>1, <1>9 DEF Block, Return, More, Pair
  <2>2. ends = {}
    BY <1>1, <1>3, <1>4, <1>6, <1>9 DEF More
  <2>3. IsEmpty(sql) = FALSE
    BY <1>3, <1>8, <2>2
  <2> QED
    BY <1>1, <2>1, <2>3 DEF ScanInv, Scanned, AnswersReference
<1>10. CASE Pair("/", "*")
  <2>1. mode' = "block" /\ at' = at + 2 /\ depth' = depth + 1
    BY <1>1, <1>10 DEF Block, Go, Pair, More
  <2>2. at < Len(sql) /\ OpenAt(sql, at)
    BY <1>10 DEF Pair, OpenAt
  <2>3. \A c \in closes : c < at + 2 => c < at
    BY <1>1, <1>4, <1>7, <2>2
  <2>4. InBlock(i)'
    BY <1>1, <1>3, <1>7, <2>1, <2>2, <2>3 DEF InBlock, DependsOn, empty, opened, closed, closes
  <2> QED
    BY <1>1, <2>1, <2>2, <2>4 DEF ScanInv, Scanned, AnswersReference
<1>11. CASE Pair("*", "/") /\ depth = 1
  <2>1. mode' = "text" /\ at' = at + 2 /\ depth' = 0
    BY <1>1, <1>11 DEF Block, Go, Pair, More
  <2>2. at < Len(sql) /\ CloseAt(sql, at)
    BY <1>11 DEF Pair, CloseAt
  <2>3. at \in closes /\ opened(at) = closed(at + 1)
    BY <1>1, <1>3, <1>7, <1>11, <2>2
  <2>4. at + 2 \in ends
    BY <1>5, <1>6, <2>3
  <2>5. \A e \in ends : at + 2 <= e /\ e \in Nat
    BY <1>1, <1>3, <1>4, <1>6
  <2>6. ends # {} => Min(ends) \in ends /\ \A e \in ends : Min(ends) <= e
    BY <1>1, NextPosition DEF ends
  <2>7. Min(ends) = at + 2
    BY <1>1, <2>4, <2>5, <2>6
  <2>8. IsEmpty(sql) = empty[at + 2]
    <3>1. at + 2 \in 1..(Len(sql) + 1)
      BY <1>1, <2>2
    <3>2. empty[at + 2] \in BOOLEAN
      BY <1>1, <3>1, EmptyByCharacter DEF empty
    <3>3. empty[i] <=> empty[at + 2]
      BY <1>8, <2>4, <2>7
    <3> QED
      BY <1>3, <1>8, <3>2, <3>3
  <2> QED
    BY <1>1, <2>1, <2>2, <2>8 DEF ScanInv, Scanned, AnswersReference, DependsOn, empty
<1>12. CASE Pair("*", "/") /\ depth # 1
  <2>1. mode' = "block" /\ at' = at + 2 /\ depth' = depth - 1
    BY <1>1, <1>12 DEF Block, Go, Pair, More
  <2>2. at < Len(sql) /\ CloseAt(sql, at)
    BY <1>12 DEF Pair, CloseAt
  <2>3. ~Balanced(sql, i, at)
    BY <1>1, <1>3, <1>5, <1>7, <1>12, <2>2
  <2>4. \A c \in closes : c < at + 2 => c < at \/ c = at
    BY <1>1, <1>4, <1>7, <2>2
  <2>5. /\ depth' = opened(at') - closed(at') /\ depth' > 0
        /\ i + 2 <= at' /\ ~Taken(sql, i)[at' - 1] /\ OpenAt(sql, i) /\ IsEmpty(sql) = empty[i]
    <3>1. at <= Len(sql) /\ at \in Int /\ (at + 2) - 1 = at + 1
      BY <1>1, <2>2
    <3>2. ~Taken(sql, i)[at' - 1] /\ i + 2 <= at'
      BY <1>3, <1>7, <2>1, <2>2, <3>1
    <3>3. /\ opened(at) \in Nat /\ closed(at) \in Nat
          /\ opened(at + 2) = opened(at) /\ closed(at + 2) = closed(at) + 1
      BY <1>7, <2>2, <3>1
    <3>4. depth' = opened(at + 2) - closed(at + 2) /\ depth' > 0
      <4>1. depth = opened(at) - closed(at) /\ depth > 1
        BY <1>3, <1>12, <3>3
      <4> QED
        BY <2>1, <3>3, <4>1
    <3>5. opened(at') = opened(at + 2) /\ closed(at') = closed(at + 2)
      BY <2>1
    <3> QED
      BY <1>3, <3>2, <3>4, <3>5
  <2>6. \A c \in closes : c < at' => ~Balanced(sql, i, c)
    BY <1>3, <2>1, <2>3, <2>4
  <2>7. InBlock(i)'
    BY <1>1, <2>5, <2>6 DEF InBlock, DependsOn, empty, opened, closed, closes
  <2> QED
    BY <1>1, <1>3, <1>12, <2>1, <2>2, <2>7 DEF ScanInv, Scanned, AnswersReference
<1>13. CASE More /\ ~Pair("/", "*") /\ ~Pair("*", "/")
  <2>1. mode' = "block" /\ at' = at + 1 /\ depth' = depth
    BY <1>1, <1>13 DEF Block, Go
  <2>2. at <= Len(sql) /\ ~Mark(sql, at)
    BY <1>13 DEF More, Pair, Mark, OpenAt, CloseAt
  <2>3. \A c \in closes : c < at + 1 => c < at
    BY <1>1, <1>4, <1>7, <2>2
  <2>4. InBlock(i)'
    BY <1>1, <1>3, <1>7, <2>1, <2>2, <2>3 DEF InBlock, DependsOn, empty, opened, closed, closes
  <2> QED
    BY <1>1, <2>1, <2>2, <2>4 DEF ScanInv, Scanned, AnswersReference
<1> QED
  BY <1>9, <1>10, <1>11, <1>12, <1>13

LEMMA ScanStep == ScanInv /\ [ConversionNext]_<<vars, error, stream, input>> => ScanInv'
<1> SUFFICES ASSUME ScanInv, [ConversionNext]_<<vars, error, stream, input>> PROVE ScanInv'
  OBVIOUS
<1>1. CASE UNCHANGED vars
  BY <1>1 DEF vars, ScanInv, Scanned, InLine, InBlock, DependsOn, AnswersReference
<1>2. Text \/ Line \/ Block \/ UNCHANGED vars
  BY DEF ConversionNext, Next, Done
<1> QED
  BY <1>1, <1>2, TextKeeps, LineKeeps, BlockKeeps

\* is_empty_query answers a query of any length as the reference does: comments
\* nested to any depth, marks that share characters, and a comment left open.
THEOREM ScannerAnswersTheReference == ConversionSpec => []AnswersReference
<1>1. ScanInv => AnswersReference
  BY DEF ScanInv
<1> QED
  BY <1>1, ScanInit, ScanStep, PTL DEF ConversionSpec

=============================================================================
