------------------------------- MODULE ScramText -------------------------------
(***************************************************************************)
(* How scram_verifier.rs takes apart the text of a stored verifier and the *)
(* two messages of a client.                                               *)
(*                                                                         *)
(* A text is a sequence of tokens: the separators and attribute names the  *)
(* code looks for, the digits 0 and 9, and words.  In base64 the word      *)
(* "salt" is 12 bytes, "key" 32 bytes and its padding, "bare" neither; the *)
(* few digits of these texts are never a group of base64.                  *)
(***************************************************************************)
EXTENDS Integers, Sequences, SequencesExt, FiniteSetsExt

CONSTANT MaxIterations    \* u32::MAX

\* str::split_once, rsplit_once and split, for texts that have the separator.
Before(s, d) == SubSeq(s, 1, SelectInSeq(s, LAMBDA t : t = d) - 1)
After(s, d) == SubSeq(s, SelectInSeq(s, LAMBDA t : t = d) + 1, Len(s))
Rest(s) == SubSeq(s, 2, Len(s))
Starts(s, d) == s # <<>> /\ Head(s) = d
Part(s) == IF Contains(s, ",") THEN Before(s, ",") ELSE s

-----------------------------------------------------------------------------
(* PyScramVerifier::parse and new *)

\* str::parse::<u32> and base64, as a number of bytes; -1 is an error.
Digit(t) == IF t = "9" THEN 9 ELSE 0
Number(s) ==
    LET n == FoldLeft(LAMBDA v, t : 10 * v + Digit(t), 0, s) IN
    IF s # <<>> /\ ToSet(s) \subseteq {"0", "9"} /\ n <= MaxIterations THEN n ELSE -1
Bytes(s) ==
    IF ToSet(s) \subseteq {"salt", "key"} /\ "key" \notin ToSet(SubSeq(s, 1, Len(s) - 1))
      THEN FoldLeft(LAMBDA n, t : n + (IF t = "key" THEN 32 ELSE 12), 0, s) ELSE -1

VerifierFields(text) ==
    LET rest == Rest(text)
        params == Before(rest, "$")
        keys == After(rest, "$")
    IN  [iterations |-> Before(params, ":"), salt |-> After(params, ":"),
         stored |-> Before(keys, ":"), server |-> After(keys, ":")]

VerifierLegal(v) ==
    /\ Number(v.iterations) > 0 /\ Bytes(v.salt) > 0
    /\ Bytes(v.stored) = 32 /\ Bytes(v.server) = 32

VerifierParses(text) ==
    /\ Starts(text, "SCRAM-SHA-256$") /\ Contains(Rest(text), "$")
    /\ Contains(Before(Rest(text), "$"), ":") /\ Contains(After(Rest(text), "$"), ":")
    /\ VerifierLegal(VerifierFields(text))

-----------------------------------------------------------------------------
(* ClientFirst::parse *)

\* gs2_header and bare keep the bytes as they are.
FirstFields(message) ==
    LET rest == After(message, ",")
        bare == After(rest, ",")
    IN  [flag |-> Before(message, ","), authzid |-> Before(rest, ","), bare |-> bare,
         gs2_header |-> SubSeq(message, 1, Len(message) - Len(bare)),
         nonce |-> Rest(Part(After(bare, ",")))]

FirstParses(message) ==
    /\ Contains(message, ",") /\ Contains(After(message, ","), ",")
    /\ LET f == FirstFields(message)
           attributes == After(f.bare, ",")
       IN  /\ f.authzid = <<>> \/ Starts(f.authzid, "a=")
           /\ Starts(Part(f.bare), "n=") /\ Contains(f.bare, ",")
           /\ Starts(Part(attributes), "r=") /\ f.nonce # <<>>

-----------------------------------------------------------------------------
(* Exchange::verify *)

\* The proof follows the last ",p=".  (The mutant takes the first.)
Proofs(message) == {i \in 1..(Len(message) - 1) : message[i] = "," /\ message[i + 1] = "p="}
FirstProof(message) == IF Proofs(message) = {} THEN 0 ELSE Min(Proofs(message))
ProofAt(message) == Max(Proofs(message) \cup {0})

FinalFields(message) ==
    LET without_proof == SubSeq(message, 1, ProofAt(message) - 1) IN
    [without_proof |-> without_proof,
     channel_binding |-> Rest(Part(without_proof)),
     nonce |-> Rest(Part(After(without_proof, ","))),
     proof |-> SubSeq(message, ProofAt(message) + 2, Len(message))]

FinalParses(message) ==
    /\ ProofAt(message) > 0
    /\ LET without_proof == FinalFields(message).without_proof IN
       /\ Starts(Part(without_proof), "c=") /\ Contains(without_proof, ",")
       /\ Starts(Part(After(without_proof, ",")), "r=")
    /\ Bytes(FinalFields(message).proof) = 32

-----------------------------------------------------------------------------
(* The reference: all ways to read a text by its grammar, each a choice of *)
(* the separators that cut it.  The code must find the one there is.       *)

Between(s, i, j) == SubSeq(s, i + 1, j - 1)
Commas(s) == {i \in DOMAIN s : s[i] = ","}
Adjacent(s, i, j) == i < j /\ ~Contains(Between(s, i, j), ",")

\* SCRAM-SHA-256$<iterations>:<salt>$<StoredKey>:<ServerKey>
Verifiers(text) ==
    LET cuts == {k \in (DOMAIN text) \X (DOMAIN text) \X (DOMAIN text) :
            /\ 1 < k[1] /\ k[1] < k[2] /\ k[2] < k[3] /\ text[1] = "SCRAM-SHA-256$"
            /\ text[k[1]] = ":" /\ text[k[2]] = "$" /\ text[k[3]] = ":"}
        read(k) == [iterations |-> Between(text, 1, k[1]), salt |-> Between(text, k[1], k[2]),
            stored |-> Between(text, k[2], k[3]), server |-> Between(text, k[3], Len(text) + 1)]
    IN  {v \in {read(k) : k \in cuts} : VerifierLegal(v)}

\* RFC 5802: flag "," ["a=" authzid] "," "n=" user "," "r=" nonce ["," extensions]
Firsts(message) ==
    LET commas == Commas(message)
        cuts == {k \in commas \X commas \X commas \X (commas \cup {Len(message) + 1}) :
            /\ Adjacent(message, 0, k[1]) /\ Adjacent(message, k[1], k[2])
            /\ Adjacent(message, k[2], k[3]) /\ Adjacent(message, k[3], k[4])
            /\ k[2] = k[1] + 1 \/ message[k[1] + 1] = "a="
            /\ message[k[2] + 1] = "n=" /\ k[3] + 2 < k[4] /\ message[k[3] + 1] = "r="}
    IN  {[flag |-> Between(message, 0, k[1]), authzid |-> Between(message, k[1], k[2]),
          bare |-> Between(message, k[2], Len(message) + 1),
          gs2_header |-> SubSeq(message, 1, k[2]),
          nonce |-> Between(message, k[3] + 1, k[4])] : k \in cuts}

\* "c=" channel-binding "," "r=" nonce ["," extensions] "," "p=" proof
Finals(message) ==
    LET commas == Commas(message)
        cuts == {k \in commas \X commas \X commas :
            /\ Adjacent(message, 0, k[1]) /\ Adjacent(message, k[1], k[2]) /\ k[2] <= k[3]
            /\ message[1] = "c=" /\ message[k[1] + 1] = "r="
            /\ k[3] < Len(message) /\ message[k[3] + 1] = "p="}
        read(k) == [without_proof |-> SubSeq(message, 1, k[3] - 1),
            channel_binding |-> Between(message, 1, k[1]),
            nonce |-> Between(message, k[1] + 1, k[2]),
            proof |-> Between(message, k[3] + 1, Len(message) + 1)]
    IN  {f \in {read(k) : k \in cuts} : Bytes(f.proof) = 32}

=============================================================================
