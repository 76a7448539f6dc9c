--------------------------- MODULE RowStreamProofs ---------------------------
(***************************************************************************)
(* The rows of a response reach the client in order, completely and as it  *)
(* reads them, for rows of any number and size that the frames can carry.  *)
(***************************************************************************)
EXTENDS RowStream, TLAPS

-----------------------------------------------------------------------------
(* The operators *)

LEMMA BoundedSeqFacts ==
  ASSUME NEW S, NEW n \in Nat, NEW s
  PROVE  s \in BoundedSeq(S, n) <=> s \in Seq(S) /\ Len(s) <= n
<1>1. ASSUME s \in BoundedSeq(S, n) PROVE s \in Seq(S) /\ Len(s) <= n
  <2> PICK m \in 0..n : s \in [1..m -> S]
    BY <1>1 DEF BoundedSeq, SeqOf
  <2> QED
    OBVIOUS
<1>2. ASSUME s \in Seq(S), Len(s) <= n PROVE s \in BoundedSeq(S, n)
  <2>1. Len(s) \in 0..n /\ s \in [1..Len(s) -> S]
    BY <1>2
  <2> QED
    BY <2>1 DEF BoundedSeq, SeqOf
<1> QED
  BY <1>1, <1>2

LEMMA RowFacts ==
  ASSUME NEW row \in Rows
  PROVE  /\ row \in Seq(Sizes \cup {Null}) /\ row # Bad
         /\ Len(row) \in Nat /\ DOMAIN row = 1..Len(row)
         /\ \A i \in DOMAIN row : row[i] \in Nat \/ row[i] = Null
<1>1. row \in Seq(Sizes \cup {Null})
  BY BoundedSeqFacts, WidthAssumption DEF Rows
<1>2. \A i \in DOMAIN row : row[i] \in Sizes \cup {Null}
  BY <1>1
<1>3. row # Bad
  <2> SUFFICES ASSUME row = <<-2>> PROVE FALSE
    BY DEF Bad
  <2>1. 1 \in DOMAIN row /\ row[1] = -2
    OBVIOUS
  <2> QED
    BY <1>2, <2>1, WidthAssumption DEF Null
<1>4. Len(row) \in Nat /\ DOMAIN row = 1..Len(row)
  BY <1>1
<1>5. \A i \in DOMAIN row : row[i] \in Nat \/ row[i] = Null
  BY <1>2, WidthAssumption
<1> QED
  BY <1>1, <1>3, <1>4, <1>5

\* What a two's complement integer of any width can say.
LEMMA SignedRange ==
  ASSUME NEW n \in Nat, NEW half \in Nat \ {0}
  PROVE  Signed(n, half) \in (-half)..(half - 1) /\ (n < half => Signed(n, half) = n)
<1> DEFINE b == 2 * half
<1> DEFINE m == n % b
<1> DEFINE q == n \div b
<1>1. b \in Nat \ {0}
  OBVIOUS
<1> HIDE DEF b
<1>2. m \in 0..(b - 1) /\ q \in Int /\ n = b * q + m
  BY <1>1, Z3
<1>3. n < half => m = n
  <2> SUFFICES ASSUME n < b PROVE m = n
    BY DEF b
  <2>1. CASE q >= 1
    BY <1>1, <1>2, <2>1, Z3
  <2>2. CASE q <= -1
    BY <1>1, <1>2, <2>2, Z3
  <2>3. CASE q = 0
    BY <1>1, <1>2, <2>3
  <2> QED
    BY <1>2, <2>1, <2>2, <2>3
<1> HIDE DEF m
<1>4. Signed(n, half) = IF m < half THEN m ELSE m - 2 * half
  BY DEF Signed, m, b
<1> QED
  BY <1>1, <1>2, <1>3, <1>4 DEF b

\* A row that fits is read as it was, NULLs included.
LEMMA EncodedRowIsRead ==
  ASSUME NEW row \in Rows, Len(row) < Half, \A j \in DOMAIN row : row[j] < HalfLength
  PROVE  Reads(Encode(row), row)
<1>1. Encode(row).count = Len(row)
  BY RowFacts, SignedRange, WidthAssumption DEF Encode
<1>2. Len(Encode(row).body) = Len(row)
  BY RowFacts DEF Encode
<1>3. ASSUME NEW i \in DOMAIN row
      PROVE  /\ Encode(row).body[i].length = row[i]
             /\ Encode(row).body[i].bytes = IF row[i] = Null THEN 0 ELSE row[i]
  <2>1. CASE row[i] = Null
    BY <2>1 DEF Encode, Null
  <2>2. CASE row[i] # Null
    <3>1. row[i] \in Nat /\ Signed(row[i], HalfLength) = row[i]
      BY <2>2, RowFacts, SignedRange, WidthAssumption
    <3> QED
      BY <2>2, <3>1 DEF Encode
  <2> QED
    BY <2>1, <2>2
<1> QED
  BY <1>1, <1>2, <1>3 DEF Reads

-----------------------------------------------------------------------------
(* The inductive invariant *)

Kinds ==
    /\ kind \in {"query", "stream"} /\ ending \in {"stop", "raise"} /\ rows \in BOOLEAN
    /\ phase \in {"pulling", "awaiting", "suspended", "complete", "error", "closed"}
    /\ items \in Seq(Rows \cup {Bad}) /\ Len(items) <= MaxRows
    /\ kind = "query" => ending = "stop" /\ items \in Seq(Rows) /\ phase # "awaiting"

\* What was written is what was pulled, but for an item that was not a row.
Written ==
    /\ sent \in Seq({Encode(row) : row \in Rows})
    /\ \A i \in 1..Len(sent) : items[i] \in Rows /\ sent[i] = Encode(items[i])
Counts ==
    /\ pulled \in 0..Len(items) /\ Len(sent) <= pulled /\ pulled <= Len(sent) + 1
    /\ phase \in {"pulling", "awaiting", "suspended", "complete"} => pulled = Len(sent)
    /\ fetched \in 0..Len(sent) /\ max \in 0..MaxFetch
    /\ phase = "suspended" => fetched = max /\ max > 0
    /\ phase = "complete" => ending = "stop" /\ pulled = Len(items)
StreamInv == Kinds /\ Written /\ Counts

LEMMA StreamInit == RowsInit => StreamInv
<1> SUFFICES ASSUME RowsInit PROVE StreamInv
  OBVIOUS
<1>1. Kinds
  <2>1. CASE kind = "query"
    <3>1. items \in Seq(Rows) /\ Len(items) <= MaxRows
      BY <2>1, BoundedSeqFacts, WidthAssumption DEF RowsInit
    <3>2. items \in Seq(Rows \cup {Bad})
      BY <3>1
    <3> QED
      BY <2>1, <3>1, <3>2 DEF RowsInit, Kinds
  <2>2. CASE kind = "stream"
    <3>1. items \in Seq(Rows \cup {Bad}) /\ Len(items) <= MaxRows
      BY <2>2, BoundedSeqFacts, WidthAssumption DEF RowsInit
    <3> QED
      BY <2>2, <3>1 DEF RowsInit, Kinds
  <2> QED
    BY <2>1, <2>2 DEF RowsInit
<1>2. Len(items) \in Nat
  BY <1>1 DEF Kinds
<1>3. Written /\ Counts
  BY <1>2 DEF RowsInit, Written, Counts
<1> QED
  BY <1>1, <1>3 DEF StreamInv

\* Python is asked for one more item, and pgwire writes it.
LEMMA WriteKeeps ==
  ASSUME StreamInv, phase \in {"pulling", "awaiting"}, pulled < Len(items), pulled' = pulled + 1,
         items[pulled'] \in Rows, Write(items[pulled']), UNCHANGED <<python, rows>>
  PROVE  StreamInv'
<1> USE DEF StreamInv, Write, python
<1>1. /\ pulled \in Nat /\ Len(items) \in Nat /\ Len(sent) = pulled /\ Len(sent) \in Nat
      /\ sent \in Seq({Encode(row) : row \in Rows}) /\ fetched \in 0..Len(sent)
  BY DEF Kinds, Written, Counts
<1>2. /\ sent' \in Seq({Encode(row) : row \in Rows}) /\ Len(sent') = Len(sent) + 1
      /\ sent'[pulled'] = Encode(items[pulled'])
      /\ \A i \in 1..Len(sent) : sent'[i] = sent[i]
  BY <1>1
<1>3. Kinds'
  BY DEF Kinds
<1>4. Written'
  BY <1>1, <1>2 DEF Written
<1>5. Counts'
  BY <1>1, <1>2 DEF Counts
<1> QED
  BY <1>3, <1>4, <1>5

LEMMA StreamStep == StreamInv /\ [RowsNext]_stream => StreamInv'
<1> SUFFICES ASSUME StreamInv, [RowsNext]_stream PROVE StreamInv'
  OBVIOUS
<1>0. /\ pulled \in Nat /\ Len(items) \in Nat /\ Len(sent) \in Nat
      /\ \A i \in 1..Len(items) : items[i] \in Rows \cup {Bad}
      /\ kind = "query" => \A i \in 1..Len(items) : items[i] \in Rows
  BY DEF StreamInv, Kinds, Written, Counts
<1>1. CASE NextOfList
  <2>1. CASE pulled < Len(items)
    <3>1. pulled' = pulled + 1 /\ pulled' \in 1..Len(items)
      BY <1>0, <1>1, <2>1 DEF NextOfList
    <3>2. items[pulled'] \in Rows
      BY <1>0, <1>1, <3>1 DEF NextOfList
    <3> QED
      BY <1>1, <2>1, <3>1, <3>2, WriteKeeps DEF NextOfList
  <2>2. CASE ~(pulled < Len(items))
    <3>1. /\ phase = "pulling" /\ phase' = "complete" /\ kind = "query"
          /\ UNCHANGED <<kind, items, ending, rows, pulled, sent, fetched, max>>
      BY <1>1, <2>2 DEF NextOfList, python
    <3> QED
      BY <1>0, <2>2, <3>1 DEF StreamInv, Kinds, Written, Counts
  <2> QED
    BY <2>1, <2>2
<1>2. CASE CallAnext
  BY <1>2 DEF CallAnext, Raised, python, StreamInv, Kinds, Written, Counts
<1>3. CASE ItemReturned
  <2>1. pulled' = pulled + 1 /\ pulled' \in 1..Len(items) /\ items[pulled'] \in Rows \cup {Bad}
    BY <1>0, <1>3 DEF ItemReturned
  <2>2. CASE items[pulled'] = Bad
    <3>1. /\ phase = "awaiting" /\ phase' = "error" /\ rows' = FALSE
          /\ UNCHANGED <<kind, items, ending, sent, fetched, max>>
      BY <1>3, <2>2 DEF ItemReturned, Raised, python
    <3>2. Kinds' /\ Written'
      BY <3>1 DEF StreamInv, Kinds, Written
    <3>3. Counts'
      BY <1>0, <2>1, <3>1 DEF StreamInv, Counts
    <3> QED
      BY <3>2, <3>3 DEF StreamInv
  <2>3. CASE items[pulled'] # Bad
    BY <1>3, <2>1, <2>3, WriteKeeps DEF ItemReturned
  <2> QED
    BY <2>2, <2>3
<1>4. CASE IterationEnded
  BY <1>0, <1>4 DEF IterationEnded, Raised, python, StreamInv, Kinds, Written, Counts
<1>5. CASE Resume
  BY <1>0, <1>5 DEF Resume, python, StreamInv, Kinds, Written, Counts
<1>6. CASE Drop
  BY <1>6 DEF Drop, python, StreamInv, Kinds, Written, Counts
<1>7. CASE Ended \/ UNCHANGED stream
  BY <1>7 DEF Ended, stream, python, StreamInv, Kinds, Written, Counts
<1> QED
  BY <1>1, <1>2, <1>3, <1>4, <1>5, <1>6, <1>7 DEF RowsNext

LEMMA StreamInvariant == RowsSpec => []StreamInv
  BY StreamInit, StreamStep, PTL DEF RowsSpec

-----------------------------------------------------------------------------
(* Theorems *)

\* encode_data_row's counts stay in an i16, and no Execute passes on more rows
\* than Python has.
THEOREM StreamTypes == RowsSpec => []RowsTypeOK
<1>1. StreamInv => RowsTypeOK
  <2> SUFFICES ASSUME StreamInv PROVE RowsTypeOK
    OBVIOUS
  <2>1. /\ Len(sent) \in Nat /\ Len(items) \in Nat /\ DOMAIN sent = 1..Len(sent)
        /\ fetched \in Nat /\ MaxRows \in Nat /\ pulled \in Nat
    BY WidthAssumption DEF StreamInv, Kinds, Written, Counts
  <2>2. ASSUME NEW i \in DOMAIN sent PROVE sent[i].count \in (-Half)..(Half - 1)
    <3>1. items[i] \in Rows /\ sent[i] = Encode(items[i])
      BY <2>1 DEF StreamInv, Written
    <3>2. sent[i].count = Signed(Len(items[i]), Half) /\ Len(items[i]) \in Nat
      BY <3>1, RowFacts DEF Encode
    <3> QED
      BY <3>2, SignedRange, WidthAssumption
  <2>3. fetched \in 0..MaxRows /\ Len(sent) <= Len(items)
    <3>1. fetched \in 0..Len(sent) /\ Len(sent) <= pulled /\ pulled \in 0..Len(items)
      BY DEF StreamInv, Counts
    <3>2. Len(items) <= MaxRows
      BY DEF StreamInv, Kinds
    <3> QED
      BY <2>1, <3>1, <3>2
  <2>4. /\ kind \in {"query", "stream"} /\ ending \in {"stop", "raise"} /\ rows \in BOOLEAN
        /\ phase \in {"pulling", "awaiting", "suspended", "complete", "error", "closed"}
        /\ items \in Seq(Rows \cup {Bad}) /\ Len(items) <= MaxRows
    BY DEF StreamInv, Kinds
  <2>5. pulled \in 0..Len(items) /\ max \in 0..MaxFetch
    BY DEF StreamInv, Counts
  <2> QED
    BY <2>2, <2>3, <2>4, <2>5 DEF RowsTypeOK
<1> QED
  BY <1>1, StreamInvariant, PTL

\* Over any number of Executes every row is written once, in its place, and
\* read as Python gave it.
THEOREM RowsArriveInOrder == RowsSpec => []RowsInOrder
<1>1. StreamInv => RowsInOrder
  <2> SUFFICES ASSUME StreamInv PROVE RowsInOrder
    OBVIOUS
  <2>1. Len(sent) <= pulled /\ DOMAIN sent = 1..Len(sent)
    BY DEF StreamInv, Written, Counts
  <2>2. \A i \in DOMAIN sent : items[i] \in Rows /\ sent[i] = Encode(items[i])
    BY <2>1 DEF StreamInv, Written
  <2> QED
    BY <2>1, <2>2, RowFacts, EncodedRowIsRead DEF RowsInOrder
<1> QED
  BY <1>1, StreamInvariant, PTL

\* CommandComplete is sent only after the last row, and never over an error.
THEOREM CompletionIsHonest == RowsSpec => []CompleteMeansAll
<1>1. StreamInv => CompleteMeansAll
  BY DEF StreamInv, Counts, CompleteMeansAll
<1> QED
  BY <1>1, StreamInvariant, PTL

=============================================================================
