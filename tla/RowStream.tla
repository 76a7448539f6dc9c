------------------------------ MODULE RowStream ------------------------------
(***************************************************************************)
(* The rows of one Response.query or Response.stream on their way from     *)
(* Python to the client: the unfold over the async iterator in into_pg,    *)
(* encode_data_row, and pgwire, which pulls a row when it can write it and *)
(* suspends a portal after max_rows of them.                               *)
(* Pulling a row and writing it are one step: nothing comes between them   *)
(* but a drop, after which nobody sees the row.                            *)
(*                                                                         *)
(* A row is a sequence of cells; a cell is its number of bytes, or Null.   *)
(***************************************************************************)
EXTENDS Integers, Sequences, SequencesExt

CONSTANTS
    Sizes,      \* the sizes in bytes of the values Python produces
    MaxColumns, \* bound on the cells of a row
    Half,       \* 2^15: the number of cells is framed as i16
    HalfLength, \* 2^31: the size of a value is framed as i32
    MaxRows,    \* bound on the rows Python produces
    MaxFetch    \* bound on the max_rows of an Execute

ASSUME WidthAssumption ==
    /\ Sizes \subseteq Nat /\ MaxColumns \in Nat
    /\ Half \in Nat \ {0} /\ HalfLength \in Nat \ {0}
    /\ MaxRows \in Nat /\ MaxFetch \in Nat

VARIABLES
    kind,      \* query (a list) or stream (an async iterator)
    items,     \* what Python yields: rows, or something that is not a row
    ending,    \* how it ends: StopAsyncIteration or another exception
    pulled,    \* items taken from Python
    rows,      \* the unfold state is Some(rows)
    sent,      \* the DataRows written
    phase,     \* pulling, awaiting __anext__, suspended, complete, error, closed
    fetched, max   \* rows of this Execute, and its max_rows (0: no limit)

stream == <<kind, items, ending, pulled, rows, sent, phase, fetched, max>>
python == <<kind, items, ending>>

Null == -1
Bad == <<-2>>     \* not a list of bytes or None
Rows == BoundedSeq(Sizes \cup {Null}, MaxColumns)

\* n as an integer of twice half values.  (The mutant has no sign.)
Unsigned(n, half) == n % (2 * half)
Signed(n, half) == LET m == n % (2 * half) IN IF m < half THEN m ELSE m - 2 * half

\* encode_data_row: the number of cells, and in front of each value its size.
\* What is left of a body is the frames and bytes a client has yet to read.
\* (The mutant leaves a NULL out.)
EncodeSkipping(row) ==
    LET values == SelectSeq(row, LAMBDA cell : cell # Null) IN
    [count |-> Signed(Len(row), Half),
     body |-> [i \in DOMAIN values |-> [length |-> Signed(values[i], HalfLength), bytes |-> values[i]]]]
Encode(row) ==
    [count |-> Signed(Len(row), Half),
     body |-> [i \in DOMAIN row |->
                 IF row[i] = Null
                   THEN [length |-> -1, bytes |-> 0]
                   ELSE [length |-> Signed(row[i], HalfLength), bytes |-> row[i]]]]

RowsTypeOK ==
    /\ kind \in {"query", "stream"} /\ ending \in {"stop", "raise"}
    /\ items \in Seq(Rows \cup {Bad}) /\ Len(items) <= MaxRows
    /\ pulled \in 0..Len(items) /\ rows \in BOOLEAN
    /\ Len(sent) <= Len(items)
    /\ \A i \in DOMAIN sent : sent[i].count \in (-Half)..(Half - 1)
    /\ phase \in {"pulling", "awaiting", "suspended", "complete", "error", "closed"}
    /\ fetched \in 0..MaxRows /\ max \in 0..MaxFetch

\* The rows of a query are checked when Python builds the response.
RowsInit ==
    /\ \/ kind = "query" /\ ending = "stop" /\ items \in BoundedSeq(Rows, MaxRows)
       \/ /\ kind = "stream" /\ ending \in {"stop", "raise"}
          /\ items \in BoundedSeq(Rows \cup {Bad}, MaxRows)
    /\ pulled = 0 /\ rows = TRUE /\ sent = <<>>
    /\ phase = "pulling" /\ fetched = 0 /\ max \in 0..MaxFetch

-----------------------------------------------------------------------------

\* pgwire writes the row it pulled, and suspends the portal at max_rows.
Write(row) ==
    /\ sent' = Append(sent, Encode(row)) /\ fetched' = fetched + 1
    /\ phase' = IF fetched' = max THEN "suspended" ELSE "pulling"
    /\ UNCHANGED max

\* The stream yields an error, and after it nothing.
Raised == phase' = "error" /\ rows' = FALSE /\ UNCHANGED <<sent, fetched, max>>

\* A list is iterated in place.
NextOfList ==
    /\ kind = "query" /\ phase = "pulling"
    /\ IF pulled < Len(items)
         THEN pulled' = pulled + 1 /\ Write(items[pulled'])
         ELSE phase' = "complete" /\ UNCHANGED <<pulled, sent, fetched, max>>
    /\ UNCHANGED <<python, rows>>

\* __anext__ is called; it may raise at once.
CallAnext ==
    /\ kind = "stream" /\ phase = "pulling" /\ rows
    /\ \/ phase' = "awaiting" /\ UNCHANGED <<rows, sent, fetched, max>>
       \/ Raised
    /\ UNCHANGED <<python, pulled>>

\* The awaitable returned the next item, a row or not.
ItemReturned ==
    /\ phase = "awaiting" /\ pulled < Len(items)
    /\ pulled' = pulled + 1
    /\ IF items[pulled'] = Bad THEN Raised ELSE Write(items[pulled']) /\ UNCHANGED rows
    /\ UNCHANGED python

\* It raised: StopAsyncIteration ends the rows, anything else is an error.
\* (The mutant takes every exception for the end.)
AlwaysStopped ==
    /\ phase = "awaiting" /\ pulled = Len(items)
    /\ phase' = "complete" /\ UNCHANGED <<rows, sent, fetched, max>>
    /\ UNCHANGED <<python, pulled>>
IterationEnded ==
    /\ phase = "awaiting" /\ pulled = Len(items)
    /\ \/ ending = "stop" /\ phase' = "complete" /\ UNCHANGED <<rows, sent, fetched, max>>
       \/ ending = "raise" /\ Raised
    /\ UNCHANGED <<python, pulled>>

\* The next Execute of a suspended portal goes on with the same stream.
Resume ==
    /\ phase = "suspended"
    /\ phase' = "pulling" /\ fetched' = 0 /\ max' \in 0..MaxFetch
    /\ UNCHANGED <<python, pulled, rows, sent>>

\* The portal is closed, or the connection ends: the stream is dropped.
Drop ==
    /\ phase \in {"pulling", "awaiting", "suspended"}
    /\ phase' = "closed" /\ UNCHANGED <<python, pulled, rows, sent, fetched, max>>

Ended == phase \in {"complete", "error", "closed"} /\ UNCHANGED stream

RowsNext ==
    \/ NextOfList \/ CallAnext \/ ItemReturned \/ IterationEnded
    \/ Resume \/ Drop \/ Ended

RowsSpec == RowsInit /\ [][RowsNext]_stream

-----------------------------------------------------------------------------
(* Properties *)

\* What a client reads: as many cells as the count says, each after a length
\* that says how many bytes it has, or -1 for NULL.
Reads(data, row) ==
    /\ data.count = Len(row) /\ Len(data.body) = Len(row)
    /\ \A i \in DOMAIN row :
         /\ data.body[i].length = row[i]
         /\ data.body[i].bytes = IF row[i] = Null THEN 0 ELSE row[i]

\* Over any number of Executes the client gets the rows in the order Python
\* yielded them, none twice and none left out; and reads what Python put into
\* each that fits: fewer than 2^15 cells, of less than 2^31 bytes.
RowsInOrder ==
    /\ Len(sent) <= pulled
    /\ \A i \in DOMAIN sent :
         /\ items[i] # Bad
         /\ Len(items[i]) < Half /\ (\A j \in DOMAIN items[i] : items[i][j] < HalfLength)
              => Reads(sent[i], items[i])

\* CommandComplete is the end of the iteration: all rows were written, and the
\* iterator neither raised nor yielded something that is not a row.
CompleteMeansAll ==
    phase = "complete" => ending = "stop" /\ Len(sent) = Len(items)

=============================================================================
