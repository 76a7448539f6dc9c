---------------------------- MODULE ScramTextProofs ----------------------------
(***************************************************************************)
(* scram_verifier.rs reads every text as its grammar does: a verifier and  *)
(* the messages of a client, of any length.                                *)
(***************************************************************************)
EXTENDS ScramText, SequenceTheorems, WellFoundedInduction, TLAPS

-----------------------------------------------------------------------------
(* The least and the greatest of some positions *)

LEMMA LeastExists ==
  ASSUME NEW T, T \subseteq Nat, T # {}
  PROVE  Min(T) \in T /\ \A y \in T : Min(T) <= y
<1>1. \E x \in T : \A y \in T : x <= y
  <2>1. IsWellFoundedOn(OpToRel(<, Nat), Nat)
    BY NatLessThanWellFounded
  <2>2. \E x \in T : \A y \in T : ~ (<<y, x>> \in OpToRel(<, Nat))
    BY <2>1, WFMin
  <2>3. ASSUME NEW x \in T, NEW y \in T, ~ (<<y, x>> \in OpToRel(<, Nat)) PROVE x <= y
    BY <2>3 DEF OpToRel
  <2> QED
    BY <2>2, <2>3
<1> QED
  BY <1>1 DEF Min

LEMMA GreatestExists ==
  ASSUME NEW n \in Nat, NEW T, T \subseteq 0..n, T # {}
  PROVE  Max(T) \in T /\ \A y \in T : Max(T) >= y
<1> DEFINE below == {n - x : x \in T}
<1>1. below \subseteq Nat /\ below # {}
  <2>1. \A x \in T : n - x \in Nat
    OBVIOUS
  <2> QED
    BY <2>1
<1>2. Min(below) \in below /\ \A y \in below : Min(below) <= y
  BY <1>1, LeastExists
<1>3. PICK x \in T : Min(below) = n - x
  BY <1>2
<1>4. \A y \in T : x >= y
  BY <1>2, <1>3
<1> QED
  BY <1>4 DEF Max

-----------------------------------------------------------------------------
(* Slices of a text *)

\* A name for the comma, by which the provers tell it from punctuation.
Comma == ","

\* A token is a string.  The second set is part of the first: the provers do
\* not know of a literal that it is a string.
Token ==
    STRING \cup {Comma, "SCRAM-SHA-256$", ":", "$", "0", "9", "salt", "key", "bare",
                 "n=", "r=", "a=", "m=", "c=", "p="}
TokenSeq == Seq(Token)

\* A slice from a to b, which may be empty.
Within(s, a, b) == 1 <= a /\ a <= b + 1 /\ b <= Len(s)

LEMMA SliceFacts ==
  ASSUME NEW s \in TokenSeq, NEW a \in Int, NEW b \in Int, Within(s, a, b)
  PROVE  /\ SubSeq(s, a, b) \in TokenSeq /\ Len(SubSeq(s, a, b)) = b - a + 1
         /\ \A i \in 1..(b - a + 1) : SubSeq(s, a, b)[i] = s[a + i - 1]
         /\ Len(s) \in Nat /\ a \in Int /\ b \in Int
<1>1. \A i \in a..b : s[i] \in Token
  BY DEF Within, TokenSeq
<1> QED
  BY <1>1, SubSeqProperties DEF Within, TokenSeq

LEMMA SliceOfSlice ==
  ASSUME NEW s \in TokenSeq, NEW a \in Int, NEW b \in Int, Within(s, a, b),
         NEW i \in Int, NEW j \in Int, 1 <= i, i <= j + 1, j <= b - a + 1
  PROVE  SubSeq(SubSeq(s, a, b), i, j) = SubSeq(s, a + i - 1, a + j - 1)
<1> DEFINE u == SubSeq(s, a, b)
<1> DEFINE c == a + i - 1
<1> DEFINE d == a + j - 1
<1>1. /\ u \in TokenSeq /\ Len(u) = b - a + 1 /\ a \in Int /\ b \in Int
      /\ \A k \in 1..(b - a + 1) : u[k] = s[a + k - 1]
  BY SliceFacts
<1> HIDE DEF u
<1>2. Within(u, i, j) /\ Within(s, c, d) /\ c \in Int /\ d \in Int
  <2>1. Within(u, i, j)
    BY <1>1 DEF Within
  <2>2. Len(s) \in Nat /\ 1 <= a /\ b <= Len(s) /\ s \in TokenSeq
    BY SliceFacts DEF Within
  <2>3. c \in Int /\ d \in Int /\ 1 <= c /\ c <= d + 1 /\ d <= b
    BY <1>1, <2>2
  <2>4. d <= Len(s)
    BY <1>1, <2>2, <2>3
  <2> QED
    BY <2>1, <2>2, <2>3, <2>4 DEF Within
<1>3. /\ SubSeq(u, i, j) \in TokenSeq /\ Len(SubSeq(u, i, j)) = j - i + 1
      /\ \A k \in 1..(j - i + 1) : SubSeq(u, i, j)[k] = u[i + k - 1]
  BY <1>1, <1>2, SliceFacts
<1>4. /\ SubSeq(s, c, d) \in TokenSeq /\ Len(SubSeq(s, c, d)) = j - i + 1
      /\ \A k \in 1..(j - i + 1) : SubSeq(s, c, d)[k] = s[c + k - 1]
  <2>1. d - c + 1 = j - i + 1
    BY <1>1
  <2>2. /\ SubSeq(s, c, d) \in TokenSeq /\ Len(SubSeq(s, c, d)) = d - c + 1
        /\ \A k \in 1..(d - c + 1) : SubSeq(s, c, d)[k] = s[c + k - 1]
    <3> HIDE DEF c, d
    <3> QED
      BY <1>2, SliceFacts
  <2> QED
    BY <2>1, <2>2
<1>5. \A k \in 1..(j - i + 1) : SubSeq(u, i, j)[k] = SubSeq(s, c, d)[k]
  <2>1. ASSUME NEW k \in 1..(j - i + 1) PROVE u[i + k - 1] = s[c + k - 1]
    <3>1. i + k - 1 \in 1..(b - a + 1) /\ a + (i + k - 1) - 1 = c + k - 1
      BY <1>1
    <3> QED
      BY <1>1, <3>1
  <2> QED
    BY <1>3, <1>4, <2>1
<1> HIDE DEF c, d
<1>6. SubSeq(u, i, j) = SubSeq(s, c, d)
  BY <1>3, <1>4, <1>5, SeqEqual DEF TokenSeq
<1> QED
  BY <1>6 DEF u, c, d

\* What comes before and after a position.
LEMMA SliceCut ==
  ASSUME NEW s \in TokenSeq, NEW a \in Int, NEW b \in Int, Within(s, a, b), NEW k \in a..(b + 1)
  PROVE  /\ SubSeq(SubSeq(s, a, b), 1, k - a) = SubSeq(s, a, k - 1)
         /\ SubSeq(SubSeq(s, a, b), k - a + 1, b - a + 1) = SubSeq(s, k, b)
<1>1. SubSeq(SubSeq(s, a, b), 1, k - a) = SubSeq(s, a, k - 1)
  <2> DEFINE i == 1
  <2> DEFINE j == k - a
  <2>1. i \in Int /\ j \in Int /\ 1 <= i /\ i <= j + 1 /\ j <= b - a + 1
    OBVIOUS
  <2>2. a + i - 1 = a /\ a + j - 1 = k - 1
    OBVIOUS
  <2> HIDE DEF i, j
  <2>3. SubSeq(SubSeq(s, a, b), i, j) = SubSeq(s, a + i - 1, a + j - 1)
    BY <2>1, SliceOfSlice
  <2> QED
    BY <2>2, <2>3 DEF i, j
<1>2. SubSeq(SubSeq(s, a, b), k - a + 1, b - a + 1) = SubSeq(s, k, b)
  <2> DEFINE i == k - a + 1
  <2> DEFINE j == b - a + 1
  <2>1. i \in Int /\ j \in Int /\ 1 <= i /\ i <= j + 1 /\ j <= b - a + 1
    OBVIOUS
  <2>2. a + i - 1 = k /\ a + j - 1 = b
    OBVIOUS
  <2> HIDE DEF i, j
  <2>3. SubSeq(SubSeq(s, a, b), i, j) = SubSeq(s, a + i - 1, a + j - 1)
    BY <2>1, SliceOfSlice
  <2> QED
    BY <2>2, <2>3 DEF i, j
<1> QED
  BY <1>1, <1>2

LEMMA SliceContains ==
  ASSUME NEW s \in TokenSeq, NEW a \in Int, NEW b \in Int, Within(s, a, b), NEW d
  PROVE  Contains(SubSeq(s, a, b), d) <=> \E k \in a..b : s[k] = d
<1> DEFINE u == SubSeq(s, a, b)
<1>1. /\ u \in TokenSeq /\ Len(u) = b - a + 1 /\ a \in Int /\ b \in Int
      /\ \A k \in 1..(b - a + 1) : u[k] = s[a + k - 1]
  BY SliceFacts
<1> HIDE DEF u
<1>2. ASSUME NEW k \in 1..Len(u), u[k] = d PROVE \E l \in a..b : s[l] = d
  <2>1. a + k - 1 \in a..b
    BY <1>1
  <2> QED
    BY <1>1, <1>2, <2>1
<1>3. ASSUME NEW k \in a..b, s[k] = d PROVE \E l \in 1..Len(u) : u[l] = d
  <2>1. k - a + 1 \in 1..Len(u) /\ a + (k - a + 1) - 1 = k
    BY <1>1
  <2> QED
    BY <1>1, <1>3, <2>1
<1>4. Contains(u, d) <=> \E k \in a..b : s[k] = d
  BY <1>2, <1>3 DEF Contains
<1> QED
  BY <1>4 DEF u

\* A text that is not empty begins with its first token; Rest leaves it out.
LEMMA SliceHead ==
  ASSUME NEW s \in TokenSeq, NEW a \in Int, NEW b \in Int, Within(s, a, b)
  PROVE  /\ SubSeq(s, a, b) = <<>> <=> b < a
         /\ \A d : Starts(SubSeq(s, a, b), d) <=> a <= b /\ s[a] = d
         /\ a <= b => Rest(SubSeq(s, a, b)) = SubSeq(s, a + 1, b)
<1> DEFINE u == SubSeq(s, a, b)
<1>1. /\ u \in TokenSeq /\ Len(u) = b - a + 1 /\ a \in Int /\ b \in Int
      /\ \A k \in 1..(b - a + 1) : u[k] = s[a + k - 1]
  BY SliceFacts
<1>2. a <= b => Rest(u) = SubSeq(s, a + 1, b)
  <2> SUFFICES ASSUME a <= b PROVE Rest(u) = SubSeq(s, a + 1, b)
    OBVIOUS
  <2> DEFINE k == a + 1
  <2>1. k \in a..(b + 1) /\ k - a + 1 = 2
    BY <1>1
  <2> HIDE DEF k
  <2>2. SubSeq(u, k - a + 1, b - a + 1) = SubSeq(s, k, b)
    BY <2>1, SliceCut
  <2> QED
    BY <1>1, <2>1, <2>2 DEF Rest, k
<1> HIDE DEF u
<1>3. u = <<>> <=> b < a
  <2>1. ASSUME b < a PROVE u = <<>>
    <3>1. Len(u) = 0
      BY <1>1, <2>1 DEF Within
    <3> QED
      BY <1>1, <3>1, EmptySeq DEF TokenSeq
  <2>2. ASSUME u = <<>> PROVE b < a
    <3>1. Len(u) = 0
      BY <2>2
    <3> QED
      BY <1>1, <3>1
  <2> QED
    BY <2>1, <2>2
<1>4. ASSUME a <= b PROVE Head(u) = s[a]
  <2>1. 1 \in 1..(b - a + 1) /\ a + 1 - 1 = a
    BY <1>1, <1>4
  <2>2. u[1] = s[a]
    BY <1>1, <2>1
  <2> QED
    BY <2>2, <1>1
<1>5. \A d : Starts(u, d) <=> a <= b /\ s[a] = d
  BY <1>1, <1>3, <1>4 DEF Starts
<1> QED
  BY <1>2, <1>3, <1>5 DEF u

\* Where split_once finds the separator d, from a on.
FirstAt(s, a, k, d) == s[k] = d /\ \A j \in a..(k - 1) : s[j] # d

LEMMA FirstExists ==
  ASSUME NEW s, NEW a \in Int, NEW b \in Int, 1 <= a, NEW d, \E k \in a..b : s[k] = d
  PROVE  \E k \in Int : a <= k /\ k <= b /\ FirstAt(s, a, k, d)
<1> DEFINE T == {k \in a..b : s[k] = d}
<1>1. T \subseteq Nat /\ T # {}
  OBVIOUS
<1>2. Min(T) \in T /\ \A y \in T : Min(T) <= y
  BY <1>1, LeastExists
<1>3. FirstAt(s, a, Min(T), d)
  BY <1>2 DEF FirstAt
<1> QED
  BY <1>2, <1>3

\* There is one such place.
LEMMA FirstIsUnique ==
  ASSUME NEW s, NEW a \in Int, NEW d, NEW k \in Int, NEW l \in Int, a <= k, a <= l,
         FirstAt(s, a, k, d), FirstAt(s, a, l, d)
  PROVE  k = l
  BY DEF FirstAt

LEMMA SplitOnce ==
  ASSUME NEW s \in TokenSeq, NEW a \in Int, NEW b \in Int, Within(s, a, b), NEW d,
         NEW k \in Int, a <= k, k <= b, FirstAt(s, a, k, d)
  PROVE  /\ Contains(SubSeq(s, a, b), d)
         /\ Before(SubSeq(s, a, b), d) = SubSeq(s, a, k - 1)
         /\ After(SubSeq(s, a, b), d) = SubSeq(s, k + 1, b)
<1> DEFINE u == SubSeq(s, a, b)
<1> DEFINE p == k - a + 1
<1> DEFINE I == {i \in 1..Len(u) : u[i] = d}
<1>1. /\ u \in TokenSeq /\ Len(u) = b - a + 1
      /\ \A i \in 1..(b - a + 1) : u[i] = s[a + i - 1]
      /\ s[k] = d /\ \A j \in a..(k - 1) : s[j] # d
  BY SliceFacts DEF FirstAt
<1>2. SubSeq(u, 1, k - a) = SubSeq(s, a, k - 1)
  BY SliceCut
<1>3. SubSeq(u, k - a + 2, b - a + 1) = SubSeq(s, k + 1, b)
  <2> DEFINE l == k + 1
  <2>1. l \in a..(b + 1) /\ l - a + 1 = k - a + 2
    OBVIOUS
  <2> HIDE DEF l
  <2>2. SubSeq(u, l - a + 1, b - a + 1) = SubSeq(s, l, b)
    BY <2>1, SliceCut
  <2> QED
    BY <2>1, <2>2 DEF l
<1> HIDE DEF u
<1>4. p \in I
  <2>1. p \in 1..(b - a + 1) /\ a + p - 1 = k
    OBVIOUS
  <2> QED
    BY <1>1, <2>1
<1>5. ASSUME NEW i \in I PROVE p <= i
  <2>1. i \in 1..(b - a + 1) /\ s[a + i - 1] = d
    BY <1>1
  <2>2. ~ (a + i - 1 \in a..(k - 1))
    BY <1>1, <2>1
  <2> QED
    BY <2>1, <2>2
<1>6. I \subseteq Nat
  OBVIOUS
<1>7. Min(I) = p
  <2>1. Min(I) \in I /\ \A y \in I : Min(I) <= y
    BY <1>4, <1>6, LeastExists
  <2>2. Min(I) <= p /\ p <= Min(I) /\ Min(I) \in Int
    BY <1>4, <1>5, <2>1
  <2> QED
    BY <2>2
<1>8. SelectInSeq(u, LAMBDA t : t = d) = p
  BY <1>4, <1>7 DEF SelectInSeq
<1>9. Before(u, d) = SubSeq(u, 1, p - 1) /\ After(u, d) = SubSeq(u, p + 1, Len(u))
  BY <1>8 DEF Before, After
<1>10. p - 1 = k - a /\ p + 1 = k - a + 2
  OBVIOUS
<1>11. Contains(u, d)
  BY <1>4 DEF Contains
<1> QED
  BY <1>1, <1>2, <1>3, <1>9, <1>10, <1>11 DEF u

LEMMA PartByName ==
  /\ \A s : Part(s) = IF Contains(s, Comma) THEN Before(s, Comma) ELSE s
  /\ Comma \notin {"0", "9", "salt", "key", "bare", "a=", "n=", "r=", "c=", "p="}
  BY Zenon DEF Part, Comma

\* The end of the part that begins at a: the next comma, or the end of the text.
EndAt(s, a, b, k) ==
    /\ a <= k /\ k <= b + 1
    /\ k <= b => s[k] = Comma
    /\ \A j \in a..(k - 1) : s[j] # Comma

LEMMA SlicePart ==
  ASSUME NEW s \in TokenSeq, NEW a \in Int, NEW b \in Int, Within(s, a, b),
         NEW k \in Int, EndAt(s, a, b, k)
  PROVE  Part(SubSeq(s, a, b)) = SubSeq(s, a, k - 1)
<1>1. CASE k <= b
  <2>1. a <= k /\ FirstAt(s, a, k, Comma)
    BY <1>1 DEF EndAt, FirstAt
  <2> QED
    BY <1>1, <2>1, SplitOnce, PartByName
<1>2. CASE k = b + 1
  <2>1. k - 1 = b
    BY <1>2
  <2>2. ~ \E j \in a..b : s[j] = Comma
    BY <2>1 DEF EndAt
  <2>3. ~ Contains(SubSeq(s, a, b), Comma)
    BY <2>2, SliceContains
  <2> QED
    BY <2>1, <2>3, PartByName
<1> QED
  BY <1>1, <1>2 DEF EndAt

LEMMA LegalWords ==
  ASSUME NEW s
  PROVE  /\ Number(s) > 0 => ToSet(s) \subseteq {"0", "9"}
         /\ Bytes(s) > 0 \/ Bytes(s) = 32 => ToSet(s) \subseteq {"salt", "key"}
<1>1. ASSUME ~ (ToSet(s) \subseteq {"0", "9"}) PROVE Number(s) = -1
  BY <1>1, Zenon DEF Number
<1>2. ASSUME ~ (ToSet(s) \subseteq {"salt", "key"}) PROVE Bytes(s) = -1
  BY <1>2, Zenon DEF Bytes
<1> QED
  BY <1>1, <1>2

LEMMA WordsOfSlice ==
  ASSUME NEW s \in TokenSeq, NEW a \in Int, NEW b \in Int, Within(s, a, b),
         NEW T, ToSet(SubSeq(s, a, b)) \subseteq T
  PROVE  \A j \in a..b : s[j] \in T
<1> SUFFICES ASSUME NEW j \in a..b PROVE s[j] \in T
  OBVIOUS
<1> DEFINE u == SubSeq(s, a, b)
<1>1. /\ u \in TokenSeq /\ Len(u) = b - a + 1
      /\ \A i \in 1..(b - a + 1) : u[i] = s[a + i - 1]
  BY SliceFacts
<1> HIDE DEF u
<1>2. j - a + 1 \in 1..(b - a + 1) /\ a + (j - a + 1) - 1 = j
  OBVIOUS
<1>3. u[j - a + 1] = s[j] /\ j - a + 1 \in DOMAIN u
  BY <1>1, <1>2 DEF TokenSeq
<1> QED
  BY <1>3 DEF ToSet, u

-----------------------------------------------------------------------------
(* Stored verifiers *)

VerifierCut(t, i, j, k) ==
    [iterations |-> Between(t, 1, i), salt |-> Between(t, i, j),
     stored |-> Between(t, j, k), server |-> Between(t, k, Len(t) + 1)]

\* Three separators, each the first of its kind where the code looks for it.
VerifierCuts(t, i, j, k) ==
    /\ 1 < i /\ i < j /\ j < k /\ k <= Len(t) /\ t[1] = "SCRAM-SHA-256$"
    /\ FirstAt(t, 2, i, ":") /\ FirstAt(t, 2, j, "$") /\ FirstAt(t, j + 1, k, ":")

LEMMA VerifierSplit ==
  ASSUME NEW t \in TokenSeq, NEW i \in Int, NEW j \in Int, NEW k \in Int, VerifierCuts(t, i, j, k)
  PROVE  /\ Starts(t, "SCRAM-SHA-256$") /\ Contains(Rest(t), "$")
         /\ Contains(Before(Rest(t), "$"), ":") /\ Contains(After(Rest(t), "$"), ":")
         /\ VerifierFields(t) = VerifierCut(t, i, j, k)
<1>n. PICK n \in Int : n = Len(t)
  BY DEF TokenSeq
<1>a. PICK a \in Int : a = j + 1
  OBVIOUS
<1>b. PICK b \in Int : b = j - 1
  OBVIOUS
<1>0. Rest(t) = SubSeq(t, 2, n)
  BY <1>n DEF Rest
<1>1. Starts(t, "SCRAM-SHA-256$")
  <2>1. t # <<>>
    BY EmptySeq DEF TokenSeq, VerifierCuts
  <2> QED
    BY <2>1 DEF Starts, TokenSeq, VerifierCuts
<1>2. Within(t, 2, n) /\ 2 <= j /\ j <= n /\ FirstAt(t, 2, j, "$")
  BY <1>n DEF Within, VerifierCuts
<1>3. /\ Contains(SubSeq(t, 2, n), "$") /\ Before(SubSeq(t, 2, n), "$") = SubSeq(t, 2, j - 1)
      /\ After(SubSeq(t, 2, n), "$") = SubSeq(t, j + 1, n)
  BY <1>2, SplitOnce
<1>4. Within(t, 2, b) /\ 2 <= i /\ i <= b /\ FirstAt(t, 2, i, ":")
  BY <1>b DEF Within, VerifierCuts
<1>5. /\ Contains(SubSeq(t, 2, b), ":") /\ Before(SubSeq(t, 2, b), ":") = SubSeq(t, 2, i - 1)
      /\ After(SubSeq(t, 2, b), ":") = SubSeq(t, i + 1, b)
  BY <1>4, SplitOnce
<1>6. Within(t, a, n) /\ a <= k /\ k <= n /\ FirstAt(t, a, k, ":")
  BY <1>n, <1>a DEF Within, VerifierCuts
<1>7. /\ Contains(SubSeq(t, a, n), ":") /\ Before(SubSeq(t, a, n), ":") = SubSeq(t, a, k - 1)
      /\ After(SubSeq(t, a, n), ":") = SubSeq(t, k + 1, n)
  BY <1>6, SplitOnce
<1>8. VerifierFields(t) = VerifierCut(t, i, j, k)
  <2>1. 1 + 1 = 2 /\ (n + 1) - 1 = n
    OBVIOUS
  <2>2. /\ Between(t, 1, i) = SubSeq(t, 2, i - 1) /\ Between(t, i, j) = SubSeq(t, i + 1, j - 1)
        /\ Between(t, j, k) = SubSeq(t, j + 1, k - 1)
        /\ Between(t, k, Len(t) + 1) = SubSeq(t, k + 1, n)
    BY <1>n, <2>1 DEF Between
  <2> QED
    BY <1>a, <1>b, <1>0, <1>3, <1>5, <1>7, <2>2, Zenon DEF VerifierFields, VerifierCut
<1> QED
  BY <1>a, <1>b, <1>0, <1>1, <1>3, <1>5, <1>7, <1>8

\* What the code accepts has them.
LEMMA VerifierHasCuts ==
  ASSUME NEW t \in TokenSeq, VerifierParses(t)
  PROVE  \E i, j, k \in Int : VerifierCuts(t, i, j, k)
<1>n. PICK n \in Int : n = Len(t)
  BY DEF TokenSeq
<1>t. PICK two \in Int : two = 2
  OBVIOUS
<1>p. 1 <= two
  BY <1>t
<1>0. Rest(t) = SubSeq(t, 2, n)
  BY <1>n DEF Rest
<1>1. /\ t # <<>> /\ t[1] = "SCRAM-SHA-256$"
      /\ Contains(Rest(t), "$") /\ Contains(Before(Rest(t), "$"), ":")
      /\ Contains(After(Rest(t), "$"), ":")
  BY DEF VerifierParses, Starts, TokenSeq
<1>2. Within(t, 2, n)
  BY <1>n, <1>1 DEF Within, TokenSeq
<1>3. PICK j \in Int : 2 <= j /\ j <= n /\ FirstAt(t, 2, j, "$")
  <2>1. \E l \in two..n : t[l] = "$"
    BY <1>t, <1>0, <1>1, <1>2, SliceContains
  <2>2. \E j \in Int : two <= j /\ j <= n /\ FirstAt(t, two, j, "$")
    BY <1>p, <2>1, FirstExists
  <2> QED
    BY <1>t, <2>2
<1>4. /\ Before(SubSeq(t, 2, n), "$") = SubSeq(t, 2, j - 1)
      /\ After(SubSeq(t, 2, n), "$") = SubSeq(t, j + 1, n)
  BY <1>2, <1>3, SplitOnce
<1>a. PICK a \in Int : a = j + 1
  OBVIOUS
<1>b. PICK b \in Int : b = j - 1
  OBVIOUS
<1>5. PICK i \in Int : 2 <= i /\ i <= b /\ FirstAt(t, 2, i, ":")
  <2>1. Within(t, 2, b)
    BY <1>b, <1>n, <1>3 DEF Within
  <2>2. Contains(SubSeq(t, 2, b), ":")
    BY <1>0, <1>1, <1>4, <1>b
  <2>3. \E l \in two..b : t[l] = ":"
    BY <1>t, <2>1, <2>2, SliceContains
  <2>4. \E i \in Int : two <= i /\ i <= b /\ FirstAt(t, two, i, ":")
    BY <1>p, <2>3, FirstExists
  <2> QED
    BY <1>t, <2>4
<1>6. PICK k \in Int : a <= k /\ k <= n /\ FirstAt(t, a, k, ":")
  <2>1. Within(t, a, n) /\ 1 <= a
    BY <1>a, <1>n, <1>3 DEF Within
  <2>2. Contains(SubSeq(t, a, n), ":")
    BY <1>0, <1>1, <1>4, <1>a
  <2>3. \E l \in a..n : t[l] = ":"
    BY <2>1, <2>2, SliceContains
  <2> QED
    BY <2>1, <2>3, FirstExists
<1>7. VerifierCuts(t, i, j, k)
  <2>1. 1 < i /\ i < j /\ j < k /\ k <= Len(t)
    BY <1>n, <1>a, <1>b, <1>3, <1>5, <1>6
  <2>2. FirstAt(t, j + 1, k, ":")
    BY <1>a, <1>6
  <2> QED
    BY <1>1, <1>3, <1>5, <2>1, <2>2 DEF VerifierCuts
<1> QED
  BY <1>7

\* So has what the grammar has: no number, salt or key contains a separator.
LEMMA LegalHasCuts ==
  ASSUME NEW t \in TokenSeq, NEW i \in DOMAIN t, NEW j \in DOMAIN t, NEW k \in DOMAIN t,
         1 < i, i < j, j < k, t[1] = "SCRAM-SHA-256$", t[i] = ":", t[j] = "$", t[k] = ":",
         VerifierLegal(VerifierCut(t, i, j, k))
  PROVE  VerifierCuts(t, i, j, k)
<1>n. PICK n \in Int : n = Len(t)
  BY DEF TokenSeq
<1>0. i \in Int /\ j \in Int /\ k \in Int /\ k <= n
  BY <1>n DEF TokenSeq
<1>1. /\ Number(SubSeq(t, 2, i - 1)) > 0 /\ Bytes(SubSeq(t, i + 1, j - 1)) > 0
      /\ Bytes(SubSeq(t, j + 1, k - 1)) = 32
  <2>1. 1 + 1 = 2
    OBVIOUS
  <2> QED
    BY <2>1, Zenon DEF VerifierLegal, VerifierCut, Between
<1>2. /\ Within(t, 2, i - 1) /\ Within(t, i + 1, j - 1) /\ Within(t, j + 1, k - 1)
  BY <1>n, <1>0 DEF Within
<1>3. \A l \in 2..(i - 1) : t[l] \in {"0", "9"}
  <2> PICK b \in Int : b = i - 1
    BY <1>0
  <2>1. Within(t, 2, b) /\ ToSet(SubSeq(t, 2, b)) \subseteq {"0", "9"}
    BY <1>1, <1>2, LegalWords
  <2>2. \A l \in 2..b : t[l] \in {"0", "9"}
    BY <2>1, WordsOfSlice
  <2> QED
    BY <2>2
<1>4. \A l \in (i + 1)..(j - 1) : t[l] \in {"salt", "key"}
  <2> PICK a \in Int, b \in Int : a = i + 1 /\ b = j - 1
    BY <1>0
  <2>1. Within(t, a, b) /\ ToSet(SubSeq(t, a, b)) \subseteq {"salt", "key"}
    BY <1>1, <1>2, LegalWords
  <2>2. \A l \in a..b : t[l] \in {"salt", "key"}
    BY <2>1, WordsOfSlice
  <2> QED
    BY <2>2
<1>5. \A l \in (j + 1)..(k - 1) : t[l] \in {"salt", "key"}
  <2> PICK a \in Int, b \in Int : a = j + 1 /\ b = k - 1
    BY <1>0
  <2>1. Within(t, a, b) /\ ToSet(SubSeq(t, a, b)) \subseteq {"salt", "key"}
    BY <1>1, <1>2, LegalWords
  <2>2. \A l \in a..b : t[l] \in {"salt", "key"}
    BY <2>1, WordsOfSlice
  <2> QED
    BY <2>2
<1>6. FirstAt(t, 2, i, ":") /\ FirstAt(t, j + 1, k, ":")
  BY <1>3, <1>5 DEF FirstAt
<1>7. FirstAt(t, 2, j, "$")
  <2> SUFFICES ASSUME NEW l \in 2..(j - 1) PROVE t[l] # "$"
    BY DEF FirstAt
  <2>1. l \in 2..(i - 1) \/ l = i \/ l \in (i + 1)..(j - 1)
    BY <1>0
  <2> QED
    BY <2>1, <1>3, <1>4
<1> QED
  BY <1>n, <1>0, <1>6, <1>7 DEF VerifierCuts


LEMMA VerifiersOf ==
  ASSUME NEW t, NEW v
  PROVE  v \in Verifiers(t) <=>
         \E i \in DOMAIN t, j \in DOMAIN t, k \in DOMAIN t :
            /\ 1 < i /\ i < j /\ j < k /\ t[1] = "SCRAM-SHA-256$"
            /\ t[i] = ":" /\ t[j] = "$" /\ t[k] = ":"
            /\ v = VerifierCut(t, i, j, k) /\ VerifierLegal(v)
<1> DEFINE good(i, j, k) ==
        /\ 1 < i /\ i < j /\ j < k /\ t[1] = "SCRAM-SHA-256$"
        /\ t[i] = ":" /\ t[j] = "$" /\ t[k] = ":"
<1> DEFINE cuts == {k \in (DOMAIN t) \X (DOMAIN t) \X (DOMAIN t) : good(k[1], k[2], k[3])}
<1>1. Verifiers(t) = {w \in {VerifierCut(t, k[1], k[2], k[3]) : k \in cuts} : VerifierLegal(w)}
  BY Zenon DEF Verifiers, VerifierCut
<1> HIDE DEF good
<1>2. \A i, j, k : <<i, j, k>> \in cuts <=>
        i \in DOMAIN t /\ j \in DOMAIN t /\ k \in DOMAIN t /\ good(i, j, k)
  OBVIOUS
<1>3. \A k \in cuts : k = <<k[1], k[2], k[3]>>
  OBVIOUS
<1> HIDE DEF cuts
<1>4. ASSUME v \in Verifiers(t)
      PROVE  \E i \in DOMAIN t, j \in DOMAIN t, k \in DOMAIN t :
                good(i, j, k) /\ v = VerifierCut(t, i, j, k) /\ VerifierLegal(v)
  <2>1. PICK k \in cuts : v = VerifierCut(t, k[1], k[2], k[3]) /\ VerifierLegal(v)
    BY <1>1, <1>4, Zenon
  <2>2. /\ k[1] \in DOMAIN t /\ k[2] \in DOMAIN t /\ k[3] \in DOMAIN t
        /\ good(k[1], k[2], k[3])
    BY <1>2, <1>3, Zenon
  <2> QED
    BY <2>1, <2>2
<1>5. ASSUME NEW i \in DOMAIN t, NEW j \in DOMAIN t, NEW k \in DOMAIN t,
             good(i, j, k), v = VerifierCut(t, i, j, k), VerifierLegal(v)
      PROVE  v \in Verifiers(t)
  <2>1. <<i, j, k>> \in cuts
    BY <1>2, <1>5
  <2>2. <<i, j, k>>[1] = i /\ <<i, j, k>>[2] = j /\ <<i, j, k>>[3] = k
    OBVIOUS
  <2>3. v \in {VerifierCut(t, l[1], l[2], l[3]) : l \in cuts}
    BY <1>5, <2>1, <2>2
  <2> QED
    BY <1>1, <1>5, <2>3
<1> QED
  BY <1>4, <1>5, Zenon DEF good

\* PyScramVerifier::parse finds the one reading of a stored verifier.
THEOREM VerifiersAreRead ==
  ASSUME NEW t \in TokenSeq
  PROVE  Verifiers(t) = IF VerifierParses(t) THEN {VerifierFields(t)} ELSE {}
<1>1. ASSUME VerifierParses(t) PROVE VerifierFields(t) \in Verifiers(t)
  <2>1. PICK i \in Int, j \in Int, k \in Int : VerifierCuts(t, i, j, k)
    BY <1>1, VerifierHasCuts
  <2>2. VerifierFields(t) = VerifierCut(t, i, j, k)
    BY <2>1, VerifierSplit
  <2>3. VerifierLegal(VerifierFields(t))
    BY <1>1 DEF VerifierParses
  <2>4. /\ i \in DOMAIN t /\ j \in DOMAIN t /\ k \in DOMAIN t
        /\ 1 < i /\ i < j /\ j < k /\ t[1] = "SCRAM-SHA-256$"
        /\ t[i] = ":" /\ t[j] = "$" /\ t[k] = ":"
    BY <2>1 DEF VerifierCuts, FirstAt, TokenSeq
  <2> QED
    BY <2>2, <2>3, <2>4, VerifiersOf
<1>2. ASSUME NEW v \in Verifiers(t) PROVE VerifierParses(t) /\ v = VerifierFields(t)
  <2>1. PICK i \in DOMAIN t, j \in DOMAIN t, k \in DOMAIN t :
            /\ 1 < i /\ i < j /\ j < k /\ t[1] = "SCRAM-SHA-256$"
            /\ t[i] = ":" /\ t[j] = "$" /\ t[k] = ":"
            /\ v = VerifierCut(t, i, j, k) /\ VerifierLegal(v)
    BY VerifiersOf
  <2>2. VerifierCuts(t, i, j, k) /\ i \in Int /\ j \in Int /\ k \in Int
    BY <2>1, LegalHasCuts DEF TokenSeq
  <2>3. /\ Starts(t, "SCRAM-SHA-256$") /\ Contains(Rest(t), "$")
        /\ Contains(Before(Rest(t), "$"), ":") /\ Contains(After(Rest(t), "$"), ":")
        /\ VerifierFields(t) = VerifierCut(t, i, j, k)
    BY <2>2, VerifierSplit
  <2> QED
    BY <2>1, <2>3 DEF VerifierParses
<1> QED
  BY <1>1, <1>2


-----------------------------------------------------------------------------
(* The first message of a client *)

LEMMA EndExists ==
  ASSUME NEW s, NEW a \in Int, NEW b \in Int, 1 <= a, a <= b + 1
  PROVE  \E k \in Int : EndAt(s, a, b, k)
<1>1. CASE \E k \in a..b : s[k] = Comma
  <2>1. PICK k \in Int : a <= k /\ k <= b /\ FirstAt(s, a, k, Comma)
    BY <1>1, FirstExists
  <2> QED
    BY <2>1 DEF FirstAt, EndAt
<1>2. CASE ~ \E k \in a..b : s[k] = Comma
  <2>1. EndAt(s, a, b, b + 1)
    BY <1>2 DEF EndAt
  <2> QED
    BY <2>1
<1> QED
  BY <1>1, <1>2

LEMMA AdjacentIs ==
  ASSUME NEW s \in TokenSeq, NEW a \in Int, NEW b \in Int, 0 <= a, b <= Len(s) + 1
  PROVE  Adjacent(s, a, b) <=> a < b /\ \A j \in (a + 1)..(b - 1) : s[j] # Comma
<1> PICK c \in Int, d \in Int : c = a + 1 /\ d = b - 1
  OBVIOUS
<1>1. a < b => Within(s, c, d)
  BY DEF Within, TokenSeq
<1>2. a < b => (Contains(SubSeq(s, c, d), Comma) <=> \E k \in c..d : s[k] = Comma)
  BY <1>1, SliceContains
<1>3. Adjacent(s, a, b) <=> a < b /\ ~Contains(SubSeq(s, c, d), Comma)
  BY Zenon DEF Adjacent, Between, Comma
<1> QED
  BY <1>2, <1>3

\* A comma is adjacent to an earlier position when it is the first after it.
LEMMA AdjacentComma ==
  ASSUME NEW s \in TokenSeq, NEW a \in Int, NEW b \in Int, 0 <= a, b <= Len(s), s[b] = Comma
  PROVE  Adjacent(s, a, b) <=> a < b /\ FirstAt(s, a + 1, b, Comma)
<1>1. b <= Len(s) + 1
  BY DEF TokenSeq
<1>2. Adjacent(s, a, b) <=> a < b /\ \A j \in (a + 1)..(b - 1) : s[j] # Comma
  BY <1>1, AdjacentIs
<1> QED
  BY <1>2 DEF FirstAt

LEMMA CommasAre ==
  ASSUME NEW s \in TokenSeq, NEW q
  PROVE  q \in Commas(s) <=> q \in Int /\ 1 <= q /\ q <= Len(s) /\ s[q] = Comma
<1>1. Commas(s) = {k \in DOMAIN s : s[k] = Comma}
  BY Zenon DEF Commas, Comma
<1> QED
  BY <1>1 DEF TokenSeq

FirstRead(m, i, j, k, l) ==
    [flag |-> Between(m, 0, i), authzid |-> Between(m, i, j),
     bare |-> Between(m, j, Len(m) + 1), gs2_header |-> SubSeq(m, 1, j),
     nonce |-> Between(m, k + 1, l)]

\* Three commas, the first ones, and the end of the attribute after them.
FirstCuts(m, i, j, k, l) ==
    /\ 1 <= i /\ i < j /\ j < k /\ k <= Len(m)
    /\ FirstAt(m, 1, i, Comma) /\ FirstAt(m, i + 1, j, Comma) /\ FirstAt(m, j + 1, k, Comma)
    /\ EndAt(m, k + 1, Len(m), l)

\* What the grammar asks of the attributes between them.
FirstWords(m, i, j, k, l) ==
    /\ j = i + 1 \/ m[i + 1] = "a="
    /\ m[j + 1] = "n=" /\ k + 2 < l /\ m[k + 1] = "r="

\* The code and the grammar of a first message, with a name for the comma.
LEMMA FirstByName ==
  ASSUME NEW m
  PROVE  /\ FirstFields(m) =
              [flag |-> Before(m, Comma), authzid |-> Before(After(m, Comma), Comma),
               bare |-> After(After(m, Comma), Comma),
               gs2_header |-> SubSeq(m, 1, Len(m) - Len(After(After(m, Comma), Comma))),
               nonce |-> Rest(Part(After(After(After(m, Comma), Comma), Comma)))]
         /\ FirstParses(m) <=>
              /\ Contains(m, Comma) /\ Contains(After(m, Comma), Comma)
              /\ FirstFields(m).authzid = <<>> \/ Starts(FirstFields(m).authzid, "a=")
              /\ Starts(Part(FirstFields(m).bare), "n=") /\ Contains(FirstFields(m).bare, Comma)
              /\ Starts(Part(After(FirstFields(m).bare, Comma)), "r=")
              /\ FirstFields(m).nonce # <<>>
<1>1. FirstFields(m) =
        [flag |-> Before(m, Comma), authzid |-> Before(After(m, Comma), Comma),
         bare |-> After(After(m, Comma), Comma),
         gs2_header |-> SubSeq(m, 1, Len(m) - Len(After(After(m, Comma), Comma))),
         nonce |-> Rest(Part(After(After(After(m, Comma), Comma), Comma)))]
  BY Zenon DEF FirstFields, Comma
<1>2. FirstParses(m) <=>
        /\ Contains(m, Comma) /\ Contains(After(m, Comma), Comma)
        /\ FirstFields(m).authzid = <<>> \/ Starts(FirstFields(m).authzid, "a=")
        /\ Starts(Part(FirstFields(m).bare), "n=") /\ Contains(FirstFields(m).bare, Comma)
        /\ Starts(Part(After(FirstFields(m).bare, Comma)), "r=")
        /\ FirstFields(m).nonce # <<>>
  BY Zenon DEF FirstParses, Comma
<1> QED
  BY <1>1, <1>2, Zenon


LEMMA FirstSplit ==
  ASSUME NEW m \in TokenSeq, NEW i \in Int, NEW j \in Int, NEW k \in Int, NEW l \in Int,
         FirstCuts(m, i, j, k, l)
  PROVE  /\ Contains(m, Comma) /\ Contains(After(m, Comma), Comma)
         /\ Contains(After(After(m, Comma), Comma), Comma)
         /\ Before(m, Comma) = SubSeq(m, 1, i - 1)
         /\ Before(After(m, Comma), Comma) = SubSeq(m, i + 1, j - 1)
         /\ After(After(m, Comma), Comma) = SubSeq(m, j + 1, Len(m))
         /\ Part(SubSeq(m, j + 1, Len(m))) = SubSeq(m, j + 1, k - 1)
         /\ After(SubSeq(m, j + 1, Len(m)), Comma) = SubSeq(m, k + 1, Len(m))
         /\ Part(SubSeq(m, k + 1, Len(m))) = SubSeq(m, k + 1, l - 1)
<1>n. PICK n \in Int : n = Len(m)
  BY DEF TokenSeq
<1>o. PICK o \in Int : o = 1
  OBVIOUS
<1>a. PICK a \in Int : a = i + 1
  OBVIOUS
<1>b. PICK b \in Int : b = j + 1
  OBVIOUS
<1>c. PICK c \in Int : c = k + 1
  OBVIOUS
<1>0. SubSeq(m, o, n) = m
  BY <1>n, <1>o, SubSeqFull DEF TokenSeq
<1>1. Within(m, o, n) /\ o <= i /\ i <= n /\ FirstAt(m, o, i, Comma)
  BY <1>n, <1>o DEF FirstCuts, Within
<1>2. Within(m, a, n) /\ a <= j /\ j <= n /\ FirstAt(m, a, j, Comma)
  BY <1>n, <1>a DEF FirstCuts, Within
<1>3. Within(m, b, n) /\ b <= k /\ k <= n /\ FirstAt(m, b, k, Comma)
  BY <1>n, <1>b DEF FirstCuts, Within
<1>4. Within(m, c, n) /\ EndAt(m, c, n, l)
  BY <1>n, <1>c DEF FirstCuts, Within
<1>5. EndAt(m, b, n, k)
  BY <1>3 DEF FirstAt, EndAt
<1>6. /\ Contains(m, Comma) /\ Before(m, Comma) = SubSeq(m, o, i - 1)
      /\ After(m, Comma) = SubSeq(m, i + 1, n)
  <2>1. /\ Contains(SubSeq(m, o, n), Comma)
        /\ Before(SubSeq(m, o, n), Comma) = SubSeq(m, o, i - 1)
        /\ After(SubSeq(m, o, n), Comma) = SubSeq(m, i + 1, n)
    BY <1>1, SplitOnce
  <2> QED
    BY <1>0, <2>1, Zenon
<1>7. /\ Contains(SubSeq(m, a, n), Comma) /\ Before(SubSeq(m, a, n), Comma) = SubSeq(m, a, j - 1)
      /\ After(SubSeq(m, a, n), Comma) = SubSeq(m, j + 1, n)
  BY <1>2, SplitOnce
<1>8. Contains(SubSeq(m, b, n), Comma) /\ After(SubSeq(m, b, n), Comma) = SubSeq(m, k + 1, n)
  BY <1>3, SplitOnce
<1>9. Part(SubSeq(m, b, n)) = SubSeq(m, b, k - 1)
  BY <1>3, <1>5, SlicePart
<1>10. Part(SubSeq(m, c, n)) = SubSeq(m, c, l - 1)
  BY <1>4, SlicePart
<1>11. After(m, Comma) = SubSeq(m, a, n)
  BY <1>a, <1>6
<1>12. After(After(m, Comma), Comma) = SubSeq(m, b, n)
  BY <1>b, <1>7, <1>11
<1>13. After(SubSeq(m, b, n), Comma) = SubSeq(m, c, n)
  BY <1>c, <1>8
<1>14. /\ Contains(m, Comma) /\ Contains(After(m, Comma), Comma)
       /\ Contains(After(After(m, Comma), Comma), Comma)
       /\ Before(m, Comma) = SubSeq(m, o, i - 1)
       /\ Before(After(m, Comma), Comma) = SubSeq(m, a, j - 1)
       /\ After(After(m, Comma), Comma) = SubSeq(m, b, n)
       /\ Part(SubSeq(m, b, n)) = SubSeq(m, b, k - 1)
       /\ After(SubSeq(m, b, n), Comma) = SubSeq(m, c, n)
       /\ Part(SubSeq(m, c, n)) = SubSeq(m, c, l - 1)
  BY <1>6, <1>7, <1>8, <1>9, <1>10, <1>11, <1>12, <1>13, Zenon
<1> QED
  BY <1>n, <1>o, <1>a, <1>b, <1>c, <1>14

\* The code takes a message apart at its cuts, and asks for the same words.
LEMMA FirstReads ==
  ASSUME NEW m \in TokenSeq, NEW i \in Int, NEW j \in Int, NEW k \in Int, NEW l \in Int,
         FirstCuts(m, i, j, k, l)
  PROVE  /\ FirstWords(m, i, j, k, l) => FirstFields(m) = FirstRead(m, i, j, k, l)
         /\ FirstParses(m) <=> FirstWords(m, i, j, k, l)
<1>n. PICK n \in Int : n = Len(m)
  BY DEF TokenSeq
<1>a. PICK a \in Int, b \in Int, c \in Int, d \in Int :
        a = i + 1 /\ b = j + 1 /\ c = k + 1 /\ d = k + 2
  OBVIOUS
<1>p. PICK p \in Int, q \in Int, r \in Int : p = j - 1 /\ q = k - 1 /\ r = l - 1
  OBVIOUS
<1>0. /\ 1 <= i /\ a <= j /\ b <= k /\ c <= l /\ l <= n + 1 /\ k <= n
      /\ m[j] = Comma /\ m[k] = Comma /\ m[i] = Comma
  BY <1>n, <1>a DEF FirstCuts, FirstAt, EndAt
<1>1. Within(m, a, p) /\ Within(m, b, n) /\ Within(m, b, q) /\ Within(m, c, r)
  BY <1>n, <1>a, <1>p, <1>0 DEF Within
<1>2. /\ Contains(m, Comma) /\ Contains(After(m, Comma), Comma)
      /\ Contains(After(After(m, Comma), Comma), Comma)
      /\ Before(m, Comma) = SubSeq(m, 1, i - 1)
      /\ Before(After(m, Comma), Comma) = SubSeq(m, a, p)
      /\ After(After(m, Comma), Comma) = SubSeq(m, b, n)
      /\ Part(SubSeq(m, b, n)) = SubSeq(m, b, q)
      /\ After(SubSeq(m, b, n), Comma) = SubSeq(m, c, n)
      /\ Part(SubSeq(m, c, n)) = SubSeq(m, c, r)
  <2>1. /\ Contains(m, Comma) /\ Contains(After(m, Comma), Comma)
        /\ Contains(After(After(m, Comma), Comma), Comma)
        /\ Before(m, Comma) = SubSeq(m, 1, i - 1)
        /\ Before(After(m, Comma), Comma) = SubSeq(m, i + 1, j - 1)
        /\ After(After(m, Comma), Comma) = SubSeq(m, j + 1, Len(m))
        /\ Part(SubSeq(m, j + 1, Len(m))) = SubSeq(m, j + 1, k - 1)
        /\ After(SubSeq(m, j + 1, Len(m)), Comma) = SubSeq(m, k + 1, Len(m))
        /\ Part(SubSeq(m, k + 1, Len(m))) = SubSeq(m, k + 1, l - 1)
    BY FirstSplit
  <2> QED
    BY <1>n, <1>a, <1>p, <2>1
<1>3. /\ SubSeq(m, a, p) = <<>> <=> p < a
      /\ Starts(SubSeq(m, a, p), "a=") <=> a <= p /\ m[a] = "a="
  BY <1>1, SliceHead
<1>4. Starts(SubSeq(m, b, q), "n=") <=> b <= q /\ m[b] = "n="
  BY <1>1, SliceHead
<1>5. /\ Starts(SubSeq(m, c, r), "r=") <=> c <= r /\ m[c] = "r="
      /\ c <= r => Rest(SubSeq(m, c, r)) = SubSeq(m, c + 1, r)
  BY <1>1, SliceHead
<1>6. Len(m) - Len(SubSeq(m, b, n)) = j
  <2>1. Len(SubSeq(m, b, n)) = n - b + 1
    BY <1>1, SliceFacts
  <2> QED
    BY <2>1, <1>n, <1>a
<1>7. c + 1 = d /\ (c <= r => Within(m, d, r))
  BY <1>n, <1>a, <1>p, <1>0 DEF Within
<1>8. c <= r => (SubSeq(m, d, r) = <<>> <=> r < d)
  BY <1>7, SliceHead
<1>9. /\ FirstFields(m).authzid = SubSeq(m, a, p) /\ FirstFields(m).bare = SubSeq(m, b, n)
      /\ FirstFields(m).nonce = Rest(SubSeq(m, c, r))
  <2>1. FirstFields(m) =
          [flag |-> Before(m, Comma), authzid |-> Before(After(m, Comma), Comma),
           bare |-> After(After(m, Comma), Comma),
           gs2_header |-> SubSeq(m, 1, Len(m) - Len(After(After(m, Comma), Comma))),
           nonce |-> Rest(Part(After(After(After(m, Comma), Comma), Comma)))]
    BY FirstByName
  <2>2. /\ FirstFields(m).authzid = Before(After(m, Comma), Comma)
        /\ FirstFields(m).bare = After(After(m, Comma), Comma)
        /\ FirstFields(m).nonce = Rest(Part(After(After(After(m, Comma), Comma), Comma)))
    BY <2>1
  <2> QED
    BY <1>2, <2>2, Zenon
<1>10. FirstParses(m) <=>
         /\ p < a \/ (a <= p /\ m[a] = "a=")
         /\ b <= q /\ m[b] = "n="
         /\ c <= r /\ m[c] = "r=" /\ d <= r
  <2>1. FirstParses(m) <=>
          /\ SubSeq(m, a, p) = <<>> \/ Starts(SubSeq(m, a, p), "a=")
          /\ Starts(SubSeq(m, b, q), "n=")
          /\ Starts(SubSeq(m, c, r), "r=") /\ Rest(SubSeq(m, c, r)) # <<>>
    BY <1>2, <1>9, FirstByName, Zenon
  <2> QED
    BY <2>1, <1>3, <1>4, <1>5, <1>7, <1>8
<1>11. FirstParses(m) <=> FirstWords(m, i, j, k, l)
  <2>1. m[j] # "a=" /\ m[k] # "n="
    BY <1>0, PartByName
  <2> QED
    BY <1>a, <1>p, <1>0, <1>10, <2>1 DEF FirstWords
<1>12. ASSUME FirstWords(m, i, j, k, l) PROVE FirstFields(m) = FirstRead(m, i, j, k, l)
  <2>1. c <= r
    BY <1>12, <1>a, <1>p DEF FirstWords
  <2>2. Rest(SubSeq(m, c, r)) = SubSeq(m, d, r)
    BY <2>1, <1>5, <1>7
  <2>3. FirstFields(m) =
          [flag |-> SubSeq(m, 1, i - 1), authzid |-> SubSeq(m, a, p), bare |-> SubSeq(m, b, n),
           gs2_header |-> SubSeq(m, 1, j), nonce |-> SubSeq(m, d, r)]
    BY <1>2, <1>6, <2>2, FirstByName, Zenon
  <2>4. /\ Between(m, 0, i) = SubSeq(m, 1, i - 1) /\ Between(m, i, j) = SubSeq(m, a, p)
        /\ Between(m, j, Len(m) + 1) = SubSeq(m, b, n)
        /\ Between(m, k + 1, l) = SubSeq(m, d, r)
    <3>1. 0 + 1 = 1 /\ (n + 1) - 1 = n /\ (k + 1) + 1 = d
      BY <1>a
    <3> QED
      BY <1>n, <1>a, <1>p, <3>1 DEF Between
  <2> QED
    BY <2>3, <2>4, Zenon DEF FirstRead
<1> QED
  BY <1>11, <1>12


LEMMA FirstHasCuts ==
  ASSUME NEW m \in TokenSeq, FirstParses(m)
  PROVE  \E i, j, k, l \in Int : FirstCuts(m, i, j, k, l)
<1>n. PICK n \in Int : n = Len(m)
  BY DEF TokenSeq
<1>o. PICK o \in Int : o = 1
  OBVIOUS
<1>p. 1 <= o
  BY <1>o
<1>0. SubSeq(m, o, n) = m
  BY <1>n, <1>o, SubSeqFull DEF TokenSeq
<1>1. /\ Contains(m, Comma) /\ Contains(After(m, Comma), Comma)
      /\ Contains(After(After(m, Comma), Comma), Comma)
  <2> DEFINE f == FirstFields(m)
  <2>1. f = [flag |-> Before(m, Comma), authzid |-> Before(After(m, Comma), Comma),
             bare |-> After(After(m, Comma), Comma),
             gs2_header |-> SubSeq(m, 1, Len(m) - Len(After(After(m, Comma), Comma))),
             nonce |-> Rest(Part(After(After(After(m, Comma), Comma), Comma)))]
    BY FirstByName
  <2>2. Contains(m, Comma) /\ Contains(After(m, Comma), Comma) /\ Contains(f.bare, Comma)
    BY FirstByName
  <2>3. f.bare = After(After(m, Comma), Comma)
    <3> HIDE DEF f
    <3> QED
      BY <2>1
  <2> QED
    BY <2>2, <2>3
<1>2. PICK i \in Int : o <= i /\ i <= n /\ FirstAt(m, o, i, Comma)
  <2>1. Within(m, o, n)
    BY <1>n, <1>o DEF Within, TokenSeq
  <2>2. Contains(SubSeq(m, o, n), Comma)
    BY <1>0, <1>1
  <2>3. \E q \in o..n : m[q] = Comma
    BY <2>1, <2>2, SliceContains
  <2> QED
    BY <1>p, <2>3, FirstExists
<1>a. PICK a \in Int : a = i + 1
  OBVIOUS
<1>3. Within(m, o, n) /\ Within(m, a, n) /\ 1 <= a
  BY <1>n, <1>o, <1>2, <1>a DEF Within
<1>4. After(m, Comma) = SubSeq(m, a, n)
  <2>1. After(SubSeq(m, o, n), Comma) = SubSeq(m, i + 1, n)
    BY <1>2, <1>3, SplitOnce
  <2> QED
    BY <1>0, <1>a, <2>1
<1>5. PICK j \in Int : a <= j /\ j <= n /\ FirstAt(m, a, j, Comma)
  <2>1. Contains(SubSeq(m, a, n), Comma)
    BY <1>1, <1>4
  <2>2. \E q \in a..n : m[q] = Comma
    BY <1>3, <2>1, SliceContains
  <2> QED
    BY <1>3, <2>2, FirstExists
<1>b. PICK b \in Int : b = j + 1
  OBVIOUS
<1>6. Within(m, b, n) /\ 1 <= b
  BY <1>n, <1>3, <1>5, <1>b DEF Within
<1>7. After(After(m, Comma), Comma) = SubSeq(m, b, n)
  <2>1. After(SubSeq(m, a, n), Comma) = SubSeq(m, j + 1, n)
    BY <1>3, <1>5, SplitOnce
  <2> QED
    BY <1>4, <1>b, <2>1
<1>8. PICK k \in Int : b <= k /\ k <= n /\ FirstAt(m, b, k, Comma)
  <2>1. Contains(SubSeq(m, b, n), Comma)
    BY <1>1, <1>7
  <2>2. \E q \in b..n : m[q] = Comma
    BY <1>6, <2>1, SliceContains
  <2> QED
    BY <1>6, <2>2, FirstExists
<1>c. PICK c \in Int : c = k + 1
  OBVIOUS
<1>9. PICK l \in Int : EndAt(m, c, n, l)
  <2>1. 1 <= c /\ c <= n + 1
    BY <1>6, <1>8, <1>c
  <2> QED
    BY <2>1, EndExists
<1>10. FirstCuts(m, i, j, k, l)
  <2>1. 1 <= i /\ i < j /\ j < k /\ k <= Len(m)
    BY <1>n, <1>o, <1>a, <1>b, <1>2, <1>5, <1>8
  <2>2. /\ FirstAt(m, 1, i, Comma) /\ FirstAt(m, i + 1, j, Comma)
        /\ FirstAt(m, j + 1, k, Comma) /\ EndAt(m, k + 1, Len(m), l)
    BY <1>n, <1>o, <1>a, <1>b, <1>c, <1>2, <1>5, <1>8, <1>9
  <2> QED
    BY <2>1, <2>2, Zenon DEF FirstCuts
<1> QED
  BY <1>10

LEMMA FirstsOf ==
  ASSUME NEW m \in TokenSeq, NEW v
  PROVE  v \in Firsts(m) <=>
         \E i, j, k, l \in Int :
            /\ FirstCuts(m, i, j, k, l) /\ FirstWords(m, i, j, k, l)
            /\ v = FirstRead(m, i, j, k, l)
<1> DEFINE C == Commas(m)
<1> DEFINE E == C \cup {Len(m) + 1}
<1> DEFINE apart(i, j, k, l) ==
        /\ Adjacent(m, 0, i) /\ Adjacent(m, i, j) /\ Adjacent(m, j, k) /\ Adjacent(m, k, l)
<1> DEFINE cuts == {k \in C \X C \X C \X E :
                      apart(k[1], k[2], k[3], k[4]) /\ FirstWords(m, k[1], k[2], k[3], k[4])}
<1>1. Firsts(m) = {FirstRead(m, k[1], k[2], k[3], k[4]) : k \in cuts}
  BY Zenon DEF Firsts, FirstRead, FirstWords
<1>2. \A q : q \in C <=> q \in Int /\ 1 <= q /\ q <= Len(m) /\ m[q] = Comma
  BY CommasAre
<1>3. Len(m) \in Nat
  BY DEF TokenSeq
<1> HIDE DEF C
<1>4. ASSUME NEW i \in C, NEW j \in C, NEW k \in C, NEW l \in E
      PROVE  apart(i, j, k, l) <=> FirstCuts(m, i, j, k, l)
  <2>1. \A q \in C : q \in Int /\ 0 <= q /\ 1 <= q /\ q <= Len(m) /\ m[q] = Comma
    BY <1>2
  <2>2. l \in Int /\ l <= Len(m) + 1 /\ (l <= Len(m) => m[l] = Comma)
    BY <1>3, <2>1
  <2> PICK o \in Int : o = 0
    OBVIOUS
  <2>3. Adjacent(m, o, i) <=> o < i /\ FirstAt(m, o + 1, i, Comma)
    <3>1. 0 <= o
      OBVIOUS
    <3> QED
      BY <2>1, <3>1, AdjacentComma
  <2>4. Adjacent(m, i, j) <=> i < j /\ FirstAt(m, i + 1, j, Comma)
    BY <2>1, AdjacentComma
  <2>5. Adjacent(m, j, k) <=> j < k /\ FirstAt(m, j + 1, k, Comma)
    BY <2>1, AdjacentComma
  <2>6. Adjacent(m, k, l) <=> EndAt(m, k + 1, Len(m), l)
    <3>1. Adjacent(m, k, l) <=> k < l /\ \A q \in (k + 1)..(l - 1) : m[q] # Comma
      BY <2>1, <2>2, AdjacentIs
    <3> QED
      BY <1>3, <2>1, <2>2, <3>1 DEF EndAt
  <2>7. o + 1 = 1 /\ o < i /\ 1 <= i /\ k <= Len(m)
    BY <2>1
  <2>8. apart(i, j, k, l) <=>
          /\ FirstAt(m, 1, i, Comma) /\ i < j /\ FirstAt(m, i + 1, j, Comma)
          /\ j < k /\ FirstAt(m, j + 1, k, Comma) /\ EndAt(m, k + 1, Len(m), l)
    BY <2>3, <2>4, <2>5, <2>6, <2>7
  <2> QED
    BY <2>7, <2>8, Zenon DEF FirstCuts
<1>5. ASSUME NEW i \in Int, NEW j \in Int, NEW k \in Int, NEW l \in Int,
             FirstCuts(m, i, j, k, l)
      PROVE  i \in C /\ j \in C /\ k \in C /\ l \in E
  <2>1. i \in C /\ j \in C /\ k \in C
    BY <1>2, <1>3, <1>5 DEF FirstCuts, FirstAt
  <2>2. CASE l <= Len(m)
    BY <1>2, <1>3, <1>5, <2>1, <2>2 DEF FirstCuts, EndAt
  <2>3. CASE l = Len(m) + 1
    BY <2>1, <2>3
  <2> QED
    BY <1>3, <1>5, <2>2, <2>3 DEF FirstCuts, EndAt
<1>6. \A q \in E : q \in Int
  BY <1>2, <1>3
<1> HIDE DEF E, apart
<1>7. \A i, j, k, l : <<i, j, k, l>> \in cuts <=>
        /\ i \in C /\ j \in C /\ k \in C /\ l \in E
        /\ apart(i, j, k, l) /\ FirstWords(m, i, j, k, l)
  OBVIOUS
<1>8. \A k \in cuts : k = <<k[1], k[2], k[3], k[4]>>
  OBVIOUS
<1> HIDE DEF cuts
<1>9. ASSUME v \in Firsts(m)
      PROVE  \E i, j, k, l \in Int :
                /\ FirstCuts(m, i, j, k, l) /\ FirstWords(m, i, j, k, l)
                /\ v = FirstRead(m, i, j, k, l)
  <2>1. PICK c \in cuts : v = FirstRead(m, c[1], c[2], c[3], c[4])
    BY <1>1, <1>9, Zenon
  <2>2. PICK i, j, k, l : c[1] = i /\ c[2] = j /\ c[3] = k /\ c[4] = l
    OBVIOUS
  <2>3. <<i, j, k, l>> \in cuts /\ v = FirstRead(m, i, j, k, l)
    BY <1>8, <2>1, <2>2, Zenon
  <2>4. /\ i \in C /\ j \in C /\ k \in C /\ l \in E
        /\ apart(i, j, k, l) /\ FirstWords(m, i, j, k, l)
    BY <1>7, <2>3, Zenon
  <2>5. i \in Int /\ j \in Int /\ k \in Int /\ l \in Int /\ FirstCuts(m, i, j, k, l)
    BY <1>2, <1>4, <1>6, <2>4
  <2> QED
    BY <2>3, <2>4, <2>5
<1>10. ASSUME NEW i \in Int, NEW j \in Int, NEW k \in Int, NEW l \in Int,
              FirstCuts(m, i, j, k, l), FirstWords(m, i, j, k, l), v = FirstRead(m, i, j, k, l)
       PROVE  v \in Firsts(m)
  <2>1. <<i, j, k, l>> \in cuts
    BY <1>4, <1>5, <1>7, <1>10
  <2>2. /\ <<i, j, k, l>>[1] = i /\ <<i, j, k, l>>[2] = j
        /\ <<i, j, k, l>>[3] = k /\ <<i, j, k, l>>[4] = l
    OBVIOUS
  <2> QED
    BY <1>1, <1>10, <2>1, <2>2
<1> QED
  BY <1>9, <1>10

\* ClientFirst::parse finds the one reading of a first message.
THEOREM FirstsAreRead ==
  ASSUME NEW m \in TokenSeq
  PROVE  Firsts(m) = IF FirstParses(m) THEN {FirstFields(m)} ELSE {}
<1>1. ASSUME FirstParses(m) PROVE FirstFields(m) \in Firsts(m)
  <2>1. PICK i \in Int, j \in Int, k \in Int, l \in Int : FirstCuts(m, i, j, k, l)
    BY <1>1, FirstHasCuts
  <2>2. FirstWords(m, i, j, k, l) /\ FirstFields(m) = FirstRead(m, i, j, k, l)
    BY <1>1, <2>1, FirstReads
  <2> QED
    BY <2>1, <2>2, FirstsOf
<1>2. ASSUME NEW v \in Firsts(m) PROVE FirstParses(m) /\ v = FirstFields(m)
  <2>1. PICK i \in Int, j \in Int, k \in Int, l \in Int :
            /\ FirstCuts(m, i, j, k, l) /\ FirstWords(m, i, j, k, l)
            /\ v = FirstRead(m, i, j, k, l)
    BY FirstsOf
  <2> QED
    BY <2>1, FirstReads
<1> QED
  BY <1>1, <1>2


-----------------------------------------------------------------------------
(* The final message of a client *)

\* A comma with "p=" after it.
ProofComma(m, k) == 1 <= k /\ k < Len(m) /\ m[k] = Comma /\ m[k + 1] = "p="

LEMMA ProofsAre ==
  ASSUME NEW m \in TokenSeq, NEW k
  PROVE  k \in Proofs(m) <=> k \in Int /\ ProofComma(m, k)
<1>1. Proofs(m) = {i \in 1..(Len(m) - 1) : m[i] = Comma /\ m[i + 1] = "p="}
  BY Zenon DEF Proofs, Comma
<1> QED
  BY <1>1 DEF TokenSeq, ProofComma

LEMMA ProofIsLast ==
  ASSUME NEW m \in TokenSeq
  PROVE  /\ ProofAt(m) \in Int
         /\ ProofAt(m) > 0 => ProofComma(m, ProofAt(m))
         /\ \A k \in Int : ProofComma(m, k) => ProofAt(m) >= k
<1> DEFINE T == Proofs(m) \cup {0}
<1>1. T \subseteq 0..Len(m) /\ T # {}
  BY ProofsAre DEF TokenSeq, ProofComma
<1>2. Len(m) \in Nat
  BY DEF TokenSeq
<1> HIDE DEF T
<1>3. Max(T) \in T /\ \A y \in T : Max(T) >= y
  BY <1>1, <1>2, GreatestExists
<1>4. ProofAt(m) = Max(T)
  BY DEF ProofAt, T
<1>5. Max(T) \in Int /\ (Max(T) > 0 => ProofComma(m, Max(T)))
  BY <1>1, <1>2, <1>3, ProofsAre DEF T
<1>6. \A k \in Int : ProofComma(m, k) => k \in T
  BY ProofsAre DEF T
<1> QED
  BY <1>3, <1>4, <1>5, <1>6

FinalRead(m, i, j, k) ==
    [without_proof |-> SubSeq(m, 1, k - 1), channel_binding |-> Between(m, 1, i),
     nonce |-> Between(m, i + 1, j), proof |-> Between(m, k + 1, Len(m) + 1)]

\* The first two commas, and one with a proof after it.
FinalCuts(m, i, j, k) ==
    /\ 1 <= i /\ i < j /\ j <= k /\ ProofComma(m, k)
    /\ FirstAt(m, 1, i, Comma) /\ FirstAt(m, i + 1, j, Comma)

FinalWords(m, i) == m[1] = "c=" /\ m[i + 1] = "r="

LEMMA FinalByName ==
  ASSUME NEW m, NEW W, W = SubSeq(m, 1, ProofAt(m) - 1),
         NEW P, P = SubSeq(m, ProofAt(m) + 2, Len(m))
  PROVE  /\ FinalFields(m) =
              [without_proof |-> W, channel_binding |-> Rest(Part(W)),
               nonce |-> Rest(Part(After(W, Comma))), proof |-> P]
         /\ FinalParses(m) <=>
              /\ ProofAt(m) > 0
              /\ Starts(Part(W), "c=") /\ Contains(W, Comma)
              /\ Starts(Part(After(W, Comma)), "r=")
              /\ Bytes(P) = 32
<1>1. FinalFields(m) =
        [without_proof |-> W, channel_binding |-> Rest(Part(W)),
         nonce |-> Rest(Part(After(W, Comma))), proof |-> P]
  BY Zenon DEF FinalFields, Comma
<1>2. FinalFields(m).without_proof = W /\ FinalFields(m).proof = P
  <2> DEFINE b == Rest(Part(W))
  <2> DEFINE c == Rest(Part(After(W, Comma)))
  <2>1. FinalFields(m) =
          [without_proof |-> W, channel_binding |-> b, nonce |-> c, proof |-> P]
    BY <1>1
  <2> HIDE DEF b, c
  <2> QED
    BY ONLY <2>1
<1>3. FinalParses(m) <=>
        /\ ProofAt(m) > 0
        /\ Starts(Part(W), "c=") /\ Contains(W, Comma)
        /\ Starts(Part(After(W, Comma)), "r=")
        /\ Bytes(P) = 32
  BY <1>2, Zenon DEF FinalParses, Comma
<1> QED
  BY <1>1, <1>3

\* The code takes a message apart at the cuts before its last proof, and asks for the same words.
LEMMA FinalReads ==
  ASSUME NEW m \in TokenSeq, NEW i \in Int, NEW j \in Int, NEW k \in Int,
         FinalCuts(m, i, j, k), k = ProofAt(m)
  PROVE  /\ FinalWords(m, i) => FinalFields(m) = FinalRead(m, i, j, k)
         /\ FinalParses(m) <=> FinalWords(m, i) /\ Bytes(SubSeq(m, k + 2, Len(m))) = 32
<1>n. PICK n \in Int : n = Len(m)
  BY DEF TokenSeq
<1>a. PICK o \in Int, a \in Int : o = 1 /\ a = i + 1
  OBVIOUS
<1>p. PICK p \in Int, q \in Int, r \in Int : p = k - 1 /\ q = i - 1 /\ r = j - 1
  OBVIOUS
<1>W. PICK W : W = SubSeq(m, o, p)
  OBVIOUS
<1>P. PICK P : P = SubSeq(m, k + 2, n)
  OBVIOUS
<1>0. /\ o <= i /\ a <= j /\ i <= p /\ j <= p + 1 /\ k < n /\ m[i] = Comma /\ m[j] = Comma
      /\ FirstAt(m, o, i, Comma) /\ FirstAt(m, a, j, Comma)
  BY <1>n, <1>a, <1>p DEF FinalCuts, FirstAt, ProofComma
<1>1. /\ Within(m, o, p) /\ Within(m, o, q) /\ Within(m, a, p) /\ Within(m, a, r)
  BY <1>n, <1>a, <1>p, <1>0 DEF Within
<1>2. EndAt(m, o, p, i) /\ EndAt(m, a, p, j)
  BY <1>0 DEF EndAt, FirstAt
<1>3. Contains(W, Comma) /\ After(W, Comma) = SubSeq(m, a, p)
  <2>1. Contains(SubSeq(m, o, p), Comma) /\ After(SubSeq(m, o, p), Comma) = SubSeq(m, i + 1, p)
    BY <1>0, <1>1, SplitOnce
  <2> QED
    BY <1>a, <1>W, <2>1
<1>4. Part(W) = SubSeq(m, o, q) /\ Part(After(W, Comma)) = SubSeq(m, a, r)
  <2>1. Part(SubSeq(m, o, p)) = SubSeq(m, o, i - 1)
    BY <1>1, <1>2, SlicePart
  <2>2. Part(SubSeq(m, a, p)) = SubSeq(m, a, j - 1)
    BY <1>1, <1>2, SlicePart
  <2> QED
    BY <1>p, <1>W, <1>3, <2>1, <2>2
<1>5. /\ Starts(SubSeq(m, o, q), "c=") <=> o <= q /\ m[o] = "c="
      /\ o <= q => Rest(SubSeq(m, o, q)) = SubSeq(m, o + 1, q)
  BY <1>1, SliceHead
<1>6. /\ Starts(SubSeq(m, a, r), "r=") <=> a <= r /\ m[a] = "r="
      /\ a <= r => Rest(SubSeq(m, a, r)) = SubSeq(m, a + 1, r)
  BY <1>1, SliceHead
<1>7. W = SubSeq(m, 1, ProofAt(m) - 1) /\ P = SubSeq(m, ProofAt(m) + 2, Len(m))
  BY <1>n, <1>a, <1>p, <1>W, <1>P
<1>8. /\ FinalFields(m) =
           [without_proof |-> W, channel_binding |-> Rest(SubSeq(m, o, q)),
            nonce |-> Rest(SubSeq(m, a, r)), proof |-> P]
      /\ FinalParses(m) <=>
           /\ ProofAt(m) > 0
           /\ Starts(SubSeq(m, o, q), "c=") /\ Starts(SubSeq(m, a, r), "r=") /\ Bytes(P) = 32
  BY <1>3, <1>4, <1>7, FinalByName, Zenon
<1>9. FinalWords(m, i) <=> o <= q /\ m[o] = "c=" /\ a <= r /\ m[a] = "r="
  <2>1. m[i] # "c=" /\ m[j] # "r="
    BY <1>0, PartByName
  <2> QED
    BY <1>a, <1>p, <1>0, <2>1 DEF FinalWords
<1>10. FinalParses(m) <=> FinalWords(m, i) /\ Bytes(SubSeq(m, k + 2, Len(m))) = 32
  <2>1. ProofAt(m) > 0
    BY <1>a, <1>p, <1>0
  <2> QED
    BY <1>n, <1>P, <1>5, <1>6, <1>8, <1>9, <2>1
<1>11. ASSUME FinalWords(m, i) PROVE FinalFields(m) = FinalRead(m, i, j, k)
  <2>1. /\ Rest(SubSeq(m, o, q)) = SubSeq(m, o + 1, q)
        /\ Rest(SubSeq(m, a, r)) = SubSeq(m, a + 1, r)
    BY <1>5, <1>6, <1>9, <1>11
  <2>2. /\ SubSeq(m, 1, k - 1) = W /\ Between(m, 1, i) = SubSeq(m, o + 1, q)
        /\ Between(m, i + 1, j) = SubSeq(m, a + 1, r)
        /\ Between(m, k + 1, Len(m) + 1) = P
    <3>1. (n + 1) - 1 = n /\ (k + 1) + 1 = k + 2
      OBVIOUS
    <3> QED
      BY <1>n, <1>a, <1>p, <1>W, <1>P, <3>1 DEF Between
  <2> QED
    BY <1>8, <2>1, <2>2, Zenon DEF FinalRead
<1> QED
  BY <1>10, <1>11


LEMMA FinalHasCuts ==
  ASSUME NEW m \in TokenSeq, FinalParses(m)
  PROVE  \E i, j \in Int : FinalCuts(m, i, j, ProofAt(m))
<1>n. PICK n \in Int : n = Len(m)
  BY DEF TokenSeq
<1>k. PICK k \in Int : k = ProofAt(m)
  BY ProofIsLast
<1>a. PICK o \in Int, p \in Int : o = 1 /\ p = k - 1
  OBVIOUS
<1>W. PICK W : W = SubSeq(m, o, p)
  OBVIOUS
<1>1. k > 0 /\ Contains(W, Comma)
  <2>1. PICK P : P = SubSeq(m, ProofAt(m) + 2, Len(m))
    OBVIOUS
  <2>2. W = SubSeq(m, 1, ProofAt(m) - 1)
    BY <1>k, <1>a, <1>W
  <2>3. ProofAt(m) > 0 /\ Contains(W, Comma)
    BY <2>1, <2>2, FinalByName
  <2> QED
    BY <1>k, <2>3
<1>2. ProofComma(m, k)
  BY <1>k, <1>1, ProofIsLast
<1>3. PICK i \in Int : o <= i /\ i <= p /\ FirstAt(m, o, i, Comma)
  <2>1. Within(m, o, p) /\ 1 <= o
    BY <1>n, <1>a, <1>2 DEF Within, ProofComma
  <2>2. Contains(SubSeq(m, o, p), Comma)
    BY <1>1, <1>W
  <2>3. \E q \in o..p : m[q] = Comma
    BY <2>1, <2>2, SliceContains
  <2> QED
    BY <2>1, <2>3, FirstExists
<1>b. PICK b \in Int : b = i + 1
  OBVIOUS
<1>4. PICK j \in Int : b <= j /\ j <= k /\ FirstAt(m, b, j, Comma)
  <2>1. 1 <= b /\ b <= k /\ m[k] = Comma
    BY <1>a, <1>b, <1>2, <1>3 DEF ProofComma
  <2>2. \E q \in b..k : m[q] = Comma
    BY <2>1
  <2> QED
    BY <2>1, <2>2, FirstExists
<1>5. FinalCuts(m, i, j, k)
  BY <1>a, <1>b, <1>2, <1>3, <1>4 DEF FinalCuts
<1> QED
  BY <1>k, <1>5

LEMMA FinalsOf ==
  ASSUME NEW m \in TokenSeq, NEW v
  PROVE  v \in Finals(m) <=>
         \E i, j, k \in Int :
            /\ FinalCuts(m, i, j, k) /\ FinalWords(m, i)
            /\ v = FinalRead(m, i, j, k) /\ Bytes(v.proof) = 32
<1> DEFINE C == Commas(m)
<1> DEFINE good(i, j, k) ==
        /\ Adjacent(m, 0, i) /\ Adjacent(m, i, j) /\ j <= k
        /\ m[1] = "c=" /\ m[i + 1] = "r=" /\ k < Len(m) /\ m[k + 1] = "p="
<1> DEFINE cuts == {k \in C \X C \X C : good(k[1], k[2], k[3])}
<1>1. Finals(m) = {f \in {FinalRead(m, k[1], k[2], k[3]) : k \in cuts} : Bytes(f.proof) = 32}
  BY Zenon DEF Finals, FinalRead
<1>2. \A q : q \in C <=> q \in Int /\ 1 <= q /\ q <= Len(m) /\ m[q] = Comma
  BY CommasAre
<1>3. Len(m) \in Nat
  BY DEF TokenSeq
<1> HIDE DEF C
<1>4. ASSUME NEW i \in C, NEW j \in C, NEW k \in C
      PROVE  good(i, j, k) <=> FinalCuts(m, i, j, k) /\ FinalWords(m, i)
  <2>1. \A q \in C : q \in Int /\ 0 <= q /\ 1 <= q /\ q <= Len(m) /\ m[q] = Comma
    BY <1>2
  <2> PICK o \in Int : o = 0
    OBVIOUS
  <2>2. Adjacent(m, o, i) <=> o < i /\ FirstAt(m, o + 1, i, Comma)
    <3>1. 0 <= o
      OBVIOUS
    <3> QED
      BY <2>1, <3>1, AdjacentComma
  <2>3. Adjacent(m, i, j) <=> i < j /\ FirstAt(m, i + 1, j, Comma)
    BY <2>1, AdjacentComma
  <2>4. o + 1 = 1 /\ o < i /\ 1 <= i
    BY <2>1
  <2>5. ProofComma(m, k) <=> k < Len(m) /\ m[k + 1] = "p="
    BY <2>1 DEF ProofComma
  <2>6. Adjacent(m, 0, i) <=> FirstAt(m, 1, i, Comma)
    BY <2>2, <2>4
  <2> QED
    BY <2>3, <2>4, <2>5, <2>6, Zenon DEF FinalCuts, FinalWords
<1>5. ASSUME NEW i \in Int, NEW j \in Int, NEW k \in Int, FinalCuts(m, i, j, k)
      PROVE  i \in C /\ j \in C /\ k \in C
  BY <1>2, <1>3, <1>5 DEF FinalCuts, FirstAt, ProofComma
<1>6. \A q \in C : q \in Int
  BY <1>2
<1> HIDE DEF good
<1>7. \A i, j, k : <<i, j, k>> \in cuts <=> i \in C /\ j \in C /\ k \in C /\ good(i, j, k)
  OBVIOUS
<1>8. \A k \in cuts : k = <<k[1], k[2], k[3]>>
  OBVIOUS
<1> HIDE DEF cuts
<1>9. ASSUME v \in Finals(m)
      PROVE  \E i, j, k \in Int :
                /\ FinalCuts(m, i, j, k) /\ FinalWords(m, i)
                /\ v = FinalRead(m, i, j, k) /\ Bytes(v.proof) = 32
  <2>1. PICK c \in cuts : v = FinalRead(m, c[1], c[2], c[3]) /\ Bytes(v.proof) = 32
    BY <1>1, <1>9, Zenon
  <2>2. PICK i, j, k : c[1] = i /\ c[2] = j /\ c[3] = k
    OBVIOUS
  <2>3. <<i, j, k>> \in cuts /\ v = FinalRead(m, i, j, k)
    BY <1>8, <2>1, <2>2, Zenon
  <2>4. i \in C /\ j \in C /\ k \in C /\ good(i, j, k)
    BY <1>7, <2>3, Zenon
  <2> QED
    BY <1>4, <1>6, <2>1, <2>3, <2>4
<1>10. ASSUME NEW i \in Int, NEW j \in Int, NEW k \in Int,
              FinalCuts(m, i, j, k), FinalWords(m, i), v = FinalRead(m, i, j, k),
              Bytes(v.proof) = 32
       PROVE  v \in Finals(m)
  <2>1. <<i, j, k>> \in cuts
    BY <1>4, <1>5, <1>7, <1>10
  <2>2. /\ <<i, j, k>>[1] = i /\ <<i, j, k>>[2] = j /\ <<i, j, k>>[3] = k
    OBVIOUS
  <2>3. v \in {FinalRead(m, l[1], l[2], l[3]) : l \in cuts}
    BY <1>10, <2>1, <2>2
  <2> QED
    BY <1>1, <1>10, <2>3
<1> QED
  BY <1>9, <1>10

\* A legal proof contains no comma, so the proof of the grammar is the last one.
LEMMA ProofOfGrammar ==
  ASSUME NEW m \in TokenSeq, NEW k \in Int, ProofComma(m, k), Bytes(SubSeq(m, k + 2, Len(m))) = 32
  PROVE  k = ProofAt(m)
<1>n. PICK n \in Int : n = Len(m)
  BY DEF TokenSeq
<1>a. PICK a \in Int : a = k + 2
  OBVIOUS
<1>p. PICK p \in Int : p = ProofAt(m)
  BY ProofIsLast
<1>1. Within(m, a, n)
  BY <1>n, <1>a DEF Within, ProofComma
<1>2. ToSet(SubSeq(m, a, n)) \subseteq {"salt", "key"}
  BY <1>n, <1>a, LegalWords
<1>3. \A j \in a..n : m[j] \in {"salt", "key"}
  BY <1>1, <1>2, WordsOfSlice
<1>4. p >= k
  BY <1>p, ProofIsLast
<1>5. p > 0 /\ ProofComma(m, p)
  <2>1. 1 <= k
    BY DEF ProofComma
  <2>2. p > 0
    BY <1>4, <2>1
  <2> QED
    BY <1>p, <2>2, ProofIsLast
<1>6. m[p] = Comma /\ p < n
  BY <1>n, <1>5 DEF ProofComma
<1>7. m[k + 1] # Comma
  BY PartByName DEF ProofComma
<1>8. \A j \in a..n : m[j] # Comma
  BY <1>3, PartByName
<1>9. p = k
  BY <1>a, <1>4, <1>6, <1>7, <1>8
<1> QED
  BY <1>p, <1>9

\* Exchange::verify finds the one reading of a final message.
THEOREM FinalsAreRead ==
  ASSUME NEW m \in TokenSeq
  PROVE  Finals(m) = IF FinalParses(m) THEN {FinalFields(m)} ELSE {}
<1>0. ASSUME NEW i, NEW j, NEW k, k \in Int
      PROVE  FinalRead(m, i, j, k).proof = SubSeq(m, k + 2, Len(m))
  <2>1. (k + 1) + 1 = k + 2 /\ (Len(m) + 1) - 1 = Len(m)
    BY <1>0 DEF TokenSeq
  <2> QED
    BY <2>1 DEF FinalRead, Between
<1>1. ASSUME FinalParses(m) PROVE FinalFields(m) \in Finals(m)
  <2>1. PICK i \in Int, j \in Int : FinalCuts(m, i, j, ProofAt(m))
    BY <1>1, FinalHasCuts
  <2>2. PICK k \in Int : k = ProofAt(m)
    BY ProofIsLast
  <2>3. FinalCuts(m, i, j, k)
    BY <2>1, <2>2
  <2>4. /\ FinalWords(m, i) /\ FinalFields(m) = FinalRead(m, i, j, k)
        /\ Bytes(SubSeq(m, k + 2, Len(m))) = 32
    BY <1>1, <2>2, <2>3, FinalReads
  <2>5. Bytes(FinalFields(m).proof) = 32
    BY <1>0, <2>4
  <2> QED
    BY <2>3, <2>4, <2>5, FinalsOf
<1>2. ASSUME NEW v \in Finals(m) PROVE FinalParses(m) /\ v = FinalFields(m)
  <2>1. PICK i \in Int, j \in Int, k \in Int :
            /\ FinalCuts(m, i, j, k) /\ FinalWords(m, i)
            /\ v = FinalRead(m, i, j, k) /\ Bytes(v.proof) = 32
    BY FinalsOf
  <2>2. Bytes(SubSeq(m, k + 2, Len(m))) = 32
    BY <1>0, <2>1
  <2>3. ProofComma(m, k)
    BY <2>1 DEF FinalCuts
  <2>4. k = ProofAt(m)
    BY <2>2, <2>3, ProofOfGrammar
  <2> QED
    BY <2>1, <2>2, <2>4, FinalReads
<1> QED
  BY <1>1, <1>2

=============================================================================
