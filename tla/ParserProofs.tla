---------------------------- MODULE ParserProofs ----------------------------
(***************************************************************************)
(* For every set of texts: a text that is read to its end gave its longest *)
(* tokens, all of them and in order, and a text is refused where no token  *)
(* starts.  A statement that is accepted was written as the grammar writes *)
(* it, separators aside, and its tree leaves none of its names and         *)
(* literals out.  For every set of statements besides: one that is written *)
(* as the grammar writes it is accepted, and its tree is that statement's. *)
(***************************************************************************)
EXTENDS Parser, SequenceTheorems, WellFoundedInduction, TLAPS

-----------------------------------------------------------------------------
(* Numbers and sequences.                                                  *)

LEMMA LeastNumber ==
  ASSUME NEW T \in SUBSET Nat, T # {}
  PROVE  \E x \in T : \A y \in T : x <= y
<1> DEFINE R == OpToRel(<, Nat)
<1>1. PICK x \in T : \A y \in T : ~ (<<y, x>> \in R)
  BY NatLessThanWellFounded, WFMin
<1>2. \A y \in T : <<y, x>> \in R <=> y < x
  BY DEF OpToRel
<1>3. \A y \in T : ~ (y < x)
  BY <1>1, <1>2
<1> QED BY <1>3

LEMMA MaxIs ==
  ASSUME NEW S \in SUBSET Int, NEW m \in S, \A y \in S : y <= m
  PROVE  Max(S) = m
<1>1. m \in S /\ \A y \in S : m >= y
  OBVIOUS
<1>2. \A x \in S : (\A y \in S : x >= y) => x = m
  OBVIOUS
<1> QED BY <1>1, <1>2 DEF Max

\* The text is one.
IsText == text \in Seq(STRING)

LEMMA TextFacts ==
  ASSUME IsText
  PROVE  /\ Len(text) \in Nat /\ DOMAIN text = 1 .. Len(text)
         /\ \A j \in 1 .. Len(text) : text[j] \in STRING
  BY LenProperties, ElementOfSeq DEF IsText

-----------------------------------------------------------------------------
(* Pieces of the text, by the positions where they begin and end.          *)

AllAt(a, b, class) == \A j \in a .. b - 1 : text[j] \in class
DigitsAt(a, b) == a < b /\ AllAt(a, b, Digit)
DecimalAt(a, b) ==
  \/ DigitsAt(a, b)
  \/ \E d \in a .. b - 1 : text[d] = "." /\ DigitsAt(a, d) /\ DigitsAt(d + 1, b)
FractionAt(a, b) == text[a] = "." /\ DigitsAt(a + 1, b)
NegativeAt(a, b) ==
  /\ text[a] = "-" /\ a + 1 < b
  /\ \/ DecimalAt(a + 1, b)
     \/ text[a + 1] = "." /\ AllAt(a + 2, b, Digit)
     \/ text[b - 1] = "." /\ DigitsAt(a + 1, b - 1)
QuotedAt(a, b) ==
  /\ a + 1 < b /\ text[a] = "'" /\ text[b - 1] = "'"
  /\ \A j \in a + 1 .. b - 2 : text[j] # "'"
WordAt(a, b) == text[a] \in Letter /\ AllAt(a, b, Letter \cup Digit)

LEMMA SliceFacts ==
  ASSUME IsText, NEW k \in 1 .. Len(text) + 1, NEW n \in k .. Len(text) + 1
  PROVE  /\ Slice(k, n) \in Seq(STRING) /\ Len(Slice(k, n)) = n - k /\ n - k \in Nat
         /\ DOMAIN Slice(k, n) = 1 .. n - k
         /\ \A i \in 1 .. n - k : Slice(k, n)[i] = text[k + i - 1]
<1>1. Len(text) \in Nat /\ \A j \in 1 .. Len(text) : text[j] \in STRING
  BY TextFacts
<1>2. k \in Int /\ n - 1 \in Int /\ \A i \in k .. n - 1 : i \in 1 .. Len(text)
  BY <1>1
<1>3. \A i \in k .. n - 1 : text[i] \in STRING
  BY <1>1, <1>2
<1>4. PICK m : m = n - 1
  OBVIOUS
<1>5. /\ SubSeq(text, k, m) \in Seq(STRING)
      /\ Len(SubSeq(text, k, m)) = IF k <= m THEN m - k + 1 ELSE 0
      /\ \A i \in 1 .. m - k + 1 : SubSeq(text, k, m)[i] = text[k + i - 1]
  BY <1>2, <1>3, <1>4, SubSeqProperties
<1>6. Slice(k, n) = SubSeq(text, k, m)
  BY <1>4 DEF Slice
<1>7. m \in Int /\ m - k + 1 = n - k /\ n - k \in Nat /\ (~(k <= m) => n - k = 0)
  BY <1>1, <1>4
<1>8. Slice(k, n) \in Seq(STRING) /\ Len(Slice(k, n)) = n - k
  BY <1>5, <1>6, <1>7
<1>9. DOMAIN Slice(k, n) = 1 .. n - k
  BY <1>8, LenProperties
<1> QED BY <1>5, <1>6, <1>7, <1>8, <1>9

LEMMA SliceOfSlice ==
  ASSUME IsText, NEW k \in 1 .. Len(text) + 1, NEW n \in k .. Len(text) + 1,
         NEW a \in 1 .. n - k + 1, NEW b \in a - 1 .. n - k
  PROVE  SubSeq(Slice(k, n), a, b) = Slice(k + a - 1, k + b)
<1>1. Len(text) \in Nat
  BY TextFacts
<1>2. PICK s : s = Slice(k, n)
  OBVIOUS
<1>3. /\ s \in Seq(STRING) /\ Len(s) = n - k
      /\ \A i \in 1 .. n - k : s[i] = text[k + i - 1]
  BY <1>2, SliceFacts
<1>4. PICK c, d : c = k + a - 1 /\ d = k + b
  OBVIOUS
<1>5. /\ c \in 1 .. Len(text) + 1 /\ d \in c .. Len(text) + 1 /\ a \in Int /\ b \in Int
      /\ d - c = b - a + 1 /\ d - c \in Nat
  BY <1>1, <1>4
<1>6. PICK t, u : t = Slice(c, d) /\ u = SubSeq(s, a, b)
  OBVIOUS
<1>7. /\ t \in Seq(STRING) /\ Len(t) = d - c
      /\ \A i \in 1 .. d - c : t[i] = text[c + i - 1]
  BY <1>5, <1>6, SliceFacts
<1>8. \A i \in a .. b : s[i] \in STRING
  <2>1. \A i \in a .. b : i \in 1 .. Len(s)
    BY <1>3, <1>5
  <2> QED BY <1>3, <2>1, ElementOfSeq
<1>9. /\ u \in Seq(STRING) /\ Len(u) = IF a <= b THEN b - a + 1 ELSE 0
      /\ \A i \in 1 .. b - a + 1 : u[i] = s[a + i - 1]
  BY <1>5, <1>6, <1>8, SubSeqProperties
<1>10. Len(u) = Len(t)
  BY <1>5, <1>7, <1>9
<1>11. ASSUME NEW i \in 1 .. d - c PROVE u[i] = t[i]
  <2>1. a + i - 1 \in 1 .. n - k /\ k + (a + i - 1) - 1 = c + i - 1 /\ i \in 1 .. b - a + 1
    BY <1>4, <1>5
  <2>2. u[i] = text[k + (a + i - 1) - 1]
    BY <1>3, <1>9, <2>1
  <2> QED BY <1>7, <2>1, <2>2
<1>12. u = t
  BY <1>7, <1>9, <1>10, <1>11, SeqEqual
<1> QED BY <1>2, <1>4, <1>6, <1>12
-----------------------------------------------------------------------------
(* What the predicates on tokens say of a slice.                           *)

\* A position in a slice and the one in the text.
LEMMA Shift ==
  ASSUME NEW k \in Int, NEW n \in Int
  PROVE  /\ \A i \in 1 .. n - k : k + i - 1 \in k .. n - 1
         /\ \A j \in k .. n - 1 : j - k + 1 \in 1 .. n - k /\ k + (j - k + 1) - 1 = j
  OBVIOUS

LEMMA AllInSlice ==
  ASSUME IsText, NEW k \in 1 .. Len(text) + 1, NEW n \in k .. Len(text) + 1, NEW class
  PROVE  AllIn(Slice(k, n), class) <=> AllAt(k, n, class)
<1>1. /\ DOMAIN Slice(k, n) = 1 .. n - k
      /\ \A i \in 1 .. n - k : Slice(k, n)[i] = text[k + i - 1]
  BY SliceFacts
<1>2. k \in Int /\ n \in Int
  BY TextFacts
<1>3. /\ \A i \in 1 .. n - k : k + i - 1 \in k .. n - 1
      /\ \A j \in k .. n - 1 : j - k + 1 \in 1 .. n - k /\ k + (j - k + 1) - 1 = j
  BY <1>2, Shift
<1>4. ASSUME AllIn(Slice(k, n), class), NEW j \in k .. n - 1 PROVE text[j] \in class
  <2>1. Slice(k, n)[j - k + 1] \in class
    BY <1>1, <1>3, <1>4 DEF AllIn
  <2>2. Slice(k, n)[j - k + 1] = text[k + (j - k + 1) - 1]
    BY <1>1, <1>3
  <2> QED BY <1>3, <2>1, <2>2
<1>5. ASSUME AllAt(k, n, class), NEW i \in DOMAIN Slice(k, n) PROVE Slice(k, n)[i] \in class
  BY <1>1, <1>3, <1>5 DEF AllAt
<1> QED BY <1>4, <1>5 DEF AllAt, AllIn

LEMMA DigitsSlice ==
  ASSUME IsText, NEW k \in 1 .. Len(text) + 1, NEW n \in k .. Len(text) + 1
  PROVE  Digits(Slice(k, n)) <=> DigitsAt(k, n)
<1>1. Slice(k, n) \in Seq(STRING) /\ Len(Slice(k, n)) = n - k
  BY SliceFacts
<1>2. k \in Int /\ n \in Int /\ k <= n
  BY TextFacts
<1>3. Slice(k, n) = <<>> <=> n - k = 0
  BY <1>1, EmptySeq
<1>4. Slice(k, n) # <<>> <=> k < n
  BY <1>2, <1>3
<1> QED BY <1>4, AllInSlice DEF Digits, DigitsAt

LEMMA DecimalSlice ==
  ASSUME IsText, NEW k \in 1 .. Len(text) + 1, NEW n \in k .. Len(text) + 1
  PROVE  Decimal(Slice(k, n)) <=> DecimalAt(k, n)
<1>1. /\ DOMAIN Slice(k, n) = 1 .. n - k /\ Len(Slice(k, n)) = n - k
      /\ \A i \in 1 .. n - k : Slice(k, n)[i] = text[k + i - 1]
  BY SliceFacts
<1>2. k \in Int /\ n \in Int /\ Len(text) \in Nat
  BY TextFacts
<1>3. /\ \A i \in 1 .. n - k : k + i - 1 \in k .. n - 1
      /\ \A j \in k .. n - 1 : j - k + 1 \in 1 .. n - k /\ k + (j - k + 1) - 1 = j
  BY <1>2, Shift
<1>4. ASSUME NEW i \in 1 .. n - k, NEW d, d = k + i - 1
      PROVE  /\ Slice(k, n)[i] = text[d]
             /\ Digits(SubSeq(Slice(k, n), 1, i - 1)) <=> DigitsAt(k, d)
             /\ Digits(SubSeq(Slice(k, n), i + 1, Len(Slice(k, n)))) <=> DigitsAt(d + 1, n)
  <2>1. /\ 1 \in 1 .. n - k + 1 /\ i - 1 \in 1 - 1 .. n - k
        /\ k + 1 - 1 = k /\ k + (i - 1) = d
        /\ i + 1 \in 1 .. n - k + 1 /\ n - k \in (i + 1) - 1 .. n - k
        /\ k + (i + 1) - 1 = d + 1 /\ k + (n - k) = n
    BY <1>2, <1>4
  <2>2. SubSeq(Slice(k, n), 1, i - 1) = Slice(k, d)
    BY <2>1, SliceOfSlice
  <2>3. SubSeq(Slice(k, n), i + 1, n - k) = Slice(d + 1, n)
    BY <2>1, SliceOfSlice
  <2>4. /\ d \in k .. Len(text) + 1
        /\ d + 1 \in 1 .. Len(text) + 1 /\ n \in d + 1 .. Len(text) + 1
    BY <1>2, <1>4
  <2>5. Digits(Slice(k, d)) <=> DigitsAt(k, d)
    BY <2>4, DigitsSlice
  <2>6. Digits(Slice(d + 1, n)) <=> DigitsAt(d + 1, n)
    BY <2>4, DigitsSlice
  <2> QED BY <1>1, <1>4, <2>2, <2>3, <2>5, <2>6
<1>5. (\E i \in DOMAIN Slice(k, n) :
         /\ Slice(k, n)[i] = "." /\ Digits(SubSeq(Slice(k, n), 1, i - 1))
         /\ Digits(SubSeq(Slice(k, n), i + 1, Len(Slice(k, n)))))
      <=> \E d \in k .. n - 1 : text[d] = "." /\ DigitsAt(k, d) /\ DigitsAt(d + 1, n)
  <2>1. ASSUME NEW i \in 1 .. n - k,
               /\ Slice(k, n)[i] = "." /\ Digits(SubSeq(Slice(k, n), 1, i - 1))
               /\ Digits(SubSeq(Slice(k, n), i + 1, Len(Slice(k, n))))
        PROVE  \E d \in k .. n - 1 : text[d] = "." /\ DigitsAt(k, d) /\ DigitsAt(d + 1, n)
    <3>1. PICK d : d = k + i - 1
      OBVIOUS
    <3>2. d \in k .. n - 1
      BY <1>3, <3>1
    <3> QED BY <1>4, <2>1, <3>1, <3>2
  <2>2. ASSUME NEW d \in k .. n - 1, text[d] = "." /\ DigitsAt(k, d) /\ DigitsAt(d + 1, n)
        PROVE  \E i \in 1 .. n - k :
                 /\ Slice(k, n)[i] = "." /\ Digits(SubSeq(Slice(k, n), 1, i - 1))
                 /\ Digits(SubSeq(Slice(k, n), i + 1, Len(Slice(k, n))))
    <3>1. PICK i : i = d - k + 1
      OBVIOUS
    <3>2. i \in 1 .. n - k /\ d = k + i - 1
      BY <1>3, <3>1
    <3>3. /\ Slice(k, n)[i] = "." /\ Digits(SubSeq(Slice(k, n), 1, i - 1))
          /\ Digits(SubSeq(Slice(k, n), i + 1, Len(Slice(k, n))))
      BY <1>4, <2>2, <3>2
    <3> QED BY <3>2, <3>3
  <2> QED BY <1>1, <2>1, <2>2
<1> QED BY <1>5, DigitsSlice DEF Decimal, DecimalAt
\* A slice that has a character: its first, its last and the others.
LEMMA SliceEnds ==
  ASSUME IsText, NEW k \in 1 .. Len(text), NEW n \in k + 1 .. Len(text) + 1
  PROVE  /\ Slice(k, n) \in Seq(STRING) /\ Len(Slice(k, n)) = n - k /\ Slice(k, n) # <<>>
         /\ DOMAIN Slice(k, n) = 1 .. n - k
         /\ Head(Slice(k, n)) = text[k] /\ Slice(k, n)[1] = text[k]
         /\ Slice(k, n)[n - k] = text[n - 1]
         /\ Tail(Slice(k, n)) = Slice(k + 1, n)
         /\ n - k > 1 => Slice(k, n)[2] = text[k + 1]
<1>1. k \in Int /\ n \in Int /\ Len(text) \in Nat
  BY TextFacts
<1>2. /\ k \in 1 .. Len(text) + 1 /\ n \in k .. Len(text) + 1
      /\ k + 1 \in 1 .. Len(text) + 1 /\ n \in k + 1 .. Len(text) + 1
  BY <1>1
<1>3. PICK s : s = Slice(k, n)
  OBVIOUS
<1>4. /\ s \in Seq(STRING) /\ Len(s) = n - k /\ n - k \in Nat
      /\ DOMAIN s = 1 .. n - k /\ \A i \in 1 .. n - k : s[i] = text[k + i - 1]
  BY <1>2, <1>3, SliceFacts
<1>5. /\ 1 \in 1 .. n - k /\ k + 1 - 1 = k /\ n - k \in 1 .. n - k /\ k + (n - k) - 1 = n - 1
      /\ n - k > 1 => 2 \in 1 .. n - k /\ k + 2 - 1 = k + 1
  BY <1>1
<1>6. s[1] = text[k] /\ s[n - k] = text[n - 1] /\ (n - k > 1 => s[2] = text[k + 1])
  <2>1. s[1] = text[k + 1 - 1] /\ s[n - k] = text[k + (n - k) - 1]
    BY <1>4, <1>5
  <2>2. n - k > 1 => s[2] = text[k + 2 - 1]
    BY <1>4, <1>5
  <2> QED BY <1>5, <2>1, <2>2
<1>7. s # <<>>
  BY <1>4, <1>5, EmptySeq
<1>8. Head(s) = s[1]
  BY <1>4, <1>7
<1>9. Tail(s) = SubSeq(s, 2, Len(s))
  BY <1>4, <1>7, TailIsSubSeq
<1>10. SubSeq(Slice(k, n), 2, n - k) = Slice(k + 1, n)
  <2>1. 2 \in 1 .. n - k + 1 /\ n - k \in 2 - 1 .. n - k /\ k + 2 - 1 = k + 1 /\ k + (n - k) = n
    BY <1>1
  <2>2. SubSeq(Slice(k, n), 2, n - k) = Slice(k + 2 - 1, k + (n - k))
    BY <1>2, <2>1, SliceOfSlice
  <2> QED BY <2>1, <2>2
<1> QED BY <1>3, <1>4, <1>6, <1>7, <1>8, <1>9, <1>10

LEMMA FractionSlice ==
  ASSUME IsText, NEW k \in 1 .. Len(text), NEW n \in k + 1 .. Len(text) + 1
  PROVE  Fraction(Slice(k, n)) <=> FractionAt(k, n)
<1>1. Head(Slice(k, n)) = text[k] /\ Tail(Slice(k, n)) = Slice(k + 1, n)
  BY SliceEnds
<1>2. k + 1 \in 1 .. Len(text) + 1 /\ n \in k + 1 .. Len(text) + 1
  BY TextFacts
<1>3. Digits(Slice(k + 1, n)) <=> DigitsAt(k + 1, n)
  BY <1>2, DigitsSlice
<1> QED BY <1>1, <1>3 DEF Fraction, FractionAt

LEMMA NegativeSlice ==
  ASSUME IsText, NEW k \in 1 .. Len(text), NEW n \in k + 1 .. Len(text) + 1
  PROVE  Negative(Slice(k, n)) <=> NegativeAt(k, n)
<1>1. PICK s : s = Slice(k, n)
  OBVIOUS
<1>2. /\ Head(s) = text[k] /\ Tail(s) = Slice(k + 1, n) /\ Len(s) = n - k
      /\ s[Len(s)] = text[n - 1] /\ (n - k > 1 => s[2] = text[k + 1])
  <2>1. /\ Head(s) = text[k] /\ Tail(s) = Slice(k + 1, n) /\ Len(s) = n - k
        /\ s[n - k] = text[n - 1] /\ (n - k > 1 => s[2] = text[k + 1])
    BY <1>1, SliceEnds
  <2> QED BY <2>1
<1>3. k \in Int /\ n \in Int /\ Len(text) \in Nat
  BY TextFacts
<1>4. Len(s) > 1 <=> k + 1 < n
  BY <1>2, <1>3
<1>5. /\ k \in 1 .. Len(text) + 1 /\ n \in k .. Len(text) + 1
      /\ k + 1 \in 1 .. Len(text) + 1 /\ n \in k + 1 .. Len(text) + 1
  BY <1>3
<1>6. Decimal(Tail(s)) <=> DecimalAt(k + 1, n)
  BY <1>2, <1>5, DecimalSlice
<1>7. ASSUME k + 1 < n
      PROVE  /\ AllIn(SubSeq(s, 3, Len(s)), Digit) <=> AllAt(k + 2, n, Digit)
             /\ Digits(SubSeq(s, 2, Len(s) - 1)) <=> DigitsAt(k + 1, n - 1)
  <2>1. /\ 3 \in 1 .. n - k + 1 /\ n - k \in 3 - 1 .. n - k
        /\ k + 3 - 1 = k + 2 /\ k + (n - k) = n
        /\ 2 \in 1 .. n - k + 1 /\ n - k - 1 \in 2 - 1 .. n - k
        /\ k + 2 - 1 = k + 1 /\ k + (n - k - 1) = n - 1
        /\ k + 2 \in 1 .. Len(text) + 1 /\ n \in k + 2 .. Len(text) + 1
        /\ n - 1 \in k + 1 .. Len(text) + 1
    BY <1>3, <1>7
  <2>2. SubSeq(s, 3, n - k) = Slice(k + 2, n)
    <3>1. SubSeq(Slice(k, n), 3, n - k) = Slice(k + 3 - 1, k + (n - k))
      BY <1>5, <2>1, SliceOfSlice
    <3> QED BY <1>1, <2>1, <3>1
  <2>3. SubSeq(s, 2, n - k - 1) = Slice(k + 1, n - 1)
    <3>1. SubSeq(Slice(k, n), 2, n - k - 1) = Slice(k + 2 - 1, k + (n - k - 1))
      BY <1>5, <2>1, SliceOfSlice
    <3> QED BY <1>1, <2>1, <3>1
  <2>4. AllIn(Slice(k + 2, n), Digit) <=> AllAt(k + 2, n, Digit)
    BY <2>1, AllInSlice
  <2>5. Digits(Slice(k + 1, n - 1)) <=> DigitsAt(k + 1, n - 1)
    BY <1>5, <2>1, DigitsSlice
  <2> QED BY <1>2, <2>2, <2>3, <2>4, <2>5
<1>8. k + 1 < n => n - k > 1
  BY <1>3
<1> QED BY <1>1, <1>2, <1>4, <1>6, <1>7, <1>8 DEF Negative, NegativeAt, Last

LEMMA QuotedSlice ==
  ASSUME IsText, NEW k \in 1 .. Len(text), NEW n \in k + 1 .. Len(text) + 1
  PROVE  Quoted(Slice(k, n)) <=> QuotedAt(k, n)
<1>1. PICK s, m : s = Slice(k, n) /\ m = n - k
  OBVIOUS
<1>2. k \in Int /\ n \in Int /\ Len(text) \in Nat /\ m \in Nat /\ m # 0
  BY <1>1, TextFacts
<1>3. s[1] = text[k] /\ s[m] = text[n - 1] /\ Len(s) = m /\ DOMAIN s = 1 .. m
  BY <1>1, SliceEnds
<1>4. \A i \in 1 .. m : s[i] = text[k + i - 1]
  <2>1. k \in 1 .. Len(text) + 1 /\ n \in k .. Len(text) + 1
    BY <1>2
  <2> QED BY <1>1, <2>1, SliceFacts
<1>5. Len(s) > 1 <=> k + 1 < n
  BY <1>1, <1>2, <1>3
<1>6. ASSUME k + 1 < n
      PROVE  (\A j \in k + 1 .. n - 2 : text[j] # "'") <=> \A i \in 2 .. m - 1 : s[i] # "'"
  <2>1. ASSUME \A j \in k + 1 .. n - 2 : text[j] # "'", NEW i \in 2 .. m - 1 PROVE s[i] # "'"
    <3>1. i \in 1 .. m /\ k + i - 1 \in k + 1 .. n - 2
      BY <1>1, <1>2
    <3> QED BY <1>4, <2>1, <3>1
  <2>2. ASSUME \A i \in 2 .. m - 1 : s[i] # "'", NEW j \in k + 1 .. n - 2 PROVE text[j] # "'"
    <3>1. PICK i : i = j - k + 1
      OBVIOUS
    <3>2. i \in 2 .. m - 1 /\ i \in 1 .. m /\ k + i - 1 = j
      BY <1>1, <1>2, <3>1
    <3> QED BY <1>4, <2>2, <3>2
  <2> QED BY <2>1, <2>2
<1>7. ASSUME m > 1
      PROVE  {i \in 1 .. m : s[i] = "'"} = {1, m}
             <=> s[1] = "'" /\ s[m] = "'" /\ \A i \in 2 .. m - 1 : s[i] # "'"
  <2>1. 1 \in 1 .. m /\ m \in 1 .. m /\ \A i \in 1 .. m : i \in 2 .. m - 1 <=> i # 1 /\ i # m
    BY <1>2, <1>7
  <2>2. \A i \in 2 .. m - 1 : i \in 1 .. m
    BY <1>2
  <2> QED BY <2>1, <2>2
<1>8. m > 1 <=> k + 1 < n
  BY <1>3, <1>5
<1> QED BY <1>1, <1>3, <1>6, <1>7, <1>8 DEF Quoted, QuotedAt

LEMMA WordSlice ==
  ASSUME IsText, NEW k \in 1 .. Len(text), NEW n \in k + 1 .. Len(text) + 1
  PROVE  Word(Slice(k, n)) <=> WordAt(k, n)
<1>1. Head(Slice(k, n)) = text[k]
  BY SliceEnds
<1>2. k \in 1 .. Len(text) + 1 /\ n \in k .. Len(text) + 1
  BY TextFacts
<1>3. AllIn(Slice(k, n), Letter \cup Digit) <=> AllAt(k, n, Letter \cup Digit)
  BY <1>2, AllInSlice
<1> QED BY <1>1, <1>3 DEF Word, WordAt

\* Where a token can end.
TokenTo(k, n) ==
  \/ QuotedAt(k, n) \/ FractionAt(k, n) \/ DecimalAt(k, n) \/ NegativeAt(k, n) \/ WordAt(k, n)
  \/ n = k + 1 /\ text[k] \in Mark \cup {"-"}

LEMMA TokenSlice ==
  ASSUME IsText, NEW k \in 1 .. Len(text), NEW n \in k + 1 .. Len(text) + 1
  PROVE  IsToken(Slice(k, n)) <=> TokenTo(k, n)
<1>1. Slice(k, n)[1] = text[k] /\ Len(Slice(k, n)) = n - k
  BY SliceEnds
<1>2. n - k = 1 <=> n = k + 1
  BY TextFacts
<1>3. k \in 1 .. Len(text) + 1 /\ n \in k .. Len(text) + 1
  BY TextFacts
<1>4. Decimal(Slice(k, n)) <=> DecimalAt(k, n)
  BY <1>3, DecimalSlice
<1> QED BY <1>1, <1>2, <1>4, QuotedSlice, FractionSlice, NegativeSlice, WordSlice DEF IsToken, TokenTo
-----------------------------------------------------------------------------
(* The classes of characters, and the first character of a token.          *)

\* Every character is of one class at most.
LEMMA ClassesApart ==
  ASSUME NEW c
  PROVE  /\ c \in Digit => c \notin Letter \cup Mark \cup Blank /\ c \notin {".", "-", "'"}
         /\ c \in Letter => c \notin Mark \cup Blank /\ c \notin {".", "-", "'"}
         /\ c \in Mark => c \notin Blank /\ c \notin {".", "-", "'"}
         /\ c \in Blank => c \notin {".", "-", "'"}
<1>1. DOMAIN KeywordType =
        {"show", "use", "drop", "create", "select", "insert", "help", "exit", "database",
         "databases", "table", "tables", "primary", "key", "from", "into", "values",
         "int", "float", "char", "update", "where", "limit"}
  BY DEF KeywordType
<1> QED BY <1>1 DEF Digit, Letter, Mark, Blank

\* The last end of the tokens that start at a position.
Ends(k, n) == n \in EndsFrom(k) /\ \A m \in EndsFrom(k) : m <= n

LEMMA EndsFacts ==
  ASSUME IsText, NEW k \in 1 .. Len(text)
  PROVE  /\ EndsFrom(k) \in SUBSET (k + 1 .. Len(text) + 1)
         /\ \A n \in k + 1 .. Len(text) + 1 : n \in EndsFrom(k) <=> TokenTo(k, n)
<1>1. ASSUME NEW n \in k + 1 .. Len(text) + 1 PROVE n \in EndsFrom(k) <=> TokenTo(k, n)
  BY TokenSlice DEF EndsFrom
<1> QED BY <1>1 DEF EndsFrom

LEMMA EndsAreMax ==
  ASSUME IsText, NEW k \in 1 .. Len(text), NEW n, Ends(k, n)
  PROVE  Max(EndsFrom(k)) = n /\ EndsFrom(k) # {} /\ n \in k + 1 .. Len(text) + 1
<1>1. EndsFrom(k) \in SUBSET (k + 1 .. Len(text) + 1)
  BY EndsFacts
<1>2. EndsFrom(k) \in SUBSET Int
  BY <1>1, TextFacts
<1>3. n \in EndsFrom(k) /\ \A y \in EndsFrom(k) : y <= n
  BY DEF Ends
<1>4. Max(EndsFrom(k)) = n
  BY <1>2, <1>3, MaxIs
<1> QED BY <1>1, <1>3, <1>4

\* The characters of a class from a position on.
Run(a, e, class) ==
  /\ e \in a .. Len(text) + 1 /\ AllAt(a, e, class)
  /\ e = Len(text) + 1 \/ text[e] \notin class

LEMMA RunIs ==
  ASSUME IsText, NEW a \in 1 .. Len(text) + 1, NEW class
  PROVE  Run(a, RunEnd(a, class), class)
<1> DEFINE S == {j \in a .. Len(text) + 1 : ~Is(j, class)}
<1>1. Len(text) \in Nat /\ DOMAIN text = 1 .. Len(text)
  BY TextFacts
<1>2. Len(text) + 1 \in S
  <2>1. Len(text) + 1 \in a .. Len(text) + 1 /\ Len(text) + 1 \notin 1 .. Len(text)
    BY <1>1
  <2> QED BY <1>1, <2>1 DEF Is
<1>3. \E e \in S : \A y \in S : e <= y
  <2>1. S \in SUBSET Nat
    BY <1>1
  <2> HIDE DEF S
  <2> QED BY <1>2, <2>1, LeastNumber
<1>4. RunEnd(a, class) = CHOOSE e \in S : \A y \in S : e <= y
  BY DEF RunEnd, Min
<1>5. PICK e : e = RunEnd(a, class)
  OBVIOUS
<1>6. e \in S /\ \A y \in S : e <= y
  BY <1>3, <1>4, <1>5
<1>7. e \in a .. Len(text) + 1 /\ ~Is(e, class)
  BY <1>6
<1>8. ASSUME NEW j \in a .. e - 1 PROVE text[j] \in class
  <2>1. j \in a .. Len(text) + 1 /\ ~(e <= j) /\ j \in 1 .. Len(text)
    BY <1>1, <1>7
  <2>2. j \notin S
    BY <1>6, <2>1
  <2> QED BY <2>1, <2>2 DEF Is
<1>9. e = Len(text) + 1 \/ text[e] \notin class
  <2>1. e # Len(text) + 1 => e \in 1 .. Len(text)
    BY <1>1, <1>7
  <2> QED BY <1>1, <1>7, <2>1 DEF Is
<1> QED BY <1>5, <1>7, <1>8, <1>9 DEF Run, AllAt

\* Nothing of the class goes beyond a run.
LEMMA RunIsLongest ==
  ASSUME IsText, NEW a \in 1 .. Len(text) + 1, NEW e, NEW class, Run(a, e, class),
         NEW n \in a .. Len(text) + 1, AllAt(a, n, class)
  PROVE  n <= e
<1>1. e \in a .. Len(text) + 1 /\ a \in Int /\ n \in Int /\ Len(text) \in Nat
  BY TextFacts DEF Run
<1>2. ASSUME e < n PROVE FALSE
  <2>1. e \in a .. n - 1 /\ e # Len(text) + 1
    BY <1>1, <1>2
  <2> QED BY <2>1 DEF Run, AllAt
<1> QED BY <1>1, <1>2
LEMMA DecimalFirst ==
  ASSUME NEW k \in Int, NEW n \in Int, DecimalAt(k, n)
  PROVE  k < n /\ text[k] \in Digit
<1>1. ASSUME NEW d \in Int, DigitsAt(k, d) PROVE k < d /\ text[k] \in Digit
  <2>1. k < d /\ k \in k .. d - 1
    BY <1>1 DEF DigitsAt
  <2> QED BY <1>1, <2>1 DEF DigitsAt, AllAt
<1>2. CASE DigitsAt(k, n)
  BY <1>1, <1>2
<1>3. CASE \E d \in k .. n - 1 : text[d] = "." /\ DigitsAt(k, d) /\ DigitsAt(d + 1, n)
  <2>1. PICK d \in k .. n - 1 : DigitsAt(k, d)
    BY <1>3
  <2>2. d \in Int /\ d < n
    OBVIOUS
  <2>3. k < d /\ text[k] \in Digit
    BY <1>1, <2>1, <2>2
  <2> QED BY <2>2, <2>3
<1> QED BY <1>2, <1>3 DEF DecimalAt

\* The first character tells what a token is.
LEMMA FirstTells ==
  ASSUME IsText, NEW k \in 1 .. Len(text), NEW n \in k + 1 .. Len(text) + 1
  PROVE  /\ text[k] \in Digit => (TokenTo(k, n) <=> DecimalAt(k, n))
         /\ text[k] \in Letter => (TokenTo(k, n) <=> AllAt(k, n, Letter \cup Digit))
         /\ text[k] \in Mark => (TokenTo(k, n) <=> n = k + 1)
         /\ text[k] = "." => (TokenTo(k, n) <=> DigitsAt(k + 1, n))
         /\ text[k] = "-" => (TokenTo(k, n) <=> NegativeAt(k, n) \/ n = k + 1)
         /\ text[k] = "'" => (TokenTo(k, n) <=> QuotedAt(k, n))
         /\ text[k] \notin Mark \cup {".", "-", "'"} \cup Digit \cup Letter => ~TokenTo(k, n)
<1>1. PICK c : c = text[k]
  OBVIOUS
<1>2. k \in Int /\ n \in Int
  BY TextFacts
<1>3. /\ QuotedAt(k, n) => c = "'"
      /\ FractionAt(k, n) => c = "."
      /\ DecimalAt(k, n) => c \in Digit
      /\ NegativeAt(k, n) => c = "-"
      /\ WordAt(k, n) => c \in Letter
  BY <1>1, <1>2, DecimalFirst DEF QuotedAt, FractionAt, NegativeAt, WordAt
<1>4. /\ FractionAt(k, n) <=> c = "." /\ DigitsAt(k + 1, n)
      /\ WordAt(k, n) <=> c \in Letter /\ AllAt(k, n, Letter \cup Digit)
  BY <1>1 DEF FractionAt, WordAt
<1>5. /\ c \in Digit => c \notin Letter \cup Mark \cup Blank /\ c \notin {".", "-", "'"}
      /\ c \in Letter => c \notin Mark \cup Blank /\ c \notin {".", "-", "'"}
      /\ c \in Mark => c \notin Blank /\ c \notin {".", "-", "'"}
  BY ClassesApart
<1>6. TokenTo(k, n) <=> \/ QuotedAt(k, n) \/ FractionAt(k, n) \/ DecimalAt(k, n)
                        \/ NegativeAt(k, n) \/ WordAt(k, n)
                        \/ n = k + 1 /\ c \in Mark \cup {"-"}
  BY <1>1 DEF TokenTo
<1>7. "." # "-" /\ "." # "'" /\ "-" # "'"
  OBVIOUS
<1> QED BY <1>1, <1>3, <1>4, <1>5, <1>6, <1>7
LEMMA SingleSlice ==
  ASSUME IsText, NEW k \in 1 .. Len(text), NEW n \in k + 1 .. Len(text) + 1
  PROVE  /\ n = k + 1 => Slice(k, n) = <<text[k]>>
         /\ \A c : Slice(k, n) = <<c>> => n = k + 1 /\ c = text[k]
<1>1. PICK s, t : s = Slice(k, n) /\ t = <<text[k]>>
  OBVIOUS
<1>2. s \in Seq(STRING) /\ Len(s) = n - k /\ s[1] = text[k]
  BY <1>1, SliceEnds
<1>3. text[k] \in STRING /\ k \in Int /\ n \in Int
  BY TextFacts
<1>4. t \in Seq(STRING) /\ Len(t) = 1 /\ t[1] = text[k]
  BY <1>1, <1>3
<1>5. ASSUME n = k + 1 PROVE s = t
  <2>1. Len(s) = Len(t) /\ \A i \in 1 .. Len(s) : s[i] = t[i]
    BY <1>2, <1>3, <1>4, <1>5
  <2> QED BY <1>2, <1>4, <2>1, SeqEqual
<1>6. ASSUME NEW c, s = <<c>> PROVE n = k + 1 /\ c = text[k]
  <2>1. Len(<<c>>) = 1 /\ <<c>>[1] = c
    OBVIOUS
  <2> QED BY <1>2, <1>3, <1>6, <2>1
<1> QED BY <1>1, <1>5, <1>6

\* The token of a slice, by its first character.
Literal(v) == [type |-> "literal", value |-> v]
LEMMA TokenIs ==
  ASSUME IsText, NEW k \in 1 .. Len(text), NEW n \in k + 1 .. Len(text) + 1, TokenTo(k, n)
  PROVE  /\ text[k] \in Digit => TokenAt(k, n) = Literal(Slice(k, n))
         /\ text[k] \in Letter =>
              TokenAt(k, n) = [type |-> IF Len(Slice(k, n)) = 1 /\ Slice(k, n)[1] \in DOMAIN KeywordType
                                        THEN KeywordType[Slice(k, n)[1]] ELSE "identifier",
                               value |-> Slice(k, n)]
         /\ text[k] \in Mark => TokenAt(k, n) = [type |-> MarkType[text[k]], value |-> <<text[k]>>]
         /\ text[k] = "." => TokenAt(k, n) = Literal(<<"0">> \o Slice(k, n))
         /\ text[k] = "-" /\ NegativeAt(k, n) => TokenAt(k, n) = Literal(Slice(k, n))
         /\ text[k] = "-" /\ ~NegativeAt(k, n) => TokenAt(k, n) = [type |-> "other", value |-> <<"-">>]
         /\ text[k] = "'" => TokenAt(k, n) = Literal(SubSeq(Slice(k, n), 2, Len(Slice(k, n)) - 1))
<1>1. PICK s, c : s = Slice(k, n) /\ c = text[k]
  OBVIOUS
<1>2. k \in Int /\ n \in Int /\ k \in 1 .. Len(text) + 1 /\ n \in k .. Len(text) + 1
  BY TextFacts
<1>3. s[1] = c /\ Len(s) = n - k
  BY <1>1, SliceEnds
<1>4. /\ Quoted(s) <=> QuotedAt(k, n)
      /\ Fraction(s) <=> FractionAt(k, n)
      /\ Decimal(s) <=> DecimalAt(k, n)
      /\ Negative(s) <=> NegativeAt(k, n)
  BY <1>1, <1>2, QuotedSlice, FractionSlice, DecimalSlice, NegativeSlice
<1>5. /\ Quoted(s) => c = "'"
      /\ Fraction(s) => c = "."
      /\ Decimal(s) => c \in Digit
      /\ Negative(s) => c = "-"
  BY <1>1, <1>2, <1>4, DecimalFirst DEF QuotedAt, FractionAt, NegativeAt
<1>6. /\ n = k + 1 => s = <<c>>
      /\ \A x : s = <<x>> => n = k + 1 /\ x = c
  BY <1>1, SingleSlice
<1>7. DOMAIN KeywordType \subseteq Letter
  BY DEF Letter
<1>8. /\ s \in {<<w>> : w \in DOMAIN KeywordType} <=> n = k + 1 /\ c \in DOMAIN KeywordType
      /\ s \in {<<m>> : m \in Mark} <=> n = k + 1 /\ c \in Mark
      /\ s = <<"-">> <=> n = k + 1 /\ c = "-"
  BY <1>6
<1>9. /\ c \in Digit => c \notin Letter \cup Mark \cup Blank /\ c \notin {".", "-", "'"}
      /\ c \in Letter => c \notin Mark \cup Blank /\ c \notin {".", "-", "'"}
      /\ c \in Mark => c \notin Blank /\ c \notin {".", "-", "'"}
  BY ClassesApart
<1>10. TokenAt(k, n) =
        CASE Quoted(s) -> [type |-> "literal", value |-> SubSeq(s, 2, Len(s) - 1)]
          [] Fraction(s) -> [type |-> "literal", value |-> <<"0">> \o s]
          [] Decimal(s) \/ Negative(s) -> [type |-> "literal", value |-> s]
          [] s \in {<<w>> : w \in DOMAIN KeywordType} -> [type |-> KeywordType[s[1]], value |-> s]
          [] s \in {<<m>> : m \in Mark} -> [type |-> MarkType[s[1]], value |-> s]
          [] s = <<"-">> -> [type |-> "other", value |-> s]
          [] OTHER -> [type |-> "identifier", value |-> s]
  BY <1>1 DEF TokenAt
<1>11. ASSUME c \in Digit PROVE TokenAt(k, n) = Literal(s)
  <2>1. Decimal(s)
    BY <1>1, <1>4, <1>11, FirstTells
  <2>2. ~Quoted(s) /\ ~Fraction(s) /\ s \notin {<<w>> : w \in DOMAIN KeywordType}
        /\ s \notin {<<m>> : m \in Mark} /\ s # <<"-">>
    BY <1>5, <1>7, <1>8, <1>9, <1>11
  <2> QED BY <1>10, <2>1, <2>2 DEF Literal
<1>12. ASSUME c \in Letter
       PROVE  TokenAt(k, n) =
                [type |-> IF Len(s) = 1 /\ s[1] \in DOMAIN KeywordType THEN KeywordType[s[1]] ELSE "identifier",
                 value |-> s]
  <2>1. ~Quoted(s) /\ ~Fraction(s) /\ ~Decimal(s) /\ ~Negative(s)
        /\ s \notin {<<m>> : m \in Mark} /\ s # <<"-">>
    BY <1>5, <1>8, <1>9, <1>12
  <2>2. s \in {<<w>> : w \in DOMAIN KeywordType} <=> Len(s) = 1 /\ s[1] \in DOMAIN KeywordType
    BY <1>2, <1>3, <1>8
  <2>3. CASE Len(s) = 1 /\ s[1] \in DOMAIN KeywordType
    BY <1>10, <2>1, <2>2, <2>3
  <2>4. CASE ~(Len(s) = 1 /\ s[1] \in DOMAIN KeywordType)
    BY <1>10, <2>1, <2>2, <2>4
  <2> QED BY <2>3, <2>4
<1>13. ASSUME c \in Mark PROVE TokenAt(k, n) = [type |-> MarkType[c], value |-> <<c>>]
  <2>1. n = k + 1
    BY <1>1, <1>13, FirstTells
  <2>2. ~Quoted(s) /\ ~Fraction(s) /\ ~Decimal(s) /\ ~Negative(s)
        /\ s \notin {<<w>> : w \in DOMAIN KeywordType} /\ s # <<"-">>
    BY <1>5, <1>7, <1>8, <1>9, <1>13
  <2>3. s \in {<<m>> : m \in Mark} /\ s = <<c>>
    BY <1>6, <1>8, <1>13, <2>1
  <2>4. TokenAt(k, n) = [type |-> MarkType[s[1]], value |-> s]
    BY <1>10, <2>2, <2>3
  <2> QED BY <1>3, <2>3, <2>4
<1>14. ASSUME c = "." PROVE TokenAt(k, n) = Literal(<<"0">> \o s)
  <2>1. Fraction(s)
    BY <1>1, <1>4, <1>14, FirstTells DEF FractionAt
  <2>2. ~Quoted(s) /\ ~Decimal(s) /\ ~Negative(s)
        /\ s \notin {<<w>> : w \in DOMAIN KeywordType}
        /\ s \notin {<<m>> : m \in Mark} /\ s # <<"-">>
    BY <1>5, <1>7, <1>8, <1>9, <1>14
  <2> QED BY <1>10, <2>1, <2>2 DEF Literal
<1>15. ASSUME c = "-", NegativeAt(k, n) PROVE TokenAt(k, n) = Literal(s)
  <2>1. Negative(s) /\ n # k + 1
    BY <1>2, <1>4, <1>15 DEF NegativeAt
  <2>2. ~Quoted(s) /\ ~Fraction(s)
        /\ s \notin {<<w>> : w \in DOMAIN KeywordType}
        /\ s \notin {<<m>> : m \in Mark} /\ s # <<"-">>
    BY <1>5, <1>8, <1>15, <2>1
  <2> QED BY <1>10, <2>1, <2>2 DEF Literal
<1>16. ASSUME c = "-", ~NegativeAt(k, n) PROVE TokenAt(k, n) = [type |-> "other", value |-> <<"-">>]
  <2>1. n = k + 1
    BY <1>1, <1>16, FirstTells
  <2>2. ~Quoted(s) /\ ~Fraction(s) /\ ~Decimal(s) /\ ~Negative(s)
        /\ s \notin {<<w>> : w \in DOMAIN KeywordType}
        /\ s \notin {<<m>> : m \in Mark}
    BY <1>4, <1>5, <1>7, <1>8, <1>9, <1>16
  <2>3. s = <<"-">>
    BY <1>8, <1>16, <2>1
  <2>4. TokenAt(k, n) = [type |-> "other", value |-> s]
    BY <1>10, <2>2, <2>3
  <2> QED BY <2>3, <2>4
<1>17. ASSUME c = "'" PROVE TokenAt(k, n) = Literal(SubSeq(s, 2, Len(s) - 1))
  <2>1. Quoted(s)
    BY <1>1, <1>4, <1>17, FirstTells
  <2>2. ~Fraction(s) /\ ~Decimal(s) /\ ~Negative(s)
        /\ s \notin {<<w>> : w \in DOMAIN KeywordType}
        /\ s \notin {<<m>> : m \in Mark} /\ s # <<"-">>
    BY <1>5, <1>7, <1>8, <1>9, <1>17
  <2> QED BY <1>10, <2>1, <2>2 DEF Literal
<1> QED BY <1>1, <1>11, <1>12, <1>13, <1>14, <1>15, <1>16, <1>17
-----------------------------------------------------------------------------
(* Where the longest token ends.                                           *)

LEMMA EndsIs ==
  ASSUME IsText, NEW k \in 1 .. Len(text), NEW n \in k + 1 .. Len(text) + 1, TokenTo(k, n),
         \A m \in k + 1 .. Len(text) + 1 : TokenTo(k, m) => m <= n
  PROVE  Ends(k, n)
  BY EndsFacts DEF Ends

LEMMA NoEnds ==
  ASSUME IsText, NEW k \in 1 .. Len(text), \A m \in k + 1 .. Len(text) + 1 : ~TokenTo(k, m)
  PROVE  EndsFrom(k) = {}
  BY EndsFacts

LEMMA MarkEnds ==
  ASSUME IsText, NEW k \in 1 .. Len(text), text[k] \in Mark
  PROVE  Ends(k, k + 1)
<1>1. k + 1 \in k + 1 .. Len(text) + 1
  BY TextFacts
<1>2. \A m \in k + 1 .. Len(text) + 1 : TokenTo(k, m) <=> m = k + 1
  BY FirstTells
<1> QED BY <1>1, <1>2, EndsIs, TextFacts

LEMMA FractionEnds ==
  ASSUME IsText, NEW k \in 1 .. Len(text), text[k] = "."
  PROVE  /\ Is(k + 1, Digit) => Ends(k, RunEnd(k + 1, Digit))
         /\ ~Is(k + 1, Digit) => EndsFrom(k) = {}
<1>1. \A m \in k + 1 .. Len(text) + 1 : TokenTo(k, m) <=> DigitsAt(k + 1, m)
  BY FirstTells
<1>2. Len(text) \in Nat /\ DOMAIN text = 1 .. Len(text) /\ k + 1 \in 1 .. Len(text) + 1
  BY TextFacts
<1>3. ASSUME Is(k + 1, Digit) PROVE Ends(k, RunEnd(k + 1, Digit))
  <2>1. PICK e : e = RunEnd(k + 1, Digit)
    OBVIOUS
  <2>2. Run(k + 1, e, Digit)
    BY <1>2, <2>1, RunIs
  <2>3. e \in k + 1 .. Len(text) + 1 /\ AllAt(k + 1, e, Digit) /\ (e = Len(text) + 1 \/ text[e] \notin Digit)
    BY <2>2 DEF Run
  <2>4. e # k + 1
    BY <1>2, <1>3, <2>3 DEF Is
  <2>5. DigitsAt(k + 1, e)
    BY <1>2, <2>3, <2>4 DEF DigitsAt
  <2>6. ASSUME NEW m \in k + 1 .. Len(text) + 1, TokenTo(k, m) PROVE m <= e
    <3>1. AllAt(k + 1, m, Digit)
      BY <1>1, <2>6 DEF DigitsAt
    <3> QED BY <1>2, <2>2, <3>1, RunIsLongest
  <2>7. Ends(k, e)
    BY <1>1, <2>3, <2>5, <2>6, EndsIs
  <2> QED BY <2>1, <2>7
<1>4. ASSUME ~Is(k + 1, Digit), NEW m \in k + 1 .. Len(text) + 1 PROVE ~TokenTo(k, m)
  <2>1. ASSUME DigitsAt(k + 1, m) PROVE FALSE
    <3>1. k + 1 < m /\ k + 1 \in k + 1 .. m - 1 /\ k + 1 \in 1 .. Len(text)
      BY <1>2, <2>1 DEF DigitsAt
    <3>2. text[k + 1] \in Digit
      BY <2>1, <3>1 DEF DigitsAt, AllAt
    <3> QED BY <1>2, <1>4, <3>1, <3>2 DEF Is
  <2> QED BY <1>1, <2>1
<1>5. ~Is(k + 1, Digit) => EndsFrom(k) = {}
  BY <1>4, NoEnds
<1> QED BY <1>3, <1>5

LEMMA WordEnds ==
  ASSUME IsText, NEW k \in 1 .. Len(text), text[k] \in Letter
  PROVE  Ends(k, RunEnd(k, Letter \cup Digit))
<1>1. \A m \in k + 1 .. Len(text) + 1 : TokenTo(k, m) <=> AllAt(k, m, Letter \cup Digit)
  BY FirstTells
<1>2. Len(text) \in Nat /\ k \in 1 .. Len(text) + 1
  BY TextFacts
<1>3. PICK e, class : e = RunEnd(k, class) /\ class = Letter \cup Digit
  OBVIOUS
<1>4. Run(k, e, class)
  BY <1>2, <1>3, RunIs
<1>5. e \in k .. Len(text) + 1 /\ AllAt(k, e, class) /\ (e = Len(text) + 1 \/ text[e] \notin class)
  BY <1>4 DEF Run
<1>6. e # k
  BY <1>2, <1>3, <1>5
<1>7. e \in k + 1 .. Len(text) + 1
  BY <1>2, <1>5, <1>6
<1>8. ASSUME NEW m \in k + 1 .. Len(text) + 1, TokenTo(k, m) PROVE m <= e
  <2>1. AllAt(k, m, class) /\ m \in k .. Len(text) + 1
    <3>1. AllAt(k, m, Letter \cup Digit)
      BY <1>1, <1>8
    <3>2. m \in k .. Len(text) + 1
      BY <1>2
    <3> QED BY <1>3, <3>1, <3>2
  <2> QED BY <1>2, <1>4, <2>1, RunIsLongest
<1>9. Ends(k, e)
  BY <1>1, <1>3, <1>5, <1>7, <1>8, EndsIs
<1> QED BY <1>3, <1>9

LEMMA QuotedEnds ==
  ASSUME IsText, NEW k \in 1 .. Len(text), text[k] = "'"
  PROVE  /\ \A e \in k + 1 .. Len(text) :
              Is(e, {"'"}) /\ (\A j \in k + 1 .. e - 1 : ~Is(j, {"'"})) => Ends(k, e + 1)
         /\ (\A j \in k + 1 .. Len(text) : ~Is(j, {"'"})) => EndsFrom(k) = {}
<1>1. \A m \in k + 1 .. Len(text) + 1 : TokenTo(k, m) <=> QuotedAt(k, m)
  BY FirstTells
<1>2. Len(text) \in Nat /\ \A j \in 1 .. Len(text) : Is(j, {"'"}) <=> text[j] = "'"
  BY TextFacts DEF Is
<1>3. ASSUME NEW e \in k + 1 .. Len(text), Is(e, {"'"}), \A j \in k + 1 .. e - 1 : ~Is(j, {"'"})
      PROVE  Ends(k, e + 1)
  <2>1. /\ e + 1 \in k + 1 .. Len(text) + 1 /\ (e + 1) - 1 = e /\ (e + 1) - 2 = e - 1
        /\ k + 1 < e + 1 /\ e \in 1 .. Len(text)
        /\ \A j \in k + 1 .. e - 1 : j \in 1 .. Len(text)
    BY <1>2
  <2>2. text[e] = "'" /\ \A j \in k + 1 .. e - 1 : text[j] # "'"
    BY <1>2, <1>3, <2>1
  <2>3. QuotedAt(k, e + 1)
    BY <2>1, <2>2 DEF QuotedAt
  <2>4. ASSUME NEW m \in k + 1 .. Len(text) + 1, TokenTo(k, m) PROVE m <= e + 1
    <3>1. QuotedAt(k, m)
      BY <1>1, <2>4
    <3>2. ASSUME e + 1 < m PROVE FALSE
      <4>1. e \in k + 1 .. m - 2
        BY <1>2, <3>2
      <4> QED BY <2>2, <3>1, <4>1 DEF QuotedAt
    <3> QED BY <1>2, <3>2
  <2> QED BY <1>1, <2>1, <2>3, <2>4, EndsIs
<1>4. ASSUME \A j \in k + 1 .. Len(text) : ~Is(j, {"'"}), NEW m \in k + 1 .. Len(text) + 1
      PROVE  ~TokenTo(k, m)
  <2>1. ASSUME QuotedAt(k, m) PROVE FALSE
    <3>1. m - 1 \in k + 1 .. Len(text) /\ m - 1 \in 1 .. Len(text)
      BY <1>2, <2>1 DEF QuotedAt
    <3>2. text[m - 1] = "'"
      BY <2>1 DEF QuotedAt
    <3> QED BY <1>2, <1>4, <3>1, <3>2
  <2> QED BY <1>1, <2>1
<1>5. (\A j \in k + 1 .. Len(text) : ~Is(j, {"'"})) => EndsFrom(k) = {}
  BY <1>4, NoEnds
<1> QED BY <1>3, <1>5
\* A decimal ends with its digits, or with those behind the dot there.
LEMMA DecimalEnds ==
  ASSUME IsText, NEW k \in 1 .. Len(text), text[k] \in Digit, NEW dot, Run(k, dot, Digit)
  PROVE  /\ dot \in k + 1 .. Len(text) + 1 /\ DigitsAt(k, dot)
         /\ \A m \in k + 1 .. Len(text) + 1 : DecimalAt(k, m) =>
              \/ m <= dot
              \/ dot \in 1 .. Len(text) /\ text[dot] = "." /\ DigitsAt(dot + 1, m)
<1>1. Len(text) \in Nat /\ k \in 1 .. Len(text) + 1
  BY TextFacts
<1>2. dot \in k .. Len(text) + 1 /\ AllAt(k, dot, Digit) /\ (dot = Len(text) + 1 \/ text[dot] \notin Digit)
  BY DEF Run
<1>3. dot # k
  BY <1>1, <1>2
<1>4. dot \in k + 1 .. Len(text) + 1 /\ DigitsAt(k, dot)
  BY <1>1, <1>2, <1>3 DEF DigitsAt
<1>5. ASSUME NEW m \in k .. Len(text) + 1, DigitsAt(k, m) PROVE m <= dot
  <2>1. AllAt(k, m, Digit)
    BY <1>5 DEF DigitsAt
  <2> QED BY <1>1, <2>1, RunIsLongest
<1>6. ASSUME NEW m \in k + 1 .. Len(text) + 1, NEW d \in k .. m - 1,
             text[d] = ".", DigitsAt(k, d), DigitsAt(d + 1, m)
      PROVE  dot \in 1 .. Len(text) /\ text[dot] = "." /\ DigitsAt(dot + 1, m)
  <2>1. d \in k .. Len(text) + 1 /\ d \in 1 .. Len(text)
    BY <1>1
  <2>2. d <= dot
    BY <1>5, <1>6, <2>1
  <2>3. "." \notin Digit
    BY DEF Digit
  <2>4. ~(d < dot)
    <3>1. d < dot => d \in k .. dot - 1
      BY <1>1, <1>2
    <3> QED BY <1>2, <1>6, <2>3, <3>1 DEF AllAt
  <2>5. d = dot
    BY <1>1, <1>2, <2>2, <2>4
  <2> QED BY <1>6, <2>1, <2>5
<1>7. ASSUME NEW m \in k + 1 .. Len(text) + 1, DecimalAt(k, m)
      PROVE  \/ m <= dot
             \/ dot \in 1 .. Len(text) /\ text[dot] = "." /\ DigitsAt(dot + 1, m)
  <2>1. CASE DigitsAt(k, m)
    <3>1. m \in k .. Len(text) + 1
      BY <1>1
    <3> QED BY <1>5, <2>1, <3>1
  <2>2. CASE \E d \in k .. m - 1 : text[d] = "." /\ DigitsAt(k, d) /\ DigitsAt(d + 1, m)
    BY <1>6, <2>2
  <2> QED BY <1>7, <2>1, <2>2 DEF DecimalAt
<1> QED BY <1>4, <1>7

LEMMA NumberEnds ==
  ASSUME IsText, NEW k \in 1 .. Len(text), text[k] \in Digit
  PROVE  Ends(k, NumberEnd(k))
<1>1. \A m \in k + 1 .. Len(text) + 1 : TokenTo(k, m) <=> DecimalAt(k, m)
  BY FirstTells
<1>2. Len(text) \in Nat /\ k \in 1 .. Len(text) + 1 /\ DOMAIN text = 1 .. Len(text)
  BY TextFacts
<1>3. PICK dot : dot = RunEnd(k, Digit)
  OBVIOUS
<1>4. Run(k, dot, Digit)
  BY <1>2, <1>3, RunIs
<1>5. /\ dot \in k + 1 .. Len(text) + 1 /\ DigitsAt(k, dot)
      /\ \A m \in k + 1 .. Len(text) + 1 : DecimalAt(k, m) =>
           \/ m <= dot
           \/ dot \in 1 .. Len(text) /\ text[dot] = "." /\ DigitsAt(dot + 1, m)
  BY <1>4, DecimalEnds
<1>6. CASE Is(dot, {"."}) /\ Is(dot + 1, Digit)
  <2>1. PICK e : e = RunEnd(dot + 1, Digit)
    OBVIOUS
  <2>2. /\ dot \in 1 .. Len(text) /\ text[dot] = "." /\ dot + 1 \in 1 .. Len(text)
        /\ text[dot + 1] \in Digit /\ dot + 1 \in 1 .. Len(text) + 1
    BY <1>2, <1>6 DEF Is
  <2>3. Run(dot + 1, e, Digit)
    BY <2>1, <2>2, RunIs
  <2>4. e \in dot + 1 .. Len(text) + 1 /\ AllAt(dot + 1, e, Digit) /\ (e = Len(text) + 1 \/ text[e] \notin Digit)
    BY <2>3 DEF Run
  <2>5. e # dot + 1
    BY <1>2, <2>2, <2>4
  <2>6. DigitsAt(dot + 1, e)
    BY <1>2, <2>2, <2>4, <2>5 DEF DigitsAt
  <2>7. dot \in k .. e - 1 /\ e \in k + 1 .. Len(text) + 1
    BY <1>2, <1>5, <2>2, <2>4, <2>5
  <2>8. DecimalAt(k, e)
    BY <1>5, <2>2, <2>6, <2>7 DEF DecimalAt
  <2>9. ASSUME NEW m \in k + 1 .. Len(text) + 1, TokenTo(k, m) PROVE m <= e
    <3>1. m <= dot \/ DigitsAt(dot + 1, m)
      BY <1>1, <1>5, <2>9
    <3>2. CASE m <= dot
      BY <1>2, <2>2, <2>4, <3>2
    <3>3. CASE DigitsAt(dot + 1, m)
      <4>1. m \in dot + 1 .. Len(text) + 1 /\ AllAt(dot + 1, m, Digit)
        BY <1>2, <2>2, <3>3 DEF DigitsAt
      <4> QED BY <2>2, <2>3, <4>1, RunIsLongest
    <3> QED BY <3>1, <3>2, <3>3
  <2>10. Ends(k, e)
    BY <1>1, <2>7, <2>8, <2>9, EndsIs
  <2> QED BY <1>3, <1>6, <2>1, <2>10 DEF NumberEnd
<1>7. CASE ~(Is(dot, {"."}) /\ Is(dot + 1, Digit))
  <2>1. DecimalAt(k, dot)
    BY <1>5 DEF DecimalAt
  <2>2. ASSUME NEW m \in k + 1 .. Len(text) + 1, TokenTo(k, m) PROVE m <= dot
    <3>1. ASSUME dot \in 1 .. Len(text), text[dot] = ".", DigitsAt(dot + 1, m) PROVE FALSE
      <4>1. dot + 1 \in dot + 1 .. m - 1 /\ dot + 1 \in 1 .. Len(text)
        BY <1>2, <3>1 DEF DigitsAt
      <4>2. text[dot + 1] \in Digit
        BY <3>1, <4>1 DEF DigitsAt, AllAt
      <4> QED BY <1>2, <1>7, <3>1, <4>1, <4>2 DEF Is
    <3> QED BY <1>1, <1>5, <2>2, <3>1
  <2>3. Ends(k, dot)
    BY <1>1, <1>5, <2>1, <2>2, EndsIs
  <2> QED BY <1>3, <1>7, <2>3 DEF NumberEnd
<1> QED BY <1>6, <1>7
\* What a minus begins.
LEMMA MinusDigitEnds ==
  ASSUME IsText, NEW k \in 1 .. Len(text), text[k] = "-", Is(k + 1, Digit),
         NEW dot, dot = RunEnd(k + 1, Digit),
         NEW e, e = IF Is(dot, {"."}) THEN RunEnd(dot + 1, Digit) ELSE dot
  PROVE  Ends(k, e) /\ NegativeAt(k, e)
<1>1. \A m \in k + 1 .. Len(text) + 1 : TokenTo(k, m) <=> NegativeAt(k, m) \/ m = k + 1
  BY FirstTells
<1>2. /\ Len(text) \in Nat /\ DOMAIN text = 1 .. Len(text)
      /\ k + 1 \in 1 .. Len(text) /\ k + 1 \in 1 .. Len(text) + 1 /\ text[k + 1] \in Digit
  BY TextFacts DEF Is
<1>3. PICK b : b = k + 1
  OBVIOUS
<1>4. Run(b, dot, Digit) /\ b \in 1 .. Len(text) /\ text[b] \in Digit
  BY <1>2, <1>3, RunIs
<1>5. /\ dot \in b + 1 .. Len(text) + 1 /\ DigitsAt(b, dot)
      /\ \A m \in b + 1 .. Len(text) + 1 : DecimalAt(b, m) =>
           \/ m <= dot
           \/ dot \in 1 .. Len(text) /\ text[dot] = "." /\ DigitsAt(dot + 1, m)
  BY <1>4, DecimalEnds
<1>6. "." \notin Digit
  BY DEF Digit
<1>7. ASSUME NEW m \in k + 1 .. Len(text) + 1, TokenTo(k, m)
      PROVE  \/ m <= dot
             \/ /\ dot \in 1 .. Len(text) /\ text[dot] = "."
                /\ DigitsAt(dot + 1, m) \/ m = dot + 1
  <2>1. CASE m = k + 1
    BY <1>2, <1>3, <1>5, <2>1
  <2>2. CASE m # k + 1
    <3>1. NegativeAt(k, m) /\ m \in b + 1 .. Len(text) + 1
      BY <1>1, <1>2, <1>3, <1>7, <2>2
    <3>2. DecimalAt(b, m) \/ (text[m - 1] = "." /\ DigitsAt(b, m - 1))
      BY <1>3, <1>4, <1>6, <3>1 DEF NegativeAt
    <3>3. ASSUME text[m - 1] = ".", DigitsAt(b, m - 1)
          PROVE  dot \in 1 .. Len(text) /\ text[dot] = "." /\ m = dot + 1
      <4>1. PICK d : d = m - 1
        OBVIOUS
      <4>2. d \in b .. Len(text) + 1 /\ d \in 1 .. Len(text) /\ b \in 1 .. Len(text) + 1
        BY <1>2, <1>3, <3>1, <4>1
      <4>3. AllAt(b, d, Digit)
        BY <3>3, <4>1 DEF DigitsAt
      <4>4. d <= dot
        BY <1>4, <4>2, <4>3, RunIsLongest
      <4>5. ~(d < dot)
        <5>1. d < dot => d \in b .. dot - 1
          BY <1>2, <1>3, <1>5, <4>2
        <5> QED BY <1>5, <1>6, <3>3, <4>1, <5>1 DEF DigitsAt, AllAt
      <4>6. d = dot /\ m = dot + 1
        BY <1>2, <1>3, <1>5, <4>1, <4>2, <4>4, <4>5
      <4> QED BY <3>3, <4>1, <4>2, <4>6
    <3> QED BY <1>5, <3>1, <3>2, <3>3
  <2> QED BY <2>1, <2>2
<1>8. CASE Is(dot, {"."})
  <2>1. e = RunEnd(dot + 1, Digit)
    BY <1>8
  <2>2. dot \in 1 .. Len(text) /\ text[dot] = "." /\ dot + 1 \in 1 .. Len(text) + 1
    BY <1>2, <1>8 DEF Is
  <2>3. Run(dot + 1, e, Digit)
    BY <2>1, <2>2, RunIs
  <2>4. e \in dot + 1 .. Len(text) + 1 /\ AllAt(dot + 1, e, Digit)
    BY <2>3 DEF Run
  <2>5. e \in k + 1 .. Len(text) + 1 /\ k + 1 < e /\ e \in Int /\ k \in Int
    BY <1>2, <1>3, <1>5, <2>2, <2>4
  <2>6. NegativeAt(k, e)
    <3>1. CASE e = dot + 1
      <4>1. e - 1 = dot
        BY <2>2, <3>1
      <4>2. text[e - 1] = "." /\ DigitsAt(k + 1, e - 1)
        BY <1>3, <1>5, <2>2, <4>1
      <4> QED BY <2>5, <4>2 DEF NegativeAt
    <3>2. CASE e # dot + 1
      <4>1. DigitsAt(dot + 1, e) /\ dot \in b .. e - 1
        BY <1>2, <1>3, <1>5, <2>2, <2>4, <3>2 DEF DigitsAt
      <4>2. DecimalAt(b, e)
        BY <1>5, <2>2, <4>1 DEF DecimalAt
      <4> QED BY <1>3, <2>5, <4>2 DEF NegativeAt
    <3> QED BY <3>1, <3>2
  <2>7. ASSUME NEW m \in k + 1 .. Len(text) + 1, TokenTo(k, m) PROVE m <= e
    <3>1. m <= dot \/ DigitsAt(dot + 1, m) \/ m = dot + 1
      BY <1>7, <2>7
    <3>2. CASE m <= dot \/ m = dot + 1
      BY <1>2, <2>2, <2>4, <3>2
    <3>3. CASE DigitsAt(dot + 1, m)
      <4>1. m \in dot + 1 .. Len(text) + 1 /\ AllAt(dot + 1, m, Digit)
        BY <1>2, <2>2, <3>3 DEF DigitsAt
      <4> QED BY <2>2, <2>3, <4>1, RunIsLongest
    <3> QED BY <3>1, <3>2, <3>3
  <2> QED BY <1>1, <2>5, <2>6, <2>7, EndsIs
<1>9. CASE ~Is(dot, {"."})
  <2>1. e = dot
    BY <1>9
  <2>2. e \in k + 1 .. Len(text) + 1 /\ k + 1 < e
    BY <1>2, <1>3, <1>5, <2>1
  <2>3. DecimalAt(k + 1, e)
    BY <1>3, <1>5, <2>1 DEF DecimalAt
  <2>4. NegativeAt(k, e)
    BY <2>2, <2>3 DEF NegativeAt
  <2>5. ~(dot \in 1 .. Len(text) /\ text[dot] = ".")
    BY <1>2, <1>9 DEF Is
  <2>6. ASSUME NEW m \in k + 1 .. Len(text) + 1, TokenTo(k, m) PROVE m <= e
    BY <1>7, <2>1, <2>5, <2>6
  <2> QED BY <1>1, <2>2, <2>4, <2>6, EndsIs
<1> QED BY <1>8, <1>9

LEMMA MinusDotEnds ==
  ASSUME IsText, NEW k \in 1 .. Len(text), text[k] = "-", Is(k + 1, {"."}),
         NEW e, e = RunEnd(k + 2, Digit)
  PROVE  Ends(k, e) /\ NegativeAt(k, e)
<1>1. \A m \in k + 1 .. Len(text) + 1 : TokenTo(k, m) <=> NegativeAt(k, m) \/ m = k + 1
  BY FirstTells
<1>2. /\ Len(text) \in Nat /\ DOMAIN text = 1 .. Len(text) /\ k \in Int
      /\ k + 1 \in 1 .. Len(text) /\ k + 2 \in 1 .. Len(text) + 1 /\ text[k + 1] = "."
  BY TextFacts DEF Is
<1>3. Run(k + 2, e, Digit)
  BY <1>2, RunIs
<1>4. e \in k + 2 .. Len(text) + 1 /\ AllAt(k + 2, e, Digit)
  BY <1>3 DEF Run
<1>5. NegativeAt(k, e) /\ e \in k + 1 .. Len(text) + 1
  <2>1. k + 1 < e /\ e \in k + 1 .. Len(text) + 1
    BY <1>2, <1>4
  <2> QED BY <1>2, <1>4, <2>1 DEF NegativeAt
<1>6. "." \notin Digit
  BY DEF Digit
<1>7. ASSUME NEW m \in k + 1 .. Len(text) + 1, TokenTo(k, m) PROVE m <= e
  <2>1. CASE m = k + 1
    BY <1>2, <1>4, <2>1
  <2>2. CASE m # k + 1
    <3>1. NegativeAt(k, m) /\ m \in k + 2 .. Len(text) + 1 /\ m \in Int /\ m - 1 \in Int
      BY <1>1, <1>2, <1>7, <2>2
    <3>2. ~DecimalAt(k + 1, m)
      BY <1>2, <1>6, <3>1, DecimalFirst
    <3>3. ~DigitsAt(k + 1, m - 1)
      <4>1. ~DecimalAt(k + 1, m - 1)
        BY <1>2, <1>6, <3>1, DecimalFirst
      <4> QED BY <4>1 DEF DecimalAt
    <3>4. AllAt(k + 2, m, Digit)
      BY <3>1, <3>2, <3>3 DEF NegativeAt
    <3> QED BY <1>2, <1>3, <3>1, <3>4, RunIsLongest
  <2> QED BY <2>1, <2>2
<1> QED BY <1>1, <1>5, <1>7, EndsIs

LEMMA MinusEnds ==
  ASSUME IsText, NEW k \in 1 .. Len(text), text[k] = "-", ~Is(k + 1, Digit \cup {"."})
  PROVE  Ends(k, k + 1) /\ ~NegativeAt(k, k + 1)
<1>1. \A m \in k + 1 .. Len(text) + 1 : TokenTo(k, m) <=> NegativeAt(k, m) \/ m = k + 1
  BY FirstTells
<1>2. /\ Len(text) \in Nat /\ DOMAIN text = 1 .. Len(text) /\ k \in Int
      /\ k + 1 \in k + 1 .. Len(text) + 1
  BY TextFacts
<1>3. ASSUME NEW m \in k + 1 .. Len(text) + 1 PROVE ~NegativeAt(k, m)
  <2>1. ASSUME NegativeAt(k, m) PROVE FALSE
    <3>1. k + 1 < m /\ m \in Int /\ m - 1 \in Int /\ k + 1 \in 1 .. Len(text)
      BY <1>2, <2>1 DEF NegativeAt
    <3>2. text[k + 1] \notin Digit /\ text[k + 1] # "."
      BY <1>2, <3>1 DEF Is
    <3>3. ~DecimalAt(k + 1, m)
      BY <1>2, <3>1, <3>2, DecimalFirst
    <3>4. ~DigitsAt(k + 1, m - 1)
      <4>1. ~DecimalAt(k + 1, m - 1)
        BY <1>2, <3>1, <3>2, DecimalFirst
      <4> QED BY <4>1 DEF DecimalAt
    <3> QED BY <2>1, <3>2, <3>3, <3>4 DEF NegativeAt
  <2> QED BY <2>1
<1>4. ASSUME NEW m \in k + 1 .. Len(text) + 1, TokenTo(k, m) PROVE m <= k + 1
  BY <1>1, <1>2, <1>3, <1>4
<1> QED BY <1>1, <1>2, <1>3, <1>4, EndsIs
-----------------------------------------------------------------------------
(* The tokens from a position on, by the recursion of ReferenceTokens.     *)

LEMMA GreatestNumber ==
  ASSUME NEW T \in SUBSET Nat, T # {}, NEW b \in Nat, \A x \in T : x <= b
  PROVE  \E x \in T : \A y \in T : y <= x
<1> DEFINE U == {b - x : x \in T}
<1>1. \A x \in T : x \in Nat /\ b - x \in Nat
  OBVIOUS
<1>2. U \in SUBSET Nat
  BY <1>1
<1>3. U # {}
  <2>1. PICK x \in T : TRUE
    OBVIOUS
  <2>2. b - x \in U
    BY <2>1
  <2> QED BY <2>2
<1> HIDE DEF U
<1>4. PICK u \in U : \A v \in U : u <= v
  BY <1>2, <1>3, LeastNumber
<1>5. PICK x \in T : u = b - x
  BY DEF U
<1>6. ASSUME NEW y \in T PROVE y <= x
  <2>1. b - x <= b - y
    BY <1>4, <1>5 DEF U
  <2>2. x \in Nat /\ y \in Nat
    BY <1>1
  <2> QED BY <2>1, <2>2
<1> QED BY <1>6

LEMMA LastEnd ==
  ASSUME IsText, NEW k \in 1 .. Len(text), EndsFrom(k) # {}
  PROVE  Ends(k, Max(EndsFrom(k))) /\ Max(EndsFrom(k)) \in k + 1 .. Len(text) + 1
<1>1. EndsFrom(k) \in SUBSET (k + 1 .. Len(text) + 1) /\ Len(text) \in Nat
  BY EndsFacts, TextFacts
<1>2. PICK S : S = EndsFrom(k)
  OBVIOUS
<1>3. S \in SUBSET Nat /\ S # {} /\ \A x \in S : x <= Len(text) + 1
  BY <1>1, <1>2
<1>4. PICK n \in S : \A y \in S : y <= n
  <2>1. Len(text) + 1 \in Nat
    BY <1>1
  <2> QED BY <1>3, <2>1, GreatestNumber
<1>5. Ends(k, n)
  BY <1>2, <1>4 DEF Ends
<1> QED BY <1>5, EndsAreMax

Body(f, k) ==
  IF k > Len(text) THEN <<>>
  ELSE IF Is(k, Blank) THEN f[k + 1]
  ELSE IF EndsFrom(k) = {} THEN <<Nothing>>
  ELSE <<TokenAt(k, Max(EndsFrom(k)))>> \o f[Max(EndsFrom(k))]

\* A function that reads the text from a position on.
Reads(f, m) == f = [k \in m .. Len(text) + 1 |-> Body(f, k)]

LEMMA BodyLooksAhead ==
  ASSUME IsText, NEW k \in 1 .. Len(text) + 1, NEW f, NEW g,
         \A j \in k + 1 .. Len(text) + 1 : f[j] = g[j]
  PROVE  Body(f, k) = Body(g, k)
<1>1. CASE k > Len(text)
  BY <1>1 DEF Body
<1>2. CASE ~(k > Len(text))
  <2>1. k \in 1 .. Len(text) /\ k + 1 \in k + 1 .. Len(text) + 1
    BY <1>2, TextFacts
  <2>2. f[k + 1] = g[k + 1]
    BY <2>1
  <2>3. EndsFrom(k) # {} => f[Max(EndsFrom(k))] = g[Max(EndsFrom(k))]
    BY <2>1, LastEnd
  <2> QED BY <2>2, <2>3 DEF Body
<1> QED BY <1>1, <1>2

LEMMA ReaderExists ==
  ASSUME IsText
  PROVE  \E f : Reads(f, 1)
<1> DEFINE Bad == {m \in 1 .. Len(text) + 1 : ~ \E f : Reads(f, m)}
<1>1. Len(text) \in Nat
  BY TextFacts
<1>2. ASSUME Bad # {} PROVE FALSE
  <2>1. PICK m \in Bad : \A j \in Bad : j <= m
    <3>1. Bad \in SUBSET Nat /\ (\A x \in Bad : x <= Len(text) + 1) /\ Len(text) + 1 \in Nat
      BY <1>1
    <3> HIDE DEF Bad
    <3> QED BY <1>2, <3>1, GreatestNumber
  <2>2. m \in 1 .. Len(text) + 1 /\ ~ \E f : Reads(f, m)
    OBVIOUS
  <2>3. CASE m = Len(text) + 1
    <3> DEFINE f == [k \in m .. Len(text) + 1 |-> <<>>]
    <3>1. ASSUME NEW k \in m .. Len(text) + 1 PROVE Body(f, k) = <<>>
      <4>1. k > Len(text)
        BY <1>1, <2>3
      <4> QED BY <4>1 DEF Body
    <3>2. Reads(f, m)
      BY <3>1 DEF Reads
    <3> QED BY <2>2, <3>2
  <2>4. CASE m # Len(text) + 1
    <3>1. m + 1 \in 1 .. Len(text) + 1 /\ ~(m + 1 <= m)
      BY <1>1, <2>2, <2>4
    <3>2. PICK f : Reads(f, m + 1)
      BY <2>1, <3>1
    <3> DEFINE first == Body(f, m)
               g == [k \in m .. Len(text) + 1 |-> IF k = m THEN first ELSE f[k]]
    <3>3. \A k \in m .. Len(text) + 1 : g[k] = IF k = m THEN first ELSE f[k]
      OBVIOUS
    <3>4. g = [k \in m .. Len(text) + 1 |-> g[k]]
      OBVIOUS
    <3>5. \A k \in m + 1 .. Len(text) + 1 : f[k] = Body(f, k)
      BY <3>2 DEF Reads
    <3>6. first = Body(f, m)
      OBVIOUS
    <3> HIDE DEF first, g, Bad
    <3>7. \A k \in m + 1 .. Len(text) + 1 : g[k] = f[k] /\ k \in m .. Len(text) + 1
      BY <1>1, <2>2, <3>3
    <3>8. ASSUME NEW k \in m .. Len(text) + 1 PROVE g[k] = Body(g, k)
      <4>1. k \in 1 .. Len(text) + 1 /\ \A j \in k + 1 .. Len(text) + 1 : j \in m + 1 .. Len(text) + 1
        BY <1>1, <2>2
      <4>2. Body(f, k) = Body(g, k)
        <5>1. \A j \in k + 1 .. Len(text) + 1 : f[j] = g[j]
          BY <3>7, <4>1
        <5> QED BY <4>1, <5>1, BodyLooksAhead
      <4>3. CASE k = m
        BY <3>3, <3>6, <4>2, <4>3
      <4>4. CASE k # m
        <5>1. k \in m + 1 .. Len(text) + 1
          BY <1>1, <2>2, <4>4
        <5> QED BY <3>5, <3>7, <4>2, <5>1
      <4> QED BY <4>3, <4>4
    <3>9. Reads(g, m)
      BY <3>4, <3>8 DEF Reads
    <3> QED BY <2>2, <3>9
  <2> QED BY <2>3, <2>4
<1>3. 1 \in 1 .. Len(text) + 1
  BY <1>1
<1> QED BY <1>2, <1>3

\* What the tokens of the text can be.
Piece ==
  {TokenAt(k, n) : k \in 1 .. Len(text) + 1, n \in 1 .. Len(text) + 1} \cup {Nothing}

Rest == CHOOSE f : Reads(f, 1)

LEMMA RestFacts ==
  ASSUME IsText
  PROVE  /\ ReferenceTokens = Rest[1]
         /\ \A k \in 1 .. Len(text) + 1 : Rest[k] \in Seq(Piece) /\ Rest[k] = Body(Rest, k)
<1>1. Reads(Rest, 1)
  BY ReaderExists DEF Rest
<1>2. ReferenceTokens = Rest[1]
  BY DEF ReferenceTokens, Rest, Reads, Body
<1>3. \A k \in 1 .. Len(text) + 1 : Rest[k] = Body(Rest, k)
  BY <1>1 DEF Reads
<1> DEFINE Bad == {k \in 1 .. Len(text) + 1 : Rest[k] \notin Seq(Piece)}
<1>4. Len(text) \in Nat
  BY TextFacts
<1>5. ASSUME Bad # {} PROVE FALSE
  <2>1. PICK k \in Bad : \A j \in Bad : j <= k
    <3>1. Bad \in SUBSET Nat /\ (\A x \in Bad : x <= Len(text) + 1) /\ Len(text) + 1 \in Nat
      BY <1>4
    <3> HIDE DEF Bad
    <3> QED BY <1>5, <3>1, GreatestNumber
  <2>2. k \in 1 .. Len(text) + 1 /\ Rest[k] \notin Seq(Piece)
    OBVIOUS
  <2>3. \A j \in k + 1 .. Len(text) + 1 : Rest[j] \in Seq(Piece)
    BY <1>4, <2>1, <2>2
  <2> HIDE DEF Bad
  <2>4. PICK P : P = Piece
    OBVIOUS
  <2>5. <<>> \in Seq(P) /\ <<Nothing>> \in Seq(P)
    <3>1. PICK nothing : nothing = Nothing
      OBVIOUS
    <3>2. nothing \in P
      BY <2>4, <3>1 DEF Piece
    <3>3. <<nothing>> \in Seq(P) /\ <<>> \in Seq(P)
      BY <3>2
    <3> QED BY <3>1, <3>3
  <2>6. k > Len(text) \/ (k \in 1 .. Len(text) /\ k + 1 \in k + 1 .. Len(text) + 1)
    BY <1>4, <2>2
  <2>7. ASSUME k \in 1 .. Len(text), EndsFrom(k) # {}
        PROVE  <<TokenAt(k, Max(EndsFrom(k)))>> \o Rest[Max(EndsFrom(k))] \in Seq(P)
    <3>1. PICK e : e = Max(EndsFrom(k))
      OBVIOUS
    <3>2. e \in k + 1 .. Len(text) + 1
      BY <2>7, <3>1, LastEnd
    <3>3. Rest[e] \in Seq(P)
      BY <2>3, <2>4, <3>2
    <3>4. e \in 1 .. Len(text) + 1
      BY <1>4, <2>2, <3>2
    <3>5. PICK t : t = TokenAt(k, e)
      OBVIOUS
    <3>6. t \in P
      BY <2>2, <2>4, <3>4, <3>5 DEF Piece
    <3>7. <<t>> \in Seq(P)
      BY <3>6
    <3>8. <<t>> \o Rest[e] \in Seq(P)
      BY <3>3, <3>7, ConcatProperties
    <3> QED BY <3>1, <3>5, <3>8
  <2>8. Body(Rest, k) \in Seq(P)
    BY <2>3, <2>4, <2>5, <2>6, <2>7 DEF Body
  <2> QED BY <1>3, <2>2, <2>4, <2>8
<1> QED BY <1>2, <1>3, <1>5
\* The text stays, and with it what its tokens are.
LEMMA SameReading ==
  ASSUME text' = text
  PROVE  /\ Rest' = Rest /\ ReferenceTokens' = ReferenceTokens /\ Piece' = Piece
         /\ Nothing' = Nothing
<1>1. \A k : EndsFrom(k)' = EndsFrom(k)
  BY DEF EndsFrom, IsToken, Quoted, Fraction, Decimal, Digits, AllIn, Negative, Word, Slice, Last,
         Digit, Letter, Mark, MarkType, KeywordType
<1>2. \A k, n : TokenAt(k, n)' = TokenAt(k, n)
  BY DEF TokenAt, Quoted, Fraction, Decimal, Digits, AllIn, Negative, Word, Slice, Last,
         Digit, Letter, Mark, MarkType, KeywordType
<1>3. \A k : Is(k, Blank)' <=> Is(k, Blank)
  BY DEF Is, Blank
<1>4. Nothing' = Nothing
  BY DEF Nothing
<1>5. \A S : Max(S)' = Max(S)
  BY DEF Max
<1>6. \A f, k : Body(f, k)' = Body(f, k)
  BY <1>1, <1>2, <1>3, <1>4, <1>5 DEF Body
<1>7. \A f : Reads(f, 1)' <=> Reads(f, 1)
  BY <1>6 DEF Reads
<1>8. Rest' = Rest
  BY <1>7 DEF Rest
<1>9. ReferenceTokens' = ReferenceTokens
  BY <1>1, <1>2, <1>3, <1>4, <1>5 DEF ReferenceTokens
<1>10. Piece' = Piece
  BY <1>2, <1>4 DEF Piece
<1> QED BY <1>4, <1>8, <1>9, <1>10
-----------------------------------------------------------------------------
(* The invariant: what is read, and what follows from there, is the text.  *)

ReadTo(ts, k) ==
  /\ ts \in Seq(Piece) /\ k \in 1 .. Len(text) + 1
  /\ ts \o Rest[k] = ReferenceTokens

ReadAll(ts, k) ==
  /\ ts \in Seq(Piece)
  /\ IF k > Len(text) THEN ts = ReferenceTokens ELSE Append(ts, Nothing) = ReferenceTokens

ReadInv ==
  /\ text \in Texts
  /\ at = "tokenize" => ReadTo(tokens, pos)
  /\ at # "tokenize" => ReadAll(tokens, pos)

LEMMA NothingIsRead ==
  ASSUME IsText
  PROVE  ReadTo(<<>>, 1)
<1>1. ReferenceTokens = Rest[1] /\ 1 \in 1 .. Len(text) + 1
  BY RestFacts, TextFacts
<1>2. PICK rest : rest = Rest[1]
  OBVIOUS
<1>3. rest \in Seq(Piece)
  BY <1>1, <1>2, RestFacts
<1>4. <<>> \o rest = rest /\ <<>> \in Seq(Piece)
  BY <1>3, ConcatEmptySeq
<1> QED BY <1>1, <1>2, <1>4 DEF ReadTo

LEMMA BlankIsRead ==
  ASSUME IsText, NEW ts, NEW k \in 1 .. Len(text), ReadTo(ts, k), Is(k, Blank)
  PROVE  ReadTo(ts, k + 1)
<1>1. k + 1 \in 1 .. Len(text) + 1 /\ k \in 1 .. Len(text) + 1 /\ ~(k > Len(text))
  BY TextFacts
<1>2. Rest[k] = Rest[k + 1]
  <2>1. Rest[k] = Body(Rest, k)
    BY <1>1, RestFacts
  <2> QED BY <1>1, <2>1 DEF Body
<1> QED BY <1>1, <1>2 DEF ReadTo

LEMMA TokenIsRead ==
  ASSUME IsText, NEW ts, NEW k \in 1 .. Len(text), ReadTo(ts, k), ~Is(k, Blank),
         NEW n, Ends(k, n), NEW t, t = TokenAt(k, n)
  PROVE  ReadTo(Append(ts, t), n)
<1>1. k \in 1 .. Len(text) + 1 /\ ~(k > Len(text)) /\ Len(text) \in Nat
  BY TextFacts
<1>2. Max(EndsFrom(k)) = n /\ EndsFrom(k) # {} /\ n \in k + 1 .. Len(text) + 1
  BY EndsAreMax
<1>3. n \in 1 .. Len(text) + 1
  BY <1>1, <1>2
<1>4. PICK P, rest, after, whole :
        P = Piece /\ rest = Rest[k] /\ after = Rest[n] /\ whole = ReferenceTokens
  OBVIOUS
<1>5. rest = <<t>> \o after
  <2>1. Rest[k] = Body(Rest, k)
    BY <1>1, RestFacts
  <2> QED BY <1>1, <1>2, <1>4, <2>1 DEF Body
<1>6. t \in P
  BY <1>1, <1>3, <1>4 DEF Piece
<1>7. after \in Seq(P)
  BY <1>3, <1>4, RestFacts
<1>8. ts \in Seq(P) /\ ts \o rest = whole
  BY <1>4 DEF ReadTo
<1>9. Append(ts, t) = ts \o <<t>> /\ <<t>> \in Seq(P) /\ Append(ts, t) \in Seq(P)
  BY <1>6, <1>8, AppendIsConcat
<1>10. (ts \o <<t>>) \o after = ts \o (<<t>> \o after)
  BY <1>7, <1>8, <1>9, ConcatAssociative
<1>11. Append(ts, t) \o after = whole
  BY <1>5, <1>8, <1>9, <1>10
<1> QED BY <1>3, <1>4, <1>9, <1>11 DEF ReadTo

LEMMA NoneIsRead ==
  ASSUME IsText, NEW ts, NEW k \in 1 .. Len(text), ReadTo(ts, k), ~Is(k, Blank), EndsFrom(k) = {}
  PROVE  ReadAll(ts, k)
<1>1. k \in 1 .. Len(text) + 1 /\ ~(k > Len(text))
  BY TextFacts
<1>2. PICK P, nothing : P = Piece /\ nothing = Nothing
  OBVIOUS
<1>3. Rest[k] = <<nothing>>
  <2>1. Rest[k] = Body(Rest, k)
    BY <1>1, RestFacts
  <2> QED BY <1>1, <1>2, <2>1 DEF Body
<1>4. nothing \in P
  BY <1>2 DEF Piece
<1>5. ts \in Seq(P) /\ ts \o <<nothing>> = ReferenceTokens
  BY <1>2, <1>3 DEF ReadTo
<1>6. Append(ts, nothing) = ts \o <<nothing>>
  BY <1>4, <1>5, AppendIsConcat
<1> QED BY <1>1, <1>2, <1>5, <1>6 DEF ReadAll

LEMMA AllIsRead ==
  ASSUME IsText, NEW ts, NEW k, ReadTo(ts, k), k > Len(text)
  PROVE  ReadAll(ts, k)
<1>1. k \in 1 .. Len(text) + 1
  BY DEF ReadTo
<1>2. Rest[k] = <<>>
  <2>1. Rest[k] = Body(Rest, k)
    BY <1>1, RestFacts
  <2> QED BY <2>1 DEF Body
<1>3. PICK P : P = Piece
  OBVIOUS
<1>4. ts \in Seq(P) /\ ts \o <<>> = ReferenceTokens
  BY <1>2, <1>3 DEF ReadTo
<1>5. ts \o <<>> = ts
  BY <1>4, ConcatEmptySeq
<1> QED BY <1>3, <1>4, <1>5 DEF ReadAll
-----------------------------------------------------------------------------
(* The steps of tokenize.                                                  *)

\* A step reads on.
Goes == ReadTo(tokens', pos') /\ UNCHANGED <<text, at>>

LEMMA Stands ==
  ASSUME IsText, ReadTo(tokens, pos), Scanning
  PROVE  /\ pos \in 1 .. Len(text)
         /\ \A class : Is(pos, class) <=> text[pos] \in class
<1>1. Len(text) \in Nat /\ DOMAIN text = 1 .. Len(text)
  BY TextFacts
<1>2. pos \in 1 .. Len(text)
  BY <1>1 DEF ReadTo, Scanning
<1> QED BY <1>1, <1>2 DEF Is

LEMMA EmitGoes ==
  ASSUME IsText, ReadTo(tokens, pos), pos \in 1 .. Len(text), text[pos] \notin Blank,
         NEW n, Ends(pos, n), NEW type, NEW value,
         TokenAt(pos, n) = [type |-> type, value |-> value], Emit(type, value, n)
  PROVE  Goes
<1>1. PICK k, t : k = pos /\ t = TokenAt(pos, n)
  OBVIOUS
<1>2. ~Is(k, Blank)
  BY <1>1 DEF Is
<1>3. k \in 1 .. Len(text) /\ ReadTo(tokens, k) /\ Ends(k, n) /\ t = TokenAt(k, n)
  BY <1>1
<1>4. ReadTo(Append(tokens, t), n)
  BY <1>2, <1>3, TokenIsRead
<1>5. tokens' = Append(tokens, t) /\ pos' = n /\ UNCHANGED <<text, at>>
  BY <1>1 DEF Emit
<1> QED BY <1>4, <1>5 DEF Goes

\* What an end that is found tells of the token.
LEMMA EndTells ==
  ASSUME IsText, NEW k \in 1 .. Len(text), NEW n, Ends(k, n)
  PROVE  n \in k + 1 .. Len(text) + 1 /\ TokenTo(k, n)
  BY EndsAreMax, EndsFacts DEF Ends

LEMMA BlankGoes ==
  ASSUME IsText, ReadTo(tokens, pos), SkipBlank
  PROVE  Goes
<1>1. Scanning /\ Is(pos, Blank) /\ pos' = pos + 1 /\ UNCHANGED <<text, tokens, at>>
  BY DEF SkipBlank
<1>2. pos \in 1 .. Len(text)
  BY <1>1, Stands
<1>3. ReadTo(tokens, pos + 1)
  BY <1>1, <1>2, BlankIsRead
<1> QED BY <1>1, <1>3 DEF Goes

LEMMA MarkGoes ==
  ASSUME IsText, ReadTo(tokens, pos), ScanMark
  PROVE  Goes
<1>1. Scanning /\ Is(pos, Mark) /\ Emit(MarkType[text[pos]], <<text[pos]>>, pos + 1)
  BY DEF ScanMark
<1>2. pos \in 1 .. Len(text) /\ text[pos] \in Mark
  BY <1>1, Stands
<1>3. Ends(pos, pos + 1)
  BY <1>2, MarkEnds
<1>4. pos + 1 \in pos + 1 .. Len(text) + 1 /\ TokenTo(pos, pos + 1)
  BY <1>2, <1>3, EndTells
<1>5. TokenAt(pos, pos + 1) = [type |-> MarkType[text[pos]], value |-> <<text[pos]>>]
  BY <1>2, <1>4, TokenIs
<1>6. text[pos] \notin Blank
  BY <1>2, ClassesApart
<1> QED BY <1>1, <1>2, <1>3, <1>5, <1>6, EmitGoes

LEMMA FractionGoes ==
  ASSUME IsText, ReadTo(tokens, pos), ScanFraction
  PROVE  Goes
<1>1. PICK e : e = RunEnd(pos + 1, Digit)
  OBVIOUS
<1>2. Scanning /\ Is(pos, {"."}) /\ Is(pos + 1, Digit) /\ Emit("literal", <<"0">> \o Slice(pos, e), e)
  BY <1>1 DEF ScanFraction
<1>3. pos \in 1 .. Len(text) /\ text[pos] = "."
  BY <1>2, Stands
<1>4. Ends(pos, e)
  BY <1>1, <1>2, <1>3, FractionEnds
<1>5. e \in pos + 1 .. Len(text) + 1 /\ TokenTo(pos, e)
  BY <1>3, <1>4, EndTells
<1>6. TokenAt(pos, e) = Literal(<<"0">> \o Slice(pos, e))
  BY <1>3, <1>5, TokenIs
<1>7. text[pos] \notin Blank
  BY <1>3 DEF Blank
<1>8. TokenAt(pos, e) = [type |-> "literal", value |-> <<"0">> \o Slice(pos, e)]
  BY <1>6 DEF Literal
<1> QED BY <1>2, <1>3, <1>4, <1>7, <1>8, EmitGoes

LEMMA NumberGoes ==
  ASSUME IsText, ReadTo(tokens, pos), ScanNumber
  PROVE  Goes
<1>1. PICK e : e = NumberEnd(pos)
  OBVIOUS
<1>2. Scanning /\ Is(pos, Digit) /\ Emit("literal", Slice(pos, e), e)
  BY <1>1 DEF ScanNumber
<1>3. pos \in 1 .. Len(text) /\ text[pos] \in Digit
  BY <1>2, Stands
<1>4. Ends(pos, e)
  BY <1>1, <1>3, NumberEnds
<1>5. e \in pos + 1 .. Len(text) + 1 /\ TokenTo(pos, e)
  BY <1>3, <1>4, EndTells
<1>6. TokenAt(pos, e) = Literal(Slice(pos, e))
  BY <1>3, <1>5, TokenIs
<1>7. text[pos] \notin Blank
  BY <1>3, ClassesApart
<1>8. TokenAt(pos, e) = [type |-> "literal", value |-> Slice(pos, e)]
  BY <1>6 DEF Literal
<1> QED BY <1>2, <1>3, <1>4, <1>7, <1>8, EmitGoes

LEMMA WordGoes ==
  ASSUME IsText, ReadTo(tokens, pos), ScanWord
  PROVE  Goes
<1>1. PICK e, v : e = RunEnd(pos, Letter \cup Digit) /\ v = Slice(pos, e)
  OBVIOUS
<1>2. PICK type : type = IF Len(v) = 1 /\ v[1] \in DOMAIN KeywordType THEN KeywordType[v[1]] ELSE "identifier"
  OBVIOUS
<1>3. Scanning /\ Is(pos, Letter) /\ Emit(type, v, e)
  BY <1>1, <1>2 DEF ScanWord
<1>4. pos \in 1 .. Len(text) /\ text[pos] \in Letter
  BY <1>3, Stands
<1>5. Ends(pos, e)
  BY <1>1, <1>4, WordEnds
<1>6. e \in pos + 1 .. Len(text) + 1 /\ TokenTo(pos, e)
  BY <1>4, <1>5, EndTells
<1>7. TokenAt(pos, e) = [type |-> IF Len(Slice(pos, e)) = 1 /\ Slice(pos, e)[1] \in DOMAIN KeywordType
                                   THEN KeywordType[Slice(pos, e)[1]] ELSE "identifier",
                         value |-> Slice(pos, e)]
  BY <1>4, <1>6, TokenIs
<1>8. TokenAt(pos, e) = [type |-> type, value |-> v]
  BY <1>1, <1>2, <1>7
<1>9. text[pos] \notin Blank
  BY <1>4, ClassesApart
<1> QED BY <1>3, <1>4, <1>5, <1>8, <1>9, EmitGoes

LEMMA QuotedGoes ==
  ASSUME IsText, ReadTo(tokens, pos), ScanQuoted
  PROVE  Goes
<1>1. Scanning /\ Is(pos, {"'"})
  BY DEF ScanQuoted
<1>2. PICK e \in pos + 1 .. Len(text) :
        /\ Is(e, {"'"}) /\ \A j \in pos + 1 .. e - 1 : ~Is(j, {"'"})
        /\ Emit("literal", Slice(pos + 1, e), e + 1)
  BY DEF ScanQuoted
<1>3. pos \in 1 .. Len(text) /\ text[pos] = "'"
  BY <1>1, Stands
<1>4. Ends(pos, e + 1)
  BY <1>2, <1>3, QuotedEnds
<1>5. e + 1 \in pos + 1 .. Len(text) + 1 /\ TokenTo(pos, e + 1)
  BY <1>3, <1>4, EndTells
<1>6. TokenAt(pos, e + 1) = Literal(SubSeq(Slice(pos, e + 1), 2, Len(Slice(pos, e + 1)) - 1))
  BY <1>3, <1>5, TokenIs
<1>7. SubSeq(Slice(pos, e + 1), 2, Len(Slice(pos, e + 1)) - 1) = Slice(pos + 1, e)
  <2>1. pos \in Int /\ e \in Int /\ Len(text) \in Nat /\ pos < e
    BY <1>2, <1>3, TextFacts
  <2>2. Len(Slice(pos, e + 1)) = e + 1 - pos
    BY <1>3, <1>5, SliceEnds
  <2>3. PICK k, n, b : k = pos /\ n = e + 1 /\ b = e - pos
    OBVIOUS
  <2>4. k \in 1 .. Len(text) + 1 /\ n \in k .. Len(text) + 1
    BY <1>3, <1>5, <2>1, <2>3
  <2>5. 2 \in 1 .. n - k + 1 /\ b \in 2 - 1 .. n - k
    BY <2>1, <2>3
  <2>6. SubSeq(Slice(k, n), 2, b) = Slice(k + 2 - 1, k + b)
    BY <2>4, <2>5, SliceOfSlice
  <2>7. Len(Slice(k, n)) - 1 = b /\ k + 2 - 1 = pos + 1 /\ k + b = e
    BY <2>1, <2>2, <2>3
  <2> QED BY <2>3, <2>6, <2>7
<1>8. TokenAt(pos, e + 1) = [type |-> "literal", value |-> Slice(pos + 1, e)]
  BY <1>6, <1>7 DEF Literal
<1>9. text[pos] \notin Blank
  BY <1>3 DEF Blank
<1> QED BY <1>2, <1>3, <1>4, <1>8, <1>9, EmitGoes
LEMMA MinusGoes ==
  ASSUME IsText, ReadTo(tokens, pos), ScanMinus
  PROVE  Goes
<1>1. Scanning /\ Is(pos, {"-"})
  BY DEF ScanMinus
<1>2. pos \in 1 .. Len(text) /\ text[pos] = "-" /\ text[pos] \notin Blank
  BY <1>1, Stands DEF Blank
<1>3. ASSUME NEW e, Ends(pos, e), NegativeAt(pos, e), Emit("literal", Slice(pos, e), e)
      PROVE  Goes
  <2>1. e \in pos + 1 .. Len(text) + 1 /\ TokenTo(pos, e)
    BY <1>2, <1>3, EndTells
  <2>2. TokenAt(pos, e) = Literal(Slice(pos, e))
    BY <1>2, <1>3, <2>1, TokenIs
  <2>3. TokenAt(pos, e) = [type |-> "literal", value |-> Slice(pos, e)]
    BY <2>2 DEF Literal
  <2> QED BY <1>2, <1>3, <2>3, EmitGoes
<1>4. CASE /\ Is(pos + 1, Digit)
           /\ LET dot == RunEnd(pos + 1, Digit)
                  end == IF Is(dot, {"."}) THEN RunEnd(dot + 1, Digit) ELSE dot
              IN  Emit("literal", Slice(pos, end), end)
  <2>1. PICK dot : dot = RunEnd(pos + 1, Digit)
    OBVIOUS
  <2>2. PICK e : e = IF Is(dot, {"."}) THEN RunEnd(dot + 1, Digit) ELSE dot
    OBVIOUS
  <2>3. Emit("literal", Slice(pos, e), e)
    BY <1>4, <2>1, <2>2
  <2>4. Ends(pos, e) /\ NegativeAt(pos, e)
    BY <1>2, <1>4, <2>1, <2>2, MinusDigitEnds
  <2> QED BY <1>3, <2>3, <2>4
<1>5. CASE /\ Is(pos + 1, {"."})
           /\ LET end == RunEnd(pos + 2, Digit) IN Emit("literal", Slice(pos, end), end)
  <2>1. PICK e : e = RunEnd(pos + 2, Digit)
    OBVIOUS
  <2>2. Emit("literal", Slice(pos, e), e)
    BY <1>5, <2>1
  <2>3. Ends(pos, e) /\ NegativeAt(pos, e)
    BY <1>2, <1>5, <2>1, MinusDotEnds
  <2> QED BY <1>3, <2>2, <2>3
<1>6. CASE ~Is(pos + 1, Digit \cup {"."}) /\ Emit("other", <<"-">>, pos + 1)
  <2>1. Ends(pos, pos + 1) /\ ~NegativeAt(pos, pos + 1)
    BY <1>2, <1>6, MinusEnds
  <2>2. pos + 1 \in pos + 1 .. Len(text) + 1 /\ TokenTo(pos, pos + 1)
    BY <1>2, <2>1, EndTells
  <2>3. TokenAt(pos, pos + 1) = [type |-> "other", value |-> <<"-">>]
    BY <1>2, <2>1, <2>2, TokenIs
  <2> QED BY <1>2, <1>6, <2>1, <2>3, EmitGoes
<1> QED BY <1>4, <1>5, <1>6 DEF ScanMinus

\* Where tokenize throws, no token starts.
LEMMA UnexpectedTells ==
  ASSUME IsText, ReadTo(tokens, pos), Unexpected
  PROVE  ReadAll(tokens, pos)
<1>1. Scanning
  BY DEF Unexpected
<1>2. pos \in 1 .. Len(text) /\ \A class : Is(pos, class) <=> text[pos] \in class
  BY <1>1, Stands
<1>3. PICK k : k = pos
  OBVIOUS
<1>4. k \in 1 .. Len(text) /\ ReadTo(tokens, k)
  BY <1>2, <1>3
<1>5. EndsFrom(k) = {} /\ text[k] \notin Blank
  <2>1. CASE Is(pos, {"'"}) /\ \A j \in pos + 1 .. Len(text) : ~Is(j, {"'"})
    <3>1. text[k] = "'" /\ \A j \in k + 1 .. Len(text) : ~Is(j, {"'"})
      BY <1>2, <1>3, <2>1
    <3>2. EndsFrom(k) = {}
      BY <1>4, <3>1, QuotedEnds
    <3> QED BY <3>1, <3>2 DEF Blank
  <2>2. CASE Is(pos, {"."}) /\ ~Is(pos + 1, Digit)
    <3>1. text[k] = "." /\ ~Is(k + 1, Digit)
      BY <1>2, <1>3, <2>2
    <3>2. EndsFrom(k) = {}
      BY <1>4, <3>1, FractionEnds
    <3> QED BY <3>1, <3>2 DEF Blank
  <2>3. CASE ~Is(pos, Blank \cup Mark \cup {".", "-", "'"} \cup Digit \cup Letter)
    <3>1. text[k] \notin Blank \cup Mark \cup {".", "-", "'"} \cup Digit \cup Letter
      BY <1>2, <1>3, <2>3
    <3>2. text[k] \notin Mark \cup {".", "-", "'"} \cup Digit \cup Letter /\ text[k] \notin Blank
      BY <3>1
    <3>3. \A m \in k + 1 .. Len(text) + 1 : ~TokenTo(k, m)
      BY <1>4, <3>2, FirstTells
    <3> QED BY <1>4, <3>2, <3>3, NoEnds
  <2> QED BY <2>1, <2>2, <2>3 DEF Unexpected
<1>6. ~Is(k, Blank)
  BY <1>5 DEF Is
<1>7. ReadAll(tokens, k)
  BY <1>4, <1>5, <1>6, NoneIsRead
<1> QED BY <1>3, <1>7

-----------------------------------------------------------------------------
(* The invariant is kept.                                                  *)

LEMMA TextsAreTexts ==
  ASSUME text \in Texts
  PROVE  IsText
  BY TextsAssumption DEF IsText

LEMMA GoingKeeps ==
  ASSUME ReadInv, at = "tokenize", Goes
  PROVE  ReadInv'
<1>1. ReadTo(tokens', pos') /\ text' = text /\ at' = "tokenize" /\ text' \in Texts
  BY DEF Goes, ReadInv
<1>2. Rest' = Rest /\ ReferenceTokens' = ReferenceTokens /\ Piece' = Piece
  BY <1>1, SameReading
<1> QED BY <1>1, <1>2 DEF ReadInv, ReadTo

LEMMA StoppingKeeps ==
  ASSUME ReadInv, ReadAll(tokens, pos), UNCHANGED read, at' # "tokenize"
  PROVE  ReadInv'
<1>1. text' = text /\ tokens' = tokens /\ pos' = pos /\ text' \in Texts
  BY DEF read, ReadInv
<1>2. ReferenceTokens' = ReferenceTokens /\ Nothing' = Nothing /\ Piece' = Piece
  BY <1>1, SameReading
<1> QED BY <1>1, <1>2 DEF ReadInv, ReadAll

LEMMA TokenizeKeeps ==
  ASSUME ReadInv, Tokenize
  PROVE  ReadInv'
<1>1. at = "tokenize"
  BY DEF Tokenize, SkipBlank, ScanMark, ScanFraction, ScanMinus, ScanQuoted, ScanNumber, ScanWord,
         Unexpected, EndOfText, Scanning
<1>2. IsText /\ ReadTo(tokens, pos)
  BY <1>1, TextsAreTexts DEF ReadInv
<1>3. ASSUME SkipBlank \/ ScanMark \/ ScanFraction \/ ScanMinus \/ ScanQuoted \/ ScanNumber \/ ScanWord
      PROVE  ReadInv'
  <2>1. Goes
    BY <1>2, <1>3, BlankGoes, MarkGoes, FractionGoes, MinusGoes, QuotedGoes, NumberGoes, WordGoes
  <2> QED BY <1>1, <2>1, GoingKeeps
<1>4. CASE Unexpected
  <2>1. ReadAll(tokens, pos)
    BY <1>2, <1>4, UnexpectedTells
  <2>2. UNCHANGED read /\ at' # "tokenize"
    BY <1>4 DEF Unexpected, read
  <2> QED BY <2>1, <2>2, StoppingKeeps
<1>5. CASE EndOfText
  <2>1. pos > Len(text) /\ UNCHANGED read /\ at' # "tokenize"
    BY <1>5 DEF EndOfText, read
  <2>2. ReadAll(tokens, pos)
    BY <1>2, <2>1, AllIsRead
  <2> QED BY <2>1, <2>2, StoppingKeeps
<1> QED BY <1>3, <1>4, <1>5 DEF Tokenize

\* The rules of the parser read tokens and leave them.
LEMMA RulesRead ==
  ASSUME Next, ~Tokenize
  PROVE  at # "tokenize" /\ at' # "tokenize" /\ UNCHANGED read
<1> USE DEF Take, Skip, Advance, Stay, Check
<1>1. CASE First
  BY <1>1 DEF First, Keyword
<1>2. CASE InvalidNode
  BY <1>2 DEF InvalidNode
<1>3. CASE Show \/ DatabaseOrTable
  BY <1>3 DEF Show, DatabaseOrTable
<1>4. CASE Name
  BY <1>4 DEF Name, TypeOf
<1>5. CASE HelpOrExit \/ End
  BY <1>5 DEF HelpOrExit, End
<1>6. CASE CreateTable
  BY <1>6 DEF CreateTable
<1>7. CASE Columns \/ Comma
  BY <1>7 DEF Columns, Comma
<1>8. CASE ColumnDef
  BY <1>8 DEF ColumnDef
<1>9. CASE Select
  BY <1>9 DEF Select
<1>10. CASE From
  BY <1>10 DEF From
<1>11. CASE Insert
  BY <1>11 DEF Insert
<1>12. CASE ValueSet \/ EndInsert
  BY <1>12 DEF ValueSet, EndInsert
<1>13. CASE Refuse
  BY <1>13 DEF Refuse, Needed
<1> QED BY <1>1, <1>2, <1>3, <1>4, <1>5, <1>6, <1>7, <1>8, <1>9, <1>10, <1>11, <1>12, <1>13 DEF Next

LEMMA StepReads ==
  ASSUME ReadInv, [Next]_vars
  PROVE  ReadInv'
<1>1. CASE Tokenize
  BY <1>1, TokenizeKeeps
<1>2. CASE Next /\ ~Tokenize
  <2>1. at # "tokenize" /\ at' # "tokenize" /\ UNCHANGED read
    BY <1>2, RulesRead
  <2> QED BY <2>1, StoppingKeeps DEF ReadInv
<1>3. CASE UNCHANGED vars
  <2>1. text' = text /\ pos' = pos /\ tokens' = tokens /\ at' = at
    BY <1>3 DEF vars
  <2>2. CASE at = "tokenize"
    BY <2>1, <2>2, GoingKeeps DEF ReadInv, Goes
  <2>3. CASE at # "tokenize"
    BY <2>1, <2>3, StoppingKeeps DEF ReadInv, read
  <2> QED BY <2>2, <2>3
<1> QED BY <1>1, <1>2, <1>3

LEMMA InitReads == Init => ReadInv
<1> SUFFICES ASSUME Init PROVE ReadInv
  OBVIOUS
<1>1. text \in Texts /\ pos = 1 /\ tokens = <<>> /\ at = "tokenize"
  BY DEF Init, TokenizeInit
<1>2. ReadTo(tokens, pos)
  BY <1>1, TextsAreTexts, NothingIsRead
<1> QED BY <1>1, <1>2 DEF ReadInv

\* Whatever the texts: a text that is read to its end gave its longest tokens,
\* all of them and in their order, and tokenize refuses a text exactly where no
\* token starts.
THEOREM TokensAreTheLongest == Spec => []TokensAreLongest
<1>1. Init => ReadInv
  BY InitReads
<1>2. ReadInv /\ [Next]_vars => ReadInv'
  BY StepReads
<1>3. ReadInv => TokensAreLongest
  BY DEF ReadInv, ReadAll, TokensAreLongest
<1> QED BY <1>1, <1>2, <1>3, PTL DEF Spec

-----------------------------------------------------------------------------
(* Sequences one behind the other, and what the grammar makes of them.     *)

\* Sequences one behind the other, up to the n-th.
IsFlat(f, b, n) == f = [i \in 1 .. n |-> IF i = 1 THEN b[i] ELSE f[i - 1] \o b[i]]

LEMMA FlatFirst ==
  ASSUME NEW b, NEW n \in Nat, n # 0, NEW f, IsFlat(f, b, n)
  PROVE  f[1] = b[1]
<1>1. \A i \in 1 .. n : f[i] = IF i = 1 THEN b[i] ELSE f[i - 1] \o b[i]
  BY DEF IsFlat
<1>2. 1 \in 1 .. n
  OBVIOUS
<1> QED BY <1>1, <1>2

LEMMA FlatNext ==
  ASSUME NEW b, NEW n \in Nat, NEW f, IsFlat(f, b, n), NEW i \in 2 .. n
  PROVE  f[i] = f[i - 1] \o b[i]
<1>1. \A j \in 1 .. n : f[j] = IF j = 1 THEN b[j] ELSE f[j - 1] \o b[j]
  BY DEF IsFlat
<1>2. i \in 1 .. n /\ i # 1
  OBVIOUS
<1> QED BY <1>1, <1>2

LEMMA FlatExists ==
  ASSUME NEW T, NEW b, NEW n \in Nat, \A i \in 1 .. n : b[i] \in Seq(T)
  PROVE  \E f \in [1 .. n -> Seq(T)] : IsFlat(f, b, n)
<1> DEFINE Bad == {k \in 0 .. n : ~ \E f \in [1 .. k -> Seq(T)] : IsFlat(f, b, k)}
<1>1. ASSUME Bad # {} PROVE FALSE
  <2>1. PICK k \in Bad : \A j \in Bad : k <= j
    <3>1. Bad \in SUBSET Nat
      OBVIOUS
    <3> QED BY <1>1, <3>1, LeastNumber
  <2>2. k \in 0 .. n
    OBVIOUS
  <2>3. k # 0
    <3> DEFINE f == [i \in 1 .. 0 |-> <<>>]
    <3>1. 1 .. 0 = {}
      OBVIOUS
    <3>2. f \in [1 .. 0 -> Seq(T)]
      BY <3>1
    <3>3. IsFlat(f, b, 0)
      BY <3>1 DEF IsFlat
    <3> QED BY <3>2, <3>3
  <2>4. k - 1 \in 0 .. n /\ k - 1 \notin Bad /\ k \in 1 .. n /\ k - 1 \in Nat
    BY <2>1, <2>2, <2>3
  <2>5. PICK f \in [1 .. k - 1 -> Seq(T)] : IsFlat(f, b, k - 1)
    BY <2>4
  <2> DEFINE last == IF k = 1 THEN b[k] ELSE f[k - 1] \o b[k]
             g == [i \in 1 .. k |-> IF i = k THEN last ELSE f[i]]
  <2>6. last \in Seq(T)
    <3>1. b[k] \in Seq(T)
      BY <2>4
    <3>2. k # 1 => f[k - 1] \in Seq(T)
      BY <2>4, <2>5
    <3> QED BY <3>1, <3>2, ConcatProperties
  <2>7. g \in [1 .. k -> Seq(T)]
    <3>1. \A i \in 1 .. k : i # k => i \in 1 .. k - 1
      BY <2>4
    <3> HIDE DEF last
    <3> QED BY <2>5, <2>6, <3>1
  <2>8. \A i \in 1 .. k : g[i] = IF i = k THEN last ELSE f[i]
    OBVIOUS
  <2>9. k = 1 => last = b[1]
    OBVIOUS
  <2>10. k # 1 => last = f[k - 1] \o b[k]
    OBVIOUS
  <2>11. DOMAIN g = 1 .. k
    OBVIOUS
  <2>12. g = [i \in 1 .. k |-> g[i]]
    OBVIOUS
  <2> HIDE DEF last, g, Bad
  <2>13. /\ k - 1 # 0 => f[1] = b[1]
         /\ \A i \in 2 .. k - 1 : f[i] = f[i - 1] \o b[i]
    <3>1. PICK m : m = k - 1
      OBVIOUS
    <3>2. m \in Nat /\ IsFlat(f, b, m)
      BY <2>4, <2>5, <3>1
    <3>3. ASSUME m # 0 PROVE f[1] = b[1]
      <4>1. /\ DOMAIN f = 1 .. m
            /\ \A i \in 1 .. m : f[i] = IF i = 1 THEN b[i] ELSE f[i - 1] \o b[i]
        BY <3>2 DEF IsFlat
      <4>2. 1 \in 1 .. m
        BY <3>2, <3>3
      <4> QED BY <4>1, <4>2
    <3>4. ASSUME NEW i \in 2 .. m PROVE f[i] = f[i - 1] \o b[i]
      BY <3>2, FlatNext
    <3> QED BY <3>1, <3>3, <3>4
  <2>14. ASSUME NEW i \in 1 .. k PROVE g[i] = IF i = 1 THEN b[i] ELSE g[i - 1] \o b[i]
    <3>1. CASE k = 1
      <4>1. i = 1
        BY <3>1
      <4> QED BY <2>8, <2>9, <3>1, <4>1
    <3>2. CASE i = k /\ k # 1
      <4>1. k - 1 \in 1 .. k /\ k - 1 # k
        BY <2>4, <3>2
      <4>2. g[k - 1] = f[k - 1]
        BY <2>8, <4>1
      <4> QED BY <2>8, <2>10, <3>2, <4>2
    <3>3. CASE i = 1 /\ k # 1
      BY <2>4, <2>8, <2>13, <3>3
    <3>4. CASE i # 1 /\ i # k
      <4>1. i \in 2 .. k - 1 /\ i - 1 \in 1 .. k /\ i - 1 # k
        BY <2>4, <3>4
      <4>2. g[i] = f[i] /\ g[i - 1] = f[i - 1]
        BY <2>8, <3>4, <4>1
      <4> QED BY <2>13, <3>4, <4>1, <4>2
    <3> QED BY <3>1, <3>2, <3>3, <3>4
  <2>15. IsFlat(g, b, k)
    BY <2>12, <2>14 DEF IsFlat
  <2> QED BY <2>7, <2>15 DEF Bad
<1>2. n \in 0 .. n /\ n \notin Bad
  BY <1>1
<1> QED BY <1>2

\* Two of them agree as far as what they join does.
SameAt(f, g, k) == f[k] = g[k]
LEMMA FlatsAgree ==
  ASSUME NEW b, NEW n \in Nat, NEW f, IsFlat(f, b, n),
         NEW c, NEW m \in Nat, NEW g, IsFlat(g, c, m),
         NEW k \in 1 .. n, k <= m, \A i \in 1 .. k : b[i] = c[i]
  PROVE  SameAt(f, g, k)
<1> DEFINE Bad == {j \in 1 .. k : f[j] # g[j]}
<1>1. ASSUME Bad # {} PROVE FALSE
  <2>1. PICK j \in Bad : \A i \in Bad : j <= i
    <3>1. Bad \in SUBSET Nat
      OBVIOUS
    <3> QED BY <1>1, <3>1, LeastNumber
  <2>2. f[1] = b[1] /\ g[1] = c[1]
    <3>1. n # 0 /\ m # 0
      OBVIOUS
    <3> QED BY <3>1, FlatFirst
  <2>3. 1 \in 1 .. k /\ b[1] = c[1]
    OBVIOUS
  <2>4. j \in 1 .. k /\ j # 1
    BY <2>2, <2>3
  <2>5. j \in 2 .. n /\ j \in 2 .. m /\ b[j] = c[j]
    BY <2>4
  <2>6. j - 1 \in 1 .. k /\ j - 1 \notin Bad
    BY <2>1, <2>4
  <2>7. f[j - 1] = g[j - 1]
    BY <2>6
  <2>8. f[j] = f[j - 1] \o b[j]
    BY <2>5, FlatNext
  <2>9. g[j] = g[j - 1] \o c[j]
    BY <2>5, FlatNext
  <2> QED BY <2>5, <2>7, <2>8, <2>9
<1>2. k \in 1 .. k
  OBVIOUS
<1> QED BY <1>1, <1>2 DEF SameAt

LEMMA FlattenIs ==
  ASSUME NEW T, NEW b \in Seq(Seq(T)), Len(b) # 0
  PROVE  \E f \in [1 .. Len(b) -> Seq(T)] : IsFlat(f, b, Len(b)) /\ FlattenSeq(b) = f[Len(b)]
<1>1. Len(b) \in Nat /\ DOMAIN b = 1 .. Len(b) /\ \A i \in 1 .. Len(b) : b[i] \in Seq(T)
  BY LenProperties, ElementOfSeq
<1>2. PICK f \in [1 .. Len(b) -> Seq(T)] : IsFlat(f, b, Len(b))
  BY <1>1, FlatExists
<1> DEFINE flatten == CHOOSE g : IsFlat(g, b, Len(b))
<1>3. IsFlat(flatten, b, Len(b))
  BY <1>2
<1>4. FlattenSeq(b) = flatten[Len(b)]
  BY DEF FlattenSeq, IsFlat
<1> HIDE DEF flatten
<1>5. Len(b) \in 1 .. Len(b) /\ Len(b) <= Len(b)
  BY <1>1
<1>6. SameAt(flatten, f, Len(b))
  BY <1>1, <1>2, <1>3, <1>5, FlatsAgree
<1> QED BY <1>2, <1>4, <1>6 DEF SameAt

LEMMA FlattenFacts ==
  ASSUME NEW T, NEW b \in Seq(Seq(T))
  PROVE  FlattenSeq(b) \in Seq(T) /\ (b = <<>> => FlattenSeq(b) = <<>>)
<1>1. CASE Len(b) = 0
  <2>1. b = <<>>
    BY <1>1, EmptySeq
  <2>2. FlattenSeq(b) = b
    BY <1>1 DEF FlattenSeq
  <2> QED BY <2>1, <2>2, EmptySeq
<1>2. CASE Len(b) # 0
  <2>1. PICK f \in [1 .. Len(b) -> Seq(T)] : FlattenSeq(b) = f[Len(b)]
    BY <1>2, FlattenIs
  <2>2. Len(b) \in 1 .. Len(b)
    BY <1>2, LenProperties
  <2>3. b # <<>>
    BY <1>2, EmptySeq
  <2> QED BY <2>1, <2>2, <2>3
<1> QED BY <1>1, <1>2

LEMMA FlattenAppend ==
  ASSUME NEW T, NEW b \in Seq(Seq(T)), NEW s \in Seq(T)
  PROVE  FlattenSeq(Append(b, s)) = FlattenSeq(b) \o s
<1>1. PICK c : c = Append(b, s)
  OBVIOUS
<1>2. /\ c \in Seq(Seq(T)) /\ Len(c) = Len(b) + 1 /\ Len(b) \in Nat /\ c[Len(b) + 1] = s
      /\ \A i \in 1 .. Len(b) : c[i] = b[i]
  BY <1>1, AppendProperties, LenProperties
<1>3. Len(c) # 0 /\ Len(c) \in Nat
  BY <1>2
<1>4. PICK f \in [1 .. Len(c) -> Seq(T)] : IsFlat(f, c, Len(c)) /\ FlattenSeq(c) = f[Len(c)]
  BY <1>2, <1>3, FlattenIs
<1>5. CASE Len(b) = 0
  <2>1. f[1] = c[1]
    BY <1>3, <1>4, FlatFirst
  <2>2. FlattenSeq(c) = s
    BY <1>2, <1>4, <1>5, <2>1
  <2>3. FlattenSeq(b) = <<>>
    BY <1>5, EmptySeq, FlattenFacts
  <2>4. <<>> \o s = s
    BY ConcatEmptySeq
  <2> QED BY <1>1, <2>2, <2>3, <2>4
<1>6. CASE Len(b) # 0
  <2>1. PICK g \in [1 .. Len(b) -> Seq(T)] : IsFlat(g, b, Len(b)) /\ FlattenSeq(b) = g[Len(b)]
    BY <1>6, FlattenIs
  <2>2. Len(c) \in 2 .. Len(c) /\ Len(c) - 1 = Len(b)
    BY <1>2, <1>6
  <2>3. f[Len(c)] = f[Len(b)] \o s
    <3>1. f[Len(c)] = f[Len(c) - 1] \o c[Len(c)]
      BY <1>3, <1>4, <2>2, FlatNext
    <3> QED BY <1>2, <2>2, <3>1
  <2>4. g[Len(b)] = f[Len(b)]
    <3>1. PICK k, m : k = Len(b) /\ m = Len(c)
      OBVIOUS
    <3>2. k \in Nat /\ m \in Nat /\ k \in 1 .. k /\ k <= m
      BY <1>2, <1>6, <3>1
    <3>3. \A i \in 1 .. k : b[i] = c[i]
      BY <1>2, <3>1
    <3>4. IsFlat(g, b, k) /\ IsFlat(f, c, m)
      BY <1>4, <2>1, <3>1
    <3>5. SameAt(g, f, k)
      BY <3>2, <3>3, <3>4, FlatsAgree
    <3> QED BY <3>1, <3>5 DEF SameAt
  <2> QED BY <1>1, <1>4, <2>1, <2>3, <2>4
<1> QED BY <1>5, <1>6

LEMMA Tuples ==
  ASSUME NEW S, NEW a \in S, NEW b \in S, NEW c \in S, NEW d \in S
  PROVE  /\ <<a>> = Append(<<>>, a) /\ <<a, b>> = Append(<<a>>, b)
         /\ <<a, b, c>> = Append(<<a, b>>, c) /\ <<a, b, c, d>> = Append(<<a, b, c>>, d)
         /\ <<a>> \in Seq(S) /\ <<a, b>> \in Seq(S) /\ <<a, b, c>> \in Seq(S)
         /\ <<a, b, c, d>> \in Seq(S)
<1>1. /\ <<a>> \in Seq(S) /\ <<a, b>> \in Seq(S) /\ <<a, b, c>> \in Seq(S)
      /\ <<a, b, c, d>> \in Seq(S)
  OBVIOUS
<1>2. <<a>> = Append(<<>>, a)
  <2>1. <<>> \in Seq(S)
    OBVIOUS
  <2>2. PICK x : x = Append(<<>>, a)
    OBVIOUS
  <2>3. x \in Seq(S) /\ Len(x) = 1 /\ x[1] = a
    BY <2>1, <2>2, AppendProperties
  <2>4. Len(<<a>>) = Len(x) /\ \A i \in 1 .. Len(x) : <<a>>[i] = x[i]
    BY <2>3
  <2> QED BY <1>1, <2>2, <2>3, <2>4, SeqEqual
<1>3. <<a, b>> = Append(<<a>>, b)
  <2>1. PICK x : x = Append(<<a>>, b)
    OBVIOUS
  <2>2. x \in Seq(S) /\ Len(x) = 2 /\ x[1] = a /\ x[2] = b
    BY <1>1, <2>1, AppendProperties
  <2>3. Len(<<a, b>>) = Len(x) /\ \A i \in 1 .. Len(x) : <<a, b>>[i] = x[i]
    BY <2>2
  <2> QED BY <1>1, <2>1, <2>2, <2>3, SeqEqual
<1>4. <<a, b, c>> = Append(<<a, b>>, c)
  <2>1. PICK x : x = Append(<<a, b>>, c)
    OBVIOUS
  <2>2. x \in Seq(S) /\ Len(x) = 3 /\ x[1] = a /\ x[2] = b /\ x[3] = c
    BY <1>1, <2>1, AppendProperties
  <2>3. Len(<<a, b, c>>) = Len(x) /\ \A i \in 1 .. Len(x) : <<a, b, c>>[i] = x[i]
    BY <2>2
  <2> QED BY <1>1, <2>1, <2>2, <2>3, SeqEqual
<1>5. <<a, b, c, d>> = Append(<<a, b, c>>, d)
  <2>1. PICK x : x = Append(<<a, b, c>>, d)
    OBVIOUS
  <2>2. x \in Seq(S) /\ Len(x) = 4 /\ x[1] = a /\ x[2] = b /\ x[3] = c /\ x[4] = d
    BY <1>1, <2>1, AppendProperties
  <2>3. Len(<<a, b, c, d>>) = Len(x) /\ \A i \in 1 .. Len(x) : <<a, b, c, d>>[i] = x[i]
    BY <2>2
  <2> QED BY <1>1, <2>1, <2>2, <2>3, SeqEqual
<1> QED BY <1>1, <1>2, <1>3, <1>4, <1>5

LEMMA SequenceIs ==
  ASSUME NEW S, NEW n \in Nat, NEW f \in [1 .. n -> S]
  PROVE  f \in Seq(S) /\ Len(f) = n
OBVIOUS

IsAppended(c, b, x) == c = Append(b, x)
LEMMA AppendedIs ==
  ASSUME NEW S, NEW b \in Seq(S), NEW x \in S, NEW c \in Seq(S), Len(c) = Len(b) + 1,
         c[Len(b) + 1] = x, \A i \in 1 .. Len(b) : c[i] = b[i]
  PROVE  IsAppended(c, b, x)
<1>1. PICK d : d = Append(b, x)
  OBVIOUS
<1>2. /\ d \in Seq(S) /\ Len(d) = Len(b) + 1 /\ d[Len(b) + 1] = x /\ Len(b) \in Nat
      /\ \A i \in 1 .. Len(b) : d[i] = b[i]
  BY <1>1, AppendProperties, LenProperties
<1>3. ASSUME NEW i \in 1 .. Len(c) PROVE c[i] = d[i]
  <2>1. i \in 1 .. Len(b) \/ i = Len(b) + 1
    BY <1>2
  <2> QED BY <1>2, <2>1
<1>4. Len(c) = Len(d)
  BY <1>2
<1> QED BY <1>1, <1>2, <1>3, <1>4, SeqEqual DEF IsAppended

\* The types of tokens.
Kind ==
  {"show", "use", "drop", "create", "select", "insert", "help", "exit", "database",
   "databases", "table", "tables", "primary", "key", "from", "into", "values",
   "type", "other", "identifier", "literal", "(", ")", ",", "*", ";", "nothing"}

Separator == {",", ";"}
PlainPiece(t) == IF t \in Separator THEN <<>> ELSE <<t>>
PlainPieces(ts) == [k \in DOMAIN ts |-> PlainPiece(ts[k])]

LEMMA PlainPiecesFacts ==
  ASSUME NEW ts \in Seq(Kind)
  PROVE  /\ PlainPieces(ts) \in Seq(Seq(Kind)) /\ Len(PlainPieces(ts)) = Len(ts)
         /\ \A i \in 1 .. Len(ts) : PlainPieces(ts)[i] = PlainPiece(ts[i])
         /\ Plain(ts) = FlattenSeq(PlainPieces(ts))
<1>1. DOMAIN ts = 1 .. Len(ts) /\ Len(ts) \in Nat
  BY LenProperties
<1>2. ASSUME NEW i \in 1 .. Len(ts) PROVE PlainPiece(ts[i]) \in Seq(Kind)
  <2>1. ts[i] \in Kind
    BY ElementOfSeq
  <2> HIDE DEF Kind
  <2> QED BY <2>1 DEF PlainPiece
<1>3. PICK b : b = PlainPieces(ts)
  OBVIOUS
<1>4. b = [i \in 1 .. Len(ts) |-> PlainPiece(ts[i])]
  BY <1>1, <1>3 DEF PlainPieces
<1>5. b \in [1 .. Len(ts) -> Seq(Kind)]
  BY <1>2, <1>4
<1>6. b \in Seq(Seq(Kind)) /\ Len(b) = Len(ts)
  BY <1>1, <1>5, SequenceIs
<1>7. \A i \in 1 .. Len(ts) : b[i] = PlainPiece(ts[i])
  BY <1>4
<1>8. Plain(ts) = FlattenSeq(PlainPieces(ts))
  BY DEF Plain, PlainPieces, PlainPiece, Separator
<1> QED BY <1>3, <1>6, <1>7, <1>8

LEMMA PlainFacts ==
  ASSUME NEW ts \in Seq(Kind), NEW t \in Kind
  PROVE  /\ Plain(ts) \in Seq(Kind)
         /\ Plain(Append(ts, t)) = IF t \in Separator THEN Plain(ts) ELSE Append(Plain(ts), t)
<1>1. PICK b, c, us : b = PlainPieces(ts) /\ us = Append(ts, t) /\ c = PlainPieces(us)
  OBVIOUS
<1>2. /\ us \in Seq(Kind) /\ Len(us) = Len(ts) + 1 /\ Len(ts) \in Nat /\ us[Len(ts) + 1] = t
      /\ \A i \in 1 .. Len(ts) : us[i] = ts[i]
  BY <1>1, AppendProperties, LenProperties
<1>3. /\ b \in Seq(Seq(Kind)) /\ Len(b) = Len(ts) /\ Plain(ts) = FlattenSeq(b)
      /\ \A i \in 1 .. Len(ts) : b[i] = PlainPiece(ts[i])
  BY <1>1, PlainPiecesFacts
<1>4. /\ c \in Seq(Seq(Kind)) /\ Len(c) = Len(us) /\ Plain(us) = FlattenSeq(c)
      /\ \A i \in 1 .. Len(us) : c[i] = PlainPiece(us[i])
  BY <1>1, <1>2, PlainPiecesFacts
<1>5. PlainPiece(t) \in Seq(Kind)
  BY DEF PlainPiece
<1>6. IsAppended(c, b, PlainPiece(t))
  <2>1. Len(us) \in 1 .. Len(us) /\ \A i \in 1 .. Len(ts) : i \in 1 .. Len(us)
    BY <1>2
  <2>2. c[Len(b) + 1] = PlainPiece(t) /\ \A i \in 1 .. Len(b) : c[i] = b[i]
    BY <1>2, <1>3, <1>4, <2>1
  <2>3. Len(c) = Len(b) + 1
    BY <1>2, <1>3, <1>4
  <2> QED BY <1>3, <1>4, <1>5, <2>2, <2>3, AppendedIs
<1>7. FlattenSeq(b) \in Seq(Kind) /\ FlattenSeq(c) = FlattenSeq(b) \o PlainPiece(t)
  <2>1. FlattenSeq(b) \in Seq(Kind)
    BY <1>3, FlattenFacts
  <2>2. FlattenSeq(Append(b, PlainPiece(t))) = FlattenSeq(b) \o PlainPiece(t)
    BY <1>3, <1>5, FlattenAppend
  <2> QED BY <1>6, <2>1, <2>2 DEF IsAppended
<1>8. PICK p : p = Plain(ts)
  OBVIOUS
<1>9. p \in Seq(Kind) /\ p \o <<>> = p /\ p \o <<t>> = Append(p, t)
  BY <1>3, <1>7, <1>8, ConcatEmptySeq, AppendIsConcat
<1>10. Plain(us) = p \o PlainPiece(t)
  BY <1>3, <1>4, <1>7, <1>8
<1>11. Plain(us) = IF t \in Separator THEN p ELSE Append(p, t)
  BY <1>9, <1>10 DEF PlainPiece
<1> QED BY <1>1, <1>8, <1>9, <1>11

LEMMA PlainEmpty == Plain(<<>>) = <<>>
<1>1. Plain(<<>>) = FlattenSeq(<<>>)
  BY DEF Plain
<1>2. <<>> \in Seq(Seq(Kind))
  OBVIOUS
<1> QED BY <1>1, <1>2, FlattenFacts

\* Lists with commas between their parts.
ListPiece(i, p) == IF i = 1 THEN p ELSE <<",">> \o p
ListPieces(parts) == [i \in DOMAIN parts |-> ListPiece(i, parts[i])]

LEMMA KindFacts ==
  /\ \A t \in Kind : <<t>> \in Seq(Kind)
  /\ "," \in Kind /\ <<",">> \in Seq(Kind)
<1>1. "," \in Kind
  BY DEF Kind
<1>2. ASSUME NEW t \in Kind PROVE <<t>> \in Seq(Kind)
  OBVIOUS
<1> QED BY <1>1, <1>2

LEMMA ListPieceIs ==
  ASSUME NEW i, NEW p \in Seq(Kind)
  PROVE  ListPiece(i, p) \in Seq(Kind)
<1>1. <<",">> \o p \in Seq(Kind)
  BY KindFacts, ConcatProperties
<1> QED BY <1>1 DEF ListPiece

LEMMA ListPiecesFacts ==
  ASSUME NEW ps \in Seq(Seq(Kind))
  PROVE  /\ ListPieces(ps) \in Seq(Seq(Kind)) /\ Len(ListPieces(ps)) = Len(ps)
         /\ \A i \in 1 .. Len(ps) : ListPieces(ps)[i] = ListPiece(i, ps[i])
         /\ Listed(ps) = FlattenSeq(ListPieces(ps))
<1>1. DOMAIN ps = 1 .. Len(ps) /\ Len(ps) \in Nat
  BY LenProperties
<1>2. ASSUME NEW i \in 1 .. Len(ps) PROVE ListPiece(i, ps[i]) \in Seq(Kind)
  BY ElementOfSeq, ListPieceIs
<1>3. PICK b : b = ListPieces(ps)
  OBVIOUS
<1>4. b = [i \in 1 .. Len(ps) |-> ListPiece(i, ps[i])]
  BY <1>1, <1>3 DEF ListPieces
<1>5. b \in [1 .. Len(ps) -> Seq(Kind)]
  BY <1>2, <1>4
<1>6. b \in Seq(Seq(Kind)) /\ Len(b) = Len(ps)
  BY <1>1, <1>5, SequenceIs
<1>7. \A i \in 1 .. Len(ps) : b[i] = ListPiece(i, ps[i])
  BY <1>4
<1>8. Listed(ps) = FlattenSeq(ListPieces(ps))
  <2>1. \A i \in DOMAIN ps : ListPiece(i, ps[i]) = IF i = 1 THEN ps[1] ELSE <<",">> \o ps[i]
    BY DEF ListPiece
  <2>2. ListPieces(ps) = [i \in DOMAIN ps |-> IF i = 1 THEN ps[1] ELSE <<",">> \o ps[i]]
    BY <2>1 DEF ListPieces
  <2> QED BY <2>2 DEF Listed
<1> QED BY <1>3, <1>6, <1>7, <1>8

LEMMA ListedEmpty == Listed(<<>>) = <<>>
<1>1. Listed(<<>>) = FlattenSeq(<<>>)
  BY DEF Listed
<1>2. <<>> \in Seq(Seq(Kind))
  OBVIOUS
<1> QED BY <1>1, <1>2, FlattenFacts

LEMMA ListedFacts ==
  ASSUME NEW parts \in Seq(Seq(Kind)), NEW p \in Seq(Kind)
  PROVE  /\ Listed(parts) \in Seq(Kind)
         /\ parts = <<>> => Listed(Append(parts, p)) = p
         /\ parts # <<>> => Listed(Append(parts, p)) = Listed(parts) \o (<<",">> \o p)
<1>1. PICK b, c, qs : b = ListPieces(parts) /\ qs = Append(parts, p) /\ c = ListPieces(qs)
  OBVIOUS
<1>2. PICK n, last : n = Len(parts) /\ last = ListPiece(n + 1, p)
  OBVIOUS
<1>3. /\ qs \in Seq(Seq(Kind)) /\ Len(qs) = n + 1 /\ qs[n + 1] = p
      /\ \A i \in 1 .. n : qs[i] = parts[i]
  BY <1>1, <1>2, AppendProperties
<1>4. n \in Nat
  BY <1>2, LenProperties
<1>5. last \in Seq(Kind)
  BY <1>2, ListPieceIs
<1>6. /\ b \in Seq(Seq(Kind)) /\ Len(b) = n /\ Listed(parts) = FlattenSeq(b)
      /\ \A i \in 1 .. n : b[i] = ListPiece(i, parts[i])
  BY <1>1, <1>2, ListPiecesFacts
<1>7. /\ c \in Seq(Seq(Kind)) /\ Len(c) = n + 1 /\ Listed(qs) = FlattenSeq(c)
      /\ \A i \in 1 .. n + 1 : c[i] = ListPiece(i, qs[i])
  BY <1>1, <1>3, ListPiecesFacts
<1>8. IsAppended(c, b, last)
  <2>1. n + 1 \in 1 .. n + 1 /\ \A i \in 1 .. n : i \in 1 .. n + 1
    BY <1>4
  <2>2. c[Len(b) + 1] = last /\ \A i \in 1 .. Len(b) : c[i] = b[i]
    BY <1>2, <1>3, <1>6, <1>7, <2>1
  <2>3. Len(c) = Len(b) + 1
    BY <1>6, <1>7
  <2> QED BY <1>5, <1>6, <1>7, <2>2, <2>3, AppendedIs
<1>9. FlattenSeq(b) \in Seq(Kind) /\ FlattenSeq(c) = FlattenSeq(b) \o last
  <2>1. FlattenSeq(b) \in Seq(Kind)
    BY <1>6, FlattenFacts
  <2>2. FlattenSeq(Append(b, last)) = FlattenSeq(b) \o last
    BY <1>5, <1>6, FlattenAppend
  <2> QED BY <1>8, <2>1, <2>2 DEF IsAppended
<1>10. Listed(qs) = Listed(parts) \o last /\ Listed(parts) \in Seq(Kind)
  BY <1>6, <1>7, <1>9
<1>11. ASSUME parts = <<>> PROVE Listed(qs) = p
  <2>1. n = 0
    BY <1>2, <1>11, EmptySeq
  <2>2. last = p
    BY <1>2, <2>1 DEF ListPiece
  <2>3. <<>> \o p = p
    BY ConcatEmptySeq
  <2> QED BY <1>10, <1>11, <2>2, <2>3, ListedEmpty
<1>12. ASSUME parts # <<>> PROVE Listed(qs) = Listed(parts) \o (<<",">> \o p)
  <2>1. n # 0
    BY <1>2, <1>12, EmptySeq
  <2>2. n + 1 # 1
    BY <1>4, <2>1
  <2> QED BY <1>2, <1>10, <2>2 DEF ListPiece
<1> QED BY <1>1, <1>10, <1>11, <1>12

-----------------------------------------------------------------------------
(* What a statement is as far as it is written, token by token.            *)

Created(keys) ==
  <<"create", "table", "identifier", "(">>
  \o Listed([i \in DOMAIN keys |-> ColumnText(keys[i])])
Asked(n) ==
  <<"select">> \o IF n = 0 THEN <<"*">> ELSE Listed([i \in 1 .. n |-> <<"identifier">>])
Values(ns) ==
  <<"insert", "into", "identifier", "values">>
  \o Listed([i \in DOMAIN ns |-> SetText(ns[i])])
Begun(ns) == Append(IF ns = <<>> THEN Values(ns) ELSE Append(Values(ns), ","), "(")
Given(ns, n) == Begun(ns) \o Listed([i \in 1 .. n |-> <<"literal">>])

\* What begins with tokens and goes on with others.
SameSeq(s, u) == s = u

LEMMA Associates ==
  ASSUME NEW T, NEW s \in Seq(T), NEW u \in Seq(T), NEW v \in Seq(T)
  PROVE  SameSeq(s \o (u \o v), (s \o u) \o v)
  BY ConcatAssociative DEF SameSeq

LEMMA JoinsOne ==
  ASSUME NEW T, NEW s \in Seq(T), NEW x \in T
  PROVE  SameSeq(s \o <<x>>, Append(s, x))
  BY AppendIsConcat DEF SameSeq

LEMMA JoinsAppended ==
  ASSUME NEW T, NEW s \in Seq(T), NEW u \in Seq(T), NEW x \in T
  PROVE  SameSeq(s \o Append(u, x), Append(s \o u, x))
<1>1. u \o <<x>> = Append(u, x) /\ <<x>> \in Seq(T) /\ s \o u \in Seq(T)
  BY AppendIsConcat, ConcatProperties
<1>2. (s \o u) \o <<x>> = Append(s \o u, x)
  BY <1>1, AppendIsConcat
<1>3. s \o (u \o <<x>>) = (s \o u) \o <<x>>
  BY <1>1, ConcatAssociative
<1> QED BY <1>1, <1>2, <1>3 DEF SameSeq

\* A list of tokens goes on behind a comma.
LEMMA GoesOn ==
  ASSUME NEW start \in Seq(Kind), NEW list \in Seq(Kind), NEW e \in Seq(Kind)
  PROVE  SameSeq(start \o (list \o (<<",">> \o e)), Append(start \o list, ",") \o e)
<1>1. start \o list \in Seq(Kind) /\ <<",">> \o e \in Seq(Kind) /\ <<",">> \in Seq(Kind) /\ "," \in Kind
  BY ConcatProperties, KindFacts
<1>2. SameSeq(start \o (list \o (<<",">> \o e)), (start \o list) \o (<<",">> \o e))
  BY <1>1, Associates
<1>3. SameSeq((start \o list) \o (<<",">> \o e), ((start \o list) \o <<",">>) \o e)
  BY <1>1, Associates
<1>4. SameSeq((start \o list) \o <<",">>, Append(start \o list, ","))
  BY <1>1, JoinsOne
<1> QED BY <1>2, <1>3, <1>4 DEF SameSeq

LEMMA ColumnTextFacts ==
  /\ ColumnText(FALSE) = <<"identifier", "type">>
  /\ ColumnText(TRUE) = <<"identifier", "type", "primary", "key">>
  /\ \A key \in BOOLEAN : ColumnText(key) \in Seq(Kind)
<1>1. "identifier" \in Kind /\ "type" \in Kind /\ "primary" \in Kind /\ "key" \in Kind
  BY DEF Kind
<1>2. <<"identifier", "type">> \in Seq(Kind) /\ <<"identifier", "type", "primary", "key">> \in Seq(Kind)
  BY <1>1, Tuples
<1>3. ColumnText(FALSE) = <<"identifier", "type">>
  BY <1>2, ConcatEmptySeq DEF ColumnText
<1>4. ColumnText(TRUE) = <<"identifier", "type", "primary", "key">>
  <2>1. PICK s, p, k : s = <<"identifier", "type">> /\ p = "primary" /\ k = "key"
    OBVIOUS
  <2>2. s \in Seq(Kind) /\ p \in Kind /\ k \in Kind
    BY <1>1, <1>2, <2>1
  <2>3. s \o <<p, k>> = Append(Append(s, p), k)
    BY <2>2
  <2>4. ColumnText(TRUE) = s \o <<p, k>>
    BY <2>1 DEF ColumnText
  <2>5. PICK i, t : i = "identifier" /\ t = "type"
    OBVIOUS
  <2>6. Append(Append(<<i, t>>, p), k) = <<i, t, p, k>>
    <3>1. i \in Kind /\ t \in Kind
      BY <1>1, <2>5
    <3>2. <<i, t, p>> = Append(<<i, t>>, p)
      BY <2>2, <3>1, Tuples
    <3>3. <<i, t, p, k>> = Append(<<i, t, p>>, k)
      BY <2>2, <3>1, Tuples
    <3> QED BY <3>2, <3>3
  <2> QED BY <2>1, <2>3, <2>4, <2>5, <2>6
<1> QED BY <1>2, <1>3, <1>4

\* What is written of a list of parts after some beginning.
ListWritten(start, b) == start \o Listed(b)
ListGrows(start, b, c, e) ==
  /\ ListWritten(start, b) \in Seq(Kind)
  /\ b = <<>> => ListWritten(start, b) = start /\ ListWritten(start, c) = start \o e
  /\ b # <<>> => ListWritten(start, c) = Append(ListWritten(start, b), ",") \o e
LEMMA WrittenOn ==
  ASSUME NEW start \in Seq(Kind), NEW b \in Seq(Seq(Kind)), NEW e \in Seq(Kind),
         NEW c, IsAppended(c, b, e)
  PROVE  ListGrows(start, b, c, e)
<1>1. /\ Listed(b) \in Seq(Kind)
      /\ b = <<>> => Listed(c) = e
      /\ b # <<>> => Listed(c) = Listed(b) \o (<<",">> \o e)
  BY ListedFacts DEF IsAppended
<1>2. ListWritten(start, b) \in Seq(Kind)
  BY <1>1, ConcatProperties DEF ListWritten
<1>3. ASSUME b = <<>> PROVE ListWritten(start, b) = start /\ ListWritten(start, c) = start \o e
  BY <1>1, <1>3, ListedEmpty, ConcatEmptySeq DEF ListWritten
<1>4. ASSUME b # <<>> PROVE ListWritten(start, c) = Append(ListWritten(start, b), ",") \o e
  <2>1. SameSeq(start \o (Listed(b) \o (<<",">> \o e)), Append(start \o Listed(b), ",") \o e)
    BY <1>1, GoesOn
  <2> QED BY <1>1, <1>4, <2>1 DEF SameSeq, ListWritten
<1> QED BY <1>2, <1>3, <1>4 DEF ListGrows

\* Sequences that are alike up to the last element of one of them.
PartsGrow(n, b, c, e) ==
  b \in Seq(Seq(Kind)) /\ (n = 0 <=> b = <<>>) /\ IsAppended(c, b, e)
LEMMA PartsAppend ==
  ASSUME NEW n \in Nat, NEW e \in Seq(Kind),
         NEW b \in [1 .. n -> Seq(Kind)], NEW c \in [1 .. n + 1 -> Seq(Kind)],
         \A i \in 1 .. n : c[i] = b[i], c[n + 1] = e
  PROVE  PartsGrow(n, b, c, e)
<1>1. b \in Seq(Seq(Kind)) /\ Len(b) = n
  BY SequenceIs
<1>2. n + 1 \in Nat
  OBVIOUS
<1>3. c \in Seq(Seq(Kind)) /\ Len(c) = n + 1
  BY <1>2, SequenceIs
<1>4. IsAppended(c, b, e)
  BY <1>1, <1>3, AppendedIs
<1>5. b = <<>> <=> n = 0
  BY <1>1, EmptySeq
<1> QED BY <1>1, <1>4, <1>5 DEF PartsGrow

CreateStart == <<"create", "table", "identifier", "(">>
ColumnTexts(keys) == [i \in DOMAIN keys |-> ColumnText(keys[i])]
LEMMA CreatedFacts ==
  ASSUME NEW keys \in Seq(BOOLEAN), NEW key \in BOOLEAN
  PROVE  /\ Created(keys) \in Seq(Kind)
         /\ keys = <<>> => /\ Created(keys) = CreateStart
                           /\ Created(Append(keys, key)) = CreateStart \o ColumnText(key)
         /\ keys # <<>> => Created(Append(keys, key)) = Append(Created(keys), ",") \o ColumnText(key)
<1>1. PICK b, c, ks, e, n : /\ b = ColumnTexts(keys) /\ ks = Append(keys, key)
                            /\ c = ColumnTexts(ks) /\ e = ColumnText(key) /\ n = Len(keys)
  OBVIOUS
<1>2. Created(keys) = ListWritten(CreateStart, b) /\ Created(ks) = ListWritten(CreateStart, c)
  BY <1>1 DEF Created, CreateStart, ListWritten, ColumnTexts
<1>3. /\ ks \in Seq(BOOLEAN) /\ Len(ks) = n + 1 /\ ks[n + 1] = key
      /\ \A i \in 1 .. n : ks[i] = keys[i]
  BY <1>1, AppendProperties
<1>4. e \in Seq(Kind) /\ \A i \in 1 .. n : ColumnText(keys[i]) \in Seq(Kind)
  BY <1>1, ColumnTextFacts, ElementOfSeq
<1>5. DOMAIN keys = 1 .. n /\ DOMAIN ks = 1 .. n + 1 /\ n \in Nat
  BY <1>1, <1>3, LenProperties
<1>6. b \in [1 .. n -> Seq(Kind)]
  BY <1>1, <1>4, <1>5 DEF ColumnTexts
<1>7. c \in [1 .. n + 1 -> Seq(Kind)]
  <2>1. \A i \in 1 .. n + 1 : ColumnText(ks[i]) \in Seq(Kind)
    BY <1>3, ColumnTextFacts, ElementOfSeq
  <2> QED BY <1>1, <1>5, <2>1 DEF ColumnTexts
<1>8. c[n + 1] = e /\ \A i \in 1 .. n : c[i] = b[i]
  BY <1>1, <1>3, <1>5 DEF ColumnTexts
<1>9. /\ b \in Seq(Seq(Kind)) /\ (n = 0 <=> b = <<>>)
      /\ IsAppended(c, b, e)
  <2>1. PartsGrow(n, b, c, e)
    BY <1>4, <1>5, <1>6, <1>7, <1>8, PartsAppend
  <2> QED BY <2>1 DEF PartsGrow
<1>10. n = 0 <=> keys = <<>>
  BY <1>1, EmptySeq
<1>11. CreateStart \in Seq(Kind)
  <2>1. "create" \in Kind /\ "table" \in Kind /\ "identifier" \in Kind /\ "(" \in Kind
    BY DEF Kind
  <2> QED BY <2>1, Tuples DEF CreateStart
<1>12. /\ ListWritten(CreateStart, b) \in Seq(Kind)
       /\ b = <<>> => ListWritten(CreateStart, b) = CreateStart /\ ListWritten(CreateStart, c) = CreateStart \o e
       /\ b # <<>> => ListWritten(CreateStart, c) = Append(ListWritten(CreateStart, b), ",") \o e
  BY <1>4, <1>9, <1>11, WrittenOn DEF ListGrows
<1> QED BY <1>1, <1>2, <1>9, <1>10, <1>12

\* A list of tokens that are all the same.
Marks(n, t) == [i \in 1 .. n |-> <<t>>]
LEMMA MarksFacts ==
  ASSUME NEW start \in Seq(Kind), NEW n \in Nat, NEW t \in Kind
  PROVE  /\ ListWritten(start, Marks(n, t)) \in Seq(Kind)
         /\ n = 0 => /\ ListWritten(start, Marks(n, t)) = start
                     /\ ListWritten(start, Marks(n + 1, t)) = Append(start, t)
         /\ n # 0 => ListWritten(start, Marks(n + 1, t)) = Append(Append(ListWritten(start, Marks(n, t)), ","), t)
<1>1. PICK b, c, e : b = Marks(n, t) /\ c = Marks(n + 1, t) /\ e = <<t>>
  OBVIOUS
<1>2. e \in Seq(Kind)
  BY <1>1, KindFacts
<1>3. b \in [1 .. n -> Seq(Kind)] /\ c \in [1 .. n + 1 -> Seq(Kind)]
  BY <1>1, <1>2 DEF Marks
<1>4. c[n + 1] = e /\ \A i \in 1 .. n : c[i] = b[i]
  BY <1>1 DEF Marks
<1>5. PartsGrow(n, b, c, e)
  BY <1>2, <1>3, <1>4, PartsAppend
<1>6. PICK w : w = ListWritten(start, b)
  OBVIOUS
<1>7. /\ w \in Seq(Kind)
      /\ b = <<>> => w = start /\ ListWritten(start, c) = start \o e
      /\ b # <<>> => ListWritten(start, c) = Append(w, ",") \o e
  <2>1. /\ ListWritten(start, b) \in Seq(Kind)
        /\ b = <<>> => ListWritten(start, b) = start /\ ListWritten(start, c) = start \o e
        /\ b # <<>> => ListWritten(start, c) = Append(ListWritten(start, b), ",") \o e
    <3>1. b \in Seq(Seq(Kind)) /\ IsAppended(c, b, e)
      BY <1>5 DEF PartsGrow
    <3>2. ListGrows(start, b, c, e)
      BY <1>2, <3>1, WrittenOn
    <3> QED BY <3>2 DEF ListGrows
  <2> QED BY <1>6, <2>1
<1>8. Append(w, ",") \in Seq(Kind)
  BY <1>7, KindFacts, AppendProperties
<1>9. SameSeq(start \o <<t>>, Append(start, t)) /\ SameSeq(Append(w, ",") \o <<t>>, Append(Append(w, ","), t))
  BY <1>8, JoinsOne
<1>10. n = 0 <=> b = <<>>
  BY <1>5 DEF PartsGrow
<1> QED BY <1>1, <1>6, <1>7, <1>9, <1>10 DEF SameSeq

MarksGrow(start, n, t) ==
  SameSeq(ListWritten(start, Marks(n + 1, t)), Append(Append(ListWritten(start, Marks(n, t)), ","), t))
LEMMA FirstMarks ==
  ASSUME NEW start \in Seq(Kind), NEW t \in Kind
  PROVE  /\ SameSeq(ListWritten(start, Marks(0, t)), start)
         /\ SameSeq(ListWritten(start, Marks(1, t)), Append(start, t))
<1>1. PICK n, m : n = 0 /\ m = n + 1
  OBVIOUS
<1>2. n \in Nat /\ m = 1
  BY <1>1
<1>3. n = 0 => ListWritten(start, Marks(n, t)) = start /\ ListWritten(start, Marks(n + 1, t)) = Append(start, t)
  BY <1>2, MarksFacts
<1> QED BY <1>1, <1>2, <1>3 DEF SameSeq
LEMMA NextMarks ==
  ASSUME NEW start \in Seq(Kind), NEW t \in Kind, NEW n \in Nat, n # 0
  PROVE  MarksGrow(start, n, t)
<1>1. n # 0 => ListWritten(start, Marks(n + 1, t)) = Append(Append(ListWritten(start, Marks(n, t)), ","), t)
  BY MarksFacts
<1> QED BY <1>1 DEF MarksGrow, SameSeq

LEMMA Pairs ==
  ASSUME NEW S, NEW a \in S, NEW b \in S
  PROVE  /\ <<a>> \in Seq(S) /\ <<a, b>> \in Seq(S)
         /\ SameSeq(Append(<<a>>, b), <<a, b>>) /\ SameSeq(<<a>> \o <<b>>, <<a, b>>)
<1>1. <<a, b>> = Append(<<a>>, b) /\ <<a>> \in Seq(S) /\ <<a, b>> \in Seq(S)
  <2>1. PICK c, d : c = a /\ d = b
    OBVIOUS
  <2>2. c \in S /\ d \in S
    BY <2>1
  <2> HIDE <2>1
  <2>3. /\ <<a, b, c, d>> = Append(<<a, b, c>>, d) /\ <<a, b>> = Append(<<a>>, b)
        /\ <<a>> \in Seq(S) /\ <<a, b>> \in Seq(S)
    BY <2>2, Tuples
  <2> QED BY <2>3
<1>2. SameSeq(<<a>> \o <<b>>, Append(<<a>>, b))
  BY <1>1, JoinsOne
<1> QED BY <1>1, <1>2 DEF SameSeq

LEMMA AskedFacts ==
  ASSUME NEW n \in Nat
  PROVE  /\ Asked(n) \in Seq(Kind)
         /\ Asked(0) = <<"select", "*">>
         /\ Asked(1) = <<"select", "identifier">>
         /\ n # 0 => Asked(n + 1) = Append(Append(Asked(n), ","), "identifier")
<1>1. PICK s, x, t : s = "select" /\ x = "*" /\ t = "identifier"
  OBVIOUS
<1>2. s \in Kind /\ x \in Kind /\ t \in Kind
  BY <1>1 DEF Kind
<1>3. PICK start : start = <<s>>
  OBVIOUS
<1>4. start \in Seq(Kind) /\ <<s, x>> \in Seq(Kind)
  BY <1>2, <1>3, Pairs
<1>5. Asked(0) = <<s, x>>
  <2>1. SameSeq(<<s>> \o <<x>>, <<s, x>>)
    BY <1>2, Pairs
  <2>2. Asked(0) = <<s>> \o <<x>>
    BY <1>1 DEF Asked
  <2> QED BY <2>1, <2>2 DEF SameSeq
<1>6. \A m \in Nat : m # 0 => Asked(m) = ListWritten(start, Marks(m, t))
  BY <1>1, <1>3 DEF Asked, ListWritten, Marks
<1>7. Asked(1) = <<s, t>>
  <2>1. SameSeq(Append(<<s>>, t), <<s, t>>)
    BY <1>2, Pairs
  <2>2. SameSeq(ListWritten(start, Marks(1, t)), Append(start, t))
    BY <1>2, <1>4, FirstMarks
  <2>3. Asked(1) = ListWritten(start, Marks(1, t))
    BY <1>6
  <2> QED BY <1>3, <2>1, <2>2, <2>3 DEF SameSeq
<1>8. ASSUME n # 0 PROVE Asked(n + 1) = Append(Append(Asked(n), ","), t)
  <2>1. n + 1 # 0 /\ n + 1 \in Nat
    OBVIOUS
  <2>2. MarksGrow(start, n, t)
    BY <1>2, <1>4, <1>8, NextMarks
  <2>3. Asked(n) = ListWritten(start, Marks(n, t)) /\ Asked(n + 1) = ListWritten(start, Marks(n + 1, t))
    BY <1>6, <1>8, <2>1
  <2>4. ListWritten(start, Marks(n + 1, t)) = Append(Append(ListWritten(start, Marks(n, t)), ","), t)
    BY <2>2 DEF MarksGrow, SameSeq
  <2> QED BY <2>3, <2>4
<1>9. Asked(n) \in Seq(Kind)
  <2>1. CASE n = 0
    BY <1>4, <1>5, <2>1
  <2>2. CASE n # 0
    <3>1. ListWritten(start, Marks(n, t)) \in Seq(Kind)
      BY <1>2, <1>4, MarksFacts
    <3> QED BY <1>6, <2>2, <3>1
  <2> QED BY <2>1, <2>2
<1> QED BY <1>1, <1>5, <1>7, <1>8, <1>9

LEMMA Brackets ==
  ASSUME NEW start \in Seq(Kind), NEW list \in Seq(Kind), NEW x \in Kind, NEW y \in Kind
  PROVE  SameSeq(start \o ((<<x>> \o list) \o <<y>>), Append(Append(start, x) \o list, y))
<1>1. <<x>> \in Seq(Kind)
  BY KindFacts
<1>2. <<x>> \o list \in Seq(Kind)
  BY <1>1, ConcatProperties
<1>3. SameSeq((<<x>> \o list) \o <<y>>, Append(<<x>> \o list, y))
  BY <1>2, JoinsOne
<1>4. SameSeq(start \o Append(<<x>> \o list, y), Append(start \o (<<x>> \o list), y))
  BY <1>2, JoinsAppended
<1>5. SameSeq(start \o (<<x>> \o list), (start \o <<x>>) \o list)
  BY <1>1, Associates
<1>6. SameSeq(start \o <<x>>, Append(start, x))
  BY JoinsOne
<1> QED BY <1>3, <1>4, <1>5, <1>6 DEF SameSeq

Literals(n) == Listed(Marks(n, "literal"))
LEMMA LiteralsFacts ==
  ASSUME NEW n \in Nat
  PROVE  Literals(n) \in Seq(Kind) /\ SetText(n) \in Seq(Kind)
         /\ SetText(n) = (<<"(">> \o Literals(n)) \o <<")">>
<1>1. "literal" \in Kind /\ "(" \in Kind /\ ")" \in Kind
  BY DEF Kind
<1>2. <<"literal">> \in Seq(Kind) /\ <<"(">> \in Seq(Kind) /\ <<")">> \in Seq(Kind)
  BY <1>1, Tuples
<1>3. PICK b : b = Marks(n, "literal")
  OBVIOUS
<1>4. b \in [1 .. n -> Seq(Kind)]
  BY <1>2, <1>3 DEF Marks
<1>5. b \in Seq(Seq(Kind))
  BY <1>4, SequenceIs
<1>6. Literals(n) \in Seq(Kind)
  BY <1>2, <1>3, <1>5, ListedFacts DEF Literals
<1>7. SetText(n) = (<<"(">> \o Literals(n)) \o <<")">>
  BY DEF SetText, InParens, Literals, Marks
<1> QED BY <1>2, <1>6, <1>7, ConcatProperties

ValuesStart == <<"insert", "into", "identifier", "values">>
SetTexts(ns) == [i \in DOMAIN ns |-> SetText(ns[i])]
LEMMA ValuesFacts ==
  ASSUME NEW ns \in Seq(Nat), NEW m \in Nat
  PROVE  /\ Values(ns) \in Seq(Kind)
         /\ Values(<<>>) = ValuesStart
         /\ Begun(ns) \in Seq(Kind) /\ Given(ns, m) \in Seq(Kind)
         /\ Values(Append(ns, m)) = Append(Given(ns, m), ")")
<1>1. PICK b, c, ks, e, n : /\ b = SetTexts(ns) /\ ks = Append(ns, m)
                            /\ c = SetTexts(ks) /\ e = SetText(m) /\ n = Len(ns)
  OBVIOUS
<1>2. Values(ns) = ListWritten(ValuesStart, b) /\ Values(ks) = ListWritten(ValuesStart, c)
  BY <1>1 DEF Values, ValuesStart, ListWritten, SetTexts
<1>3. /\ ks \in Seq(Nat) /\ Len(ks) = n + 1 /\ ks[n + 1] = m
      /\ \A i \in 1 .. n : ks[i] = ns[i]
  BY <1>1, AppendProperties
<1>4. e \in Seq(Kind) /\ \A i \in 1 .. n : SetText(ns[i]) \in Seq(Kind)
  BY <1>1, LiteralsFacts, ElementOfSeq
<1>5. DOMAIN ns = 1 .. n /\ DOMAIN ks = 1 .. n + 1 /\ n \in Nat
  BY <1>1, <1>3, LenProperties
<1>6. b \in [1 .. n -> Seq(Kind)]
  BY <1>1, <1>4, <1>5 DEF SetTexts
<1>7. c \in [1 .. n + 1 -> Seq(Kind)]
  <2>1. \A i \in 1 .. n + 1 : SetText(ks[i]) \in Seq(Kind)
    BY <1>3, LiteralsFacts, ElementOfSeq
  <2> QED BY <1>1, <1>5, <2>1 DEF SetTexts
<1>8. c[n + 1] = e /\ \A i \in 1 .. n : c[i] = b[i]
  <2>1. n + 1 \in 1 .. n + 1 /\ \A i \in 1 .. n : i \in 1 .. n + 1
    BY <1>5
  <2>2. /\ \A i \in 1 .. n : b[i] = SetText(ns[i])
        /\ \A i \in 1 .. n + 1 : c[i] = SetText(ks[i])
    BY <1>1, <1>5 DEF SetTexts
  <2>3. c[n + 1] = e
    BY <1>1, <1>3, <2>1, <2>2
  <2>4. ASSUME NEW i \in 1 .. n PROVE c[i] = b[i]
    BY <1>3, <2>1, <2>2
  <2> QED BY <2>3, <2>4
<1>9. /\ b \in Seq(Seq(Kind)) /\ (n = 0 <=> b = <<>>)
      /\ IsAppended(c, b, e)
  <2>1. PartsGrow(n, b, c, e)
    BY <1>4, <1>5, <1>6, <1>7, <1>8, PartsAppend
  <2> QED BY <2>1 DEF PartsGrow
<1>10. n = 0 <=> ns = <<>>
  BY <1>1, EmptySeq
<1>11. ValuesStart \in Seq(Kind)
  <2>1. "insert" \in Kind /\ "into" \in Kind /\ "identifier" \in Kind /\ "values" \in Kind
    BY DEF Kind
  <2> QED BY <2>1, Tuples DEF ValuesStart
<1>12. PICK w : w = Values(ns)
  OBVIOUS
<1>13. /\ w \in Seq(Kind)
       /\ ns = <<>> => w = ValuesStart /\ Values(ks) = ValuesStart \o e
       /\ ns # <<>> => Values(ks) = Append(w, ",") \o e
  <2>1. /\ ListWritten(ValuesStart, b) \in Seq(Kind)
        /\ b = <<>> => ListWritten(ValuesStart, b) = ValuesStart /\ ListWritten(ValuesStart, c) = ValuesStart \o e
        /\ b # <<>> => ListWritten(ValuesStart, c) = Append(ListWritten(ValuesStart, b), ",") \o e
    BY <1>4, <1>9, <1>11, WrittenOn DEF ListGrows
  <2> QED BY <1>2, <1>9, <1>10, <1>12, <2>1
<1>14. Values(<<>>) = ValuesStart
  <2>1. SetTexts(<<>>) = <<>>
    BY DEF SetTexts
  <2>2. Values(<<>>) = ValuesStart \o Listed(<<>>)
    BY <2>1 DEF Values, ValuesStart, SetTexts
  <2> QED BY <1>11, <2>2, ListedEmpty, ConcatEmptySeq
<1>15. "(" \in Kind /\ ")" \in Kind
  BY DEF Kind
<1>16. PICK v : v = IF ns = <<>> THEN w ELSE Append(w, ",")
  OBVIOUS
<1>17. v \in Seq(Kind)
  BY <1>13, <1>16, KindFacts, AppendProperties
<1>18. Begun(ns) = Append(v, "(") /\ Begun(ns) \in Seq(Kind)
  <2>1. Begun(ns) = Append(v, "(")
    BY <1>12, <1>16 DEF Begun
  <2> QED BY <1>15, <1>17, <2>1, AppendProperties
<1>19. Given(ns, m) = Append(v, "(") \o Literals(m)
  BY <1>18 DEF Given, Literals, Marks
<1>20. Given(ns, m) \in Seq(Kind)
  BY <1>18, <1>19, LiteralsFacts, ConcatProperties
<1>21. Values(ks) = v \o ((<<"(">> \o Literals(m)) \o <<")">>)
  BY <1>1, <1>13, <1>16, LiteralsFacts
<1>22. SameSeq(v \o ((<<"(">> \o Literals(m)) \o <<")">>), Append(Append(v, "(") \o Literals(m), ")"))
  BY <1>15, <1>17, LiteralsFacts, Brackets
<1> QED BY <1>1, <1>12, <1>13, <1>14, <1>18, <1>19, <1>20, <1>21, <1>22 DEF SameSeq

LEMMA GivenFacts ==
  ASSUME NEW ns \in Seq(Nat), NEW n \in Nat
  PROVE  /\ Given(ns, 0) = Begun(ns)
         /\ Given(ns, 1) = Append(Begun(ns), "literal")
         /\ n # 0 => Given(ns, n + 1) = Append(Append(Given(ns, n), ","), "literal")
<1>1. "literal" \in Kind
  BY DEF Kind
<1>2. PICK s : s = Begun(ns)
  OBVIOUS
<1>3. s \in Seq(Kind)
  BY <1>2, ValuesFacts
<1>4. \A m \in Nat : Given(ns, m) = ListWritten(s, Marks(m, "literal"))
  BY <1>2 DEF Given, ListWritten, Marks
<1>5. Given(ns, 0) = s
  <2>1. SameSeq(ListWritten(s, Marks(0, "literal")), s)
    BY <1>1, <1>3, FirstMarks
  <2> QED BY <1>4, <2>1 DEF SameSeq
<1>6. Given(ns, 1) = Append(s, "literal")
  <2>1. SameSeq(ListWritten(s, Marks(1, "literal")), Append(s, "literal"))
    BY <1>1, <1>3, FirstMarks
  <2> QED BY <1>4, <2>1 DEF SameSeq
<1>7. ASSUME n # 0 PROVE Given(ns, n + 1) = Append(Append(Given(ns, n), ","), "literal")
  <2>1. MarksGrow(s, n, "literal")
    BY <1>1, <1>3, <1>7, NextMarks
  <2>2. n + 1 \in Nat
    OBVIOUS
  <2>3. Given(ns, n) = ListWritten(s, Marks(n, "literal")) /\ Given(ns, n + 1) = ListWritten(s, Marks(n + 1, "literal"))
    BY <1>4, <2>2
  <2> QED BY <2>1, <2>3 DEF MarksGrow, SameSeq
<1> QED BY <1>2, <1>5, <1>6, <1>7

-----------------------------------------------------------------------------
(* What the tokens that are taken say, separators aside, and the places of *)
(* the names and literals among them.                                      *)

Named == {"identifier", "literal"}
Places(w, n) == {p \in 1 .. n - 1 : w[p] \in Named}
So(w, n, ts, ks) ==
  /\ ts \in Seq(Kind) /\ ks \in Seq(Nat)
  /\ Plain(SubSeq(w, 1, n - 1)) = Plain(ts)
  /\ \A i \in 2 .. Len(ks) : ks[i - 1] < ks[i]
  /\ ToSet(ks) = Places(w, n)

LEMMA TakenGrows ==
  ASSUME NEW w \in Seq(Kind), NEW n \in 1 .. Len(w)
  PROVE  /\ w[n] \in Kind
         /\ SubSeq(w, 1, n - 1) \in Seq(Kind)
         /\ SameSeq(SubSeq(w, 1, (n + 1) - 1), Append(SubSeq(w, 1, n - 1), w[n]))
<1>1. w[n] \in Kind /\ Len(w) \in Nat
  BY ElementOfSeq, LenProperties
<1>2. n \in Nat /\ (n + 1) - 1 = n /\ n - 1 \in 0 .. Len(w) /\ n \in 0 .. Len(w)
  BY <1>1
<1>3. SubSeq(w, 1, n - 1) \in Seq(Kind)
  BY <1>1, <1>2, SubSeqProperties
<1>4. SubSeq(w, 1, n) = Append(SubSeq(w, 1, n - 1), w[n])
  BY <1>1, <1>2
<1> QED BY <1>1, <1>2, <1>3, <1>4 DEF SameSeq

LEMMA PlacesGrow ==
  ASSUME NEW w \in Seq(Kind), NEW n \in 1 .. Len(w)
  PROVE  Places(w, n + 1) = IF w[n] \in Named THEN Places(w, n) \cup {n} ELSE Places(w, n)
<1>1. n \in Nat
  BY LenProperties
<1>2. 1 .. (n + 1) - 1 = (1 .. n - 1) \cup {n}
  BY <1>1
<1> QED BY <1>2 DEF Places

LEMMA SoAlike ==
  ASSUME NEW w, NEW n, NEW ts, NEW us \in Seq(Kind), NEW ks, So(w, n, ts, ks), Plain(us) = Plain(ts)
  PROVE  So(w, n, us, ks)
  BY DEF So

LEMMA SoPasses ==
  ASSUME NEW w \in Seq(Kind), NEW n \in 1 .. Len(w), NEW ts, NEW ks, So(w, n, ts, ks),
         w[n] \in Separator
  PROVE  So(w, n + 1, ts, ks)
<1>1. PICK u, v : u = SubSeq(w, 1, n - 1) /\ v = SubSeq(w, 1, (n + 1) - 1)
  OBVIOUS
<1>2. u \in Seq(Kind) /\ v = Append(u, w[n]) /\ w[n] \in Kind
  BY <1>1, TakenGrows DEF SameSeq
<1>3. Plain(v) = Plain(u)
  BY <1>2, PlainFacts
<1>4. w[n] \notin Named
  BY DEF Named, Separator
<1>5. Places(w, n + 1) = Places(w, n)
  BY <1>4, PlacesGrow
<1> QED BY <1>1, <1>3, <1>5 DEF So

LEMMA PlainGrow ==
  ASSUME NEW u \in Seq(Kind), NEW t \in Kind, NEW ts \in Seq(Kind), Plain(u) = Plain(ts)
  PROVE  Plain(Append(u, t)) = Plain(Append(ts, t))
<1>1. Plain(Append(u, t)) = IF t \in Separator THEN Plain(u) ELSE Append(Plain(u), t)
  BY PlainFacts
<1>2. Plain(Append(ts, t)) = IF t \in Separator THEN Plain(ts) ELSE Append(Plain(ts), t)
  BY PlainFacts
<1> QED BY <1>1, <1>2

LEMMA SoTakes ==
  ASSUME NEW w \in Seq(Kind), NEW n \in 1 .. Len(w), NEW ts, NEW ks, So(w, n, ts, ks),
         w[n] \notin Named
  PROVE  So(w, n + 1, Append(ts, w[n]), ks)
<1>1. PICK u, v : u = SubSeq(w, 1, n - 1) /\ v = SubSeq(w, 1, (n + 1) - 1)
  OBVIOUS
<1>2. u \in Seq(Kind) /\ v = Append(u, w[n]) /\ w[n] \in Kind
  BY <1>1, TakenGrows DEF SameSeq
<1>3. ts \in Seq(Kind) /\ Plain(u) = Plain(ts)
  BY <1>1 DEF So
<1>4. Plain(v) = Plain(Append(ts, w[n]))
  BY <1>2, <1>3, PlainGrow
<1>5. Append(ts, w[n]) \in Seq(Kind)
  BY <1>2, <1>3, AppendProperties
<1>6. Places(w, n + 1) = Places(w, n)
  BY PlacesGrow
<1> QED BY <1>1, <1>4, <1>5, <1>6 DEF So

LEMMA SoNames ==
  ASSUME NEW w \in Seq(Kind), NEW n \in 1 .. Len(w), NEW ts, NEW ks, So(w, n, ts, ks),
         w[n] \in Named
  PROVE  So(w, n + 1, Append(ts, w[n]), Append(ks, n))
<1>1. PICK u, v, ms : u = SubSeq(w, 1, n - 1) /\ v = SubSeq(w, 1, (n + 1) - 1) /\ ms = Append(ks, n)
  OBVIOUS
<1>2. u \in Seq(Kind) /\ v = Append(u, w[n]) /\ w[n] \in Kind
  BY <1>1, TakenGrows DEF SameSeq
<1>3. ts \in Seq(Kind) /\ Plain(u) = Plain(ts) /\ ks \in Seq(Nat)
  BY <1>1 DEF So
<1>4. Plain(v) = Plain(Append(ts, w[n]))
  BY <1>2, <1>3, PlainGrow
<1>5. Append(ts, w[n]) \in Seq(Kind)
  BY <1>2, <1>3, AppendProperties
<1>6. Places(w, n + 1) = Places(w, n) \cup {n}
  BY PlacesGrow
<1>7. n \in Nat /\ Len(ks) \in Nat
  BY <1>3, LenProperties
<1>8. /\ ms \in Seq(Nat) /\ Len(ms) = Len(ks) + 1 /\ ms[Len(ks) + 1] = n
      /\ \A i \in 1 .. Len(ks) : ms[i] = ks[i]
  BY <1>1, <1>3, <1>7, AppendProperties
<1>9. DOMAIN ks = 1 .. Len(ks) /\ DOMAIN ms = 1 .. Len(ks) + 1
  BY <1>3, <1>8, LenProperties
<1>10. ToSet(ks) = {ks[i] : i \in 1 .. Len(ks)} /\ ToSet(ms) = {ms[i] : i \in 1 .. Len(ks) + 1}
  BY <1>9 DEF ToSet
<1>11. ToSet(ms) = ToSet(ks) \cup {n}
  <2>1. ASSUME NEW x \in ToSet(ms) PROVE x \in ToSet(ks) \cup {n}
    <3>1. PICK i \in 1 .. Len(ks) + 1 : x = ms[i]
      BY <1>10
    <3>2. i \in 1 .. Len(ks) \/ i = Len(ks) + 1
      BY <1>7
    <3> QED BY <1>8, <1>10, <3>1, <3>2
  <2>2. ASSUME NEW x \in ToSet(ks) PROVE x \in ToSet(ms)
    <3>1. PICK i \in 1 .. Len(ks) : x = ks[i]
      BY <1>10
    <3>2. i \in 1 .. Len(ks) + 1
      BY <1>7
    <3> QED BY <1>8, <1>10, <3>1, <3>2
  <2>3. n \in ToSet(ms)
    <3>1. Len(ks) + 1 \in 1 .. Len(ks) + 1
      BY <1>7
    <3> QED BY <1>8, <1>10, <3>1
  <2> QED BY <2>1, <2>2, <2>3
<1>12. \A i \in 1 .. Len(ks) : ks[i] < n
  <2> SUFFICES ASSUME NEW i \in 1 .. Len(ks) PROVE ks[i] < n
    OBVIOUS
  <2>1. ks[i] \in ToSet(ks)
    BY <1>10
  <2>2. ks[i] \in Places(w, n)
    BY <2>1 DEF So
  <2> QED BY <1>7, <2>2 DEF Places
<1>13. ASSUME NEW i \in 2 .. Len(ms) PROVE ms[i - 1] < ms[i]
  <2>1. CASE i \in 2 .. Len(ks)
    <3>1. i \in 1 .. Len(ks) /\ i - 1 \in 1 .. Len(ks)
      BY <1>7, <2>1
    <3>2. ks[i - 1] < ks[i]
      BY <2>1 DEF So
    <3> QED BY <1>8, <3>1, <3>2
  <2>2. CASE i = Len(ks) + 1
    <3>1. i - 1 \in 1 .. Len(ks)
      BY <1>7, <1>8, <2>2
    <3> QED BY <1>8, <1>12, <2>2, <3>1
  <2>3. i \in 2 .. Len(ks) \/ i = Len(ks) + 1
    BY <1>7, <1>8
  <2> QED BY <2>1, <2>2, <2>3
<1>14. ToSet(ms) = Places(w, n + 1)
  BY <1>6, <1>11 DEF So
<1> QED BY <1>1, <1>4, <1>5, <1>8, <1>13, <1>14 DEF So

LEMMA SoStarts ==
  ASSUME NEW w \in Seq(Kind)
  PROVE  So(w, 1, <<>>, <<>>)
<1>1. SubSeq(w, 1, 0) = <<>>
  <2>1. PICK u : u = SubSeq(w, 1, 0)
    OBVIOUS
  <2>2. u \in Seq(Kind) /\ Len(u) = 0
    BY <2>1, SubSeqProperties, LenProperties
  <2> QED BY <2>1, <2>2, EmptySeq
<1>2. <<>> \in Seq(Kind) /\ <<>> \in Seq(Nat) /\ Len(<<>>) = 0
  OBVIOUS
<1>3. ToSet(<<>>) = {}
  BY DEF ToSet
<1>4. Places(w, 1) = {}
  BY DEF Places
<1>5. 1 - 1 = 0
  OBVIOUS
<1>6. \A i \in 2 .. 0 : FALSE
  OBVIOUS
<1> QED BY <1>1, <1>2, <1>3, <1>4, <1>5, <1>6 DEF So

-----------------------------------------------------------------------------
(* The statements of the grammar in these terms.                           *)

LEMMA Quads ==
  ASSUME NEW S, NEW a \in S, NEW b \in S, NEW c \in S, NEW d \in S
  PROVE  /\ <<a, b>> \in Seq(S) /\ <<c, d>> \in Seq(S)
         /\ SameSeq(<<a, b>> \o <<c, d>>, <<a, b, c, d>>)
         /\ SameSeq(<<a, b>> \o <<c>>, <<a, b, c>>)
         /\ SameSeq(<<a, b, c>> \o <<d>>, <<a, b, c, d>>)
<1>1. PICK s, r : s = <<a, b>> /\ r = <<a, b, c>>
  OBVIOUS
<1>2. /\ <<a, b, c>> = Append(<<a, b>>, c) /\ <<a, b, c, d>> = Append(<<a, b, c>>, d)
      /\ <<a, b>> \in Seq(S) /\ <<a, b, c>> \in Seq(S)
  BY Tuples
<1>3. s \o <<c, d>> = Append(Append(s, c), d)
  BY <1>1, <1>2
<1>4. SameSeq(s \o <<c>>, Append(s, c)) /\ SameSeq(r \o <<d>>, Append(r, d))
  BY <1>1, <1>2, JoinsOne
<1>5. <<c, d>> \in Seq(S)
  BY Pairs
<1> QED BY <1>1, <1>2, <1>3, <1>4, <1>5 DEF SameSeq

LEMMA WrittenTable ==
  ASSUME NEW s, s.type = "CREATE_TABLE", s.columns \in Seq(BOOLEAN)
  PROVE  SameSeq(Written(s), Append(Created(s.columns), ")"))
<1>1. PICK c, t, i, o, e, l : /\ c = "create" /\ t = "table" /\ i = "identifier" /\ o = "(" /\ e = ")"
                              /\ l = Listed(ColumnTexts(s.columns))
  OBVIOUS
<1>2. c \in Kind /\ t \in Kind /\ i \in Kind /\ o \in Kind /\ e \in Kind
  BY <1>1 DEF Kind
<1>3. l \in Seq(Kind)
  <2>1. PICK k, n, b : k = s.columns /\ n = Len(k) /\ b = ColumnTexts(k)
    OBVIOUS
  <2>2. k \in Seq(BOOLEAN) /\ n \in Nat /\ DOMAIN k = 1 .. n
    BY <2>1, LenProperties
  <2>3. \A j \in 1 .. n : ColumnText(k[j]) \in Seq(Kind)
    BY <2>1, <2>2, ElementOfSeq, ColumnTextFacts
  <2>4. b \in [1 .. n -> Seq(Kind)]
    BY <2>1, <2>2, <2>3 DEF ColumnTexts
  <2>5. b \in Seq(Seq(Kind))
    BY <2>2, <2>4, SequenceIs
  <2>6. <<c>> \in Seq(Kind)
    BY <1>2, KindFacts
  <2> QED BY <1>1, <2>1, <2>5, <2>6, ListedFacts
<1>4. Written(s) = <<c, t>> \o (<<i>> \o ((<<o>> \o l) \o <<e>>))
  <2>1. Opening["CREATE_TABLE"] = <<"create", "table">>
    BY DEF Opening
  <2> QED BY <1>1, <2>1 DEF Written, InParens, ColumnTexts
<1>5. Created(s.columns) = <<c, t, i, o>> \o l
  BY <1>1 DEF Created, ColumnTexts
<1>6. PICK p, q, r : p = <<c, t>> /\ q = <<i>> /\ r = <<c, t, i>>
  OBVIOUS
<1>7. /\ p \in Seq(Kind) /\ q \in Seq(Kind) /\ r \in Seq(Kind)
      /\ SameSeq(p \o q, r) /\ SameSeq(r \o <<o>>, <<c, t, i, o>>)
  <2>1. SameSeq(<<c, t>> \o <<i>>, <<c, t, i>>) /\ SameSeq(<<c, t, i>> \o <<o>>, <<c, t, i, o>>)
    BY <1>2, Quads
  <2>2. <<c, t>> \in Seq(Kind) /\ <<i>> \in Seq(Kind)
    BY <1>2, Pairs
  <2>3. <<c, t, i>> \in Seq(Kind)
    BY <2>1, <2>2, ConcatProperties DEF SameSeq
  <2> QED BY <1>6, <2>1, <2>2, <2>3
<1>8. PICK m : m = (<<o>> \o l) \o <<e>>
  OBVIOUS
<1>9. m \in Seq(Kind)
  BY <1>2, <1>3, <1>8, KindFacts, ConcatProperties
<1>10. SameSeq(p \o (q \o m), (p \o q) \o m)
  BY <1>7, <1>9, Associates
<1>11. SameSeq(r \o m, Append(Append(r, o) \o l, e))
  BY <1>2, <1>3, <1>7, <1>8, Brackets
<1>12. SameSeq(r \o <<o>>, Append(r, o))
  BY <1>2, <1>7, JoinsOne
<1> QED BY <1>1, <1>4, <1>5, <1>6, <1>7, <1>8, <1>10, <1>11, <1>12 DEF SameSeq

LEMMA WrittenSelect ==
  ASSUME NEW s, s.type = "SELECT", NEW S, s.columns \in Seq(S)
  PROVE  SameSeq(Written(s), Append(Append(Asked(Len(s.columns)), "from"), "identifier"))
<1>1. PICK f, i, n, l : /\ f = "from" /\ i = "identifier" /\ n = Len(s.columns)
                        /\ l = IF n = 0 THEN <<"*">> ELSE Listed(Marks(n, "identifier"))
  OBVIOUS
<1>2. f \in Kind /\ i \in Kind /\ "*" \in Kind /\ "select" \in Kind
  BY <1>1 DEF Kind
<1>3. n \in Nat /\ DOMAIN s.columns = 1 .. n /\ (s.columns = <<>> <=> n = 0)
  BY <1>1, LenProperties, EmptySeq
<1>4. l \in Seq(Kind)
  <2>1. PICK b : b = Marks(n, i)
    OBVIOUS
  <2>2. <<i>> \in Seq(Kind) /\ <<"*">> \in Seq(Kind)
    BY <1>2, KindFacts
  <2>3. b \in [1 .. n -> Seq(Kind)]
    BY <2>1, <2>2 DEF Marks
  <2>4. b \in Seq(Seq(Kind))
    BY <1>3, <2>3, SequenceIs
  <2>5. Listed(b) \in Seq(Kind)
    BY <2>2, <2>4, ListedFacts
  <2> QED BY <1>1, <2>1, <2>2, <2>5
<1>5. Written(s) = <<"select">> \o (l \o <<f, i>>)
  <2>1. Opening["SELECT"] = <<"select">>
    BY DEF Opening
  <2>2. Marks(n, "identifier") = [j \in DOMAIN s.columns |-> <<"identifier">>]
    BY <1>3 DEF Marks
  <2> QED BY <1>1, <1>3, <2>1, <2>2 DEF Written
<1>6. Asked(n) = <<"select">> \o l
  BY <1>1 DEF Asked, Marks
<1>7. <<f, i>> \in Seq(Kind) /\ <<"select">> \in Seq(Kind)
  BY <1>2, Pairs
<1>8. SameSeq(<<"select">> \o (l \o <<f, i>>), (<<"select">> \o l) \o <<f, i>>)
  BY <1>4, <1>7, Associates
<1>9. PICK a : a = Asked(n)
  OBVIOUS
<1>10. a \in Seq(Kind)
  BY <1>3, <1>9, AskedFacts
<1>11. a \o <<f, i>> = Append(Append(a, f), i)
  BY <1>2, <1>10
<1> QED BY <1>1, <1>5, <1>6, <1>8, <1>9, <1>11 DEF SameSeq

LEMMA WrittenInsert ==
  ASSUME NEW s, s.type \in {"INSERT", "INSERT_BULK"}, s.sets \in Seq(Nat)
  PROVE  SameSeq(Written(s), Values(s.sets))
<1>1. PICK c, t, i, v, l : /\ c = "insert" /\ t = "into" /\ i = "identifier" /\ v = "values"
                           /\ l = Listed(SetTexts(s.sets))
  OBVIOUS
<1>2. c \in Kind /\ t \in Kind /\ i \in Kind /\ v \in Kind
  BY <1>1 DEF Kind
<1>3. l \in Seq(Kind)
  <2>1. PICK k, n, b : k = s.sets /\ n = Len(k) /\ b = SetTexts(k)
    OBVIOUS
  <2>2. k \in Seq(Nat) /\ n \in Nat /\ DOMAIN k = 1 .. n
    BY <2>1, LenProperties
  <2>3. \A j \in 1 .. n : SetText(k[j]) \in Seq(Kind)
    BY <2>1, <2>2, ElementOfSeq, LiteralsFacts
  <2>4. b \in [1 .. n -> Seq(Kind)]
    BY <2>1, <2>2, <2>3 DEF SetTexts
  <2>5. b \in Seq(Seq(Kind))
    BY <2>2, <2>4, SequenceIs
  <2>6. <<c>> \in Seq(Kind)
    BY <1>2, KindFacts
  <2> QED BY <1>1, <2>1, <2>5, <2>6, ListedFacts
<1>4. Written(s) = <<c, t>> \o (<<i, v>> \o l)
  <2>1. Opening["INSERT"] = <<"insert", "into">> /\ Opening["INSERT_BULK"] = <<"insert", "into">>
    BY DEF Opening
  <2> QED BY <1>1, <2>1 DEF Written, SetTexts
<1>5. Values(s.sets) = <<c, t, i, v>> \o l
  BY <1>1 DEF Values, SetTexts
<1>6. /\ <<c, t>> \in Seq(Kind) /\ <<i, v>> \in Seq(Kind)
      /\ SameSeq(<<c, t>> \o <<i, v>>, <<c, t, i, v>>)
  BY <1>2, Quads
<1>7. SameSeq(<<c, t>> \o (<<i, v>> \o l), (<<c, t>> \o <<i, v>>) \o l)
  BY <1>3, <1>6, Associates
<1> QED BY <1>4, <1>5, <1>6, <1>7 DEF SameSeq

\* Statements without lists.
LEMMA WrittenShort ==
  ASSUME NEW s, s.type \in DOMAIN Opening,
         s.type \notin {"SELECT", "CREATE_TABLE", "INSERT", "INSERT_BULK"}, s.named \in BOOLEAN
  PROVE  SameSeq(Written(s), IF s.named THEN Append(Opening[s.type], "identifier") ELSE Opening[s.type])
<1>1. PICK o : o = Opening[s.type]
  OBVIOUS
<1>2. o \in Seq(Kind)
  <2>1. \A k \in {"show", "use", "drop", "create", "help", "exit", "database", "databases", "table", "tables"} : k \in Kind
    BY DEF Kind
  <2>2. /\ <<"show", "databases">> \in Seq(Kind) /\ <<"show", "tables">> \in Seq(Kind)
        /\ <<"use">> \in Seq(Kind) /\ <<"drop", "database">> \in Seq(Kind)
        /\ <<"drop", "table">> \in Seq(Kind) /\ <<"create", "database">> \in Seq(Kind)
        /\ <<"help">> \in Seq(Kind) /\ <<"exit">> \in Seq(Kind)
    BY <2>1, Pairs
  <2>3. s.type \in {"SHOW_DATABASES", "SHOW_TABLES", "USE_DATABASE", "DROP_DATABASE", "DROP_TABLE",
                    "CREATE_DATABASE", "HELP", "EXIT"}
    BY DEF Opening
  <2>4. Opening["SHOW_DATABASES"] \in Seq(Kind) /\ Opening["SHOW_TABLES"] \in Seq(Kind)
    BY <2>2 DEF Opening
  <2>5. Opening["USE_DATABASE"] \in Seq(Kind) /\ Opening["DROP_DATABASE"] \in Seq(Kind)
    BY <2>2 DEF Opening
  <2>6. Opening["DROP_TABLE"] \in Seq(Kind) /\ Opening["CREATE_DATABASE"] \in Seq(Kind)
    BY <2>2 DEF Opening
  <2>7. Opening["HELP"] \in Seq(Kind) /\ Opening["EXIT"] \in Seq(Kind)
    BY <2>2 DEF Opening
  <2> QED BY <1>1, <2>3, <2>4, <2>5, <2>6, <2>7
<1>3. Written(s) = o \o IF s.named THEN <<"identifier">> ELSE <<>>
  BY <1>1 DEF Written
<1>4. "identifier" \in Kind
  BY DEF Kind
<1>5. SameSeq(o \o <<"identifier">>, Append(o, "identifier"))
  BY <1>2, <1>4, JoinsOne
<1>6. o \o <<>> = o
  BY <1>2, ConcatEmptySeq
<1> QED BY <1>1, <1>3, <1>5, <1>6 DEF SameSeq

-----------------------------------------------------------------------------
(* What a parse has taken, rule by rule.                                   *)

Keys(cs) == [i \in DOMAIN cs |-> cs[i].primary]
Names(cs) == [i \in DOMAIN cs |-> cs[i].name]
Lengths(ss) == [i \in DOMAIN ss |-> Len(ss[i])]

Column == [name : Nat, type : Nat, primary : BOOLEAN]
TableTree(tree) ==
  /\ tree = [type |-> "CREATE_TABLE", name |-> tree.name, columns |-> tree.columns, sets |-> <<>>]
  /\ tree.name \in Nat \ {0} /\ tree.columns \in Seq(Column)
SelectTree(tree) ==
  /\ tree = [type |-> "SELECT", name |-> 0, columns |-> tree.columns, sets |-> <<>>]
  /\ tree.columns \in Seq(Nat)
InsertTree(tree) ==
  /\ tree = [type |-> "INSERT", name |-> tree.name, columns |-> <<>>, sets |-> tree.sets]
  /\ tree.name \in Nat \ {0} /\ tree.sets \in Seq(Seq(Nat))

\* The rules that come before any tree.
Beginning ==
  [first |-> <<>>,
   show |-> <<"show">>, use |-> <<"use">>, drop |-> <<"drop">>, create |-> <<"create">>,
   select |-> <<"select">>, insert |-> <<"insert">>, help |-> <<"help">>, exit |-> <<"exit">>,
   dropDatabase |-> <<"drop", "database">>, dropTable |-> <<"drop", "table">>,
   createDatabase |-> <<"create", "database">>, createTable |-> <<"create", "table">>,
   into |-> <<"insert", "into">>]

TableSays(tree) == Created(Keys(tree.columns))
TableKeeps(tree) == <<tree.name>> \o Names(tree.columns)
CreateParsed(a, n, tree, w) ==
  /\ a = "createParen" =>
       /\ TableTree(tree) /\ tree.columns = <<>>
       /\ So(w, n, <<"create", "table", "identifier">>, <<tree.name>>)
  /\ a \in {"columns", "separator"} =>
       TableTree(tree) /\ So(w, n, TableSays(tree), TableKeeps(tree))
  /\ a = "type" =>
       /\ TableTree(tree)
       /\ So(w, n, Append(TableSays(tree), "identifier"), Append(TableKeeps(tree), n - 1))
  /\ a = "constraint" =>
       /\ TableTree(tree)
       /\ So(w, n, Append(Append(TableSays(tree), "identifier"), "type"),
             Append(TableKeeps(tree), n - 2))
  /\ a = "key" =>
       /\ TableTree(tree)
       /\ So(w, n, Append(Append(Append(TableSays(tree), "identifier"), "type"), "primary"),
             Append(TableKeeps(tree), n - 3))

SelectParsed(a, n, tree, w) ==
  /\ a \in {"nextColumn", "column"} => tree.columns # <<>>
  /\ a \in {"nextColumn", "column", "from"} =>
       SelectTree(tree) /\ So(w, n, Asked(Len(tree.columns)), tree.columns)
  /\ a = "fromTable" =>
       SelectTree(tree) /\ So(w, n, Append(Asked(Len(tree.columns)), "from"), tree.columns)

InsertKeeps(tree) == <<tree.name>> \o FlattenSeq(tree.sets)
InsertParsed(a, n, tree, w) ==
  /\ a = "values" =>
       /\ InsertTree(tree) /\ tree.sets = <<>>
       /\ So(w, n, <<"insert", "into", "identifier">>, <<tree.name>>)
  /\ a = "nextSet" => tree.sets # <<>>
  /\ a \in {"set", "nextSet"} =>
       InsertTree(tree) /\ So(w, n, Values(Lengths(tree.sets)), InsertKeeps(tree))
  /\ a \in {"literals", "literalComma"} =>
       /\ InsertTree(tree)
       /\ \E rows \in Seq(Seq(Nat)), row \in Seq(Nat) :
            /\ tree.sets = Append(rows, row)
            /\ So(w, n, Given(Lengths(rows), Len(row)), InsertKeeps(tree))

Parsed(a, n, tree, w) ==
  /\ n \in 1 .. Len(w) + 1
  /\ a \in DOMAIN Beginning => So(w, n, Beginning[a], <<>>)
  /\ a = "end" =>
       \/ tree = Tree("HELP") /\ So(w, n, <<"help">>, <<>>)
       \/ tree = Tree("EXIT") /\ So(w, n, <<"exit">>, <<>>)
  /\ CreateParsed(a, n, tree, w)
  /\ SelectParsed(a, n, tree, w)
  /\ InsertParsed(a, n, tree, w)
  /\ a = "returned" /\ tree.type # "INVALID_NODE" =>
       So(w, n, Written(Shape(tree)), Kept(tree))

-----------------------------------------------------------------------------
(* The types of the tokens, and how a rule looks at them.                  *)

Kinds == Types(tokens)
Reading ==
  /\ Kinds \in Seq(Kind) /\ Len(Kinds) = Len(tokens) /\ Len(tokens) \in Nat
  /\ \A k \in 1 .. Len(tokens) : Kinds[k] = tokens[k].type
  /\ current_token \in 1 .. Len(tokens) + 1

LEMMA CheckIs ==
  ASSUME Reading, NEW type
  PROVE  /\ Check(type) <=> current_token \in 1 .. Len(Kinds) /\ Kinds[current_token] = type
         /\ IsAtEnd <=> current_token = Len(Kinds) + 1
<1>1. IsAtEnd <=> current_token = Len(Kinds) + 1
  BY DEF Reading, IsAtEnd
<1>2. ~IsAtEnd <=> current_token \in 1 .. Len(Kinds)
  BY DEF Reading, IsAtEnd
<1>3. current_token \in 1 .. Len(Kinds) => Kinds[current_token] = tokens[current_token].type
  BY DEF Reading
<1> QED BY <1>1, <1>2, <1>3 DEF Check

Takes(rule, type, next) ==
  /\ at = rule /\ at' = next
  /\ current_token \in 1 .. Len(Kinds) /\ Kinds[current_token] = type
  /\ current_token' = current_token + 1 /\ current_token' \in 1 .. Len(Kinds) + 1
LEMMA TakeIs ==
  ASSUME Reading, NEW rule, NEW type, NEW next, Take(rule, type, next)
  PROVE  Takes(rule, type, next)
<1>1. at = rule /\ Check(type) /\ current_token' = current_token + 1 /\ at' = next
  BY DEF Take, Advance
<1>2. current_token \in 1 .. Len(Kinds) /\ Kinds[current_token] = type
  BY <1>1, CheckIs
<1>3. current_token' \in 1 .. Len(Kinds) + 1
  BY <1>1, <1>2 DEF Reading
<1> QED BY <1>1, <1>2, <1>3 DEF Takes

Skips(rule, next) ==
  at = rule /\ at' = next /\ current_token' = current_token
LEMMA SkipIs ==
  ASSUME NEW rule, NEW type, NEW next, Skip(rule, type, next)
  PROVE  Skips(rule, next) /\ ~Check(type)
  BY DEF Skip, Stay, Skips

LEMMA PieceKind ==
  ASSUME NEW p \in Piece
  PROVE  p.type \in Kind
<1>1. \A k \in DOMAIN KeywordType : KeywordType[k] \in Kind
  BY DEF KeywordType, Kind
<1>2. \A m \in Mark : MarkType[m] \in Kind
  BY DEF Mark, MarkType, Kind
<1>3. CASE p = Nothing
  BY <1>3 DEF Nothing, Kind
<1>4. ASSUME NEW k, NEW n, p = TokenAt(k, n) PROVE p.type \in Kind
  <2>1. PICK s : s = Slice(k, n)
    OBVIOUS
  <2>2. \/ p.type = "literal"
        \/ s \in {<<x>> : x \in DOMAIN KeywordType} /\ p.type = KeywordType[s[1]]
        \/ s \in {<<m>> : m \in Mark} /\ p.type = MarkType[s[1]]
        \/ p.type = "other"
        \/ p.type = "identifier"
    BY <1>4, <2>1 DEF TokenAt
  <2>3. ASSUME s \in {<<x>> : x \in DOMAIN KeywordType} PROVE s[1] \in DOMAIN KeywordType
    BY <2>3
  <2>4. ASSUME s \in {<<m>> : m \in Mark} PROVE s[1] \in Mark
    BY <2>4
  <2>5. "literal" \in Kind /\ "other" \in Kind /\ "identifier" \in Kind
    BY DEF Kind
  <2> QED BY <1>1, <1>2, <2>2, <2>3, <2>4, <2>5
<1> QED BY <1>3, <1>4 DEF Piece

LEMMA WordIs ==
  ASSUME tokens \in Seq(Piece)
  PROVE  /\ Kinds \in Seq(Kind) /\ Len(Kinds) = Len(tokens) /\ Len(tokens) \in Nat
         /\ \A k \in 1 .. Len(tokens) : Kinds[k] = tokens[k].type
<1>1. DOMAIN tokens = 1 .. Len(tokens) /\ Len(tokens) \in Nat
  BY LenProperties
<1>2. \A k \in 1 .. Len(tokens) : tokens[k].type \in Kind
  BY ElementOfSeq, PieceKind
<1>3. Kinds = [k \in 1 .. Len(tokens) |-> tokens[k].type]
  BY <1>1 DEF Kinds, Types
<1>4. Kinds \in [1 .. Len(tokens) -> Kind]
  BY <1>2, <1>3
<1>5. Kinds \in Seq(Kind) /\ Len(Kinds) = Len(tokens)
  BY <1>1, <1>4, SequenceIs
<1> QED BY <1>1, <1>3, <1>5

-----------------------------------------------------------------------------
(* The beginning of a statement, and statements without lists.             *)

LEMMA ParsedBeginning ==
  ASSUME NEW a \in DOMAIN Beginning, NEW w, NEW n \in 1 .. Len(w) + 1, NEW tree,
         So(w, n, Beginning[a], <<>>)
  PROVE  Parsed(a, n, tree, w)
<1>1. a \in {"first", "show", "use", "drop", "create", "select", "insert", "help", "exit",
             "dropDatabase", "dropTable", "createDatabase", "createTable", "into"}
  BY DEF Beginning
<1> QED BY <1>1 DEF Parsed, CreateParsed, SelectParsed, InsertParsed

LEMMA ParsedReturned ==
  ASSUME NEW w, NEW n \in 1 .. Len(w) + 1, NEW tree,
         tree.type = "INVALID_NODE" \/ So(w, n, Written(Shape(tree)), Kept(tree))
  PROVE  Parsed("returned", n, tree, w)
  BY DEF Parsed, CreateParsed, SelectParsed, InsertParsed, Beginning

LEMMA ParsedRefused ==
  ASSUME NEW w, NEW n \in 1 .. Len(w) + 1, NEW tree
  PROVE  Parsed("refused", n, tree, w)
  BY DEF Parsed, CreateParsed, SelectParsed, InsertParsed, Beginning

StepParses == Parsed(at', current_token', ast', Kinds)

LEMMA FirstParses ==
  ASSUME Reading, Parsed(at, current_token, ast, Kinds), First
  PROVE  StepParses
<1>1. at = "first" /\ ~IsAtEnd /\ current_token' = current_token + 1
  BY DEF First, Advance
<1>2. PICK n, t : n = current_token /\ t = Kinds[n]
  OBVIOUS
<1>3. n \in 1 .. Len(Kinds) /\ t = tokens[n].type
  BY <1>1, <1>2, CheckIs DEF Reading
<1>4. t \in Keyword /\ at' = t
  BY <1>2, <1>3 DEF First
<1>5. So(Kinds, n, <<>>, <<>>)
  BY <1>1, <1>2 DEF Parsed, Beginning
<1>6. t \notin Named
  BY <1>4 DEF Keyword, Named
<1>7. So(Kinds, n + 1, Append(<<>>, t), <<>>)
  BY <1>2, <1>3, <1>5, <1>6, SoTakes DEF Reading
<1>8. t \in DOMAIN Beginning /\ Beginning[t] = <<t>>
  BY <1>4 DEF Keyword, Beginning
<1>9. Append(<<>>, t) = <<t>>
  <2>1. t \in Kind
    BY <1>2, <1>3, TakenGrows DEF Reading
  <2> QED BY <2>1, Tuples
<1>10. n + 1 \in 1 .. Len(Kinds) + 1
  BY <1>3 DEF Reading
<1>11. So(Kinds, n + 1, Beginning[t], <<>>)
  BY <1>7, <1>8, <1>9
<1>12. Parsed(t, n + 1, ast', Kinds)
  BY <1>8, <1>10, <1>11, ParsedBeginning
<1> QED BY <1>1, <1>2, <1>4, <1>12 DEF StepParses

\* A rule of the beginning takes a token that names nothing.
LEMMA BeginningTakes ==
  ASSUME Reading, Parsed(at, current_token, ast, Kinds), NEW rule \in DOMAIN Beginning,
         NEW type \in Kind \ Named, NEW next, Take(rule, type, next)
  PROVE  /\ So(Kinds, current_token', Append(Beginning[rule], type), <<>>)
         /\ at' = next /\ current_token' \in 1 .. Len(Kinds) + 1
<1>1. Takes(rule, type, next)
  BY TakeIs
<1>2. So(Kinds, current_token, Beginning[rule], <<>>)
  BY <1>1 DEF Takes, Parsed
<1>3. Kinds \in Seq(Kind) /\ current_token \in 1 .. Len(Kinds) /\ Kinds[current_token] = type
  BY <1>1 DEF Takes, Reading
<1>4. So(Kinds, current_token + 1, Append(Beginning[rule], Kinds[current_token]), <<>>)
  BY <1>2, <1>3, SoTakes
<1> QED BY <1>1, <1>3, <1>4 DEF Takes

LEMMA DatabaseOrTableParses ==
  ASSUME Reading, Parsed(at, current_token, ast, Kinds), DatabaseOrTable
  PROVE  StepParses
<1>1. ASSUME NEW rule, NEW type, NEW next, Take(rule, type, next),
             rule \in DOMAIN Beginning, type \in Kind \ Named, next \in DOMAIN Beginning,
             Append(Beginning[rule], type) = Beginning[next]
      PROVE  StepParses
  <2>1. /\ So(Kinds, current_token', Append(Beginning[rule], type), <<>>)
        /\ at' = next /\ current_token' \in 1 .. Len(Kinds) + 1
    BY <1>1, BeginningTakes
  <2>2. Parsed(next, current_token', ast', Kinds)
    BY <1>1, <2>1, ParsedBeginning
  <2> QED BY <2>1, <2>2 DEF StepParses
<1>2. PICK d, c, b, t : d = "drop" /\ c = "create" /\ b = "database" /\ t = "table"
  OBVIOUS
<1>3. d \in Kind /\ c \in Kind /\ b \in Kind \ Named /\ t \in Kind \ Named
  BY <1>2 DEF Kind, Named
<1>4. /\ SameSeq(Append(<<d>>, b), <<d, b>>) /\ SameSeq(Append(<<d>>, t), <<d, t>>)
      /\ SameSeq(Append(<<c>>, b), <<c, b>>) /\ SameSeq(Append(<<c>>, t), <<c, t>>)
  BY <1>3, Pairs
<1>5. /\ Beginning[d] = <<d>> /\ Beginning[c] = <<c>>
      /\ Beginning["dropDatabase"] = <<d, b>> /\ Beginning["dropTable"] = <<d, t>>
      /\ Beginning["createDatabase"] = <<c, b>> /\ Beginning["createTable"] = <<c, t>>
  BY <1>2 DEF Beginning
<1>6. /\ d \in DOMAIN Beginning /\ c \in DOMAIN Beginning
      /\ "dropDatabase" \in DOMAIN Beginning /\ "dropTable" \in DOMAIN Beginning
      /\ "createDatabase" \in DOMAIN Beginning /\ "createTable" \in DOMAIN Beginning
  BY <1>2 DEF Beginning
<1>7. \/ Take(d, b, "dropDatabase") \/ Take(d, t, "dropTable")
      \/ Take(c, b, "createDatabase") \/ Take(c, t, "createTable")
  BY <1>2 DEF DatabaseOrTable
<1>8. CASE Take(d, b, "dropDatabase")
  BY <1>1, <1>3, <1>4, <1>5, <1>6, <1>8 DEF SameSeq
<1>9. CASE Take(d, t, "dropTable")
  BY <1>1, <1>3, <1>4, <1>5, <1>6, <1>9 DEF SameSeq
<1>10. CASE Take(c, b, "createDatabase")
  BY <1>1, <1>3, <1>4, <1>5, <1>6, <1>10 DEF SameSeq
<1>11. CASE Take(c, t, "createTable")
  BY <1>1, <1>3, <1>4, <1>5, <1>6, <1>11 DEF SameSeq
<1> QED BY <1>7, <1>8, <1>9, <1>10, <1>11

ShortTypes ==
  {"SHOW_DATABASES", "SHOW_TABLES", "USE_DATABASE", "DROP_DATABASE", "DROP_TABLE",
   "CREATE_DATABASE", "HELP", "EXIT"}
ShortTree(tree, type, k) ==
  tree = [type |-> type, name |-> k, columns |-> <<>>, sets |-> <<>>]
LEMMA ShortTrees ==
  ASSUME NEW type \in ShortTypes, NEW k \in Nat, NEW tree, ShortTree(tree, type, k)
  PROVE  /\ SameSeq(Kept(tree), IF k = 0 THEN <<>> ELSE <<k>>)
         /\ SameSeq(Written(Shape(tree)),
                    IF k = 0 THEN Opening[type] ELSE Append(Opening[type], "identifier"))
<1>1. tree.type = type /\ tree.name = k /\ tree.columns = <<>> /\ tree.sets = <<>>
  BY DEF ShortTree
<1>2. PICK s : s = Shape(tree)
  OBVIOUS
<1>3. s.type = type /\ s.named = (k # 0)
  BY <1>1, <1>2 DEF Shape
<1>4. type \in DOMAIN Opening /\ type \notin {"SELECT", "CREATE_TABLE", "INSERT", "INSERT_BULK"}
  BY DEF ShortTypes, Opening
<1>5. SameSeq(Written(s), IF s.named THEN Append(Opening[s.type], "identifier") ELSE Opening[s.type])
  BY <1>3, <1>4, WrittenShort
<1>6. ColumnNames(tree) = <<>>
  BY <1>1 DEF ColumnNames
<1>7. FlattenSeq(tree.sets) = <<>>
  <2>1. <<>> \in Seq(Seq(Nat))
    OBVIOUS
  <2> QED BY <1>1, <2>1, FlattenFacts
<1>8. PICK x : x = IF k = 0 THEN <<>> ELSE <<k>>
  OBVIOUS
<1>9. x \in Seq(Nat)
  BY <1>8
<1>10. Kept(tree) = (x \o <<>>) \o <<>>
  BY <1>1, <1>6, <1>7, <1>8 DEF Kept, ShortTypes
<1>11. x \o <<>> = x
  BY <1>9, ConcatEmptySeq
<1> QED BY <1>2, <1>3, <1>5, <1>8, <1>10, <1>11 DEF SameSeq

LEMMA ShowParses ==
  ASSUME Reading, Parsed(at, current_token, ast, Kinds), Show
  PROVE  StepParses
<1>1. ASSUME NEW type \in Kind \ Named, NEW kind \in ShortTypes, Take("show", type, "returned"),
             ast' = Tree(kind), Append(<<"show">>, type) = Opening[kind]
      PROVE  StepParses
  <2>1. "show" \in DOMAIN Beginning /\ Beginning["show"] = <<"show">>
    BY DEF Beginning
  <2>2. /\ So(Kinds, current_token', Append(<<"show">>, type), <<>>)
        /\ at' = "returned" /\ current_token' \in 1 .. Len(Kinds) + 1
    BY <1>1, <2>1, BeginningTakes
  <2>3. ShortTree(ast', kind, 0)
    BY <1>1 DEF Tree, ShortTree
  <2>4. Kept(ast') = <<>> /\ Written(Shape(ast')) = Opening[kind]
    BY <2>3, ShortTrees DEF SameSeq
  <2>5. Parsed("returned", current_token', ast', Kinds)
    BY <1>1, <2>2, <2>4, ParsedReturned
  <2> QED BY <2>2, <2>5 DEF StepParses
<1>2. PICK s, d, t : s = "show" /\ d = "databases" /\ t = "tables"
  OBVIOUS
<1>3. s \in Kind /\ d \in Kind \ Named /\ t \in Kind \ Named
  BY <1>2 DEF Kind, Named
<1>4. SameSeq(Append(<<s>>, d), <<s, d>>) /\ SameSeq(Append(<<s>>, t), <<s, t>>)
  BY <1>3, Pairs
<1>5. Opening["SHOW_DATABASES"] = <<s, d>> /\ Opening["SHOW_TABLES"] = <<s, t>>
  BY <1>2 DEF Opening
<1>6. "SHOW_DATABASES" \in ShortTypes /\ "SHOW_TABLES" \in ShortTypes
  BY DEF ShortTypes
<1>7. CASE Take("show", "databases", "returned") /\ ast' = Tree("SHOW_DATABASES")
  BY <1>1, <1>2, <1>3, <1>4, <1>5, <1>6, <1>7 DEF SameSeq
<1>8. CASE Take("show", "tables", "returned") /\ ast' = Tree("SHOW_TABLES")
  BY <1>1, <1>2, <1>3, <1>4, <1>5, <1>6, <1>8 DEF SameSeq
<1> QED BY <1>7, <1>8 DEF Show

LEMMA NameParses ==
  ASSUME Reading, Parsed(at, current_token, ast, Kinds), Name
  PROVE  StepParses
<1>1. PICK rule, kind, n : rule = at /\ kind = TypeOf[at] /\ n = current_token
  OBVIOUS
<1>2. /\ rule \in {"use", "dropDatabase", "dropTable", "createDatabase"}
      /\ Take(rule, "identifier", "returned") /\ ast' = [Tree(kind) EXCEPT !.name = n]
  BY <1>1 DEF Name, TypeOf
<1>3. kind \in ShortTypes /\ rule \in DOMAIN Beginning /\ Beginning[rule] = Opening[kind]
  BY <1>1, <1>2 DEF TypeOf, ShortTypes, Beginning, Opening
<1>4. Takes(rule, "identifier", "returned")
  BY <1>2, TakeIs
<1>5. n \in 1 .. Len(Kinds) /\ Kinds[n] = "identifier" /\ Kinds[n] \in Named /\ Kinds \in Seq(Kind) /\ n \in Nat
  BY <1>1, <1>4 DEF Takes, Reading, Named
<1>6. So(Kinds, n, Opening[kind], <<>>)
  BY <1>1, <1>3 DEF Parsed
<1>7. So(Kinds, n + 1, Append(Opening[kind], Kinds[n]), Append(<<>>, n))
  BY <1>5, <1>6, SoNames
<1>8. Append(<<>>, n) = <<n>>
  BY <1>5, Tuples
<1>9. ShortTree(ast', kind, n)
  BY <1>2 DEF Tree, ShortTree
<1>10. n # 0
  BY <1>5
<1>11. Kept(ast') = <<n>> /\ Written(Shape(ast')) = Append(Opening[kind], "identifier")
  BY <1>3, <1>5, <1>9, <1>10, ShortTrees DEF SameSeq
<1>12. current_token' = n + 1 /\ current_token' \in 1 .. Len(Kinds) + 1 /\ at' = "returned"
  BY <1>1, <1>4 DEF Takes
<1>13. So(Kinds, current_token', Written(Shape(ast')), Kept(ast'))
  BY <1>5, <1>7, <1>8, <1>11, <1>12
<1>14. Parsed("returned", current_token', ast', Kinds)
  BY <1>12, <1>13, ParsedReturned
<1> QED BY <1>12, <1>14 DEF StepParses

EndTree(tree, w, n) ==
  \/ tree = Tree("HELP") /\ So(w, n, <<"help">>, <<>>)
  \/ tree = Tree("EXIT") /\ So(w, n, <<"exit">>, <<>>)
LEMMA HelpOrExitParses ==
  ASSUME Reading, Parsed(at, current_token, ast, Kinds), HelpOrExit
  PROVE  StepParses
<1>1. PICK n : n = current_token
  OBVIOUS
<1>2. at \in {"help", "exit"} /\ at' = "end" /\ ast' = Tree(IF at = "help" THEN "HELP" ELSE "EXIT")
  BY DEF HelpOrExit
<1>3. So(Kinds, n, <<at>>, <<>>)
  BY <1>1, <1>2 DEF Parsed, Beginning
<1>4. So(Kinds, current_token', <<at>>, <<>>) /\ current_token' \in 1 .. Len(Kinds) + 1
  <2>1. CASE Check(";")
    <3>1. n \in 1 .. Len(Kinds) /\ Kinds[n] = ";" /\ Kinds[n] \in Separator /\ Kinds \in Seq(Kind)
      BY <1>1, <2>1, CheckIs DEF Reading, Separator
    <3>2. So(Kinds, n + 1, <<at>>, <<>>)
      BY <1>3, <3>1, SoPasses
    <3>3. current_token' = n + 1
      BY <1>1, <2>1 DEF HelpOrExit, Advance
    <3>4. PICK m : m = Len(Kinds)
      OBVIOUS
    <3>5. m \in Nat /\ n \in 1 .. m
      BY <3>1, <3>4 DEF Reading
    <3>6. n + 1 \in 1 .. m + 1
      BY <3>5
    <3> QED BY <3>2, <3>3, <3>4, <3>6
  <2>2. CASE ~Check(";")
    <3>1. current_token' = n
      BY <1>1, <2>2 DEF HelpOrExit, Stay
    <3> QED BY <1>1, <1>3, <3>1 DEF Reading
  <2> QED BY <2>1, <2>2
<1>5. \/ ast' = Tree("HELP") /\ So(Kinds, current_token', <<"help">>, <<>>)
      \/ ast' = Tree("EXIT") /\ So(Kinds, current_token', <<"exit">>, <<>>)
  BY <1>2, <1>4
<1> QED BY <1>2, <1>4, <1>5 DEF StepParses, Parsed, CreateParsed, SelectParsed, InsertParsed, Beginning

LEMMA EndParses ==
  ASSUME Reading, Parsed(at, current_token, ast, Kinds), End
  PROVE  StepParses
<1>1. at = "end" /\ at' = "returned" /\ current_token' = current_token /\ ast' = ast
  BY DEF End
<1>2. PICK tree : tree = ast
  OBVIOUS
<1>3. \/ tree = Tree("HELP") /\ So(Kinds, current_token, <<"help">>, <<>>)
      \/ tree = Tree("EXIT") /\ So(Kinds, current_token, <<"exit">>, <<>>)
  BY <1>1, <1>2 DEF Parsed
<1>4. ASSUME NEW kind \in ShortTypes, tree = Tree(kind), So(Kinds, current_token, Opening[kind], <<>>)
      PROVE  So(Kinds, current_token, Written(Shape(tree)), Kept(tree))
  <2>1. ShortTree(tree, kind, 0)
    BY <1>4 DEF Tree, ShortTree
  <2>2. Kept(tree) = <<>> /\ Written(Shape(tree)) = Opening[kind]
    BY <2>1, ShortTrees DEF SameSeq
  <2> QED BY <1>4, <2>2
<1>5. /\ "HELP" \in ShortTypes /\ "EXIT" \in ShortTypes
      /\ Opening["HELP"] = <<"help">> /\ Opening["EXIT"] = <<"exit">>
  BY DEF ShortTypes, Opening
<1>6. So(Kinds, current_token, Written(Shape(tree)), Kept(tree))
  BY <1>3, <1>4, <1>5
<1>7. current_token \in 1 .. Len(Kinds) + 1
  BY DEF Reading
<1>8. Parsed("returned", current_token, tree, Kinds)
  BY <1>6, <1>7, ParsedReturned
<1> QED BY <1>1, <1>2, <1>8 DEF StepParses

LEMMA InvalidNodeParses ==
  ASSUME Reading, InvalidNode
  PROVE  StepParses
<1>1. /\ at' = "returned" /\ ast' = Tree("INVALID_NODE")
      /\ current_token' \in 1 .. Len(Kinds) + 1
  BY DEF InvalidNode, Reading
<1>2. ast'.type = "INVALID_NODE"
  BY <1>1 DEF Tree
<1>3. Parsed("returned", current_token', ast', Kinds)
  BY <1>1, <1>2, ParsedReturned
<1> QED BY <1>1, <1>3 DEF StepParses

LEMMA RefuseParses ==
  ASSUME Reading, Refuse
  PROVE  StepParses
<1>1. at' = "refused" /\ current_token' \in 1 .. Len(Kinds) + 1
  BY DEF Refuse, Reading
<1>2. Parsed("refused", current_token', ast', Kinds)
  BY <1>1, ParsedRefused
<1> QED BY <1>1, <1>2 DEF StepParses

-----------------------------------------------------------------------------
(* CREATE TABLE                                                            *)

LEMMA KeysAppend ==
  ASSUME NEW cs \in Seq(Column), NEW c \in Column
  PROVE  /\ SameSeq(Keys(Append(cs, c)), Append(Keys(cs), c.primary))
         /\ SameSeq(Names(Append(cs, c)), Append(Names(cs), c.name))
         /\ Keys(cs) \in Seq(BOOLEAN) /\ Names(cs) \in Seq(Nat)
<1>1. PICK n, d, k, l, u, v : /\ n = Len(cs) /\ d = Append(cs, c) /\ k = Keys(cs) /\ l = Keys(d)
                              /\ u = Names(cs) /\ v = Names(d)
  OBVIOUS
<1>2. n \in Nat /\ DOMAIN cs = 1 .. n /\ \A i \in 1 .. n : cs[i] \in Column
  BY <1>1, LenProperties, ElementOfSeq
<1>3. d \in Seq(Column) /\ Len(d) = n + 1 /\ d[n + 1] = c /\ \A i \in 1 .. n : d[i] = cs[i]
  BY <1>1, AppendProperties
<1>4. DOMAIN d = 1 .. n + 1 /\ \A i \in 1 .. n + 1 : d[i] \in Column
  BY <1>3, LenProperties, ElementOfSeq
<1>5. k \in [1 .. n -> BOOLEAN] /\ u \in [1 .. n -> Nat]
  BY <1>1, <1>2 DEF Keys, Names, Column
<1>6. l \in [1 .. n + 1 -> BOOLEAN] /\ v \in [1 .. n + 1 -> Nat]
  BY <1>1, <1>4 DEF Keys, Names, Column
<1>7. /\ k \in Seq(BOOLEAN) /\ Len(k) = n /\ u \in Seq(Nat) /\ Len(u) = n
      /\ l \in Seq(BOOLEAN) /\ Len(l) = n + 1 /\ v \in Seq(Nat) /\ Len(v) = n + 1
  <2>1. n + 1 \in Nat
    BY <1>2
  <2> QED BY <1>2, <1>5, <1>6, <2>1, SequenceIs
<1>8. /\ l[n + 1] = c.primary /\ \A i \in 1 .. n : l[i] = k[i]
      /\ v[n + 1] = c.name /\ \A i \in 1 .. n : v[i] = u[i]
  BY <1>1, <1>2, <1>3, <1>4 DEF Keys, Names
<1>9. c.primary \in BOOLEAN /\ c.name \in Nat
  BY DEF Column
<1>10. IsAppended(l, k, c.primary)
  BY <1>7, <1>8, <1>9, AppendedIs
<1>11. IsAppended(v, u, c.name)
  BY <1>7, <1>8, <1>9, AppendedIs
<1> QED BY <1>1, <1>7, <1>10, <1>11 DEF SameSeq, IsAppended

\* A comma more or less is not seen.
LEMMA PlainComma ==
  ASSUME NEW s \in Seq(Kind)
  PROVE  Append(s, ",") \in Seq(Kind) /\ Plain(Append(s, ",")) = Plain(s)
<1>1. "," \in Kind /\ "," \in Separator
  BY DEF Kind, Separator
<1> QED BY <1>1, PlainFacts, AppendProperties

\* A column is written by its tokens.
ColumnPlain(s, keys, key) ==
  Plain(Created(Append(keys, key))) =
    IF key THEN Plain(Append(Append(Append(Append(s, "identifier"), "type"), "primary"), "key"))
    ELSE Plain(Append(Append(s, "identifier"), "type"))
ColumnIs(s, key) ==
  SameSeq(s \o ColumnText(key),
          IF key THEN Append(Append(Append(Append(s, "identifier"), "type"), "primary"), "key")
          ELSE Append(Append(s, "identifier"), "type"))
LEMMA ColumnAppended ==
  ASSUME NEW s \in Seq(Kind), NEW key \in BOOLEAN
  PROVE  ColumnIs(s, key)
<1>1. PICK i, t, p, k : i = "identifier" /\ t = "type" /\ p = "primary" /\ k = "key"
  OBVIOUS
<1>2. i \in Kind /\ t \in Kind /\ p \in Kind /\ k \in Kind
  BY <1>1 DEF Kind
<1>3. s \o <<i, t>> = Append(Append(s, i), t)
  BY <1>2
<1>4. s \o <<i, t, p, k>> = Append(Append(Append(Append(s, i), t), p), k)
  BY <1>2
<1>5. ColumnText(key) = IF key THEN <<i, t, p, k>> ELSE <<i, t>>
  BY <1>1, ColumnTextFacts
<1> QED BY <1>1, <1>3, <1>4, <1>5 DEF ColumnIs, SameSeq

LEMMA ColumnIsPlain ==
  ASSUME NEW keys \in Seq(BOOLEAN), NEW key \in BOOLEAN
  PROVE  ColumnPlain(Created(keys), keys, key)
<1>1. PICK s, r, i, t, p, k : /\ s = Created(keys) /\ r = Append(s, ",")
                              /\ i = "identifier" /\ t = "type" /\ p = "primary" /\ k = "key"
  OBVIOUS
<1>2. i \in Kind /\ t \in Kind /\ p \in Kind /\ k \in Kind
  BY <1>1 DEF Kind
<1>3. /\ s \in Seq(Kind)
      /\ Created(Append(keys, key)) \in {s \o ColumnText(key), r \o ColumnText(key)}
  BY <1>1, CreatedFacts
<1>4. r \in Seq(Kind) /\ Plain(r) = Plain(s)
  BY <1>1, <1>3, PlainComma
<1>5. ColumnIs(s, key) /\ ColumnIs(r, key)
  BY <1>3, <1>4, ColumnAppended
<1>6. PICK s1, r1, s2, r2, s3, r3 :
        /\ s1 = Append(s, i) /\ r1 = Append(r, i) /\ s2 = Append(s1, t) /\ r2 = Append(r1, t)
        /\ s3 = Append(s2, p) /\ r3 = Append(r2, p)
  OBVIOUS
<1>7. s1 \in Seq(Kind) /\ r1 \in Seq(Kind) /\ Plain(r1) = Plain(s1)
  BY <1>2, <1>3, <1>4, <1>6, PlainGrow, AppendProperties
<1>8. s2 \in Seq(Kind) /\ r2 \in Seq(Kind) /\ Plain(r2) = Plain(s2)
  BY <1>2, <1>6, <1>7, PlainGrow, AppendProperties
<1>9. s3 \in Seq(Kind) /\ r3 \in Seq(Kind) /\ Plain(r3) = Plain(s3)
  BY <1>2, <1>6, <1>8, PlainGrow, AppendProperties
<1>10. Plain(Append(r3, k)) = Plain(Append(s3, k))
  BY <1>2, <1>9, PlainGrow
<1>11. s \o ColumnText(key) = IF key THEN Append(s3, k) ELSE s2
  BY <1>1, <1>5, <1>6 DEF ColumnIs, SameSeq
<1>12. r \o ColumnText(key) = IF key THEN Append(r3, k) ELSE r2
  BY <1>1, <1>5, <1>6 DEF ColumnIs, SameSeq
<1>13. Plain(Created(Append(keys, key))) = IF key THEN Plain(Append(s3, k)) ELSE Plain(s2)
  BY <1>3, <1>8, <1>10, <1>11, <1>12
<1> QED BY <1>1, <1>6, <1>13 DEF ColumnPlain

\* A column is added.
Added(tree, type, key) ==
  [tree EXCEPT !.columns = Append(@, [name |-> type - 1, type |-> type, primary |-> key])]
LEMMA AddedFacts ==
  ASSUME NEW tree, TableTree(tree), NEW type \in Nat, type # 0, NEW key \in BOOLEAN, NEW grown,
         grown = Added(tree, type, key)
  PROVE  /\ TableTree(grown)
         /\ SameSeq(Keys(grown.columns), Append(Keys(tree.columns), key))
         /\ SameSeq(TableKeeps(grown), Append(TableKeeps(tree), type - 1))
<1>1. PICK c : c = [name |-> type - 1, type |-> type, primary |-> key]
  OBVIOUS
<1>2. c \in Column /\ c.name = type - 1 /\ c.primary = key
  BY <1>1 DEF Column
<1>3. /\ tree = [type |-> "CREATE_TABLE", name |-> tree.name, columns |-> tree.columns, sets |-> <<>>]
      /\ tree.name \in Nat \ {0} /\ tree.columns \in Seq(Column)
  BY DEF TableTree
<1>4. grown = [tree EXCEPT !.columns = Append(@, c)]
  BY <1>1 DEF Added
<1>5. grown = [type |-> "CREATE_TABLE", name |-> tree.name, columns |-> Append(tree.columns, c), sets |-> <<>>]
  <2>1. PICK k, cs : k = tree.name /\ cs = tree.columns
    OBVIOUS
  <2>2. tree = [type |-> "CREATE_TABLE", name |-> k, columns |-> cs, sets |-> <<>>]
    BY <1>3, <2>1
  <2>3. grown = [type |-> "CREATE_TABLE", name |-> k, columns |-> Append(cs, c), sets |-> <<>>]
    BY <1>4, <2>2
  <2> QED BY <2>1, <2>3
<1>6. Append(tree.columns, c) \in Seq(Column)
  BY <1>2, <1>3, AppendProperties
<1>7. TableTree(grown)
  BY <1>3, <1>5, <1>6 DEF TableTree
<1>8. /\ SameSeq(Keys(grown.columns), Append(Keys(tree.columns), key))
      /\ SameSeq(Names(grown.columns), Append(Names(tree.columns), type - 1))
      /\ Names(tree.columns) \in Seq(Nat)
  BY <1>2, <1>3, <1>5, KeysAppend
<1>9. PICK x, ns : x = <<tree.name>> /\ ns = Names(tree.columns)
  OBVIOUS
<1>10. x \in Seq(Nat) /\ ns \in Seq(Nat) /\ type - 1 \in Nat
  BY <1>3, <1>8, <1>9
<1>11. SameSeq(x \o Append(ns, type - 1), Append(x \o ns, type - 1))
  BY <1>10, JoinsAppended
<1>12. TableKeeps(grown) = x \o Names(grown.columns) /\ TableKeeps(tree) = x \o ns
  BY <1>5, <1>9 DEF TableKeeps
<1> QED BY <1>7, <1>8, <1>9, <1>11, <1>12 DEF SameSeq

LEMMA TakesMark ==
  ASSUME Reading, NEW rule, NEW type, NEW next, Takes(rule, type, next), NEW ts, NEW ks,
         So(Kinds, current_token, ts, ks), type \notin Named
  PROVE  So(Kinds, current_token', Append(ts, type), ks)
<1>1. /\ Kinds \in Seq(Kind) /\ current_token \in 1 .. Len(Kinds) /\ Kinds[current_token] = type
      /\ current_token' = current_token + 1
  BY DEF Takes, Reading
<1> QED BY <1>1, SoTakes

LEMMA TakesName ==
  ASSUME Reading, NEW rule, NEW type, NEW next, Takes(rule, type, next), NEW ts, NEW ks,
         So(Kinds, current_token, ts, ks), type \in Named
  PROVE  So(Kinds, current_token', Append(ts, type), Append(ks, current_token))
<1>1. /\ Kinds \in Seq(Kind) /\ current_token \in 1 .. Len(Kinds) /\ Kinds[current_token] = type
      /\ current_token' = current_token + 1
  BY DEF Takes, Reading
<1> QED BY <1>1, SoNames

LEMMA TakesSeparator ==
  ASSUME Reading, NEW rule, NEW type, NEW next, Takes(rule, type, next), NEW ts, NEW ks,
         So(Kinds, current_token, ts, ks), type \in Separator
  PROVE  So(Kinds, current_token', ts, ks)
<1>1. /\ Kinds \in Seq(Kind) /\ current_token \in 1 .. Len(Kinds) /\ Kinds[current_token] = type
      /\ current_token' = current_token + 1
  BY DEF Takes, Reading
<1> QED BY <1>1, SoPasses

LEMMA Appends ==
  ASSUME NEW S, NEW a \in S, NEW b \in S, NEW c \in S, NEW d \in S
  PROVE  /\ SameSeq(Append(<<a, b>>, c), <<a, b, c>>)
         /\ SameSeq(Append(<<a, b, c>>, d), <<a, b, c, d>>)
<1>1. <<a, b, c>> = Append(<<a, b>>, c) /\ <<a, b, c, d>> = Append(<<a, b, c>>, d)
  BY Tuples
<1> QED BY <1>1 DEF SameSeq

LEMMA AppendsThird ==
  ASSUME NEW S, NEW a \in S, NEW b \in S, NEW c \in S
  PROVE  Append(<<a, b>>, c) = <<a, b, c>>
<1>1. <<a, b, c>> = Append(<<a, b>>, c)
  BY Tuples
<1> QED BY <1>1

LEMMA CreateTableParses ==
  ASSUME Reading, Parsed(at, current_token, ast, Kinds), CreateTable
  PROVE  StepParses
<1>1. PICK n, c, t, i, o : n = current_token /\ c = "create" /\ t = "table" /\ i = "identifier" /\ o = "("
  OBVIOUS
<1>2. c \in Kind /\ t \in Kind /\ i \in Kind /\ o \in Kind /\ o \notin Named /\ i \in Named
  BY <1>1 DEF Kind, Named
<1>3. SameSeq(Append(<<c, t>>, i), <<c, t, i>>) /\ SameSeq(Append(<<c, t, i>>, o), <<c, t, i, o>>)
  BY <1>2, Appends
<1>4. CASE Take("createTable", "identifier", "createParen") /\ ast' = [Tree("CREATE_TABLE") EXCEPT !.name = current_token]
  <2>1. Takes("createTable", i, "createParen")
    BY <1>1, <1>4, TakeIs
  <2>2. So(Kinds, n, <<c, t>>, <<>>)
    BY <1>1, <2>1 DEF Takes, Parsed, Beginning
  <2>3. So(Kinds, current_token', Append(<<c, t>>, i), Append(<<>>, n))
    BY <1>1, <1>2, <2>1, <2>2, TakesName
  <2>4. n \in Nat /\ n # 0
    BY <1>1, <2>1 DEF Takes, Reading
  <2>5. Append(<<>>, n) = <<n>>
    BY <2>4, Tuples
  <2>6. ast' = [type |-> "CREATE_TABLE", name |-> n, columns |-> <<>>, sets |-> <<>>]
    BY <1>1, <1>4 DEF Tree
  <2>7. TableTree(ast') /\ ast'.columns = <<>> /\ ast'.name = n
    <3>1. <<>> \in Seq(Column)
      OBVIOUS
    <3> QED BY <2>4, <2>6, <3>1 DEF TableTree
  <2>8. So(Kinds, current_token', <<c, t, i>>, <<n>>)
    BY <1>3, <2>3, <2>5 DEF SameSeq
  <2>9. at' = "createParen" /\ current_token' \in 1 .. Len(Kinds) + 1
    BY <2>1 DEF Takes
  <2> QED BY <1>1, <2>7, <2>8, <2>9
          DEF StepParses, Parsed, CreateParsed, SelectParsed, InsertParsed, Beginning
<1>5. CASE Take("createParen", "(", "columns") /\ UNCHANGED ast
  <2>1. Takes("createParen", o, "columns")
    BY <1>1, <1>5, TakeIs
  <2>2. TableTree(ast) /\ ast.columns = <<>> /\ So(Kinds, n, <<c, t, i>>, <<ast.name>>)
    BY <1>1, <2>1 DEF Takes, Parsed, CreateParsed
  <2>3. So(Kinds, current_token', Append(<<c, t, i>>, o), <<ast.name>>)
    BY <1>1, <1>2, <2>1, <2>2, TakesMark
  <2>4. TableSays(ast) = <<c, t, i, o>>
    <3>1. Keys(ast.columns) = <<>>
      BY <2>2 DEF Keys
    <3>2. <<>> \in Seq(BOOLEAN) /\ TRUE \in BOOLEAN
      OBVIOUS
    <3> QED BY <1>1, <3>1, <3>2, CreatedFacts DEF TableSays, CreateStart
  <2>5. TableKeeps(ast) = <<ast.name>>
    <3>1. Names(ast.columns) = <<>>
      BY <2>2 DEF Names
    <3>2. <<ast.name>> \in Seq(Nat)
      BY <2>2 DEF TableTree
    <3> QED BY <3>1, <3>2, ConcatEmptySeq DEF TableKeeps
  <2>6. So(Kinds, current_token', TableSays(ast), TableKeeps(ast))
    BY <1>3, <2>3, <2>4, <2>5 DEF SameSeq
  <2>7. at' = "columns" /\ current_token' \in 1 .. Len(Kinds) + 1 /\ ast' = ast
    BY <1>5, <2>1 DEF Takes
  <2> QED BY <2>2, <2>6, <2>7
          DEF StepParses, Parsed, CreateParsed, SelectParsed, InsertParsed, Beginning
<1> QED BY <1>4, <1>5 DEF CreateTable

\* A tree of CREATE TABLE that is returned.
LEMMA TableReturned ==
  ASSUME NEW tree, TableTree(tree)
  PROVE  /\ SameSeq(Written(Shape(tree)), Append(TableSays(tree), ")"))
         /\ SameSeq(Kept(tree), TableKeeps(tree))
<1>1. /\ tree.type = "CREATE_TABLE" /\ tree.sets = <<>>
      /\ tree.name \in Nat \ {0} /\ tree.columns \in Seq(Column)
  <2>1. tree = [type |-> "CREATE_TABLE", name |-> tree.name, columns |-> tree.columns, sets |-> <<>>]
    BY DEF TableTree
  <2> QED BY <2>1 DEF TableTree
<1>2. PICK s : s = Shape(tree)
  OBVIOUS
<1>3. s.type = "CREATE_TABLE" /\ s.columns = Keys(tree.columns)
  BY <1>1, <1>2 DEF Shape, Keys
<1>4. PICK c : c = [name |-> 1, type |-> 2, primary |-> TRUE]
  OBVIOUS
<1>5. c \in Column
  BY <1>4 DEF Column
<1>6. Keys(tree.columns) \in Seq(BOOLEAN) /\ Names(tree.columns) \in Seq(Nat)
  BY <1>1, <1>5, KeysAppend
<1>7. SameSeq(Written(s), Append(Created(s.columns), ")"))
  BY <1>3, <1>6, WrittenTable
<1>8. ColumnNames(tree) = Names(tree.columns)
  BY <1>1 DEF ColumnNames, Names
<1>9. FlattenSeq(tree.sets) = <<>>
  <2>1. <<>> \in Seq(Seq(Nat))
    OBVIOUS
  <2> QED BY <1>1, <2>1, FlattenFacts
<1>10. PICK k : k = TableKeeps(tree)
  OBVIOUS
<1>11. k \in Seq(Nat) /\ Kept(tree) = k \o <<>>
  <2>1. <<tree.name>> \in Seq(Nat)
    BY <1>1
  <2>2. k \in Seq(Nat)
    BY <1>6, <1>10, <2>1, ConcatProperties DEF TableKeeps
  <2>3. Kept(tree) = (<<tree.name>> \o Names(tree.columns)) \o <<>>
    BY <1>1, <1>8, <1>9 DEF Kept
  <2> QED BY <1>10, <2>2, <2>3 DEF TableKeeps
<1>12. k \o <<>> = k
  BY <1>11, ConcatEmptySeq
<1> QED BY <1>2, <1>3, <1>7, <1>10, <1>11, <1>12 DEF SameSeq, TableSays

LEMMA ColumnsParses ==
  ASSUME Reading, Parsed(at, current_token, ast, Kinds), Columns
  PROVE  StepParses
<1>1. at = "columns" /\ ast' = ast
  BY DEF Columns, Take
<1>2. PICK n : n = current_token
  OBVIOUS
<1>3. TableTree(ast) /\ So(Kinds, n, TableSays(ast), TableKeeps(ast)) /\ n \in 1 .. Len(Kinds) + 1
  BY <1>1, <1>2 DEF Parsed, CreateParsed
<1>4. CASE Take("columns", "identifier", "type")
  <2>1. Takes("columns", "identifier", "type")
    BY <1>4, TakeIs
  <2>2. "identifier" \in Named
    BY DEF Named
  <2>3. So(Kinds, current_token', Append(TableSays(ast), "identifier"), Append(TableKeeps(ast), n))
    BY <1>2, <1>3, <2>1, <2>2, TakesName
  <2>4. at' = "type" /\ current_token' \in 1 .. Len(Kinds) + 1 /\ current_token' = n + 1
    BY <1>2, <2>1 DEF Takes
  <2>5. current_token' - 1 = n
    BY <1>3, <2>4
  <2> QED BY <1>1, <1>3, <2>3, <2>4, <2>5
          DEF StepParses, Parsed, CreateParsed, SelectParsed, InsertParsed, Beginning
<1>5. CASE Take("columns", ")", "returned")
  <2>1. Takes("columns", ")", "returned")
    BY <1>5, TakeIs
  <2>2. ")" \notin Named
    BY DEF Named
  <2>3. So(Kinds, current_token', Append(TableSays(ast), ")"), TableKeeps(ast))
    BY <1>2, <1>3, <2>1, <2>2, TakesMark
  <2>4. So(Kinds, current_token', Written(Shape(ast)), Kept(ast))
    BY <1>3, <2>3, TableReturned DEF SameSeq
  <2>5. at' = "returned" /\ current_token' \in 1 .. Len(Kinds) + 1
    BY <2>1 DEF Takes
  <2>6. Parsed("returned", current_token', ast, Kinds)
    BY <2>4, <2>5, ParsedReturned
  <2> QED BY <1>1, <2>5, <2>6 DEF StepParses
<1>6. CASE at' = "separator" /\ Stay
  <2>1. current_token' = n
    BY <1>2, <1>6 DEF Stay
  <2> QED BY <1>1, <1>3, <1>6, <2>1
          DEF StepParses, Parsed, CreateParsed, SelectParsed, InsertParsed, Beginning
<1> QED BY <1>4, <1>5, <1>6 DEF Columns

LEMMA CommaParses ==
  ASSUME Reading, Parsed(at, current_token, ast, Kinds), Comma
  PROVE  StepParses
<1>1. at = "separator" /\ ast' = ast /\ at' = "columns"
  BY DEF Comma, Take, Skip
<1>2. TableTree(ast) /\ So(Kinds, current_token, TableSays(ast), TableKeeps(ast))
  BY <1>1 DEF Parsed, CreateParsed
<1>3. So(Kinds, current_token', TableSays(ast), TableKeeps(ast)) /\ current_token' \in 1 .. Len(Kinds) + 1
  <2>1. CASE Take("separator", ",", "columns")
    <3>1. Takes("separator", ",", "columns")
      BY <2>1, TakeIs
    <3>2. "," \in Separator
      BY DEF Separator
    <3>3. So(Kinds, current_token', TableSays(ast), TableKeeps(ast))
      BY <1>2, <3>1, <3>2, TakesSeparator
    <3> QED BY <3>1, <3>3 DEF Takes
  <2>2. CASE Skip("separator", ",", "columns")
    BY <1>2, <2>2 DEF Skip, Stay, Reading
  <2> QED BY <2>1, <2>2 DEF Comma
<1> QED BY <1>1, <1>2, <1>3
        DEF StepParses, Parsed, CreateParsed, SelectParsed, InsertParsed, Beginning

LEMMA TableKeepsIs ==
  ASSUME NEW tree, TableTree(tree)
  PROVE  TableKeeps(tree) \in Seq(Nat) /\ TableSays(tree) \in Seq(Kind) /\ Keys(tree.columns) \in Seq(BOOLEAN)
<1>1. tree.name \in Nat /\ tree.columns \in Seq(Column)
  BY DEF TableTree
<1>2. PICK c : c = [name |-> 1, type |-> 2, primary |-> TRUE]
  OBVIOUS
<1>3. c \in Column /\ TRUE \in BOOLEAN
  BY <1>2 DEF Column
<1>4. Keys(tree.columns) \in Seq(BOOLEAN) /\ Names(tree.columns) \in Seq(Nat)
  BY <1>1, <1>3, KeysAppend
<1>5. <<tree.name>> \in Seq(Nat)
  BY <1>1
<1>6. TableSays(tree) \in Seq(Kind)
  BY <1>3, <1>4, CreatedFacts DEF TableSays
<1> QED BY <1>4, <1>5, <1>6, ConcatProperties DEF TableKeeps

\* The tokens of a column give the column.
LEMMA ColumnGives ==
  ASSUME NEW tree, TableTree(tree), NEW type \in Nat, type # 0, NEW key \in BOOLEAN, NEW grown,
         grown = Added(tree, type, key), NEW w, NEW n, NEW ts,
         So(w, n, ts, Append(TableKeeps(tree), type - 1)),
         LET typed == Append(Append(TableSays(tree), "identifier"), "type")
         IN  Plain(ts) = IF key THEN Plain(Append(Append(typed, "primary"), "key")) ELSE Plain(typed)
  PROVE  TableTree(grown) /\ So(w, n, TableSays(grown), TableKeeps(grown))
<1>1. /\ TableTree(grown)
      /\ Keys(grown.columns) = Append(Keys(tree.columns), key)
      /\ TableKeeps(grown) = Append(TableKeeps(tree), type - 1)
  BY AddedFacts DEF SameSeq
<1>2. PICK keys, s : keys = Keys(tree.columns) /\ s = TableSays(tree)
  OBVIOUS
<1>3. keys \in Seq(BOOLEAN) /\ s = Created(keys)
  BY <1>2, TableKeepsIs DEF TableSays
<1>4. ColumnPlain(s, keys, key)
  BY <1>3, ColumnIsPlain
<1>5. Plain(TableSays(grown)) = Plain(ts)
  BY <1>1, <1>2, <1>4 DEF ColumnPlain, TableSays
<1>6. TableSays(grown) \in Seq(Kind)
  BY <1>1, TableKeepsIs
<1>7. So(w, n, TableSays(grown), Append(TableKeeps(tree), type - 1))
  BY <1>5, <1>6, SoAlike
<1> QED BY <1>1, <1>7

LEMMA LastKept ==
  ASSUME NEW w, NEW n, NEW ts, NEW k \in Seq(Nat), NEW x \in Int, So(w, n, ts, Append(k, x))
  PROVE  x \in Nat
<1>1. PICK m : m = Append(k, x)
  OBVIOUS
<1>2. k \in Seq(Int) /\ Len(k) \in Nat /\ m \in Seq(Nat)
  BY <1>1, LenProperties DEF So
<1>3. m[Len(k) + 1] = x /\ Len(m) = Len(k) + 1
  BY <1>1, <1>2, AppendProperties
<1>4. Len(k) + 1 \in 1 .. Len(m)
  BY <1>2, <1>3
<1>5. m[Len(k) + 1] \in Nat
  BY <1>2, <1>4, ElementOfSeq
<1> QED BY <1>3, <1>5

LEMMA ColumnDefParses ==
  ASSUME Reading, Parsed(at, current_token, ast, Kinds), ColumnDef
  PROVE  StepParses
<1>1. PICK n : n = current_token
  OBVIOUS
<1>2. n \in 1 .. Len(Kinds) + 1 /\ Len(Kinds) \in Nat
  BY <1>1 DEF Reading
<1>3. "type" \notin Named /\ "primary" \notin Named /\ "key" \notin Named
  BY DEF Named
<1>4. PICK typed : typed = Append(Append(TableSays(ast), "identifier"), "type")
  OBVIOUS
<1>5. CASE Take("type", "type", "constraint") /\ UNCHANGED ast
  <2>1. Takes("type", "type", "constraint")
    BY <1>5, TakeIs
  <2>2. TableTree(ast) /\ So(Kinds, n, Append(TableSays(ast), "identifier"), Append(TableKeeps(ast), n - 1))
    BY <1>1, <2>1 DEF Takes, Parsed, CreateParsed
  <2>3. So(Kinds, current_token', typed, Append(TableKeeps(ast), n - 1))
    BY <1>1, <1>3, <1>4, <2>1, <2>2, TakesMark
  <2>4. at' = "constraint" /\ current_token' \in 1 .. Len(Kinds) + 1 /\ current_token' = n + 1 /\ ast' = ast
    BY <1>1, <1>5, <2>1 DEF Takes
  <2>5. current_token' - 2 = n - 1
    BY <1>2, <2>4
  <2> QED BY <1>4, <2>2, <2>3, <2>4, <2>5
          DEF StepParses, Parsed, CreateParsed, SelectParsed, InsertParsed, Beginning
<1>6. CASE Take("constraint", "primary", "key") /\ UNCHANGED ast
  <2>1. Takes("constraint", "primary", "key")
    BY <1>6, TakeIs
  <2>2. TableTree(ast) /\ So(Kinds, n, typed, Append(TableKeeps(ast), n - 2))
    BY <1>1, <1>4, <2>1 DEF Takes, Parsed, CreateParsed
  <2>3. So(Kinds, current_token', Append(typed, "primary"), Append(TableKeeps(ast), n - 2))
    BY <1>1, <1>3, <2>1, <2>2, TakesMark
  <2>4. at' = "key" /\ current_token' \in 1 .. Len(Kinds) + 1 /\ current_token' = n + 1 /\ ast' = ast
    BY <1>1, <1>6, <2>1 DEF Takes
  <2>5. current_token' - 3 = n - 2
    BY <1>2, <2>4
  <2> QED BY <1>4, <2>2, <2>3, <2>4, <2>5
          DEF StepParses, Parsed, CreateParsed, SelectParsed, InsertParsed, Beginning
<1>7. ASSUME NEW type \in Nat, type # 0, NEW key \in BOOLEAN, NEW ts, AddColumn(type, key), TableTree(ast),
             So(Kinds, current_token', ts, Append(TableKeeps(ast), type - 1)),
             Plain(ts) = IF key THEN Plain(Append(Append(typed, "primary"), "key")) ELSE Plain(typed),
             at' = "separator", current_token' \in 1 .. Len(Kinds) + 1
      PROVE  StepParses
  <2>1. ast' = Added(ast, type, key)
    BY <1>7 DEF AddColumn, Added
  <2>2. TableTree(ast') /\ So(Kinds, current_token', TableSays(ast'), TableKeeps(ast'))
    BY <1>4, <1>7, <2>1, ColumnGives
  <2> QED BY <1>7, <2>2
          DEF StepParses, Parsed, CreateParsed, SelectParsed, InsertParsed, Beginning
<1>8. CASE Take("key", "key", "separator") /\ AddColumn(current_token - 2, TRUE)
  <2>1. Takes("key", "key", "separator")
    BY <1>8, TakeIs
  <2>2. TableTree(ast) /\ So(Kinds, n, Append(typed, "primary"), Append(TableKeeps(ast), n - 3))
    BY <1>1, <1>4, <2>1 DEF Takes, Parsed, CreateParsed
  <2>3. So(Kinds, current_token', Append(Append(typed, "primary"), "key"), Append(TableKeeps(ast), n - 3))
    BY <1>1, <1>3, <2>1, <2>2, TakesMark
  <2>4. n - 3 \in Nat
    BY <1>2, <2>2, TableKeepsIs, LastKept
  <2>5. n - 2 \in Nat /\ n - 2 # 0 /\ (n - 2) - 1 = n - 3
    BY <1>2, <2>4
  <2>6. at' = "separator" /\ current_token' \in 1 .. Len(Kinds) + 1
    BY <2>1 DEF Takes
  <2> QED BY <1>1, <1>7, <1>8, <2>2, <2>3, <2>5, <2>6
<1>9. CASE Skip("constraint", "primary", "separator") /\ AddColumn(current_token - 1, FALSE)
  <2>1. at = "constraint" /\ at' = "separator" /\ current_token' = n
    BY <1>1, <1>9 DEF Skip, Stay
  <2>2. TableTree(ast) /\ So(Kinds, n, typed, Append(TableKeeps(ast), n - 2))
    BY <1>1, <1>4, <2>1 DEF Parsed, CreateParsed
  <2>4. n - 2 \in Nat
    BY <1>2, <2>2, TableKeepsIs, LastKept
  <2>5. n - 1 \in Nat /\ n - 1 # 0 /\ (n - 1) - 1 = n - 2
    BY <1>2, <2>4
  <2> QED BY <1>1, <1>2, <1>7, <1>9, <2>1, <2>2, <2>5
<1> QED BY <1>5, <1>6, <1>8, <1>9 DEF ColumnDef

-----------------------------------------------------------------------------
(* SELECT                                                                  *)

LEMMA SelectParses ==
  ASSUME Reading, Parsed(at, current_token, ast, Kinds), Select
  PROVE  StepParses
<1>1. PICK n : n = current_token
  OBVIOUS
<1>2. n \in 1 .. Len(Kinds) + 1 /\ Len(Kinds) \in Nat /\ n \in Nat
  BY <1>1 DEF Reading
<1>3. "*" \notin Named /\ "identifier" \in Named /\ "," \in Separator
  BY DEF Named, Separator
<1>4. PICK s, m, i : s = "select" /\ m = "*" /\ i = "identifier"
  OBVIOUS
<1>5. SameSeq(Append(<<s>>, m), <<s, m>>) /\ SameSeq(Append(<<s>>, i), <<s, i>>)
  <2>1. s \in Kind /\ m \in Kind /\ i \in Kind
    BY <1>4 DEF Kind
  <2> QED BY <2>1, Pairs
<1>6. Asked(0) = <<s, m>> /\ Asked(1) = <<s, i>>
  BY <1>4, AskedFacts
<1>7. CASE Take("select", "*", "from") /\ ast' = Tree("SELECT")
  <2>1. Takes("select", "*", "from")
    BY <1>7, TakeIs
  <2>2. So(Kinds, n, <<s>>, <<>>)
    BY <1>1, <1>4, <2>1 DEF Takes, Parsed, Beginning
  <2>3. So(Kinds, current_token', Append(<<s>>, m), <<>>)
    BY <1>1, <1>3, <1>4, <2>1, <2>2, TakesMark
  <2>4. SelectTree(ast') /\ ast'.columns = <<>> /\ Len(ast'.columns) = 0
    BY <1>7 DEF SelectTree, Tree
  <2>5. So(Kinds, current_token', Asked(Len(ast'.columns)), ast'.columns)
    BY <1>5, <1>6, <2>3, <2>4 DEF SameSeq
  <2>6. at' = "from" /\ current_token' \in 1 .. Len(Kinds) + 1
    BY <2>1 DEF Takes
  <2> QED BY <2>4, <2>5, <2>6
          DEF StepParses, Parsed, CreateParsed, SelectParsed, InsertParsed, Beginning
<1>8. CASE Take("select", "identifier", "nextColumn") /\ ast' = [Tree("SELECT") EXCEPT !.columns = <<current_token>>]
  <2>1. Takes("select", "identifier", "nextColumn")
    BY <1>8, TakeIs
  <2>2. So(Kinds, n, <<s>>, <<>>)
    BY <1>1, <1>4, <2>1 DEF Takes, Parsed, Beginning
  <2>3. So(Kinds, current_token', Append(<<s>>, i), Append(<<>>, n))
    BY <1>1, <1>3, <1>4, <2>1, <2>2, TakesName
  <2>4. Append(<<>>, n) = <<n>>
    BY <1>2, Tuples
  <2>5. ast' = [type |-> "SELECT", name |-> 0, columns |-> <<n>>, sets |-> <<>>]
    BY <1>1, <1>8 DEF Tree
  <2>6. SelectTree(ast') /\ ast'.columns = <<n>> /\ Len(ast'.columns) = 1 /\ ast'.columns # <<>>
    BY <1>2, <2>5 DEF SelectTree
  <2>7. So(Kinds, current_token', Asked(Len(ast'.columns)), ast'.columns)
    BY <1>5, <1>6, <2>3, <2>4, <2>6 DEF SameSeq
  <2>8. at' = "nextColumn" /\ current_token' \in 1 .. Len(Kinds) + 1
    BY <2>1 DEF Takes
  <2> QED BY <2>6, <2>7, <2>8
          DEF StepParses, Parsed, CreateParsed, SelectParsed, InsertParsed, Beginning
<1>9. ASSUME at \in {"nextColumn", "column"}
      PROVE  ast.columns # <<>> /\ SelectTree(ast) /\ So(Kinds, n, Asked(Len(ast.columns)), ast.columns)
  BY <1>1, <1>9 DEF Parsed, SelectParsed
<1>10. ASSUME at' \in {"column", "from"}, ast' = ast, ast.columns # <<>>, SelectTree(ast),
              So(Kinds, current_token', Asked(Len(ast.columns)), ast.columns),
              current_token' \in 1 .. Len(Kinds) + 1
       PROVE  StepParses
  BY <1>10 DEF StepParses, Parsed, CreateParsed, SelectParsed, InsertParsed, Beginning
<1>11. CASE Take("nextColumn", ",", "column") /\ UNCHANGED ast
  <2>1. Takes("nextColumn", ",", "column")
    BY <1>11, TakeIs
  <2>2. at = "nextColumn" /\ at' = "column" /\ current_token' \in 1 .. Len(Kinds) + 1
    BY <2>1 DEF Takes
  <2>3. So(Kinds, current_token', Asked(Len(ast.columns)), ast.columns)
    BY <1>1, <1>3, <1>9, <2>1, <2>2, TakesSeparator
  <2> QED BY <1>9, <1>10, <1>11, <2>2, <2>3
<1>12. CASE Skip("nextColumn", ",", "from") /\ UNCHANGED ast
  <2>1. at = "nextColumn" /\ at' = "from" /\ current_token' = n
    BY <1>1, <1>12 DEF Skip, Stay
  <2> QED BY <1>2, <1>9, <1>10, <1>12, <2>1
<1>13. CASE Take("column", "identifier", "nextColumn") /\ ast' = [ast EXCEPT !.columns = Append(@, current_token)]
  <2>1. Takes("column", "identifier", "nextColumn")
    BY <1>13, TakeIs
  <2>2. at = "column" /\ at' = "nextColumn" /\ current_token' \in 1 .. Len(Kinds) + 1
    BY <2>1 DEF Takes
  <2>3. PICK cs, k : cs = ast.columns /\ k = Len(cs)
    OBVIOUS
  <2>4. cs # <<>> /\ cs \in Seq(Nat) /\ SelectTree(ast) /\ So(Kinds, n, Asked(k), cs)
    BY <1>9, <2>2, <2>3 DEF SelectTree
  <2>5. k \in Nat /\ k # 0
    BY <2>3, <2>4, LenProperties, EmptySeq
  <2>6. PICK a : a = Asked(k)
    OBVIOUS
  <2>7. a \in Seq(Kind) /\ Asked(k + 1) = Append(Append(a, ","), "identifier")
    BY <2>5, <2>6, AskedFacts
  <2>8. So(Kinds, current_token', Append(a, "identifier"), Append(cs, n))
    BY <1>1, <1>3, <2>1, <2>4, <2>6, TakesName
  <2>9. Plain(Append(Append(a, ","), "identifier")) = Plain(Append(a, "identifier")) /\ Asked(k + 1) \in Seq(Kind)
    <3>1. Append(a, ",") \in Seq(Kind) /\ Plain(Append(a, ",")) = Plain(a)
      BY <2>7, PlainComma
    <3>2. "identifier" \in Kind
      BY DEF Kind
    <3>3. Plain(Append(Append(a, ","), "identifier")) = Plain(Append(a, "identifier"))
      BY <2>7, <3>1, <3>2, PlainGrow
    <3>4. Append(Append(a, ","), "identifier") \in Seq(Kind)
      BY <3>1, <3>2, AppendProperties
    <3> QED BY <2>7, <3>3, <3>4
  <2>10. So(Kinds, current_token', Asked(k + 1), Append(cs, n))
    BY <2>7, <2>8, <2>9, SoAlike
  <2>11. ast' = [type |-> "SELECT", name |-> 0, columns |-> Append(cs, n), sets |-> <<>>]
    <3>1. ast = [type |-> "SELECT", name |-> 0, columns |-> cs, sets |-> <<>>]
      BY <2>3, <2>4 DEF SelectTree
    <3> QED BY <1>1, <1>13, <3>1
  <2>12. Append(cs, n) \in Seq(Nat) /\ Len(Append(cs, n)) = k + 1 /\ Append(cs, n) # <<>>
    <3>1. Append(cs, n) \in Seq(Nat) /\ Len(Append(cs, n)) = k + 1
      BY <1>2, <2>3, <2>4, AppendProperties
    <3> QED BY <2>5, <3>1, EmptySeq
  <2>13. SelectTree(ast')
    BY <2>11, <2>12 DEF SelectTree
  <2>14. ast'.columns = Append(cs, n)
    BY <2>11
  <2> QED BY <2>2, <2>10, <2>12, <2>13, <2>14
          DEF StepParses, Parsed, CreateParsed, SelectParsed, InsertParsed, Beginning
<1>14. CASE Skip("column", "identifier", "from") /\ UNCHANGED ast
  <2>1. at = "column" /\ at' = "from" /\ current_token' = n
    BY <1>1, <1>14 DEF Skip, Stay
  <2> QED BY <1>2, <1>9, <1>10, <1>14, <2>1
<1> QED BY <1>7, <1>8, <1>11, <1>12, <1>13, <1>14 DEF Select

LEMMA SelectReturned ==
  ASSUME NEW tree, NEW cs \in Seq(Nat), NEW n \in Nat,
         tree = [type |-> "SELECT", name |-> n, columns |-> cs, sets |-> <<>>]
  PROVE  /\ SameSeq(Written(Shape(tree)), Append(Append(Asked(Len(cs)), "from"), "identifier"))
         /\ SameSeq(Kept(tree), Append(cs, n))
<1>1. PICK s, k, m : s = Shape(tree) /\ k = s.columns /\ m = Len(cs)
  OBVIOUS
<1>2. m \in Nat /\ DOMAIN cs = 1 .. m
  BY <1>1, LenProperties
<1>3. s.type = "SELECT" /\ k = [i \in 1 .. m |-> FALSE]
  BY <1>1, <1>2 DEF Shape
<1>4. k \in [1 .. m -> BOOLEAN]
  BY <1>3
<1>5. k \in Seq(BOOLEAN) /\ Len(k) = m
  BY <1>2, <1>4, SequenceIs
<1>6. SameSeq(Written(s), Append(Append(Asked(Len(s.columns)), "from"), "identifier"))
  BY <1>1, <1>3, <1>5, WrittenSelect
<1>7. ColumnNames(tree) = cs
  <2>1. ColumnNames(tree) = [i \in 1 .. m |-> cs[i]]
    BY <1>2 DEF ColumnNames
  <2>2. cs = [i \in 1 .. m |-> cs[i]]
    BY <1>1
  <2> QED BY <2>1, <2>2
<1>8. Kept(tree) = Append(cs, n)
  BY <1>7 DEF Kept
<1> QED BY <1>1, <1>5, <1>6, <1>8 DEF SameSeq

LEMMA FromParses ==
  ASSUME Reading, Parsed(at, current_token, ast, Kinds), From
  PROVE  StepParses
<1>1. PICK n, a, cs : n = current_token /\ a = Asked(Len(ast.columns)) /\ cs = ast.columns
  OBVIOUS
<1>2. "from" \notin Named /\ "identifier" \in Named
  BY DEF Named
<1>3. CASE Take("from", "from", "fromTable") /\ UNCHANGED ast
  <2>1. Takes("from", "from", "fromTable")
    BY <1>3, TakeIs
  <2>2. SelectTree(ast) /\ So(Kinds, n, a, cs)
    BY <1>1, <2>1 DEF Takes, Parsed, SelectParsed
  <2>3. So(Kinds, current_token', Append(a, "from"), cs)
    BY <1>1, <1>2, <2>1, <2>2, TakesMark
  <2>4. at' = "fromTable" /\ current_token' \in 1 .. Len(Kinds) + 1 /\ ast' = ast
    BY <1>3, <2>1 DEF Takes
  <2> QED BY <1>1, <2>2, <2>3, <2>4
          DEF StepParses, Parsed, CreateParsed, SelectParsed, InsertParsed, Beginning
<1>4. CASE Take("fromTable", "identifier", "returned") /\ ast' = [ast EXCEPT !.name = current_token]
  <2>1. Takes("fromTable", "identifier", "returned")
    BY <1>4, TakeIs
  <2>2. SelectTree(ast) /\ So(Kinds, n, Append(a, "from"), cs)
    BY <1>1, <2>1 DEF Takes, Parsed, SelectParsed
  <2>3. So(Kinds, current_token', Append(Append(a, "from"), "identifier"), Append(cs, n))
    BY <1>1, <1>2, <2>1, <2>2, TakesName
  <2>4. at' = "returned" /\ current_token' \in 1 .. Len(Kinds) + 1 /\ n \in Nat
    BY <1>1, <2>1 DEF Takes, Reading
  <2>5. cs \in Seq(Nat) /\ ast' = [type |-> "SELECT", name |-> n, columns |-> cs, sets |-> <<>>]
    <3>1. ast = [type |-> "SELECT", name |-> 0, columns |-> cs, sets |-> <<>>] /\ cs \in Seq(Nat)
      BY <1>1, <2>2 DEF SelectTree
    <3> QED BY <1>1, <1>4, <3>1
  <2>6. So(Kinds, current_token', Written(Shape(ast')), Kept(ast'))
    BY <1>1, <2>3, <2>4, <2>5, SelectReturned DEF SameSeq
  <2>7. Parsed("returned", current_token', ast', Kinds)
    BY <2>4, <2>6, ParsedReturned
  <2> QED BY <2>4, <2>7 DEF StepParses
<1> QED BY <1>3, <1>4 DEF From

-----------------------------------------------------------------------------
(* INSERT                                                                  *)

LEMMA LengthsAppend ==
  ASSUME NEW rows \in Seq(Seq(Nat)), NEW row \in Seq(Nat)
  PROVE  /\ SameSeq(Lengths(Append(rows, row)), Append(Lengths(rows), Len(row)))
         /\ Lengths(rows) \in Seq(Nat) /\ Len(Lengths(rows)) = Len(rows)
<1>1. PICK n, d, k, l : n = Len(rows) /\ d = Append(rows, row) /\ k = Lengths(rows) /\ l = Lengths(d)
  OBVIOUS
<1>2. n \in Nat /\ DOMAIN rows = 1 .. n /\ \A i \in 1 .. n : Len(rows[i]) \in Nat
  BY <1>1, LenProperties, ElementOfSeq
<1>3. d \in Seq(Seq(Nat)) /\ Len(d) = n + 1 /\ d[n + 1] = row /\ \A i \in 1 .. n : d[i] = rows[i]
  BY <1>1, AppendProperties
<1>4. DOMAIN d = 1 .. n + 1 /\ \A i \in 1 .. n + 1 : Len(d[i]) \in Nat
  BY <1>3, LenProperties, ElementOfSeq
<1>5. k \in [1 .. n -> Nat] /\ l \in [1 .. n + 1 -> Nat]
  BY <1>1, <1>2, <1>4 DEF Lengths
<1>6. k \in Seq(Nat) /\ Len(k) = n /\ l \in Seq(Nat) /\ Len(l) = n + 1
  <2>1. n + 1 \in Nat
    BY <1>2
  <2> QED BY <1>2, <1>5, <2>1, SequenceIs
<1>7. l[n + 1] = Len(row) /\ \A i \in 1 .. n : l[i] = k[i]
  BY <1>1, <1>2, <1>3, <1>4 DEF Lengths
<1>8. Len(row) \in Nat
  BY LenProperties
<1>9. IsAppended(l, k, Len(row))
  BY <1>6, <1>7, <1>8, AppendedIs
<1> QED BY <1>1, <1>6, <1>9 DEF SameSeq, IsAppended

LEMMA LastChanges ==
  ASSUME NEW rows \in Seq(Seq(Nat)), NEW row \in Seq(Nat), NEW n \in Nat
  PROVE  LET sets == Append(rows, row)
         IN  SameSeq([sets EXCEPT ![Len(sets)] = Append(@, n)], Append(rows, Append(row, n)))
<1>1. PICK sets, m, next : sets = Append(rows, row) /\ m = Len(rows) /\ next = Append(row, n)
  OBVIOUS
<1>2. next \in Seq(Nat) /\ m \in Nat
  BY <1>1, AppendProperties, LenProperties
<1>3. /\ sets \in Seq(Seq(Nat)) /\ Len(sets) = m + 1 /\ sets[m + 1] = row
      /\ \A i \in 1 .. m : sets[i] = rows[i]
  BY <1>1, AppendProperties
<1>4. DOMAIN sets = 1 .. m + 1 /\ \A i \in 1 .. m + 1 : sets[i] \in Seq(Nat)
  BY <1>3, LenProperties, ElementOfSeq
<1>5. PICK c : c = [sets EXCEPT ![Len(sets)] = Append(@, n)]
  OBVIOUS
<1>6. c = [i \in 1 .. m + 1 |-> IF i = m + 1 THEN next ELSE sets[i]]
  BY <1>1, <1>3, <1>4, <1>5
<1>7. c \in [1 .. m + 1 -> Seq(Nat)]
  BY <1>2, <1>4, <1>6
<1>8. c \in Seq(Seq(Nat)) /\ Len(c) = m + 1
  <2>1. m + 1 \in Nat
    BY <1>2
  <2> QED BY <1>7, <2>1, SequenceIs
<1>9. c[m + 1] = next /\ \A i \in 1 .. m : c[i] = rows[i]
  BY <1>2, <1>3, <1>6
<1>10. IsAppended(c, rows, next)
  BY <1>1, <1>2, <1>8, <1>9, AppendedIs
<1> QED BY <1>1, <1>5, <1>10 DEF SameSeq, IsAppended

WithSets(k, sets) == [type |-> "INSERT", name |-> k, columns |-> <<>>, sets |-> sets]
LEMMA WithSetsIs ==
  ASSUME NEW tree, NEW k, NEW sets, tree = WithSets(k, sets), k \in Nat \ {0}, sets \in Seq(Seq(Nat))
  PROVE  InsertTree(tree) /\ tree.sets = sets /\ tree.name = k
  BY DEF InsertTree, WithSets

\* The places of the names and values of an INSERT.
LEMMA InsertKeepsIs ==
  ASSUME NEW k \in Nat, NEW rows \in Seq(Seq(Nat)), NEW row \in Seq(Nat), NEW n \in Nat
  PROVE  LET kept(sets) == <<k>> \o FlattenSeq(sets)
         IN  /\ SameSeq(kept(Append(rows, <<>>)), kept(rows))
             /\ SameSeq(kept(Append(rows, Append(row, n))), Append(kept(Append(rows, row)), n))
<1>1. PICK x, f, g : x = <<k>> /\ f = FlattenSeq(rows) /\ g = Append(row, n)
  OBVIOUS
<1>2. x \in Seq(Nat) /\ f \in Seq(Nat) /\ g \in Seq(Nat) /\ <<>> \in Seq(Nat)
  BY <1>1, FlattenFacts, AppendProperties
<1>3. FlattenSeq(Append(rows, <<>>)) = f \o <<>>
  BY <1>1, <1>2, FlattenAppend
<1>4. FlattenSeq(Append(rows, g)) = f \o g
  BY <1>1, <1>2, FlattenAppend
<1>5. FlattenSeq(Append(rows, row)) = f \o row
  BY <1>1, FlattenAppend
<1>6. f \o <<>> = f
  BY <1>2, ConcatEmptySeq
<1>7. f \o row \in Seq(Nat)
  BY <1>2, ConcatProperties
<1>8. SameSeq(f \o Append(row, n), Append(f \o row, n))
  BY <1>2, JoinsAppended
<1>9. SameSeq(x \o Append(f \o row, n), Append(x \o (f \o row), n))
  BY <1>2, <1>7, JoinsAppended
<1> QED BY <1>1, <1>3, <1>4, <1>5, <1>6, <1>8, <1>9 DEF SameSeq

LEMMA InsertParses ==
  ASSUME Reading, Parsed(at, current_token, ast, Kinds), Insert
  PROVE  StepParses
<1>1. PICK n, s, t, i, v : n = current_token /\ s = "insert" /\ t = "into" /\ i = "identifier" /\ v = "values"
  OBVIOUS
<1>2. /\ s \in Kind /\ t \in Kind /\ i \in Kind /\ v \in Kind
      /\ t \notin Named /\ i \in Named /\ v \notin Named
  BY <1>1 DEF Kind, Named
<1>3. SameSeq(Append(<<s>>, t), <<s, t>>)
  BY <1>2, Pairs
<1>4. SameSeq(Append(<<s, t>>, i), <<s, t, i>>) /\ SameSeq(Append(<<s, t, i>>, v), <<s, t, i, v>>)
  BY <1>2, Appends
<1>5. CASE Take("insert", "into", "into") /\ UNCHANGED ast
  <2>1. Takes("insert", t, "into")
    BY <1>1, <1>5, TakeIs
  <2>2. So(Kinds, n, <<s>>, <<>>)
    BY <1>1, <2>1 DEF Takes, Parsed, Beginning
  <2>3. So(Kinds, current_token', Append(<<s>>, t), <<>>)
    BY <1>1, <1>2, <2>1, <2>2, TakesMark
  <2>4. "into" \in DOMAIN Beginning /\ Beginning["into"] = <<s, t>>
    BY <1>1 DEF Beginning
  <2>5. So(Kinds, current_token', Beginning["into"], <<>>)
    BY <1>3, <2>3, <2>4 DEF SameSeq
  <2>6. at' = "into" /\ current_token' \in 1 .. Len(Kinds) + 1
    BY <2>1 DEF Takes
  <2>7. Parsed("into", current_token', ast', Kinds)
    BY <2>4, <2>5, <2>6, ParsedBeginning
  <2> QED BY <2>6, <2>7 DEF StepParses
<1>6. CASE Take("into", "identifier", "values") /\ ast' = [Tree("INSERT") EXCEPT !.name = current_token]
  <2>1. Takes("into", i, "values")
    BY <1>1, <1>6, TakeIs
  <2>2. So(Kinds, n, <<s, t>>, <<>>)
    BY <1>1, <2>1 DEF Takes, Parsed, Beginning
  <2>3. So(Kinds, current_token', Append(<<s, t>>, i), Append(<<>>, n))
    BY <1>1, <1>2, <2>1, <2>2, TakesName
  <2>4. n \in Nat \ {0}
    BY <1>1, <2>1 DEF Takes, Reading
  <2>5. Append(<<>>, n) = <<n>>
    BY <2>4, Tuples
  <2>6. ast' = WithSets(n, <<>>) /\ <<>> \in Seq(Seq(Nat))
    BY <1>1, <1>6 DEF Tree, WithSets
  <2>7. InsertTree(ast') /\ ast'.sets = <<>> /\ ast'.name = n
    BY <2>4, <2>6, WithSetsIs
  <2>8. So(Kinds, current_token', <<s, t, i>>, <<n>>)
    BY <1>4, <2>3, <2>5 DEF SameSeq
  <2>9. at' = "values" /\ current_token' \in 1 .. Len(Kinds) + 1
    BY <2>1 DEF Takes
  <2> QED BY <1>1, <2>7, <2>8, <2>9
          DEF StepParses, Parsed, CreateParsed, SelectParsed, InsertParsed, Beginning
<1>7. CASE Take("values", "values", "set") /\ UNCHANGED ast
  <2>1. Takes("values", v, "set")
    BY <1>1, <1>7, TakeIs
  <2>2. InsertTree(ast) /\ ast.sets = <<>> /\ So(Kinds, n, <<s, t, i>>, <<ast.name>>)
    BY <1>1, <2>1 DEF Takes, Parsed, InsertParsed
  <2>3. So(Kinds, current_token', Append(<<s, t, i>>, v), <<ast.name>>)
    BY <1>1, <1>2, <2>1, <2>2, TakesMark
  <2>4. Values(Lengths(ast.sets)) = <<s, t, i, v>>
    <3>1. Lengths(ast.sets) = <<>>
      BY <2>2 DEF Lengths
    <3>2. <<>> \in Seq(Nat) /\ 0 \in Nat
      OBVIOUS
    <3> QED BY <1>1, <3>1, <3>2, ValuesFacts DEF ValuesStart
  <2>5. InsertKeeps(ast) = <<ast.name>>
    <3>1. <<>> \in Seq(Seq(Nat))
      OBVIOUS
    <3>2. FlattenSeq(ast.sets) = <<>>
      BY <2>2, <3>1, FlattenFacts
    <3>3. <<ast.name>> \in Seq(Nat)
      BY <2>2 DEF InsertTree
    <3> QED BY <3>2, <3>3, ConcatEmptySeq DEF InsertKeeps
  <2>6. So(Kinds, current_token', Values(Lengths(ast.sets)), InsertKeeps(ast))
    BY <1>4, <2>3, <2>4, <2>5 DEF SameSeq
  <2>7. at' = "set" /\ current_token' \in 1 .. Len(Kinds) + 1 /\ ast' = ast
    BY <1>7, <2>1 DEF Takes
  <2> QED BY <2>2, <2>6, <2>7
          DEF StepParses, Parsed, CreateParsed, SelectParsed, InsertParsed, Beginning
<1> QED BY <1>5, <1>6, <1>7 DEF Insert

LEMMA BegunPlain ==
  ASSUME NEW ns \in Seq(Nat)
  PROVE  Plain(Given(ns, 0)) = Plain(Append(Values(ns), "(")) /\ Given(ns, 0) \in Seq(Kind)
<1>1. PICK v, c : v = Values(ns) /\ c = Append(v, ",")
  OBVIOUS
<1>2. 0 \in Nat
  OBVIOUS
<1>3. v \in Seq(Kind) /\ Given(ns, 0) = Begun(ns) /\ Given(ns, 0) \in Seq(Kind)
  BY <1>1, <1>2, ValuesFacts, GivenFacts
<1>4. c \in Seq(Kind) /\ Plain(c) = Plain(v)
  BY <1>1, <1>3, PlainComma
<1>5. "(" \in Kind
  BY DEF Kind
<1>6. Plain(Append(c, "(")) = Plain(Append(v, "("))
  BY <1>3, <1>4, <1>5, PlainGrow
<1>7. Begun(ns) = IF ns = <<>> THEN Append(v, "(") ELSE Append(c, "(")
  BY <1>1 DEF Begun
<1> QED BY <1>1, <1>3, <1>6, <1>7

LEMMA GivenPlain ==
  ASSUME NEW ns \in Seq(Nat), NEW m \in Nat
  PROVE  /\ Plain(Given(ns, m + 1)) = Plain(Append(Given(ns, m), "literal"))
         /\ Given(ns, m + 1) \in Seq(Kind)
<1>1. PICK g, c : g = Given(ns, m) /\ c = Append(g, ",")
  OBVIOUS
<1>2. m + 1 \in Nat
  OBVIOUS
<1>3. g \in Seq(Kind) /\ Given(ns, m + 1) \in Seq(Kind)
  BY <1>1, <1>2, ValuesFacts
<1>4. c \in Seq(Kind) /\ Plain(c) = Plain(g)
  BY <1>1, <1>3, PlainComma
<1>5. "literal" \in Kind
  BY DEF Kind
<1>6. Plain(Append(c, "literal")) = Plain(Append(g, "literal"))
  BY <1>3, <1>4, <1>5, PlainGrow
<1>7. CASE m = 0
  <2>1. Given(ns, 1) = Append(Begun(ns), "literal") /\ Given(ns, 0) = Begun(ns)
    BY GivenFacts
  <2>2. m + 1 = 1
    BY <1>7
  <2>3. Given(ns, m + 1) = Append(Given(ns, m), "literal")
    BY <1>7, <2>1, <2>2
  <2> QED BY <1>1, <1>3, <2>3
<1>8. CASE m # 0
  <2>1. Given(ns, m + 1) = Append(c, "literal")
    BY <1>1, <1>8, GivenFacts
  <2> QED BY <1>1, <1>3, <1>6, <2>1
<1> QED BY <1>7, <1>8

LEMMA ParsedLiterals ==
  ASSUME NEW a \in {"literals", "literalComma"}, NEW w, NEW n \in 1 .. Len(w) + 1, NEW tree, InsertTree(tree),
         NEW rows \in Seq(Seq(Nat)), NEW row \in Seq(Nat), tree.sets = Append(rows, row),
         So(w, n, Given(Lengths(rows), Len(row)), InsertKeeps(tree))
  PROVE  Parsed(a, n, tree, w)
<1>1. \E rs \in Seq(Seq(Nat)), r \in Seq(Nat) :
        tree.sets = Append(rs, r) /\ So(w, n, Given(Lengths(rs), Len(r)), InsertKeeps(tree))
  OBVIOUS
<1> QED BY <1>1 DEF Parsed, CreateParsed, SelectParsed, InsertParsed, Beginning

LEMMA ParsedSets ==
  ASSUME NEW a \in {"set", "nextSet"}, NEW w, NEW n \in 1 .. Len(w) + 1, NEW tree, InsertTree(tree),
         a = "nextSet" => tree.sets # <<>>,
         So(w, n, Values(Lengths(tree.sets)), InsertKeeps(tree))
  PROVE  Parsed(a, n, tree, w)
  BY DEF Parsed, CreateParsed, SelectParsed, InsertParsed, Beginning

LEMMA SetsChange ==
  ASSUME NEW k, NEW sets, NEW m, NEW n, NEW tree, tree = WithSets(k, sets)
  PROVE  SameSeq([tree EXCEPT !.sets[m] = Append(@, n)], WithSets(k, [sets EXCEPT ![m] = Append(@, n)]))
  BY DEF WithSets, SameSeq

LEMMA ValueSetParses ==
  ASSUME Reading, Parsed(at, current_token, ast, Kinds), ValueSet
  PROVE  StepParses
<1>1. PICK n, k, sets : n = current_token /\ k = ast.name /\ sets = ast.sets
  OBVIOUS
<1>2. "(" \notin Named /\ ")" \notin Named /\ "literal" \in Named /\ "," \in Separator
  BY DEF Named, Separator
<1>3. n \in 1 .. Len(Kinds) + 1 /\ Len(Kinds) \in Nat /\ n \in Nat
  BY <1>1 DEF Reading
<1>4. CASE Take("set", "(", "literals") /\ ast' = [ast EXCEPT !.sets = Append(@, <<>>)]
  <2>1. Takes("set", "(", "literals")
    BY <1>4, TakeIs
  <2>2. InsertTree(ast) /\ So(Kinds, n, Values(Lengths(sets)), InsertKeeps(ast))
    BY <1>1, <2>1 DEF Takes, Parsed, InsertParsed
  <2>3. k \in Nat \ {0} /\ sets \in Seq(Seq(Nat)) /\ ast = WithSets(k, sets)
    BY <1>1, <2>2 DEF InsertTree, WithSets
  <2>4. ast' = WithSets(k, Append(sets, <<>>))
    BY <1>4, <2>3 DEF WithSets
  <2>5. <<>> \in Seq(Nat) /\ Append(sets, <<>>) \in Seq(Seq(Nat)) /\ Len(<<>>) = 0
    BY <2>3, AppendProperties
  <2>6. InsertTree(ast') /\ ast'.sets = Append(sets, <<>>) /\ ast'.name = k
    BY <2>3, <2>4, <2>5, WithSetsIs
  <2>7. SameSeq(<<k>> \o FlattenSeq(Append(sets, <<>>)), <<k>> \o FlattenSeq(sets))
    BY <1>3, <2>3, <2>5, InsertKeepsIs
  <2>8. InsertKeeps(ast') = InsertKeeps(ast)
    BY <1>1, <2>6, <2>7 DEF InsertKeeps, SameSeq
  <2>9. Lengths(sets) \in Seq(Nat)
    BY <2>3, <2>5, LengthsAppend
  <2>10. So(Kinds, current_token', Append(Values(Lengths(sets)), "("), InsertKeeps(ast))
    BY <1>1, <1>2, <2>1, <2>2, TakesMark
  <2>11. So(Kinds, current_token', Given(Lengths(sets), 0), InsertKeeps(ast))
    BY <2>9, <2>10, BegunPlain, SoAlike
  <2>12. at' = "literals" /\ current_token' \in 1 .. Len(Kinds) + 1
    BY <2>1 DEF Takes
  <2>13. Parsed("literals", current_token', ast', Kinds)
    <3>1. So(Kinds, current_token', Given(Lengths(sets), Len(<<>>)), InsertKeeps(ast'))
      BY <2>5, <2>8, <2>11
    <3>2. "literals" \in {"literals", "literalComma"}
      OBVIOUS
    <3> QED BY <2>3, <2>5, <2>6, <2>12, <3>1, <3>2, ParsedLiterals
  <2> QED BY <2>12, <2>13 DEF StepParses
<1>5. ASSUME at \in {"literals", "literalComma"}
      PROVE  /\ InsertTree(ast)
             /\ \E rows \in Seq(Seq(Nat)), row \in Seq(Nat) :
                  sets = Append(rows, row) /\ So(Kinds, n, Given(Lengths(rows), Len(row)), InsertKeeps(ast))
  BY <1>1, <1>5 DEF Parsed, InsertParsed
<1>6. CASE Take("literals", "literal", "literalComma")
           /\ ast' = [ast EXCEPT !.sets[Len(ast.sets)] = Append(@, current_token)]
  <2>1. Takes("literals", "literal", "literalComma")
    BY <1>6, TakeIs
  <2>2. at = "literals" /\ at' = "literalComma" /\ current_token' \in 1 .. Len(Kinds) + 1
    BY <2>1 DEF Takes
  <2>3. InsertTree(ast)
    BY <1>5, <2>2
  <2>4. PICK rows \in Seq(Seq(Nat)), row \in Seq(Nat) :
          sets = Append(rows, row) /\ So(Kinds, n, Given(Lengths(rows), Len(row)), InsertKeeps(ast))
    BY <1>5, <2>2
  <2>5. k \in Nat \ {0} /\ ast = WithSets(k, sets)
    BY <1>1, <2>3 DEF InsertTree, WithSets
  <2>6. ast' = WithSets(k, [sets EXCEPT ![Len(sets)] = Append(@, n)])
    <3>1. PICK m, tree : m = Len(sets) /\ tree = ast
      OBVIOUS
    <3>2. SameSeq([tree EXCEPT !.sets[m] = Append(@, n)], WithSets(k, [sets EXCEPT ![m] = Append(@, n)]))
      BY <2>5, <3>1, SetsChange
    <3> QED BY <1>1, <1>6, <3>1, <3>2 DEF SameSeq
  <2>7. PICK next, grown : next = Append(row, n) /\ grown = Append(rows, next)
    OBVIOUS
  <2>8. SameSeq([sets EXCEPT ![Len(sets)] = Append(@, n)], grown)
    BY <1>3, <2>4, <2>7, LastChanges
  <2>9. ast' = WithSets(k, grown)
    BY <2>6, <2>8 DEF SameSeq
  <2>10. next \in Seq(Nat) /\ Len(next) = Len(row) + 1 /\ Len(row) \in Nat
    BY <1>3, <2>7, AppendProperties, LenProperties
  <2>11. grown \in Seq(Seq(Nat))
    BY <2>7, <2>10, AppendProperties
  <2>12. InsertTree(ast') /\ ast'.sets = grown /\ ast'.name = k
    BY <2>5, <2>9, <2>11, WithSetsIs
  <2>13. SameSeq(<<k>> \o FlattenSeq(Append(rows, Append(row, n))), Append(<<k>> \o FlattenSeq(Append(rows, row)), n))
    BY <1>3, <2>5, InsertKeepsIs
  <2>14. InsertKeeps(ast') = Append(InsertKeeps(ast), n)
    BY <1>1, <2>4, <2>7, <2>12, <2>13 DEF InsertKeeps, SameSeq
  <2>15. So(Kinds, current_token', Append(Given(Lengths(rows), Len(row)), "literal"), Append(InsertKeeps(ast), n))
    BY <1>1, <1>2, <2>1, <2>4, TakesName
  <2>16. Lengths(rows) \in Seq(Nat)
    BY <2>10, LengthsAppend
  <2>17. So(Kinds, current_token', Given(Lengths(rows), Len(row) + 1), Append(InsertKeeps(ast), n))
    BY <2>10, <2>15, <2>16, GivenPlain, SoAlike
  <2>18. So(Kinds, current_token', Given(Lengths(rows), Len(next)), InsertKeeps(ast'))
    BY <2>10, <2>14, <2>17
  <2>19. ast'.sets = Append(rows, next) /\ "literalComma" \in {"literals", "literalComma"}
    BY <2>7, <2>12
  <2>20. Parsed("literalComma", current_token', ast', Kinds)
    BY <2>2, <2>10, <2>12, <2>18, <2>19, ParsedLiterals
  <2> QED BY <2>2, <2>20 DEF StepParses
<1>7. ASSUME at = "literalComma", at' = "literals", ast' = ast, current_token' \in 1 .. Len(Kinds) + 1,
             \A ts, ks : So(Kinds, n, ts, ks) => So(Kinds, current_token', ts, ks)
      PROVE  StepParses
  <2>1. InsertTree(ast)
    BY <1>5, <1>7
  <2>2. PICK rows \in Seq(Seq(Nat)), row \in Seq(Nat) :
          sets = Append(rows, row) /\ So(Kinds, n, Given(Lengths(rows), Len(row)), InsertKeeps(ast))
    BY <1>5, <1>7
  <2>3. So(Kinds, current_token', Given(Lengths(rows), Len(row)), InsertKeeps(ast))
    BY <1>7, <2>2
  <2>4. ast.sets = Append(rows, row) /\ "literals" \in {"literals", "literalComma"}
    BY <1>1, <2>2
  <2>5. Parsed("literals", current_token', ast, Kinds)
    BY <1>7, <2>1, <2>3, <2>4, ParsedLiterals
  <2> QED BY <1>7, <2>5 DEF StepParses
<1>8. CASE Take("literalComma", ",", "literals") /\ UNCHANGED ast
  <2>1. Takes("literalComma", ",", "literals")
    BY <1>8, TakeIs
  <2>2. \A ts, ks : So(Kinds, n, ts, ks) => So(Kinds, current_token', ts, ks)
    BY <1>1, <1>2, <2>1, TakesSeparator
  <2> QED BY <1>7, <1>8, <2>1, <2>2 DEF Takes
<1>9. CASE Skip("literalComma", ",", "literals") /\ UNCHANGED ast
  <2>1. at = "literalComma" /\ at' = "literals" /\ current_token' = n
    BY <1>1, <1>9 DEF Skip, Stay
  <2> QED BY <1>3, <1>7, <1>9, <2>1
<1>10. CASE Take("literals", ")", "nextSet") /\ UNCHANGED ast
  <2>1. Takes("literals", ")", "nextSet")
    BY <1>10, TakeIs
  <2>2. at = "literals" /\ at' = "nextSet" /\ current_token' \in 1 .. Len(Kinds) + 1 /\ ast' = ast
    BY <1>10, <2>1 DEF Takes
  <2>3. InsertTree(ast)
    BY <1>5, <2>2
  <2>4. PICK rows \in Seq(Seq(Nat)), row \in Seq(Nat) :
          sets = Append(rows, row) /\ So(Kinds, n, Given(Lengths(rows), Len(row)), InsertKeeps(ast))
    BY <1>5, <2>2
  <2>5. So(Kinds, current_token', Append(Given(Lengths(rows), Len(row)), ")"), InsertKeeps(ast))
    BY <1>1, <1>2, <2>1, <2>4, TakesMark
  <2>6. Lengths(rows) \in Seq(Nat) /\ Lengths(sets) = Append(Lengths(rows), Len(row)) /\ Len(row) \in Nat
    BY <2>4, LengthsAppend, LenProperties DEF SameSeq
  <2>7. Values(Lengths(sets)) = Append(Given(Lengths(rows), Len(row)), ")")
    BY <2>6, ValuesFacts
  <2>8. So(Kinds, current_token', Values(Lengths(ast.sets)), InsertKeeps(ast))
    BY <1>1, <2>5, <2>7
  <2>9. ast.sets # <<>>
    <3>1. Len(sets) = Len(rows) + 1 /\ Len(rows) \in Nat
      BY <2>4, AppendProperties, LenProperties
    <3> QED BY <1>1, <3>1, EmptySeq
  <2>10. "nextSet" \in {"set", "nextSet"}
    OBVIOUS
  <2>11. Parsed("nextSet", current_token', ast, Kinds)
    BY <2>2, <2>3, <2>8, <2>9, <2>10, ParsedSets
  <2> QED BY <2>2, <2>11 DEF StepParses
<1> QED BY <1>4, <1>6, <1>8, <1>9, <1>10 DEF ValueSet

LEMMA InsertReturned ==
  ASSUME NEW tree, InsertTree(tree), NEW type \in {"INSERT", "INSERT_BULK"}, NEW named,
         named = [tree EXCEPT !.type = type]
  PROVE  /\ SameSeq(Written(Shape(named)), Values(Lengths(tree.sets)))
         /\ SameSeq(Kept(named), InsertKeeps(tree))
<1>1. PICK k, sets : k = tree.name /\ sets = tree.sets
  OBVIOUS
<1>2. k \in Nat \ {0} /\ sets \in Seq(Seq(Nat)) /\ tree = WithSets(k, sets)
  BY <1>1 DEF InsertTree, WithSets
<1>3. named = [type |-> type, name |-> k, columns |-> <<>>, sets |-> sets]
  BY <1>2 DEF WithSets
<1>4. PICK s : s = Shape(named)
  OBVIOUS
<1>5. s.type = type /\ s.sets = Lengths(sets)
  BY <1>3, <1>4 DEF Shape, Lengths
<1>6. <<>> \in Seq(Nat) /\ <<>> \in Seq(Seq(Nat))
  OBVIOUS
<1>7. Lengths(sets) \in Seq(Nat)
  BY <1>2, <1>6, LengthsAppend
<1>8. SameSeq(Written(s), Values(s.sets))
  BY <1>5, <1>7, WrittenInsert
<1>9. ColumnNames(named) = <<>>
  BY <1>3 DEF ColumnNames
<1>10. PICK x, f : x = <<k>> /\ f = FlattenSeq(sets)
  OBVIOUS
<1>11. Kept(named) = (x \o <<>>) \o f
  <2>1. named.type # "SELECT" /\ named.name = k /\ k # 0 /\ named.sets = sets
    BY <1>2, <1>3
  <2> QED BY <1>9, <1>10, <2>1 DEF Kept
<1>12. x \o <<>> = x
  <2>1. x \in Seq(Nat)
    BY <1>2, <1>10
  <2> QED BY <2>1, ConcatEmptySeq
<1> QED BY <1>1, <1>4, <1>5, <1>8, <1>10, <1>11, <1>12 DEF SameSeq, InsertKeeps

LEMMA EndInsertParses ==
  ASSUME Reading, Parsed(at, current_token, ast, Kinds), EndInsert
  PROVE  StepParses
<1>1. PICK n : n = current_token
  OBVIOUS
<1>2. at = "nextSet"
  BY DEF EndInsert, Take, Skip
<1>3. InsertTree(ast) /\ So(Kinds, n, Values(Lengths(ast.sets)), InsertKeeps(ast)) /\ n \in 1 .. Len(Kinds) + 1
  BY <1>1, <1>2 DEF Parsed, InsertParsed
<1>4. CASE Take("nextSet", ",", "set") /\ UNCHANGED ast
  <2>1. Takes("nextSet", ",", "set")
    BY <1>4, TakeIs
  <2>2. "," \in Separator /\ "set" \in {"set", "nextSet"} /\ "set" # "nextSet"
    BY DEF Separator
  <2>3. So(Kinds, current_token', Values(Lengths(ast.sets)), InsertKeeps(ast))
    BY <1>1, <1>3, <2>1, <2>2, TakesSeparator
  <2>4. at' = "set" /\ current_token' \in 1 .. Len(Kinds) + 1 /\ ast' = ast
    BY <1>4, <2>1 DEF Takes
  <2>5. Parsed("set", current_token', ast, Kinds)
    BY <1>3, <2>2, <2>3, <2>4, ParsedSets
  <2> QED BY <2>4, <2>5 DEF StepParses
<1>5. CASE /\ Skip("nextSet", ",", "returned")
           /\ ast' = [ast EXCEPT !.type = IF Len(ast.sets) = 1 THEN "INSERT" ELSE "INSERT_BULK"]
  <2>1. at' = "returned" /\ current_token' = n
    BY <1>1, <1>5 DEF Skip, Stay
  <2>2. PICK type : type = IF Len(ast.sets) = 1 THEN "INSERT" ELSE "INSERT_BULK"
    OBVIOUS
  <2>3. type \in {"INSERT", "INSERT_BULK"} /\ ast' = [ast EXCEPT !.type = type]
    BY <1>5, <2>2
  <2>4. So(Kinds, n, Written(Shape(ast')), Kept(ast'))
    BY <1>3, <2>3, InsertReturned DEF SameSeq
  <2>5. Parsed("returned", n, ast', Kinds)
    BY <1>3, <2>4, ParsedReturned
  <2> QED BY <2>1, <2>5 DEF StepParses
<1> QED BY <1>4, <1>5 DEF EndInsert

-----------------------------------------------------------------------------
(* What is accepted is well formed.                                        *)

ParsedInv ==
  /\ at = "tokenize" => current_token = 1
  /\ at # "tokenize" => Parsed(at, current_token, ast, Kinds)

LEMMA TokensAreOfPieces ==
  ASSUME ReadInv
  PROVE  tokens \in Seq(Piece)
  BY DEF ReadInv, ReadTo, ReadAll

LEMMA RulesParse ==
  ASSUME Reading, Parsed(at, current_token, ast, Kinds), Next, ~Tokenize
  PROVE  StepParses
  BY FirstParses, InvalidNodeParses, ShowParses, DatabaseOrTableParses, NameParses, HelpOrExitParses,
     EndParses, CreateTableParses, ColumnsParses, ColumnDefParses, CommaParses, SelectParses, FromParses,
     InsertParses, ValueSetParses, EndInsertParses, RefuseParses DEF Next

\* The tokens are read before the first of them is looked at.
LEMMA TokenizeEnds ==
  ASSUME Tokenize, at' # "tokenize"
  PROVE  at = "tokenize" /\ tokens' = tokens /\ at' \in {"first", "refused"}
<1>1. CASE Unexpected \/ EndOfText
  BY <1>1 DEF Unexpected, EndOfText, Scanning
<1>2. CASE ~Unexpected /\ ~EndOfText
  BY <1>2 DEF Tokenize, SkipBlank, ScanMark, ScanFraction, ScanMinus, ScanQuoted, ScanNumber, ScanWord,
              Emit, Scanning
<1> QED BY <1>1, <1>2

LEMMA TokenizeFirst ==
  ASSUME Tokenize
  PROVE  at = "tokenize"
  BY DEF Tokenize, SkipBlank, ScanMark, ScanFraction, ScanMinus, ScanQuoted, ScanNumber, ScanWord,
         Unexpected, EndOfText, Scanning

LEMMA TokenizeAlone ==
  ASSUME Tokenize, Next
  PROVE  UNCHANGED <<current_token, ast>>
<1> SUFFICES ASSUME ~UNCHANGED <<current_token, ast>> PROVE FALSE
  OBVIOUS
<1>1. at = "tokenize"
  BY TokenizeFirst
<1> QED BY <1>1 DEF Next, First, InvalidNode, Show, DatabaseOrTable, Name, HelpOrExit, End, CreateTable,
                    Columns, ColumnDef, Comma, Select, From, Insert, ValueSet, EndInsert, Refuse,
                    Take, Skip, TypeOf, Needed

LEMMA StepKeepsParsed ==
  ASSUME ReadInv, ParsedInv, [Next]_vars
  PROVE  ParsedInv'
<1>1. /\ Kinds \in Seq(Kind) /\ Len(Kinds) = Len(tokens) /\ Len(tokens) \in Nat
      /\ \A k \in 1 .. Len(tokens) : Kinds[k] = tokens[k].type
  BY TokensAreOfPieces, WordIs
<1>2. CASE Tokenize /\ UNCHANGED <<current_token, ast>>
  <2>1. at = "tokenize" /\ current_token = 1 /\ current_token' = 1
    BY <1>2, TokenizeFirst DEF ParsedInv
  <2>2. ASSUME at' # "tokenize" PROVE Parsed(at', current_token', ast', Kinds')
    <3>1. tokens' = tokens /\ at' \in {"first", "refused"}
      BY <1>2, <2>2, TokenizeEnds
    <3>2. Kinds' = Kinds
      BY <3>1 DEF Kinds, Types
    <3>3. 1 \in 1 .. Len(Kinds) + 1
      BY <1>1
    <3>4. So(Kinds, 1, <<>>, <<>>)
      BY <1>1, SoStarts
    <3>5. "first" \in DOMAIN Beginning /\ Beginning["first"] = <<>>
      BY DEF Beginning
    <3>6. Parsed("first", 1, ast', Kinds)
      BY <3>3, <3>4, <3>5, ParsedBeginning
    <3>7. Parsed("refused", 1, ast', Kinds)
      BY <3>3, ParsedRefused
    <3> QED BY <2>1, <3>1, <3>2, <3>6, <3>7
  <2> QED BY <2>1, <2>2 DEF ParsedInv
<1>3. CASE Next /\ ~Tokenize
  <2>1. at # "tokenize" /\ at' # "tokenize" /\ tokens' = tokens
    BY <1>3, RulesRead DEF read
  <2>2. Parsed(at, current_token, ast, Kinds)
    BY <2>1 DEF ParsedInv
  <2>3. Reading
    BY <1>1, <2>2 DEF Reading, Parsed
  <2>4. StepParses
    BY <1>3, <2>2, <2>3, RulesParse
  <2>5. Kinds' = Kinds
    BY <2>1 DEF Kinds, Types
  <2> QED BY <2>1, <2>4, <2>5 DEF ParsedInv, StepParses
<1>4. CASE UNCHANGED vars
  <2>1. tokens' = tokens /\ at' = at /\ current_token' = current_token /\ ast' = ast
    BY <1>4 DEF vars
  <2>2. Kinds' = Kinds
    BY <2>1 DEF Kinds, Types
  <2> QED BY <2>1, <2>2 DEF ParsedInv
<1> QED BY <1>2, <1>3, <1>4, TokenizeAlone

LEMMA WellFormed ==
  ASSUME ReadInv, ParsedInv
  PROVE  AcceptedIsWellFormed
<1> SUFFICES ASSUME at = "returned", ast.type # "INVALID_NODE"
             PROVE  LET taken == Types(SubSeq(tokens, 1, current_token - 1))
                        kept == Kept(ast)
                    IN  /\ Plain(taken) = Plain(Written(Shape(ast)))
                        /\ \A i \in 2 .. Len(kept) : kept[i - 1] < kept[i]
                        /\ ToSet(kept) = {p \in DOMAIN taken : taken[p] \in {"identifier", "literal"}}
  BY DEF AcceptedIsWellFormed
<1>1. PICK n, w, kept, taken : /\ n = current_token /\ w = Kinds /\ kept = Kept(ast)
                               /\ taken = Types(SubSeq(tokens, 1, current_token - 1))
  OBVIOUS
<1>2. /\ w \in Seq(Kind) /\ Len(w) = Len(tokens) /\ Len(tokens) \in Nat
      /\ \A k \in 1 .. Len(tokens) : w[k] = tokens[k].type
  BY <1>1, TokensAreOfPieces, WordIs
<1>3. Parsed("returned", n, ast, w)
  BY <1>1 DEF ParsedInv
<1>4. n \in 1 .. Len(w) + 1 /\ So(w, n, Written(Shape(ast)), kept)
  BY <1>1, <1>3 DEF Parsed
<1>5. taken = SubSeq(w, 1, n - 1) /\ DOMAIN taken = 1 .. n - 1 /\ \A p \in 1 .. n - 1 : taken[p] = w[p]
  <2>1. PICK m, u : m = n - 1 /\ u = SubSeq(tokens, 1, m)
    OBVIOUS
  <2>2. m \in 0 .. Len(tokens)
    BY <1>2, <1>4, <2>1
  <2>3. tokens \in Seq(Piece)
    BY TokensAreOfPieces
  <2>4. Len(u) = m /\ u \in Seq(Piece) /\ \A p \in 1 .. m : u[p] = tokens[p]
    BY <1>2, <2>1, <2>2, <2>3, SubSeqProperties
  <2>5. DOMAIN u = 1 .. m
    BY <2>4, LenProperties
  <2>6. \A p \in 1 .. m : p \in 1 .. Len(tokens)
    BY <2>2
  <2>7. taken = [p \in 1 .. m |-> w[p]]
    BY <1>1, <1>2, <2>1, <2>4, <2>5, <2>6 DEF Types
  <2>8. PICK v : v = SubSeq(w, 1, m)
    OBVIOUS
  <2>9. v \in Seq(Kind) /\ Len(v) = m /\ \A p \in 1 .. m : v[p] = w[p]
    BY <1>2, <2>2, <2>8, SubSeqProperties
  <2>10. taken \in Seq(Kind) /\ Len(taken) = m
    <3>1. \A p \in 1 .. m : w[p] \in Kind
      BY <1>2, <2>6, ElementOfSeq
    <3>2. taken \in [1 .. m -> Kind]
      BY <2>7, <3>1
    <3> QED BY <2>2, <3>2, SequenceIs
  <2>11. taken = v
    BY <2>7, <2>9, <2>10, SeqEqual
  <2> QED BY <2>1, <2>7, <2>8, <2>11
<1>6. Plain(taken) = Plain(Written(Shape(ast))) /\ \A i \in 2 .. Len(kept) : kept[i - 1] < kept[i]
  BY <1>4, <1>5 DEF So
<1>7. ToSet(kept) = {p \in DOMAIN taken : taken[p] \in {"identifier", "literal"}}
  BY <1>4, <1>5 DEF So, Places, Named
<1> QED BY <1>1, <1>6, <1>7

\* Whatever the texts, of any length: a statement that is accepted was written,
\* up to the token where Parse stopped, as the grammar writes it but for its
\* separators, and the tree has all its names and literals, in their order.
THEOREM AcceptedStatementsAreWellFormed == Spec => []AcceptedIsWellFormed
<1>1. Init => ReadInv /\ ParsedInv
  <2>1. Init => ReadInv
    BY InitReads
  <2>2. Init => ParsedInv
    BY DEF Init, TokenizeInit, ParsedInv
  <2> QED BY <2>1, <2>2
<1>2. ReadInv /\ ParsedInv /\ [Next]_vars => (ReadInv /\ ParsedInv)'
  BY StepReads, StepKeepsParsed
<1>3. ReadInv /\ ParsedInv => AcceptedIsWellFormed
  BY WellFormed
<1> QED BY <1>1, <1>2, <1>3, PTL DEF Spec

-----------------------------------------------------------------------------
(* How a statement of the grammar goes on.                                 *)

Prefix(p, w) ==
  p \in Seq(Kind) /\ Len(p) <= Len(w) /\ \A i \in 1 .. Len(p) : w[i] = p[i]

LEMMA PrefixOfAppended ==
  ASSUME NEW p \in Seq(Kind), NEW t \in Kind, NEW w \in Seq(Kind), Prefix(Append(p, t), w)
  PROVE  /\ Prefix(p, w)
         /\ Len(p) + 1 \in 1 .. Len(w) /\ w[Len(p) + 1] = t
<1>1. PICK q, n, m : q = Append(p, t) /\ n = Len(p) /\ m = Len(w)
  OBVIOUS
<1>2. n \in Nat /\ m \in Nat
  BY <1>1, LenProperties
<1>3. Len(q) = n + 1 /\ q[n + 1] = t /\ \A i \in 1 .. n : q[i] = p[i]
  BY <1>1, AppendProperties
<1>4. n + 1 <= m /\ \A i \in 1 .. n + 1 : w[i] = q[i]
  BY <1>1, <1>3 DEF Prefix
<1>5. n + 1 \in 1 .. n + 1 /\ n + 1 \in 1 .. m /\ n <= m /\ \A i \in 1 .. n : i \in 1 .. n + 1
  BY <1>2, <1>4
<1>6. \A i \in 1 .. n : w[i] = p[i]
  BY <1>3, <1>4, <1>5
<1> QED BY <1>1, <1>3, <1>4, <1>5, <1>6 DEF Prefix

LEMMA PrefixOfJoined ==
  ASSUME NEW p \in Seq(Kind), NEW q \in Seq(Kind), NEW w \in Seq(Kind), Prefix(p \o q, w)
  PROVE  Prefix(p, w)
<1>1. PICK r, n, m, l : r = p \o q /\ n = Len(p) /\ m = Len(w) /\ l = Len(q)
  OBVIOUS
<1>2. n \in Nat /\ m \in Nat /\ l \in Nat
  BY <1>1, LenProperties
<1>3. Len(r) = n + l /\ \A i \in 1 .. n : r[i] = p[i]
  <2>1. \A i \in 1 .. n : i \in 1 .. n + l /\ i <= n
    BY <1>2
  <2> QED BY <1>1, <1>2, <2>1, ConcatProperties
<1>4. n + l <= m /\ \A i \in 1 .. n + l : w[i] = r[i]
  BY <1>1, <1>3 DEF Prefix
<1>5. n <= m /\ \A i \in 1 .. n : i \in 1 .. n + l
  BY <1>2, <1>4
<1>6. \A i \in 1 .. n : w[i] = p[i]
  BY <1>3, <1>4, <1>5
<1> QED BY <1>1, <1>5, <1>6 DEF Prefix

LEMMA PrefixOfItself ==
  ASSUME NEW w \in Seq(Kind)
  PROVE  Prefix(w, w)
<1>1. Len(w) \in Nat
  BY LenProperties
<1> QED BY <1>1 DEF Prefix

\* Of texts that each begin the next one, all begin what the last one begins.
Begins(p, q) == \A v \in Seq(Kind) : Prefix(q, v) => Prefix(p, v)
LEMMA AllBegin ==
  ASSUME NEW n \in Nat, NEW f, NEW w \in Seq(Kind), Prefix(f[n], w),
         \A k \in 0 .. n - 1 : Begins(f[k], f[k + 1])
  PROVE  \A k \in 0 .. n : Prefix(f[k], w)
<1> DEFINE Bad == {k \in 0 .. n : ~Prefix(f[n - k], w)}
<1>1. ASSUME Bad # {} PROVE FALSE
  <2>1. PICK k \in Bad : \A j \in Bad : k <= j
    <3>1. Bad \in SUBSET Nat
      OBVIOUS
    <3> QED BY <1>1, <3>1, LeastNumber
  <2>2. k \in 0 .. n /\ ~Prefix(f[n - k], w)
    OBVIOUS
  <2>3. k # 0
    BY <2>2
  <2>4. k - 1 \in 0 .. n /\ Prefix(f[n - (k - 1)], w)
    <3>1. k - 1 \in 0 .. n /\ ~ (k <= k - 1)
      BY <2>2, <2>3
    <3> QED BY <2>1, <3>1
  <2>5. n - (k - 1) = (n - k) + 1 /\ n - k \in 0 .. n - 1
    BY <2>2, <2>3
  <2>6. Prefix(f[(n - k) + 1], w)
    BY <2>4, <2>5
  <2>7. Begins(f[n - k], f[(n - k) + 1])
    BY <2>5
  <2> QED BY <2>2, <2>6, <2>7 DEF Begins
<1>2. ASSUME NEW k \in 0 .. n PROVE Prefix(f[k], w)
  <2>1. n - k \in 0 .. n /\ n - (n - k) = k
    OBVIOUS
  <2>2. n - k \notin Bad
    BY <1>1
  <2> QED BY <2>1, <2>2
<1> QED BY <1>2

LEMMA SubGrows ==
  ASSUME NEW S, NEW q \in Seq(S), NEW k \in Nat, k < Len(q)
  PROVE  /\ SameSeq(SubSeq(q, 1, k + 1), Append(SubSeq(q, 1, k), q[k + 1]))
         /\ q[k + 1] \in S
<1>1. Len(q) \in Nat
  BY LenProperties
<1>2. k + 1 \in 1 .. Len(q) /\ (k + 1) - 1 = k
  BY <1>1
<1>3. q[k + 1] \in S
  BY <1>2, ElementOfSeq
<1>4. SubSeq(q, 1, k + 1) = Append(SubSeq(q, 1, k), q[k + 1])
  BY <1>1, <1>2
<1> QED BY <1>3, <1>4 DEF SameSeq

LEMMA SubIs ==
  ASSUME NEW S, NEW q \in Seq(S), NEW k \in 0 .. Len(q)
  PROVE  SubSeq(q, 1, k) \in Seq(S) /\ Len(SubSeq(q, 1, k)) = k
<1>1. Len(q) \in Nat
  BY LenProperties
<1>2. PICK u : u = SubSeq(q, 1, k)
  OBVIOUS
<1>3. u \in Seq(S) /\ Len(u) = k
  BY <1>1, <1>2, SubSeqProperties
<1> QED BY <1>2, <1>3

LEMMA SubEnds ==
  ASSUME NEW S, NEW q \in Seq(S)
  PROVE  SameSeq(SubSeq(q, 1, 0), <<>>) /\ SameSeq(SubSeq(q, 1, Len(q)), q)
<1>1. Len(q) \in Nat
  BY LenProperties
<1>2. 0 \in 0 .. Len(q)
  BY <1>1
<1>3. PICK u : u = SubSeq(q, 1, 0)
  OBVIOUS
<1>4. u \in Seq(S) /\ Len(u) = 0
  BY <1>2, <1>3, SubIs
<1>5. u = <<>>
  BY <1>4, EmptySeq
<1>6. SubSeq(q, 1, Len(q)) = q
  OBVIOUS
<1> QED BY <1>3, <1>5, <1>6 DEF SameSeq

\* The tokens p have been taken, and the n-th is next.
Past(p, n) == p \in Seq(Kind) /\ n \in Nat /\ n = Len(p) + 1

LEMMA Meets ==
  ASSUME NEW p, NEW n, Past(p, n), NEW t \in Kind, NEW w \in Seq(Kind), Prefix(Append(p, t), w)
  PROVE  n \in 1 .. Len(w) /\ w[n] = t /\ Past(Append(p, t), n + 1) /\ Prefix(p, w)
<1>1. p \in Seq(Kind) /\ n = Len(p) + 1 /\ n \in Nat
  BY DEF Past
<1>2. PICK q : q = Append(p, t)
  OBVIOUS
<1>3. q \in Seq(Kind) /\ Len(q) = n
  BY <1>1, <1>2, AppendProperties
<1>4. Past(q, n + 1)
  BY <1>1, <1>3 DEF Past
<1> QED BY <1>1, <1>2, <1>4, PrefixOfAppended

LEMMA CreatedKind ==
  ASSUME NEW keys \in Seq(BOOLEAN)
  PROVE  Created(keys) \in Seq(Kind)
<1>1. TRUE \in BOOLEAN
  OBVIOUS
<1> QED BY <1>1, CreatedFacts

LEMMA CreatedBegins ==
  ASSUME NEW c \in Seq(BOOLEAN), NEW w \in Seq(Kind), Prefix(Created(c), w)
  PROVE  \A k \in 0 .. Len(c) : Prefix(Created(SubSeq(c, 1, k)), w)
<1> DEFINE f == [k \in 0 .. Len(c) |-> Created(SubSeq(c, 1, k))]
<1>1. PICK n \in Nat : n = Len(c)
  BY LenProperties
<1>2. Prefix(f[n], w)
  <2>1. SameSeq(SubSeq(c, 1, n), c)
    BY <1>1, SubEnds
  <2>2. n \in 0 .. n /\ SubSeq(c, 1, n) = c
    BY <2>1 DEF SameSeq
  <2>3. f[n] = Created(SubSeq(c, 1, n))
    BY <1>1, <2>2
  <2> QED BY <2>2, <2>3
<1>3. ASSUME NEW k \in 0 .. n - 1 PROVE Begins(f[k], f[k + 1])
  <2>1. k \in Nat /\ k < n /\ k \in 0 .. n /\ k + 1 \in 0 .. n
    OBVIOUS
  <2>2. PICK ks, ls : ks = SubSeq(c, 1, k) /\ ls = SubSeq(c, 1, k + 1)
    OBVIOUS
  <2>3. f[k] = Created(ks) /\ f[k + 1] = Created(ls)
    BY <1>1, <2>1, <2>2
  <2>4. ks \in Seq(BOOLEAN)
    BY <1>1, <2>1, <2>2, SubIs
  <2>5. PICK key \in BOOLEAN : SameSeq(ls, Append(ks, key))
    BY <1>1, <2>1, <2>2, SubGrows
  <2>6. ls = Append(ks, key)
    BY <2>5 DEF SameSeq
  <2>7. ColumnText(key) \in Seq(Kind) /\ Created(ks) \in Seq(Kind)
    BY <2>4, ColumnTextFacts, CreatedKind
  <2>8. PICK b \in Seq(Kind) : Created(ls) = b \o ColumnText(key) /\ (b = Created(ks) \/ b = Append(Created(ks), ","))
    <3>1. CASE ks = <<>>
      BY <2>4, <2>6, <2>7, <3>1, CreatedFacts
    <3>2. CASE ks # <<>>
      <4>1. Append(Created(ks), ",") \in Seq(Kind)
        BY <2>7, PlainComma
      <4> QED BY <2>4, <2>6, <3>2, <4>1, CreatedFacts
    <3> QED BY <3>1, <3>2
  <2>9. ASSUME NEW v \in Seq(Kind), Prefix(Created(ls), v) PROVE Prefix(Created(ks), v)
    <3>1. Prefix(b, v)
      <4>1. Prefix(b \o ColumnText(key), v)
        BY <2>8, <2>9
      <4> QED BY <2>7, <4>1, PrefixOfJoined
    <3>2. "," \in Kind
      BY DEF Kind
    <3>3. CASE b = Append(Created(ks), ",")
      BY <2>7, <3>1, <3>2, <3>3, PrefixOfAppended
    <3> QED BY <2>8, <3>1, <3>3
  <2> QED BY <2>3, <2>9 DEF Begins
<1>4. \A k \in 0 .. n : Prefix(f[k], w)
  <2> HIDE DEF f
  <2> QED BY <1>2, <1>3, AllBegin
<1> QED BY <1>1, <1>4

\* Where the next column starts, and how it goes on from there.
ColumnStart(keys) == IF keys = <<>> THEN Created(keys) ELSE Append(Created(keys), ",")
ColumnWritten(start, key) ==
  IF key THEN Append(Append(Append(Append(start, "identifier"), "type"), "primary"), "key")
  ELSE Append(Append(start, "identifier"), "type")

LEMMA ColumnStartFacts ==
  ASSUME NEW keys \in Seq(BOOLEAN), NEW key \in BOOLEAN
  PROVE  /\ ColumnStart(keys) \in Seq(Kind)
         /\ SameSeq(Created(Append(keys, key)), ColumnWritten(ColumnStart(keys), key))
<1>1. Created(keys) \in Seq(Kind)
  BY CreatedKind
<1>2. PICK b : b = ColumnStart(keys)
  OBVIOUS
<1>3. b \in Seq(Kind)
  BY <1>1, <1>2, PlainComma DEF ColumnStart
<1>4. Created(Append(keys, key)) = b \o ColumnText(key)
  BY <1>2, CreatedFacts DEF ColumnStart
<1>5. ColumnIs(b, key)
  BY <1>3, ColumnAppended
<1> QED BY <1>2, <1>3, <1>4, <1>5 DEF ColumnIs, SameSeq, ColumnWritten

LEMMA ColumnAhead ==
  ASSUME NEW c \in Seq(BOOLEAN), NEW k \in Nat, k < Len(c), NEW w \in Seq(Kind), Prefix(Created(c), w),
         NEW keys, keys = SubSeq(c, 1, k)
  PROVE  /\ keys \in Seq(BOOLEAN) /\ c[k + 1] \in BOOLEAN
         /\ SameSeq(SubSeq(c, 1, k + 1), Append(keys, c[k + 1]))
         /\ Prefix(ColumnWritten(ColumnStart(keys), c[k + 1]), w)
<1>1. PICK n \in Nat : n = Len(c)
  BY LenProperties
<1>2. k \in 0 .. n /\ k + 1 \in 0 .. n
  BY <1>1
<1>3. keys \in Seq(BOOLEAN)
  BY <1>1, <1>2, SubIs
<1>4. PICK key : key = c[k + 1]
  OBVIOUS
<1>5. key \in BOOLEAN /\ SameSeq(SubSeq(c, 1, k + 1), Append(keys, key))
  BY <1>4, SubGrows
<1>6. Prefix(Created(SubSeq(c, 1, k + 1)), w)
  BY <1>1, <1>2, CreatedBegins
<1>7. Created(SubSeq(c, 1, k + 1)) = ColumnWritten(ColumnStart(keys), key)
  BY <1>3, <1>5, ColumnStartFacts DEF SameSeq
<1> QED BY <1>3, <1>4, <1>5, <1>6, <1>7

LEMMA AfterColumn ==
  ASSUME NEW c \in Seq(BOOLEAN), NEW k \in 0 .. Len(c), NEW w \in Seq(Kind),
         SameSeq(w, Append(Created(c), ")")), NEW keys, keys = SubSeq(c, 1, k)
  PROVE  /\ keys \in Seq(BOOLEAN)
         /\ k = Len(c) => keys = c /\ Prefix(Append(Created(keys), ")"), w)
         /\ k # 0 /\ k < Len(c) => Prefix(Append(Created(keys), ","), w)
<1>1. PICK n \in Nat : n = Len(c)
  BY LenProperties
<1>2. keys \in Seq(BOOLEAN) /\ Len(keys) = k
  BY <1>1, SubIs
<1>3. w = Append(Created(c), ")") /\ ")" \in Kind /\ "," \in Kind /\ Created(c) \in Seq(Kind)
  BY CreatedKind DEF SameSeq, Kind
<1>4. Prefix(w, w)
  BY PrefixOfItself
<1>5. Prefix(Created(c), w)
  <2>1. Prefix(Append(Created(c), ")"), w)
    BY <1>3, <1>4
  <2> QED BY <1>3, <2>1, PrefixOfAppended
<1>6. ASSUME k = n PROVE keys = c /\ Prefix(Append(Created(keys), ")"), w)
  <2>1. keys = c
    BY <1>1, <1>6, SubEnds DEF SameSeq
  <2>2. Prefix(Append(Created(keys), ")"), w)
    BY <1>3, <1>4, <2>1
  <2> QED BY <2>1, <2>2
<1>7. ASSUME k # 0, k < n PROVE Prefix(Append(Created(keys), ","), w)
  <2>1. keys # <<>>
    BY <1>2, <1>7
  <2>2. PICK key \in BOOLEAN : Prefix(ColumnWritten(ColumnStart(keys), key), w)
    <3>1. k \in Nat /\ k < Len(c)
      BY <1>1, <1>7
    <3> QED BY <1>5, <3>1, ColumnAhead
  <2>3. ColumnStart(keys) \in Seq(Kind)
    BY <1>2, <2>2, ColumnStartFacts
  <2>4. PICK b : b = ColumnStart(keys)
    OBVIOUS
  <2>5. Prefix(ColumnWritten(b, key), w) /\ b \in Seq(Kind)
    BY <2>2, <2>3, <2>4
  <2>6. Prefix(b, w)
    <3>1. ColumnIs(b, key)
      BY <2>5, ColumnAppended
    <3>2. ColumnWritten(b, key) = b \o ColumnText(key)
      BY <3>1 DEF ColumnIs, SameSeq, ColumnWritten
    <3>3. Prefix(b \o ColumnText(key), w)
      BY <2>5, <3>2
    <3> QED BY <2>5, <3>3, ColumnTextFacts, PrefixOfJoined
  <2>7. b = Append(Created(keys), ",")
    BY <2>1, <2>4 DEF ColumnStart
  <2> QED BY <2>6, <2>7
<1> QED BY <1>1, <1>2, <1>6, <1>7

LEMMA AskedKind ==
  ASSUME NEW n \in Nat
  PROVE  Asked(n) \in Seq(Kind)
BY AskedFacts

LEMMA AskedBegins ==
  ASSUME NEW n \in Nat, NEW w \in Seq(Kind), Prefix(Asked(n), w), n # 0
  PROVE  \A k \in 1 .. n : Prefix(Asked(k), w)
<1> DEFINE f == [k \in 0 .. n |-> Asked(IF k = 0 THEN 1 ELSE k)]
<1>1. Prefix(f[n], w)
  BY n \in 0 .. n
<1>2. ASSUME NEW k \in 0 .. n - 1 PROVE Begins(f[k], f[k + 1])
  <2>1. k \in Nat /\ k \in 0 .. n /\ k + 1 \in 0 .. n /\ k + 1 # 0
    OBVIOUS
  <2>2. f[k + 1] = Asked(k + 1) /\ f[k] = Asked(IF k = 0 THEN 1 ELSE k)
    BY <2>1
  <2>3. CASE k = 0
    <3>1. f[k] = f[k + 1]
      BY <2>2, <2>3
    <3> QED BY <3>1 DEF Begins
  <2>4. CASE k # 0
    <3>1. PICK b : b = Asked(k)
      OBVIOUS
    <3>2. b \in Seq(Kind) /\ "," \in Kind /\ "identifier" \in Kind
      BY <2>1, <3>1, AskedKind DEF Kind
    <3>3. f[k] = b /\ f[k + 1] = Append(Append(b, ","), "identifier")
      BY <2>1, <2>2, <2>4, <3>1, AskedFacts
    <3>4. Append(b, ",") \in Seq(Kind)
      BY <3>2, PlainComma
    <3>5. ASSUME NEW v \in Seq(Kind), Prefix(Append(Append(b, ","), "identifier"), v) PROVE Prefix(b, v)
      <4>1. Prefix(Append(b, ","), v)
        BY <3>2, <3>4, <3>5, PrefixOfAppended
      <4> QED BY <3>2, <4>1, PrefixOfAppended
    <3> QED BY <3>3, <3>5 DEF Begins
  <2> QED BY <2>3, <2>4
<1>3. \A k \in 0 .. n : Prefix(f[k], w)
  <2> HIDE DEF f
  <2> QED BY <1>1, <1>2, AllBegin
<1>4. ASSUME NEW k \in 1 .. n PROVE Prefix(Asked(k), w)
  <2>1. k \in 0 .. n /\ k # 0
    OBVIOUS
  <2> QED BY <1>3, <2>1
<1> QED BY <1>4

LEMMA AskedAhead ==
  ASSUME NEW n \in Nat, NEW w \in Seq(Kind),
         SameSeq(w, Append(Append(Asked(n), "from"), "identifier"))
  PROVE  /\ Prefix(Append(Append(Asked(n), "from"), "identifier"), w)
         /\ Prefix(Append(<<"select">>, IF n = 0 THEN "*" ELSE "identifier"), w)
         /\ \A k \in 1 .. n : k < n => Prefix(Append(Append(Asked(k), ","), "identifier"), w)
<1>1. Asked(n) \in Seq(Kind) /\ "from" \in Kind /\ "identifier" \in Kind /\ "select" \in Kind /\ "*" \in Kind
  BY AskedKind DEF Kind
<1>2. Append(Asked(n), "from") \in Seq(Kind)
  BY <1>1, AppendProperties
<1>3. Prefix(Append(Append(Asked(n), "from"), "identifier"), w)
  BY PrefixOfItself DEF SameSeq
<1>4. Prefix(Append(Asked(n), "from"), w)
  BY <1>1, <1>2, <1>3, PrefixOfAppended
<1>5. Prefix(Asked(n), w)
  BY <1>1, <1>4, PrefixOfAppended
<1>6. Prefix(Append(<<"select">>, IF n = 0 THEN "*" ELSE "identifier"), w)
  <2>1. CASE n = 0
    <3>1. Asked(n) = Append(<<"select">>, "*")
      BY <1>1, <2>1, AskedFacts, Pairs DEF SameSeq
    <3> QED BY <1>5, <2>1, <3>1
  <2>2. CASE n # 0
    <3>1. 1 \in Nat /\ 1 \in 1 .. n
      BY <2>2
    <3>2. Asked(1) = Append(<<"select">>, "identifier")
      BY <1>1, <3>1, AskedFacts, Pairs DEF SameSeq
    <3>3. Prefix(Asked(1), w)
      BY <1>5, <2>2, <3>1, AskedBegins
    <3> QED BY <2>2, <3>2, <3>3
  <2> QED BY <2>1, <2>2
<1>7. ASSUME NEW k \in 1 .. n, k < n PROVE Prefix(Append(Append(Asked(k), ","), "identifier"), w)
  <2>1. k \in Nat /\ k # 0 /\ k + 1 \in 1 .. n /\ n # 0
    BY <1>7
  <2>2. Asked(k + 1) = Append(Append(Asked(k), ","), "identifier")
    BY <2>1, AskedFacts
  <2>3. Prefix(Asked(k + 1), w)
    BY <1>5, <2>1, AskedBegins
  <2> QED BY <2>2, <2>3
<1> QED BY <1>3, <1>6, <1>7

LEMMA ValuesKind ==
  ASSUME NEW ns \in Seq(Nat)
  PROVE  Values(ns) \in Seq(Kind) /\ Begun(ns) \in Seq(Kind)
<1>1. 0 \in Nat
  OBVIOUS
<1> QED BY <1>1, ValuesFacts

\* Where the next row of values starts, and the next value of a row.
RowStart(ns) == IF ns = <<>> THEN Values(ns) ELSE Append(Values(ns), ",")
LiteralStart(ns, n) == IF n = 0 THEN Given(ns, n) ELSE Append(Given(ns, n), ",")

LEMMA StartFacts ==
  ASSUME NEW ns \in Seq(Nat), NEW n \in Nat
  PROVE  /\ RowStart(ns) \in Seq(Kind) /\ LiteralStart(ns, n) \in Seq(Kind)
         /\ Given(ns, 0) = Append(RowStart(ns), "(")
         /\ Given(ns, n + 1) = Append(LiteralStart(ns, n), "literal")
<1>1. Values(ns) \in Seq(Kind) /\ Given(ns, n) \in Seq(Kind)
  BY ValuesFacts
<1>2. RowStart(ns) \in Seq(Kind)
  BY <1>1, PlainComma DEF RowStart
<1>3. LiteralStart(ns, n) \in Seq(Kind)
  BY <1>1, PlainComma DEF LiteralStart
<1>4. Given(ns, 0) = Append(RowStart(ns), "(")
  BY GivenFacts DEF Begun, RowStart
<1>5. Given(ns, n + 1) = Append(LiteralStart(ns, n), "literal")
  <2>1. CASE n = 0
    <3>1. Given(ns, 1) = Append(Begun(ns), "literal") /\ Given(ns, 0) = Begun(ns)
      BY GivenFacts
    <3>2. n + 1 = 1
      BY <2>1
    <3> QED BY <2>1, <3>1, <3>2 DEF LiteralStart
  <2>2. CASE n # 0
    BY <2>2, GivenFacts DEF LiteralStart
  <2> QED BY <2>1, <2>2
<1> QED BY <1>2, <1>3, <1>4, <1>5

LEMMA GivenBegins ==
  ASSUME NEW ns \in Seq(Nat), NEW n \in Nat, NEW w \in Seq(Kind), Prefix(Given(ns, n), w)
  PROVE  \A k \in 0 .. n : Prefix(Given(ns, k), w)
<1> DEFINE f == [k \in 0 .. n |-> Given(ns, k)]
<1>1. Prefix(f[n], w)
  BY n \in 0 .. n
<1>2. ASSUME NEW k \in 0 .. n - 1 PROVE Begins(f[k], f[k + 1])
  <2>1. k \in Nat /\ k \in 0 .. n /\ k + 1 \in 0 .. n
    OBVIOUS
  <2>2. PICK b, c : b = Given(ns, k) /\ c = LiteralStart(ns, k)
    OBVIOUS
  <2>3. b \in Seq(Kind) /\ "," \in Kind /\ "literal" \in Kind
    BY <2>1, <2>2, ValuesFacts DEF Kind
  <2>4. c \in Seq(Kind) /\ Given(ns, k + 1) = Append(c, "literal")
    BY <2>1, <2>2, StartFacts
  <2>5. c = b \/ c = Append(b, ",")
    BY <2>2 DEF LiteralStart
  <2>6. ASSUME NEW v \in Seq(Kind), Prefix(Append(c, "literal"), v) PROVE Prefix(b, v)
    <3>1. Prefix(c, v)
      BY <2>3, <2>4, <2>6, PrefixOfAppended
    <3>2. CASE c = Append(b, ",")
      <4>1. Prefix(Append(b, ","), v)
        BY <3>1, <3>2
      <4> QED BY <2>3, <4>1, PrefixOfAppended
    <3> QED BY <2>5, <3>1, <3>2
  <2>7. f[k] = b /\ f[k + 1] = Append(c, "literal")
    BY <2>1, <2>2, <2>4
  <2> QED BY <2>6, <2>7 DEF Begins
<1>3. \A k \in 0 .. n : Prefix(f[k], w)
  <2> HIDE DEF f
  <2> QED BY <1>1, <1>2, AllBegin
<1>4. ASSUME NEW k \in 0 .. n PROVE Prefix(Given(ns, k), w)
  BY <1>3
<1> QED BY <1>4

LEMMA RowBegins ==
  ASSUME NEW ns \in Seq(Nat), NEW m \in Nat, NEW w \in Seq(Kind), Prefix(Values(Append(ns, m)), w)
  PROVE  /\ Prefix(Append(Given(ns, m), ")"), w)
         /\ Prefix(Append(RowStart(ns), "("), w)
         /\ Prefix(Values(ns), w)
<1>1. Values(Append(ns, m)) = Append(Given(ns, m), ")")
  BY ValuesFacts
<1>2. Given(ns, m) \in Seq(Kind) /\ Values(ns) \in Seq(Kind)
  BY ValuesFacts
<1>3. ")" \in Kind /\ "(" \in Kind /\ "," \in Kind
  BY DEF Kind
<1>4. Prefix(Append(Given(ns, m), ")"), w)
  BY <1>1
<1>5. Prefix(Given(ns, m), w)
  BY <1>2, <1>3, <1>4, PrefixOfAppended
<1>6. Prefix(Given(ns, 0), w)
  <2>1. 0 \in 0 .. m
    OBVIOUS
  <2> QED BY <1>5, <2>1, GivenBegins
<1>7. RowStart(ns) \in Seq(Kind) /\ Given(ns, 0) = Append(RowStart(ns), "(")
  <2>1. 0 \in Nat
    OBVIOUS
  <2> QED BY <2>1, StartFacts
<1>8. Prefix(Append(RowStart(ns), "("), w)
  BY <1>6, <1>7
<1>9. Prefix(RowStart(ns), w)
  BY <1>3, <1>7, <1>8, PrefixOfAppended
<1>10. Prefix(Values(ns), w)
  <2>1. CASE ns = <<>>
    BY <1>9, <2>1 DEF RowStart
  <2>2. CASE ns # <<>>
    <3>1. Prefix(Append(Values(ns), ","), w)
      BY <1>9, <2>2 DEF RowStart
    <3> QED BY <1>2, <1>3, <3>1, PrefixOfAppended
  <2> QED BY <2>1, <2>2
<1> QED BY <1>4, <1>8, <1>10

LEMMA ValuesBegin ==
  ASSUME NEW c \in Seq(Nat), NEW w \in Seq(Kind), Prefix(Values(c), w)
  PROVE  \A k \in 0 .. Len(c) : Prefix(Values(SubSeq(c, 1, k)), w)
<1> DEFINE f == [k \in 0 .. Len(c) |-> Values(SubSeq(c, 1, k))]
<1>1. PICK n \in Nat : n = Len(c)
  BY LenProperties
<1>2. Prefix(f[n], w)
  <2>1. SameSeq(SubSeq(c, 1, n), c)
    BY <1>1, SubEnds
  <2>2. n \in 0 .. n /\ SubSeq(c, 1, n) = c
    BY <2>1 DEF SameSeq
  <2>3. f[n] = Values(SubSeq(c, 1, n))
    BY <1>1, <2>2
  <2> QED BY <2>2, <2>3
<1>3. ASSUME NEW k \in 0 .. n - 1 PROVE Begins(f[k], f[k + 1])
  <2>1. k \in Nat /\ k < n /\ k \in 0 .. n /\ k + 1 \in 0 .. n
    OBVIOUS
  <2>2. PICK ks, ls : ks = SubSeq(c, 1, k) /\ ls = SubSeq(c, 1, k + 1)
    OBVIOUS
  <2>3. f[k] = Values(ks) /\ f[k + 1] = Values(ls)
    BY <1>1, <2>1, <2>2
  <2>4. ks \in Seq(Nat)
    BY <1>1, <2>1, <2>2, SubIs
  <2>5. PICK m \in Nat : SameSeq(ls, Append(ks, m))
    BY <1>1, <2>1, <2>2, SubGrows
  <2>6. ASSUME NEW v \in Seq(Kind), Prefix(Values(ls), v) PROVE Prefix(Values(ks), v)
    <3>1. Prefix(Values(Append(ks, m)), v)
      BY <2>5, <2>6 DEF SameSeq
    <3> QED BY <2>4, <3>1, RowBegins
  <2> QED BY <2>3, <2>6 DEF Begins
<1>4. \A k \in 0 .. n : Prefix(f[k], w)
  <2> HIDE DEF f
  <2> QED BY <1>2, <1>3, AllBegin
<1> QED BY <1>1, <1>4

LEMMA RowAhead ==
  ASSUME NEW c \in Seq(Nat), NEW k \in Nat, k < Len(c), NEW w \in Seq(Kind), Prefix(Values(c), w),
         NEW ns, ns = SubSeq(c, 1, k)
  PROVE  /\ ns \in Seq(Nat) /\ c[k + 1] \in Nat
         /\ SameSeq(SubSeq(c, 1, k + 1), Append(ns, c[k + 1]))
         /\ Prefix(Append(RowStart(ns), "("), w)
         /\ Prefix(Append(Given(ns, c[k + 1]), ")"), w)
         /\ \A j \in 0 .. c[k + 1] : j < c[k + 1] => Prefix(Append(LiteralStart(ns, j), "literal"), w)
<1>1. PICK n \in Nat : n = Len(c)
  BY LenProperties
<1>2. k \in 0 .. n /\ k + 1 \in 0 .. n
  BY <1>1
<1>3. ns \in Seq(Nat)
  BY <1>1, <1>2, SubIs
<1>4. PICK m : m = c[k + 1]
  OBVIOUS
<1>5. m \in Nat /\ SameSeq(SubSeq(c, 1, k + 1), Append(ns, m))
  BY <1>4, SubGrows
<1>6. Prefix(Values(SubSeq(c, 1, k + 1)), w)
  BY <1>1, <1>2, ValuesBegin
<1>7. Prefix(Values(Append(ns, m)), w)
  BY <1>5, <1>6 DEF SameSeq
<1>8. Prefix(Append(RowStart(ns), "("), w) /\ Prefix(Append(Given(ns, m), ")"), w)
  BY <1>3, <1>5, <1>7, RowBegins
<1>9. Prefix(Given(ns, m), w)
  <2>1. Given(ns, m) \in Seq(Kind) /\ ")" \in Kind
    BY <1>3, <1>5, ValuesFacts DEF Kind
  <2> QED BY <1>8, <2>1, PrefixOfAppended
<1>10. ASSUME NEW j \in 0 .. m, j < m PROVE Prefix(Append(LiteralStart(ns, j), "literal"), w)
  <2>1. j \in Nat /\ j + 1 \in 0 .. m
    BY <1>5, <1>10
  <2>2. Prefix(Given(ns, j + 1), w)
    BY <1>3, <1>5, <1>9, <2>1, GivenBegins
  <2>3. Given(ns, j + 1) = Append(LiteralStart(ns, j), "literal")
    BY <1>3, <2>1, StartFacts
  <2> QED BY <2>2, <2>3
<1> QED BY <1>3, <1>4, <1>5, <1>8, <1>10

LEMMA AfterRow ==
  ASSUME NEW c \in Seq(Nat), NEW k \in 0 .. Len(c), NEW w \in Seq(Kind),
         SameSeq(w, Values(c)), NEW ns, ns = SubSeq(c, 1, k)
  PROVE  /\ ns \in Seq(Nat) /\ Prefix(Values(c), w)
         /\ k = Len(c) => ns = c
         /\ k # 0 /\ k < Len(c) => Prefix(Append(Values(ns), ","), w)
<1>1. PICK n \in Nat : n = Len(c)
  BY LenProperties
<1>2. ns \in Seq(Nat) /\ Len(ns) = k
  BY <1>1, SubIs
<1>3. Prefix(Values(c), w)
  BY PrefixOfItself DEF SameSeq
<1>4. ASSUME k = n PROVE ns = c
  BY <1>1, <1>4, SubEnds DEF SameSeq
<1>5. ASSUME k # 0, k < n PROVE Prefix(Append(Values(ns), ","), w)
  <2>1. ns # <<>>
    BY <1>2, <1>5
  <2>2. Prefix(Append(RowStart(ns), "("), w)
    <3>1. k \in Nat /\ k < Len(c)
      BY <1>1, <1>5
    <3> QED BY <1>3, <3>1, RowAhead
  <2>3. RowStart(ns) = Append(Values(ns), ",")
    BY <2>1 DEF RowStart
  <2>4. Append(Values(ns), ",") \in Seq(Kind) /\ "(" \in Kind
    BY <1>2, ValuesKind, PlainComma DEF Kind
  <2> QED BY <2>2, <2>3, <2>4, PrefixOfAppended
<1> QED BY <1>1, <1>2, <1>3, <1>4, <1>5

\* The first tokens, one by one.
LEMMA HeadOfOne ==
  ASSUME NEW a \in Kind, NEW w \in Seq(Kind), Prefix(<<a>>, w)
  PROVE  Prefix(Append(<<>>, a), w)
<1>1. <<a>> = Append(<<>>, a)
  OBVIOUS
<1> QED BY <1>1

LEMMA HeadOfTwo ==
  ASSUME NEW a \in Kind, NEW b \in Kind, NEW w \in Seq(Kind), Prefix(<<a, b>>, w)
  PROVE  Prefix(<<a>>, w) /\ Prefix(Append(<<>>, a), w) /\ Prefix(Append(<<a>>, b), w)
<1>1. <<a, b>> = Append(<<a>>, b) /\ <<a>> \in Seq(Kind)
  OBVIOUS
<1>2. Prefix(Append(<<a>>, b), w)
  BY <1>1
<1>3. Prefix(<<a>>, w)
  BY <1>1, <1>2, PrefixOfAppended
<1> QED BY <1>2, <1>3, HeadOfOne

LEMMA HeadOfThree ==
  ASSUME NEW a \in Kind, NEW b \in Kind, NEW c \in Kind, NEW w \in Seq(Kind), Prefix(<<a, b, c>>, w)
  PROVE  Prefix(<<a, b>>, w) /\ Prefix(Append(<<a, b>>, c), w)
<1>1. <<a, b, c>> = Append(<<a, b>>, c) /\ <<a, b>> \in Seq(Kind)
  OBVIOUS
<1>2. Prefix(Append(<<a, b>>, c), w)
  BY <1>1
<1>3. Prefix(<<a, b>>, w)
  BY <1>1, <1>2, PrefixOfAppended
<1> QED BY <1>2, <1>3

LEMMA HeadOfFour ==
  ASSUME NEW a \in Kind, NEW b \in Kind, NEW c \in Kind, NEW d \in Kind, NEW w \in Seq(Kind),
         Prefix(<<a, b, c, d>>, w)
  PROVE  Prefix(<<a, b, c>>, w) /\ Prefix(Append(<<a, b, c>>, d), w)
<1>1. <<a, b, c, d>> = Append(<<a, b, c>>, d) /\ <<a, b, c>> \in Seq(Kind)
  OBVIOUS
<1>2. Prefix(Append(<<a, b, c>>, d), w)
  BY <1>1
<1>3. Prefix(<<a, b, c>>, w)
  BY <1>1, <1>2, PrefixOfAppended
<1> QED BY <1>2, <1>3

Heads ==
  [SHOW_DATABASES |-> <<"show", "databases">>, SHOW_TABLES |-> <<"show", "tables">>,
   USE_DATABASE |-> <<"use", "identifier">>,
   DROP_DATABASE |-> <<"drop", "database", "identifier">>,
   DROP_TABLE |-> <<"drop", "table", "identifier">>,
   CREATE_DATABASE |-> <<"create", "database", "identifier">>,
   CREATE_TABLE |-> CreateStart, INSERT |-> ValuesStart, INSERT_BULK |-> ValuesStart,
   HELP |-> <<"help">>, EXIT |-> <<"exit">>]

LEMMA StatementFacts ==
  ASSUME NEW s, IsStatement(s)
  PROVE  /\ s = [type |-> s.type, named |-> s.named, columns |-> s.columns, sets |-> s.sets]
         /\ s.type \in ShortTypes \cup {"CREATE_TABLE", "SELECT", "INSERT", "INSERT_BULK"}
         /\ s.named \in BOOLEAN /\ s.columns \in Seq(BOOLEAN) /\ s.sets \in Seq(Nat)
         /\ s.named <=> s.type \notin {"SHOW_DATABASES", "SHOW_TABLES", "HELP", "EXIT"}
         /\ s.type \notin {"CREATE_TABLE", "SELECT"} => s.columns = <<>>
         /\ s.type = "SELECT" => \A i \in DOMAIN s.columns : ~s.columns[i]
         /\ s.type = "INSERT" => Len(s.sets) = 1
         /\ s.type = "INSERT_BULK" => Len(s.sets) > 1
         /\ s.type \notin {"INSERT", "INSERT_BULK"} => s.sets = <<>>
<1>1. DOMAIN Opening = ShortTypes \cup {"CREATE_TABLE", "SELECT", "INSERT", "INSERT_BULK"}
  BY DEF Opening, ShortTypes
<1>2. s \in [type : DOMAIN Opening, named : BOOLEAN, columns : Seq(BOOLEAN), sets : Seq(Nat)]
  BY DEF IsStatement
<1>3. /\ s = [type |-> s.type, named |-> s.named, columns |-> s.columns, sets |-> s.sets]
      /\ s.type \in DOMAIN Opening
      /\ s.named \in BOOLEAN /\ s.columns \in Seq(BOOLEAN) /\ s.sets \in Seq(Nat)
  BY <1>2
<1>4. /\ s.named <=> s.type \notin {"SHOW_DATABASES", "SHOW_TABLES", "HELP", "EXIT"}
      /\ s.type \notin {"CREATE_TABLE", "SELECT"} => s.columns = <<>>
      /\ s.type = "SELECT" => \A i \in DOMAIN s.columns : ~s.columns[i]
      /\ s.type = "INSERT" => Len(s.sets) = 1
      /\ s.type = "INSERT_BULK" => Len(s.sets) > 1
      /\ s.type \notin {"INSERT", "INSERT_BULK"} => s.sets = <<>>
  BY DEF IsStatement
<1> QED BY <1>1, <1>3, <1>4

LEMMA HeadBegins ==
  ASSUME NEW s, IsStatement(s), NEW w \in Seq(Kind), w = Written(s), s.type # "SELECT"
  PROVE  /\ s.type \in DOMAIN Heads /\ Prefix(Heads[s.type], w)
         /\ s.type \in {"HELP", "EXIT"} => Len(w) = 1
<1>1. s.type \in ShortTypes \cup {"CREATE_TABLE", "INSERT", "INSERT_BULK"}
  BY StatementFacts
<1>2. s.type \in DOMAIN Heads
  BY <1>1 DEF Heads, ShortTypes
<1>3. CASE s.type = "CREATE_TABLE"
  <2>1. s.columns \in Seq(BOOLEAN)
    BY StatementFacts
  <2>2. PICK c \in Seq(BOOLEAN) : c = s.columns
    BY <2>1
  <2>3. SameSeq(w, Append(Created(c), ")"))
    BY <1>3, <2>2, WrittenTable
  <2>4. Prefix(Created(c), w)
    <3>1. Created(c) \in Seq(Kind) /\ ")" \in Kind
      BY <2>2, CreatedKind DEF Kind
    <3>2. Prefix(w, w)
      BY PrefixOfItself
    <3>3. Prefix(Append(Created(c), ")"), w)
      BY <2>3, <3>2 DEF SameSeq
    <3> QED BY <3>1, <3>3, PrefixOfAppended
  <2>5. SubSeq(c, 1, 0) = <<>>
    BY SubEnds DEF SameSeq
  <2>6. 0 \in 0 .. Len(c)
    BY LenProperties
  <2>7. Prefix(Created(<<>>), w)
    <3>1. Prefix(Created(SubSeq(c, 1, 0)), w)
      BY <2>4, <2>6, CreatedBegins
    <3> QED BY <2>5, <3>1
  <2>8. Created(<<>>) = CreateStart
    <3>1. <<>> \in Seq(BOOLEAN) /\ TRUE \in BOOLEAN
      OBVIOUS
    <3> QED BY <3>1, CreatedFacts
  <2>9. Heads["CREATE_TABLE"] = CreateStart
    BY DEF Heads
  <2> QED BY <1>2, <1>3, <2>7, <2>8, <2>9
<1>4. CASE s.type \in {"INSERT", "INSERT_BULK"}
  <2>1. s.sets \in Seq(Nat)
    BY StatementFacts
  <2>2. PICK c \in Seq(Nat) : c = s.sets
    BY <2>1
  <2>3. SameSeq(w, Values(c))
    BY <1>4, <2>2, WrittenInsert
  <2>4. Prefix(Values(c), w)
    <3>1. Prefix(w, w)
      BY PrefixOfItself
    <3> QED BY <2>3, <3>1 DEF SameSeq
  <2>5. SubSeq(c, 1, 0) = <<>>
    BY SubEnds DEF SameSeq
  <2>6. 0 \in 0 .. Len(c)
    BY LenProperties
  <2>7. Prefix(Values(<<>>), w)
    <3>1. Prefix(Values(SubSeq(c, 1, 0)), w)
      BY <2>4, <2>6, ValuesBegin
    <3> QED BY <2>5, <3>1
  <2>8. Values(<<>>) = ValuesStart
    <3>1. <<>> \in Seq(Nat) /\ 0 \in Nat
      OBVIOUS
    <3> QED BY <3>1, ValuesFacts
  <2>9. Heads["INSERT"] = ValuesStart /\ Heads["INSERT_BULK"] = ValuesStart
    BY DEF Heads
  <2> QED BY <1>2, <1>4, <2>7, <2>8, <2>9
<1>5. CASE s.type \in ShortTypes
  <2>1. s.named \in BOOLEAN /\ s.type \in DOMAIN Opening
    BY StatementFacts DEF IsStatement
  <2>2. s.type \notin {"SELECT", "CREATE_TABLE", "INSERT", "INSERT_BULK"}
    BY <1>5 DEF ShortTypes
  <2>3. w = IF s.named THEN Append(Opening[s.type], "identifier") ELSE Opening[s.type]
    BY <2>1, <2>2, WrittenShort DEF SameSeq
  <2>4. s.named <=> s.type \notin {"SHOW_DATABASES", "SHOW_TABLES", "HELP", "EXIT"}
    BY StatementFacts
  <2>5. PICK t : t = s.type
    OBVIOUS
  <2>6. w = Heads[t]
    <3>1. CASE t \in {"SHOW_DATABASES", "SHOW_TABLES", "HELP", "EXIT"}
      <4>1. w = Opening[t]
        BY <2>3, <2>4, <2>5, <3>1
      <4>2. Opening[t] = Heads[t]
        <5>1. /\ Opening["SHOW_DATABASES"] = <<"show", "databases">> /\ Opening["SHOW_TABLES"] = <<"show", "tables">>
              /\ Opening["HELP"] = <<"help">> /\ Opening["EXIT"] = <<"exit">>
          BY DEF Opening
        <5>2. /\ Heads["SHOW_DATABASES"] = <<"show", "databases">> /\ Heads["SHOW_TABLES"] = <<"show", "tables">>
              /\ Heads["HELP"] = <<"help">> /\ Heads["EXIT"] = <<"exit">>
          BY DEF Heads
        <5> QED BY <3>1, <5>1, <5>2
      <4> QED BY <4>1, <4>2
    <3>2. CASE t \in {"USE_DATABASE", "DROP_DATABASE", "DROP_TABLE", "CREATE_DATABASE"}
      <4>1. w = Append(Opening[t], "identifier")
        BY <2>3, <2>4, <2>5, <3>2
      <4>2. "use" \in Kind /\ "drop" \in Kind /\ "create" \in Kind /\ "database" \in Kind /\ "table" \in Kind /\ "identifier" \in Kind
        BY DEF Kind
      <4>3. /\ Append(<<"use">>, "identifier") = <<"use", "identifier">>
            /\ Append(<<"drop", "database">>, "identifier") = <<"drop", "database", "identifier">>
            /\ Append(<<"drop", "table">>, "identifier") = <<"drop", "table", "identifier">>
            /\ Append(<<"create", "database">>, "identifier") = <<"create", "database", "identifier">>
        <5>1. Append(<<"use">>, "identifier") = <<"use", "identifier">>
          BY <4>2, Pairs DEF SameSeq
        <5>2. Append(<<"drop", "database">>, "identifier") = <<"drop", "database", "identifier">>
          BY <4>2, AppendsThird
        <5>3. Append(<<"drop", "table">>, "identifier") = <<"drop", "table", "identifier">>
          BY <4>2, AppendsThird
        <5>4. Append(<<"create", "database">>, "identifier") = <<"create", "database", "identifier">>
          BY <4>2, AppendsThird
        <5> QED BY <5>1, <5>2, <5>3, <5>4
      <4>4. /\ Opening["USE_DATABASE"] = <<"use">> /\ Opening["DROP_DATABASE"] = <<"drop", "database">>
            /\ Opening["DROP_TABLE"] = <<"drop", "table">> /\ Opening["CREATE_DATABASE"] = <<"create", "database">>
        BY DEF Opening
      <4>5. Append(Opening[t], "identifier") = Heads[t]
        <5>1. /\ Heads["USE_DATABASE"] = <<"use", "identifier">>
              /\ Heads["DROP_DATABASE"] = <<"drop", "database", "identifier">>
              /\ Heads["DROP_TABLE"] = <<"drop", "table", "identifier">>
              /\ Heads["CREATE_DATABASE"] = <<"create", "database", "identifier">>
          BY DEF Heads
        <5> QED BY <3>2, <4>3, <4>4, <5>1
      <4> QED BY <4>1, <4>5
    <3> QED BY <1>5, <2>5, <3>1, <3>2 DEF ShortTypes
  <2>7. t \in {"HELP", "EXIT"} => Len(w) = 1
    BY <2>6 DEF Heads
  <2> QED BY <1>2, <2>5, <2>6, <2>7, PrefixOfItself
<1> QED BY <1>1, <1>3, <1>4, <1>5

-----------------------------------------------------------------------------
(* Of a text that is a statement of the grammar, every rule finds what the *)
(* statement has there.                                                    *)

\* Which statements a rule without a tree may be reading.
TypesAt ==
  [first |-> DOMAIN Opening,
   show |-> {"SHOW_DATABASES", "SHOW_TABLES"}, use |-> {"USE_DATABASE"},
   drop |-> {"DROP_DATABASE", "DROP_TABLE"}, create |-> {"CREATE_DATABASE", "CREATE_TABLE"},
   select |-> {"SELECT"}, insert |-> {"INSERT", "INSERT_BULK"}, help |-> {"HELP"}, exit |-> {"EXIT"},
   dropDatabase |-> {"DROP_DATABASE"}, dropTable |-> {"DROP_TABLE"},
   createDatabase |-> {"CREATE_DATABASE"}, createTable |-> {"CREATE_TABLE"},
   into |-> {"INSERT", "INSERT_BULK"}]

ColumnRule == {"columns", "separator", "type", "constraint", "key"}
TableHas(s, tree) ==
  /\ s.type = "CREATE_TABLE" /\ TableTree(tree)
  /\ Len(tree.columns) <= Len(s.columns)
  /\ Keys(tree.columns) = SubSeq(s.columns, 1, Len(tree.columns))
TableFollows(s, a, n, tree) ==
  LET k == Len(tree.columns)
      said == Created(Keys(tree.columns))
      start == ColumnStart(Keys(tree.columns))
  IN  /\ a = "createParen" =>
           /\ s.type = "CREATE_TABLE" /\ TableTree(tree) /\ tree.columns = <<>>
           /\ Past(<<"create", "table", "identifier">>, n)
      /\ a \in ColumnRule => TableHas(s, tree)
      /\ a = "columns" => Past(IF k < Len(s.columns) THEN start ELSE said, n)
      /\ a = "separator" => k # 0 /\ Past(said, n)
      /\ a \in {"type", "constraint", "key"} => k < Len(s.columns)
      /\ a = "type" => Past(Append(start, "identifier"), n)
      /\ a = "constraint" => Past(Append(Append(start, "identifier"), "type"), n)
      /\ a = "key" =>
           s.columns[k + 1] /\ Past(Append(Append(Append(start, "identifier"), "type"), "primary"), n)

SelectFollows(s, a, n, tree) ==
  LET k == Len(tree.columns)
  IN  /\ a \in {"nextColumn", "column", "from", "fromTable"} =>
           s.type = "SELECT" /\ SelectTree(tree) /\ k <= Len(s.columns)
      /\ a = "nextColumn" => k # 0 /\ Past(Asked(k), n)
      /\ a = "column" => k # 0 /\ k < Len(s.columns) /\ Past(Append(Asked(k), ","), n)
      /\ a = "from" => k = Len(s.columns) /\ Past(Asked(k), n)
      /\ a = "fromTable" => k = Len(s.columns) /\ Past(Append(Asked(k), "from"), n)

InsertHas(s, rows) ==
  /\ s.type \in {"INSERT", "INSERT_BULK"}
  /\ rows \in Seq(Seq(Nat)) /\ Len(rows) <= Len(s.sets)
  /\ Lengths(rows) = SubSeq(s.sets, 1, Len(rows))
InsertFollows(s, a, n, tree) ==
  /\ a = "values" =>
       /\ s.type \in {"INSERT", "INSERT_BULK"} /\ InsertTree(tree) /\ tree.sets = <<>>
       /\ Past(<<"insert", "into", "identifier">>, n)
  /\ a \in {"set", "nextSet"} => InsertTree(tree) /\ InsertHas(s, tree.sets)
  /\ a = "set" => Len(tree.sets) < Len(s.sets) /\ Past(RowStart(Lengths(tree.sets)), n)
  /\ a = "nextSet" => Len(tree.sets) # 0 /\ Past(Values(Lengths(tree.sets)), n)
  /\ a \in {"literals", "literalComma"} =>
       /\ InsertTree(tree)
       /\ \E rows \in Seq(Seq(Nat)), row \in Seq(Nat) :
            /\ tree.sets = Append(rows, row)
            /\ InsertHas(s, rows) /\ Len(rows) < Len(s.sets) /\ Len(row) <= s.sets[Len(rows) + 1]
            /\ a = "literals" =>
                 Past(IF Len(row) < s.sets[Len(rows) + 1] THEN LiteralStart(Lengths(rows), Len(row))
                        ELSE Given(Lengths(rows), Len(row)), n)
            /\ a = "literalComma" => Len(row) # 0 /\ Past(Given(Lengths(rows), Len(row)), n)

Follows(s, a, n, tree) ==
  /\ a # "refused"
  /\ a \in DOMAIN Beginning => s.type \in TypesAt[a] /\ Past(Beginning[a], n)
  /\ a = "end" => s.type \in {"HELP", "EXIT"} /\ tree = Tree(s.type) /\ n = 2
  /\ TableFollows(s, a, n, tree)
  /\ SelectFollows(s, a, n, tree)
  /\ InsertFollows(s, a, n, tree)
  /\ a = "returned" => Shape(tree) = s

ReadsAs(s) ==
  /\ Reading
  /\ IsStatement(s) /\ Kinds = Written(s)
  /\ Follows(s, at, current_token, ast)
StepFollows(s) == Follows(s, at', current_token', ast')

\* What the current token is, behind p.
Sees(p, t) ==
  /\ ~IsAtEnd /\ tokens[current_token].type = t
  /\ \A type : Check(type) <=> type = t
  /\ Past(Append(p, t), current_token + 1)

LEMMA SeesIs ==
  ASSUME Reading, NEW p, Past(p, current_token), NEW t \in Kind, Prefix(Append(p, t), Kinds)
  PROVE  Sees(p, t)
<1>1. Kinds \in Seq(Kind) /\ Len(Kinds) = Len(tokens) /\ Len(tokens) \in Nat
  BY DEF Reading
<1>2. current_token \in 1 .. Len(Kinds) /\ Kinds[current_token] = t /\ Past(Append(p, t), current_token + 1)
  BY <1>1, Meets
<1>3. ~IsAtEnd
  BY <1>1, <1>2 DEF IsAtEnd
<1>4. tokens[current_token].type = t
  BY <1>1, <1>2 DEF Reading
<1>5. \A type : Check(type) <=> type = t
  BY <1>3, <1>4 DEF Check
<1> QED BY <1>2, <1>3, <1>4, <1>5 DEF Sees

LEMMA FollowsBeginning ==
  ASSUME NEW s, NEW a \in DOMAIN Beginning, NEW n, NEW tree, s.type \in TypesAt[a], Past(Beginning[a], n)
  PROVE  Follows(s, a, n, tree)
BY DEF Follows, Beginning, TableFollows, SelectFollows, InsertFollows, ColumnRule

LEMMA FollowsReturned ==
  ASSUME NEW s, NEW n, NEW tree, Shape(tree) = s
  PROVE  Follows(s, "returned", n, tree)
BY DEF Follows, Beginning, TableFollows, SelectFollows, InsertFollows, ColumnRule

LEMMA FollowsTable ==
  ASSUME NEW s, NEW a \in ColumnRule \cup {"createParen"}, NEW n, NEW tree, TableFollows(s, a, n, tree)
  PROVE  Follows(s, a, n, tree)
BY DEF Follows, Beginning, SelectFollows, InsertFollows, ColumnRule

LEMMA FollowsSelect ==
  ASSUME NEW s, NEW a \in {"nextColumn", "column", "from", "fromTable"}, NEW n, NEW tree,
         SelectFollows(s, a, n, tree)
  PROVE  Follows(s, a, n, tree)
BY DEF Follows, Beginning, TableFollows, InsertFollows, ColumnRule

LEMMA FollowsInsert ==
  ASSUME NEW s, NEW a \in {"values", "set", "nextSet", "literals", "literalComma"}, NEW n, NEW tree,
         InsertFollows(s, a, n, tree)
  PROVE  Follows(s, a, n, tree)
BY DEF Follows, Beginning, TableFollows, SelectFollows, ColumnRule

\* What comes after the beginning.
NextAt(s, a) ==
  CASE a = "first" -> Opening[s.type][1]
    [] a = "show" -> IF s.type = "SHOW_DATABASES" THEN "databases" ELSE "tables"
    [] a \in {"drop", "create"} -> IF s.type \in {"DROP_TABLE", "CREATE_TABLE"} THEN "table" ELSE "database"
    [] a = "select" -> IF s.columns = <<>> THEN "*" ELSE "identifier"
    [] a = "insert" -> "into"
    [] OTHER -> "identifier"

LEMMA SelectBegins ==
  ASSUME NEW s, IsStatement(s), NEW w \in Seq(Kind), w = Written(s), s.type = "SELECT"
  PROVE  /\ Prefix(Append(<<>>, "select"), w)
         /\ Prefix(Append(<<"select">>, IF s.columns = <<>> THEN "*" ELSE "identifier"), w)
<1>1. s.columns \in Seq(BOOLEAN)
  BY StatementFacts
<1>2. PICK n \in Nat : n = Len(s.columns) /\ (n = 0 <=> s.columns = <<>>)
  BY <1>1, LenProperties, EmptySeq
<1>3. SameSeq(w, Append(Append(Asked(n), "from"), "identifier"))
  BY <1>1, <1>2, WrittenSelect
<1>4. Prefix(Append(<<"select">>, IF n = 0 THEN "*" ELSE "identifier"), w)
  BY <1>3, AskedAhead
<1>5. Prefix(<<"select">>, w)
  <2>1. "select" \in Kind /\ "*" \in Kind /\ "identifier" \in Kind
    BY DEF Kind
  <2>2. <<"select">> \in Seq(Kind)
    BY <2>1
  <2> QED BY <1>4, <2>1, <2>2, PrefixOfAppended
<1>6. Prefix(Append(<<>>, "select"), w)
  BY <1>5, HeadOfOne DEF Kind
<1> QED BY <1>2, <1>4, <1>6

LEMMA BeginningGoesOn ==
  ASSUME NEW s, IsStatement(s), NEW w \in Seq(Kind), w = Written(s),
         NEW a \in DOMAIN Beginning \ {"help", "exit"}, s.type \in TypesAt[a]
  PROVE  NextAt(s, a) \in Kind /\ Prefix(Append(Beginning[a], NextAt(s, a)), w)
<1>1. s.type \in ShortTypes \cup {"CREATE_TABLE", "SELECT", "INSERT", "INSERT_BULK"}
  BY StatementFacts
<1>2. s.type # "SELECT" => Prefix(Heads[s.type], w)
  BY HeadBegins
<1>3. /\ "show" \in Kind /\ "use" \in Kind /\ "drop" \in Kind /\ "create" \in Kind /\ "insert" \in Kind
      /\ "help" \in Kind /\ "exit" \in Kind /\ "databases" \in Kind /\ "tables" \in Kind /\ "database" \in Kind
      /\ "table" \in Kind /\ "into" \in Kind /\ "values" \in Kind /\ "identifier" \in Kind /\ "(" \in Kind
      /\ "select" \in Kind /\ "*" \in Kind
  BY DEF Kind
<1>4. CASE s.type = "SHOW_DATABASES"
  <2>1. Prefix(<<"show", "databases">>, w)
    <3>1. Heads["SHOW_DATABASES"] = <<"show", "databases">>
      BY DEF Heads, CreateStart, ValuesStart
    <3> QED BY <1>2, <1>4, <3>1
  <2>2. Prefix(<<"show">>, w) /\ Prefix(Append(<<"show">>, "databases"), w)
    BY <1>3, <2>1, HeadOfTwo
  <2>3. Prefix(Append(<<>>, "show"), w)
    BY <1>3, <2>2, HeadOfOne
  <2>4. a \in {"first", "show"}
    BY <1>4 DEF TypesAt, Beginning
  <2>5. CASE a = "first"
    <3>1. Beginning[a] = <<>>
      BY <2>5 DEF Beginning
    <3>2. NextAt(s, a) = "show"
      BY <1>4, <2>5 DEF NextAt, Opening
    <3> QED BY <1>3, <2>3, <3>1, <3>2
  <2>6. CASE a = "show"
    <3>1. Beginning[a] = <<"show">>
      BY <2>6 DEF Beginning
    <3>2. NextAt(s, a) = "databases"
      BY <1>4, <2>6 DEF NextAt
    <3> QED BY <1>3, <2>2, <3>1, <3>2
  <2> QED BY <2>4, <2>5, <2>6
<1>5. CASE s.type = "SHOW_TABLES"
  <2>1. Prefix(<<"show", "tables">>, w)
    <3>1. Heads["SHOW_TABLES"] = <<"show", "tables">>
      BY DEF Heads, CreateStart, ValuesStart
    <3> QED BY <1>2, <1>5, <3>1
  <2>2. Prefix(<<"show">>, w) /\ Prefix(Append(<<"show">>, "tables"), w)
    BY <1>3, <2>1, HeadOfTwo
  <2>3. Prefix(Append(<<>>, "show"), w)
    BY <1>3, <2>2, HeadOfOne
  <2>4. a \in {"first", "show"}
    BY <1>5 DEF TypesAt, Beginning
  <2>5. CASE a = "first"
    <3>1. Beginning[a] = <<>>
      BY <2>5 DEF Beginning
    <3>2. NextAt(s, a) = "show"
      BY <1>5, <2>5 DEF NextAt, Opening
    <3> QED BY <1>3, <2>3, <3>1, <3>2
  <2>6. CASE a = "show"
    <3>1. Beginning[a] = <<"show">>
      BY <2>6 DEF Beginning
    <3>2. NextAt(s, a) = "tables"
      BY <1>5, <2>6 DEF NextAt
    <3> QED BY <1>3, <2>2, <3>1, <3>2
  <2> QED BY <2>4, <2>5, <2>6
<1>6. CASE s.type = "USE_DATABASE"
  <2>1. Prefix(<<"use", "identifier">>, w)
    <3>1. Heads["USE_DATABASE"] = <<"use", "identifier">>
      BY DEF Heads, CreateStart, ValuesStart
    <3> QED BY <1>2, <1>6, <3>1
  <2>2. Prefix(<<"use">>, w) /\ Prefix(Append(<<"use">>, "identifier"), w)
    BY <1>3, <2>1, HeadOfTwo
  <2>3. Prefix(Append(<<>>, "use"), w)
    BY <1>3, <2>2, HeadOfOne
  <2>4. a \in {"first", "use"}
    BY <1>6 DEF TypesAt, Beginning
  <2>5. CASE a = "first"
    <3>1. Beginning[a] = <<>>
      BY <2>5 DEF Beginning
    <3>2. NextAt(s, a) = "use"
      BY <1>6, <2>5 DEF NextAt, Opening
    <3> QED BY <1>3, <2>3, <3>1, <3>2
  <2>6. CASE a = "use"
    <3>1. Beginning[a] = <<"use">>
      BY <2>6 DEF Beginning
    <3>2. NextAt(s, a) = "identifier"
      BY <1>6, <2>6 DEF NextAt
    <3> QED BY <1>3, <2>2, <3>1, <3>2
  <2> QED BY <2>4, <2>5, <2>6
<1>7. CASE s.type = "DROP_DATABASE"
  <2>1. Prefix(<<"drop", "database", "identifier">>, w)
    <3>1. Heads["DROP_DATABASE"] = <<"drop", "database", "identifier">>
      BY DEF Heads, CreateStart, ValuesStart
    <3> QED BY <1>2, <1>7, <3>1
  <2>2. Prefix(<<"drop", "database">>, w) /\ Prefix(Append(<<"drop", "database">>, "identifier"), w)
    BY <1>3, <2>1, HeadOfThree
  <2>3. Prefix(<<"drop">>, w) /\ Prefix(Append(<<"drop">>, "database"), w)
    BY <1>3, <2>2, HeadOfTwo
  <2>4. Prefix(Append(<<>>, "drop"), w)
    BY <1>3, <2>3, HeadOfOne
  <2>5. a \in {"first", "drop", "dropDatabase"}
    BY <1>7 DEF TypesAt, Beginning
  <2>6. CASE a = "first"
    <3>1. Beginning[a] = <<>>
      BY <2>6 DEF Beginning
    <3>2. NextAt(s, a) = "drop"
      BY <1>7, <2>6 DEF NextAt, Opening
    <3> QED BY <1>3, <2>4, <3>1, <3>2
  <2>7. CASE a = "drop"
    <3>1. Beginning[a] = <<"drop">>
      BY <2>7 DEF Beginning
    <3>2. NextAt(s, a) = "database"
      BY <1>7, <2>7 DEF NextAt
    <3> QED BY <1>3, <2>3, <3>1, <3>2
  <2>8. CASE a = "dropDatabase"
    <3>1. Beginning[a] = <<"drop", "database">>
      BY <2>8 DEF Beginning
    <3>2. NextAt(s, a) = "identifier"
      BY <1>7, <2>8 DEF NextAt
    <3> QED BY <1>3, <2>2, <3>1, <3>2
  <2> QED BY <2>5, <2>6, <2>7, <2>8
<1>8. CASE s.type = "DROP_TABLE"
  <2>1. Prefix(<<"drop", "table", "identifier">>, w)
    <3>1. Heads["DROP_TABLE"] = <<"drop", "table", "identifier">>
      BY DEF Heads, CreateStart, ValuesStart
    <3> QED BY <1>2, <1>8, <3>1
  <2>2. Prefix(<<"drop", "table">>, w) /\ Prefix(Append(<<"drop", "table">>, "identifier"), w)
    BY <1>3, <2>1, HeadOfThree
  <2>3. Prefix(<<"drop">>, w) /\ Prefix(Append(<<"drop">>, "table"), w)
    BY <1>3, <2>2, HeadOfTwo
  <2>4. Prefix(Append(<<>>, "drop"), w)
    BY <1>3, <2>3, HeadOfOne
  <2>5. a \in {"first", "drop", "dropTable"}
    BY <1>8 DEF TypesAt, Beginning
  <2>6. CASE a = "first"
    <3>1. Beginning[a] = <<>>
      BY <2>6 DEF Beginning
    <3>2. NextAt(s, a) = "drop"
      BY <1>8, <2>6 DEF NextAt, Opening
    <3> QED BY <1>3, <2>4, <3>1, <3>2
  <2>7. CASE a = "drop"
    <3>1. Beginning[a] = <<"drop">>
      BY <2>7 DEF Beginning
    <3>2. NextAt(s, a) = "table"
      BY <1>8, <2>7 DEF NextAt
    <3> QED BY <1>3, <2>3, <3>1, <3>2
  <2>8. CASE a = "dropTable"
    <3>1. Beginning[a] = <<"drop", "table">>
      BY <2>8 DEF Beginning
    <3>2. NextAt(s, a) = "identifier"
      BY <1>8, <2>8 DEF NextAt
    <3> QED BY <1>3, <2>2, <3>1, <3>2
  <2> QED BY <2>5, <2>6, <2>7, <2>8
<1>9. CASE s.type = "CREATE_DATABASE"
  <2>1. Prefix(<<"create", "database", "identifier">>, w)
    <3>1. Heads["CREATE_DATABASE"] = <<"create", "database", "identifier">>
      BY DEF Heads, CreateStart, ValuesStart
    <3> QED BY <1>2, <1>9, <3>1
  <2>2. Prefix(<<"create", "database">>, w) /\ Prefix(Append(<<"create", "database">>, "identifier"), w)
    BY <1>3, <2>1, HeadOfThree
  <2>3. Prefix(<<"create">>, w) /\ Prefix(Append(<<"create">>, "database"), w)
    BY <1>3, <2>2, HeadOfTwo
  <2>4. Prefix(Append(<<>>, "create"), w)
    BY <1>3, <2>3, HeadOfOne
  <2>5. a \in {"first", "create", "createDatabase"}
    BY <1>9 DEF TypesAt, Beginning
  <2>6. CASE a = "first"
    <3>1. Beginning[a] = <<>>
      BY <2>6 DEF Beginning
    <3>2. NextAt(s, a) = "create"
      BY <1>9, <2>6 DEF NextAt, Opening
    <3> QED BY <1>3, <2>4, <3>1, <3>2
  <2>7. CASE a = "create"
    <3>1. Beginning[a] = <<"create">>
      BY <2>7 DEF Beginning
    <3>2. NextAt(s, a) = "database"
      BY <1>9, <2>7 DEF NextAt
    <3> QED BY <1>3, <2>3, <3>1, <3>2
  <2>8. CASE a = "createDatabase"
    <3>1. Beginning[a] = <<"create", "database">>
      BY <2>8 DEF Beginning
    <3>2. NextAt(s, a) = "identifier"
      BY <1>9, <2>8 DEF NextAt
    <3> QED BY <1>3, <2>2, <3>1, <3>2
  <2> QED BY <2>5, <2>6, <2>7, <2>8
<1>10. CASE s.type = "CREATE_TABLE"
  <2>1. Prefix(<<"create", "table", "identifier", "(">>, w)
    <3>1. Heads["CREATE_TABLE"] = <<"create", "table", "identifier", "(">>
      BY DEF Heads, CreateStart, ValuesStart
    <3> QED BY <1>2, <1>10, <3>1
  <2>2. Prefix(<<"create", "table", "identifier">>, w) /\ Prefix(Append(<<"create", "table", "identifier">>, "("), w)
    BY <1>3, <2>1, HeadOfFour
  <2>3. Prefix(<<"create", "table">>, w) /\ Prefix(Append(<<"create", "table">>, "identifier"), w)
    BY <1>3, <2>2, HeadOfThree
  <2>4. Prefix(<<"create">>, w) /\ Prefix(Append(<<"create">>, "table"), w)
    BY <1>3, <2>3, HeadOfTwo
  <2>5. Prefix(Append(<<>>, "create"), w)
    BY <1>3, <2>4, HeadOfOne
  <2>6. a \in {"first", "create", "createTable"}
    BY <1>10 DEF TypesAt, Beginning
  <2>7. CASE a = "first"
    <3>1. Beginning[a] = <<>>
      BY <2>7 DEF Beginning
    <3>2. NextAt(s, a) = "create"
      BY <1>10, <2>7 DEF NextAt, Opening
    <3> QED BY <1>3, <2>5, <3>1, <3>2
  <2>8. CASE a = "create"
    <3>1. Beginning[a] = <<"create">>
      BY <2>8 DEF Beginning
    <3>2. NextAt(s, a) = "table"
      BY <1>10, <2>8 DEF NextAt
    <3> QED BY <1>3, <2>4, <3>1, <3>2
  <2>9. CASE a = "createTable"
    <3>1. Beginning[a] = <<"create", "table">>
      BY <2>9 DEF Beginning
    <3>2. NextAt(s, a) = "identifier"
      BY <1>10, <2>9 DEF NextAt
    <3> QED BY <1>3, <2>3, <3>1, <3>2
  <2> QED BY <2>6, <2>7, <2>8, <2>9
<1>11. CASE s.type = "INSERT"
  <2>1. Prefix(<<"insert", "into", "identifier", "values">>, w)
    <3>1. Heads["INSERT"] = <<"insert", "into", "identifier", "values">>
      BY DEF Heads, CreateStart, ValuesStart
    <3> QED BY <1>2, <1>11, <3>1
  <2>2. Prefix(<<"insert", "into", "identifier">>, w) /\ Prefix(Append(<<"insert", "into", "identifier">>, "values"), w)
    BY <1>3, <2>1, HeadOfFour
  <2>3. Prefix(<<"insert", "into">>, w) /\ Prefix(Append(<<"insert", "into">>, "identifier"), w)
    BY <1>3, <2>2, HeadOfThree
  <2>4. Prefix(<<"insert">>, w) /\ Prefix(Append(<<"insert">>, "into"), w)
    BY <1>3, <2>3, HeadOfTwo
  <2>5. Prefix(Append(<<>>, "insert"), w)
    BY <1>3, <2>4, HeadOfOne
  <2>6. a \in {"first", "insert", "into"}
    BY <1>11 DEF TypesAt, Beginning
  <2>7. CASE a = "first"
    <3>1. Beginning[a] = <<>>
      BY <2>7 DEF Beginning
    <3>2. NextAt(s, a) = "insert"
      BY <1>11, <2>7 DEF NextAt, Opening
    <3> QED BY <1>3, <2>5, <3>1, <3>2
  <2>8. CASE a = "insert"
    <3>1. Beginning[a] = <<"insert">>
      BY <2>8 DEF Beginning
    <3>2. NextAt(s, a) = "into"
      BY <1>11, <2>8 DEF NextAt
    <3> QED BY <1>3, <2>4, <3>1, <3>2
  <2>9. CASE a = "into"
    <3>1. Beginning[a] = <<"insert", "into">>
      BY <2>9 DEF Beginning
    <3>2. NextAt(s, a) = "identifier"
      BY <1>11, <2>9 DEF NextAt
    <3> QED BY <1>3, <2>3, <3>1, <3>2
  <2> QED BY <2>6, <2>7, <2>8, <2>9
<1>12. CASE s.type = "INSERT_BULK"
  <2>1. Prefix(<<"insert", "into", "identifier", "values">>, w)
    <3>1. Heads["INSERT_BULK"] = <<"insert", "into", "identifier", "values">>
      BY DEF Heads, CreateStart, ValuesStart
    <3> QED BY <1>2, <1>12, <3>1
  <2>2. Prefix(<<"insert", "into", "identifier">>, w) /\ Prefix(Append(<<"insert", "into", "identifier">>, "values"), w)
    BY <1>3, <2>1, HeadOfFour
  <2>3. Prefix(<<"insert", "into">>, w) /\ Prefix(Append(<<"insert", "into">>, "identifier"), w)
    BY <1>3, <2>2, HeadOfThree
  <2>4. Prefix(<<"insert">>, w) /\ Prefix(Append(<<"insert">>, "into"), w)
    BY <1>3, <2>3, HeadOfTwo
  <2>5. Prefix(Append(<<>>, "insert"), w)
    BY <1>3, <2>4, HeadOfOne
  <2>6. a \in {"first", "insert", "into"}
    BY <1>12 DEF TypesAt, Beginning
  <2>7. CASE a = "first"
    <3>1. Beginning[a] = <<>>
      BY <2>7 DEF Beginning
    <3>2. NextAt(s, a) = "insert"
      BY <1>12, <2>7 DEF NextAt, Opening
    <3> QED BY <1>3, <2>5, <3>1, <3>2
  <2>8. CASE a = "insert"
    <3>1. Beginning[a] = <<"insert">>
      BY <2>8 DEF Beginning
    <3>2. NextAt(s, a) = "into"
      BY <1>12, <2>8 DEF NextAt
    <3> QED BY <1>3, <2>4, <3>1, <3>2
  <2>9. CASE a = "into"
    <3>1. Beginning[a] = <<"insert", "into">>
      BY <2>9 DEF Beginning
    <3>2. NextAt(s, a) = "identifier"
      BY <1>12, <2>9 DEF NextAt
    <3> QED BY <1>3, <2>3, <3>1, <3>2
  <2> QED BY <2>6, <2>7, <2>8, <2>9
<1>13. CASE s.type = "HELP"
  <2>1. Prefix(<<"help">>, w)
    <3>1. Heads["HELP"] = <<"help">>
      BY DEF Heads, CreateStart, ValuesStart
    <3> QED BY <1>2, <1>13, <3>1
  <2>2. Prefix(Append(<<>>, "help"), w)
    BY <1>3, <2>1, HeadOfOne
  <2>3. a \in {"first"}
    BY <1>13 DEF TypesAt, Beginning
  <2>4. CASE a = "first"
    <3>1. Beginning[a] = <<>>
      BY <2>4 DEF Beginning
    <3>2. NextAt(s, a) = "help"
      BY <1>13, <2>4 DEF NextAt, Opening
    <3> QED BY <1>3, <2>2, <3>1, <3>2
  <2> QED BY <2>3, <2>4
<1>14. CASE s.type = "EXIT"
  <2>1. Prefix(<<"exit">>, w)
    <3>1. Heads["EXIT"] = <<"exit">>
      BY DEF Heads, CreateStart, ValuesStart
    <3> QED BY <1>2, <1>14, <3>1
  <2>2. Prefix(Append(<<>>, "exit"), w)
    BY <1>3, <2>1, HeadOfOne
  <2>3. a \in {"first"}
    BY <1>14 DEF TypesAt, Beginning
  <2>4. CASE a = "first"
    <3>1. Beginning[a] = <<>>
      BY <2>4 DEF Beginning
    <3>2. NextAt(s, a) = "exit"
      BY <1>14, <2>4 DEF NextAt, Opening
    <3> QED BY <1>3, <2>2, <3>1, <3>2
  <2> QED BY <2>3, <2>4
<1>15. CASE s.type = "SELECT"
  <2>1. /\ Prefix(Append(<<>>, "select"), w)
        /\ Prefix(Append(<<"select">>, IF s.columns = <<>> THEN "*" ELSE "identifier"), w)
    BY <1>15, SelectBegins
  <2>2. a \in {"first", "select"}
    BY <1>15 DEF TypesAt, Beginning
  <2>3. CASE a = "first"
    <3>1. Beginning[a] = <<>>
      BY <2>3 DEF Beginning
    <3>2. NextAt(s, a) = "select"
      BY <1>15, <2>3 DEF NextAt, Opening
    <3> QED BY <1>3, <2>1, <3>1, <3>2
  <2>4. CASE a = "select"
    <3>1. Beginning[a] = <<"select">>
      BY <2>4 DEF Beginning
    <3>2. NextAt(s, a) = IF s.columns = <<>> THEN "*" ELSE "identifier"
      BY <2>4 DEF NextAt
    <3> QED BY <1>3, <2>1, <3>1, <3>2
  <2> QED BY <2>2, <2>3, <2>4
<1> QED BY <1>1, <1>4, <1>5, <1>6, <1>7, <1>8, <1>9, <1>10, <1>11, <1>12, <1>13, <1>14, <1>15 DEF ShortTypes

LEMMA BeginningSees ==
  ASSUME NEW s, ReadsAs(s), at \in DOMAIN Beginning \ {"help", "exit"}
  PROVE  s.type \in TypesAt[at] /\ Sees(Beginning[at], NextAt(s, at))
<1>1. Reading /\ IsStatement(s) /\ Kinds = Written(s) /\ Kinds \in Seq(Kind)
  BY DEF ReadsAs, Reading
<1>2. s.type \in TypesAt[at] /\ Past(Beginning[at], current_token)
  BY DEF ReadsAs, Follows
<1>3. NextAt(s, at) \in Kind /\ Prefix(Append(Beginning[at], NextAt(s, at)), Kinds)
  BY <1>1, <1>2, BeginningGoesOn
<1> QED BY <1>1, <1>2, <1>3, SeesIs

\* The rule of the keyword.
Leads(type, rule) ==
  /\ rule \in DOMAIN Beginning /\ rule \in Keyword
  /\ Beginning[rule] = <<rule>> /\ type \in TypesAt[rule]
LEMMA KeywordLeads ==
  ASSUME NEW s, IsStatement(s)
  PROVE  Leads(s.type, Opening[s.type][1])
<1>1. s.type \in ShortTypes \cup {"CREATE_TABLE", "SELECT", "INSERT", "INSERT_BULK"}
  BY StatementFacts
<1>2. CASE s.type = "SHOW_DATABASES"
  <2>1. Opening["SHOW_DATABASES"][1] = "show"
    BY DEF Opening
  <2>2. Leads("SHOW_DATABASES", "show")
    BY DEF Leads, Beginning, TypesAt, Keyword, Opening
  <2> QED BY <1>2, <2>1, <2>2
<1>3. CASE s.type = "SHOW_TABLES"
  <2>1. Opening["SHOW_TABLES"][1] = "show"
    BY DEF Opening
  <2>2. Leads("SHOW_TABLES", "show")
    BY DEF Leads, Beginning, TypesAt, Keyword, Opening
  <2> QED BY <1>3, <2>1, <2>2
<1>4. CASE s.type = "USE_DATABASE"
  <2>1. Opening["USE_DATABASE"][1] = "use"
    BY DEF Opening
  <2>2. Leads("USE_DATABASE", "use")
    BY DEF Leads, Beginning, TypesAt, Keyword, Opening
  <2> QED BY <1>4, <2>1, <2>2
<1>5. CASE s.type = "DROP_DATABASE"
  <2>1. Opening["DROP_DATABASE"][1] = "drop"
    BY DEF Opening
  <2>2. Leads("DROP_DATABASE", "drop")
    BY DEF Leads, Beginning, TypesAt, Keyword, Opening
  <2> QED BY <1>5, <2>1, <2>2
<1>6. CASE s.type = "DROP_TABLE"
  <2>1. Opening["DROP_TABLE"][1] = "drop"
    BY DEF Opening
  <2>2. Leads("DROP_TABLE", "drop")
    BY DEF Leads, Beginning, TypesAt, Keyword, Opening
  <2> QED BY <1>6, <2>1, <2>2
<1>7. CASE s.type = "CREATE_DATABASE"
  <2>1. Opening["CREATE_DATABASE"][1] = "create"
    BY DEF Opening
  <2>2. Leads("CREATE_DATABASE", "create")
    BY DEF Leads, Beginning, TypesAt, Keyword, Opening
  <2> QED BY <1>7, <2>1, <2>2
<1>8. CASE s.type = "CREATE_TABLE"
  <2>1. Opening["CREATE_TABLE"][1] = "create"
    BY DEF Opening
  <2>2. Leads("CREATE_TABLE", "create")
    BY DEF Leads, Beginning, TypesAt, Keyword, Opening
  <2> QED BY <1>8, <2>1, <2>2
<1>9. CASE s.type = "SELECT"
  <2>1. Opening["SELECT"][1] = "select"
    BY DEF Opening
  <2>2. Leads("SELECT", "select")
    BY DEF Leads, Beginning, TypesAt, Keyword, Opening
  <2> QED BY <1>9, <2>1, <2>2
<1>10. CASE s.type = "INSERT"
  <2>1. Opening["INSERT"][1] = "insert"
    BY DEF Opening
  <2>2. Leads("INSERT", "insert")
    BY DEF Leads, Beginning, TypesAt, Keyword, Opening
  <2> QED BY <1>10, <2>1, <2>2
<1>11. CASE s.type = "INSERT_BULK"
  <2>1. Opening["INSERT_BULK"][1] = "insert"
    BY DEF Opening
  <2>2. Leads("INSERT_BULK", "insert")
    BY DEF Leads, Beginning, TypesAt, Keyword, Opening
  <2> QED BY <1>11, <2>1, <2>2
<1>12. CASE s.type = "HELP"
  <2>1. Opening["HELP"][1] = "help"
    BY DEF Opening
  <2>2. Leads("HELP", "help")
    BY DEF Leads, Beginning, TypesAt, Keyword, Opening
  <2> QED BY <1>12, <2>1, <2>2
<1>13. CASE s.type = "EXIT"
  <2>1. Opening["EXIT"][1] = "exit"
    BY DEF Opening
  <2>2. Leads("EXIT", "exit")
    BY DEF Leads, Beginning, TypesAt, Keyword, Opening
  <2> QED BY <1>13, <2>1, <2>2
<1> QED BY <1>1, <1>2, <1>3, <1>4, <1>5, <1>6, <1>7, <1>8, <1>9, <1>10, <1>11, <1>12, <1>13 DEF ShortTypes

LEMMA FirstFollows ==
  ASSUME NEW s, ReadsAs(s), First
  PROVE  StepFollows(s)
<1>1. PICK t : t = Opening[s.type][1]
  OBVIOUS
<1>2. at = "first" /\ at' = tokens[current_token].type /\ current_token' = current_token + 1
  BY DEF First, Advance
<1>3. at \in DOMAIN Beginning \ {"help", "exit"} /\ Beginning[at] = <<>> /\ NextAt(s, at) = t
  BY <1>1, <1>2 DEF Beginning, NextAt
<1>4. Sees(<<>>, t)
  BY <1>3, BeginningSees
<1>5. at' = t /\ Past(Append(<<>>, t), current_token')
  BY <1>2, <1>4 DEF Sees
<1>6. Leads(s.type, t)
  BY <1>1, KeywordLeads DEF ReadsAs
<1>7. Append(<<>>, t) = <<t>>
  OBVIOUS
<1>8. Past(Beginning[t], current_token')
  BY <1>5, <1>6, <1>7 DEF Leads
<1> QED BY <1>5, <1>6, <1>8, FollowsBeginning DEF Leads, StepFollows

LEMMA InvalidNodeFollows ==
  ASSUME NEW s, ReadsAs(s), InvalidNode
  PROVE  StepFollows(s)
<1>1. PICK t : t = Opening[s.type][1]
  OBVIOUS
<1>2. at = "first" /\ tokens[current_token].type \notin Keyword
  BY DEF InvalidNode
<1>3. at \in DOMAIN Beginning \ {"help", "exit"} /\ Beginning[at] = <<>> /\ NextAt(s, at) = t
  BY <1>1, <1>2 DEF Beginning, NextAt
<1>4. Sees(<<>>, t)
  BY <1>3, BeginningSees
<1>5. t \in Keyword
  BY <1>1, KeywordLeads DEF ReadsAs, Leads
<1> QED BY <1>2, <1>4, <1>5 DEF Sees

LEMMA DatabaseOrTableFollows ==
  ASSUME NEW s, ReadsAs(s), DatabaseOrTable
  PROVE  StepFollows(s)
<1>1. PICK rule \in {"drop", "create"}, type \in {"database", "table"} :
        /\ at = rule /\ Check(type) /\ current_token' = current_token + 1
        /\ at' = IF rule = "drop" THEN (IF type = "database" THEN "dropDatabase" ELSE "dropTable")
                 ELSE (IF type = "database" THEN "createDatabase" ELSE "createTable")
  BY DEF DatabaseOrTable, Take, Advance
<1>2. at \in DOMAIN Beginning \ {"help", "exit"} /\ Beginning[at] = <<rule>>
  BY <1>1 DEF Beginning
<1>3. s.type \in TypesAt[at] /\ Sees(<<rule>>, NextAt(s, at))
  BY <1>2, BeginningSees
<1>4. type = NextAt(s, at)
  BY <1>1, <1>3 DEF Sees
<1>5. type = IF s.type \in {"DROP_TABLE", "CREATE_TABLE"} THEN "table" ELSE "database"
  BY <1>1, <1>4 DEF NextAt
<1>6. s.type \in IF rule = "drop" THEN {"DROP_DATABASE", "DROP_TABLE"} ELSE {"CREATE_DATABASE", "CREATE_TABLE"}
  BY <1>1, <1>3 DEF TypesAt
<1>7. Past(Append(<<rule>>, type), current_token')
  BY <1>1, <1>3, <1>4 DEF Sees
<1>8. Append(<<rule>>, type) = <<rule, type>>
  <2>1. rule \in Kind /\ type \in Kind
    BY DEF Kind
  <2> QED BY <2>1, Pairs DEF SameSeq
<1>9. at' \in DOMAIN Beginning /\ Beginning[at'] = <<rule, type>> /\ s.type \in TypesAt[at']
  <2>1. CASE rule = "drop" /\ type = "database"
    BY <1>1, <1>5, <1>6, <2>1 DEF Beginning, TypesAt
  <2>2. CASE rule = "drop" /\ type = "table"
    BY <1>1, <1>5, <1>6, <2>2 DEF Beginning, TypesAt
  <2>3. CASE rule = "create" /\ type = "database"
    BY <1>1, <1>5, <1>6, <2>3 DEF Beginning, TypesAt
  <2>4. CASE rule = "create" /\ type = "table"
    BY <1>1, <1>5, <1>6, <2>4 DEF Beginning, TypesAt
  <2> QED BY <1>1, <2>1, <2>2, <2>3, <2>4
<1> QED BY <1>7, <1>8, <1>9, FollowsBeginning DEF StepFollows

LEMMA ShortShape ==
  ASSUME NEW s, IsStatement(s), s.type \in ShortTypes, NEW k \in Nat, k # 0 <=> s.named,
         NEW tree, ShortTree(tree, s.type, k)
  PROVE  Shape(tree) = s
<1>1. tree = [type |-> s.type, name |-> k, columns |-> <<>>, sets |-> <<>>]
  BY DEF ShortTree
<1>2. s.type \notin {"CREATE_TABLE", "SELECT", "INSERT", "INSERT_BULK"}
  BY DEF ShortTypes
<1>3. s.columns = <<>> /\ s.sets = <<>>
  BY <1>2, StatementFacts
<1>4. s = [type |-> s.type, named |-> s.named, columns |-> <<>>, sets |-> <<>>] /\ s.named \in BOOLEAN
  BY <1>3, StatementFacts
<1>5. (k # 0) = s.named
  BY <1>4
<1>6. Shape(tree) = [type |-> s.type, named |-> k # 0, columns |-> <<>>, sets |-> <<>>]
  <2>1. DOMAIN tree.columns = {} /\ DOMAIN tree.sets = {}
    BY <1>1
  <2>2. [i \in DOMAIN tree.columns |-> FALSE] = <<>> /\ [i \in DOMAIN tree.sets |-> Len(tree.sets[i])] = <<>>
    BY <2>1
  <2>3. tree.type # "CREATE_TABLE"
    BY <1>1, <1>2
  <2> QED BY <1>1, <2>2, <2>3 DEF Shape
<1> QED BY <1>4, <1>5, <1>6

LEMMA ShowFollows ==
  ASSUME NEW s, ReadsAs(s), Show
  PROVE  StepFollows(s)
<1>1. PICK type \in {"databases", "tables"} :
        /\ at = "show" /\ Check(type) /\ at' = "returned"
        /\ ast' = Tree(IF type = "databases" THEN "SHOW_DATABASES" ELSE "SHOW_TABLES")
  BY DEF Show, Take
<1>2. at \in DOMAIN Beginning \ {"help", "exit"} /\ Beginning[at] = <<"show">>
  BY <1>1 DEF Beginning
<1>3. s.type \in {"SHOW_DATABASES", "SHOW_TABLES"} /\ Sees(<<"show">>, NextAt(s, at))
  BY <1>1, <1>2, BeginningSees DEF TypesAt
<1>4. type = IF s.type = "SHOW_DATABASES" THEN "databases" ELSE "tables"
  BY <1>1, <1>3 DEF Sees, NextAt
<1>5. ast' = Tree(s.type)
  BY <1>1, <1>3, <1>4
<1>6. ShortTree(ast', s.type, 0)
  BY <1>5 DEF ShortTree, Tree
<1>7. ~s.named /\ IsStatement(s)
  BY <1>3, StatementFacts DEF ReadsAs
<1>8. s.type \in ShortTypes
  BY <1>3 DEF ShortTypes
<1>9. Shape(ast') = s
  <2>1. 0 \in Nat /\ (0 # 0 <=> s.named)
    BY <1>7
  <2> QED BY <1>6, <1>7, <1>8, <2>1, ShortShape
<1> QED BY <1>1, <1>9, FollowsReturned DEF StepFollows

LEMMA NameFollows ==
  ASSUME NEW s, ReadsAs(s), Name
  PROVE  StepFollows(s)
<1>1. /\ at \in DOMAIN TypeOf /\ at' = "returned"
      /\ ast' = [Tree(TypeOf[at]) EXCEPT !.name = current_token]
  BY DEF Name, Take
<1>2. /\ at \in DOMAIN Beginning \ {"help", "exit"} /\ TypesAt[at] = {TypeOf[at]}
      /\ TypeOf[at] \in ShortTypes \ {"SHOW_DATABASES", "SHOW_TABLES", "HELP", "EXIT"}
  BY <1>1 DEF TypeOf, Beginning, TypesAt, ShortTypes
<1>3. s.type = TypeOf[at]
  BY <1>2, BeginningSees
<1>4. PICK n : n = current_token
  OBVIOUS
<1>5. n \in Nat /\ n # 0
  BY <1>4 DEF ReadsAs, Reading
<1>6. ShortTree(ast', s.type, n)
  BY <1>1, <1>3, <1>4 DEF ShortTree, Tree
<1>7. s.named /\ IsStatement(s) /\ s.type \in ShortTypes
  BY <1>2, <1>3, StatementFacts DEF ReadsAs
<1>8. Shape(ast') = s
  BY <1>5, <1>6, <1>7, ShortShape
<1> QED BY <1>1, <1>8, FollowsReturned DEF StepFollows

LEMMA EndSees ==
  ASSUME NEW s, ReadsAs(s), s.type \in {"HELP", "EXIT"}, current_token = 2
  PROVE  IsAtEnd /\ \A type : ~Check(type)
<1>1. Reading /\ IsStatement(s) /\ Kinds = Written(s) /\ Kinds \in Seq(Kind) /\ Len(Kinds) = Len(tokens)
  BY DEF ReadsAs, Reading
<1>2. Len(Kinds) = 1
  BY <1>1, HeadBegins
<1>3. IsAtEnd
  BY <1>1, <1>2 DEF IsAtEnd
<1> QED BY <1>3 DEF Check

LEMMA HelpOrExitFollows ==
  ASSUME NEW s, ReadsAs(s), HelpOrExit
  PROVE  StepFollows(s)
<1>1. /\ at \in {"help", "exit"} /\ at' = "end"
      /\ ast' = Tree(IF at = "help" THEN "HELP" ELSE "EXIT")
      /\ ~Check(";") => current_token' = current_token
  BY DEF HelpOrExit, Stay
<1>2. s.type \in TypesAt[at] /\ Past(Beginning[at], current_token) /\ Beginning[at] = <<at>>
  <2>1. /\ {"help", "exit"} \subseteq DOMAIN Beginning
        /\ Beginning["help"] = <<"help">> /\ Beginning["exit"] = <<"exit">>
    BY DEF Beginning
  <2>2. at \in DOMAIN Beginning /\ Beginning[at] = <<at>>
    BY <1>1, <2>1
  <2> QED BY <2>2 DEF ReadsAs, Follows
<1>3. s.type = IF at = "help" THEN "HELP" ELSE "EXIT"
  <2>1. TypesAt["help"] = {"HELP"} /\ TypesAt["exit"] = {"EXIT"}
    BY DEF TypesAt
  <2> QED BY <1>1, <1>2, <2>1
<1>4. current_token = 2
  BY <1>2 DEF Past
<1>5. ~Check(";")
  BY <1>3, <1>4, EndSees
<1> QED BY <1>1, <1>3, <1>4, <1>5
        DEF StepFollows, Follows, Beginning, TableFollows, SelectFollows, InsertFollows, ColumnRule

LEMMA EndFollows ==
  ASSUME NEW s, ReadsAs(s), End
  PROVE  StepFollows(s)
<1>1. at = "end" /\ at' = "returned" /\ ast' = ast
  BY DEF End
<1>2. s.type \in {"HELP", "EXIT"} /\ ast = Tree(s.type) /\ IsStatement(s)
  BY <1>1 DEF ReadsAs, Follows
<1>3. ShortTree(ast', s.type, 0) /\ s.type \in ShortTypes
  BY <1>1, <1>2 DEF ShortTree, Tree, ShortTypes
<1>4. 0 \in Nat /\ (0 # 0 <=> s.named)
  BY <1>2, StatementFacts
<1>5. Shape(ast') = s
  BY <1>2, <1>3, <1>4, ShortShape
<1> QED BY <1>1, <1>5, FollowsReturned DEF StepFollows

\* CREATE TABLE: a column is there, or the parenthesis that ends the list.
LEMMA TableIs ==
  ASSUME NEW s, ReadsAs(s), s.type = "CREATE_TABLE"
  PROVE  /\ s.columns \in Seq(BOOLEAN) /\ Kinds \in Seq(Kind)
         /\ SameSeq(Kinds, Append(Created(s.columns), ")"))
         /\ Prefix(Created(s.columns), Kinds)
<1>1. s.columns \in Seq(BOOLEAN) /\ Kinds \in Seq(Kind) /\ Kinds = Written(s)
  BY StatementFacts DEF ReadsAs, Reading
<1>2. SameSeq(Kinds, Append(Created(s.columns), ")"))
  BY <1>1, WrittenTable
<1>3. Prefix(Append(Created(s.columns), ")"), Kinds)
  BY <1>1, <1>2, PrefixOfItself DEF SameSeq
<1>4. Created(s.columns) \in Seq(Kind) /\ ")" \in Kind
  BY <1>1, CreatedKind DEF Kind
<1> QED BY <1>1, <1>2, <1>3, <1>4, PrefixOfAppended

LEMMA FourTokens ==
  ASSUME NEW a \in Kind, NEW b \in Kind, NEW c \in Kind, NEW d \in Kind
  PROVE  SameSeq(Append(<<a, b, c>>, d), <<a, b, c, d>>)
BY Appends

LEMMA ParenSees ==
  ASSUME NEW s, ReadsAs(s), at = "createParen"
  PROVE  /\ s.type = "CREATE_TABLE" /\ TableTree(ast) /\ ast.columns = <<>>
         /\ Sees(<<"create", "table", "identifier">>, "(")
<1>1. /\ s.type = "CREATE_TABLE" /\ TableTree(ast) /\ ast.columns = <<>>
      /\ Past(<<"create", "table", "identifier">>, current_token)
  BY DEF ReadsAs, Follows, TableFollows
<1>2. Reading /\ Kinds \in Seq(Kind) /\ Kinds = Written(s) /\ IsStatement(s)
  BY DEF ReadsAs, Reading
<1>3. Prefix(<<"create", "table", "identifier", "(">>, Kinds)
  <2>1. Heads["CREATE_TABLE"] = <<"create", "table", "identifier", "(">>
    BY DEF Heads, CreateStart
  <2> QED BY <1>1, <1>2, <2>1, HeadBegins
<1>4. "create" \in Kind /\ "table" \in Kind /\ "identifier" \in Kind /\ "(" \in Kind
  BY DEF Kind
<1>5. Prefix(Append(<<"create", "table", "identifier">>, "("), Kinds)
  BY <1>2, <1>3, <1>4, HeadOfFour
<1> QED BY <1>1, <1>2, <1>4, <1>5, SeesIs

LEMMA CreateTableFollows ==
  ASSUME NEW s, ReadsAs(s), CreateTable
  PROVE  StepFollows(s)
<1>1. CASE Take("createTable", "identifier", "createParen") /\ ast' = [Tree("CREATE_TABLE") EXCEPT !.name = current_token]
  <2>1. at = "createTable" /\ at' = "createParen" /\ current_token' = current_token + 1
    BY <1>1 DEF Take, Advance
  <2>2. at \in DOMAIN Beginning \ {"help", "exit"} /\ Beginning[at] = <<"create", "table">> /\ NextAt(s, at) = "identifier"
    BY <2>1 DEF Beginning, NextAt
  <2>3. s.type = "CREATE_TABLE" /\ Sees(<<"create", "table">>, "identifier")
    BY <2>1, <2>2, BeginningSees DEF TypesAt
  <2>4. Past(<<"create", "table", "identifier">>, current_token')
    <3>1. Append(<<"create", "table">>, "identifier") = <<"create", "table", "identifier">>
      <4>1. "create" \in Kind /\ "table" \in Kind /\ "identifier" \in Kind
        BY DEF Kind
      <4> QED BY <4>1, Appends DEF SameSeq
    <3> QED BY <2>1, <2>3, <3>1 DEF Sees
  <2>5. PICK n : n = current_token
    OBVIOUS
  <2>6. n \in Nat \ {0}
    BY <2>5 DEF ReadsAs, Reading
  <2>7. ast' = [type |-> "CREATE_TABLE", name |-> n, columns |-> <<>>, sets |-> <<>>]
    BY <1>1, <2>5 DEF Tree
  <2>8. TableTree(ast') /\ ast'.columns = <<>>
    BY <2>6, <2>7 DEF TableTree
  <2>9. TableFollows(s, at', current_token', ast')
    BY <2>1, <2>3, <2>4, <2>8 DEF TableFollows, ColumnRule
  <2> QED BY <2>1, <2>9, FollowsTable DEF StepFollows
<1>2. CASE Take("createParen", "(", "columns") /\ UNCHANGED ast
  <2>1. at = "createParen" /\ at' = "columns" /\ current_token' = current_token + 1 /\ ast' = ast
    BY <1>2 DEF Take, Advance
  <2>2. s.type = "CREATE_TABLE" /\ TableTree(ast) /\ ast.columns = <<>>
    BY <2>1, ParenSees
  <2>3. "create" \in Kind /\ "table" \in Kind /\ "identifier" \in Kind /\ "(" \in Kind
    BY DEF Kind
  <2>4. Sees(<<"create", "table", "identifier">>, "(")
    BY <2>1, ParenSees
  <2>5. Past(CreateStart, current_token')
    <3>1. Append(<<"create", "table", "identifier">>, "(") = CreateStart
      <4>1. Append(<<"create", "table", "identifier">>, "(") = <<"create", "table", "identifier", "(">>
        BY <2>3, FourTokens DEF SameSeq
      <4> QED BY <4>1 DEF CreateStart
    <3> QED BY <2>1, <2>4, <3>1 DEF Sees
  <2>6. Keys(ast'.columns) = <<>>
    BY <2>1, <2>2 DEF Keys
  <2>7. TableHas(s, ast') /\ Len(ast'.columns) = 0
    <3>1. s.columns \in Seq(BOOLEAN)
      BY <2>2, TableIs
    <3>2. SubSeq(s.columns, 1, 0) = <<>> /\ 0 <= Len(s.columns)
      BY <3>1, SubEnds, LenProperties DEF SameSeq
    <3> QED BY <2>1, <2>2, <2>6, <3>2 DEF TableHas
  <2>8. Created(<<>>) = CreateStart
    <3>1. <<>> \in Seq(BOOLEAN) /\ TRUE \in BOOLEAN
      OBVIOUS
    <3> QED BY <3>1, CreatedFacts
  <2>9. Created(Keys(ast'.columns)) = CreateStart /\ ColumnStart(Keys(ast'.columns)) = CreateStart
    BY <2>6, <2>8 DEF ColumnStart
  <2>10. TableFollows(s, at', current_token', ast')
    BY <2>1, <2>5, <2>7, <2>9 DEF TableFollows, ColumnRule
  <2>11. at' \in ColumnRule
    BY <2>1 DEF ColumnRule
  <2> QED BY <2>10, <2>11, FollowsTable DEF StepFollows
<1> QED BY <1>1, <1>2 DEF CreateTable

\* The columns before the one that is read.
LEMMA TableAhead ==
  ASSUME NEW s, ReadsAs(s), TableHas(s, ast)
  PROVE  LET k == Len(ast.columns)
             keys == Keys(ast.columns)
             start == ColumnStart(keys)
         IN  /\ k \in Nat /\ keys \in Seq(BOOLEAN) /\ Created(keys) \in Seq(Kind) /\ start \in Seq(Kind)
             /\ k <= Len(s.columns) /\ keys = SubSeq(s.columns, 1, k)
             /\ k = Len(s.columns) => keys = s.columns /\ Prefix(Append(Created(keys), ")"), Kinds)
             /\ k # 0 /\ k < Len(s.columns) => Prefix(Append(Created(keys), ","), Kinds)
             /\ k < Len(s.columns) =>
                  /\ s.columns[k + 1] \in BOOLEAN
                  /\ SameSeq(SubSeq(s.columns, 1, k + 1), Append(keys, s.columns[k + 1]))
                  /\ Prefix(ColumnWritten(start, s.columns[k + 1]), Kinds)
<1>1. PICK c, k, keys : c = s.columns /\ k = Len(ast.columns) /\ keys = Keys(ast.columns)
  OBVIOUS
<1>2. s.type = "CREATE_TABLE" /\ ast.columns \in Seq(Column) /\ k <= Len(c) /\ keys = SubSeq(c, 1, k)
  BY <1>1 DEF TableHas, TableTree
<1>3. k \in Nat
  BY <1>1, <1>2, LenProperties
<1>4. /\ c \in Seq(BOOLEAN) /\ Kinds \in Seq(Kind)
      /\ SameSeq(Kinds, Append(Created(c), ")")) /\ Prefix(Created(c), Kinds)
  BY <1>1, <1>2, TableIs
<1>5. k \in 0 .. Len(c)
  BY <1>2, <1>3, <1>4, LenProperties
<1>6. /\ keys \in Seq(BOOLEAN)
      /\ k = Len(c) => keys = c /\ Prefix(Append(Created(keys), ")"), Kinds)
      /\ k # 0 /\ k < Len(c) => Prefix(Append(Created(keys), ","), Kinds)
  BY <1>2, <1>4, <1>5, AfterColumn
<1>7. Created(keys) \in Seq(Kind) /\ ColumnStart(keys) \in Seq(Kind)
  <2>1. TRUE \in BOOLEAN
    OBVIOUS
  <2> QED BY <1>6, <2>1, CreatedKind, ColumnStartFacts
<1>8. k < Len(c) =>
        /\ c[k + 1] \in BOOLEAN
        /\ SameSeq(SubSeq(c, 1, k + 1), Append(keys, c[k + 1]))
        /\ Prefix(ColumnWritten(ColumnStart(keys), c[k + 1]), Kinds)
  BY <1>2, <1>3, <1>4, ColumnAhead
<1> QED BY <1>1, <1>2, <1>3, <1>6, <1>7, <1>8

LEMMA ColumnGoesOn ==
  ASSUME NEW b \in Seq(Kind), NEW key \in BOOLEAN, NEW w \in Seq(Kind), Prefix(ColumnWritten(b, key), w)
  PROVE  LET named == Append(b, "identifier")
             typed == Append(named, "type")
         IN  /\ named \in Seq(Kind) /\ Prefix(named, w)
             /\ typed \in Seq(Kind) /\ Prefix(typed, w)
             /\ key => /\ Append(typed, "primary") \in Seq(Kind)
                       /\ Prefix(Append(typed, "primary"), w)
                       /\ Prefix(Append(Append(typed, "primary"), "key"), w)
<1>1. "identifier" \in Kind /\ "type" \in Kind /\ "primary" \in Kind /\ "key" \in Kind
  BY DEF Kind
<1>2. PICK named : named = Append(b, "identifier")
  OBVIOUS
<1>3. named \in Seq(Kind)
  BY <1>1, <1>2, AppendProperties
<1>4. PICK typed : typed = Append(named, "type")
  OBVIOUS
<1>5. typed \in Seq(Kind)
  BY <1>1, <1>3, <1>4, AppendProperties
<1>6. PICK p : p = Append(typed, "primary")
  OBVIOUS
<1>7. p \in Seq(Kind)
  BY <1>1, <1>5, <1>6, AppendProperties
<1>8. Prefix(IF key THEN Append(p, "key") ELSE typed, w)
  BY <1>2, <1>4, <1>6 DEF ColumnWritten
<1>9. key => Prefix(Append(p, "key"), w) /\ Prefix(p, w)
  BY <1>1, <1>7, <1>8, PrefixOfAppended
<1>10. key => Prefix(typed, w)
  <2>1. ASSUME key PROVE Prefix(Append(typed, "primary"), w)
    BY <1>6, <1>9, <2>1
  <2> QED BY <1>1, <1>5, <2>1, PrefixOfAppended
<1>11. Prefix(typed, w)
  BY <1>8, <1>10
<1>12. Prefix(Append(named, "type"), w)
  BY <1>4, <1>11
<1>13. Prefix(named, w)
  BY <1>1, <1>3, <1>12, PrefixOfAppended
<1> QED BY <1>2, <1>3, <1>4, <1>5, <1>6, <1>7, <1>9, <1>11, <1>13

LEMMA ColumnsSee ==
  ASSUME NEW s, ReadsAs(s), at = "columns"
  PROVE  /\ TableHas(s, ast)
         /\ IF Len(ast.columns) < Len(s.columns) THEN Sees(ColumnStart(Keys(ast.columns)), "identifier")
            ELSE Len(ast.columns) = Len(s.columns) /\ Sees(Created(Keys(ast.columns)), ")")
<1>1. PICK c, k, keys : c = s.columns /\ k = Len(ast.columns) /\ keys = Keys(ast.columns)
  OBVIOUS
<1>2. /\ TableHas(s, ast)
      /\ Past(IF k < Len(c) THEN ColumnStart(keys) ELSE Created(keys), current_token)
  BY <1>1 DEF ReadsAs, Follows, TableFollows, ColumnRule
<1>3. Reading /\ Kinds \in Seq(Kind)
  BY DEF ReadsAs, Reading
<1>4. CASE k < Len(c)
  <2>1. PICK b : b = ColumnStart(keys)
    OBVIOUS
  <2>2. PICK key : key = c[k + 1]
    OBVIOUS
  <2>3. b \in Seq(Kind) /\ key \in BOOLEAN /\ Prefix(ColumnWritten(b, key), Kinds)
    BY <1>1, <1>2, <1>4, <2>1, <2>2, TableAhead
  <2>4. Prefix(Append(b, "identifier"), Kinds) /\ "identifier" \in Kind
    BY <1>3, <2>3, ColumnGoesOn DEF Kind
  <2>5. Sees(b, "identifier")
    BY <1>2, <1>3, <1>4, <2>1, <2>4, SeesIs
  <2> QED BY <1>1, <1>2, <1>4, <2>1, <2>5
<1>5. CASE ~ (k < Len(c))
  <2>1. k = Len(c)
    <3>1. k \in Nat /\ k <= Len(c) /\ c \in Seq(BOOLEAN)
      BY <1>1, <1>2, TableAhead, TableIs DEF TableHas
    <3>2. Len(c) \in Nat
      BY <3>1, LenProperties
    <3> QED BY <1>5, <3>1, <3>2
  <2>2. Prefix(Append(Created(keys), ")"), Kinds) /\ ")" \in Kind
    BY <1>1, <1>2, <2>1, TableAhead DEF Kind
  <2>3. Sees(Created(keys), ")")
    BY <1>2, <1>3, <1>5, <2>2, SeesIs
  <2> QED BY <1>1, <1>2, <1>5, <2>1, <2>3
<1> QED BY <1>4, <1>5

LEMMA TableShape ==
  ASSUME NEW s, IsStatement(s), NEW tree, TableHas(s, tree), Len(tree.columns) = Len(s.columns)
  PROVE  Shape(tree) = s
<1>1. PICK c, cs, m : c = s.columns /\ cs = tree.columns /\ m = tree.name
  OBVIOUS
<1>2. /\ s.type = "CREATE_TABLE" /\ tree = [type |-> "CREATE_TABLE", name |-> m, columns |-> cs, sets |-> <<>>]
      /\ m \in Nat \ {0} /\ Keys(cs) = SubSeq(c, 1, Len(c))
  BY <1>1 DEF TableHas, TableTree
<1>3. /\ s = [type |-> "CREATE_TABLE", named |-> s.named, columns |-> c, sets |-> s.sets]
      /\ s.named \in BOOLEAN /\ s.named /\ c \in Seq(BOOLEAN) /\ s.sets = <<>>
  BY <1>1, <1>2, StatementFacts
<1>4. SubSeq(c, 1, Len(c)) = c
  BY <1>3, SubEnds DEF SameSeq
<1>5. [i \in DOMAIN cs |-> cs[i].primary] = c
  BY <1>2, <1>4 DEF Keys
<1>6. Shape(tree) = [type |-> "CREATE_TABLE", named |-> TRUE, columns |-> c, sets |-> <<>>]
  <2>1. [i \in DOMAIN tree.sets |-> Len(tree.sets[i])] = <<>>
    BY <1>2
  <2>2. tree.type = "CREATE_TABLE" /\ tree.columns = cs /\ (tree.name # 0) = TRUE
    BY <1>2
  <2> QED BY <1>5, <2>1, <2>2 DEF Shape
<1>7. s = [type |-> "CREATE_TABLE", named |-> TRUE, columns |-> c, sets |-> <<>>]
  <2>1. s.named = TRUE
    BY <1>3
  <2> QED BY <1>3, <2>1
<1> QED BY <1>6, <1>7

LEMMA ColumnsFollows ==
  ASSUME NEW s, ReadsAs(s), Columns
  PROVE  StepFollows(s)
<1>1. PICK k, l, said, start :
        /\ k = Len(ast.columns) /\ l = Len(s.columns)
        /\ said = Created(Keys(ast.columns)) /\ start = ColumnStart(Keys(ast.columns))
  OBVIOUS
<1>2. at = "columns" /\ ast' = ast
  BY DEF Columns, Take
<1>3. TableHas(s, ast) /\ IF k < l THEN Sees(start, "identifier") ELSE k = l /\ Sees(said, ")")
  BY <1>1, <1>2, ColumnsSee
<1>4. CASE Take("columns", "identifier", "type")
  <2>1. at' = "type" /\ current_token' = current_token + 1 /\ Check("identifier")
    BY <1>4 DEF Take, Advance
  <2>2. k < l /\ Past(Append(start, "identifier"), current_token')
    BY <1>3, <2>1 DEF Sees
  <2>3. TableFollows(s, at', current_token', ast')
    BY <1>1, <1>2, <1>3, <2>1, <2>2 DEF TableFollows, ColumnRule
  <2>4. at' \in ColumnRule
    BY <2>1 DEF ColumnRule
  <2> QED BY <2>3, <2>4, FollowsTable DEF StepFollows
<1>5. CASE Take("columns", ")", "returned")
  <2>1. at' = "returned" /\ Check(")")
    BY <1>5 DEF Take
  <2>2. k = l
    BY <1>3, <2>1 DEF Sees
  <2>3. Shape(ast') = s
    BY <1>1, <1>2, <1>3, <2>2, TableShape DEF ReadsAs
  <2> QED BY <2>1, <2>3, FollowsReturned DEF StepFollows
<1>6. CASE ~Check("identifier") /\ ~Check(")")
  BY <1>3, <1>6 DEF Sees
<1> QED BY <1>4, <1>5, <1>6 DEF Columns

LEMMA SeparatorSees ==
  ASSUME NEW s, ReadsAs(s), at = "separator"
  PROVE  /\ TableHas(s, ast) /\ Len(ast.columns) # 0
         /\ Past(Created(Keys(ast.columns)), current_token)
         /\ IF Len(ast.columns) < Len(s.columns) THEN Sees(Created(Keys(ast.columns)), ",")
            ELSE Len(ast.columns) = Len(s.columns) /\ Sees(Created(Keys(ast.columns)), ")")
<1>1. PICK l, k, said : l = Len(s.columns) /\ k = Len(ast.columns) /\ said = Created(Keys(ast.columns))
  OBVIOUS
<1>2. TableHas(s, ast) /\ k # 0 /\ Past(said, current_token)
  BY <1>1 DEF ReadsAs, Follows, TableFollows, ColumnRule
<1>3. Reading /\ Kinds \in Seq(Kind) /\ "," \in Kind /\ ")" \in Kind
  BY DEF ReadsAs, Reading, Kind
<1>4. k \in Nat /\ k <= l /\ l \in Nat
  <2>1. k \in Nat /\ k <= l /\ s.columns \in Seq(BOOLEAN)
    BY <1>1, <1>2, TableAhead, TableIs DEF TableHas
  <2> QED BY <1>1, <2>1, LenProperties
<1>5. CASE k < l
  <2>1. Prefix(Append(said, ","), Kinds)
    BY <1>1, <1>2, <1>5, TableAhead
  <2>2. Sees(said, ",")
    BY <1>2, <1>3, <2>1, SeesIs
  <2> QED BY <1>1, <1>2, <1>5, <2>2
<1>6. CASE k = l
  <2>1. Prefix(Append(said, ")"), Kinds)
    BY <1>1, <1>2, <1>6, TableAhead
  <2>2. Sees(said, ")")
    BY <1>2, <1>3, <2>1, SeesIs
  <2>3. ~ (k < l)
    BY <1>4, <1>6
  <2> QED BY <1>1, <1>2, <1>6, <2>2, <2>3
<1>7. k < l \/ k = l
  BY <1>4
<1> QED BY <1>5, <1>6, <1>7

LEMMA CommaFollows ==
  ASSUME NEW s, ReadsAs(s), Comma
  PROVE  StepFollows(s)
<1>1. PICK k, l, said, start :
        /\ k = Len(ast.columns) /\ l = Len(s.columns)
        /\ said = Created(Keys(ast.columns)) /\ start = ColumnStart(Keys(ast.columns))
  OBVIOUS
<1>2. at = "separator" /\ at' = "columns" /\ ast' = ast
  BY DEF Comma, Take, Skip
<1>3. /\ TableHas(s, ast) /\ k # 0 /\ Past(said, current_token)
      /\ IF k < l THEN Sees(said, ",") ELSE k = l /\ Sees(said, ")")
  BY <1>1, <1>2, SeparatorSees
<1>4. start = Append(said, ",")
  <2>1. Keys(ast.columns) # <<>>
    <3>1. DOMAIN Keys(ast.columns) = DOMAIN ast.columns /\ ast.columns \in Seq(Column)
      BY <1>3 DEF Keys, TableHas, TableTree
    <3>2. k \in Nat /\ k # 0 /\ DOMAIN ast.columns = 1 .. k
      BY <1>1, <1>3, <3>1, LenProperties
    <3>3. 1 \in DOMAIN ast.columns
      BY <3>2
    <3> QED BY <3>1, <3>3
  <2> QED BY <1>1, <2>1 DEF ColumnStart
<1>5. Past(IF k < l THEN start ELSE said, current_token')
  <2>1. CASE Take("separator", ",", "columns")
    <3>1. Check(",") /\ current_token' = current_token + 1
      BY <2>1 DEF Take, Advance
    <3>2. k < l
      <4>1. ASSUME Sees(said, ")") PROVE FALSE
        <5>1. \A type : Check(type) <=> type = ")"
          BY <4>1 DEF Sees
        <5>2. Check(",") <=> "," = ")"
          BY <5>1
        <5> QED BY <3>1, <5>2
      <4> QED BY <1>3, <4>1
    <3>3. Past(Append(said, ","), current_token')
      BY <1>3, <3>1, <3>2 DEF Sees
    <3> QED BY <1>4, <3>2, <3>3
  <2>2. CASE Skip("separator", ",", "columns")
    <3>1. ~Check(",") /\ current_token' = current_token
      BY <2>2 DEF Skip, Stay
    <3>2. ~ (k < l)
      BY <1>3, <3>1 DEF Sees
    <3> QED BY <1>3, <3>1, <3>2
  <2> QED BY <2>1, <2>2 DEF Comma
<1>6. TableFollows(s, at', current_token', ast')
  BY <1>1, <1>2, <1>3, <1>5 DEF TableFollows, ColumnRule
<1>7. at' \in ColumnRule
  BY <1>2 DEF ColumnRule
<1> QED BY <1>6, <1>7, FollowsTable DEF StepFollows

LEMMA ColumnDefSees ==
  ASSUME NEW s, ReadsAs(s), at \in {"type", "constraint", "key"}
  PROVE  LET k == Len(ast.columns)
             named == Append(ColumnStart(Keys(ast.columns)), "identifier")
             typed == Append(named, "type")
         IN  /\ TableHas(s, ast) /\ k < Len(s.columns)
             /\ at = "type" => Sees(named, "type")
             /\ at = "constraint" => Past(typed, current_token)
             /\ at = "constraint" => (Check("primary") <=> s.columns[k + 1])
             /\ at = "constraint" /\ s.columns[k + 1] => Sees(typed, "primary")
             /\ at = "key" => s.columns[k + 1] /\ Sees(Append(typed, "primary"), "key")
<1>1. PICK c, k, keys, b : c = s.columns /\ k = Len(ast.columns) /\ keys = Keys(ast.columns) /\ b = ColumnStart(keys)
  OBVIOUS
<1>2. PICK named, typed : named = Append(b, "identifier") /\ typed = Append(named, "type")
  OBVIOUS
<1>3. /\ TableHas(s, ast) /\ k < Len(c)
      /\ at = "type" => Past(named, current_token)
      /\ at = "constraint" => Past(typed, current_token)
      /\ at = "key" => c[k + 1] /\ Past(Append(typed, "primary"), current_token)
  BY <1>1, <1>2 DEF ReadsAs, Follows, TableFollows, ColumnRule
<1>4. Reading /\ Kinds \in Seq(Kind)
  BY DEF ReadsAs, Reading
<1>5. PICK key : key = c[k + 1]
  OBVIOUS
<1>6. /\ k \in Nat /\ keys \in Seq(BOOLEAN) /\ b \in Seq(Kind)
      /\ key \in BOOLEAN
      /\ SameSeq(SubSeq(c, 1, k + 1), Append(keys, key))
      /\ Prefix(ColumnWritten(b, key), Kinds)
  BY <1>1, <1>3, <1>5, TableAhead
<1>7. /\ named \in Seq(Kind) /\ Prefix(typed, Kinds) /\ typed \in Seq(Kind)
      /\ key => /\ Prefix(Append(typed, "primary"), Kinds)
                /\ Prefix(Append(Append(typed, "primary"), "key"), Kinds)
  BY <1>2, <1>4, <1>6, ColumnGoesOn
<1>8. "type" \in Kind /\ "primary" \in Kind /\ "key" \in Kind /\ ")" \in Kind /\ "," \in Kind
  BY DEF Kind
<1>9. at = "type" => Sees(named, "type")
  <2>1. Prefix(Append(named, "type"), Kinds)
    BY <1>2, <1>7
  <2> QED BY <1>3, <1>4, <1>8, <2>1, SeesIs
<1>10. at = "key" => key /\ Sees(Append(typed, "primary"), "key")
  BY <1>3, <1>4, <1>5, <1>7, <1>8, SeesIs
<1>11. at = "constraint" /\ key => Sees(typed, "primary")
  BY <1>3, <1>4, <1>7, <1>8, SeesIs
<1>12. ASSUME at = "constraint", ~key PROVE ~Check("primary")
  <2>1. s.type = "CREATE_TABLE"
    BY <1>3 DEF TableHas
  <2>2. c \in Seq(BOOLEAN) /\ SameSeq(Kinds, Append(Created(c), ")"))
    BY <1>1, <2>1, TableIs
  <2>3. k + 1 \in 0 .. Len(c) /\ k + 1 # 0 /\ (k + 1 = Len(c) \/ k + 1 < Len(c))
    BY <1>3, <1>6, <2>2, LenProperties
  <2>4. PICK more : more = SubSeq(c, 1, k + 1)
    OBVIOUS
  <2>5. /\ k + 1 = Len(c) => Prefix(Append(Created(more), ")"), Kinds)
        /\ k + 1 < Len(c) => Prefix(Append(Created(more), ","), Kinds)
    <3>1. PICK j : j = k + 1
      OBVIOUS
    <3>2. j \in 0 .. Len(c) /\ j # 0 /\ more = SubSeq(c, 1, j)
      BY <2>3, <2>4, <3>1
    <3>3. /\ j = Len(c) => Prefix(Append(Created(more), ")"), Kinds)
          /\ j < Len(c) => Prefix(Append(Created(more), ","), Kinds)
      BY <1>4, <2>2, <3>2, AfterColumn
    <3> QED BY <3>1, <3>3
  <2>6. Created(more) = typed
    <3>1. more = Append(keys, FALSE)
      BY <1>6, <1>12, <2>4 DEF SameSeq
    <3>2. SameSeq(Created(Append(keys, FALSE)), ColumnWritten(b, FALSE))
      BY <1>1, <1>6, ColumnStartFacts
    <3> QED BY <1>2, <3>1, <3>2 DEF SameSeq, ColumnWritten
  <2>7. PICK t \in {")", ","} : Prefix(Append(typed, t), Kinds)
    BY <2>3, <2>5, <2>6
  <2>8. Sees(typed, t)
    BY <1>3, <1>4, <1>8, <1>12, <2>7, SeesIs
  <2>9. Check("primary") <=> "primary" = t
    BY <2>8 DEF Sees
  <2> QED BY <2>9
<1>13. at = "constraint" => (Check("primary") <=> key)
  <2>1. ASSUME at = "constraint", key PROVE Check("primary")
    BY <1>11, <2>1 DEF Sees
  <2> QED BY <1>6, <1>12, <2>1
<1> QED BY <1>1, <1>2, <1>3, <1>5, <1>9, <1>10, <1>11, <1>13

LEMMA AddedFollows ==
  ASSUME NEW s, ReadsAs(s), TableHas(s, ast), Len(ast.columns) < Len(s.columns),
         NEW key, key = s.columns[Len(ast.columns) + 1], NEW type \in Nat, type # 0,
         NEW n, Past(ColumnWritten(ColumnStart(Keys(ast.columns)), key), n)
  PROVE  Follows(s, "separator", n, Added(ast, type, key))
<1>1. PICK c, k, keys, b, tree :
        /\ c = s.columns /\ k = Len(ast.columns) /\ keys = Keys(ast.columns) /\ b = ColumnStart(keys)
        /\ tree = Added(ast, type, key)
  OBVIOUS
<1>2. /\ k \in Nat /\ keys \in Seq(BOOLEAN) /\ key \in BOOLEAN
      /\ SameSeq(SubSeq(c, 1, k + 1), Append(keys, key))
  BY <1>1, TableAhead
<1>3. TableTree(tree) /\ SameSeq(Keys(tree.columns), Append(keys, key))
  <2>1. TableTree(ast)
    BY DEF TableHas
  <2> QED BY <1>1, <1>2, <2>1, AddedFacts
<1>4. Len(tree.columns) = k + 1
  <2>1. ast.columns \in Seq(Column) /\ tree.columns \in Seq(Column)
    BY <1>3 DEF TableHas, TableTree
  <2>2. DOMAIN tree.columns = DOMAIN Keys(tree.columns) /\ DOMAIN ast.columns = DOMAIN keys
    BY <1>1 DEF Keys
  <2>3. Len(keys) = k
    BY <1>1, <1>2, <2>1, <2>2, LenProperties
  <2>4. PICK more : more = Append(keys, key)
    OBVIOUS
  <2>5. more \in Seq(BOOLEAN) /\ Len(more) = k + 1
    BY <1>2, <2>3, <2>4, AppendProperties
  <2>6. Keys(tree.columns) = more
    BY <1>3, <2>4 DEF SameSeq
  <2>7. PICK m : m = Len(tree.columns)
    OBVIOUS
  <2>8. m \in Nat /\ DOMAIN tree.columns = 1 .. m /\ DOMAIN more = 1 .. k + 1
    BY <2>1, <2>5, <2>7, LenProperties
  <2>9. 1 .. m = 1 .. k + 1
    BY <2>2, <2>6, <2>8
  <2> QED BY <1>2, <2>7, <2>8, <2>9
<1>5. s.type = "CREATE_TABLE" /\ c \in Seq(BOOLEAN)
  BY <1>1, TableIs DEF TableHas
<1>6. k + 1 <= Len(c) /\ k + 1 # 0
  <2>1. PICK l : l = Len(c)
    OBVIOUS
  <2>2. l \in Nat /\ k < l
    BY <1>1, <1>5, <2>1, LenProperties
  <2> QED BY <1>2, <2>1, <2>2
<1>7. TableHas(s, tree)
  <2>1. Keys(tree.columns) = SubSeq(c, 1, k + 1)
    BY <1>2, <1>3 DEF SameSeq
  <2> QED BY <1>1, <1>3, <1>4, <1>5, <1>6, <2>1 DEF TableHas
<1>8. Past(Created(Keys(tree.columns)), n)
  <2>1. SameSeq(Created(Append(keys, key)), ColumnWritten(b, key))
    BY <1>1, <1>2, ColumnStartFacts
  <2>2. Created(Keys(tree.columns)) = ColumnWritten(b, key)
    BY <1>3, <2>1 DEF SameSeq
  <2> QED BY <1>1, <2>2
<1>9. TableFollows(s, "separator", n, tree)
  BY <1>4, <1>6, <1>7, <1>8 DEF TableFollows, ColumnRule
<1> QED BY <1>1, <1>9, FollowsTable DEF ColumnRule

LEMMA ColumnDefFollows ==
  ASSUME NEW s, ReadsAs(s), ColumnDef
  PROVE  StepFollows(s)
<1>1. PICK c, k, b : c = s.columns /\ k = Len(ast.columns) /\ b = ColumnStart(Keys(ast.columns))
  OBVIOUS
<1>2. PICK named, typed : named = Append(b, "identifier") /\ typed = Append(named, "type")
  OBVIOUS
<1>3. at \in {"type", "constraint", "key"}
  BY DEF ColumnDef, Take, Skip
<1>4. /\ TableHas(s, ast) /\ k < Len(c)
      /\ at = "type" => Sees(named, "type")
      /\ at = "constraint" => Past(typed, current_token)
      /\ at = "constraint" => (Check("primary") <=> c[k + 1])
      /\ at = "constraint" /\ c[k + 1] => Sees(typed, "primary")
      /\ at = "key" => c[k + 1] /\ Sees(Append(typed, "primary"), "key")
  BY <1>1, <1>2, <1>3, ColumnDefSees
<1>5. PICK key : key = c[k + 1]
  OBVIOUS
<1>6. key \in BOOLEAN /\ b \in Seq(Kind)
  BY <1>1, <1>4, <1>5, TableAhead
<1>7. CASE Take("type", "type", "constraint") /\ UNCHANGED ast
  <2>1. at = "type" /\ at' = "constraint" /\ current_token' = current_token + 1 /\ ast' = ast
    BY <1>7 DEF Take, Advance
  <2>2. Past(typed, current_token')
    BY <1>2, <1>4, <2>1 DEF Sees
  <2>3. TableFollows(s, at', current_token', ast')
    BY <1>1, <1>2, <1>4, <2>1, <2>2 DEF TableFollows, ColumnRule
  <2>4. at' \in ColumnRule
    BY <2>1 DEF ColumnRule
  <2> QED BY <2>3, <2>4, FollowsTable DEF StepFollows
<1>8. CASE Take("constraint", "primary", "key") /\ UNCHANGED ast
  <2>1. at = "constraint" /\ at' = "key" /\ current_token' = current_token + 1 /\ ast' = ast /\ Check("primary")
    BY <1>8 DEF Take, Advance
  <2>2. c[k + 1] /\ Past(Append(typed, "primary"), current_token')
    BY <1>4, <2>1 DEF Sees
  <2>3. TableFollows(s, at', current_token', ast')
    BY <1>1, <1>2, <1>4, <2>1, <2>2 DEF TableFollows, ColumnRule
  <2>4. at' \in ColumnRule
    BY <2>1 DEF ColumnRule
  <2> QED BY <2>3, <2>4, FollowsTable DEF StepFollows
<1>9. CASE Take("key", "key", "separator") /\ AddColumn(current_token - 2, TRUE)
  <2>1. /\ at = "key" /\ at' = "separator" /\ current_token' = current_token + 1
        /\ ast' = Added(ast, current_token - 2, TRUE)
    BY <1>9 DEF Take, Advance, AddColumn, Added
  <2>2. key = TRUE /\ Past(Append(Append(typed, "primary"), "key"), current_token')
    BY <1>4, <1>5, <1>6, <2>1 DEF Sees
  <2>3. PICK n : n = current_token - 2
    OBVIOUS
  <2>4. n \in Nat /\ n # 0
    <3>1. PICK p, q : p = Append(typed, "primary") /\ q = Append(p, "key")
      OBVIOUS
    <3>2. named \in Seq(Kind) /\ typed \in Seq(Kind) /\ p \in Seq(Kind) /\ q \in Seq(Kind)
      <4>1. "identifier" \in Kind /\ "type" \in Kind /\ "primary" \in Kind /\ "key" \in Kind
        BY DEF Kind
      <4> QED BY <1>2, <1>6, <3>1, <4>1, AppendProperties
    <3>3. Len(q) = Len(b) + 4 /\ Len(b) \in Nat
      <4>1. "identifier" \in Kind /\ "type" \in Kind /\ "primary" \in Kind /\ "key" \in Kind
        BY DEF Kind
      <4>2. Len(named) = Len(b) + 1 /\ Len(typed) = Len(named) + 1 /\ Len(p) = Len(typed) + 1 /\ Len(q) = Len(p) + 1
        BY <1>2, <1>6, <3>1, <3>2, <4>1, AppendProperties
      <4> QED BY <1>6, <4>2, LenProperties
    <3>4. current_token' = Len(q) + 1
      BY <2>2, <3>1 DEF Past
    <3>5. current_token \in Nat
      BY DEF ReadsAs, Reading
    <3> QED BY <2>1, <2>3, <3>3, <3>4, <3>5
  <2>5. Past(ColumnWritten(b, key), current_token')
    BY <1>2, <2>2 DEF ColumnWritten
  <2>6. Follows(s, "separator", current_token', Added(ast, n, key))
    BY <1>1, <1>4, <1>5, <2>4, <2>5, AddedFollows
  <2> QED BY <2>1, <2>2, <2>3, <2>6 DEF StepFollows
<1>10. CASE Skip("constraint", "primary", "separator") /\ AddColumn(current_token - 1, FALSE)
  <2>1. /\ at = "constraint" /\ at' = "separator" /\ current_token' = current_token /\ ~Check("primary")
        /\ ast' = Added(ast, current_token - 1, FALSE)
    BY <1>10 DEF Skip, Stay, AddColumn, Added
  <2>2. key = FALSE /\ Past(typed, current_token')
    BY <1>4, <1>5, <1>6, <2>1
  <2>3. PICK n : n = current_token - 1
    OBVIOUS
  <2>4. n \in Nat /\ n # 0
    <3>1. "identifier" \in Kind /\ "type" \in Kind
      BY DEF Kind
    <3>2. named \in Seq(Kind) /\ Len(named) = Len(b) + 1 /\ Len(b) \in Nat
      BY <1>2, <1>6, <3>1, AppendProperties, LenProperties
    <3>3. Len(typed) = Len(named) + 1
      BY <1>2, <3>1, <3>2, AppendProperties
    <3>4. current_token = Len(typed) + 1
      BY <2>1, <2>2 DEF Past
    <3> QED BY <2>3, <3>2, <3>3, <3>4
  <2>5. Past(ColumnWritten(b, key), current_token')
    BY <1>2, <2>2 DEF ColumnWritten
  <2>6. Follows(s, "separator", current_token', Added(ast, n, key))
    BY <1>1, <1>4, <1>5, <2>4, <2>5, AddedFollows
  <2> QED BY <2>1, <2>2, <2>3, <2>6 DEF StepFollows
<1> QED BY <1>7, <1>8, <1>9, <1>10 DEF ColumnDef

\* SELECT: a comma and a column, or FROM.
LEMMA SelectIs ==
  ASSUME NEW s, ReadsAs(s), s.type = "SELECT"
  PROVE  LET l == Len(s.columns)
         IN  /\ l \in Nat /\ (l = 0 <=> s.columns = <<>>)
             /\ Prefix(Append(Append(Asked(l), "from"), "identifier"), Kinds)
             /\ \A k \in 1 .. l : k < l => Prefix(Append(Append(Asked(k), ","), "identifier"), Kinds)
<1>1. s.columns \in Seq(BOOLEAN) /\ Kinds \in Seq(Kind) /\ Kinds = Written(s)
  BY StatementFacts DEF ReadsAs, Reading
<1>2. PICK l \in Nat : l = Len(s.columns) /\ (l = 0 <=> s.columns = <<>>)
  BY <1>1, LenProperties, EmptySeq
<1>3. SameSeq(Kinds, Append(Append(Asked(l), "from"), "identifier"))
  BY <1>1, <1>2, WrittenSelect
<1> QED BY <1>1, <1>2, <1>3, AskedAhead

LEMMA SelectSees ==
  ASSUME NEW s, ReadsAs(s), at \in {"nextColumn", "column", "from", "fromTable"}
  PROVE  LET k == Len(ast.columns)
             l == Len(s.columns)
         IN  /\ s.type = "SELECT" /\ SelectTree(ast) /\ k \in Nat /\ l \in Nat /\ k <= l
             /\ at \in {"nextColumn", "column"} => k # 0
             /\ at = "nextColumn" => Past(Asked(k), current_token)
             /\ at = "nextColumn" /\ k < l => Sees(Asked(k), ",")
             /\ at = "nextColumn" /\ k = l => Sees(Asked(k), "from")
             /\ at = "column" => k < l /\ Sees(Append(Asked(k), ","), "identifier")
             /\ at \in {"from", "fromTable"} => k = l
             /\ at = "from" => Sees(Asked(k), "from")
             /\ at = "fromTable" => Sees(Append(Asked(k), "from"), "identifier")
<1>1. PICK k, l : k = Len(ast.columns) /\ l = Len(s.columns)
  OBVIOUS
<1>2. /\ s.type = "SELECT" /\ SelectTree(ast) /\ k <= l
      /\ at = "nextColumn" => k # 0 /\ Past(Asked(k), current_token)
      /\ at = "column" => k # 0 /\ k < l /\ Past(Append(Asked(k), ","), current_token)
      /\ at = "from" => k = l /\ Past(Asked(k), current_token)
      /\ at = "fromTable" => k = l /\ Past(Append(Asked(k), "from"), current_token)
  BY <1>1 DEF ReadsAs, Follows, SelectFollows
<1>3. Reading /\ Kinds \in Seq(Kind)
  BY DEF ReadsAs, Reading
<1>4. k \in Nat
  BY <1>1, <1>2, LenProperties DEF SelectTree
<1>5. /\ l \in Nat
      /\ Prefix(Append(Append(Asked(l), "from"), "identifier"), Kinds)
      /\ \A i \in 1 .. l : i < l => Prefix(Append(Append(Asked(i), ","), "identifier"), Kinds)
  BY <1>1, <1>2, SelectIs
<1>6. "," \in Kind /\ "from" \in Kind /\ "identifier" \in Kind
  BY DEF Kind
<1>7. PICK b : b = Asked(k)
  OBVIOUS
<1>8. b \in Seq(Kind) /\ Append(b, ",") \in Seq(Kind) /\ Append(b, "from") \in Seq(Kind)
  BY <1>4, <1>6, <1>7, AskedKind, AppendProperties
<1>9. k = l => Prefix(Append(Append(b, "from"), "identifier"), Kinds) /\ Prefix(Append(b, "from"), Kinds)
  <2>1. ASSUME k = l PROVE Prefix(Append(Append(b, "from"), "identifier"), Kinds)
    BY <1>5, <1>7, <2>1
  <2> QED BY <1>3, <1>6, <1>8, <2>1, PrefixOfAppended
<1>10. k # 0 /\ k < l => Prefix(Append(Append(b, ","), "identifier"), Kinds) /\ Prefix(Append(b, ","), Kinds)
  <2>1. ASSUME k # 0, k < l PROVE Prefix(Append(Append(b, ","), "identifier"), Kinds)
    <3>1. l \in Nat /\ k \in Nat /\ k # 0 /\ k < l
      BY <1>4, <1>5, <2>1
    <3>2. k \in 1 .. l
      BY <3>1
    <3> QED BY <1>5, <1>7, <2>1, <3>2
  <2> QED BY <1>3, <1>6, <1>8, <2>1, PrefixOfAppended
<1>11. at = "nextColumn" /\ k < l => Sees(b, ",")
  BY <1>2, <1>3, <1>6, <1>7, <1>10, SeesIs
<1>12. at = "nextColumn" /\ k = l => Sees(b, "from")
  BY <1>2, <1>3, <1>6, <1>7, <1>9, SeesIs
<1>13. at = "column" => Sees(Append(b, ","), "identifier")
  BY <1>2, <1>3, <1>6, <1>7, <1>10, SeesIs
<1>14. at = "from" => Sees(b, "from")
  BY <1>2, <1>3, <1>6, <1>7, <1>9, SeesIs
<1>15. at = "fromTable" => Sees(Append(b, "from"), "identifier")
  BY <1>2, <1>3, <1>6, <1>7, <1>9, SeesIs
<1> QED BY <1>1, <1>2, <1>4, <1>5, <1>7, <1>11, <1>12, <1>13, <1>14, <1>15

LEMMA SelectGoesOn ==
  ASSUME NEW s, NEW a \in {"nextColumn", "column", "from", "fromTable"}, NEW n, NEW tree,
         s.type = "SELECT", SelectTree(tree), NEW k \in Nat, k = Len(tree.columns), NEW l \in Nat, l = Len(s.columns),
         k <= l, a \in {"nextColumn", "column"} => k # 0,
         a = "column" => k < l, a \in {"from", "fromTable"} => k = l,
         Past(CASE a = "column" -> Append(Asked(k), ",")
                [] a = "fromTable" -> Append(Asked(k), "from")
                [] OTHER -> Asked(k), n)
  PROVE  Follows(s, a, n, tree)
<1>1. SelectFollows(s, a, n, tree)
  BY DEF SelectFollows
<1> QED BY <1>1, FollowsSelect

LEMMA SelectShape ==
  ASSUME NEW s, IsStatement(s), s.type = "SELECT", NEW cs \in Seq(Nat), Len(cs) = Len(s.columns), NEW m \in Nat, m # 0
  PROVE  Shape([type |-> "SELECT", name |-> m, columns |-> cs, sets |-> <<>>]) = s
<1>1. PICK c : c = s.columns
  OBVIOUS
<1>2. /\ s = [type |-> "SELECT", named |-> s.named, columns |-> c, sets |-> s.sets]
      /\ s.named \in BOOLEAN /\ s.named /\ c \in Seq(BOOLEAN) /\ s.sets = <<>> /\ \A i \in DOMAIN c : ~c[i]
  BY <1>1, StatementFacts
<1>3. PICK tree : tree = [type |-> "SELECT", name |-> m, columns |-> cs, sets |-> <<>>]
  OBVIOUS
<1>4. DOMAIN c = DOMAIN cs
  <2>1. PICK n \in Nat : n = Len(c) /\ n = Len(cs)
    BY <1>1, LenProperties
  <2> QED BY <1>2, <2>1, LenProperties
<1>5. [i \in DOMAIN cs |-> FALSE] = c
  <2>1. c = [i \in DOMAIN c |-> c[i]]
    BY <1>2
  <2>2. \A i \in DOMAIN c : c[i] = FALSE
    <3>1. \A i \in DOMAIN c : c[i] \in BOOLEAN
      BY <1>2, LenProperties, ElementOfSeq
    <3> QED BY <1>2, <3>1
  <2> QED BY <1>4, <2>1, <2>2
<1>6. Shape(tree) = [type |-> "SELECT", named |-> TRUE, columns |-> c, sets |-> <<>>]
  <2>1. [i \in DOMAIN tree.sets |-> Len(tree.sets[i])] = <<>>
    BY <1>3
  <2>2. tree.type = "SELECT" /\ tree.columns = cs /\ (tree.name # 0) = TRUE
    BY <1>3
  <2> QED BY <1>5, <2>1, <2>2 DEF Shape
<1>7. s.named = TRUE
  BY <1>2
<1> QED BY <1>2, <1>3, <1>6, <1>7

LEMMA SelectFollowsOn ==
  ASSUME NEW s, ReadsAs(s), Select
  PROVE  StepFollows(s)
<1>1. ASSUME at = "select", NEW t \in {"*", "identifier"}, Check(t)
      PROVE  /\ s.type = "SELECT" /\ (s.columns = <<>> <=> t = "*")
             /\ Past(Append(<<"select">>, t), current_token + 1)
  <2>1. at \in DOMAIN Beginning \ {"help", "exit"} /\ Beginning[at] = <<"select">>
    BY <1>1 DEF Beginning
  <2>2. s.type = "SELECT" /\ Sees(<<"select">>, NextAt(s, at))
    BY <1>1, <2>1, BeginningSees DEF TypesAt
  <2>3. NextAt(s, at) = IF s.columns = <<>> THEN "*" ELSE "identifier"
    BY <1>1 DEF NextAt
  <2>4. t = NextAt(s, at)
    BY <1>1, <2>2 DEF Sees
  <2>5. Past(Append(<<"select">>, t), current_token + 1)
    BY <2>2, <2>4 DEF Sees
  <2> QED BY <1>1, <2>2, <2>3, <2>4, <2>5
<1>2. CASE Take("select", "*", "from") /\ ast' = Tree("SELECT")
  <2>1. at = "select" /\ at' = "from" /\ current_token' = current_token + 1 /\ Check("*")
    BY <1>2 DEF Take, Advance
  <2>2. s.type = "SELECT" /\ s.columns = <<>> /\ Past(Append(<<"select">>, "*"), current_token')
    BY <1>1, <2>1
  <2>3. SelectTree(ast') /\ ast'.columns = <<>>
    BY <1>2 DEF SelectTree, Tree
  <2>4. Append(<<"select">>, "*") = Asked(0)
    <3>1. "select" \in Kind /\ "*" \in Kind /\ 0 \in Nat
      BY DEF Kind
    <3> QED BY <3>1, AskedFacts, Pairs DEF SameSeq
  <2>5. 0 \in Nat /\ 0 = Len(ast'.columns) /\ 0 = Len(s.columns) /\ 0 <= 0
    BY <2>2, <2>3
  <2> QED BY <2>1, <2>2, <2>3, <2>4, <2>5, SelectGoesOn DEF StepFollows
<1>3. CASE /\ at = "select" /\ Take("select", "identifier", "nextColumn")
           /\ ast' = [Tree("SELECT") EXCEPT !.columns = <<current_token>>]
  <2>1. at = "select" /\ at' = "nextColumn" /\ current_token' = current_token + 1 /\ Check("identifier")
    BY <1>3 DEF Take, Advance
  <2>2. s.type = "SELECT" /\ s.columns # <<>> /\ Past(Append(<<"select">>, "identifier"), current_token')
    BY <1>1, <2>1
  <2>3. SelectTree(ast') /\ Len(ast'.columns) = 1
    <3>1. PICK n : n = current_token
      OBVIOUS
    <3>2. n \in Nat
      BY <3>1 DEF ReadsAs, Reading
    <3>3. ast' = [type |-> "SELECT", name |-> 0, columns |-> <<n>>, sets |-> <<>>]
      BY <1>3, <3>1 DEF Tree
    <3>4. <<n>> \in Seq(Nat) /\ Len(<<n>>) = 1
      BY <3>2
    <3> QED BY <3>3, <3>4 DEF SelectTree
  <2>4. Append(<<"select">>, "identifier") = Asked(1)
    <3>1. "select" \in Kind /\ "identifier" \in Kind /\ 1 \in Nat
      BY DEF Kind
    <3> QED BY <3>1, AskedFacts, Pairs DEF SameSeq
  <2>5. PICK l \in Nat : l = Len(s.columns) /\ l # 0
    BY <2>2, SelectIs
  <2>6. PICK k \in Nat : k = 1
    OBVIOUS
  <2>7. k = Len(ast'.columns) /\ k <= l /\ k # 0 /\ Past(Asked(k), current_token')
    <3>1. k <= l /\ k # 0
      BY <2>5, <2>6
    <3>2. Past(Asked(1), current_token')
      BY <2>1, <2>2, <2>4
    <3> QED BY <2>3, <2>6, <3>1, <3>2
  <2> QED BY <2>1, <2>2, <2>3, <2>5, <2>7, SelectGoesOn DEF StepFollows
<1>4. ASSUME at \in {"nextColumn", "column"}
      PROVE  \E k, l \in Nat :
               /\ k = Len(ast.columns) /\ l = Len(s.columns)
               /\ s.type = "SELECT" /\ SelectTree(ast) /\ k # 0 /\ (k < l \/ k = l)
               /\ at = "nextColumn" => Past(Asked(k), current_token)
               /\ at = "nextColumn" /\ k < l => Sees(Asked(k), ",")
               /\ at = "nextColumn" /\ k = l => Sees(Asked(k), "from")
               /\ at = "column" => k < l /\ Sees(Append(Asked(k), ","), "identifier")
  <2>1. PICK k, l : k = Len(ast.columns) /\ l = Len(s.columns)
    OBVIOUS
  <2>2. k \in Nat /\ l \in Nat /\ k <= l
    BY <1>4, <2>1, SelectSees
  <2>3. k < l \/ k = l
    BY <2>2
  <2>4. /\ s.type = "SELECT" /\ SelectTree(ast) /\ k # 0
        /\ at = "nextColumn" => Past(Asked(k), current_token)
        /\ at = "nextColumn" /\ k < l => Sees(Asked(k), ",")
        /\ at = "nextColumn" /\ k = l => Sees(Asked(k), "from")
        /\ at = "column" => k < l /\ Sees(Append(Asked(k), ","), "identifier")
    BY <1>4, <2>1, SelectSees
  <2> QED BY <2>1, <2>2, <2>3, <2>4
<1>5. CASE Take("nextColumn", ",", "column") /\ UNCHANGED ast
  <2>1. at = "nextColumn" /\ at' = "column" /\ current_token' = current_token + 1 /\ ast' = ast /\ Check(",")
    BY <1>5 DEF Take, Advance
  <2>2. PICK k, l \in Nat :
          /\ k = Len(ast.columns) /\ l = Len(s.columns)
          /\ s.type = "SELECT" /\ SelectTree(ast) /\ k # 0 /\ (k < l \/ k = l)
          /\ k < l => Sees(Asked(k), ",")
          /\ k = l => Sees(Asked(k), "from")
    BY <1>4, <2>1
  <2>3. ASSUME Sees(Asked(k), "from") PROVE FALSE
    <3>1. \A type : Check(type) <=> type = "from"
      BY <2>3 DEF Sees
    <3>2. Check(",") <=> "," = "from"
      BY <3>1
    <3> QED BY <2>1, <3>2
  <2>4. k < l /\ k <= l
    <3>1. k < l
      BY <2>2, <2>3
    <3>2. k \in Nat /\ l \in Nat
      BY <2>2
    <3> QED BY <3>1, <3>2
  <2>5. Past(Append(Asked(k), ","), current_token')
    BY <2>1, <2>2, <2>4 DEF Sees
  <2> QED BY <2>1, <2>2, <2>4, <2>5, SelectGoesOn DEF StepFollows
<1>6. CASE Skip("nextColumn", ",", "from") /\ UNCHANGED ast
  <2>1. at = "nextColumn" /\ at' = "from" /\ current_token' = current_token /\ ast' = ast /\ ~Check(",")
    BY <1>6 DEF Skip, Stay
  <2>2. PICK k, l \in Nat :
          /\ k = Len(ast.columns) /\ l = Len(s.columns)
          /\ s.type = "SELECT" /\ SelectTree(ast) /\ k # 0 /\ (k < l \/ k = l)
          /\ Past(Asked(k), current_token)
          /\ k < l => Sees(Asked(k), ",")
    BY <1>4, <2>1
  <2>3. ~Sees(Asked(k), ",")
    BY <2>1 DEF Sees
  <2>4. k = l /\ k <= l
    <3>1. k = l
      BY <2>2, <2>3
    <3>2. k \in Nat
      BY <2>2
    <3> QED BY <3>1, <3>2
  <2> QED BY <2>1, <2>2, <2>4, SelectGoesOn DEF StepFollows
<1>7. CASE /\ Take("column", "identifier", "nextColumn")
           /\ ast' = [ast EXCEPT !.columns = Append(@, current_token)]
  <2>1. at = "column" /\ at' = "nextColumn" /\ current_token' = current_token + 1
    BY <1>7 DEF Take, Advance
  <2>2. PICK k, l \in Nat :
          /\ k = Len(ast.columns) /\ l = Len(s.columns)
          /\ s.type = "SELECT" /\ SelectTree(ast) /\ k # 0 /\ k < l
          /\ Sees(Append(Asked(k), ","), "identifier")
    BY <1>4, <2>1
  <2>3. SelectTree(ast') /\ Len(ast'.columns) = k + 1
    <3>1. PICK n, cs : n = current_token /\ cs = ast.columns
      OBVIOUS
    <3>2. n \in Nat /\ cs \in Seq(Nat) /\ ast = [type |-> "SELECT", name |-> 0, columns |-> cs, sets |-> <<>>]
      <4>1. SelectTree(ast) /\ n \in Nat
        <5>1. SelectTree(ast)
          BY <2>2
        <5>2. n \in Nat
          BY <3>1 DEF ReadsAs, Reading
        <5> QED BY <5>1, <5>2
      <4> QED BY <3>1, <4>1 DEF SelectTree
    <3>3. ast' = [type |-> "SELECT", name |-> 0, columns |-> Append(cs, n), sets |-> <<>>]
      <4>1. ast' = [ast EXCEPT !.columns = Append(cs, n)]
        BY <1>7, <3>1
      <4> QED BY <3>2, <4>1
    <3>4. PICK more : more = Append(cs, n)
      OBVIOUS
    <3>5. more \in Seq(Nat) /\ Len(more) = k + 1
      <4>1. cs \in Seq(Nat) /\ n \in Nat
        BY <3>2
      <4>2. Len(cs) = k
        BY <2>2, <3>1
      <4>3. Append(cs, n) \in Seq(Nat) /\ Len(Append(cs, n)) = Len(cs) + 1
        BY <4>1, AppendProperties
      <4> QED BY <3>4, <4>2, <4>3
    <3>6. ast'.type = "SELECT" /\ ast'.name = 0 /\ ast'.columns = more /\ ast'.sets = <<>>
      BY <3>3, <3>4
    <3>7. ast' = [type |-> "SELECT", name |-> 0, columns |-> more, sets |-> <<>>]
      BY <3>3, <3>4
    <3> QED BY <3>5, <3>6, <3>7 DEF SelectTree
  <2>4. Past(Asked(k + 1), current_token')
    <3>1. Asked(k + 1) = Append(Append(Asked(k), ","), "identifier")
      BY <2>2, AskedFacts
    <3> QED BY <2>1, <2>2, <3>1 DEF Sees
  <2>5. PICK j \in Nat : j = k + 1 /\ j # 0 /\ j <= l
    <3>1. k \in Nat /\ l \in Nat /\ k < l
      BY <2>2
    <3> QED BY <3>1
  <2>6. j = Len(ast'.columns) /\ Past(Asked(j), current_token')
    BY <2>3, <2>4, <2>5
  <2> QED BY <2>1, <2>2, <2>3, <2>5, <2>6, SelectGoesOn DEF StepFollows
<1>8. CASE Skip("column", "identifier", "from") /\ UNCHANGED ast
  <2>1. at = "column" /\ ~Check("identifier")
    BY <1>8 DEF Skip
  <2>2. PICK p : Sees(p, "identifier")
    BY <1>4, <2>1
  <2> QED BY <2>1, <2>2 DEF Sees
<1> QED BY <1>2, <1>3, <1>5, <1>6, <1>7, <1>8 DEF Select

LEMMA FromFollows ==
  ASSUME NEW s, ReadsAs(s), From
  PROVE  StepFollows(s)
<1>1. PICK k, l : k = Len(ast.columns) /\ l = Len(s.columns)
  OBVIOUS
<1>2. at \in {"from", "fromTable"}
  BY DEF From, Take
<1>3. /\ s.type = "SELECT" /\ SelectTree(ast) /\ k \in Nat /\ k = l
      /\ at = "from" => Sees(Asked(k), "from")
  BY <1>1, <1>2, SelectSees
<1>4. CASE Take("from", "from", "fromTable") /\ UNCHANGED ast
  <2>1. at = "from" /\ at' = "fromTable" /\ current_token' = current_token + 1 /\ ast' = ast
    BY <1>4 DEF Take, Advance
  <2>2. Past(Append(Asked(k), "from"), current_token')
    BY <1>3, <2>1 DEF Sees
  <2>3. k <= k
    BY <1>3
  <2> QED BY <1>1, <1>3, <2>1, <2>2, <2>3, SelectGoesOn DEF StepFollows
<1>5. CASE Take("fromTable", "identifier", "returned") /\ ast' = [ast EXCEPT !.name = current_token]
  <2>1. at' = "returned"
    BY <1>5 DEF Take
  <2>2. PICK n, cs : n = current_token /\ cs = ast.columns
    OBVIOUS
  <2>3. n \in Nat /\ n # 0 /\ cs \in Seq(Nat) /\ ast = [type |-> "SELECT", name |-> 0, columns |-> cs, sets |-> <<>>]
    BY <1>3, <2>2 DEF ReadsAs, Reading, SelectTree
  <2>4. ast' = [type |-> "SELECT", name |-> n, columns |-> cs, sets |-> <<>>]
    BY <1>5, <2>2, <2>3
  <2>5. Len(cs) = Len(s.columns) /\ IsStatement(s)
    BY <1>1, <1>3, <2>2 DEF ReadsAs
  <2>6. Shape([type |-> "SELECT", name |-> n, columns |-> cs, sets |-> <<>>]) = s
    BY <1>3, <2>3, <2>5, SelectShape
  <2> QED BY <2>1, <2>4, <2>6, FollowsReturned DEF StepFollows
<1> QED BY <1>4, <1>5 DEF From

\* INSERT: rows of values, and the commas between them.
LEMMA InsertIs ==
  ASSUME NEW s, ReadsAs(s), s.type \in {"INSERT", "INSERT_BULK"}
  PROVE  /\ s.sets \in Seq(Nat) /\ Len(s.sets) \in Nat /\ Len(s.sets) # 0
         /\ Reading /\ Kinds \in Seq(Kind)
         /\ SameSeq(Kinds, Values(s.sets)) /\ Prefix(Values(s.sets), Kinds)
<1>1. s.sets \in Seq(Nat) /\ Reading /\ Kinds \in Seq(Kind) /\ Kinds = Written(s)
  BY StatementFacts DEF ReadsAs, Reading
<1>2. Len(s.sets) \in Nat /\ Len(s.sets) # 0
  <2>1. PICK n : n = Len(s.sets)
    OBVIOUS
  <2>2. n \in Nat /\ (n = 1 \/ n > 1)
    BY <1>1, <2>1, LenProperties, StatementFacts DEF ReadsAs
  <2>3. n \in Nat /\ n # 0
    BY <2>2
  <2> QED BY <2>1, <2>3
<1>3. SameSeq(Kinds, Values(s.sets))
  BY <1>1, WrittenInsert
<1>4. Prefix(Values(s.sets), Kinds)
  BY <1>1, <1>3, PrefixOfItself DEF SameSeq
<1> QED BY <1>1, <1>2, <1>3, <1>4

LEMMA ValuesSee ==
  ASSUME NEW s, ReadsAs(s), at = "values"
  PROVE  /\ s.type \in {"INSERT", "INSERT_BULK"} /\ InsertTree(ast) /\ ast.sets = <<>>
         /\ Sees(<<"insert", "into", "identifier">>, "values")
<1>1. /\ s.type \in {"INSERT", "INSERT_BULK"} /\ InsertTree(ast) /\ ast.sets = <<>>
      /\ Past(<<"insert", "into", "identifier">>, current_token)
  BY DEF ReadsAs, Follows, InsertFollows
<1>2. Reading /\ Kinds \in Seq(Kind) /\ Kinds = Written(s) /\ IsStatement(s) /\ s.type # "SELECT"
  BY <1>1 DEF ReadsAs, Reading
<1>3. Prefix(<<"insert", "into", "identifier", "values">>, Kinds)
  <2>1. /\ Heads["INSERT"] = <<"insert", "into", "identifier", "values">>
        /\ Heads["INSERT_BULK"] = <<"insert", "into", "identifier", "values">>
    BY DEF Heads, ValuesStart
  <2>2. Prefix(Heads[s.type], Kinds)
    BY <1>2, HeadBegins
  <2> QED BY <1>1, <2>1, <2>2
<1>4. "insert" \in Kind /\ "into" \in Kind /\ "identifier" \in Kind /\ "values" \in Kind
  BY DEF Kind
<1>5. Prefix(Append(<<"insert", "into", "identifier">>, "values"), Kinds)
  BY <1>2, <1>3, <1>4, HeadOfFour
<1> QED BY <1>1, <1>2, <1>4, <1>5, SeesIs

LEMMA InsertFollowsOn ==
  ASSUME NEW s, ReadsAs(s), Insert
  PROVE  StepFollows(s)
<1>0. "insert" \in Kind /\ "into" \in Kind /\ "identifier" \in Kind /\ "values" \in Kind
  BY DEF Kind
<1>1. CASE Take("insert", "into", "into") /\ UNCHANGED ast
  <2>1. at = "insert" /\ at' = "into" /\ current_token' = current_token + 1
    BY <1>1 DEF Take, Advance
  <2>2. at \in DOMAIN Beginning \ {"help", "exit"} /\ Beginning[at] = <<"insert">> /\ NextAt(s, at) = "into"
    BY <2>1 DEF Beginning, NextAt
  <2>3. s.type \in {"INSERT", "INSERT_BULK"} /\ Sees(<<"insert">>, "into")
    BY <2>1, <2>2, BeginningSees DEF TypesAt
  <2>4. Append(<<"insert">>, "into") = <<"insert", "into">>
    BY <1>0, Pairs DEF SameSeq
  <2>5. Past(<<"insert", "into">>, current_token')
    BY <2>1, <2>3, <2>4 DEF Sees
  <2>6. at' \in DOMAIN Beginning /\ Beginning[at'] = <<"insert", "into">> /\ TypesAt[at'] = {"INSERT", "INSERT_BULK"}
    BY <2>1 DEF Beginning, TypesAt
  <2> QED BY <2>3, <2>5, <2>6, FollowsBeginning DEF StepFollows
<1>2. CASE Take("into", "identifier", "values") /\ ast' = [Tree("INSERT") EXCEPT !.name = current_token]
  <2>1. at = "into" /\ at' = "values" /\ current_token' = current_token + 1
    BY <1>2 DEF Take, Advance
  <2>2. at \in DOMAIN Beginning \ {"help", "exit"} /\ Beginning[at] = <<"insert", "into">> /\ NextAt(s, at) = "identifier"
    BY <2>1 DEF Beginning, NextAt
  <2>3. s.type \in {"INSERT", "INSERT_BULK"} /\ Sees(<<"insert", "into">>, "identifier")
    BY <2>1, <2>2, BeginningSees DEF TypesAt
  <2>4. Append(<<"insert", "into">>, "identifier") = <<"insert", "into", "identifier">>
    BY <1>0, Appends DEF SameSeq
  <2>5. Past(<<"insert", "into", "identifier">>, current_token')
    BY <2>1, <2>3, <2>4 DEF Sees
  <2>6. PICK n : n = current_token
    OBVIOUS
  <2>7. n \in Nat \ {0}
    BY <2>6 DEF ReadsAs, Reading
  <2>8. ast' = WithSets(n, <<>>)
    BY <1>2, <2>6 DEF Tree, WithSets
  <2>9. InsertTree(ast') /\ ast'.sets = <<>>
    <3>1. <<>> \in Seq(Seq(Nat))
      OBVIOUS
    <3> QED BY <2>7, <2>8, <3>1, WithSetsIs
  <2>10. InsertFollows(s, at', current_token', ast')
    BY <2>1, <2>3, <2>5, <2>9 DEF InsertFollows
  <2> QED BY <2>1, <2>10, FollowsInsert DEF StepFollows
<1>3. CASE Take("values", "values", "set") /\ UNCHANGED ast
  <2>1. at = "values" /\ at' = "set" /\ current_token' = current_token + 1 /\ ast' = ast
    BY <1>3 DEF Take, Advance
  <2>2. s.type \in {"INSERT", "INSERT_BULK"} /\ InsertTree(ast) /\ ast.sets = <<>>
    BY <2>1, ValuesSee
  <2>3. s.sets \in Seq(Nat) /\ Len(s.sets) \in Nat /\ Len(s.sets) # 0
    BY <2>2, InsertIs
  <2>4. Sees(<<"insert", "into", "identifier">>, "values")
    BY <2>1, ValuesSee
  <2>5. Past(ValuesStart, current_token')
    <3>1. Append(<<"insert", "into", "identifier">>, "values") = ValuesStart
      <4>1. Append(<<"insert", "into", "identifier">>, "values") = <<"insert", "into", "identifier", "values">>
        BY <1>0, FourTokens DEF SameSeq
      <4> QED BY <4>1 DEF ValuesStart
    <3> QED BY <2>1, <2>4, <3>1 DEF Sees
  <2>6. Lengths(ast'.sets) = <<>> /\ Len(ast'.sets) = 0
    BY <2>1, <2>2 DEF Lengths
  <2>7. RowStart(<<>>) = ValuesStart
    <3>1. <<>> \in Seq(Nat) /\ 0 \in Nat
      OBVIOUS
    <3>2. Values(<<>>) = ValuesStart
      BY <3>1, ValuesFacts
    <3> QED BY <3>2 DEF RowStart
  <2>8. InsertHas(s, ast'.sets)
    <3>1. SubSeq(s.sets, 1, 0) = <<>>
      BY <2>3, SubEnds DEF SameSeq
    <3>2. 0 <= Len(s.sets)
      BY <2>3
    <3>3. ast'.sets \in Seq(Seq(Nat))
      BY <2>1, <2>2
    <3> QED BY <2>2, <2>6, <3>1, <3>2, <3>3 DEF InsertHas
  <2>9. 0 < Len(s.sets)
    BY <2>3
  <2>10. InsertFollows(s, at', current_token', ast')
    BY <2>1, <2>2, <2>5, <2>6, <2>7, <2>8, <2>9 DEF InsertFollows
  <2> QED BY <2>1, <2>10, FollowsInsert DEF StepFollows
<1> QED BY <1>1, <1>2, <1>3 DEF Insert

LEMMA RowsAhead ==
  ASSUME NEW s, ReadsAs(s), NEW rows, InsertHas(s, rows), NEW k, k = Len(rows), k < Len(s.sets),
         NEW ns, ns = Lengths(rows), NEW m, m = s.sets[k + 1]
  PROVE  /\ k \in Nat /\ ns \in Seq(Nat) /\ m \in Nat
         /\ SameSeq(SubSeq(s.sets, 1, k + 1), Append(ns, m))
         /\ Prefix(Append(RowStart(ns), "("), Kinds)
         /\ Prefix(Append(Given(ns, m), ")"), Kinds)
         /\ \A j \in 0 .. m : j < m => Prefix(Append(LiteralStart(ns, j), "literal"), Kinds)
<1>1. s.type \in {"INSERT", "INSERT_BULK"} /\ rows \in Seq(Seq(Nat)) /\ ns = SubSeq(s.sets, 1, k)
  BY DEF InsertHas
<1>2. s.sets \in Seq(Nat) /\ Kinds \in Seq(Kind) /\ Prefix(Values(s.sets), Kinds)
  BY <1>1, InsertIs
<1>3. k \in Nat
  BY <1>1, LenProperties
<1> QED BY <1>1, <1>2, <1>3, RowAhead

LEMMA SetSees ==
  ASSUME NEW s, ReadsAs(s), at = "set"
  PROVE  /\ InsertTree(ast) /\ InsertHas(s, ast.sets) /\ Len(ast.sets) < Len(s.sets)
         /\ Sees(RowStart(Lengths(ast.sets)), "(")
<1>1. /\ InsertTree(ast) /\ InsertHas(s, ast.sets) /\ Len(ast.sets) < Len(s.sets)
      /\ Past(RowStart(Lengths(ast.sets)), current_token)
  BY DEF ReadsAs, Follows, InsertFollows
<1>2. Prefix(Append(RowStart(Lengths(ast.sets)), "("), Kinds)
  BY <1>1, RowsAhead
<1>3. "(" \in Kind /\ Reading
  BY DEF Kind, ReadsAs
<1> QED BY <1>1, <1>2, <1>3, SeesIs

\* The row that is being read.
RowHas(s, rows, row) ==
  /\ rows \in Seq(Seq(Nat)) /\ row \in Seq(Nat)
  /\ InsertTree(ast) /\ ast.sets = Append(rows, row)
  /\ InsertHas(s, rows) /\ Len(rows) < Len(s.sets) /\ Len(row) <= s.sets[Len(rows) + 1]

LEMMA LiteralsSee ==
  ASSUME NEW s, ReadsAs(s), at \in {"literals", "literalComma"}
  PROVE  \E rows, row :
           LET ns == Lengths(rows)
               j == Len(row)
               m == s.sets[Len(rows) + 1]
           IN  /\ RowHas(s, rows, row) /\ j \in Nat /\ m \in Nat /\ ns \in Seq(Nat)
               /\ at = "literals" /\ j < m => Sees(LiteralStart(ns, j), "literal")
               /\ at = "literals" /\ j = m => Sees(Given(ns, j), ")")
               /\ at = "literalComma" => j # 0 /\ Past(Given(ns, j), current_token)
               /\ at = "literalComma" /\ j < m => Sees(Given(ns, j), ",")
               /\ at = "literalComma" /\ j = m => Sees(Given(ns, j), ")")
<1>1. PICK rows \in Seq(Seq(Nat)), row \in Seq(Nat) :
        /\ InsertTree(ast) /\ ast.sets = Append(rows, row)
        /\ InsertHas(s, rows) /\ Len(rows) < Len(s.sets) /\ Len(row) <= s.sets[Len(rows) + 1]
        /\ at = "literals" =>
             Past(IF Len(row) < s.sets[Len(rows) + 1] THEN LiteralStart(Lengths(rows), Len(row))
                  ELSE Given(Lengths(rows), Len(row)), current_token)
        /\ at = "literalComma" => Len(row) # 0 /\ Past(Given(Lengths(rows), Len(row)), current_token)
  BY DEF ReadsAs, Follows, InsertFollows
<1>2. PICK ns, k, j, m : ns = Lengths(rows) /\ k = Len(rows) /\ j = Len(row) /\ m = s.sets[k + 1]
  OBVIOUS
<1>3. RowHas(s, rows, row)
  BY <1>1 DEF RowHas
<1>4. /\ InsertHas(s, rows) /\ k < Len(s.sets) /\ j <= m
      /\ at = "literals" => Past(IF j < m THEN LiteralStart(ns, j) ELSE Given(ns, j), current_token)
      /\ at = "literalComma" => j # 0 /\ Past(Given(ns, j), current_token)
  BY <1>1, <1>2
<1>5. /\ ns \in Seq(Nat) /\ m \in Nat
      /\ Prefix(Append(Given(ns, m), ")"), Kinds)
      /\ \A i \in 0 .. m : i < m => Prefix(Append(LiteralStart(ns, i), "literal"), Kinds)
  BY <1>2, <1>4, RowsAhead
<1>6. j \in Nat
  BY <1>2, LenProperties
<1>7. Reading /\ Kinds \in Seq(Kind) /\ "literal" \in Kind /\ ")" \in Kind /\ "," \in Kind
  BY DEF ReadsAs, Reading, Kind
<1>8. ASSUME j < m PROVE Prefix(Append(LiteralStart(ns, j), "literal"), Kinds)
  <2>1. m \in Nat /\ j \in Nat
    BY <1>5, <1>6
  <2>2. j \in 0 .. m
    BY <1>8, <2>1
  <2> QED BY <1>5, <1>8, <2>2
<1>9. ASSUME at = "literals", j < m PROVE Sees(LiteralStart(ns, j), "literal")
  BY <1>4, <1>7, <1>8, <1>9, SeesIs
<1>10. ASSUME j = m PROVE ~ (j < m) /\ Prefix(Append(Given(ns, j), ")"), Kinds)
  <2>1. j \in Nat
    BY <1>6
  <2>2. ~ (j < m)
    BY <1>10, <2>1
  <2> QED BY <1>5, <1>10, <2>2
<1>11. ASSUME at = "literals", j = m PROVE Sees(Given(ns, j), ")")
  BY <1>4, <1>7, <1>10, <1>11, SeesIs
<1>12. ASSUME at = "literalComma", j = m PROVE Sees(Given(ns, j), ")")
  BY <1>4, <1>7, <1>10, <1>12, SeesIs
<1>13. ASSUME at = "literalComma", j < m PROVE Sees(Given(ns, j), ",")
  <2>1. LiteralStart(ns, j) = Append(Given(ns, j), ",") /\ LiteralStart(ns, j) \in Seq(Kind)
    <3>1. j # 0
      BY <1>4, <1>13
    <3> QED BY <1>5, <1>6, <3>1, StartFacts DEF LiteralStart
  <2>2. Prefix(LiteralStart(ns, j), Kinds)
    BY <1>7, <1>8, <1>13, <2>1, PrefixOfAppended
  <2>3. Prefix(Append(Given(ns, j), ","), Kinds)
    BY <2>1, <2>2
  <2> QED BY <1>4, <1>7, <1>13, <2>3, SeesIs
<1> QED BY <1>2, <1>3, <1>4, <1>5, <1>6, <1>9, <1>11, <1>12, <1>13

LEMMA RowAdded ==
  ASSUME NEW tree, InsertTree(tree), NEW grown, grown = [tree EXCEPT !.sets = Append(@, <<>>)]
  PROVE  InsertTree(grown) /\ grown.sets = Append(tree.sets, <<>>)
<1>1. PICK k, sets : k = tree.name /\ sets = tree.sets
  OBVIOUS
<1>2. k \in Nat \ {0} /\ sets \in Seq(Seq(Nat)) /\ tree = WithSets(k, sets)
  BY <1>1 DEF InsertTree, WithSets
<1>3. grown = WithSets(k, Append(sets, <<>>))
  BY <1>2 DEF WithSets
<1>4. PICK more : more = Append(sets, <<>>)
  OBVIOUS
<1>5. <<>> \in Seq(Nat) /\ more \in Seq(Seq(Nat)) /\ grown = WithSets(k, more)
  BY <1>2, <1>3, <1>4, AppendProperties
<1>6. InsertTree(grown) /\ grown.sets = more /\ grown.name = k
  BY <1>2, <1>5, WithSetsIs
<1> QED BY <1>1, <1>4, <1>6

RowsAre(tree, rows, row) ==
  InsertTree(tree) /\ rows \in Seq(Seq(Nat)) /\ row \in Seq(Nat) /\ tree.sets = Append(rows, row)
LastRowGrows(tree, n, grown) ==
  n \in Nat /\ grown = [tree EXCEPT !.sets[Len(tree.sets)] = Append(@, n)]

LEMMA RowGrows ==
  ASSUME NEW tree, NEW rows, NEW row, RowsAre(tree, rows, row),
         NEW n, NEW grown, LastRowGrows(tree, n, grown)
  PROVE  RowsAre(grown, rows, Append(row, n))
<1>0. /\ InsertTree(tree) /\ rows \in Seq(Seq(Nat)) /\ row \in Seq(Nat) /\ tree.sets = Append(rows, row)
      /\ n \in Nat
  BY DEF RowsAre, LastRowGrows
<1>1. PICK k, sets, m : k = tree.name /\ sets = tree.sets /\ m = Len(tree.sets)
  OBVIOUS
<1>2. k \in Nat \ {0} /\ tree = WithSets(k, sets)
  BY <1>0, <1>1 DEF InsertTree, WithSets
<1>3. grown = WithSets(k, [sets EXCEPT ![m] = Append(@, n)])
  <2>1. SameSeq([tree EXCEPT !.sets[m] = Append(@, n)], WithSets(k, [sets EXCEPT ![m] = Append(@, n)]))
    BY <1>2, SetsChange
  <2> QED BY <1>1, <2>1 DEF SameSeq, LastRowGrows
<1>4. PICK next, more : next = Append(row, n) /\ more = Append(rows, next)
  OBVIOUS
<1>5. SameSeq([sets EXCEPT ![Len(sets)] = Append(@, n)], more)
  BY <1>0, <1>1, <1>4, LastChanges
<1>6. grown = WithSets(k, more)
  BY <1>1, <1>3, <1>5 DEF SameSeq
<1>7. next \in Seq(Nat)
  BY <1>0, <1>4, AppendProperties
<1>8. more \in Seq(Seq(Nat))
  BY <1>0, <1>4, <1>7, AppendProperties
<1>9. InsertTree(grown) /\ grown.sets = more /\ grown.name = k
  BY <1>2, <1>6, <1>8, WithSetsIs
<1> QED BY <1>0, <1>4, <1>7, <1>9 DEF RowsAre

LEMMA LiteralsFollow ==
  ASSUME NEW s, NEW a \in {"literals", "literalComma"}, NEW n, NEW tree, InsertTree(tree),
         NEW rows \in Seq(Seq(Nat)), NEW row \in Seq(Nat), tree.sets = Append(rows, row),
         InsertHas(s, rows), Len(rows) < Len(s.sets), Len(row) <= s.sets[Len(rows) + 1],
         a = "literals" =>
           Past(IF Len(row) < s.sets[Len(rows) + 1] THEN LiteralStart(Lengths(rows), Len(row))
                ELSE Given(Lengths(rows), Len(row)), n),
         a = "literalComma" => Len(row) # 0 /\ Past(Given(Lengths(rows), Len(row)), n)
  PROVE  Follows(s, a, n, tree)
<1>1. InsertFollows(s, a, n, tree)
  BY DEF InsertFollows
<1> QED BY <1>1, FollowsInsert

LEMMA SetsFollow ==
  ASSUME NEW s, NEW a \in {"set", "nextSet"}, NEW n, NEW tree, InsertTree(tree), InsertHas(s, tree.sets),
         a = "set" => Len(tree.sets) < Len(s.sets) /\ Past(RowStart(Lengths(tree.sets)), n),
         a = "nextSet" => Len(tree.sets) # 0 /\ Past(Values(Lengths(tree.sets)), n)
  PROVE  Follows(s, a, n, tree)
<1>1. InsertFollows(s, a, n, tree)
  BY DEF InsertFollows
<1> QED BY <1>1, FollowsInsert

\* A row that is complete.
LEMMA RowEnds ==
  ASSUME NEW s, ReadsAs(s), NEW rows, NEW row, RowHas(s, rows, row), Len(row) = s.sets[Len(rows) + 1]
  PROVE  /\ InsertHas(s, ast.sets) /\ Len(ast.sets) # 0
         /\ Values(Lengths(ast.sets)) = Append(Given(Lengths(rows), Len(row)), ")")
<1>1. PICK k, l, m, ns, sets : k = Len(rows) /\ l = Len(s.sets) /\ m = Len(row) /\ ns = Lengths(rows) /\ sets = ast.sets
  OBVIOUS
<1>2. /\ rows \in Seq(Seq(Nat)) /\ row \in Seq(Nat) /\ InsertTree(ast) /\ sets = Append(rows, row)
      /\ InsertHas(s, rows) /\ k < l /\ m = s.sets[k + 1]
  BY <1>1 DEF RowHas
<1>3. s.type \in {"INSERT", "INSERT_BULK"} /\ l \in Nat
  BY <1>1, <1>2, InsertIs DEF InsertHas
<1>4. k \in Nat /\ ns \in Seq(Nat) /\ m \in Nat /\ SameSeq(SubSeq(s.sets, 1, k + 1), Append(ns, m))
  BY <1>1, <1>2, RowsAhead
<1>5. Lengths(sets) = Append(ns, m)
  BY <1>1, <1>2, LengthsAppend DEF SameSeq
<1>6. sets \in Seq(Seq(Nat)) /\ Len(sets) = k + 1
  BY <1>1, <1>2, AppendProperties
<1>7. k + 1 <= l /\ k + 1 # 0
  <2>1. k \in Nat /\ l \in Nat /\ k < l
    BY <1>2, <1>3, <1>4
  <2> QED BY <2>1
<1>8. Lengths(sets) = SubSeq(s.sets, 1, k + 1)
  BY <1>4, <1>5 DEF SameSeq
<1>9. InsertHas(s, sets)
  BY <1>1, <1>3, <1>6, <1>7, <1>8 DEF InsertHas
<1>10. Values(Lengths(sets)) = Append(Given(ns, m), ")")
  BY <1>4, <1>5, ValuesFacts
<1> QED BY <1>1, <1>6, <1>7, <1>9, <1>10

LEMMA ValueSetFollows ==
  ASSUME NEW s, ReadsAs(s), ValueSet
  PROVE  StepFollows(s)
<1>1. CASE Take("set", "(", "literals") /\ ast' = [ast EXCEPT !.sets = Append(@, <<>>)]
  <2>1. at = "set" /\ at' = "literals" /\ current_token' = current_token + 1
    BY <1>1 DEF Take, Advance
  <2>2. PICK rows, ns, m : rows = ast.sets /\ ns = Lengths(rows) /\ m = s.sets[Len(rows) + 1]
    OBVIOUS
  <2>3. InsertTree(ast) /\ InsertHas(s, rows) /\ Len(rows) < Len(s.sets) /\ Sees(RowStart(ns), "(")
    BY <2>1, <2>2, SetSees
  <2>4. ns \in Seq(Nat) /\ m \in Nat /\ rows \in Seq(Seq(Nat))
    BY <2>2, <2>3, RowsAhead DEF InsertHas
  <2>5. Past(Given(ns, 0), current_token')
    <3>1. 0 \in Nat
      OBVIOUS
    <3>2. Given(ns, 0) = Append(RowStart(ns), "(")
      BY <2>4, <3>1, StartFacts
    <3> QED BY <2>1, <2>3, <3>2 DEF Sees
  <2>6. InsertTree(ast') /\ ast'.sets = Append(rows, <<>>)
    BY <1>1, <2>2, <2>3, RowAdded
  <2>7. PICK row \in Seq(Nat) : row = <<>> /\ Len(row) = 0
    <3>1. <<>> \in Seq(Nat) /\ Len(<<>>) = 0
      OBVIOUS
    <3> QED BY <3>1
  <2>8. Len(row) <= m
    BY <2>4, <2>7
  <2>9. Past(IF Len(row) < m THEN LiteralStart(ns, Len(row)) ELSE Given(ns, Len(row)), current_token')
    <3>1. LiteralStart(ns, 0) = Given(ns, 0)
      BY DEF LiteralStart
    <3> QED BY <2>5, <2>7, <3>1
  <2>10. ast'.sets = Append(rows, row)
    BY <2>6, <2>7
  <2>11. Follows(s, "literals", current_token', ast')
    <3>1. "literals" \in {"literals", "literalComma"} /\ "literals" # "literalComma"
      OBVIOUS
    <3> QED BY <2>2, <2>3, <2>4, <2>6, <2>8, <2>9, <2>10, <3>1, LiteralsFollow
  <2> QED BY <2>1, <2>11 DEF StepFollows
<1>2. CASE Take("literals", "literal", "literalComma")
           /\ ast' = [ast EXCEPT !.sets[Len(ast.sets)] = Append(@, current_token)]
  <2>1. at = "literals" /\ at' = "literalComma" /\ current_token' = current_token + 1 /\ Check("literal")
    BY <1>2 DEF Take, Advance
  <2>2. PICK rows, row :
          /\ RowHas(s, rows, row) /\ Len(row) \in Nat /\ s.sets[Len(rows) + 1] \in Nat /\ Lengths(rows) \in Seq(Nat)
          /\ Len(row) < s.sets[Len(rows) + 1] => Sees(LiteralStart(Lengths(rows), Len(row)), "literal")
          /\ Len(row) = s.sets[Len(rows) + 1] => Sees(Given(Lengths(rows), Len(row)), ")")
    BY <2>1, LiteralsSee
  <2>3. PICK j, m, ns : j = Len(row) /\ m = s.sets[Len(rows) + 1] /\ ns = Lengths(rows)
    OBVIOUS
  <2>4. /\ rows \in Seq(Seq(Nat)) /\ row \in Seq(Nat)
        /\ InsertTree(ast) /\ ast.sets = Append(rows, row)
        /\ InsertHas(s, rows) /\ Len(rows) < Len(s.sets) /\ j <= m
    BY <2>2, <2>3 DEF RowHas
  <2>5. j \in Nat /\ m \in Nat /\ ns \in Seq(Nat)
    BY <2>2, <2>3
  <2>6. j < m /\ Sees(LiteralStart(ns, j), "literal")
    <3>1. ~Sees(Given(ns, j), ")")
      BY <2>1 DEF Sees
    <3>2. j # m
      BY <2>2, <2>3, <3>1
    <3>3. j < m
      BY <2>4, <2>5, <3>2
    <3> QED BY <2>2, <2>3, <3>3
  <2>7. PICK n \in Nat : n = current_token
    BY DEF ReadsAs, Reading
  <2>8. PICK next : next = Append(row, n)
    OBVIOUS
  <2>9. next \in Seq(Nat) /\ Len(next) = j + 1
    BY <2>3, <2>4, <2>8, AppendProperties
  <2>10. InsertTree(ast') /\ ast'.sets = Append(rows, next)
    <3>1. PICK tree, grown : tree = ast /\ grown = ast'
      OBVIOUS
    <3>2. LastRowGrows(tree, n, grown)
      BY <1>2, <2>7, <3>1 DEF LastRowGrows
    <3>3. RowsAre(tree, rows, row)
      BY <2>4, <3>1 DEF RowsAre
    <3>4. RowsAre(grown, rows, Append(row, n))
      BY <3>2, <3>3, RowGrows
    <3> QED BY <2>8, <3>1, <3>4 DEF RowsAre
  <2>11. Past(Given(ns, j + 1), current_token')
    <3>1. Given(ns, j + 1) = Append(LiteralStart(ns, j), "literal")
      BY <2>5, StartFacts
    <3> QED BY <2>1, <2>6, <3>1 DEF Sees
  <2>12. j + 1 <= m /\ j + 1 # 0
    <3>1. j < m
      BY <2>6
    <3> QED BY <2>5, <3>1
  <2>13. Len(next) <= m /\ Len(next) # 0 /\ Past(Given(ns, Len(next)), current_token')
    BY <2>9, <2>11, <2>12
  <2>14. Follows(s, "literalComma", current_token', ast')
    <3>1. "literalComma" \in {"literals", "literalComma"} /\ "literals" # "literalComma"
      OBVIOUS
    <3> QED BY <2>3, <2>4, <2>9, <2>10, <2>13, <3>1, LiteralsFollow
  <2> QED BY <2>1, <2>14 DEF StepFollows
<1>3. ASSUME at = "literalComma"
      PROVE  \E rows, row :
               LET ns == Lengths(rows)
                   j == Len(row)
                   m == s.sets[Len(rows) + 1]
               IN  /\ RowHas(s, rows, row) /\ j \in Nat /\ m \in Nat
                   /\ j # 0 /\ Past(Given(ns, j), current_token)
                   /\ j < m => Sees(Given(ns, j), ",")
                   /\ j = m => Sees(Given(ns, j), ")")
  BY <1>3, LiteralsSee
<1>4. ASSUME at = "literalComma", at' = "literals", ast' = ast,
             NEW rows, NEW row, RowHas(s, rows, row),
             Past(IF Len(row) < s.sets[Len(rows) + 1] THEN LiteralStart(Lengths(rows), Len(row))
                  ELSE Given(Lengths(rows), Len(row)), current_token')
      PROVE  StepFollows(s)
  <2>1. /\ rows \in Seq(Seq(Nat)) /\ row \in Seq(Nat)
        /\ InsertTree(ast) /\ ast.sets = Append(rows, row)
        /\ InsertHas(s, rows) /\ Len(rows) < Len(s.sets) /\ Len(row) <= s.sets[Len(rows) + 1]
    BY <1>4 DEF RowHas
  <2>2. "literals" \in {"literals", "literalComma"} /\ "literals" # "literalComma"
    OBVIOUS
  <2>3. Follows(s, "literals", current_token', ast)
    BY <1>4, <2>1, <2>2, LiteralsFollow
  <2> QED BY <1>4, <2>3 DEF StepFollows
<1>5. CASE Take("literalComma", ",", "literals") /\ UNCHANGED ast
  <2>1. at = "literalComma" /\ at' = "literals" /\ current_token' = current_token + 1 /\ ast' = ast /\ Check(",")
    BY <1>5 DEF Take, Advance
  <2>2. PICK rows, row :
          /\ RowHas(s, rows, row) /\ Len(row) \in Nat /\ s.sets[Len(rows) + 1] \in Nat /\ Len(row) # 0
          /\ Len(row) < s.sets[Len(rows) + 1] => Sees(Given(Lengths(rows), Len(row)), ",")
          /\ Len(row) = s.sets[Len(rows) + 1] => Sees(Given(Lengths(rows), Len(row)), ")")
    BY <1>3, <2>1
  <2>3. PICK j, m, ns : j = Len(row) /\ m = s.sets[Len(rows) + 1] /\ ns = Lengths(rows)
    OBVIOUS
  <2>4. j <= m /\ j \in Nat /\ m \in Nat /\ j # 0
    BY <2>2, <2>3 DEF RowHas
  <2>5. ASSUME Sees(Given(ns, j), ")") PROVE FALSE
    <3>1. \A type : Check(type) <=> type = ")"
      BY <2>5 DEF Sees
    <3>2. Check(",") <=> "," = ")"
      BY <3>1
    <3> QED BY <2>1, <3>2
  <2>6. j < m
    <3>1. j # m
      BY <2>2, <2>3, <2>5
    <3> QED BY <2>4, <3>1
  <2>7. Past(Append(Given(ns, j), ","), current_token')
    BY <2>1, <2>2, <2>3, <2>6 DEF Sees
  <2>8. LiteralStart(ns, j) = Append(Given(ns, j), ",")
    BY <2>4 DEF LiteralStart
  <2>9. Past(IF j < m THEN LiteralStart(ns, j) ELSE Given(ns, j), current_token')
    BY <2>6, <2>7, <2>8
  <2> QED BY <1>4, <2>1, <2>2, <2>3, <2>9
<1>6. CASE Skip("literalComma", ",", "literals") /\ UNCHANGED ast
  <2>1. at = "literalComma" /\ at' = "literals" /\ current_token' = current_token /\ ast' = ast /\ ~Check(",")
    BY <1>6 DEF Skip, Stay
  <2>2. PICK rows, row :
          /\ RowHas(s, rows, row) /\ Past(Given(Lengths(rows), Len(row)), current_token)
          /\ Len(row) < s.sets[Len(rows) + 1] => Sees(Given(Lengths(rows), Len(row)), ",")
    BY <1>3, <2>1
  <2>3. PICK j, m, ns : j = Len(row) /\ m = s.sets[Len(rows) + 1] /\ ns = Lengths(rows)
    OBVIOUS
  <2>4. ~Sees(Given(ns, j), ",")
    BY <2>1 DEF Sees
  <2>5. ~ (j < m)
    BY <2>2, <2>3, <2>4
  <2>6. Past(IF j < m THEN LiteralStart(ns, j) ELSE Given(ns, j), current_token')
    BY <2>1, <2>2, <2>3, <2>5
  <2> QED BY <1>4, <2>1, <2>2, <2>3, <2>6
<1>7. CASE Take("literals", ")", "nextSet") /\ UNCHANGED ast
  <2>1. at = "literals" /\ at' = "nextSet" /\ current_token' = current_token + 1 /\ ast' = ast /\ Check(")")
    BY <1>7 DEF Take, Advance
  <2>2. PICK rows, row :
          /\ RowHas(s, rows, row) /\ Len(row) \in Nat /\ s.sets[Len(rows) + 1] \in Nat
          /\ Len(row) < s.sets[Len(rows) + 1] => Sees(LiteralStart(Lengths(rows), Len(row)), "literal")
          /\ Len(row) = s.sets[Len(rows) + 1] => Sees(Given(Lengths(rows), Len(row)), ")")
    BY <2>1, LiteralsSee
  <2>3. PICK j, m, ns : j = Len(row) /\ m = s.sets[Len(rows) + 1] /\ ns = Lengths(rows)
    OBVIOUS
  <2>4. j <= m /\ j \in Nat /\ m \in Nat /\ InsertTree(ast)
    BY <2>2, <2>3 DEF RowHas
  <2>5. ~Sees(LiteralStart(ns, j), "literal")
    BY <2>1 DEF Sees
  <2>6. j = m
    <3>1. ~ (j < m)
      BY <2>2, <2>3, <2>5
    <3> QED BY <2>4, <3>1
  <2>7. Past(Append(Given(ns, j), ")"), current_token')
    BY <2>1, <2>2, <2>3, <2>6 DEF Sees
  <2>8. /\ InsertHas(s, ast.sets) /\ Len(ast.sets) # 0
        /\ Values(Lengths(ast.sets)) = Append(Given(ns, j), ")")
    BY <2>2, <2>3, <2>6, RowEnds
  <2>9. "nextSet" \in {"set", "nextSet"} /\ "nextSet" # "set"
    OBVIOUS
  <2>10. Past(Values(Lengths(ast.sets)), current_token')
    BY <2>7, <2>8
  <2>11. Follows(s, "nextSet", current_token', ast)
    BY <2>4, <2>8, <2>9, <2>10, SetsFollow
  <2> QED BY <2>1, <2>11 DEF StepFollows
<1> QED BY <1>1, <1>2, <1>5, <1>6, <1>7 DEF ValueSet

LEMMA NextSetSees ==
  ASSUME NEW s, ReadsAs(s), at = "nextSet",
         NEW k, k = Len(ast.sets), NEW l, l = Len(s.sets), NEW ns, ns = Lengths(ast.sets)
  PROVE  /\ InsertTree(ast) /\ InsertHas(s, ast.sets) /\ ns # <<>>
         /\ k \in Nat /\ l \in Nat /\ k <= l
         /\ k < l => Sees(Values(ns), ",")
         /\ k = l => ns = s.sets /\ ~Check(",")
<1>1. InsertTree(ast) /\ InsertHas(s, ast.sets) /\ k # 0 /\ Past(Values(ns), current_token)
  BY DEF ReadsAs, Follows, InsertFollows
<1>2. PICK c, w : c = s.sets /\ w = Kinds
  OBVIOUS
<1>3. ast.sets \in Seq(Seq(Nat)) /\ k <= l /\ ns = SubSeq(c, 1, k) /\ s.type \in {"INSERT", "INSERT_BULK"}
  BY <1>1, <1>2 DEF InsertHas
<1>4. /\ c \in Seq(Nat) /\ l = Len(c) /\ l \in Nat /\ Reading /\ w \in Seq(Kind) /\ SameSeq(w, Values(c))
  BY <1>2, <1>3, InsertIs
<1>5. k \in Nat /\ Len(ns) = k
  BY <1>3, LenProperties, LengthsAppend
<1>6. k \in 0 .. Len(c)
  <2>1. k \in Nat /\ l \in Nat /\ k <= l
    BY <1>3, <1>4, <1>5
  <2>2. k \in 0 .. l
    BY <2>1
  <2> QED BY <1>4, <2>2
<1>7. /\ k = l => ns = c
      /\ k # 0 /\ k < l => Prefix(Append(Values(ns), ","), w)
  <2>1. c \in Seq(Nat) /\ w \in Seq(Kind) /\ SameSeq(w, Values(c)) /\ ns = SubSeq(c, 1, k)
    BY <1>3, <1>4
  <2>2. /\ k = Len(c) => ns = c
        /\ k # 0 /\ k < Len(c) => Prefix(Append(Values(ns), ","), w)
    BY <1>6, <2>1, AfterRow
  <2> QED BY <1>4, <2>2
<1>8. ASSUME k < l PROVE Sees(Values(ns), ",")
  <2>1. "," \in Kind
    BY DEF Kind
  <2>2. Prefix(Append(Values(ns), ","), Kinds)
    BY <1>1, <1>2, <1>7, <1>8
  <2> QED BY <1>1, <1>4, <2>1, <2>2, SeesIs
<1>9. ASSUME k = l PROVE ~Check(",")
  <2>1. Values(ns) = Kinds
    BY <1>2, <1>4, <1>7, <1>9 DEF SameSeq
  <2>2. Len(Kinds) = Len(tokens) /\ Len(tokens) \in Nat
    BY <1>4 DEF Reading
  <2>3. current_token = Len(tokens) + 1
    BY <1>1, <2>1, <2>2 DEF Past
  <2>4. current_token > Len(tokens)
    BY <2>2, <2>3
  <2> QED BY <2>4 DEF Check, IsAtEnd
<1>10. ns # <<>>
  BY <1>1, <1>5
<1> QED BY <1>1, <1>2, <1>3, <1>4, <1>5, <1>7, <1>8, <1>9, <1>10

LEMMA InsertShape ==
  ASSUME NEW s, IsStatement(s), s.type \in {"INSERT", "INSERT_BULK"}, NEW sets, Lengths(sets) = s.sets, NEW m \in Nat, m # 0
  PROVE  Shape([type |-> s.type, name |-> m, columns |-> <<>>, sets |-> sets]) = s
<1>1. PICK c, t : c = s.sets /\ t = s.type
  OBVIOUS
<1>2. /\ s = [type |-> t, named |-> s.named, columns |-> <<>>, sets |-> c]
      /\ s.named \in BOOLEAN /\ s.named /\ t \in {"INSERT", "INSERT_BULK"}
  BY <1>1, StatementFacts
<1>3. PICK tree : tree = [type |-> t, name |-> m, columns |-> <<>>, sets |-> sets]
  OBVIOUS
<1>4. Shape(tree) = [type |-> t, named |-> TRUE, columns |-> <<>>, sets |-> c]
  <2>1. [i \in DOMAIN tree.sets |-> Len(tree.sets[i])] = c
    BY <1>1, <1>3 DEF Lengths
  <2>2. [i \in DOMAIN tree.columns |-> FALSE] = <<>>
    BY <1>3
  <2>3. tree.type = t /\ t # "CREATE_TABLE" /\ (tree.name # 0) = TRUE
    BY <1>2, <1>3
  <2> QED BY <2>1, <2>2, <2>3 DEF Shape
<1>5. s.named = TRUE
  BY <1>2
<1> QED BY <1>1, <1>2, <1>3, <1>4, <1>5

LEMMA EndInsertFollows ==
  ASSUME NEW s, ReadsAs(s), EndInsert
  PROVE  StepFollows(s)
<1>1. PICK k, l, ns : k = Len(ast.sets) /\ l = Len(s.sets) /\ ns = Lengths(ast.sets)
  OBVIOUS
<1>2. at = "nextSet"
  BY DEF EndInsert, Take, Skip
<1>3. /\ InsertTree(ast) /\ InsertHas(s, ast.sets) /\ ns # <<>>
      /\ k \in Nat /\ l \in Nat /\ k <= l
      /\ k < l => Sees(Values(ns), ",")
      /\ k = l => ns = s.sets /\ ~Check(",")
  BY <1>1, <1>2, NextSetSees
<1>4. CASE Take("nextSet", ",", "set") /\ UNCHANGED ast
  <2>1. at' = "set" /\ current_token' = current_token + 1 /\ ast' = ast /\ Check(",")
    BY <1>4 DEF Take, Advance
  <2>2. k < l
    <3>1. k # l
      BY <1>3, <2>1
    <3>2. k \in Nat /\ l \in Nat /\ k <= l
      BY <1>3
    <3> QED BY <3>1, <3>2
  <2>3. Past(RowStart(ns), current_token')
    <3>1. RowStart(ns) = Append(Values(ns), ",")
      BY <1>3 DEF RowStart
    <3> QED BY <1>3, <2>1, <2>2, <3>1 DEF Sees
  <2>4. "set" \in {"set", "nextSet"} /\ "nextSet" # "set"
    OBVIOUS
  <2>5. Follows(s, "set", current_token', ast)
    BY <1>1, <1>3, <2>2, <2>3, <2>4, SetsFollow
  <2> QED BY <2>1, <2>5 DEF StepFollows
<1>5. CASE Skip("nextSet", ",", "returned")
           /\ ast' = [ast EXCEPT !.type = IF Len(ast.sets) = 1 THEN "INSERT" ELSE "INSERT_BULK"]
  <2>1. at' = "returned" /\ ~Check(",")
    BY <1>5 DEF Skip
  <2>2. k = l
    <3>1. ASSUME k < l PROVE FALSE
      <4>1. Sees(Values(ns), ",")
        BY <1>3, <3>1
      <4> QED BY <2>1, <4>1 DEF Sees
    <3>2. k \in Nat /\ l \in Nat /\ k <= l
      BY <1>3
    <3> QED BY <3>1, <3>2
  <2>3. ns = s.sets
    BY <1>3, <2>2
  <2>4. IsStatement(s) /\ s.type \in {"INSERT", "INSERT_BULK"}
    BY <1>3 DEF ReadsAs, InsertHas
  <2>5. s.type = IF k = 1 THEN "INSERT" ELSE "INSERT_BULK"
    <3>1. s.type = "INSERT" => k = 1
      BY <1>1, <2>2, <2>4, StatementFacts
    <3>2. s.type = "INSERT_BULK" => k > 1
      BY <1>1, <2>2, <2>4, StatementFacts
    <3>3. k \in Nat
      BY <1>3
    <3>4. s.type = "INSERT_BULK" => k # 1
      BY <3>2, <3>3
    <3> QED BY <2>4, <3>1, <3>4
  <2>6. PICK m, sets : m = ast.name /\ sets = ast.sets
    OBVIOUS
  <2>7. /\ ast = [type |-> "INSERT", name |-> m, columns |-> <<>>, sets |-> sets]
        /\ m \in Nat /\ m # 0
    BY <1>3, <2>6 DEF InsertTree
  <2>8. ast' = [type |-> s.type, name |-> m, columns |-> <<>>, sets |-> sets]
    <3>1. ast' = [ast EXCEPT !.type = s.type]
      BY <1>1, <1>5, <2>5
    <3> QED BY <2>7, <3>1
  <2>9. Shape([type |-> s.type, name |-> m, columns |-> <<>>, sets |-> sets]) = s
    BY <1>1, <2>3, <2>4, <2>6, <2>7, InsertShape
  <2> QED BY <2>1, <2>8, <2>9, FollowsReturned DEF StepFollows
<1> QED BY <1>4, <1>5 DEF EndInsert

\* Whatever a rule cannot do without is there.
LEMMA Finds ==
  ASSUME NEW s, ReadsAs(s), at \in DOMAIN Needed
  PROVE  \E p, t : Sees(p, t) /\ t \in Needed[at]
<1> DEFINE Short == {"show", "use", "drop", "create", "dropDatabase", "dropTable", "createDatabase", "createTable",
                     "select", "insert", "into"}
<1>1. at \in Short \cup {"createParen", "type", "key", "from", "fromTable", "values", "set", "literals"}
  BY DEF Needed
<1>2. CASE at \in Short
  <2>1. at \in DOMAIN Beginning \ {"help", "exit"}
    BY <1>2 DEF Beginning
  <2>2. Sees(Beginning[at], NextAt(s, at))
    BY <2>1, BeginningSees
  <2>3. NextAt(s, at) \in Needed[at]
    BY <1>2 DEF NextAt, Needed
  <2> QED BY <2>2, <2>3
<1>3. CASE at = "createParen"
  <2>1. Sees(<<"create", "table", "identifier">>, "(")
    BY <1>3, ParenSees
  <2> QED BY <1>3, <2>1 DEF Needed
<1>4. CASE at \in {"type", "key"}
  <2>1. \E p : Sees(p, at)
    BY <1>4, ColumnDefSees
  <2>2. at \in Needed[at]
    BY <1>4 DEF Needed
  <2> QED BY <2>1, <2>2
<1>5. CASE at \in {"from", "fromTable"}
  <2>1. \E p : Sees(p, IF at = "from" THEN "from" ELSE "identifier")
    BY <1>5, SelectSees
  <2>2. (IF at = "from" THEN "from" ELSE "identifier") \in Needed[at]
    BY <1>5 DEF Needed
  <2> QED BY <2>1, <2>2
<1>6. CASE at = "values"
  <2>1. Sees(<<"insert", "into", "identifier">>, "values")
    BY <1>6, ValuesSee
  <2> QED BY <1>6, <2>1 DEF Needed
<1>7. CASE at = "set"
  <2>1. \E p : Sees(p, "(")
    BY <1>7, SetSees
  <2> QED BY <1>7, <2>1 DEF Needed
<1>8. CASE at = "literals"
  <2>1. PICK rows, row :
          /\ RowHas(s, rows, row) /\ Len(row) \in Nat /\ s.sets[Len(rows) + 1] \in Nat
          /\ Len(row) < s.sets[Len(rows) + 1] => Sees(LiteralStart(Lengths(rows), Len(row)), "literal")
          /\ Len(row) = s.sets[Len(rows) + 1] => Sees(Given(Lengths(rows), Len(row)), ")")
    BY <1>8, LiteralsSee
  <2>2. PICK j, m : j = Len(row) /\ m = s.sets[Len(rows) + 1]
    OBVIOUS
  <2>3. j \in Nat /\ m \in Nat /\ j <= m
    BY <2>1, <2>2 DEF RowHas
  <2>4. j < m \/ j = m
    BY <2>3
  <2>5. \E p, t : Sees(p, t) /\ t \in {"literal", ")"}
    BY <2>1, <2>2, <2>4
  <2> QED BY <1>8, <2>5 DEF Needed
<1> QED BY <1>1, <1>2, <1>3, <1>4, <1>5, <1>6, <1>7, <1>8

LEMMA RefuseFollows ==
  ASSUME NEW s, ReadsAs(s), Refuse
  PROVE  StepFollows(s)
<1>1. CASE at = "first" /\ IsAtEnd
  <2>1. at \in DOMAIN Beginning \ {"help", "exit"}
    BY <1>1 DEF Beginning
  <2>2. \E p, t : Sees(p, t)
    BY <2>1, BeginningSees
  <2> QED BY <1>1, <2>2 DEF Sees
<1>2. CASE at = "columns" /\ IsAtEnd
  <2>1. \E p, t : Sees(p, t)
    BY <1>2, ColumnsSee
  <2> QED BY <1>2, <2>1 DEF Sees
<1>3. CASE at = "end" /\ ~IsAtEnd
  <2>1. s.type \in {"HELP", "EXIT"} /\ current_token = 2
    BY <1>3 DEF ReadsAs, Follows
  <2> QED BY <1>3, <2>1, EndSees
<1>4. CASE at \in DOMAIN Needed /\ \A type \in Needed[at] : ~Check(type)
  <2>1. PICK p, t : Sees(p, t) /\ t \in Needed[at]
    BY <1>4, Finds
  <2> QED BY <1>4, <2>1 DEF Sees
<1> QED BY <1>1, <1>2, <1>3, <1>4 DEF Refuse

LEMMA RulesFollow ==
  ASSUME NEW s, ReadsAs(s), Next, ~Tokenize
  PROVE  StepFollows(s)
BY FirstFollows, InvalidNodeFollows, ShowFollows, DatabaseOrTableFollows, NameFollows, HelpOrExitFollows, EndFollows,
   CreateTableFollows, ColumnsFollows, ColumnDefFollows, CommaFollows, SelectFollowsOn, FromFollows, InsertFollowsOn,
   ValueSetFollows, EndInsertFollows, RefuseFollows DEF Next

\* The inductive invariant: as long as the text reads as one of the statements,
\* the rule that looks is one that reads this statement.
FollowsInv ==
  at # "tokenize" /\ pos > Len(text) =>
    \A s \in Statements : Kinds = Written(s) => Follows(s, at, current_token, ast)

LEMMA TokenizeWhole ==
  ASSUME ReadInv, Tokenize, at' # "tokenize", (pos > Len(text))'
  PROVE  at' = "first"
<1>1. at = "tokenize" /\ at' \in {"first", "refused"}
  BY TokenizeEnds
<1>2. CASE Unexpected
  <2>1. PICK n, l : n = pos /\ l = Len(text)
    OBVIOUS
  <2>2. n \in Nat /\ l \in Nat
    <3>1. l \in Nat /\ n \in 1 .. l + 1
      BY <1>1, <2>1, TextsAssumption, TextFacts DEF ReadInv, ReadTo, IsText
    <3> QED BY <3>1
  <2>3. n <= l /\ n > l
    BY <1>2, <2>1 DEF Unexpected, Scanning
  <2> QED BY <2>2, <2>3
<1>3. CASE ~Unexpected
  BY <1>1, <1>3 DEF Tokenize, SkipBlank, ScanMark, ScanFraction, ScanMinus, ScanQuoted, ScanNumber, ScanWord,
                    EndOfText, Emit, Scanning
<1> QED BY <1>2, <1>3

LEMMA StepKeepsFollows ==
  ASSUME ReadInv, ParsedInv, FollowsInv, [Next]_vars
  PROVE  FollowsInv'
<1>1. /\ Kinds \in Seq(Kind) /\ Len(Kinds) = Len(tokens) /\ Len(tokens) \in Nat
      /\ \A k \in 1 .. Len(tokens) : Kinds[k] = tokens[k].type
  BY TokensAreOfPieces, WordIs
<1>2. CASE Next /\ Tokenize
  <2>1. at = "tokenize" /\ current_token = 1 /\ current_token' = 1
    BY <1>2, TokenizeFirst, TokenizeAlone DEF ParsedInv
  <2> SUFFICES ASSUME at' # "tokenize", (pos > Len(text))', NEW s \in Statements', (Kinds = Written(s))'
               PROVE  Follows(s, at', current_token', ast')
    BY DEF FollowsInv
  <2>2. at' = "first"
    BY <1>2, TokenizeWhole
  <2>3. IsStatement(s)
    BY StatementsAssumption
  <2>4. s.type \in TypesAt["first"]
    BY <2>3 DEF IsStatement, TypesAt
  <2>5. "first" \in DOMAIN Beginning /\ Beginning["first"] = <<>>
    BY DEF Beginning
  <2>6. Past(<<>>, 1)
    BY DEF Past
  <2> QED BY <2>1, <2>2, <2>4, <2>5, <2>6, FollowsBeginning
<1>3. CASE Next /\ ~Tokenize
  <2>1. at # "tokenize" /\ tokens' = tokens /\ text' = text /\ pos' = pos
    BY <1>3, RulesRead DEF read
  <2>2. Kinds' = Kinds
    BY <2>1 DEF Kinds, Types
  <2>3. Parsed(at, current_token, ast, Kinds)
    BY <2>1 DEF ParsedInv
  <2>4. Reading
    BY <1>1, <2>3 DEF Reading, Parsed
  <2> SUFFICES ASSUME (pos > Len(text))', NEW s \in Statements, (Kinds = Written(s))'
               PROVE  StepFollows(s)
    BY DEF FollowsInv, StepFollows
  <2>5. pos > Len(text) /\ Kinds = Written(s)
    BY <2>1, <2>2
  <2>6. IsStatement(s)
    BY StatementsAssumption
  <2>7. Follows(s, at, current_token, ast)
    BY <2>1, <2>5 DEF FollowsInv
  <2>8. ReadsAs(s)
    BY <2>4, <2>5, <2>6, <2>7 DEF ReadsAs
  <2> QED BY <1>3, <2>8, RulesFollow
<1>4. CASE UNCHANGED vars
  <2>1. tokens' = tokens /\ at' = at /\ current_token' = current_token /\ ast' = ast /\ text' = text /\ pos' = pos
    BY <1>4 DEF vars
  <2>2. Kinds' = Kinds
    BY <2>1 DEF Kinds, Types
  <2> QED BY <2>1, <2>2 DEF FollowsInv
<1> QED BY <1>2, <1>3, <1>4

LEMMA Understood ==
  ASSUME ReadInv, ParsedInv, FollowsInv
  PROVE  UnderstoodAsWritten
<1> SUFFICES ASSUME at \in {"returned", "refused"}, pos > Len(text), NEW s \in Statements, Types(tokens) = Written(s)
             PROVE  at = "returned" /\ Shape(ast) = s
  BY DEF UnderstoodAsWritten
<1>1. Follows(s, at, current_token, ast)
  BY DEF FollowsInv, Kinds
<1> QED BY <1>1 DEF Follows

\* Whatever the texts and the statements, with lists of any length: a text whose
\* tokens are a statement of the grammar is accepted, and its tree is that
\* statement's.
THEOREM StatementsAreUnderstood == Spec => []UnderstoodAsWritten
<1>1. Init => ReadInv /\ ParsedInv /\ FollowsInv
  <2>1. Init => ReadInv
    BY InitReads
  <2>2. Init => ParsedInv /\ FollowsInv
    BY DEF Init, TokenizeInit, ParsedInv, FollowsInv
  <2> QED BY <2>1, <2>2
<1>2. ReadInv /\ ParsedInv /\ FollowsInv /\ [Next]_vars => (ReadInv /\ ParsedInv /\ FollowsInv)'
  BY StepReads, StepKeepsParsed, StepKeepsFollows
<1>3. ReadInv /\ ParsedInv /\ FollowsInv => UnderstoodAsWritten
  BY Understood
<1> QED BY <1>1, <1>2, <1>3, PTL DEF Spec
=============================================================================
