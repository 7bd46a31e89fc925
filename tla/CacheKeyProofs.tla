--------------------------- MODULE CacheKeyProofs ---------------------------
(***************************************************************************)
(* The encoding of CacheKey can be decoded, for any characters, any base   *)
(* of the numerals, and texts and reference lists of any length.           *)
(*                                                                         *)
(* A numeral is one number's.  The colon is no digit, so the first one     *)
(* ends the length, and the length says where the text ends: no part's     *)
(* encoding begins another's (PartsDiffer).  By induction over the parts,  *)
(* a sequence of texts can be read off their encodings in a row            *)
(* (TextsDecoded).  The tags say how many of the texts are subjects        *)
(* (PartsTellApart).                                                       *)
(*                                                                         *)
(* The recursions of Numeral and FlattenSeq are first shown to have the    *)
(* solution their definitions choose.                                      *)
(***************************************************************************)
EXTENDS CacheKey, InductionLemmas, SequenceTheorems

\* Division, where the divisor is a constant.
LEMMA Quotient ==
  ASSUME NEW b \in Nat, b > 1, NEW n \in Nat
  PROVE  /\ n \div b \in Nat /\ n % b \in 0 .. (b - 1)
         /\ n = b * (n \div b) + (n % b)
         /\ n >= b => n \div b < n
  <1>1. n \div b \in Int /\ n % b \in 0 .. (b - 1)
    OBVIOUS
  <1>2. n = b * (n \div b) + (n % b)
    OBVIOUS
  <1>3. n \div b >= 0
    BY <1>1, <1>2
  <1>4. n >= b => n \div b < n
    BY <1>1, <1>2, <1>3
  <1> QED
    BY <1>1, <1>2, <1>3, <1>4

-----------------------------------------------------------------------------
(* Numerals.                                                               *)

\* Lengths are written in base two or more.
LEMMA BaseIsNatural == Base \in Nat /\ Base > 1
  BY DigitsAssumption, LenProperties DEF Base

\* The last digit of a number, and the number that the digits before it write.
LEMMA LastDigit ==
  \A n \in Nat : /\ n \div Base \in Nat /\ n % Base \in 0 .. (Base - 1)
                 /\ n = Base * (n \div Base) + (n % Base)
                 /\ ~(n < Base) => n \div Base < n
  <1> TAKE n \in Nat
  <1> HIDE DEF Base
  <1> QED
    BY BaseIsNatural, Quotient

\* Every number has a last digit.
LEMMA DigitIndex ==
  \A n \in Nat : n % Base \in Nat /\ (n % Base) + 1 \in 1 .. Base
  <1> TAKE n \in Nat
  <1>1. n % Base \in 0 .. (Base - 1)
    BY LastDigit
  <1> QED
    BY <1>1, BaseIsNatural

\* The numeral of n, from the table g of the shorter numerals.
Entry(g, n) ==
  IF n < Base THEN <<Digits[n + 1]>> ELSE Append(g[n \div Base], Digits[(n % Base) + 1])

\* g holds the numerals of the numbers in D.
Numbers(g, D) == g = [n \in D |-> Entry(g, n)]

\* An entry of a table of numerals.
LEMMA NumbersAt ==
  ASSUME NEW D, NEW g, Numbers(g, D)
  PROVE  \A n \in D : g[n] = Entry(g, n)
  <1> DEFINE E(n) == Entry(g, n)
  <1>1. g = [n \in D |-> E(n)]
    BY DEF Numbers
  <1> HIDE DEF E
  <1>2. \A n \in D : g[n] = E(n)
    BY <1>1
  <1> QED
    BY <1>2 DEF E

\* An entry depends only on that of the shorter numeral.
LEMMA EntriesAgree ==
  ASSUME NEW g, NEW h, NEW n \in Nat, ~(n < Base) => g[n \div Base] = h[n \div Base]
  PROVE  Entry(g, n) = Entry(h, n)
  BY DEF Entry

\* Two tables of numerals agree where both have entries.
LEMMA NumeralsAgree ==
  ASSUME NEW M \in Nat, NEW N \in Nat, M <= N,
         NEW g, Numbers(g, 0 .. M), NEW h, Numbers(h, 0 .. N)
  PROVE  \A n \in 0 .. M : g[n] = h[n]
  <1> DEFINE D == {n \in 0 .. M : g[n] # h[n]}
  <1> SUFFICES ASSUME D # {} PROVE FALSE
    OBVIOUS
  <1>1. PICK n \in D : \A m \in D : n <= m
    <2>1. D \in SUBSET Nat
      OBVIOUS
    <2> HIDE DEF D
    <2> QED
      BY <2>1, LeastNatural
  <1>2. n \in Nat /\ n \in 0 .. M /\ n \in 0 .. N /\ g[n] # h[n]
    BY <1>1
  <1>3. ASSUME ~(n < Base) PROVE g[n \div Base] = h[n \div Base]
    <2>1. n \div Base \in Nat /\ n \div Base < n
      BY <1>2, <1>3, LastDigit
    <2>2. n \div Base \in 0 .. M /\ ~(n <= n \div Base)
      BY <1>2, <2>1
    <2> QED
      BY <1>1, <2>2
  <1>4. Entry(g, n) = Entry(h, n)
    BY <1>2, <1>3, EntriesAgree
  <1>5. g[n] = Entry(g, n) /\ h[n] = Entry(h, n)
    BY <1>2, NumbersAt
  <1> QED
    BY <1>2, <1>4, <1>5

\* Every beginning of the naturals has its table of numerals.
LEMMA NumeralsExist ==
  \A N \in Nat : \E g : Numbers(g, 0 .. N)
  <1> DEFINE Q == {N \in Nat : \E g : Numbers(g, 0 .. N)}
  <1>1. 0 \in Q
    <2> DEFINE g == [n \in 0 .. 0 |-> <<Digits[n + 1]>>]
    <2>1. \A n \in 0 .. 0 : Entry(g, n) = <<Digits[n + 1]>>
      BY BaseIsNatural DEF Entry
    <2>2. Numbers(g, 0 .. 0)
      BY <2>1 DEF Numbers
    <2> QED
      BY <2>2
  <1>2. ASSUME NEW N \in Nat, N \in Q PROVE N + 1 \in Q
    <2>1. PICK g : Numbers(g, 0 .. N)
      BY <1>2
    <2> DEFINE h == [n \in 0 .. (N + 1) |-> Entry(g, n)]
    <2>2. \A n \in 0 .. N : h[n] = g[n]
      <3>1. \A n \in 0 .. N : g[n] = Entry(g, n)
        BY <2>1, NumbersAt
      <3> QED
        BY <3>1
    <2>3. ASSUME NEW n \in 0 .. (N + 1) PROVE Entry(g, n) = Entry(h, n)
      <3>1. ASSUME ~(n < Base) PROVE n \div Base \in 0 .. N
        <4>1. n \in Nat /\ n \div Base \in Nat /\ n \div Base < n
          BY <3>1, LastDigit
        <4> QED
          BY <4>1
      <3> HIDE DEF h
      <3> QED
        BY <2>2, <3>1, EntriesAgree
    <2>4. h = [n \in 0 .. (N + 1) |-> Entry(h, n)]
      BY <2>3
    <2>5. Numbers(h, 0 .. (N + 1))
      <3> HIDE DEF h
      <3> QED
        BY <2>4 DEF Numbers
    <2> QED
      BY <2>5
  <1> HIDE DEF Q
  <1>3. Nat \subseteq Q
    BY <1>1, <1>2, NatSetInduction
  <1> QED
    BY <1>3 DEF Q

\* The recursion of Numeral has a solution.
LEMMA NumeralDefined ==
  \A n \in Nat : Numeral[n] = Entry(Numeral, n)
  <1> DEFINE table(n) == CHOOSE g : Numbers(g, 0 .. n)
             f == [n \in Nat |-> table(n)[n]]
  <1>1. \A n \in Nat : Numbers(table(n), 0 .. n)
    BY NumeralsExist
  <1> HIDE DEF table
  <1>2. ASSUME NEW n \in Nat PROVE f[n] = Entry(f, n)
    <2>1. table(n)[n] = Entry(table(n), n)
      BY <1>1, NumbersAt
    <2>2. ASSUME ~(n < Base) PROVE f[n \div Base] = table(n)[n \div Base]
      <3>1. n \div Base \in Nat /\ n \div Base <= n
        BY <2>2, LastDigit
      <3>2. Numbers(table(n \div Base), 0 .. (n \div Base)) /\ Numbers(table(n), 0 .. n)
        BY <1>1, <3>1
      <3>3. n \div Base \in 0 .. (n \div Base)
        BY <3>1
      <3>4. table(n \div Base)[n \div Base] = table(n)[n \div Base]
        BY <3>1, <3>2, <3>3, NumeralsAgree
      <3> QED
        BY <3>1, <3>4
    <2>3. f[n] = table(n)[n]
      OBVIOUS
    <2> HIDE DEF f
    <2> QED
      BY <2>1, <2>2, <2>3, EntriesAgree
  <1>3. f = [n \in Nat |-> Entry(f, n)]
    BY <1>2
  <1> HIDE DEF f
  <1>4. \E g : Numbers(g, Nat)
    BY <1>3 DEF Numbers
  <1>5. Numeral = CHOOSE g : Numbers(g, Nat)
    BY DEF Numeral, Numbers, Entry
  <1>6. Numbers(Numeral, Nat)
    BY <1>4, <1>5
  <1> QED
    BY <1>6, NumbersAt

\* Numerals are written in digits, at least one, and no digit is a colon.
LEMMA NumeralType ==
  \A n \in Nat : Numeral[n] \in Seq(Characters \ {":"}) /\ Len(Numeral[n]) >= 1
  <1> DEFINE Figures == Characters \ {":"}
             Q == {n \in Nat : ~(Numeral[n] \in Seq(Figures) /\ Len(Numeral[n]) >= 1)}
  <1> SUFFICES ASSUME Q # {} PROVE FALSE
    OBVIOUS
  <1>1. PICK n \in Q : \A m \in Q : n <= m
    <2>1. Q \in SUBSET Nat
      OBVIOUS
    <2> HIDE DEF Q
    <2> QED
      BY <2>1, LeastNatural
  <1>2. n \in Nat
    BY <1>1
  <1>3. \A i \in 1 .. Base : Digits[i] \in Figures
    BY DigitsAssumption, ElementOfSeq DEF Base
  <1>4. CASE n < Base
    <2>1. n + 1 \in 1 .. Base
      BY <1>2, <1>4, BaseIsNatural
    <2>2. Numeral[n] = <<Digits[n + 1]>>
      BY <1>2, <1>4, NumeralDefined DEF Entry
    <2>3. <<Digits[n + 1]>> \in Seq(Figures) /\ Len(<<Digits[n + 1]>>) = 1
      BY <1>3, <2>1
    <2>4. Numeral[n] \in Seq(Figures) /\ Len(Numeral[n]) >= 1
      BY <2>2, <2>3
    <2> QED
      BY <1>1, <2>4
  <1>5. CASE ~(n < Base)
    <2>1. n \div Base \in Nat /\ n \div Base < n /\ (n % Base) + 1 \in 1 .. Base
      BY <1>2, <1>5, LastDigit, DigitIndex
    <2>2. n \div Base \notin Q
      BY <1>1, <1>2, <2>1
    <2>3. Numeral[n \div Base] \in Seq(Figures) /\ Len(Numeral[n \div Base]) >= 1
      BY <2>1, <2>2
    <2>4. Numeral[n] = Append(Numeral[n \div Base], Digits[(n % Base) + 1])
      BY <1>2, <1>5, NumeralDefined DEF Entry
    <2>5. Digits[(n % Base) + 1] \in Figures
      BY <1>3, <2>1
    <2>6. Numeral[n] \in Seq(Figures) /\ Len(Numeral[n]) = Len(Numeral[n \div Base]) + 1
      BY <2>3, <2>4, <2>5, AppendProperties
    <2>7. Len(Numeral[n \div Base]) \in Nat
      BY <2>3, LenProperties
    <2> QED
      BY <1>1, <2>3, <2>6, <2>7
  <1> QED
    BY <1>4, <1>5

\* The digits of a long number: those of another number, and the last.
LEMMA LongNumeral ==
  \A n \in Nat : ~(n < Base) =>
    /\ n \div Base \in Nat /\ n \div Base < n
    /\ Numeral[n] = Append(Numeral[n \div Base], Digits[(n % Base) + 1])
    /\ Digits[(n % Base) + 1] \in Characters \ {":"}
    /\ Len(Numeral[n]) # 1
  <1> TAKE n \in Nat
  <1> HAVE ~(n < Base)
  <1>1. n \div Base \in Nat /\ n \div Base < n /\ (n % Base) + 1 \in 1 .. Base
    BY LastDigit, DigitIndex
  <1>2. Numeral[n] = Append(Numeral[n \div Base], Digits[(n % Base) + 1])
    BY NumeralDefined DEF Entry
  <1>3. Digits[(n % Base) + 1] \in Characters \ {":"}
    BY <1>1, DigitsAssumption, ElementOfSeq DEF Base
  <1>4. /\ Numeral[n \div Base] \in Seq(Characters \ {":"})
        /\ Len(Numeral[n \div Base]) \in Nat /\ Len(Numeral[n \div Base]) >= 1
    BY <1>1, NumeralType, LenProperties
  <1>5. Len(Numeral[n]) = Len(Numeral[n \div Base]) + 1
    BY <1>2, <1>3, <1>4, AppendProperties
  <1> QED
    BY <1>1, <1>2, <1>3, <1>4, <1>5

\* The digits of a short number.
LEMMA ShortNumeral ==
  \A n \in Nat : n < Base => /\ Numeral[n] = <<Digits[n + 1]>>
                             /\ Len(Numeral[n]) = 1
  <1> TAKE n \in Nat
  <1> HAVE n < Base
  <1>1. Numeral[n] = <<Digits[n + 1]>>
    BY NumeralDefined DEF Entry
  <1>2. Len(<<Digits[n + 1]>>) = 1
    OBVIOUS
  <1> QED
    BY <1>1, <1>2

\* What is appended can be told from what it is appended to.
LEMMA AppendsDiffer ==
  \A S : \A s, t \in Seq(S), e, f \in S : Append(s, e) = Append(t, f) => s = t /\ e = f
  BY AppendInjective

\* A numeral is one number's.
LEMMA NumeralsDiffer ==
  \A n, m \in Nat : Numeral[n] = Numeral[m] => n = m
  <1> DEFINE Q == {n \in Nat : \E m \in Nat : Numeral[n] = Numeral[m] /\ n # m}
  <1> SUFFICES ASSUME Q # {} PROVE FALSE
    OBVIOUS
  <1>1. PICK n \in Q : \A m \in Q : n <= m
    <2>1. Q \in SUBSET Nat
      OBVIOUS
    <2> HIDE DEF Q
    <2> QED
      BY <2>1, LeastNatural
  <1>2. PICK m \in Nat : n \in Nat /\ Numeral[n] = Numeral[m] /\ n # m
    BY <1>1
  <1>3. \A i, j \in 1 .. Base : Digits[i] = Digits[j] => i = j
    BY DigitsAssumption, LenProperties DEF Base, IsInjective
  <1>4. CASE n < Base
    <2>1. m < Base
      <3>1. Len(Numeral[m]) = 1
        BY <1>2, <1>4, ShortNumeral
      <3>2. ~(m < Base) => Len(Numeral[m]) # 1
        BY LongNumeral
      <3> QED
        BY <3>1, <3>2
    <2>2. Digits[n + 1] = Digits[m + 1]
      BY <1>2, <1>4, <2>1, ShortNumeral
    <2>3. n + 1 \in 1 .. Base /\ m + 1 \in 1 .. Base
      BY <1>2, <1>4, <2>1, BaseIsNatural
    <2> QED
      BY <1>2, <1>3, <2>2, <2>3
  <1>5. CASE ~(n < Base)
    <2>1. ~(m < Base)
      <3>1. Len(Numeral[m]) # 1
        BY <1>2, <1>5, LongNumeral
      <3>2. m < Base => Len(Numeral[m]) = 1
        BY ShortNumeral
      <3> QED
        BY <3>1, <3>2
    <2>2. /\ Numeral[n \div Base] \in Seq(Characters \ {":"})
          /\ Numeral[m \div Base] \in Seq(Characters \ {":"})
      BY <1>2, <1>5, <2>1, LongNumeral, NumeralType
    <2>3. /\ Numeral[n \div Base] = Numeral[m \div Base]
          /\ Digits[(n % Base) + 1] = Digits[(m % Base) + 1]
      <3>1. /\ Numeral[n] = Append(Numeral[n \div Base], Digits[(n % Base) + 1])
            /\ Numeral[m] = Append(Numeral[m \div Base], Digits[(m % Base) + 1])
            /\ Digits[(n % Base) + 1] \in Characters \ {":"}
            /\ Digits[(m % Base) + 1] \in Characters \ {":"}
        BY <1>2, <1>5, <2>1, LongNumeral
      <3>2. Append(Numeral[n \div Base], Digits[(n % Base) + 1])
              = Append(Numeral[m \div Base], Digits[(m % Base) + 1])
        BY <1>2, <3>1, Zenon
      <3> DEFINE F == Characters \ {":"}
                 u == Numeral[n \div Base]
                 v == Numeral[m \div Base]
                 d == Digits[(n % Base) + 1]
                 e == Digits[(m % Base) + 1]
      <3>3. u \in Seq(F) /\ v \in Seq(F) /\ d \in F /\ e \in F /\ Append(u, d) = Append(v, e)
        BY <2>2, <3>1, <3>2, Zenon
      <3> HIDE DEF F, u, v, d, e
      <3>4. u = v /\ d = e
        BY <3>3, AppendsDiffer
      <3> QED
        BY <3>4 DEF u, v, d, e
    <2>4. n \div Base = m \div Base
      <3>1. n \div Base \in Nat /\ m \div Base \in Nat /\ n \div Base < n
        BY <1>2, <1>5, <2>1, LongNumeral
      <3>2. n \div Base \notin Q
        BY <1>1, <1>2, <3>1
      <3> QED
        BY <2>3, <3>1, <3>2
    <2>5. n % Base = m % Base
      <3>1. (n % Base) + 1 \in 1 .. Base /\ (m % Base) + 1 \in 1 .. Base
        BY <1>2, LastDigit, BaseIsNatural
      <3>2. n % Base \in Int /\ m % Base \in Int
        BY <1>2, LastDigit, BaseIsNatural
      <3> QED
        BY <1>3, <2>3, <3>1, <3>2
    <2>6. n = Base * (n \div Base) + (n % Base) /\ m = Base * (m \div Base) + (m % Base)
      BY <1>2, LastDigit
    <2> QED
      BY <1>2, <2>4, <2>5, <2>6
  <1> QED
    BY <1>4, <1>5

-----------------------------------------------------------------------------
(* Parts.                                                                  *)

\* What stands where in a concatenation.
LEMMA ConcatLayout ==
  \A S : \A s, t \in Seq(S) :
    /\ s \o t \in Seq(S)
    /\ Len(s) \in Nat /\ Len(t) \in Nat /\ Len(s \o t) = Len(s) + Len(t)
    /\ \A i \in 1 .. Len(s) : (s \o t)[i] = s[i]
    /\ \A i \in 1 .. Len(t) : (s \o t)[Len(s) + i] = t[i]
  <1> TAKE S
  <1> TAKE s, t \in Seq(S)
  <1>1. Len(s) \in Nat /\ Len(t) \in Nat
    BY LenProperties
  <1>2. s \o t \in Seq(S) /\ Len(s \o t) = Len(s) + Len(t)
    BY ConcatProperties
  <1>3. \A i \in 1 .. Len(s) + Len(t) : (s \o t)[i] = IF i <= Len(s) THEN s[i] ELSE t[i - Len(s)]
    BY ConcatProperties
  <1>4. ASSUME NEW i \in 1 .. Len(s) PROVE (s \o t)[i] = s[i]
    BY <1>1, <1>3
  <1>5. ASSUME NEW i \in 1 .. Len(t) PROVE (s \o t)[Len(s) + i] = t[i]
    <2>1. Len(s) + i \in 1 .. Len(s) + Len(t) /\ ~(Len(s) + i <= Len(s)) /\ (Len(s) + i) - Len(s) = i
      BY <1>1
    <2> QED
      BY <1>3, <2>1
  <1> QED
    BY <1>1, <1>2, <1>4, <1>5

\* What stands where in an encoded text.
LEMMA PartLayout ==
  \A x \in Texts :
    /\ WritePart(x) \in Texts
    /\ Numeral[Len(x)] \in Seq(Characters \ {":"})
    /\ Len(x) \in Nat /\ Len(Numeral[Len(x)]) \in Nat \ {0}
    /\ Len(WritePart(x)) = Len(Numeral[Len(x)]) + 1 + Len(x)
    /\ \A i \in 1 .. Len(Numeral[Len(x)]) : WritePart(x)[i] = Numeral[Len(x)][i]
    /\ WritePart(x)[Len(Numeral[Len(x)]) + 1] = ":"
    /\ \A i \in 1 .. Len(x) : WritePart(x)[Len(Numeral[Len(x)]) + 1 + i] = x[i]
  <1> TAKE x \in Texts
  <1> DEFINE d == Numeral[Len(x)]
             u == d \o <<":">>
  <1>1. x \in Seq(Characters) /\ Len(x) \in Nat
    BY LenProperties DEF Texts
  <1>2. d \in Seq(Characters \ {":"}) /\ Len(d) >= 1
    BY <1>1, NumeralType
  <1>3. d \in Seq(Characters)
    <2>1. Characters \ {":"} \subseteq Characters
      OBVIOUS
    <2> HIDE DEF d
    <2> QED
      BY <1>2, <2>1, SeqMonotonic
  <1>4. Len(d) \in Nat
    BY <1>3, LenProperties
  <1>5. WritePart(x) = u \o x
    BY DEF WritePart
  <1> HIDE DEF d
  <1>6. <<":">> \in Seq(Characters) /\ Len(<<":">>) = 1 /\ <<":">>[1] = ":"
    BY CharactersAssumption
  <1>7. /\ u \in Seq(Characters) /\ Len(u) = Len(d) + 1
        /\ \A i \in 1 .. Len(d) : u[i] = d[i]
        /\ u[Len(d) + 1] = ":"
    BY <1>3, <1>4, <1>6, ConcatProperties
  <1> HIDE DEF u
  <1>8. /\ WritePart(x) \in Seq(Characters)
        /\ Len(WritePart(x)) = Len(u) + Len(x)
        /\ \A i \in 1 .. Len(u) : WritePart(x)[i] = u[i]
        /\ \A i \in 1 .. Len(x) : WritePart(x)[Len(u) + i] = x[i]
    <2>1. u \in Seq(Characters) /\ x \in Seq(Characters)
      BY <1>1, <1>7
    <2>2. /\ u \o x \in Seq(Characters)
          /\ Len(u \o x) = Len(u) + Len(x)
          /\ \A i \in 1 .. Len(u) : (u \o x)[i] = u[i]
          /\ \A i \in 1 .. Len(x) : (u \o x)[Len(u) + i] = x[i]
      BY <2>1, ConcatLayout
    <2> QED
      BY <1>5, <2>2, Zenon
  <1>9. /\ \A i \in 1 .. Len(d) : WritePart(x)[i] = d[i]
        /\ WritePart(x)[Len(d) + 1] = ":"
    <2>1. Len(d) + 1 \in 1 .. Len(u) /\ \A i \in 1 .. Len(d) : i \in 1 .. Len(u)
      BY <1>4, <1>7
    <2> QED
      BY <1>7, <1>8, <2>1
  <1> QED
    BY <1>1, <1>2, <1>4, <1>7, <1>8, <1>9 DEF d, Texts

\* x and y are encoded alike as far as both encodings go.
Overlap(x, y) ==
  \A i \in (1 .. Len(WritePart(x))) \cap (1 .. Len(WritePart(y))) :
    WritePart(x)[i] = WritePart(y)[i]

\* The number of digits can be read off the encoding: the colon is no digit.
LEMMA ColonComesFirst ==
  \A x, y \in Texts :
    Overlap(x, y) => ~(Len(Numeral[Len(x)]) < Len(Numeral[Len(y)]))
  <1> TAKE x, y \in Texts
  <1> HAVE Overlap(x, y)
  <1> DEFINE m == Len(Numeral[Len(x)])
             n == Len(Numeral[Len(y)])
  <1>1. m \in Nat /\ n \in Nat /\ Len(x) \in Nat /\ Len(y) \in Nat
    BY PartLayout
  <1>2. SUFFICES ASSUME m < n PROVE FALSE
    OBVIOUS
  <1>3. WritePart(x)[m + 1] = ":"
    BY PartLayout
  <1>4. WritePart(y)[m + 1] = Numeral[Len(y)][m + 1]
    <2>1. m + 1 \in 1 .. n
      <3> HIDE DEF m, n
      <3> QED
        BY <1>1, <1>2
    <2> QED
      BY <2>1, PartLayout
  <1>5. Numeral[Len(y)][m + 1] # ":"
    <2>1. Numeral[Len(y)] \in Seq(Characters \ {":"})
      BY PartLayout
    <2>2. m + 1 \in 1 .. n
      <3> HIDE DEF m, n
      <3> QED
        BY <1>1, <1>2
    <2>3. Numeral[Len(y)][m + 1] \in Characters \ {":"}
      BY <2>1, <2>2, ElementOfSeq
    <2> QED
      BY <2>3
  <1>6. WritePart(x)[m + 1] = WritePart(y)[m + 1]
    <2>1. Len(WritePart(x)) = m + 1 + Len(x) /\ Len(WritePart(y)) = n + 1 + Len(y)
      BY PartLayout
    <2>2. m + 1 \in (1 .. Len(WritePart(x))) \cap (1 .. Len(WritePart(y)))
      BY <1>1, <1>2, <2>1
    <2> QED
      BY <2>2 DEF Overlap
  <1> QED
    BY <1>3, <1>4, <1>5, <1>6

\* A text can be read off the beginning of whatever its encoding begins.
LEMMA PartsDiffer ==
  \A x, y \in Texts : Overlap(x, y) => x = y
  <1> TAKE x, y \in Texts
  <1> HAVE Overlap(x, y)
  <1> DEFINE n == Len(Numeral[Len(x)])
  <1>1. /\ Len(x) \in Nat /\ Len(y) \in Nat
        /\ n \in Nat /\ Len(Numeral[Len(y)]) \in Nat
        /\ Len(WritePart(x)) = n + 1 + Len(x)
    BY PartLayout
  <1>2. Len(Numeral[Len(y)]) = n
    <2>1. Overlap(y, x)
      BY DEF Overlap
    <2>2. ~(n < Len(Numeral[Len(y)])) /\ ~(Len(Numeral[Len(y)]) < n)
      BY <2>1, ColonComesFirst
    <2> QED
      BY <1>1, <2>2
  <1>3. Len(WritePart(y)) = n + 1 + Len(y)
    BY <1>2, PartLayout
  <1>4. Numeral[Len(x)] = Numeral[Len(y)]
    <2>1. /\ Numeral[Len(x)] \in Seq(Characters \ {":"})
          /\ Numeral[Len(y)] \in Seq(Characters \ {":"})
      BY PartLayout
    <2>2. ASSUME NEW i \in 1 .. n PROVE Numeral[Len(x)][i] = Numeral[Len(y)][i]
      <3>1. WritePart(x)[i] = Numeral[Len(x)][i] /\ WritePart(y)[i] = Numeral[Len(y)][i]
        BY <1>2, PartLayout
      <3>2. i \in (1 .. Len(WritePart(x))) \cap (1 .. Len(WritePart(y)))
        BY <1>1, <1>3
      <3> QED
        BY <3>1, <3>2 DEF Overlap
    <2> QED
      BY <1>2, <2>1, <2>2, SeqEqual
  <1>5. Len(x) = Len(y)
    BY <1>1, <1>4, NumeralsDiffer
  <1>6. ASSUME NEW i \in 1 .. Len(x) PROVE x[i] = y[i]
    <2>1. WritePart(x)[n + 1 + i] = x[i]
      BY PartLayout
    <2>2. \A j \in 1 .. Len(y) : WritePart(y)[Len(Numeral[Len(y)]) + 1 + j] = y[j]
      BY PartLayout
    <2>3. WritePart(y)[n + 1 + i] = y[i]
      <3> HIDE DEF n
      <3> QED
        BY <1>2, <1>5, <2>2
    <2>4. n + 1 + i \in (1 .. Len(WritePart(x))) \cap (1 .. Len(WritePart(y)))
      BY <1>1, <1>3, <1>5
    <2> QED
      BY <2>1, <2>3, <2>4 DEF Overlap
  <1> QED
    BY <1>5, <1>6, SeqEqual DEF Texts

-----------------------------------------------------------------------------
(* The text of several parts.                                              *)

\* g holds, at i, the first i texts of w one after another.
Joins(g, w, n) ==
  /\ g \in [0 .. n -> Texts]
  /\ g[0] = << >>
  /\ \A i \in 1 .. n : g[i] = g[i - 1] \o w[i]

\* Every sequence of texts can be joined.
LEMMA JoinsExist ==
  ASSUME NEW w \in Seq(Texts)
  PROVE  \E g : Joins(g, w, Len(w))
  <1> DEFINE Q == {n \in Nat : n <= Len(w) => \E g : Joins(g, w, n)}
  <1>1. Len(w) \in Nat /\ \A i \in 1 .. Len(w) : w[i] \in Texts
    BY LenProperties, ElementOfSeq
  <1>2. 0 \in Q
    <2>1. << >> \in Texts
      BY DEF Texts
    <2>2. Joins([i \in 0 .. 0 |-> << >>], w, 0)
      BY <2>1 DEF Joins
    <2> QED
      BY <2>2
  <1>3. ASSUME NEW n \in Nat, n \in Q PROVE n + 1 \in Q
    <2> SUFFICES ASSUME n + 1 <= Len(w) PROVE \E g : Joins(g, w, n + 1)
      OBVIOUS
    <2>1. PICK g : Joins(g, w, n)
      BY <1>1, <1>3
    <2> DEFINE h == [i \in 0 .. (n + 1) |-> IF i <= n THEN g[i] ELSE g[n] \o w[n + 1]]
    <2>2. g[n] \in Texts /\ w[n + 1] \in Texts
      BY <1>1, <2>1 DEF Joins
    <2>3. g[n] \o w[n + 1] \in Texts
      BY <2>2, ConcatProperties DEF Texts
    <2>4. h \in [0 .. (n + 1) -> Texts] /\ h[0] = << >>
      BY <2>1, <2>3 DEF Joins
    <2>5. ASSUME NEW i \in 1 .. (n + 1) PROVE h[i] = h[i - 1] \o w[i]
      <3>1. CASE i <= n
        <4>1. h[i] = g[i] /\ h[i - 1] = g[i - 1] /\ i \in 1 .. n
          BY <3>1
        <4> QED
          BY <2>1, <4>1 DEF Joins
      <3>2. CASE ~(i <= n)
        <4>1. i = n + 1 /\ i - 1 = n
          BY <3>2
        <4>2. h[n + 1] = g[n] \o w[n + 1] /\ h[n] = g[n]
          OBVIOUS
        <4> QED
          BY <4>1, <4>2
      <3> QED
        BY <3>1, <3>2
    <2> QED
      BY <2>4, <2>5 DEF Joins
  <1> HIDE DEF Q
  <1>4. Nat \subseteq Q
    BY <1>2, <1>3, NatSetInduction
  <1> QED
    BY <1>1, <1>4 DEF Q

\* The recursion of FlattenSeq: h at i, from the table of the shorter beginnings.
Flattening(h, w, i) == IF i = 1 THEN w[i] ELSE h[i - 1] \o w[i]

\* FlattenSeq ends where the joining does.
LEMMA FlattenJoins ==
  ASSUME NEW w \in Seq(Texts), Len(w) # 0, NEW g, Joins(g, w, Len(w))
  PROVE  FlattenSeq(w) = g[Len(w)]
  <1> DEFINE n == Len(w)
             Solves(h) == h = [i \in 1 .. n |-> Flattening(h, w, i)]
             f == [i \in 1 .. n |-> g[i]]
  <1>1. n \in Nat \ {0} /\ \A i \in 1 .. n : w[i] \in Texts
    BY LenProperties, ElementOfSeq
  <1>2. FlattenSeq(w) = (CHOOSE h : Solves(h))[n]
    BY DEF FlattenSeq, Flattening
  <1> HIDE DEF n
  <1>3. \A i \in 1 .. n : g[i] = Flattening(g, w, i)
    <2> TAKE i \in 1 .. n
    <2>1. g[i] = g[i - 1] \o w[i]
      BY DEF Joins, n
    <2>2. ASSUME i = 1 PROVE g[i - 1] \o w[i] = w[i]
      <3>1. g[i - 1] = << >>
        BY <2>2 DEF Joins
      <3> QED
        BY <1>1, <3>1, ConcatEmptySeq DEF Texts
    <2> QED
      BY <2>1, <2>2 DEF Flattening
  <1>4. Solves(f)
    <2>1. \A i \in 1 .. n : Flattening(f, w, i) = Flattening(g, w, i)
      <3> TAKE i \in 1 .. n
      <3>1. i # 1 => f[i - 1] = g[i - 1]
        BY <1>1
      <3> QED
        BY <3>1 DEF Flattening
    <2> QED
      BY <1>3, <2>1
  <1>5. \E h : Solves(h)
    BY <1>4
  <1> HIDE DEF f
  <1>6. ASSUME NEW h, Solves(h) PROVE \A i \in 1 .. n : h[i] = g[i]
    <2> DEFINE D == {i \in 1 .. n : h[i] # g[i]}
    <2> SUFFICES ASSUME D # {} PROVE FALSE
      OBVIOUS
    <2>1. PICK i \in D : \A j \in D : i <= j
      <3>1. D \in SUBSET Nat
        BY <1>1
      <3> HIDE DEF D
      <3> QED
        BY <3>1, LeastNatural
    <2>2. i \in 1 .. n /\ h[i] # g[i]
      BY <2>1
    <2>3. h[i] = Flattening(h, w, i)
      <3> DEFINE F(k) == Flattening(h, w, k)
      <3>1. h = [k \in 1 .. n |-> F(k)]
        BY <1>6
      <3> HIDE DEF F
      <3>2. h[i] = F(i)
        BY <2>2, <3>1
      <3> QED
        BY <3>2 DEF F
    <2>4. i # 1 => h[i - 1] = g[i - 1]
      <3>1. i # 1 => i - 1 \in 1 .. n /\ ~(i <= i - 1)
        BY <1>1, <2>2
      <3> QED
        BY <2>1, <3>1
    <2>5. Flattening(h, w, i) = Flattening(g, w, i)
      BY <2>4 DEF Flattening
    <2> QED
      BY <1>3, <2>2, <2>3, <2>5
  <1> HIDE DEF Solves
  <1>7. Solves(CHOOSE h : Solves(h))
    BY <1>5
  <1>8. (CHOOSE h : Solves(h))[n] = g[n]
    BY <1>1, <1>6, <1>7
  <1> QED
    BY <1>2, <1>8 DEF n

\* u is how t begins.
Begins(u, t) ==
  /\ Len(u) \in Nat /\ Len(t) \in Nat /\ Len(u) <= Len(t)
  /\ \A k \in 1 .. Len(u) : t[k] = u[k]

\* u is what t holds after its first p characters.
StandsAfter(p, u, t) == \A k \in 1 .. Len(u) : t[p + k] = u[k]

\* The beginning of a beginning is one.
LEMMA BeginsTransitive ==
  \A u, v, t : Begins(u, v) /\ Begins(v, t) => Begins(u, t)
  BY DEF Begins

\* Each joining stands at the beginning of the next, and w[i] stands after it.
LEMMA JoinsGrow ==
  ASSUME NEW w \in Seq(Texts), NEW g, Joins(g, w, Len(w))
  PROVE  \A i \in 1 .. Len(w) :
           /\ Len(g[i - 1]) \in Nat /\ Len(w[i]) \in Nat
           /\ Len(g[i]) = Len(g[i - 1]) + Len(w[i])
           /\ Begins(g[i - 1], g[i])
           /\ StandsAfter(Len(g[i - 1]), w[i], g[i])
  <1> TAKE i \in 1 .. Len(w)
  <1>1. g[i - 1] \in Seq(Characters) /\ w[i] \in Seq(Characters)
    <2>1. Len(w) \in Nat /\ w[i] \in Texts
      BY LenProperties, ElementOfSeq
    <2>2. i - 1 \in 0 .. Len(w)
      BY <2>1
    <2> QED
      BY <2>1, <2>2 DEF Joins, Texts
  <1>2. g[i] = g[i - 1] \o w[i]
    BY DEF Joins
  <1>3. /\ Len(g[i - 1]) \in Nat /\ Len(w[i]) \in Nat
        /\ Len(g[i - 1] \o w[i]) = Len(g[i - 1]) + Len(w[i])
        /\ Begins(g[i - 1], g[i - 1] \o w[i])
        /\ StandsAfter(Len(g[i - 1]), w[i], g[i - 1] \o w[i])
    <2> DEFINE u == g[i - 1]
               v == w[i]
    <2>1. u \in Seq(Characters) /\ v \in Seq(Characters)
      BY <1>1
    <2> HIDE DEF u, v
    <2>2. /\ Len(u) \in Nat /\ Len(v) \in Nat
          /\ Len(u \o v) = Len(u) + Len(v)
          /\ \A k \in 1 .. Len(u) : (u \o v)[k] = u[k]
          /\ \A k \in 1 .. Len(v) : (u \o v)[Len(u) + k] = v[k]
      BY <2>1, ConcatLayout
    <2>3. Begins(u, u \o v) /\ StandsAfter(Len(u), v, u \o v)
      BY <2>2 DEF Begins, StandsAfter
    <2> QED
      BY <2>2, <2>3 DEF u, v
  <1> QED
    BY <1>2, <1>3, Zenon

\* Each joining stands at the beginning of the last.
LEMMA JoinsBegin ==
  ASSUME NEW w \in Seq(Texts), NEW g, Joins(g, w, Len(w))
  PROVE  \A i \in 0 .. Len(w) : Begins(g[i], g[Len(w)])
  <1> DEFINE n == Len(w)
             Q == {d \in Nat : d <= n => Begins(g[n - d], g[n])}
  <1>1. n \in Nat /\ \A i \in 0 .. n : Len(g[i]) \in Nat
    BY LenProperties DEF Joins, Texts
  <1>2. 0 \in Q
    <2>1. n - 0 = n /\ Begins(g[n], g[n])
      BY <1>1 DEF Begins
    <2> QED
      BY <2>1
  <1>3. ASSUME NEW d \in Nat, d \in Q PROVE d + 1 \in Q
    <2> SUFFICES ASSUME d + 1 <= n PROVE Begins(g[n - (d + 1)], g[n])
      OBVIOUS
    <2> DEFINE i == n - d
    <2>1. i \in 1 .. n /\ n - (d + 1) = i - 1
      BY <1>1
    <2>2. Begins(g[i], g[n])
      <3>1. d <= n
        BY <1>1
      <3>2. d <= n => Begins(g[n - d], g[n])
        BY <1>3
      <3> QED
        BY <3>1, <3>2
    <2> HIDE DEF i
    <2>3. Begins(g[i - 1], g[i])
      BY <2>1, JoinsGrow
    <2>4. Begins(g[i - 1], g[n])
      BY <2>2, <2>3, BeginsTransitive
    <2> QED
      BY <2>1, <2>4
  <1>4. Nat \subseteq Q
    <2> HIDE DEF Q
    <2> QED
      BY <1>2, <1>3, NatSetInduction
  <1>5. ASSUME NEW i \in 0 .. n PROVE Begins(g[i], g[n])
    <2>1. n - i \in Nat /\ n - i <= n /\ n - (n - i) = i
      BY <1>1
    <2>2. n - i \in Q
      BY <1>4, <2>1
    <2> QED
      BY <2>1, <2>2
  <1> QED
    BY <1>5

-----------------------------------------------------------------------------
(* Decoding.                                                               *)

\* The encodings of the texts of s.
Encoded(s) == [i \in DOMAIN s |-> WritePart(s[i])]

\* One encoding for each text.
LEMMA EncodedType ==
  \A s \in Seq(Texts) :
    /\ Len(s) \in Nat
    /\ Encoded(s) \in Seq(Texts) /\ Len(Encoded(s)) = Len(s)
    /\ \A i \in 1 .. Len(s) : s[i] \in Texts /\ Encoded(s)[i] = WritePart(s[i])
  <1> TAKE s \in Seq(Texts)
  <1>1. Len(s) \in Nat /\ DOMAIN s = 1 .. Len(s) /\ \A i \in 1 .. Len(s) : s[i] \in Texts
    BY LenProperties, ElementOfSeq
  <1>2. \A i \in 1 .. Len(s) : WritePart(s[i]) \in Texts
    BY <1>1, PartLayout
  <1>3. Encoded(s) = [i \in 1 .. Len(s) |-> WritePart(s[i])]
    BY <1>1 DEF Encoded
  <1>4. Encoded(s) \in [1 .. Len(s) -> Texts]
    BY <1>2, <1>3
  <1>5. Encoded(s) \in Seq(Texts)
    BY <1>1, <1>4, SeqDef
  <1>6. DOMAIN Encoded(s) = 1 .. Len(s) /\ DOMAIN Encoded(s) = 1 .. Len(Encoded(s))
    BY <1>4, <1>5, LenProperties
  <1>7. Len(Encoded(s)) = Len(s)
    BY <1>1, <1>4, <1>5, <1>6
  <1> QED
    BY <1>1, <1>3, <1>5, <1>7

\* Where the text of part i stands in the whole.
LEMMA PartPlace ==
  ASSUME NEW s \in Seq(Texts), NEW g, Joins(g, Encoded(s), Len(s)), NEW i \in 1 .. Len(s)
  PROVE  /\ Len(g[i - 1]) \in Nat /\ Len(WritePart(s[i])) \in Nat
         /\ Len(g[i]) = Len(g[i - 1]) + Len(WritePart(s[i]))
         /\ Begins(g[i], g[Len(s)])
         /\ StandsAfter(Len(g[i - 1]), WritePart(s[i]), g[Len(s)])
  <1> DEFINE w == Encoded(s)
             v == WritePart(s[i])
             m == Len(g[i - 1])
  <1>1. w \in Seq(Texts) /\ Len(s) = Len(w) /\ w[i] = v
    BY EncodedType
  <1> HIDE DEF w, v
  <1>2. Joins(g, w, Len(w)) /\ i \in 1 .. Len(w) /\ w \in Seq(Texts)
    BY <1>1 DEF w
  <1>3. /\ Len(g[i - 1]) \in Nat /\ Len(w[i]) \in Nat
        /\ Len(g[i]) = Len(g[i - 1]) + Len(w[i])
        /\ StandsAfter(Len(g[i - 1]), w[i], g[i])
    BY <1>2, JoinsGrow
  <1>4. Begins(g[i], g[Len(w)])
    <2>1. i \in 0 .. Len(w)
      BY <1>2
    <2> QED
      BY <1>2, <2>1, JoinsBegin
  <1>5. /\ m \in Nat /\ Len(v) \in Nat /\ Len(g[i]) = m + Len(v)
        /\ StandsAfter(m, v, g[i])
    BY <1>1, <1>3, Zenon
  <1> HIDE DEF m
  <1>6. StandsAfter(m, v, g[Len(w)])
    <2> SUFFICES ASSUME NEW k \in 1 .. Len(v) PROVE g[Len(w)][m + k] = v[k]
      BY DEF StandsAfter
    <2>1. m + k \in 1 .. Len(g[i])
      BY <1>5
    <2>2. g[Len(w)][m + k] = g[i][m + k]
      BY <1>4, <2>1 DEF Begins
    <2> QED
      BY <1>5, <2>2 DEF StandsAfter
  <1> QED
    BY <1>1, <1>4, <1>5, <1>6, Zenon DEF m, v

\* Of two sequences of parts whose whole texts are the same, that begin alike
\* before part i, part i is the same.
LEMMA NextPart ==
  ASSUME NEW s \in Seq(Texts), NEW g, Joins(g, Encoded(s), Len(s)),
         NEW t \in Seq(Texts), NEW h, Joins(h, Encoded(t), Len(t)),
         g[Len(s)] = h[Len(t)],
         NEW i \in (1 .. Len(s)) \cap (1 .. Len(t)), g[i - 1] = h[i - 1]
  PROVE  s[i] = t[i] /\ g[i] = h[i]
  <1>1. s[i] \in Texts /\ t[i] \in Texts
    BY EncodedType
  <1>2. ASSUME NEW k \in (1 .. Len(WritePart(s[i]))) \cap (1 .. Len(WritePart(t[i])))
        PROVE  WritePart(s[i])[k] = WritePart(t[i])[k]
    <2>1. g[Len(s)][Len(g[i - 1]) + k] = WritePart(s[i])[k]
      BY PartPlace DEF StandsAfter
    <2>2. h[Len(t)][Len(h[i - 1]) + k] = WritePart(t[i])[k]
      BY PartPlace DEF StandsAfter
    <2> QED
      BY <2>1, <2>2
  <1>3. s[i] = t[i]
    <2>1. Overlap(s[i], t[i])
      BY <1>2 DEF Overlap
    <2> QED
      BY <1>1, <2>1, PartsDiffer
  <1>4. g[i] = g[i - 1] \o Encoded(s)[i] /\ h[i] = h[i - 1] \o Encoded(t)[i]
    BY DEF Joins
  <1>5. Encoded(s)[i] = WritePart(s[i]) /\ Encoded(t)[i] = WritePart(t[i])
    BY EncodedType
  <1> QED
    BY <1>3, <1>4, <1>5

\* Parts are never empty: a whole text does not begin with all of another's parts
\* and go on.
LEMMA SameCount ==
  ASSUME NEW s \in Seq(Texts), NEW g, Joins(g, Encoded(s), Len(s)),
         NEW n \in Nat, n < Len(s)
  PROVE  g[n] # g[Len(s)]
  <1> DEFINE i == n + 1
             x == s[i]
  <1>1. i \in 1 .. Len(s) /\ i - 1 = n
    BY EncodedType
  <1> HIDE DEF i
  <1>2. x \in Texts
    BY <1>1, EncodedType
  <1>3. /\ Len(x) \in Nat /\ Len(Numeral[Len(x)]) \in Nat
        /\ Len(WritePart(x)) = Len(Numeral[Len(x)]) + 1 + Len(x)
    BY <1>2, PartLayout
  <1>4. /\ Len(g[i - 1]) \in Nat
        /\ Len(g[i]) = Len(g[i - 1]) + Len(WritePart(x))
        /\ Begins(g[i], g[Len(s)])
    BY <1>1, PartPlace
  <1> HIDE DEF x
  <1>5. Len(g[i]) <= Len(g[Len(s)]) /\ Len(g[Len(s)]) \in Nat
    BY <1>4 DEF Begins
  <1>6. Len(g[i - 1]) < Len(g[Len(s)])
    <2> DEFINE a == Len(g[i - 1])
               b == Len(g[i])
               c == Len(g[Len(s)])
               d == Len(WritePart(x))
    <2>1. a \in Nat /\ b = a + d /\ b <= c /\ c \in Nat
      BY <1>4, <1>5
    <2>2. d \in Nat \ {0}
      BY <1>3
    <2> HIDE DEF a, b, c, d
    <2>3. a < c
      BY <2>1, <2>2
    <2> QED
      BY <2>3 DEF a, c
  <1> QED
    BY <1>1, <1>6

\* The text of an encoded sequence is the last of its joinings.
LEMMA EncodingJoined ==
  ASSUME NEW s \in Seq(Texts), Len(s) # 0
  PROVE  \E g : Joins(g, Encoded(s), Len(s)) /\ FlattenSeq(Encoded(s)) = g[Len(s)]
  <1> DEFINE w == Encoded(s)
  <1>1. w \in Seq(Texts) /\ Len(w) = Len(s)
    BY EncodedType
  <1> HIDE DEF w
  <1>2. PICK g : Joins(g, w, Len(w))
    BY <1>1, JoinsExist
  <1>3. Joins(g, w, Len(s)) /\ FlattenSeq(w) = g[Len(s)]
    <2>1. FlattenSeq(w) = g[Len(w)]
      BY <1>1, <1>2, FlattenJoins
    <2> QED
      BY <1>1, <1>2, <2>1
  <1>4. \E f : Joins(f, w, Len(s)) /\ FlattenSeq(w) = f[Len(s)]
    BY <1>3, Zenon
  <1> QED
    BY <1>4, Zenon DEF w

\* A sequence of texts can be read off the encodings written one after another.
LEMMA TextsDecoded ==
  ASSUME NEW s \in Seq(Texts), Len(s) # 0, NEW t \in Seq(Texts), Len(t) # 0,
         FlattenSeq(Encoded(s)) = FlattenSeq(Encoded(t))
  PROVE  s = t
  <1>1. Len(s) \in Nat /\ Len(t) \in Nat
    BY EncodedType
  <1>2. PICK g : Joins(g, Encoded(s), Len(s)) /\ FlattenSeq(Encoded(s)) = g[Len(s)]
    BY EncodingJoined
  <1>3. PICK h : Joins(h, Encoded(t), Len(t)) /\ FlattenSeq(Encoded(t)) = h[Len(t)]
    BY EncodingJoined
  <1>4. g[Len(s)] = h[Len(t)]
    BY <1>2, <1>3
  <1> DEFINE Q == {n \in Nat : n <= Len(s) /\ n <= Len(t) => g[n] = h[n]}
  <1>5. Nat \subseteq Q
    <2>1. 0 \in Q
      BY <1>2, <1>3 DEF Joins
    <2>2. ASSUME NEW n \in Nat, n \in Q PROVE n + 1 \in Q
      <3> SUFFICES ASSUME n + 1 <= Len(s), n + 1 <= Len(t) PROVE g[n + 1] = h[n + 1]
        OBVIOUS
      <3> DEFINE i == n + 1
      <3>1. i \in (1 .. Len(s)) \cap (1 .. Len(t)) /\ i - 1 = n
        BY <1>1
      <3>2. g[n] = h[n]
        BY <1>1, <2>2
      <3> HIDE DEF i
      <3>3. g[i] = h[i]
        BY <1>2, <1>3, <1>4, <3>1, <3>2, NextPart
      <3> QED
        BY <3>3 DEF i
    <2> HIDE DEF Q
    <2> QED
      BY <2>1, <2>2, NatSetInduction
  <1>6. ASSUME NEW n \in Nat, n <= Len(s), n <= Len(t) PROVE g[n] = h[n]
    BY <1>5, <1>6
  <1>7. Len(s) = Len(t)
    <2>1. ~(Len(s) < Len(t))
      <3> SUFFICES ASSUME Len(s) < Len(t) PROVE FALSE
        OBVIOUS
      <3>1. h[Len(s)] # h[Len(t)]
        BY <1>1, <1>3, SameCount
      <3>2. g[Len(s)] = h[Len(s)]
        BY <1>1, <1>6
      <3> QED
        BY <1>4, <3>1, <3>2
    <2>2. ~(Len(t) < Len(s))
      <3> SUFFICES ASSUME Len(t) < Len(s) PROVE FALSE
        OBVIOUS
      <3>1. g[Len(t)] # g[Len(s)]
        BY <1>1, <1>2, SameCount
      <3>2. g[Len(t)] = h[Len(t)]
        BY <1>1, <1>6
      <3> QED
        BY <1>4, <3>1, <3>2
    <2> QED
      BY <1>1, <2>1, <2>2
  <1>8. ASSUME NEW i \in 1 .. Len(s) PROVE s[i] = t[i]
    <2>1. i \in (1 .. Len(s)) \cap (1 .. Len(t))
      BY <1>7
    <2>2. i - 1 \in Nat /\ i - 1 <= Len(s) /\ i - 1 <= Len(t)
      BY <1>1, <1>7
    <2>3. g[i - 1] = h[i - 1]
      BY <1>6, <2>2
    <2> QED
      BY <1>2, <1>3, <1>4, <2>1, <2>3, NextPart
  <1> QED
    BY <1>7, <1>8, SeqEqual

-----------------------------------------------------------------------------
(* Requests.                                                               *)

\* ConcatLayout, in these terms.
LEMMA ConcatStands ==
  \A S : \A s, t \in Seq(S) :
    /\ s \o t \in Seq(S)
    /\ Len(s) \in Nat /\ Len(t) \in Nat /\ Len(s \o t) = Len(s) + Len(t)
    /\ Begins(s, s \o t) /\ StandsAfter(Len(s), t, s \o t)
  <1> TAKE S
  <1> TAKE s, t \in Seq(S)
  <1>1. /\ s \o t \in Seq(S)
        /\ Len(s) \in Nat /\ Len(t) \in Nat /\ Len(s \o t) = Len(s) + Len(t)
        /\ \A i \in 1 .. Len(s) : (s \o t)[i] = s[i]
        /\ \A i \in 1 .. Len(t) : (s \o t)[Len(s) + i] = t[i]
    BY ConcatLayout
  <1> QED
    BY <1>1 DEF Begins, StandsAfter

\* A tag and the text behind it can be told from the tagged text.
LEMMA Tags ==
  \A c, d \in Characters, x, y \in Texts :
    /\ <<c>> \o x \in Texts
    /\ <<c>> \o x = <<d>> \o y => c = d /\ x = y
  <1> TAKE c, d \in Characters, x, y \in Texts
  <1>1. x \in Seq(Characters) /\ y \in Seq(Characters)
    BY DEF Texts
  <1>2. /\ <<c>> \in Seq(Characters) /\ Len(<<c>>) = 1 /\ <<c>>[1] = c
        /\ <<d>> \in Seq(Characters) /\ Len(<<d>>) = 1 /\ <<d>>[1] = d
    OBVIOUS
  <1> DEFINE u == <<c>>
             v == <<d>>
  <1>3. /\ u \in Seq(Characters) /\ Len(u) = 1 /\ u[1] = c
        /\ v \in Seq(Characters) /\ Len(v) = 1 /\ v[1] = d
    BY <1>2
  <1> HIDE DEF u, v
  <1>7. Len(x) \in Nat /\ Len(y) \in Nat
    BY <1>1, LenProperties
  <1>4. /\ u \o x \in Seq(Characters) /\ Len(x) \in Nat /\ Len(u \o x) = 1 + Len(x)
        /\ (u \o x)[1] = c
        /\ \A i \in 1 .. Len(x) : (u \o x)[1 + i] = x[i]
    <2>1. /\ u \o x \in Seq(Characters) /\ Len(u \o x) = Len(u) + Len(x)
          /\ Begins(u, u \o x) /\ StandsAfter(Len(u), x, u \o x)
      BY <1>1, <1>3, ConcatStands
    <2> QED
      BY <1>3, <1>7, <2>1 DEF Begins, StandsAfter
  <1>5. /\ v \o y \in Seq(Characters) /\ Len(y) \in Nat /\ Len(v \o y) = 1 + Len(y)
        /\ (v \o y)[1] = d
        /\ \A i \in 1 .. Len(y) : (v \o y)[1 + i] = y[i]
    <2>1. /\ v \o y \in Seq(Characters) /\ Len(v \o y) = Len(v) + Len(y)
          /\ Begins(v, v \o y) /\ StandsAfter(Len(v), y, v \o y)
      BY <1>1, <1>3, ConcatStands
    <2> QED
      BY <1>3, <1>7, <2>1 DEF Begins, StandsAfter
  <1>6. ASSUME u \o x = v \o y PROVE c = d /\ x = y
    <2>1. c = d
      BY <1>4, <1>5, <1>6
    <2>2. Len(x) = Len(y)
      BY <1>4, <1>5, <1>6
    <2>3. \A i \in 1 .. Len(x) : x[i] = y[i]
      BY <1>4, <1>5, <1>6, <2>2
    <2>4. x = y
      BY <1>1, <2>2, <2>3, SeqEqual
    <2> QED
      BY <2>1, <2>4
  <1> QED
    BY <1>4, <1>6 DEF u, v, Texts

\* The tagged references, one for one.
LEMMA TaggedLayout ==
  \A c \in Characters, ids \in Seq(Texts) :
    /\ Len(ids) \in Nat
    /\ WriteTagged(c, ids) \in Seq(Texts) /\ Len(WriteTagged(c, ids)) = Len(ids)
    /\ \A i \in 1 .. Len(ids) : ids[i] \in Texts /\ WriteTagged(c, ids)[i] = <<c>> \o ids[i]
  <1> TAKE c \in Characters, ids \in Seq(Texts)
  <1> DEFINE w == WriteTagged(c, ids)
  <1>1. Len(ids) \in Nat /\ DOMAIN ids = 1 .. Len(ids) /\ \A i \in 1 .. Len(ids) : ids[i] \in Texts
    BY LenProperties, ElementOfSeq
  <1>2. w = [i \in 1 .. Len(ids) |-> <<c>> \o ids[i]]
    BY <1>1 DEF WriteTagged
  <1>3. \A i \in 1 .. Len(ids) : <<c>> \o ids[i] \in Texts
    BY <1>1, Tags
  <1>4. w \in [1 .. Len(ids) -> Texts]
    BY <1>2, <1>3
  <1>5. w \in Seq(Texts)
    BY <1>1, <1>4, SeqDef
  <1>6. Len(w) = Len(ids)
    BY <1>1, <1>4, <1>5, LenProperties
  <1> QED
    BY <1>1, <1>2, <1>5, <1>6

\* The parts that every request has.
Fields(r) ==
  <<r.tenantID, r.taskType, r.taskSchemaVersion, r.promptVersion,
    r.outputSchemaVersion, r.prompt>>

\* Where the parts of a request are.
LEMMA PartsLayout ==
  \A r \in Arguments :
    /\ Fields(r) \in Seq(Texts)
    /\ r.subjectIDs \in Seq(Texts) /\ Len(r.subjectIDs) \in Nat
    /\ r.evidenceIDs \in Seq(Texts) /\ Len(r.evidenceIDs) \in Nat
    /\ Parts(r) \in Seq(Texts)
    /\ Len(Parts(r)) = 6 + Len(r.subjectIDs) + Len(r.evidenceIDs)
    /\ \A i \in 1 .. 6 : Parts(r)[i] = Fields(r)[i]
    /\ \A i \in 1 .. Len(r.subjectIDs) : Parts(r)[6 + i] = <<"s">> \o r.subjectIDs[i]
    /\ \A i \in 1 .. Len(r.evidenceIDs) :
         Parts(r)[6 + Len(r.subjectIDs) + i] = <<"e">> \o r.evidenceIDs[i]
  <1> TAKE r \in Arguments
  <1> DEFINE f == Fields(r)
             u == WriteTagged("s", r.subjectIDs)
             v == WriteTagged("e", r.evidenceIDs)
             m == Len(r.subjectIDs)
             n == Len(r.evidenceIDs)
  <1>1. r.subjectIDs \in Seq(Texts) /\ r.evidenceIDs \in Seq(Texts)
    BY DEF Arguments
  <1>2. f \in Seq(Texts) /\ Len(f) = 6
    BY DEF Fields, Arguments
  <1>3. /\ m \in Nat /\ u \in Seq(Texts) /\ Len(u) = m
        /\ \A i \in 1 .. m : u[i] = <<"s">> \o r.subjectIDs[i]
    BY <1>1, CharactersAssumption, TaggedLayout
  <1>4. /\ n \in Nat /\ v \in Seq(Texts) /\ Len(v) = n
        /\ \A i \in 1 .. n : v[i] = <<"e">> \o r.evidenceIDs[i]
    BY <1>1, CharactersAssumption, TaggedLayout
  <1>5. Parts(r) = (f \o u) \o v
    BY DEF Parts, Fields
  <1> HIDE DEF f, u, v, m, n
  <1>6. /\ f \o u \in Seq(Texts) /\ Len(f \o u) = 6 + m
        /\ \A i \in 1 .. 6 : (f \o u)[i] = f[i]
        /\ \A i \in 1 .. m : (f \o u)[6 + i] = u[i]
    <2>1. /\ f \o u \in Seq(Texts) /\ Len(f \o u) = Len(f) + Len(u)
          /\ Begins(f, f \o u) /\ StandsAfter(Len(f), u, f \o u)
      BY <1>2, <1>3, ConcatStands
    <2> QED
      BY <1>2, <1>3, <2>1 DEF Begins, StandsAfter
  <1> DEFINE t == f \o u
  <1> HIDE DEF t
  <1>7. t \in Seq(Texts) /\ Len(t) = 6 + m
    BY <1>6 DEF t
  <1>8. /\ t \o v \in Seq(Texts) /\ Len(t \o v) = 6 + m + n
        /\ \A i \in 1 .. 6 + m : (t \o v)[i] = t[i]
        /\ \A i \in 1 .. n : (t \o v)[6 + m + i] = v[i]
    <2>1. /\ t \o v \in Seq(Texts) /\ Len(t \o v) = Len(t) + Len(v)
          /\ Begins(t, t \o v) /\ StandsAfter(Len(t), v, t \o v)
      BY <1>4, <1>7, ConcatStands
    <2> QED
      BY <1>3, <1>4, <1>7, <2>1 DEF Begins, StandsAfter
  <1>9. /\ \A i \in 1 .. 6 : (t \o v)[i] = f[i]
        /\ \A i \in 1 .. m : (t \o v)[6 + i] = u[i]
    <2>1. \A i \in 1 .. 6 : t[i] = f[i]
      BY <1>6 DEF t
    <2>2. \A i \in 1 .. m : t[6 + i] = u[i]
      BY <1>6 DEF t
    <2>3. \A i \in 1 .. m : 6 + i \in 1 .. 6 + m
      BY <1>3
    <2>4. \A i \in 1 .. 6 : i \in 1 .. 6 + m
      BY <1>3
    <2> QED
      BY <1>8, <2>1, <2>2, <2>3, <2>4
  <1>10. Parts(r) = t \o v
    BY <1>5 DEF t
  <1>11. /\ \A i \in 1 .. m : (t \o v)[6 + i] = <<"s">> \o r.subjectIDs[i]
         /\ \A i \in 1 .. n : (t \o v)[6 + m + i] = <<"e">> \o r.evidenceIDs[i]
    BY <1>3, <1>4, <1>8, <1>9, Zenon
  <1>12. /\ Parts(r) \in Seq(Texts) /\ Len(Parts(r)) = 6 + m + n
         /\ \A i \in 1 .. 6 : Parts(r)[i] = f[i]
         /\ \A i \in 1 .. m : Parts(r)[6 + i] = <<"s">> \o r.subjectIDs[i]
         /\ \A i \in 1 .. n : Parts(r)[6 + m + i] = <<"e">> \o r.evidenceIDs[i]
    BY <1>8, <1>9, <1>10, <1>11, Zenon
  <1> QED
    BY <1>1, <1>2, <1>3, <1>4, <1>12, Zenon DEF f, m, n

\* The subjects are all the parts tagged as subjects.
LEMMA SubjectsCounted ==
  \A a, b \in Arguments :
    Parts(a) = Parts(b) => ~(Len(a.subjectIDs) < Len(b.subjectIDs))
  <1> TAKE a, b \in Arguments
  <1> DEFINE m == Len(a.subjectIDs)
             n == Len(b.subjectIDs)
             p == Len(a.evidenceIDs)
             q == Len(b.evidenceIDs)
  <1> SUFFICES ASSUME Parts(a) = Parts(b), m < n PROVE FALSE
    OBVIOUS
  <1>1. /\ m \in Nat /\ n \in Nat /\ p \in Nat /\ q \in Nat
        /\ Len(Parts(a)) = 6 + m + p /\ Len(Parts(b)) = 6 + n + q
    BY PartsLayout
  <1>2. m + 1 \in 1 .. n /\ 1 \in 1 .. p /\ 6 + (m + 1) = 6 + m + 1
    <2> HIDE DEF m, n, p, q
    <2>1. 6 + m + p = 6 + n + q
      BY <1>1
    <2> QED
      BY <1>1, <2>1
  <1>3. Parts(b)[6 + (m + 1)] = <<"s">> \o b.subjectIDs[m + 1]
    BY <1>2, PartsLayout
  <1>4. Parts(a)[6 + m + 1] = <<"e">> \o a.evidenceIDs[1]
    BY <1>2, PartsLayout
  <1>5. b.subjectIDs[m + 1] \in Texts /\ a.evidenceIDs[1] \in Texts
    <2>1. a.evidenceIDs \in Seq(Texts) /\ b.subjectIDs \in Seq(Texts)
      BY PartsLayout
    <2> QED
      BY <1>2, <2>1, ElementOfSeq
  <1>6. <<"s">> \o b.subjectIDs[m + 1] = <<"e">> \o a.evidenceIDs[1]
    BY <1>2, <1>3, <1>4
  <1> QED
    BY <1>5, <1>6, Tags, CharactersAssumption

\* The parts say what was asked.
LEMMA PartsTellApart ==
  \A a, b \in Arguments : Parts(a) = Parts(b) => a = b
  <1> TAKE a, b \in Arguments
  <1> HAVE Parts(a) = Parts(b)
  <1> DEFINE m == Len(a.subjectIDs)
             n == Len(a.evidenceIDs)
  <1>1. /\ m \in Nat /\ Len(b.subjectIDs) \in Nat
        /\ n \in Nat /\ Len(b.evidenceIDs) \in Nat
        /\ a.subjectIDs \in Seq(Texts) /\ b.subjectIDs \in Seq(Texts)
        /\ a.evidenceIDs \in Seq(Texts) /\ b.evidenceIDs \in Seq(Texts)
    BY PartsLayout
  <1>2. Len(b.subjectIDs) = m
    <2>1. ~(m < Len(b.subjectIDs)) /\ ~(Len(b.subjectIDs) < m)
      BY SubjectsCounted
    <2> QED
      BY <1>1, <2>1
  <1>3. Len(b.evidenceIDs) = n
    <2>1. /\ Len(Parts(a)) = 6 + m + n
          /\ Len(Parts(b)) = 6 + m + Len(b.evidenceIDs)
      BY <1>2, PartsLayout
    <2> DEFINE q == Len(b.evidenceIDs)
    <2>2. 6 + m + n = 6 + m + q
      BY <2>1
    <2>3. m \in Nat /\ n \in Nat /\ q \in Nat
      BY <1>1
    <2> HIDE DEF m, n, q
    <2>4. q = n
      BY <2>2, <2>3
    <2> QED
      BY <2>4 DEF q
  <1>4. a.subjectIDs = b.subjectIDs
    <2> SUFFICES ASSUME NEW i \in 1 .. m PROVE a.subjectIDs[i] = b.subjectIDs[i]
      BY <1>1, <1>2, SeqEqual
    <2>1. Parts(a)[6 + i] = <<"s">> \o a.subjectIDs[i]
      BY PartsLayout
    <2>2. Parts(b)[6 + i] = <<"s">> \o b.subjectIDs[i]
      BY <1>2, PartsLayout
    <2>3. a.subjectIDs[i] \in Texts /\ b.subjectIDs[i] \in Texts
      BY <1>1, <1>2, ElementOfSeq
    <2>4. <<"s">> \o a.subjectIDs[i] = <<"s">> \o b.subjectIDs[i]
      BY <2>1, <2>2
    <2> QED
      BY <2>3, <2>4, Tags, CharactersAssumption
  <1>5. a.evidenceIDs = b.evidenceIDs
    <2> SUFFICES ASSUME NEW i \in 1 .. n PROVE a.evidenceIDs[i] = b.evidenceIDs[i]
      BY <1>1, <1>3, SeqEqual
    <2>1. Parts(a)[6 + m + i] = <<"e">> \o a.evidenceIDs[i]
      BY PartsLayout
    <2>2. Parts(b)[6 + m + i] = <<"e">> \o b.evidenceIDs[i]
      BY <1>2, <1>3, PartsLayout
    <2>3. a.evidenceIDs[i] \in Texts /\ b.evidenceIDs[i] \in Texts
      BY <1>1, <1>3, ElementOfSeq
    <2>4. <<"e">> \o a.evidenceIDs[i] = <<"e">> \o b.evidenceIDs[i]
      BY <2>1, <2>2
    <2> QED
      BY <2>3, <2>4, Tags, CharactersAssumption
  <1>6. /\ a.tenantID = b.tenantID /\ a.taskType = b.taskType
        /\ a.taskSchemaVersion = b.taskSchemaVersion /\ a.promptVersion = b.promptVersion
        /\ a.outputSchemaVersion = b.outputSchemaVersion /\ a.prompt = b.prompt
    <2>1. \A i \in 1 .. 6 : Fields(a)[i] = Fields(b)[i]
      <3> TAKE i \in 1 .. 6
      <3>1. Parts(a)[i] = Fields(a)[i]
        BY PartsLayout
      <3>2. Parts(b)[i] = Fields(b)[i]
        BY PartsLayout
      <3> QED
        BY <3>1, <3>2
    <2>2. /\ Fields(a)[1] = Fields(b)[1] /\ Fields(a)[2] = Fields(b)[2]
          /\ Fields(a)[3] = Fields(b)[3] /\ Fields(a)[4] = Fields(b)[4]
          /\ Fields(a)[5] = Fields(b)[5] /\ Fields(a)[6] = Fields(b)[6]
      BY <2>1
    <2> QED
      BY <2>2 DEF Fields
  <1> QED
    BY <1>4, <1>5, <1>6 DEF Arguments

\* One key, one request, for every text and every base of the numerals.
LEMMA OneKeyOneRequest ==
  \A a, b \in Arguments : BuildCacheKey(a) = BuildCacheKey(b) => a = b
  <1> TAKE a, b \in Arguments
  <1> HAVE BuildCacheKey(a) = BuildCacheKey(b)
  <1> DEFINE s == Parts(a)
             t == Parts(b)
  <1>1. s \in Seq(Texts) /\ t \in Seq(Texts) /\ Len(s) # 0 /\ Len(t) # 0
    <2>1. \A r \in Arguments : Parts(r) \in Seq(Texts) /\ Len(Parts(r)) # 0
      <3> TAKE r \in Arguments
      <3>1. /\ Parts(r) \in Seq(Texts)
            /\ Len(r.subjectIDs) \in Nat /\ Len(r.evidenceIDs) \in Nat
            /\ Len(Parts(r)) = 6 + Len(r.subjectIDs) + Len(r.evidenceIDs)
        BY PartsLayout
      <3> DEFINE m == Len(r.subjectIDs)
                 n == Len(r.evidenceIDs)
      <3>2. m \in Nat /\ n \in Nat /\ Len(Parts(r)) = 6 + m + n
        BY <3>1
      <3> HIDE DEF m, n
      <3>3. Len(Parts(r)) # 0
        BY <3>2
      <3> QED
        BY <3>1, <3>3
    <2> QED
      BY <2>1
  <1>2. FlattenSeq(Encoded(s)) = FlattenSeq(Encoded(t))
    BY DEF BuildCacheKey, Encoded
  <1> HIDE DEF s, t
  <1>3. s = t
    BY <1>1, <1>2, TextsDecoded
  <1> QED
    BY <1>3, PartsTellApart DEF s, t

-----------------------------------------------------------------------------

\* The keys handed out are those of their requests.
KInv == issued \subseteq {[request |-> r, key |-> BuildCacheKey(r)] : r \in Requests}

\* Two calls of BuildCacheKey (cache_policy.go:55) return the same key only for the
\* same tenant, task, versions, prompt, subjects and evidence, whatever characters
\* the texts hold and however long they are.
THEOREM KeysApart == Spec => []KeysTellRequestsApart
  <1>1. Init => KInv
    BY DEF Init, KInv
  <1>2. KInv /\ [Next]_issued => KInv'
    BY DEF KInv, Next, ReturnKey, ReturnError
  <1>3. KInv => KeysTellRequestsApart
    <2> SUFFICES ASSUME KInv, NEW a \in issued, NEW b \in issued, a.key = b.key
                 PROVE  a.request = b.request
      BY DEF KeysTellRequestsApart
    <2>1. /\ a.request \in Requests /\ a.key = BuildCacheKey(a.request)
          /\ b.request \in Requests /\ b.key = BuildCacheKey(b.request)
      BY DEF KInv
    <2>2. a.request \in Arguments /\ b.request \in Arguments
      BY <2>1, RequestsAssumption
    <2> QED
      BY <2>1, <2>2, OneKeyOneRequest
  <1> QED
    BY <1>1, <1>2, <1>3, PTL DEF Spec
=============================================================================
