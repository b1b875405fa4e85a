--------------------------- MODULE DispatchProofs ---------------------------
(***************************************************************************)
(* What the dispatch of a text has in common with SQL's reading of its     *)
(* tokens, for every text, whatever its length.                            *)
(***************************************************************************)
EXTENDS Dispatch, FiniteSetTheorems, SequenceTheorems, WellFoundedInduction, TLAPS

----------------------------------------------------------------------------
(* Parts of sequences.                                                     *)

LEMMA AfterIs ==
  ASSUME NEW S, NEW s \in Seq(S), NEW n \in 0..Len(s)
  PROVE  /\ After(s, n) \in Seq(S)
         /\ Len(After(s, n)) = Len(s) - n
         /\ \A i \in 1..(Len(s) - n) : After(s, n)[i] = s[n + i]
<1>1. Len(s) \in Nat /\ n + 1 \in Int
  BY LenProperties
<1>2. \A i \in (n + 1)..Len(s) : s[i] \in S
  BY <1>1, ElementOfSeq
<1>3. /\ SubSeq(s, n + 1, Len(s)) \in Seq(S)
      /\ Len(SubSeq(s, n + 1, Len(s)))
           = IF n + 1 <= Len(s) THEN Len(s) - (n + 1) + 1 ELSE 0
      /\ \A i \in 1..(Len(s) - (n + 1) + 1) :
           SubSeq(s, n + 1, Len(s))[i] = s[n + 1 + i - 1]
  BY <1>1, <1>2, SubSeqProperties
<1>4. Len(After(s, n)) = Len(s) - n
  BY <1>1, <1>3 DEF After
<1>5. ASSUME NEW i \in 1..(Len(s) - n) PROVE After(s, n)[i] = s[n + i]
  <2>1. i \in 1..(Len(s) - (n + 1) + 1) /\ n + 1 + i - 1 = n + i
    BY <1>1
  <2> QED BY <1>3, <2>1 DEF After
<1> QED BY <1>3, <1>4, <1>5 DEF After

LEMMA UptoIs ==
  ASSUME NEW S, NEW s \in Seq(S), NEW n \in 0..Len(s)
  PROVE  /\ Upto(s, n) \in Seq(S)
         /\ Len(Upto(s, n)) = n
         /\ \A i \in 1..n : Upto(s, n)[i] = s[i]
<1>1. Len(s) \in Nat
  BY LenProperties
<1>2. \A i \in 1..n : s[i] \in S
  BY <1>1, ElementOfSeq
<1>3. /\ SubSeq(s, 1, n) \in Seq(S)
      /\ Len(SubSeq(s, 1, n)) = IF 1 <= n THEN n - 1 + 1 ELSE 0
      /\ \A i \in 1..(n - 1 + 1) : SubSeq(s, 1, n)[i] = s[1 + i - 1]
  BY <1>1, <1>2, SubSeqProperties
<1> QED BY <1>1, <1>3 DEF Upto

LEMMA PastEnd ==
  ASSUME NEW S, NEW s \in Seq(S), NEW n \in Nat, n >= Len(s) PROVE After(s, n) = <<>>
<1>1. Len(s) \in Nat
  BY LenProperties
<1>2. SubSeq(s, n + 1, Len(s)) = <<>>
  BY <1>1, SubSeqEmpty
<1> QED BY <1>2 DEF After

LEMMA Whole == ASSUME NEW S, NEW s \in Seq(S) PROVE After(s, 0) = s
  BY SubSeqFull DEF After

LEMMA SplitAt ==
  ASSUME NEW S, NEW s \in Seq(S), NEW n \in 0..Len(s) PROVE Upto(s, n) \o After(s, n) = s
<1>1. Len(s) \in Nat
  BY LenProperties
<1> DEFINE t == Upto(s, n) \o After(s, n)
<1>2. /\ t \in Seq(S)
      /\ Len(t) = Len(Upto(s, n)) + Len(After(s, n))
      /\ \A i \in 1..(Len(Upto(s, n)) + Len(After(s, n))) :
           t[i] = IF i <= Len(Upto(s, n)) THEN Upto(s, n)[i]
                  ELSE After(s, n)[i - Len(Upto(s, n))]
  BY AfterIs, UptoIs, ConcatProperties
<1>3. Len(t) = Len(s)
  BY <1>1, <1>2, AfterIs, UptoIs
<1>4. \A i \in 1..Len(t) : t[i] = s[i]
  <2> TAKE i \in 1..Len(t)
  <2>1. CASE i <= n
    BY <2>1, <1>1, <1>2, <1>3, UptoIs
  <2>2. CASE i > n
    <3>1. i - n \in 1..(Len(s) - n) /\ n + (i - n) = i
      BY <2>2, <1>1, <1>3
    <3>2. Len(Upto(s, n)) = n /\ Len(After(s, n)) = Len(s) - n
      BY UptoIs, AfterIs
    <3>3. i \in 1..(Len(Upto(s, n)) + Len(After(s, n))) /\ ~(i <= Len(Upto(s, n)))
      BY <2>2, <3>2, <1>1, <1>3
    <3>4. t[i] = After(s, n)[i - n]
      <4> HIDE DEF t
      <4> QED BY <3>2, <3>3, <1>2
    <3>5. After(s, n)[i - n] = s[n + (i - n)]
      BY <3>1, AfterIs
    <3> HIDE DEF t
    <3> QED BY <3>1, <3>4, <3>5, Zenon
  <2> HIDE DEF t
  <2> QED BY <1>1, <2>1, <2>2
<1> HIDE DEF t
<1>5. t = s
  BY <1>2, <1>3, <1>4, SeqEqual
<1> QED BY <1>5 DEF t

\* Concatenation, with the indices of its parts.
LEMMA ConcatIs ==
  ASSUME NEW S, NEW s \in Seq(S), NEW t \in Seq(S)
  PROVE  /\ s \o t \in Seq(S)
         /\ Len(s \o t) = Len(s) + Len(t)
         /\ Len(s) \in Nat /\ Len(t) \in Nat
         /\ \A i \in 1..Len(s) : (s \o t)[i] = s[i]
         /\ \A i \in 1..Len(t) : (s \o t)[Len(s) + i] = t[i]
<1>1. Len(s) \in Nat /\ Len(t) \in Nat
  BY LenProperties
<1>2. /\ s \o t \in Seq(S)
      /\ Len(s \o t) = Len(s) + Len(t)
      /\ \A i \in 1..Len(s) + Len(t) :
           (s \o t)[i] = IF i <= Len(s) THEN s[i] ELSE t[i - Len(s)]
  BY ConcatProperties
<1>3. \A i \in 1..Len(t) : (s \o t)[Len(s) + i] = t[i]
  <2> TAKE i \in 1..Len(t)
  <2>1. Len(s) + i \in 1..Len(s) + Len(t) /\ ~(Len(s) + i <= Len(s)) /\ Len(s) + i - Len(s) = i
    BY <1>1
  <2> QED BY <1>2, <2>1
<1> QED BY <1>1, <1>2, <1>3

LEMMA AfterConcat ==
  ASSUME NEW S, NEW u \in Seq(S), NEW t \in Seq(S), NEW n \in 0..Len(u)
  PROVE  After(u \o t, n) = After(u, n) \o t
<1> DEFINE x == After(u \o t, n)
           y == After(u, n) \o t
<1>1. /\ u \o t \in Seq(S) /\ Len(u \o t) = Len(u) + Len(t) /\ Len(u) \in Nat /\ Len(t) \in Nat
      /\ \A i \in 1..Len(u) : (u \o t)[i] = u[i]
      /\ \A i \in 1..Len(t) : (u \o t)[Len(u) + i] = t[i]
  BY ConcatIs
<1>2. n \in 0..Len(u \o t)
  BY <1>1
<1>3. /\ x \in Seq(S) /\ Len(x) = Len(u) + Len(t) - n
      /\ \A i \in 1..(Len(u) + Len(t) - n) : x[i] = (u \o t)[n + i]
  <2> DEFINE w == u \o t
  <2>1. w \in Seq(S) /\ n \in 0..Len(w) /\ Len(w) = Len(u) + Len(t)
    BY <1>1, <1>2
  <2> HIDE DEF w
  <2>2. /\ After(w, n) \in Seq(S) /\ Len(After(w, n)) = Len(w) - n
        /\ \A i \in 1..(Len(w) - n) : After(w, n)[i] = w[n + i]
    BY <2>1, AfterIs
  <2> QED BY <2>1, <2>2 DEF w
<1>4. /\ After(u, n) \in Seq(S) /\ Len(After(u, n)) = Len(u) - n
      /\ \A i \in 1..(Len(u) - n) : After(u, n)[i] = u[n + i]
  BY AfterIs
<1>5. /\ y \in Seq(S) /\ Len(y) = Len(u) - n + Len(t)
      /\ \A i \in 1..(Len(u) - n) : y[i] = After(u, n)[i]
      /\ \A i \in 1..Len(t) : y[Len(u) - n + i] = t[i]
  <2>1. PICK w \in Seq(S) : w = After(u, n)
    BY <1>4
  <2>2. /\ w \o t \in Seq(S) /\ Len(w \o t) = Len(w) + Len(t)
        /\ \A i \in 1..Len(w) : (w \o t)[i] = w[i]
        /\ \A i \in 1..Len(t) : (w \o t)[Len(w) + i] = t[i]
    <3> HIDE DEF x, y
    <3> QED BY ConcatIs
  <2> QED BY <1>4, <2>1, <2>2
<1> HIDE DEF x, y
<1>6. Len(x) = Len(y)
  BY <1>1, <1>3, <1>5
<1>7. \A i \in 1..Len(x) : x[i] = y[i]
  <2> TAKE i \in 1..Len(x)
  <2>0. x[i] = (u \o t)[n + i]
    BY <1>3
  <2>1. CASE i <= Len(u) - n
    <3>1. i \in 1..(Len(u) - n) /\ n + i \in 1..Len(u)
      BY <2>1, <1>1, <1>3
    <3> QED BY <2>0, <3>1, <1>1, <1>4, <1>5
  <2>2. CASE ~(i <= Len(u) - n)
    <3>1. i - (Len(u) - n) \in 1..Len(t) /\ Len(u) - n + (i - (Len(u) - n)) = i
          /\ Len(u) + (i - (Len(u) - n)) = n + i
      BY <2>2, <1>1, <1>3
    <3>2. y[i] = t[i - (Len(u) - n)]
      BY <3>1, <1>5
    <3>3. (u \o t)[n + i] = t[i - (Len(u) - n)]
      BY <3>1, <1>1
    <3> QED BY <2>0, <3>2, <3>3
  <2> QED BY <2>1, <2>2
<1>8. x = y
  BY <1>3, <1>5, <1>6, <1>7, SeqEqual
<1> QED BY <1>8 DEF x, y

LEMMA UptoConcat ==
  ASSUME NEW S, NEW u \in Seq(S), NEW t \in Seq(S), NEW n \in 0..Len(u)
  PROVE  Upto(u \o t, n) = Upto(u, n)
<1>1. /\ u \o t \in Seq(S) /\ n \in 0..Len(u \o t) /\ n \in Nat
      /\ \A i \in 1..n : (u \o t)[i] = u[i]
  BY ConcatIs
<1>2. /\ Upto(u \o t, n) \in Seq(S) /\ Len(Upto(u \o t, n)) = n
      /\ \A i \in 1..n : Upto(u \o t, n)[i] = (u \o t)[i]
  BY <1>1, UptoIs
<1>3. Upto(u, n) \in Seq(S) /\ Len(Upto(u, n)) = n /\ \A i \in 1..n : Upto(u, n)[i] = u[i]
  BY UptoIs
<1>4. \A i \in 1..Len(Upto(u \o t, n)) : Upto(u \o t, n)[i] = Upto(u, n)[i]
  BY <1>1, <1>2, <1>3
<1> QED BY <1>2, <1>3, <1>4, SeqEqual

\* What is put in front of a sequence is its beginning.
LEMMA PartsOfConcat ==
  ASSUME NEW S, NEW u \in Seq(S), NEW t \in Seq(S)
  PROVE  Upto(u \o t, Len(u)) = u /\ After(u \o t, Len(u)) = t
<1>1. Len(u) \in 0..Len(u) /\ Len(u) \in Nat
  BY LenProperties
<1>2. Upto(u, Len(u)) = u
  BY SubSeqFull DEF Upto
<1>3. After(u, Len(u)) = <<>>
  BY <1>1, PastEnd
<1>4. <<>> \o t = t
  BY ConcatEmptySeq
<1> QED BY <1>1, <1>2, <1>3, <1>4, AfterConcat, UptoConcat

LEMMA AfterAfter ==
  ASSUME NEW S, NEW s \in Seq(S), NEW m \in Nat, NEW n \in Nat, m + n <= Len(s)
  PROVE  After(After(s, m), n) = After(s, m + n)
<1>1. Len(s) \in Nat
  BY LenProperties
<1>2. /\ After(s, m) \in Seq(S) /\ Len(After(s, m)) = Len(s) - m
      /\ \A i \in 1..(Len(s) - m) : After(s, m)[i] = s[m + i]
  <2>1. m \in 0..Len(s)
    BY <1>1
  <2> QED BY <2>1, AfterIs
<1>3. /\ After(After(s, m), n) \in Seq(S) /\ Len(After(After(s, m), n)) = Len(s) - m - n
      /\ \A i \in 1..(Len(s) - m - n) : After(After(s, m), n)[i] = After(s, m)[n + i]
  <2>1. n \in 0..Len(After(s, m))
    BY <1>1, <1>2
  <2> QED BY <1>2, <2>1, AfterIs
<1>4. /\ After(s, m + n) \in Seq(S) /\ Len(After(s, m + n)) = Len(s) - (m + n)
      /\ \A i \in 1..(Len(s) - (m + n)) : After(s, m + n)[i] = s[m + n + i]
  <2>1. m + n \in 0..Len(s)
    BY <1>1
  <2> QED BY <2>1, AfterIs
<1>5. \A i \in 1..Len(After(After(s, m), n)) : After(After(s, m), n)[i] = After(s, m + n)[i]
  <2> TAKE i \in 1..Len(After(After(s, m), n))
  <2>1. i \in 1..(Len(s) - m - n) /\ i \in 1..(Len(s) - (m + n)) /\ n + i \in 1..(Len(s) - m)
        /\ m + (n + i) = m + n + i
    BY <1>1, <1>3
  <2> QED BY <1>2, <1>3, <1>4, <2>1
<1> QED BY <1>1, <1>3, <1>4, <1>5, SeqEqual

LEMMA UptoPlus ==
  ASSUME NEW S, NEW s \in Seq(S), NEW m \in Nat, NEW n \in Nat, m + n <= Len(s)
  PROVE  Upto(s, m + n) = Upto(s, m) \o Upto(After(s, m), n)
<1>1. Len(s) \in Nat /\ m \in 0..Len(s) /\ n \in 0..(Len(s) - m) /\ m + n \in 0..Len(s)
  BY LenProperties
<1> DEFINE a == Upto(s, m)
           r == After(s, m)
           b == Upto(r, n)
           c == After(r, n)
<1>2. a \in Seq(S) /\ Len(a) = m /\ r \in Seq(S) /\ Len(r) = Len(s) - m
  BY <1>1, UptoIs, AfterIs
<1>3. b \in Seq(S) /\ Len(b) = n /\ c \in Seq(S)
  <2> HIDE DEF r
  <2>1. PICK v \in Seq(S) : v = r
    BY <1>2
  <2>2. n \in 0..Len(v)
    BY <1>1, <1>2, <2>1
  <2>3. Upto(v, n) \in Seq(S) /\ Len(Upto(v, n)) = n
    BY <2>2, UptoIs
  <2>4. After(v, n) \in Seq(S)
    BY <2>2, AfterIs
  <2> QED BY <2>1, <2>3, <2>4, Zenon
<1>4. s = a \o r /\ r = b \o c
  <2>1. s = a \o r
    BY <1>1, SplitAt
  <2>2. r = b \o c
    <3> HIDE DEF r
    <3> QED BY <1>1, <1>2, SplitAt
  <2> QED BY <2>1, <2>2
<1> HIDE DEF a, b, c, r
<1>5. s = (a \o b) \o c
  <2>1. a \in Seq(S) /\ b \in Seq(S) /\ c \in Seq(S)
    BY <1>2, <1>3, Zenon
  <2>2. (a \o b) \o c = a \o (b \o c)
    BY ONLY <2>1, ConcatAssociative
  <2> QED BY <1>4, <2>2, Zenon
<1>6. a \o b \in Seq(S) /\ Len(a \o b) = m + n
  BY <1>2, <1>3, ConcatIs
<1>7. Upto(s, m + n) = a \o b
  BY <1>3, <1>5, <1>6, PartsOfConcat
<1> QED BY <1>7 DEF a, b, r

LEMMA CancelLeft ==
  ASSUME NEW S, NEW s \in Seq(S), NEW t \in Seq(S), NEW v \in Seq(S), s \o t = s \o v
  PROVE  t = v
<1>1. After(s \o t, Len(s)) = t
  BY PartsOfConcat
<1>2. After(s \o v, Len(s)) = v
  BY PartsOfConcat
<1> QED BY <1>1, <1>2

LEMMA BeginsWith ==
  ASSUME NEW S, NEW s \in Seq(S), NEW a, NEW b
  PROVE  /\ Begins(s, <<a>>) <=> Len(s) > 0 /\ s[1] = a
         /\ Begins(s, <<a, b>>) <=> Len(s) > 1 /\ s[1] = a /\ s[2] = b
<1>1. Len(s) \in Nat
  BY LenProperties
<1>2. Begins(s, <<a>>) <=> Len(s) > 0 /\ s[1] = a
  <2>1. CASE Len(s) > 0
    <3>1. 1 \in 0..Len(s)
      BY <1>1, <2>1
    <3>2. /\ Upto(s, 1) \in Seq(S) /\ Len(Upto(s, 1)) = 1
          /\ \A i \in 1..1 : Upto(s, 1)[i] = s[i]
      BY <3>1, UptoIs
    <3>3. Upto(s, 1) = <<s[1]>>
      BY <3>2
    <3>4. <<a>> \in Seq({a}) /\ Len(<<a>>) = 1
      OBVIOUS
    <3>5. SubSeq(<<a>>, 1, Len(<<a>>)) = <<a>>
      BY <3>4, SubSeqFull
    <3> QED BY <1>1, <2>1, <3>3, <3>4, <3>5 DEF Begins, IsPrefix, Upto
  <2>2. CASE ~(Len(s) > 0)
    BY <1>1, <2>2 DEF Begins, IsPrefix
  <2> QED BY <2>1, <2>2
<1>3. Begins(s, <<a, b>>) <=> Len(s) > 1 /\ s[1] = a /\ s[2] = b
  <2>1. CASE Len(s) > 1
    <3>1. 2 \in 0..Len(s)
      BY <1>1, <2>1
    <3>2. /\ Upto(s, 2) \in Seq(S) /\ Len(Upto(s, 2)) = 2
          /\ \A i \in 1..2 : Upto(s, 2)[i] = s[i]
      BY <3>1, UptoIs
    <3>3. Upto(s, 2) = <<s[1], s[2]>>
      BY <3>2
    <3>4. <<a, b>> \in Seq({a, b}) /\ Len(<<a, b>>) = 2
      OBVIOUS
    <3>5. SubSeq(<<a, b>>, 1, Len(<<a, b>>)) = <<a, b>>
      BY <3>4, SubSeqFull
    <3> QED BY <1>1, <2>1, <3>3, <3>4, <3>5 DEF Begins, IsPrefix, Upto
  <2>2. CASE ~(Len(s) > 1)
    BY <1>1, <2>2 DEF Begins, IsPrefix
  <2> QED BY <2>1, <2>2
<1> QED BY <1>2, <1>3

----------------------------------------------------------------------------
(* Texts, and recursion over them.                                         *)

LEMMA TextLength == ASSUME NEW s \in Texts PROVE Len(s) \in Nat /\ (Len(s) = 0 <=> s = <<>>)
  BY LenProperties, EmptySeq DEF Texts

LEMMA NoSymbols == <<>> \in Texts /\ Len(<<>>) = 0
  BY EmptySeq DEF Texts

LEMMA FirstSymbol ==
  ASSUME NEW s \in Texts, s # <<>>
  PROVE  Len(s) > 0 /\ s[1] \in Symbols /\ Tail(s) = After(s, 1)
<1>1. Len(s) \in Nat /\ Len(s) > 0
  BY TextLength
<1>2. s[1] \in Symbols
  BY <1>1, ElementOfSeq DEF Texts
<1>3. Tail(s) = SubSeq(s, 2, Len(s))
  BY TailIsSubSeq DEF Texts
<1> QED BY <1>1, <1>2, <1>3 DEF After

LEMMA AfterText ==
  ASSUME NEW s \in Texts, NEW n \in Nat
  PROVE  /\ After(s, n) \in Texts
         /\ Len(After(s, n)) = IF n <= Len(s) THEN Len(s) - n ELSE 0
<1>1. s \in Seq(Symbols) /\ Len(s) \in Nat
  BY TextLength DEF Texts
<1>2. CASE n <= Len(s)
  BY <1>1, <1>2, AfterIs DEF Texts
<1>3. CASE ~(n <= Len(s))
  BY <1>1, <1>3, PastEnd, NoSymbols
<1> QED BY <1>2, <1>3

LEMMA TailText ==
  ASSUME NEW s \in Texts, s # <<>>
  PROVE  /\ Len(s) \in Nat /\ Len(s) > 0
         /\ Tail(s) \in Texts /\ Len(Tail(s)) = Len(s) - 1
         /\ Tail(s) = After(s, 1)
<1>1. Len(s) \in Nat /\ Len(s) > 0 /\ Tail(s) = After(s, 1)
  BY FirstSymbol, TextLength
<1>2. 1 \in Nat
  OBVIOUS
<1>3. After(s, 1) \in Texts /\ Len(After(s, 1)) = IF 1 <= Len(s) THEN Len(s) - 1 ELSE 0
  BY <1>2, AfterText
<1>4. Len(After(s, 1)) = Len(s) - 1
  BY <1>1, <1>3
<1> QED BY <1>1, <1>3, <1>4, Zenon

LEMMA UptoText ==
  ASSUME NEW s \in Texts, NEW n \in 0..Len(s) PROVE Upto(s, n) \in Texts /\ Len(Upto(s, n)) = n
  BY UptoIs DEF Texts

LEMMA FrontOfText ==
  ASSUME NEW s \in Texts, NEW n \in 0..Len(s)
  PROVE  \E c \in Texts : c = Upto(s, n) /\ Len(c) = n /\ \A i \in 1..n : c[i] = s[i]
<1>1. PICK c : c = Upto(s, n)
  OBVIOUS
<1>2. c \in Texts /\ Len(c) = n /\ \A i \in 1..n : c[i] = s[i]
  BY <1>1, UptoIs DEF Texts
<1> QED BY <1>1, <1>2, Zenon

LEMMA JoinedText ==
  ASSUME NEW s \in Texts, NEW t \in Texts
  PROVE  s \o t \in Texts /\ Len(s \o t) = Len(s) + Len(t)
  BY ConcatIs DEF Texts

LEMMA SingleText == ASSUME NEW c \in Symbols PROVE <<c>> \in Texts /\ Len(<<c>>) = 1
  BY DEF Texts

LEMMA LeastNumber ==
  ASSUME NEW T \in SUBSET Nat, T # {} PROVE \E m \in T : \A n \in T : m <= n
<1>1. IsWellFoundedOn(OpToRel(<, Nat), Nat)
  BY NatLessThanWellFounded
<1>2. PICK m \in T : \A y \in T : <<y, m>> \notin OpToRel(<, Nat)
  BY <1>1, WFMin, Zenon
<1>3. \A y \in T : ~(y < m)
  BY <1>2, Zenon DEF OpToRel
<1> QED BY <1>3

Shorter(r, s) == r \in Texts /\ Len(r) < Len(s)

LEMMA ShorterAfter ==
  ASSUME NEW s \in Texts, s # <<>>, NEW n \in Nat \ {0} PROVE Shorter(After(s, n), s)
<1>1. Len(s) \in Nat /\ Len(s) > 0 /\ n \in Nat
  BY TextLength
<1>2. /\ After(s, n) \in Texts
      /\ Len(After(s, n)) = IF n <= Len(s) THEN Len(s) - n ELSE 0
  BY <1>1, AfterText
<1> QED BY <1>1, <1>2 DEF Shorter

LEMMA ShorterTail == ASSUME NEW s \in Texts, s # <<>> PROVE Shorter(Tail(s), s)
<1>1. Shorter(After(s, 1), s)
  BY ShorterAfter
<1> QED BY <1>1, FirstSymbol

LEMMA Counterexample ==
  ASSUME NEW T, T \subseteq Texts, T # {}
  PROVE  \E s \in T : \A r : Shorter(r, s) => r \notin T
<1> DEFINE D == {Len(s) : s \in T}
<1>1. D \in SUBSET Nat /\ D # {}
  BY TextLength
<1>2. PICK m \in D : \A n \in D : m <= n
  <2> HIDE DEF D
  <2> QED BY <1>1, LeastNumber
<1>3. PICK s \in T : Len(s) = m
  BY <1>2
<1>4. ASSUME NEW r, Shorter(r, s), r \in T PROVE FALSE
  <2>1. Len(r) \in D /\ Len(r) \in Nat /\ m \in Nat
    BY <1>1, <1>4
  <2>2. m <= Len(r)
    BY <1>2, <2>1
  <2> QED BY <1>3, <1>4, <2>1, <2>2 DEF Shorter
<1> QED BY <1>4

\* Induction on the length of a text.
LEMMA TextInduction ==
  ASSUME NEW G, \A s \in Texts : (\A r : Shorter(r, s) => r \in G) => s \in G
  PROVE  Texts \subseteq G
<1> DEFINE T == Texts \ G
<1>1. SUFFICES ASSUME T # {} PROVE FALSE
  OBVIOUS
<1>2. PICK s \in T : \A r : Shorter(r, s) => r \notin T
  <2>1. T \subseteq Texts
    OBVIOUS
  <2> HIDE DEF T
  <2> QED BY <1>1, <2>1, Counterexample
<1> QED BY <1>2 DEF Shorter

\* A step makes a value for a text from a function on the texts, of which it
\* looks at the shorter texts only.
StepsTo(V) == [Texts -> [[Texts -> V] -> V]]
Descends(V, step) ==
  \A s \in Texts : \A g, h \in [Texts -> V] :
    (\A r : Shorter(r, s) => g[r] = h[r]) => step[s][g] = step[s][h]

\* g satisfies step's equation for the texts shorter than n.
Solves(step, g, n) == \A s \in Texts : Len(s) < n => g[s] = step[s][g]

LEMMA Agreement ==
  ASSUME NEW V, NEW step, Descends(V, step),
         NEW g \in [Texts -> V], NEW h \in [Texts -> V],
         NEW m \in Nat, NEW n \in Nat, Solves(step, g, m), Solves(step, h, n)
  PROVE  \A s \in Texts : Len(s) < m /\ Len(s) < n => g[s] = h[s]
<1>1. \A s \in Texts : Len(s) \in Nat
  BY TextLength
<1> DEFINE T == {s \in Texts : Len(s) < m /\ Len(s) < n /\ g[s] # h[s]}
<1>2. SUFFICES ASSUME T # {} PROVE FALSE
  OBVIOUS
<1>3. PICK s \in T : \A r : Shorter(r, s) => r \notin T
  <2>1. T \subseteq Texts
    OBVIOUS
  <2> HIDE DEF T
  <2> QED BY <1>2, <2>1, Counterexample
<1>4. \A r : Shorter(r, s) => g[r] = h[r]
  BY <1>1, <1>3 DEF Shorter
<1>5. step[s][g] = step[s][h]
  BY <1>3, <1>4 DEF Descends
<1> QED BY <1>3, <1>5 DEF Solves

\* Recursion over texts is well defined.
LEMMA Solvable ==
  ASSUME NEW V, NEW step, V # {}, step \in StepsTo(V), Descends(V, step)
  PROVE  \E f \in [Texts -> V] : \A s \in Texts : f[s] = step[s][f]
<1>0. step \in [Texts -> [[Texts -> V] -> V]]
  BY DEF StepsTo
<1>1. \A s \in Texts : Len(s) \in Nat
  BY TextLength
<1>2. \A n \in Nat : \E g \in [Texts -> V] : Solves(step, g, n)
  <2> DEFINE T == {k \in Nat : ~\E g \in [Texts -> V] : Solves(step, g, k)}
  <2>1. SUFFICES ASSUME T # {} PROVE FALSE
    OBVIOUS
  <2>2. PICK m \in T : \A k \in T : m <= k
    <3>1. T \in SUBSET Nat
      OBVIOUS
    <3> HIDE DEF T
    <3> QED BY <2>1, <3>1, LeastNumber
  <2>3. m # 0
    <3>1. PICK v \in V : TRUE
      OBVIOUS
    <3> DEFINE g == [s \in Texts |-> v]
    <3>2. g \in [Texts -> V] /\ Solves(step, g, 0)
      BY <1>1, <3>1 DEF Solves
    <3> HIDE DEF g
    <3> QED BY <3>2, <2>2
  <2>4. m \in Nat /\ m - 1 \in Nat /\ m - 1 \notin T
    BY <2>2, <2>3
  <2>5. PICK g \in [Texts -> V] : Solves(step, g, m - 1)
    BY <2>4
  <2> DEFINE h == [s \in Texts |-> IF Len(s) < m THEN step[s][g] ELSE g[s]]
  <2>6. h \in [Texts -> V]
    BY <1>0, <2>5
  <2>7. ASSUME NEW s \in Texts, Len(s) < m PROVE h[s] = step[s][h]
    <3>1. \A r : Shorter(r, s) => r \in Texts /\ Len(r) < m - 1 /\ Len(r) < m
      BY <1>1, <2>4, <2>7 DEF Shorter
    <3>2. \A r : Shorter(r, s) => h[r] = g[r]
      BY <2>5, <3>1 DEF Solves
    <3>3. step[s][h] = step[s][g]
      <4> HIDE DEF h
      <4> QED BY <2>5, <2>6, <3>2 DEF Descends
    <3> QED BY <2>7, <3>3
  <2>8. Solves(step, h, m)
    <3> HIDE DEF h
    <3> QED BY <2>7 DEF Solves
  <2> HIDE DEF h
  <2> QED BY <2>2, <2>6, <2>8
<1> DEFINE G(s) == CHOOSE g \in [Texts -> V] : Solves(step, g, Len(s) + 1)
           f == [s \in Texts |-> G(s)[s]]
<1>3. \A s \in Texts : G(s) \in [Texts -> V] /\ Solves(step, G(s), Len(s) + 1)
  BY <1>1, <1>2
<1> HIDE DEF G
<1>4. f \in [Texts -> V]
  BY <1>3
<1>5. ASSUME NEW s \in Texts PROVE f[s] = step[s][f]
  <2>1. G(s)[s] = step[s][G(s)]
    BY <1>1, <1>3 DEF Solves
  <2>2. ASSUME NEW r, Shorter(r, s) PROVE G(r)[r] = G(s)[r]
    <3>1. /\ r \in Texts
          /\ Len(r) + 1 \in Nat /\ Len(s) + 1 \in Nat
          /\ Len(r) < Len(r) + 1 /\ Len(r) < Len(s) + 1
      BY <1>1, <2>2 DEF Shorter
    <3>2. \A q \in Texts : Len(q) < Len(r) + 1 /\ Len(q) < Len(s) + 1 => G(r)[q] = G(s)[q]
      <4> HIDE DEF f
      <4>1. PICK g \in [Texts -> V] : g = G(r) /\ Solves(step, g, Len(r) + 1)
        BY <1>3, <3>1
      <4>2. PICK h \in [Texts -> V] : h = G(s) /\ Solves(step, h, Len(s) + 1)
        BY <1>3
      <4> QED BY <3>1, <4>1, <4>2, Agreement
    <3> QED BY <3>1, <3>2
  <2>3. \A r : Shorter(r, s) => G(s)[r] = f[r]
    BY <2>2 DEF Shorter
  <2>4. step[s][G(s)] = step[s][f]
    <3> HIDE DEF f
    <3> QED BY <1>3, <1>4, <2>3 DEF Descends
  <2> QED BY <2>1, <2>4
<1> QED BY <1>4, <1>5

----------------------------------------------------------------------------
(* Find, and the ends of comments.                                         *)

LEMMA FindIs ==
  ASSUME NEW s \in Texts, NEW w, NEW i \in Nat \ {0}, Len(w) \in Nat \ {0}
  PROVE  \/ Find(s, w, i) = 0
         \/ /\ Find(s, w, i) \in i..(Len(s) - Len(w) + 1)
            /\ Begins(After(s, Find(s, w, i) - 1), w)
<1> DEFINE found == {j \in i..(Len(s) - Len(w) + 1) : Begins(After(s, j - 1), w)}
<1>1. CASE found = {}
  BY <1>1 DEF Find
<1>2. CASE found # {}
  <2>1. found \in SUBSET Nat /\ found \subseteq Int
    BY TextLength
  <2>2. PICK m \in found : \A j \in found : m <= j
    <3> HIDE DEF found
    <3> QED BY <1>2, <2>1, LeastNumber
  <2>3. Min(found) \in found
    <3> HIDE DEF found
    <3> QED BY <2>2 DEF Min
  <2>4. Find(s, w, i) = Min(found)
    BY <1>2 DEF Find
  <2> QED BY <2>3, <2>4
<1> QED BY <1>1, <1>2

BlockEnd(s) == Find(s, <<"*", "/">>, 3)
LineEnd(s) == Find(s, <<"\n">>, 1)

LEMMA BlockEndIs ==
  ASSUME NEW s \in Texts PROVE BlockEnd(s) = 0 \/ BlockEnd(s) \in 3..(Len(s) - 1)
<1>1. Len(<<"*", "/">>) = 2 /\ 3 \in Nat \ {0} /\ Len(s) \in Nat
  BY TextLength
<1>2. \/ Find(s, <<"*", "/">>, 3) = 0
      \/ Find(s, <<"*", "/">>, 3) \in 3..(Len(s) - Len(<<"*", "/">>) + 1)
  <2>1. PICK w : w = <<"*", "/">>
    OBVIOUS
  <2>2. Len(w) \in Nat \ {0}
    BY <1>1, <2>1
  <2>3. Find(s, w, 3) = 0 \/ Find(s, w, 3) \in 3..(Len(s) - Len(w) + 1)
    BY <1>1, <2>2, FindIs
  <2> QED BY <2>1, <2>3, Zenon
<1> QED BY <1>1, <1>2 DEF BlockEnd

LEMMA LineEndIs ==
  ASSUME NEW s \in Texts
  PROVE  LineEnd(s) = 0 \/ (LineEnd(s) \in 1..Len(s) /\ s[LineEnd(s)] = "\n")
<1> DEFINE end == LineEnd(s)
<1>1. Len(<<"\n">>) = 1 /\ 1 \in Nat \ {0} /\ Len(s) \in Nat
  BY TextLength
<1>2. \/ end = 0
      \/ end \in 1..(Len(s) - Len(<<"\n">>) + 1) /\ Begins(After(s, end - 1), <<"\n">>)
  BY <1>1, FindIs DEF LineEnd
<1> HIDE DEF end
<1>3. SUFFICES ASSUME end # 0 PROVE end \in 1..Len(s) /\ s[end] = "\n"
  BY DEF end
<1>4. end \in 1..Len(s) /\ end - 1 \in 0..Len(s) /\ 1 \in 1..(Len(s) - (end - 1))
      /\ end - 1 + 1 = end
  BY <1>1, <1>2, <1>3
<1>5. After(s, end - 1) \in Seq(Symbols) /\ After(s, end - 1)[1] = s[end]
  BY <1>4, AfterIs DEF Texts
<1>6. After(s, end - 1)[1] = "\n"
  BY <1>2, <1>3, <1>5, BeginsWith
<1> QED BY <1>4, <1>5, <1>6

LEMMA BlockCommentIs ==
  ASSUME NEW s \in Texts
  PROVE  BlockComment(s) <=> Len(s) > 1 /\ s[1] = "/" /\ s[2] = "*"
  BY BeginsWith DEF BlockComment, Texts

LEMMA MinusesAre ==
  ASSUME NEW s \in Texts PROVE Begins(s, Minuses) <=> Len(s) > 1 /\ s[1] = "-" /\ s[2] = "-"
  BY BeginsWith DEF Minuses, Texts

LEMMA LineCommentIs ==
  ASSUME NEW s \in Texts
  PROVE  LineComment(s) <=> (Len(s) > 1 /\ s[1] = "-" /\ s[2] = "-") \/ s[1] = "#"
  BY BeginsWith DEF LineComment, Texts

\* A line comment is not empty before its end.
LEMMA LineCommentEnd ==
  ASSUME NEW s \in Texts, LineComment(s) \/ SqlLineComment(s), LineEnd(s) # 0
  PROVE  LineEnd(s) \in 2..Len(s) /\ s[LineEnd(s)] = "\n"
<1>1. s[1] # "\n"
  BY LineCommentIs, MinusesAre DEF SqlLineComment
<1>2. LineEnd(s) \in 1..Len(s) /\ s[LineEnd(s)] = "\n" /\ Len(s) \in Nat
  BY LineEndIs, TextLength
<1> QED BY <1>1, <1>2

----------------------------------------------------------------------------
(* The recursive functions of Dispatch satisfy the equations that define   *)
(* them.  Each Step is the right-hand side of a definition.                *)

ClosingStep(g, s) ==
  [q \in Quotes |->
     IF s = <<>> THEN 0
     ELSE IF s[1] = "\\" /\ Len(s) > 1 THEN 2 + g[After(s, 2)][q]
     ELSE IF s[1] = q THEN 1 ELSE 1 + g[Tail(s)][q]]

LEMMA ClosingStepFits ==
  ASSUME NEW s \in Texts
  PROVE  /\ \A g : (\A r : Shorter(r, s) => g[r] \in [Quotes -> Nat])
                     => ClosingStep(g, s) \in [Quotes -> Nat]
         /\ \A g, h : (\A r : Shorter(r, s) => g[r] = h[r])
                     => ClosingStep(g, s) = ClosingStep(h, s)
<1>1. CASE s = <<>>
  BY <1>1 DEF ClosingStep
<1>2. CASE s # <<>>
  <2>1. Shorter(Tail(s), s)
    BY <1>2, ShorterTail
  <2>2. Shorter(After(s, 2), s)
    BY <1>2, ShorterAfter
  <2> QED BY <1>2, <2>1, <2>2 DEF ClosingStep
<1> QED BY <1>1, <1>2

LEMMA ClosingIs ==
  /\ Closing \in [Texts -> [Quotes -> Nat]]
  /\ \A s \in Texts : Closing[s] = ClosingStep(Closing, s)
<1> DEFINE V == [Quotes -> Nat]
           step == [s \in Texts |-> [g \in [Texts -> V] |-> ClosingStep(g, s)]]
<1>1. step \in StepsTo(V) /\ Descends(V, step)
  BY ClosingStepFits DEF Shorter, StepsTo, Descends
<1>2. PICK f \in [Texts -> V] : \A s \in Texts : f[s] = step[s][f]
  <2>1. [q \in Quotes |-> 0] \in V
    OBVIOUS
  <2> HIDE DEF V, step
  <2> QED BY <1>1, <2>1, Solvable
<1>3. f = [s \in Texts |-> ClosingStep(f, s)]
  BY <1>2
<1>4. Closing = [s \in Texts |-> ClosingStep(Closing, s)]
  <2> HIDE DEF V
  <2> QED BY <1>3, Zenon DEF Closing, ClosingStep
<1>5. Closing \in [Texts -> V]
  <2> DEFINE G == {s \in Texts : Closing[s] \in V}
  <2>1. \A s \in Texts : (\A r : Shorter(r, s) => r \in G) => s \in G
    BY <1>4, ClosingStepFits
  <2> HIDE DEF V
  <2>2. Texts \subseteq G
    <3> HIDE DEF G
    <3> QED BY <2>1, TextInduction
  <2> QED BY <1>4, <2>2
<1> QED BY <1>4, <1>5

\* A quoted text lies within the text, and has an end in it.
LEMMA ClosingRange ==
  ASSUME NEW q \in Quotes
  PROVE  \A s \in Texts : Closing[s][q] \in 0..Len(s)
<1> DEFINE G == {s \in Texts : Closing[s][q] \in 0..Len(s)}
<1>1. ASSUME NEW s \in Texts, \A r : Shorter(r, s) => r \in G PROVE s \in G
  <2>1. Closing[s][q] = ClosingStep(Closing, s)[q]
    BY ClosingIs
  <2>2. CASE s = <<>>
    BY <2>1, <2>2, NoSymbols DEF ClosingStep
  <2>3. CASE s # <<>>
    <3>1. Len(s) \in Nat /\ Len(s) > 0
      BY <2>3, FirstSymbol, TextLength
    <3>2. Tail(s) \in G /\ Len(Tail(s)) = Len(s) - 1
      <4>1. Shorter(Tail(s), s)
        BY <2>3, ShorterTail
      <4> HIDE DEF G
      <4> QED BY <1>1, <2>3, <4>1, TailText
    <3>3. After(s, 2) \in G /\ (Len(s) > 1 => Len(After(s, 2)) = Len(s) - 2)
      <4>1. Shorter(After(s, 2), s)
        BY <2>3, ShorterAfter
      <4>2. Len(After(s, 2)) = IF 2 <= Len(s) THEN Len(s) - 2 ELSE 0
        BY AfterText
      <4> QED BY <1>1, <3>1, <4>1, <4>2
    <3>4. Closing[Tail(s)][q] \in 0..(Len(s) - 1)
      BY <3>2
    <3>5. Len(s) > 1 => Closing[After(s, 2)][q] \in 0..(Len(s) - 2)
      BY <3>3
    <3>6. Closing[s][q] = IF s[1] = "\\" /\ Len(s) > 1 THEN 2 + Closing[After(s, 2)][q]
                         ELSE IF s[1] = q THEN 1 ELSE 1 + Closing[Tail(s)][q]
      BY <2>1, <2>3 DEF ClosingStep
    <3>7. Closing[s][q] \in 0..Len(s)
      <4> HIDE DEF G
      <4> QED BY <3>1, <3>4, <3>5, <3>6
    <3> QED BY <3>7
  <2> QED BY <2>2, <2>3
<1>2. Texts \subseteq G
  <2> HIDE DEF G
  <2> QED BY <1>1, TextInduction
<1> QED BY <1>2

LEMMA CopyRange ==
  ASSUME NEW s \in Texts, s # <<>> PROVE CopyLength(s) \in 1..Len(s)
<1>1. Len(s) \in Nat /\ Len(s) > 0 /\ Tail(s) \in Texts /\ Len(Tail(s)) = Len(s) - 1
  BY TailText
<1>2. CASE s[1] \in Quotes
  <2>1. Closing[Tail(s)][s[1]] \in 0..(Len(s) - 1)
    BY <1>1, <1>2, ClosingRange
  <2> QED BY <1>1, <1>2, <2>1 DEF CopyLength, LiteralLength
<1>3. CASE s[1] \notin Quotes
  BY <1>1, <1>3 DEF CopyLength
<1> QED BY <1>2, <1>3

StrippedStep(g, s) ==
  IF s = <<>> THEN <<>>
  ELSE IF BlockComment(s)
       THEN LET end == Find(s, <<"*", "/">>, 3)
            IN  IF end = 0 THEN <<>> ELSE <<" ">> \o g[After(s, end + 1)]
  ELSE IF LineComment(s)
       THEN LET end == Find(s, <<"\n">>, 1)
            IN  IF end = 0 THEN <<>> ELSE g[After(s, end - 1)]
  ELSE Upto(s, CopyLength(s)) \o g[After(s, CopyLength(s))]

LEMMA BlankText == <<" ">> \in Texts /\ Len(<<" ">>) = 1
<1>1. " " \in Symbols
  BY DEF Symbols, Blanks
<1> QED BY <1>1, SingleText

LEMMA StrippedStepFits ==
  ASSUME NEW s \in Texts
  PROVE  /\ \A g : (\A r : Shorter(r, s) => g[r] \in Texts) => StrippedStep(g, s) \in Texts
         /\ \A g, h : (\A r : Shorter(r, s) => g[r] = h[r])
                     => StrippedStep(g, s) = StrippedStep(h, s)
<1>1. CASE s = <<>>
  BY <1>1, NoSymbols DEF StrippedStep
<1>2. CASE s # <<>> /\ BlockComment(s)
  <2>1. BlockEnd(s) # 0 => Shorter(After(s, BlockEnd(s) + 1), s)
    <3>1. SUFFICES ASSUME BlockEnd(s) # 0 PROVE Shorter(After(s, BlockEnd(s) + 1), s)
      OBVIOUS
    <3>2. BlockEnd(s) + 1 \in Nat \ {0}
      BY <3>1, BlockEndIs, TextLength
    <3> QED BY <1>2, <3>2, ShorterAfter
  <2>2. \A g : StrippedStep(g, s)
                 = IF BlockEnd(s) = 0 THEN <<>> ELSE <<" ">> \o g[After(s, BlockEnd(s) + 1)]
    BY <1>2 DEF StrippedStep, BlockEnd
  <2>3. ASSUME NEW g, \A r : Shorter(r, s) => g[r] \in Texts
        PROVE  StrippedStep(g, s) \in Texts
    <3>1. CASE BlockEnd(s) = 0
      BY <2>2, <3>1, NoSymbols
    <3>2. CASE BlockEnd(s) # 0
      <4>1. g[After(s, BlockEnd(s) + 1)] \in Texts
        BY <2>1, <2>3, <3>2
      <4>2. <<" ">> \o g[After(s, BlockEnd(s) + 1)] \in Texts
        BY <4>1, BlankText, JoinedText, Zenon
      <4>3. StrippedStep(g, s) = <<" ">> \o g[After(s, BlockEnd(s) + 1)]
        BY <2>2, <3>2
      <4> QED BY <4>2, <4>3, Zenon
    <3> QED BY <3>1, <3>2
  <2> QED BY <2>1, <2>2, <2>3
<1>3. CASE s # <<>> /\ ~BlockComment(s) /\ LineComment(s)
  <2>1. LineEnd(s) # 0 => Shorter(After(s, LineEnd(s) - 1), s)
    <3>1. SUFFICES ASSUME LineEnd(s) # 0 PROVE Shorter(After(s, LineEnd(s) - 1), s)
      OBVIOUS
    <3>2. LineEnd(s) - 1 \in Nat \ {0}
      BY <1>3, <3>1, LineCommentEnd
    <3> QED BY <1>3, <3>2, ShorterAfter
  <2> QED BY <1>3, <2>1, NoSymbols DEF StrippedStep, LineEnd
<1>4. CASE s # <<>> /\ ~BlockComment(s) /\ ~LineComment(s)
  <2>1. CopyLength(s) \in Nat \ {0} /\ CopyLength(s) \in 0..Len(s)
    BY <1>4, CopyRange, TextLength
  <2>2. Shorter(After(s, CopyLength(s)), s) /\ Upto(s, CopyLength(s)) \in Texts
    BY <1>4, <2>1, ShorterAfter, UptoText
  <2>3. \A g : StrippedStep(g, s) = Upto(s, CopyLength(s)) \o g[After(s, CopyLength(s))]
    BY <1>4 DEF StrippedStep
  <2> QED BY <2>2, <2>3, JoinedText
<1> QED BY <1>1, <1>2, <1>3, <1>4

LEMMA StrippedIs ==
  /\ Stripped \in [Texts -> Texts]
  /\ \A s \in Texts : Stripped[s] = StrippedStep(Stripped, s)
<1> DEFINE step == [s \in Texts |-> [g \in [Texts -> Texts] |-> StrippedStep(g, s)]]
<1>1. step \in StepsTo(Texts) /\ Descends(Texts, step)
  BY StrippedStepFits DEF Shorter, StepsTo, Descends
<1>2. PICK f \in [Texts -> Texts] : \A s \in Texts : f[s] = step[s][f]
  <2> HIDE DEF step
  <2> QED BY <1>1, NoSymbols, Solvable
<1>3. f = [s \in Texts |-> StrippedStep(f, s)]
  BY <1>2
<1>4. Stripped = [s \in Texts |-> StrippedStep(Stripped, s)]
  BY <1>3, Zenon DEF Stripped, StrippedStep
<1>5. Stripped \in [Texts -> Texts]
  <2> DEFINE G == {s \in Texts : Stripped[s] \in Texts}
  <2>1. \A s \in Texts : (\A r : Shorter(r, s) => r \in G) => s \in G
    BY <1>4, StrippedStepFits
  <2>2. Texts \subseteq G
    <3> HIDE DEF G
    <3> QED BY <2>1, TextInduction
  <2> QED BY <1>4, <2>2
<1> QED BY <1>4, <1>5

SqlClosingStep(g, s) ==
  [q \in Quotes |->
     IF s = <<>> THEN 0
     ELSE IF s[1] = q THEN 1
     ELSE LET n == IF s[1] = "\\" /\ q = "'" THEN 2 ELSE 1
              rest == g[After(s, n)][q]
          IN  IF rest = 0 THEN 0 ELSE n + rest]

LEMMA SqlClosingStepFits ==
  ASSUME NEW s \in Texts
  PROVE  /\ \A g : (\A r : Shorter(r, s) => g[r] \in [Quotes -> Nat])
                     => SqlClosingStep(g, s) \in [Quotes -> Nat]
         /\ \A g, h : (\A r : Shorter(r, s) => g[r] = h[r])
                     => SqlClosingStep(g, s) = SqlClosingStep(h, s)
<1>1. CASE s = <<>>
  BY <1>1 DEF SqlClosingStep
<1>2. CASE s # <<>>
  <2>1. Shorter(After(s, 1), s) /\ Shorter(After(s, 2), s)
    BY <1>2, ShorterAfter
  <2> QED BY <1>2, <2>1 DEF SqlClosingStep
<1> QED BY <1>1, <1>2

LEMMA SqlClosingIs ==
  /\ SqlClosing \in [Texts -> [Quotes -> Nat]]
  /\ \A s \in Texts : SqlClosing[s] = SqlClosingStep(SqlClosing, s)
<1> DEFINE V == [Quotes -> Nat]
           step == [s \in Texts |-> [g \in [Texts -> V] |-> SqlClosingStep(g, s)]]
<1>1. step \in StepsTo(V) /\ Descends(V, step)
  BY SqlClosingStepFits DEF Shorter, StepsTo, Descends
<1>2. PICK f \in [Texts -> V] : \A s \in Texts : f[s] = step[s][f]
  <2>1. [q \in Quotes |-> 0] \in V
    OBVIOUS
  <2> HIDE DEF V, step
  <2> QED BY <1>1, <2>1, Solvable
<1>3. f = [s \in Texts |-> SqlClosingStep(f, s)]
  BY <1>2
<1>4. SqlClosing = [s \in Texts |-> SqlClosingStep(SqlClosing, s)]
  <2> HIDE DEF V
  <2> QED BY <1>3, Zenon DEF SqlClosing, SqlClosingStep
<1>5. SqlClosing \in [Texts -> V]
  <2> DEFINE G == {s \in Texts : SqlClosing[s] \in V}
  <2>1. \A s \in Texts : (\A r : Shorter(r, s) => r \in G) => s \in G
    BY <1>4, SqlClosingStepFits
  <2> HIDE DEF V
  <2>2. Texts \subseteq G
    <3> HIDE DEF G
    <3> QED BY <2>1, TextInduction
  <2> QED BY <1>4, <2>2
<1> QED BY <1>4, <1>5

\* A quoted text of SQL's that has an end ends with its quote.
LEMMA SqlClosingRange ==
  ASSUME NEW q \in Quotes
  PROVE  \A s \in Texts :
           SqlClosing[s][q] # 0 => SqlClosing[s][q] \in 1..Len(s) /\ s[SqlClosing[s][q]] = q
<1> DEFINE G == {s \in Texts : SqlClosing[s][q] # 0 =>
                   SqlClosing[s][q] \in 1..Len(s) /\ s[SqlClosing[s][q]] = q}
<1>1. ASSUME NEW s \in Texts, \A r : Shorter(r, s) => r \in G PROVE s \in G
  <2>1. SqlClosing[s][q] = SqlClosingStep(SqlClosing, s)[q]
    BY SqlClosingIs
  <2>2. CASE s = <<>>
    BY <2>1, <2>2 DEF SqlClosingStep
  <2>3. CASE s # <<>>
    <3> DEFINE n == IF s[1] = "\\" /\ q = "'" THEN 2 ELSE 1
               k == SqlClosing[After(s, n)][q]
    <3>1. Len(s) \in Nat /\ Len(s) > 0 /\ n \in Nat \ {0}
      BY <2>3, TextLength
    <3>2. After(s, n) \in G /\ Len(After(s, n)) = IF n <= Len(s) THEN Len(s) - n ELSE 0
      <4> HIDE DEF n
      <4>1. n \in Nat
        BY <3>1
      <4> QED BY <1>1, <2>3, <3>1, <4>1, ShorterAfter, AfterText
    <3>3. SqlClosing[s][q] = IF s[1] = q THEN 1 ELSE IF k = 0 THEN 0 ELSE n + k
      BY <2>1, <2>3 DEF SqlClosingStep
    <3>4. CASE s[1] = q
      BY <3>1, <3>3, <3>4
    <3>5. CASE s[1] # q /\ k # 0
      <4>1. k \in 1..Len(After(s, n)) /\ After(s, n)[k] = q
        BY <3>2, <3>5
      <4> HIDE DEF k, n
      <4>2. n <= Len(s) /\ n \in 0..Len(s) /\ k \in 1..(Len(s) - n) /\ n + k \in 1..Len(s)
        BY <3>1, <3>2, <4>1
      <4>3. After(s, n)[k] = s[n + k]
        BY <4>2, AfterIs DEF Texts
      <4>4. SqlClosing[s][q] = n + k
        BY <3>3, <3>5
      <4> QED BY <4>1, <4>2, <4>3, <4>4
    <3>6. CASE s[1] # q /\ k = 0
      BY <3>3, <3>6
    <3> QED BY <3>4, <3>5, <3>6
  <2> QED BY <2>2, <2>3
<1>2. Texts \subseteq G
  <2> HIDE DEF G
  <2> QED BY <1>1, TextInduction
<1> QED BY <1>2

LEMMA DomainOfText == ASSUME NEW s \in Texts PROVE DOMAIN s = 1..Len(s)
  BY LenProperties DEF Texts

LEMMA WordIs ==
  ASSUME NEW s \in Texts, s # <<>>, s[1] \in WordSymbols
  PROVE  /\ WordLength(s) \in 1..Len(s)
         /\ \A i \in 1..WordLength(s) : s[i] \in WordSymbols
         /\ WordLength(s) < Len(s) => s[WordLength(s) + 1] \notin WordSymbols
<1> DEFINE N == {n \in 1..Len(s) : \A i \in 1..n : s[i] \in WordSymbols}
           D == {Len(s) - n : n \in N}
<1>1. Len(s) \in Nat /\ Len(s) > 0
  BY FirstSymbol, TextLength
<1>2. 1 \in N
  BY <1>1
<1>3. D \in SUBSET Nat /\ D # {}
  BY <1>1, <1>2
<1>4. PICK d \in D : \A e \in D : d <= e
  <2> HIDE DEF D
  <2> QED BY <1>3, LeastNumber
<1>5. PICK m \in N : d = Len(s) - m
  BY <1>4
<1>6. \A n \in N : n <= m
  <2> TAKE n \in N
  <2>1. Len(s) - n \in D /\ n \in Int /\ m \in Int
    OBVIOUS
  <2>2. Len(s) - m <= Len(s) - n
    BY <1>4, <1>5, <2>1
  <2> QED BY <1>1, <2>1, <2>2
<1>7. WordLength(s) = Max(N)
  BY DomainOfText DEF WordLength
<1>8. Max(N) \in N /\ \A n \in N : Max(N) >= n
  <2>1. N \subseteq Int
    OBVIOUS
  <2> HIDE DEF N
  <2> QED BY <1>6, <2>1 DEF Max
<1> DEFINE w == WordLength(s)
<1>9. w \in N /\ \A n \in N : w >= n
  BY <1>7, <1>8
<1> HIDE DEF w
<1>10. ASSUME w < Len(s), s[w + 1] \in WordSymbols PROVE FALSE
  <2>1. w + 1 \in N
    BY <1>1, <1>9, <1>10
  <2>2. w >= w + 1 /\ w \in Int
    BY <1>9, <2>1
  <2> QED BY <2>2
<1> QED BY <1>9, <1>10 DEF w

LEMMA WordIsAll ==
  ASSUME NEW s \in Texts, NEW k \in 1..Len(s),
         \A i \in 1..k : s[i] \in WordSymbols, k < Len(s) => s[k + 1] \notin WordSymbols
  PROVE  WordLength(s) = k
<1>1. Len(s) \in Nat /\ s # <<>> /\ s[1] \in WordSymbols
  BY TextLength
<1> DEFINE w == WordLength(s)
<1>2. /\ w \in 1..Len(s) /\ \A i \in 1..w : s[i] \in WordSymbols
      /\ w < Len(s) => s[w + 1] \notin WordSymbols
  BY <1>1, WordIs
<1> HIDE DEF w
<1>3. ~(w < k)
  BY <1>1, <1>2
<1>4. ~(k < w)
  BY <1>1, <1>2
<1> QED BY <1>1, <1>2, <1>3, <1>4 DEF w

LEMMA SpaceRange ==
  ASSUME NEW s \in Texts, s # <<>> PROVE SpaceLength(s) \in 0..Len(s)
<1>1. Len(s) \in Nat /\ Len(s) > 0
  BY TailText
<1>2. SpaceLength(s) =
        CASE s[1] \in Blanks -> 1
          [] BlockComment(s) -> IF BlockEnd(s) = 0 THEN 0 ELSE BlockEnd(s) + 1
          [] SqlLineComment(s) -> IF LineEnd(s) = 0 THEN Len(s) ELSE LineEnd(s) - 1
          [] OTHER -> 0
  BY DEF SpaceLength, BlockEnd, LineEnd
<1>3. BlockEnd(s) = 0 \/ BlockEnd(s) \in 3..(Len(s) - 1)
  BY BlockEndIs
<1>4. SqlLineComment(s) => LineEnd(s) = 0 \/ LineEnd(s) \in 2..Len(s)
  BY LineCommentEnd
<1>5. s[1] \in Blanks => ~BlockComment(s) /\ ~SqlLineComment(s)
  BY BlockCommentIs, MinusesAre DEF SqlLineComment, Blanks
<1>6. BlockComment(s) => ~SqlLineComment(s)
  BY BlockCommentIs, MinusesAre DEF SqlLineComment
<1>7. CASE s[1] \in Blanks
  BY <1>1, <1>2, <1>5, <1>7
<1>8. CASE BlockComment(s)
  BY <1>1, <1>2, <1>3, <1>5, <1>6, <1>8
<1>9. CASE SqlLineComment(s)
  BY <1>1, <1>2, <1>4, <1>5, <1>6, <1>9
<1>10. CASE s[1] \notin Blanks /\ ~BlockComment(s) /\ ~SqlLineComment(s)
  BY <1>1, <1>2, <1>10
<1> QED BY <1>7, <1>8, <1>9, <1>10

\* SpaceLength without CASE.
LEMMA SpaceIs ==
  ASSUME NEW s \in Texts, s # <<>>
  PROVE  SpaceLength(s) =
           IF s[1] \in Blanks THEN 1
           ELSE IF BlockComment(s) THEN IF BlockEnd(s) = 0 THEN 0 ELSE BlockEnd(s) + 1
           ELSE IF SqlLineComment(s) THEN IF LineEnd(s) = 0 THEN Len(s) ELSE LineEnd(s) - 1
           ELSE 0
<1>1. SpaceLength(s) =
        CASE s[1] \in Blanks -> 1
          [] BlockComment(s) -> IF BlockEnd(s) = 0 THEN 0 ELSE BlockEnd(s) + 1
          [] SqlLineComment(s) -> IF LineEnd(s) = 0 THEN Len(s) ELSE LineEnd(s) - 1
          [] OTHER -> 0
  BY DEF SpaceLength, BlockEnd, LineEnd
<1>2. s[1] \in Blanks => ~BlockComment(s) /\ ~SqlLineComment(s)
  BY BlockCommentIs, MinusesAre DEF SqlLineComment, Blanks
<1>3. BlockComment(s) => ~SqlLineComment(s)
  BY BlockCommentIs, MinusesAre DEF SqlLineComment
<1> QED BY <1>1, <1>2, <1>3

\* TokenLength without CASE.
LEMMA TokenIs ==
  ASSUME NEW s \in Texts, s # <<>>
  PROVE  TokenLength(s) =
           IF BlockComment(s) THEN 0
           ELSE IF Begins(s, Minuses) THEN 2
           ELSE IF s[1] \in Quotes
                THEN IF SqlClosing[After(s, 1)][s[1]] = 0 THEN 0
                     ELSE SqlClosing[After(s, 1)][s[1]] + 1
           ELSE IF s[1] \in WordSymbols THEN WordLength(s)
           ELSE 1
<1>1. s[1] \in Quotes \/ s[1] \in WordSymbols => ~BlockComment(s) /\ ~Begins(s, Minuses)
  BY BlockCommentIs, MinusesAre DEF Quotes, WordSymbols
<1>2. BlockComment(s) => ~Begins(s, Minuses)
  BY BlockCommentIs, MinusesAre
<1>3. s[1] \in Quotes => s[1] \notin WordSymbols
  BY DEF Quotes, WordSymbols
<1> DEFINE closing == SqlClosing[After(s, 1)][s[1]]
           w == WordLength(s)
<1>4. TokenLength(s) =
        CASE BlockComment(s) -> 0
          [] Begins(s, Minuses) -> 2
          [] s[1] \in Quotes -> IF closing = 0 THEN 0 ELSE closing + 1
          [] s[1] \in WordSymbols -> w
          [] OTHER -> 1
  BY DEF TokenLength
<1> HIDE DEF closing, w
<1>5. TokenLength(s) =
        IF BlockComment(s) THEN 0
        ELSE IF Begins(s, Minuses) THEN 2
        ELSE IF s[1] \in Quotes THEN IF closing = 0 THEN 0 ELSE closing + 1
        ELSE IF s[1] \in WordSymbols THEN w
        ELSE 1
  BY <1>1, <1>2, <1>3, <1>4
<1> QED BY <1>5 DEF closing, w

LEMMA TokenRange ==
  ASSUME NEW s \in Texts, s # <<>> PROVE TokenLength(s) \in 0..Len(s)
<1>1. Len(s) \in Nat /\ Len(s) > 0 /\ After(s, 1) \in Texts /\ Len(After(s, 1)) = Len(s) - 1
  BY TailText
<1>2. Begins(s, Minuses) => Len(s) > 1
  BY MinusesAre
<1>3. ASSUME s[1] \in Quotes, SqlClosing[After(s, 1)][s[1]] # 0
      PROVE  SqlClosing[After(s, 1)][s[1]] \in 1..(Len(s) - 1)
  BY <1>1, <1>3, SqlClosingRange
<1>4. s[1] \in WordSymbols => WordLength(s) \in 1..Len(s)
  BY WordIs
<1> DEFINE closing == SqlClosing[After(s, 1)][s[1]]
<1> HIDE DEF closing
<1>5. TokenLength(s) = IF BlockComment(s) THEN 0
                       ELSE IF Begins(s, Minuses) THEN 2
                       ELSE IF s[1] \in Quotes THEN IF closing = 0 THEN 0 ELSE closing + 1
                       ELSE IF s[1] \in WordSymbols THEN WordLength(s)
                       ELSE 1
  BY TokenIs DEF closing
<1>6. s[1] \in Quotes /\ closing # 0 => closing \in 1..(Len(s) - 1)
  BY <1>3 DEF closing
<1> QED BY <1>1, <1>2, <1>4, <1>5, <1>6

TokenLists == Seq(Texts \cup {Unterminated})

LEMMA SingleToken ==
  ASSUME NEW x \in Texts \cup {Unterminated}
  PROVE  <<x>> \in TokenLists /\ Len(<<x>>) = 1 /\ <<x>>[1] = x
  BY DEF TokenLists

LEMMA JoinedTokens ==
  ASSUME NEW t \in TokenLists, NEW u \in TokenLists
  PROVE  t \o u \in TokenLists
  BY ConcatIs DEF TokenLists

TokensStep(g, s) ==
  IF s = <<>> THEN <<>>
  ELSE IF SpaceLength(s) > 0 THEN g[After(s, SpaceLength(s))]
  ELSE IF TokenLength(s) = 0 THEN <<Unterminated>>
  ELSE <<Upto(s, TokenLength(s))>> \o g[After(s, TokenLength(s))]

LEMMA TokensStepFits ==
  ASSUME NEW s \in Texts
  PROVE  /\ \A g : (\A r : Shorter(r, s) => g[r] \in TokenLists) => TokensStep(g, s) \in TokenLists
         /\ \A g, h : (\A r : Shorter(r, s) => g[r] = h[r])
                     => TokensStep(g, s) = TokensStep(h, s)
<1>1. CASE s = <<>>
  <2>1. <<>> \in TokenLists
    BY EmptySeq DEF TokenLists
  <2> QED BY <1>1, <2>1 DEF TokensStep
<1>2. CASE s # <<>>
  <2> DEFINE m == SpaceLength(s)
             k == TokenLength(s)
  <2>1. m \in 0..Len(s) /\ k \in 0..Len(s) /\ Len(s) \in Nat
    BY <1>2, SpaceRange, TokenRange, TextLength
  <2>2. \A g : TokensStep(g, s) = IF m > 0 THEN g[After(s, m)]
                                  ELSE IF k = 0 THEN <<Unterminated>>
                                  ELSE <<Upto(s, k)>> \o g[After(s, k)]
    BY <1>2 DEF TokensStep
  <2> HIDE DEF m, k
  <2>3. (m > 0 => Shorter(After(s, m), s)) /\ (k # 0 => Shorter(After(s, k), s))
    BY <1>2, <2>1, ShorterAfter
  <2>4. <<Unterminated>> \in TokenLists
    BY SingleToken
  <2>5. <<Upto(s, k)>> \in TokenLists
    BY <2>1, UptoText, SingleToken
  <2>6. ASSUME NEW g, \A r : Shorter(r, s) => g[r] \in TokenLists
        PROVE  TokensStep(g, s) \in TokenLists
    <3>1. CASE m > 0
      BY <2>2, <2>3, <2>6, <3>1
    <3>2. CASE ~(m > 0) /\ k = 0
      BY <2>2, <2>4, <3>2
    <3>3. CASE ~(m > 0) /\ k # 0
      <4>1. g[After(s, k)] \in TokenLists
        BY <2>3, <2>6, <3>3
      <4>2. <<Upto(s, k)>> \o g[After(s, k)] \in TokenLists
        BY <2>5, <4>1, JoinedTokens, Zenon
      <4>3. TokensStep(g, s) = <<Upto(s, k)>> \o g[After(s, k)]
        BY <2>2, <3>3
      <4> QED BY <4>2, <4>3, Zenon
    <3> QED BY <3>1, <3>2, <3>3
  <2>7. ASSUME NEW g, NEW h, \A r : Shorter(r, s) => g[r] = h[r]
        PROVE  TokensStep(g, s) = TokensStep(h, s)
    BY <2>2, <2>3, <2>7
  <2> QED BY <2>6, <2>7
<1> QED BY <1>1, <1>2

LEMMA TokensIs ==
  /\ Tokens \in [Texts -> TokenLists]
  /\ \A s \in Texts : Tokens[s] = TokensStep(Tokens, s)
<1> DEFINE step == [s \in Texts |-> [g \in [Texts -> TokenLists] |-> TokensStep(g, s)]]
<1>1. step \in StepsTo(TokenLists) /\ Descends(TokenLists, step)
  BY TokensStepFits DEF Shorter, StepsTo, Descends
<1>2. PICK f \in [Texts -> TokenLists] : \A s \in Texts : f[s] = step[s][f]
  <2>1. <<>> \in TokenLists
    BY EmptySeq DEF TokenLists
  <2> HIDE DEF step
  <2> QED BY <1>1, <2>1, Solvable
<1>3. f = [s \in Texts |-> TokensStep(f, s)]
  BY <1>2
<1>4. Tokens = [s \in Texts |-> TokensStep(Tokens, s)]
  BY <1>3, Zenon DEF Tokens, TokensStep
<1>5. Tokens \in [Texts -> TokenLists]
  <2> DEFINE G == {s \in Texts : Tokens[s] \in TokenLists}
  <2>1. \A s \in Texts : (\A r : Shorter(r, s) => r \in G) => s \in G
    BY <1>4, TokensStepFits
  <2>2. Texts \subseteq G
    <3> HIDE DEF G
    <3> QED BY <2>1, TextInduction
  <2> QED BY <1>4, <2>2
<1> QED BY <1>4, <1>5

----------------------------------------------------------------------------
(* Quoted texts.                                                           *)

\* The code and SQL agree on where a quoted text ends, but for a name with a "\".
LEMMA SameClosing ==
  ASSUME NEW q \in Quotes
  PROVE  \A s \in Texts :
           /\ SqlClosing[s][q] # 0
           /\ q = "bq" => \A i \in 1..SqlClosing[s][q] : s[i] # "\\"
           => Closing[s][q] = SqlClosing[s][q]
<1> DEFINE Plain(s) == q = "bq" => \A i \in 1..SqlClosing[s][q] : s[i] # "\\"
           G == {s \in Texts : SqlClosing[s][q] # 0 /\ Plain(s) => Closing[s][q] = SqlClosing[s][q]}
<1>1. ASSUME NEW s \in Texts, \A r : Shorter(r, s) => r \in G PROVE s \in G
  <2>0. SUFFICES ASSUME SqlClosing[s][q] # 0, Plain(s) PROVE Closing[s][q] = SqlClosing[s][q]
    OBVIOUS
  <2>1. SqlClosing[s][q] = SqlClosingStep(SqlClosing, s)[q] /\ Closing[s][q] = ClosingStep(Closing, s)[q]
    BY SqlClosingIs, ClosingIs
  <2>2. s # <<>>
    BY <2>0, <2>1 DEF SqlClosingStep
  <2>3. Len(s) \in Nat /\ Len(s) > 0 /\ Tail(s) = After(s, 1) /\ q \in {"'", "bq"}
    BY <2>2, TailText DEF Quotes
  <2>4. Closing[s][q] = IF s[1] = "\\" /\ Len(s) > 1 THEN 2 + Closing[After(s, 2)][q]
                        ELSE IF s[1] = q THEN 1 ELSE 1 + Closing[After(s, 1)][q]
    BY <2>1, <2>2, <2>3 DEF ClosingStep
  <2>5. CASE s[1] = q
    BY <2>1, <2>2, <2>3, <2>4, <2>5 DEF SqlClosingStep
  <2>6. CASE s[1] # q
    <3> DEFINE n == IF s[1] = "\\" /\ q = "'" THEN 2 ELSE 1
               rest == SqlClosing[After(s, n)][q]
    <3>1. SqlClosing[s][q] = IF rest = 0 THEN 0 ELSE n + rest
      BY <2>1, <2>2, <2>6 DEF SqlClosingStep
    <3>2. n \in {1, 2} /\ n \in Nat \ {0} /\ After(s, n) \in G
      <4>1. n \in {1, 2}
        OBVIOUS
      <4> HIDE DEF n, G
      <4>2. Shorter(After(s, n), s)
        BY <2>2, <4>1, ShorterAfter
      <4> QED BY <1>1, <4>1, <4>2
    <3>3. rest # 0 /\ SqlClosing[s][q] = n + rest
      BY <2>0, <3>1
    <3>4. rest \in 1..Len(After(s, n)) /\ Len(After(s, n)) = (IF n <= Len(s) THEN Len(s) - n ELSE 0)
          /\ After(s, n) \in Texts
      <4> HIDE DEF n
      <4>1. n \in Nat
        BY <3>2
      <4>2. Len(After(s, n)) = (IF n <= Len(s) THEN Len(s) - n ELSE 0) /\ After(s, n) \in Texts
        BY <4>1, AfterText
      <4> QED BY <3>3, <4>2, SqlClosingRange
    <3>5. n <= Len(s) /\ rest \in 1..(Len(s) - n)
      <4> HIDE DEF n, rest
      <4> QED BY <2>3, <3>2, <3>4
    <3>6. s[1] = "\\" /\ Len(s) > 1 <=> n = 2
      <4>1. q = "bq" => s[1] # "\\"
        <5> HIDE DEF n, rest
        <5>1. 1 \in 1..SqlClosing[s][q]
          BY <3>2, <3>3, <3>5
        <5> QED BY <2>0, <5>1
      <4> HIDE DEF rest
      <4> QED BY <2>3, <3>5, <4>1
    <3>7. Closing[s][q] = n + Closing[After(s, n)][q]
      <4> HIDE DEF n, rest
      <4> QED BY <2>4, <2>6, <3>2, <3>6
    <3>8. Plain(After(s, n))
      <4> HIDE DEF n
      <4>1. SUFFICES ASSUME q = "bq", NEW i \in 1..SqlClosing[After(s, n)][q] PROVE After(s, n)[i] # "\\"
        OBVIOUS
      <4>2. i \in 1..(Len(s) - n) /\ n + i \in 1..SqlClosing[s][q] /\ n \in 0..Len(s)
        <5> HIDE DEF rest
        <5>1. i \in 1..rest
          BY DEF rest
        <5> QED BY <2>3, <3>2, <3>3, <3>5, <5>1
      <4>3. After(s, n)[i] = s[n + i]
        BY <4>2, AfterIs DEF Texts
      <4> QED BY <2>0, <4>1, <4>2, <4>3
    <3>9. Closing[After(s, n)][q] = rest
      <4> HIDE DEF n, Plain
      <4> QED BY <3>2, <3>3, <3>8
    <3> QED BY <3>3, <3>7, <3>9
  <2> QED BY <2>5, <2>6
<1>2. Texts \subseteq G
  <2> HIDE DEF G
  <2> QED BY <1>1, TextInduction
<1> QED BY <1>2

\* Whether and where a quoted text ends does not depend on what follows it.
LEMMA ClosingIsLocal ==
  ASSUME NEW q \in Quotes
  PROVE  \A s \in Texts : \A w \in Texts :
           SqlClosing[s][q] # 0 =>
             SqlClosing[Upto(s, SqlClosing[s][q]) \o w][q] = SqlClosing[s][q]
<1> DEFINE G == {s \in Texts : \A w \in Texts :
                   SqlClosing[s][q] # 0 =>
                     SqlClosing[Upto(s, SqlClosing[s][q]) \o w][q] = SqlClosing[s][q]}
<1>1. ASSUME NEW s \in Texts, \A r : Shorter(r, s) => r \in G PROVE s \in G
  <2>0. SUFFICES ASSUME NEW w \in Texts, SqlClosing[s][q] # 0
                 PROVE  SqlClosing[Upto(s, SqlClosing[s][q]) \o w][q] = SqlClosing[s][q]
    OBVIOUS
  <2> DEFINE c == SqlClosing[s][q]
             z == Upto(s, c) \o w
  <2>1. SqlClosing[s][q] = SqlClosingStep(SqlClosing, s)[q]
    BY SqlClosingIs
  <2>2. s # <<>>
    BY <2>0, <2>1 DEF SqlClosingStep
  <2>3. Len(s) \in Nat /\ Len(s) > 0 /\ c \in 1..Len(s)
    BY <2>0, <2>2, TailText, SqlClosingRange
  <2>4. z \in Texts /\ z # <<>> /\ z[1] = s[1] /\ Len(z) = c + Len(w) /\ Len(w) \in Nat
    <3> HIDE DEF c
    <3>1. /\ Upto(s, c) \in Seq(Symbols) /\ Len(Upto(s, c)) = c /\ c \in 0..Len(s)
          /\ \A i \in 1..c : Upto(s, c)[i] = s[i]
      BY <2>3, UptoIs DEF Texts
    <3>2. PICK x \in Seq(Symbols) : x = Upto(s, c)
      BY <3>1
    <3>3. /\ x \o w \in Texts /\ Len(x \o w) = Len(x) + Len(w) /\ Len(w) \in Nat
          /\ \A i \in 1..Len(x) : (x \o w)[i] = x[i]
      BY <3>1, <3>2, ConcatIs DEF Texts
    <3>4. 1 \in 1..c
      BY <2>3
    <3>5. z \in Texts /\ z[1] = s[1] /\ Len(z) = c + Len(w)
      BY <3>1, <3>2, <3>3, <3>4
    <3> HIDE DEF z
    <3>6. z # <<>>
      BY <2>3, <3>3, <3>5, TextLength
    <3> QED BY <3>3, <3>5, <3>6
  <2>5. SqlClosing[z][q] = SqlClosingStep(SqlClosing, z)[q]
    <3> HIDE DEF z
    <3> QED BY <2>4, SqlClosingIs
  <2>6. CASE s[1] = q
    <3>1. c = 1
      BY <2>1, <2>2, <2>6 DEF SqlClosingStep
    <3>2. SqlClosing[z][q] = 1
      <4> HIDE DEF z, c
      <4> QED BY <2>4, <2>5, <2>6 DEF SqlClosingStep
    <3> QED BY <3>1, <3>2
  <2>7. CASE s[1] # q
    <3> DEFINE n == IF s[1] = "\\" /\ q = "'" THEN 2 ELSE 1
               rest == SqlClosing[After(s, n)][q]
    <3>1. c = IF rest = 0 THEN 0 ELSE n + rest
      BY <2>1, <2>2, <2>7 DEF SqlClosingStep
    <3>2. SqlClosing[z][q] = IF SqlClosing[After(z, n)][q] = 0 THEN 0 ELSE n + SqlClosing[After(z, n)][q]
      <4> HIDE DEF z, c
      <4> QED BY <2>4, <2>5, <2>7 DEF SqlClosingStep
    <3>3. n \in {1, 2} /\ n \in Nat
      OBVIOUS
    <3>4. Shorter(After(s, n), s) /\ After(s, n) \in Texts
          /\ Len(After(s, n)) = IF n <= Len(s) THEN Len(s) - n ELSE 0
      <4> HIDE DEF n
      <4>1. n \in Nat \ {0}
        BY <3>3
      <4> QED BY <2>2, <3>3, <4>1, ShorterAfter, AfterText
    <3>5. rest # 0 /\ c = n + rest
      BY <2>0, <3>1
    <3>6. rest \in 1..Len(After(s, n))
      BY <3>4, <3>5, SqlClosingRange
    <3>7. n <= Len(s) /\ rest \in 1..(Len(s) - n) /\ n + rest <= Len(s) /\ rest \in Nat
      <4> HIDE DEF n, rest, c
      <4> QED BY <2>3, <3>3, <3>4, <3>6
    <3>8. After(z, n) = Upto(After(s, n), rest) \o w
      <4> HIDE DEF n, rest, c
      <4> DEFINE a == Upto(s, n)
                 b == Upto(After(s, n), rest)
      <4>1. Upto(s, c) = a \o b
        BY <3>3, <3>5, <3>7, UptoPlus DEF Texts
      <4>2. a \in Seq(Symbols) /\ Len(a) = n
        <5>1. n \in 0..Len(s)
          BY <2>3, <3>3, <3>7
        <5> QED BY <5>1, UptoText DEF Texts
      <4>3. b \in Seq(Symbols)
        <5>1. rest \in 0..Len(After(s, n))
          BY <3>6
        <5> QED BY <3>4, <5>1, UptoText DEF Texts
      <4> HIDE DEF a, b
      <4>4. z = a \o (b \o w)
        <5>1. w \in Seq(Symbols)
          BY DEF Texts
        <5>2. (a \o b) \o w = a \o (b \o w)
          <6>1. a \in Seq(Symbols) /\ b \in Seq(Symbols) /\ w \in Seq(Symbols)
            BY <4>2, <4>3, <5>1
          <6> QED BY ONLY <6>1, ConcatAssociative
        <5>3. z = Upto(s, c) \o w
          BY DEF z
        <5> QED BY <4>1, <5>2, <5>3, Zenon
      <4>5. b \o w \in Seq(Symbols)
        BY <4>3, ConcatIs DEF Texts
      <4>6. After(a \o (b \o w), Len(a)) = b \o w
        BY <4>2, <4>5, PartsOfConcat
      <4> HIDE DEF z
      <4> QED BY <4>2, <4>4, <4>6 DEF b
    <3>9. SqlClosing[Upto(After(s, n), rest) \o w][q] = rest
      <4> HIDE DEF n
      <4>1. After(s, n) \in G
        BY <1>1, <3>4
      <4> QED BY <3>5, <4>1
    <3> HIDE DEF z, n, rest, c
    <3>10. SqlClosing[z][q] = c
      BY <3>2, <3>5, <3>8, <3>9
    <3> QED BY <3>10 DEF c, z
  <2> QED BY <2>6, <2>7
<1>2. Texts \subseteq G
  <2> HIDE DEF G
  <2> QED BY <1>1, TextInduction
<1> QED BY <1>2

----------------------------------------------------------------------------
(* Tokens and blanks in a text without comments.                           *)

Sound(x) == x \notin {Unterminated, Minuses} /\ (x[1] = "bq" => "\\" \notin ToSet(x))

\* s begins with a token of length k that is sound.
BeginsWithToken(s, k) ==
  /\ s # <<>> /\ SpaceLength(s) = 0
  /\ TokenLength(s) = k /\ k # 0
  /\ Sound(Upto(s, k))

LEMMA TokenKind ==
  ASSUME NEW s \in Texts, NEW k, BeginsWithToken(s, k)
  PROVE  /\ Len(s) \in Nat /\ k \in 1..Len(s) /\ k \in Nat /\ s # <<>>
         /\ s[1] \in Symbols /\ s[1] \notin Blanks /\ s[1] # "#"
         /\ ~BlockComment(s) /\ ~Begins(s, Minuses)
         /\ k = IF s[1] \in Quotes THEN SqlClosing[After(s, 1)][s[1]] + 1
                ELSE IF s[1] \in WordSymbols THEN WordLength(s)
                ELSE 1
         /\ s[1] \in Quotes => SqlClosing[After(s, 1)][s[1]] # 0
<1>1. s # <<>> /\ SpaceLength(s) = 0 /\ TokenLength(s) = k /\ k # 0 /\ Sound(Upto(s, k))
  BY DEF BeginsWithToken
<1>2. Len(s) \in Nat /\ k \in 1..Len(s) /\ k \in Nat /\ s[1] \in Symbols
  <2>1. Len(s) \in Nat /\ k \in 0..Len(s) /\ s[1] \in Symbols
    BY <1>1, TokenRange, TailText, FirstSymbol
  <2> QED BY <1>1, <2>1
<1> DEFINE closing == SqlClosing[After(s, 1)][s[1]]
<1>3. k = IF BlockComment(s) THEN 0
          ELSE IF Begins(s, Minuses) THEN 2
          ELSE IF s[1] \in Quotes THEN IF closing = 0 THEN 0 ELSE closing + 1
          ELSE IF s[1] \in WordSymbols THEN WordLength(s)
          ELSE 1
  BY <1>1, TokenIs
<1>4. ~BlockComment(s)
  BY <1>1, <1>3
<1>5. ~Begins(s, Minuses)
  <2>1. SUFFICES ASSUME Begins(s, Minuses) PROVE FALSE
    OBVIOUS
  <2>2. k = 2 /\ s[1] = "-" /\ s[2] = "-"
    BY <1>3, <1>4, <2>1, MinusesAre
  <2>3. Upto(s, 2) \in Seq(Symbols) /\ Len(Upto(s, 2)) = 2 /\ \A i \in 1..2 : Upto(s, 2)[i] = s[i]
    <3>1. 2 \in 0..Len(s)
      BY <1>2, <2>2
    <3> QED BY <3>1, UptoIs DEF Texts
  <2>4. Upto(s, 2) = Minuses
    BY <2>2, <2>3 DEF Minuses
  <2> QED BY <1>1, <2>2, <2>4 DEF Sound
<1>6. s[1] \notin Blanks /\ s[1] # "#"
  <2>1. s[1] \notin Blanks
    BY <1>1, SpaceIs
  <2>2. s[1] = "#" => SqlLineComment(s)
    BY DEF SqlLineComment
  <2>3. SqlLineComment(s) => LineEnd(s) = 0 \/ LineEnd(s) \in 2..Len(s)
    BY LineCommentEnd
  <2> QED BY <1>1, <1>2, <1>4, <2>1, <2>2, <2>3, SpaceIs
<1> HIDE DEF closing
<1>7. /\ k = IF s[1] \in Quotes THEN closing + 1
             ELSE IF s[1] \in WordSymbols THEN WordLength(s)
             ELSE 1
      /\ s[1] \in Quotes => closing # 0
  BY <1>1, <1>3, <1>4, <1>5
<1> QED BY <1>1, <1>2, <1>4, <1>5, <1>6, <1>7 DEF closing

\* Where no comment begins, the loop copies.
LEMMA Copied ==
  ASSUME NEW s \in Texts, s # <<>>, ~BlockComment(s), ~Begins(s, Minuses), s[1] # "#"
  PROVE  Stripped[s] = Upto(s, CopyLength(s)) \o Stripped[After(s, CopyLength(s))]
<1>1. ~LineComment(s)
  BY LineCommentIs, MinusesAre
<1>2. Stripped[s] = StrippedStep(Stripped, s)
  BY StrippedIs
<1> QED BY <1>1, <1>2 DEF StrippedStep

LEMMA FirstOfText ==
  ASSUME NEW s \in Texts, s # <<>> PROVE Upto(s, 1) = <<s[1]>> /\ Upto(s, 1) \in Texts
<1>1. 1 \in 0..Len(s)
  BY TailText
<1>2. Upto(s, 1) \in Seq(Symbols) /\ Len(Upto(s, 1)) = 1 /\ \A i \in 1..1 : Upto(s, 1)[i] = s[i]
  BY <1>1, UptoIs DEF Texts
<1> QED BY <1>2 DEF Texts

LEMMA CopiedSymbol ==
  ASSUME NEW s \in Texts, s # <<>>, s[1] \in WordSymbols \cup Blanks
  PROVE  Stripped[s] = <<s[1]>> \o Stripped[After(s, 1)]
<1>1. s[1] \notin Quotes /\ s[1] # "#" /\ s[1] # "/" /\ s[1] # "-"
  BY DEF WordSymbols, Blanks, Quotes
<1>2. ~BlockComment(s) /\ ~Begins(s, Minuses)
  BY <1>1, BlockCommentIs, MinusesAre
<1>3. CopyLength(s) = 1
  BY <1>1 DEF CopyLength
<1>4. Stripped[s] = Upto(s, CopyLength(s)) \o Stripped[After(s, CopyLength(s))]
  BY <1>1, <1>2, Copied
<1>5. Upto(s, 1) = <<s[1]>>
  BY FirstOfText
<1> QED BY <1>3, <1>4, <1>5, Zenon

LEMMA StripWord ==
  ASSUME NEW s \in Texts, NEW k \in 0..Len(s), \A i \in 1..k : s[i] \in WordSymbols
  PROVE  Stripped[s] = Upto(s, k) \o Stripped[After(s, k)]
<1> DEFINE T == {n \in 0..k : Stripped[s] # Upto(s, n) \o Stripped[After(s, n)]}
<1>0. Len(s) \in Nat
  BY TextLength
<1>1. SUFFICES ASSUME T # {} PROVE FALSE
  <2>1. k \in 0..k
    BY <1>0
  <2>2. SUFFICES ASSUME Stripped[s] # Upto(s, k) \o Stripped[After(s, k)] PROVE T # {}
    BY Zenon
  <2> QED BY <2>1, <2>2, Zenon
<1>2. PICK m \in T : \A n \in T : m <= n
  <2>1. T \in SUBSET Nat
    OBVIOUS
  <2> HIDE DEF T
  <2> QED BY <1>1, <2>1, LeastNumber
<1>3. m # 0
  <2>1. Upto(s, 0) = <<>>
    BY DEF Upto
  <2>2. After(s, 0) = s
    BY Whole DEF Texts
  <2>3. Stripped[s] \in Seq(Symbols)
    BY StrippedIs DEF Texts
  <2>4. <<>> \o Stripped[s] = Stripped[s]
    BY <2>3, ConcatEmptySeq
  <2>5. Upto(s, 0) \o Stripped[After(s, 0)] = Stripped[s]
    BY <2>1, <2>2, <2>4
  <2> QED BY <1>2, <2>5
<1> DEFINE n == m - 1
           v == After(s, n)
<1>4. n \in Nat /\ n \in 0..k /\ n + 1 = m /\ n + 1 <= Len(s) /\ n \in 0..Len(s) /\ n + 1 \in 1..k
      /\ n \notin T
  <2>1. m \in 0..k
    OBVIOUS
  <2> HIDE DEF T
  <2>2. \A j \in T : m <= j
    BY <1>2
  <2>3. m - 1 \notin T
    BY <2>1, <2>2
  <2> QED BY <1>0, <1>3, <2>1, <2>3
<1>5. Stripped[s] = Upto(s, n) \o Stripped[v]
  BY <1>4
<1>6. v \in Seq(Symbols) /\ v \in Texts /\ Len(v) = Len(s) - n /\ v[1] = s[n + 1] /\ v # <<>>
  <2> HIDE DEF n
  <2>1. /\ v \in Seq(Symbols) /\ Len(v) = Len(s) - n
        /\ \A i \in 1..(Len(s) - n) : v[i] = s[n + i]
    BY <1>4, AfterIs DEF Texts
  <2>2. 1 \in 1..(Len(s) - n)
    BY <1>0, <1>4
  <2> HIDE DEF v
  <2> QED BY <1>0, <1>4, <2>1, <2>2, NoSymbols DEF Texts
<1>7. Stripped[v] = Upto(v, 1) \o Stripped[After(v, 1)]
  <2>1. v[1] \in WordSymbols
    BY <1>4, <1>6
  <2> HIDE DEF v
  <2> QED BY <1>6, <2>1, CopiedSymbol, FirstOfText
<1>8. Upto(s, m) = Upto(s, n) \o Upto(v, 1) /\ After(s, m) = After(v, 1)
  <2> HIDE DEF n
  <2>1. s \in Seq(Symbols) /\ 1 \in Nat
    BY DEF Texts
  <2>2. Upto(s, n + 1) = Upto(s, n) \o Upto(After(s, n), 1)
    BY <1>4, <2>1, UptoPlus
  <2>3. After(After(s, n), 1) = After(s, n + 1)
    BY <1>4, <2>1, AfterAfter
  <2> QED BY <1>4, <2>2, <2>3
<1>9. Upto(s, n) \in Seq(Symbols) /\ Upto(v, 1) \in Seq(Symbols) /\ Stripped[After(v, 1)] \in Seq(Symbols)
  <2> HIDE DEF n, v
  <2>1. Upto(v, 1) \in Seq(Symbols)
    BY <1>6, FirstOfText DEF Texts
  <2>2. After(v, 1) \in Texts
    BY <1>6, TailText
  <2> QED BY <1>4, <2>1, <2>2, UptoText, StrippedIs DEF Texts
<1>10. Stripped[s] = Upto(s, m) \o Stripped[After(s, m)]
  <2> HIDE DEF n, v, T
  <2>1. (Upto(s, n) \o Upto(v, 1)) \o Stripped[After(v, 1)]
          = Upto(s, n) \o (Upto(v, 1) \o Stripped[After(v, 1)])
    <3>1. PICK a \in Seq(Symbols), b \in Seq(Symbols), c \in Seq(Symbols) :
            a = Upto(s, n) /\ b = Upto(v, 1) /\ c = Stripped[After(v, 1)]
      BY <1>9, Zenon
    <3>2. (a \o b) \o c = a \o (b \o c)
      BY ConcatAssociative
    <3> QED BY <3>1, <3>2, Zenon
  <2> QED BY <1>5, <1>7, <1>8, <2>1, Zenon
<1> QED BY <1>2, <1>10

\* The code copies a quoted text that is a token as a whole.
LEMMA QuoteCopied ==
  ASSUME NEW s \in Texts, NEW k, BeginsWithToken(s, k), s[1] \in Quotes
  PROVE  CopyLength(s) = k
<1>1. /\ Len(s) \in Nat /\ k \in 1..Len(s) /\ k \in Nat /\ s # <<>>
      /\ SqlClosing[After(s, 1)][s[1]] # 0
      /\ k = SqlClosing[After(s, 1)][s[1]] + 1
  BY TokenKind
<1> DEFINE r == After(s, 1)
           c == SqlClosing[r][s[1]]
<1>2. r \in Texts /\ Len(r) = Len(s) - 1 /\ Tail(s) = r
  BY <1>1, TailText
<1>3. c \in Nat /\ c # 0 /\ k = c + 1
  <2>1. SqlClosing[r] \in [Quotes -> Nat]
    BY <1>2, SqlClosingIs
  <2> QED BY <1>1, <2>1
<1>4. s[1] = "bq" => \A i \in 1..c : r[i] # "\\"
  <2>1. SUFFICES ASSUME s[1] = "bq", NEW i \in 1..c, r[i] = "\\" PROVE FALSE
    OBVIOUS
  <2> DEFINE x == Upto(s, k)
  <2>2. x \in Seq(Symbols) /\ Len(x) = k /\ \A j \in 1..k : x[j] = s[j]
    <3>1. k \in 0..Len(s)
      BY <1>1
    <3> QED BY <3>1, UptoIs DEF Texts
  <2>3. 1 + i \in 1..k /\ 1 \in 1..k /\ i \in 1..(Len(s) - 1) /\ 1 \in 0..Len(s)
    <3> HIDE DEF c
    <3> QED BY <1>1, <1>3
  <2>4. r[i] = s[1 + i]
    BY <2>3, AfterIs DEF Texts
  <2>5. x[1] = "bq" /\ x[1 + i] = "\\" /\ 1 + i \in DOMAIN x
    <3> HIDE DEF x, r, c
    <3> QED BY <2>1, <2>2, <2>3, <2>4, LenProperties
  <2>6. "\\" \in ToSet(x)
    <3> HIDE DEF x
    <3> QED BY <2>5 DEF ToSet
  <2>7. Sound(x)
    BY DEF BeginsWithToken
  <2> HIDE DEF x
  <2> QED BY <2>5, <2>6, <2>7 DEF Sound
<1>5. Closing[r][s[1]] = c
  <2> HIDE DEF r
  <2> QED BY <1>2, <1>3, <1>4, SameClosing
<1>6. CopyLength(s) = 1 + Closing[Tail(s)][s[1]]
  BY DEF CopyLength, LiteralLength
<1> HIDE DEF r, c
<1>7. CopyLength(s) = 1 + c
  BY <1>2, <1>5, <1>6, Zenon
<1> QED BY <1>3, <1>7

\* A token of a text is copied as a whole.
LEMMA StripToken ==
  ASSUME NEW s \in Texts, NEW k, BeginsWithToken(s, k)
  PROVE  Stripped[s] = Upto(s, k) \o Stripped[After(s, k)]
<1>1. /\ Len(s) \in Nat /\ k \in 1..Len(s) /\ k \in Nat /\ s # <<>>
      /\ s[1] # "#" /\ ~BlockComment(s) /\ ~Begins(s, Minuses)
  BY TokenKind
<1>2. s[1] \notin Quotes => k = IF s[1] \in WordSymbols THEN WordLength(s) ELSE 1
  BY TokenKind
<1>3. Stripped[s] = Upto(s, CopyLength(s)) \o Stripped[After(s, CopyLength(s))]
  BY <1>1, Copied
<1>4. CASE s[1] \in Quotes
  BY <1>3, <1>4, QuoteCopied
<1>5. CASE s[1] \notin Quotes /\ s[1] \in WordSymbols
  <2>1. k \in 0..Len(s) /\ \A i \in 1..k : s[i] \in WordSymbols
    BY <1>1, <1>2, <1>5, WordIs
  <2> QED BY <2>1, StripWord
<1>6. CASE s[1] \notin Quotes /\ s[1] \notin WordSymbols
  <2>1. CopyLength(s) = 1 /\ k = 1
    BY <1>2, <1>6 DEF CopyLength
  <2> QED BY <1>3, <2>1
<1> QED BY <1>4, <1>5, <1>6

\* The first symbol of a concatenation.
LEMMA FirstOfJoin ==
  ASSUME NEW u \in Texts, NEW w \in Texts, u # <<>>
  PROVE  u \o w \in Texts /\ u \o w # <<>> /\ (u \o w)[1] = u[1]
<1>1. Len(u) \in Nat /\ Len(u) > 0
  BY TailText
<1>2. /\ u \o w \in Seq(Symbols) /\ Len(u \o w) = Len(u) + Len(w) /\ Len(w) \in Nat
      /\ \A i \in 1..Len(u) : (u \o w)[i] = u[i]
  BY ConcatIs DEF Texts
<1>3. 1 \in 1..Len(u) /\ Len(u \o w) # 0
  BY <1>1, <1>2
<1> QED BY <1>2, <1>3, NoSymbols DEF Texts

\* What a blank or comment becomes: a blank, or nothing.
LEMMA StripSpace ==
  ASSUME NEW s \in Texts, s # <<>>, SpaceLength(s) > 0
  PROVE  LET r == Stripped[After(s, SpaceLength(s))]
         IN  \/ Stripped[s] = r
             \/ \E c \in Blanks : Stripped[s] = <<c>> \o r
<1> DEFINE r == Stripped[After(s, SpaceLength(s))]
<1>1. Len(s) \in Nat /\ Len(s) > 0 /\ Stripped[s] = StrippedStep(Stripped, s)
  BY TailText, StrippedIs
<1>2. CASE s[1] \in Blanks
  <2>1. SpaceLength(s) = 1
    BY <1>2, SpaceIs
  <2>2. Stripped[s] = <<s[1]>> \o Stripped[After(s, 1)]
    BY <1>2, CopiedSymbol
  <2> QED BY <1>2, <2>1, <2>2
<1>3. CASE s[1] \notin Blanks /\ BlockComment(s)
  <2>1. SpaceLength(s) = IF BlockEnd(s) = 0 THEN 0 ELSE BlockEnd(s) + 1
    BY <1>3, SpaceIs
  <2>2. BlockEnd(s) # 0 /\ SpaceLength(s) = BlockEnd(s) + 1
    BY <2>1
  <2>3. Stripped[s] = <<" ">> \o Stripped[After(s, BlockEnd(s) + 1)]
    BY <1>1, <1>3, <2>2 DEF StrippedStep, BlockEnd
  <2> QED BY <2>2, <2>3 DEF Blanks
<1>4. CASE s[1] \notin Blanks /\ ~BlockComment(s)
  <2>1. SpaceLength(s) = IF SqlLineComment(s)
                         THEN IF LineEnd(s) = 0 THEN Len(s) ELSE LineEnd(s) - 1
                         ELSE 0
    BY <1>4, SpaceIs
  <2>2. SqlLineComment(s) /\ LineComment(s)
    BY <2>1, LineCommentIs, MinusesAre DEF SqlLineComment
  <2>3. CASE LineEnd(s) = 0
    <3>1. Stripped[s] = <<>>
      BY <1>1, <1>4, <2>2, <2>3 DEF StrippedStep, LineEnd
    <3>2. After(s, Len(s)) = <<>>
      BY <1>1, PastEnd DEF Texts
    <3>3. Stripped[<<>>] = <<>>
      BY NoSymbols, StrippedIs DEF StrippedStep
    <3> QED BY <2>1, <2>2, <2>3, <3>1, <3>2, <3>3
  <2>4. CASE LineEnd(s) # 0
    <3>1. Stripped[s] = Stripped[After(s, LineEnd(s) - 1)]
      BY <1>1, <1>4, <2>2, <2>4 DEF StrippedStep, LineEnd
    <3> QED BY <2>1, <2>2, <2>4, <3>1
  <2> QED BY <2>3, <2>4
<1> QED BY <1>2, <1>3, <1>4

\* Taking comments out changes no first symbol but to a blank.
LEMMA StripHead ==
  ASSUME NEW s \in Texts, s # <<>>, Stripped[s] # <<>>
  PROVE  Stripped[s][1] \in Blanks \/ Stripped[s][1] = s[1]
<1>1. Len(s) \in Nat /\ Len(s) > 0 /\ Stripped[s] = StrippedStep(Stripped, s)
  BY TailText, StrippedIs
<1>2. CASE BlockComment(s)
  <2>1. Stripped[s] = IF BlockEnd(s) = 0 THEN <<>> ELSE <<" ">> \o Stripped[After(s, BlockEnd(s) + 1)]
    BY <1>1, <1>2 DEF StrippedStep, BlockEnd
  <2>2. Stripped[s] = <<" ">> \o Stripped[After(s, BlockEnd(s) + 1)]
    BY <2>1
  <2>3. PICK w \in Texts : w = Stripped[After(s, BlockEnd(s) + 1)]
    <3>1. BlockEnd(s) + 1 \in Nat
      BY <1>1, BlockEndIs
    <3>2. After(s, BlockEnd(s) + 1) \in Texts
      BY <3>1, AfterText
    <3> QED BY <3>2, StrippedIs
  <2>4. (<<" ">> \o w)[1] = <<" ">>[1]
    BY BlankText, NoSymbols, FirstOfJoin
  <2> QED BY <2>2, <2>3, <2>4 DEF Blanks
<1>3. CASE ~BlockComment(s) /\ LineComment(s)
  <2>1. Stripped[s] = IF LineEnd(s) = 0 THEN <<>> ELSE Stripped[After(s, LineEnd(s) - 1)]
    BY <1>1, <1>3 DEF StrippedStep, LineEnd
  <2>2. LineEnd(s) # 0 /\ Stripped[s] = Stripped[After(s, LineEnd(s) - 1)]
    BY <2>1
  <2>3. LineEnd(s) \in 2..Len(s) /\ s[LineEnd(s)] = "\n"
    BY <1>3, <2>2, LineCommentEnd
  <2> DEFINE n == LineEnd(s) - 1
             v == After(s, n)
  <2>4. n \in 0..Len(s) /\ n \in Nat /\ 1 \in 1..(Len(s) - n) /\ n + 1 = LineEnd(s)
    BY <1>1, <2>3
  <2>5. v \in Seq(Symbols) /\ Len(v) = Len(s) - n /\ v[1] = "\n"
    <3> HIDE DEF n
    <3>1. /\ v \in Seq(Symbols) /\ Len(v) = Len(s) - n
          /\ \A i \in 1..(Len(s) - n) : v[i] = s[n + i]
      BY <2>4, AfterIs DEF Texts
    <3> HIDE DEF v
    <3>2. v[1] = s[n + 1]
      BY <2>4, <3>1
    <3> QED BY <2>3, <2>4, <3>1, <3>2
  <2>6. v \in Texts /\ v # <<>> /\ v[1] \in Blanks
    <3> HIDE DEF n, v
    <3> QED BY <1>1, <2>4, <2>5, NoSymbols DEF Texts, Blanks
  <2>7. Stripped[v] = <<v[1]>> \o Stripped[After(v, 1)]
    <3> HIDE DEF v
    <3> QED BY <2>6, CopiedSymbol
  <2>8. PICK w \in Texts : w = Stripped[After(v, 1)]
    <3> HIDE DEF v
    <3>1. After(v, 1) \in Texts
      BY <2>6, TailText
    <3> QED BY <3>1, StrippedIs
  <2>9. (<<v[1]>> \o w)[1] = v[1]
    <3> HIDE DEF v
    <3>1. <<v[1]>> \in Texts /\ <<v[1]>> # <<>> /\ <<v[1]>>[1] = v[1]
      BY <2>6, FirstSymbol, SingleText
    <3> QED BY <3>1, FirstOfJoin
  <2> HIDE DEF v
  <2>10. Stripped[s][1] = v[1]
    BY <2>2, <2>7, <2>8, <2>9 DEF v
  <2> QED BY <2>6, <2>10
<1>4. CASE ~BlockComment(s) /\ ~LineComment(s)
  <2> DEFINE k == CopyLength(s)
             u == Upto(s, k)
  <2>1. Stripped[s] = u \o Stripped[After(s, k)]
    BY <1>1, <1>4 DEF StrippedStep
  <2>2. k \in 1..Len(s) /\ k \in 0..Len(s) /\ k \in Nat
    BY <1>1, CopyRange
  <2>3. u \in Texts /\ u # <<>> /\ u[1] = s[1]
    <3> HIDE DEF k
    <3>1. u \in Seq(Symbols) /\ Len(u) = k /\ \A i \in 1..k : u[i] = s[i]
      BY <2>2, UptoIs DEF Texts
    <3> HIDE DEF u
    <3> QED BY <2>2, <3>1, NoSymbols DEF Texts
  <2>4. PICK w \in Texts : w = Stripped[After(s, k)]
    <3> HIDE DEF k
    <3>1. After(s, k) \in Texts
      BY <2>2, AfterText
    <3> QED BY <3>1, StrippedIs
  <2> HIDE DEF k, u
  <2>5. (u \o w)[1] = u[1]
    BY <2>3, FirstOfJoin
  <2> QED BY <2>1, <2>3, <2>4, <2>5
<1> QED BY <1>2, <1>3, <1>4

Trailing == Blanks \cup {";"}

\* w can stand behind a token of length k of s: it does not go on with it.
Follows(w, s, k) == w # <<>> => w[1] \in Trailing \/ (k < Len(s) /\ w[1] = s[k + 1])

LEMMA StrippedFollows ==
  ASSUME NEW s \in Texts, NEW k \in 1..Len(s)
  PROVE  Follows(Stripped[After(s, k)], s, k)
<1>1. Len(s) \in Nat
  BY TextLength
<1> DEFINE v == After(s, k)
<1>2. v \in Texts /\ Len(v) = Len(s) - k /\ \A i \in 1..(Len(s) - k) : v[i] = s[k + i]
  BY <1>1, AfterIs DEF Texts
<1> HIDE DEF v
<1>3. CASE v = <<>>
  <2>1. Stripped[<<>>] = <<>>
    BY NoSymbols, StrippedIs DEF StrippedStep
  <2> QED BY <1>3, <2>1 DEF Follows, v
<1>4. CASE v # <<>>
  <2>1. Len(v) # 0
    BY <1>2, <1>4, TextLength
  <2>2. k < Len(s) /\ v[1] = s[k + 1]
    BY <1>1, <1>2, <2>1
  <2>3. Stripped[v] # <<>> => Stripped[v][1] \in Blanks \/ Stripped[v][1] = v[1]
    BY <1>2, <1>4, StripHead
  <2> QED BY <2>2, <2>3 DEF Follows, Trailing, v
<1> QED BY <1>3, <1>4

\* A token stays one if what follows it is changed.
LEMMA TokenStays ==
  ASSUME NEW s \in Texts, NEW k, BeginsWithToken(s, k), NEW w \in Texts, Follows(w, s, k)
  PROVE  LET z == Upto(s, k) \o w
         IN  z \in Texts /\ BeginsWithToken(z, k) /\ Upto(z, k) = Upto(s, k) /\ After(z, k) = w
<1>1. /\ Len(s) \in Nat /\ k \in 1..Len(s) /\ k \in Nat /\ s # <<>>
      /\ s[1] \in Symbols /\ s[1] \notin Blanks /\ s[1] # "#"
      /\ ~BlockComment(s) /\ ~Begins(s, Minuses)
      /\ s[1] \in Quotes => SqlClosing[After(s, 1)][s[1]] # 0
  BY TokenKind
<1>2. k = IF s[1] \in Quotes THEN SqlClosing[After(s, 1)][s[1]] + 1
          ELSE IF s[1] \in WordSymbols THEN WordLength(s)
          ELSE 1
  BY TokenKind
<1> DEFINE x == Upto(s, k)
           z == x \o w
<1>3. x \in Seq(Symbols) /\ Len(x) = k /\ \A i \in 1..k : x[i] = s[i]
  <2>1. k \in 0..Len(s)
    BY <1>1
  <2> QED BY <2>1, UptoIs DEF Texts
<1>4. /\ z \in Texts /\ Len(z) = k + Len(w) /\ Len(w) \in Nat
      /\ \A i \in 1..k : z[i] = s[i]
      /\ \A i \in 1..Len(w) : z[k + i] = w[i]
  <2> HIDE DEF x
  <2>1. /\ z \in Seq(Symbols) /\ Len(z) = Len(x) + Len(w) /\ Len(w) \in Nat
        /\ \A i \in 1..Len(x) : z[i] = x[i]
        /\ \A i \in 1..Len(w) : z[Len(x) + i] = w[i]
    <3>1. x \in Seq(Symbols) /\ w \in Seq(Symbols)
      BY <1>3 DEF Texts
    <3>2. PICK a \in Seq(Symbols), b \in Seq(Symbols) : a = x /\ b = w
      BY <3>1, Zenon
    <3>3. /\ a \o b \in Seq(Symbols) /\ Len(a \o b) = Len(a) + Len(b) /\ Len(b) \in Nat
          /\ \A i \in 1..Len(a) : (a \o b)[i] = a[i]
          /\ \A i \in 1..Len(b) : (a \o b)[Len(a) + i] = b[i]
      <4> HIDE DEF z
      <4> QED BY ConcatIs
    <3> QED BY <3>2, <3>3, Zenon
  <2> HIDE DEF z
  <2> QED BY <1>1, <1>3, <2>1 DEF Texts
<1>5. z # <<>> /\ z[1] = s[1]
  <2> HIDE DEF z
  <2> QED BY <1>1, <1>4, NoSymbols
<1>6. Len(z) > k => /\ z[k + 1] = w[1] /\ Len(w) > 0
                    /\ z[k + 1] \in Trailing \/ (k < Len(s) /\ z[k + 1] = s[k + 1])
  <2> HIDE DEF z
  <2>1. SUFFICES ASSUME Len(z) > k
                 PROVE  /\ z[k + 1] = w[1] /\ Len(w) > 0
                        /\ z[k + 1] \in Trailing \/ (k < Len(s) /\ z[k + 1] = s[k + 1])
    OBVIOUS
  <2>2. 1 \in 1..Len(w) /\ w # <<>>
    BY <1>1, <1>4, <2>1, NoSymbols
  <2>3. z[k + 1] = w[1]
    BY <1>4, <2>2
  <2> QED BY <2>2, <2>3 DEF Follows
\* The second symbol, where it makes a comment.
<1>7. ASSUME s[1] \in {"/", "-"}, Len(z) > 1, z[2] \in {"*", "-"}
      PROVE  Len(s) > 1 /\ s[2] = z[2]
  <2>1. k = 1
    BY <1>2, <1>7 DEF Quotes, WordSymbols
  <2>2. z[2] \notin Trailing
    BY <1>7 DEF Trailing, Blanks
  <2> HIDE DEF z
  <2> QED BY <1>1, <1>6, <1>7, <2>1, <2>2
<1>8. ~BlockComment(z) /\ ~Begins(z, Minuses) /\ ~SqlLineComment(z)
  <2> HIDE DEF z
  <2>1. BlockComment(z) => z[1] = "/" /\ Len(z) > 1 /\ z[2] = "*"
    BY <1>4, BlockCommentIs
  <2>2. Begins(z, Minuses) => z[1] = "-" /\ Len(z) > 1 /\ z[2] = "-"
    BY <1>4, MinusesAre
  <2>3. ~BlockComment(z)
    BY <1>1, <1>5, <1>7, <2>1, BlockCommentIs
  <2>4. ~Begins(z, Minuses)
    BY <1>1, <1>5, <1>7, <2>2, MinusesAre
  <2> QED BY <1>1, <1>5, <2>3, <2>4 DEF SqlLineComment
<1>9. SpaceLength(z) = 0
  <2> HIDE DEF z
  <2> QED BY <1>1, <1>4, <1>5, <1>8, SpaceIs
<1>10. TokenLength(z) = IF z[1] \in Quotes
                        THEN IF SqlClosing[After(z, 1)][z[1]] = 0 THEN 0
                             ELSE SqlClosing[After(z, 1)][z[1]] + 1
                        ELSE IF z[1] \in WordSymbols THEN WordLength(z)
                        ELSE 1
  <2> HIDE DEF z
  <2> QED BY <1>4, <1>5, <1>8, TokenIs
<1>11. TokenLength(z) = k
  <2>1. CASE s[1] \in Quotes
    <3> DEFINE r == After(s, 1)
               c == SqlClosing[r][s[1]]
               y == Upto(r, c)
    <3>1. r \in Texts /\ Len(r) = Len(s) - 1
      BY <1>1, TailText
    <3>2. c # 0 /\ c \in 1..Len(r) /\ k = c + 1
      <4> HIDE DEF r
      <4> QED BY <1>1, <1>2, <2>1, <3>1, SqlClosingRange DEF r
    <3>3. Upto(s, k) = Upto(s, 1) \o y
      <4> HIDE DEF c
      <4>1. 1 \in Nat /\ c \in Nat /\ 1 + c <= Len(s) /\ 1 + c = k
        BY <1>1, <3>1, <3>2
      <4>2. Upto(s, 1 + c) = Upto(s, 1) \o Upto(After(s, 1), c)
        BY <4>1, UptoPlus DEF Texts
      <4> QED BY <4>1, <4>2
    <3>4. PICK a \in Seq(Symbols) : a = Upto(s, 1) /\ Len(a) = 1
      <4>1. 1 \in 0..Len(s)
        BY <1>1
      <4> QED BY <4>1, UptoText DEF Texts
    <3>5. y \in Seq(Symbols)
      <4> HIDE DEF r, c
      <4>1. c \in 0..Len(r)
        BY <3>2
      <4> QED BY <3>1, <4>1, UptoText DEF Texts
    <3> HIDE DEF y
    <3>6. PICK b \in Seq(Symbols) : b = y \o w
      BY <3>5, ConcatIs DEF Texts
    <3>7. z = a \o b
      <4>1. (a \o y) \o w = a \o (y \o w)
        <5>1. w \in Seq(Symbols)
          BY DEF Texts
        <5> HIDE DEF Texts
        <5> QED BY <3>5, <5>1, ConcatAssociative
      <4> QED BY <3>3, <3>4, <3>6, <4>1, Zenon
    <3>8. After(z, 1) = y \o w
      <4>1. After(a \o b, Len(a)) = b
        BY PartsOfConcat
      <4> QED BY <3>4, <3>6, <3>7, <4>1, Zenon
    <3>9. SqlClosing[y \o w][s[1]] = c
      <4> HIDE DEF r, c
      <4>1. SqlClosing[r][s[1]] # 0
        BY <3>2 DEF c
      <4>2. SqlClosing[Upto(r, SqlClosing[r][s[1]]) \o w][s[1]] = SqlClosing[r][s[1]]
        BY <2>1, <3>1, <4>1, ClosingIsLocal
      <4> QED BY <4>2, Zenon DEF y, c
    <3>10. SqlClosing[After(z, 1)][z[1]] = c
      <4> HIDE DEF z, c
      <4> QED BY <1>5, <3>8, <3>9, Zenon
    <3> HIDE DEF z, c
    <3> QED BY <1>5, <1>10, <2>1, <3>2, <3>10
  <2>2. CASE s[1] \notin Quotes /\ s[1] \in WordSymbols
    <3>1. k = WordLength(s)
      BY <1>2, <2>2
    <3>2. /\ \A i \in 1..k : s[i] \in WordSymbols
          /\ k < Len(s) => s[k + 1] \notin WordSymbols
      BY <1>1, <2>2, <3>1, WordIs
    <3> HIDE DEF z
    <3>3. k \in 1..Len(z) /\ \A i \in 1..k : z[i] \in WordSymbols
      <4>1. k \in 1..Len(z) /\ \A i \in 1..k : z[i] = s[i]
        BY <1>1, <1>4
      <4> QED BY <3>2, <4>1, Zenon
    <3>4. k < Len(z) => z[k + 1] \notin WordSymbols
      <4>1. \A c \in Trailing : c \notin WordSymbols
        BY DEF Trailing, Blanks, WordSymbols
      <4> QED BY <1>1, <1>4, <1>6, <3>2, <4>1
    <3>5. WordLength(z) = k
      BY <1>4, <3>3, <3>4, WordIsAll
    <3> QED BY <1>5, <1>10, <2>2, <3>5
  <2>3. CASE s[1] \notin Quotes /\ s[1] \notin WordSymbols
    <3> HIDE DEF z
    <3> QED BY <1>2, <1>5, <1>10, <2>3
  <2> QED BY <2>1, <2>2, <2>3
<1>12. Upto(z, k) = x /\ After(z, k) = w
  <2> HIDE DEF x
  <2> QED BY <1>3, PartsOfConcat DEF Texts
<1>13. Sound(x)
  BY DEF BeginsWithToken
<1> HIDE DEF x, z
<1>14. BeginsWithToken(z, k)
  BY <1>1, <1>5, <1>9, <1>11, <1>12, <1>13 DEF BeginsWithToken
<1> QED BY <1>4, <1>12, <1>14 DEF x, z

LEMMA TokenFirst ==
  ASSUME NEW s \in Texts, NEW k, BeginsWithToken(s, k), NEW w \in Texts, Follows(w, s, k)
  PROVE  Tokens[Upto(s, k) \o w] = <<Upto(s, k)>> \o Tokens[w]
<1> DEFINE z == Upto(s, k) \o w
<1>1. z \in Texts /\ BeginsWithToken(z, k) /\ Upto(z, k) = Upto(s, k) /\ After(z, k) = w
  BY TokenStays
<1> HIDE DEF z
<1>2. Tokens[z] = TokensStep(Tokens, z)
  BY <1>1, TokensIs
<1>3. Tokens[z] = <<Upto(z, k)>> \o Tokens[After(z, k)]
  BY <1>1, <1>2 DEF TokensStep, BeginsWithToken
<1> QED BY <1>1, <1>3, Zenon DEF z

----------------------------------------------------------------------------
(* The two ends of a text.                                                 *)

AllIn(t, C) == \A i \in 1..Len(t) : t[i] \in C
EndsOutside(u, C) == u # <<>> /\ u[Len(u)] \notin C

LEMMA EmptyOrNot ==
  ASSUME NEW S, NEW s \in Seq(S) PROVE Len(s) \in Nat /\ (Len(s) = 0 <=> s = <<>>)
  BY LenProperties, EmptySeq

LEMMA JoinEmpty ==
  ASSUME NEW S, NEW s \in Seq(S) PROVE <<>> \o s = s /\ s \o <<>> = s /\ <<>> \in Seq(S)
  BY ConcatEmptySeq, EmptySeq

\* Of two ways to split a sequence the second goes further, by v.
SplitTwice(x, r, u, t) == x \o r = u \o t /\ Len(x) <= Len(u)
Between(v, x, r, u, t) == u = x \o v /\ r = v \o t

LEMMA Overlap ==
  ASSUME NEW S, NEW x \in Seq(S), NEW r \in Seq(S), NEW u \in Seq(S), NEW t \in Seq(S),
         SplitTwice(x, r, u, t)
  PROVE  \E v \in Seq(S) : Between(v, x, r, u, t)
<1>0. x \o r = u \o t /\ Len(x) <= Len(u)
  BY DEF SplitTwice
<1>1. Len(x) \in Nat /\ Len(u) \in Nat /\ Len(x) \in 0..Len(u)
  BY <1>0, EmptyOrNot
<1> DEFINE n == Len(x)
           v == After(u, n)
<1>2. v \in Seq(S)
  <2> HIDE DEF n
  <2> QED BY <1>1, AfterIs DEF n
<1>3. Upto(x \o r, n) = x /\ After(x \o r, n) = r
  BY PartsOfConcat
<1>4. Upto(u \o t, n) = Upto(u, n) /\ After(u \o t, n) = v \o t
  <2>1. n \in 0..Len(u)
    BY <1>1
  <2> HIDE DEF n
  <2> QED BY <2>1, UptoConcat, AfterConcat
<1>5. Upto(u, n) \o v = u
  <2>1. n \in 0..Len(u)
    BY <1>1
  <2> HIDE DEF n
  <2> QED BY <2>1, SplitAt
<1> HIDE DEF n, v
<1>6. u = x \o v /\ r = v \o t
  BY <1>0, <1>3, <1>4, <1>5, Zenon
<1> QED BY <1>2, <1>6 DEF Between

LEMMA OverlapOfTexts ==
  ASSUME NEW x \in Texts, NEW r \in Texts, NEW u \in Texts, NEW t \in Texts,
         SplitTwice(x, r, u, t)
  PROVE  \E v \in Texts : Between(v, x, r, u, t)
<1>1. x \in Seq(Symbols) /\ r \in Seq(Symbols) /\ u \in Seq(Symbols) /\ t \in Seq(Symbols)
  BY DEF Texts
<1> QED BY <1>1, Overlap, Zenon DEF Texts

LEMMA LastOfJoin ==
  ASSUME NEW S, NEW u \in Seq(S), NEW v \in Seq(S), v # <<>>
  PROVE  u \o v # <<>> /\ (u \o v)[Len(u \o v)] = v[Len(v)]
<1>1. /\ u \o v \in Seq(S) /\ Len(u \o v) = Len(u) + Len(v) /\ Len(u) \in Nat /\ Len(v) \in Nat
      /\ \A i \in 1..Len(v) : (u \o v)[Len(u) + i] = v[i]
  BY ConcatIs
<1>2. Len(v) \in 1..Len(v) /\ Len(v) > 0
  BY <1>1, EmptyOrNot
<1>3. PICK w \in Seq(S) : w = u \o v
  BY <1>1
<1>4. w[Len(u) + Len(v)] = v[Len(v)] /\ Len(w) = Len(u) + Len(v)
  BY <1>1, <1>2, <1>3
<1>5. w # <<>>
  BY <1>1, <1>2, <1>4, EmptyOrNot
<1> QED BY <1>3, <1>4, <1>5

LEMMA AllInParts ==
  ASSUME NEW S, NEW u \in Seq(S), NEW v \in Seq(S), NEW C, AllIn(u \o v, C)
  PROVE  AllIn(u, C) /\ AllIn(v, C)
<1>1. /\ Len(u \o v) = Len(u) + Len(v) /\ Len(u) \in Nat /\ Len(v) \in Nat
      /\ \A i \in 1..Len(u) : (u \o v)[i] = u[i]
      /\ \A i \in 1..Len(v) : (u \o v)[Len(u) + i] = v[i]
  BY ConcatIs
<1>2. \A i \in 1..(Len(u) + Len(v)) : (u \o v)[i] \in C
  BY <1>1 DEF AllIn
<1>3. \A i \in 1..Len(u) : u[i] \in C
  <2> TAKE i \in 1..Len(u)
  <2>1. i \in 1..(Len(u) + Len(v))
    BY <1>1
  <2> QED BY <1>1, <1>2, <2>1
<1>4. \A i \in 1..Len(v) : v[i] \in C
  <2> TAKE i \in 1..Len(v)
  <2>1. Len(u) + i \in 1..(Len(u) + Len(v))
    BY <1>1
  <2> QED BY <1>1, <1>2, <2>1
<1> QED BY <1>3, <1>4 DEF AllIn

LEMMA AllInJoined ==
  ASSUME NEW S, NEW u \in Seq(S), NEW v \in Seq(S), NEW C, AllIn(u, C), AllIn(v, C)
  PROVE  AllIn(u \o v, C)
<1>1. /\ Len(u \o v) = Len(u) + Len(v) /\ Len(u) \in Nat /\ Len(v) \in Nat
      /\ \A i \in 1..Len(u) : (u \o v)[i] = u[i]
      /\ \A i \in 1..Len(v) : (u \o v)[Len(u) + i] = v[i]
  BY ConcatIs
<1>2. \A i \in 1..(Len(u) + Len(v)) : (u \o v)[i] \in C
  <2> TAKE i \in 1..(Len(u) + Len(v))
  <2>1. CASE i <= Len(u)
    BY <1>1, <2>1 DEF AllIn
  <2>2. CASE ~(i <= Len(u))
    <3>1. i - Len(u) \in 1..Len(v) /\ Len(u) + (i - Len(u)) = i
      BY <1>1, <2>2
    <3> QED BY <1>1, <3>1 DEF AllIn
  <2> QED BY <2>1, <2>2
<1> QED BY <1>1, <1>2 DEF AllIn

\* TrimRight takes the longest end whose members are in C.
LEMMA TrimRightIs ==
  ASSUME NEW S, NEW s \in Seq(S), NEW C
  PROVE  \E n \in 0..Len(s) : /\ TrimRight(s, C) = Upto(s, n)
                              /\ n > 0 => s[n] \notin C
                              /\ AllIn(After(s, n), C)
<1> DEFINE I == {i \in 1..Len(s) : s[i] \notin C}
           D == {Len(s) - i : i \in I}
           n == IF I # {} THEN Max(I) ELSE 0
<1>1. Len(s) \in Nat
  BY EmptyOrNot
<1>2. SelectLastInSeq(s, LAMBDA c : c \notin C) = n
  BY DEF SelectLastInSeq
<1>3. n \in 0..Len(s) /\ (n > 0 => s[n] \notin C) /\ \A i \in I : i <= n
  <2>1. CASE I = {}
    BY <1>1, <2>1
  <2>2. CASE I # {}
    <3>1. D \in SUBSET Nat /\ D # {}
      BY <1>1, <2>2
    <3>2. PICK d \in D : \A e \in D : d <= e
      <4> HIDE DEF D
      <4> QED BY <3>1, LeastNumber
    <3>3. PICK m \in I : d = Len(s) - m
      BY <3>2
    <3>4. \A i \in I : i <= m
      <4> TAKE i \in I
      <4>1. Len(s) - i \in D /\ i \in Int /\ m \in Int
        OBVIOUS
      <4>2. Len(s) - m <= Len(s) - i
        BY <3>2, <3>3, <4>1
      <4> QED BY <1>1, <4>1, <4>2
    <3>5. Max(I) \in I /\ \A i \in I : Max(I) >= i
      <4>1. I \subseteq Int
        OBVIOUS
      <4> HIDE DEF I
      <4> QED BY <3>4, <4>1 DEF Max
    <3>6. n \in I /\ \A i \in I : i <= n
      BY <2>2, <3>5
    <3> QED BY <3>6
  <2> QED BY <2>1, <2>2
<1>4. AllIn(After(s, n), C)
  <2>1. \A i \in 1..Len(s) : i > n => s[i] \in C
    <3> HIDE DEF n
    <3>1. SUFFICES ASSUME NEW i \in 1..Len(s), i > n, s[i] \notin C PROVE FALSE
      OBVIOUS
    <3>2. i \in I /\ i <= n
      BY <1>3, <3>1
    <3> QED BY <1>1, <1>3, <3>1, <3>2
  <2> HIDE DEF n, I
  <2>2. Len(After(s, n)) = Len(s) - n /\ \A i \in 1..(Len(s) - n) : After(s, n)[i] = s[n + i]
    BY <1>3, AfterIs
  <2>3. ASSUME NEW i \in 1..(Len(s) - n) PROVE After(s, n)[i] \in C
    <3>1. n + i \in 1..Len(s) /\ n + i > n
      BY <1>1, <1>3
    <3> QED BY <2>1, <2>2, <3>1
  <2> QED BY <2>2, <2>3 DEF AllIn
<1>5. TrimRight(s, C) = Upto(s, n)
  <2> HIDE DEF n
  <2> QED BY <1>2 DEF TrimRight
<1> HIDE DEF n
<1> QED BY <1>3, <1>4, <1>5

LEMMA TrimRightOfJoin ==
  ASSUME NEW S, NEW u \in Seq(S), NEW t \in Seq(S), NEW C,
         u = <<>> \/ EndsOutside(u, C), AllIn(t, C)
  PROVE  TrimRight(u \o t, C) = u
<1> DEFINE k == Len(u)
<1>1. PICK w \in Seq(S) : w = u \o t
  BY ConcatIs
<1>2. /\ Len(w) = k + Len(t) /\ k \in Nat /\ Len(t) \in Nat
      /\ \A i \in 1..k : w[i] = u[i]
      /\ \A i \in 1..Len(t) : w[k + i] = t[i]
  BY <1>1, ConcatIs
<1>3. PICK n \in 0..Len(w) : /\ TrimRight(w, C) = Upto(w, n)
                             /\ n > 0 => w[n] \notin C
                             /\ AllIn(After(w, n), C)
  BY TrimRightIs
<1>4. ~(n > k)
  <2>1. SUFFICES ASSUME n > k PROVE FALSE
    OBVIOUS
  <2> HIDE DEF k
  <2>2. n - k \in 1..Len(t) /\ k + (n - k) = n /\ n > 0
    BY <1>2, <2>1
  <2> QED BY <1>2, <1>3, <2>2 DEF AllIn
<1>5. ~(n < k)
  <2>1. SUFFICES ASSUME n < k PROVE FALSE
    OBVIOUS
  <2>2. u # <<>> /\ u[k] \notin C
    <3>1. u # <<>>
      BY <1>2, <2>1, EmptyOrNot
    <3> QED BY <3>1 DEF EndsOutside
  <2> HIDE DEF k
  <2>3. /\ k - n \in 1..(Len(w) - n) /\ n + (k - n) = k /\ k \in 1..k
    BY <1>2, <2>1
  <2>4. Len(After(w, n)) = Len(w) - n /\ \A i \in 1..(Len(w) - n) : After(w, n)[i] = w[n + i]
    BY AfterIs
  <2>5. After(w, n)[k - n] = w[k] /\ w[k] = u[k]
    BY <1>2, <2>3, <2>4
  <2>6. After(w, n)[k - n] \in C
    BY <1>3, <2>3, <2>4 DEF AllIn
  <2> QED BY <2>2, <2>5, <2>6
<1>6. n = Len(u)
  BY <1>2, <1>4, <1>5
<1>7. Upto(u \o t, Len(u)) = u
  BY PartsOfConcat
<1> QED BY <1>1, <1>3, <1>6, <1>7, Zenon

LEMMA TrimLeftIs ==
  ASSUME NEW s \in Texts
  PROVE  \E n \in 0..Len(s) : /\ TrimLeft(s) = After(s, n)
                              /\ \A i \in 1..n : s[i] \in Blanks
                              /\ n < Len(s) => s[n + 1] \notin Blanks
<1> DEFINE I == {i \in 1..Len(s) : s[i] \notin Blanks}
           first == IF I # {} THEN Min(I) ELSE 0
<1>1. Len(s) \in Nat
  BY TextLength
<1>2. SelectInSeq(s, LAMBDA c : c \notin Blanks) = first
  BY DEF SelectInSeq
<1>3. TrimLeft(s) = IF first = 0 THEN <<>> ELSE After(s, first - 1)
  <2> HIDE DEF first
  <2> QED BY <1>2 DEF TrimLeft
<1>4. CASE I = {}
  <2>1. After(s, Len(s)) = <<>>
    BY <1>1, PastEnd DEF Texts
  <2>2. TrimLeft(s) = After(s, Len(s)) /\ \A i \in 1..Len(s) : s[i] \in Blanks
    BY <1>3, <1>4, <2>1
  <2> QED BY <1>1, <2>2
<1>5. CASE I # {}
  <2>1. PICK m \in I : \A i \in I : m <= i
    <3>1. I \in SUBSET Nat
      OBVIOUS
    <3> HIDE DEF I
    <3> QED BY <1>5, <3>1, LeastNumber
  <2>2. Min(I) \in I /\ \A i \in I : Min(I) <= i
    <3>1. I \subseteq Int
      OBVIOUS
    <3> HIDE DEF I
    <3> QED BY <2>1, <3>1 DEF Min
  <2>3. first \in I /\ \A i \in I : first <= i
    BY <1>5, <2>2
  <2>4. first - 1 \in 0..Len(s) /\ \A i \in 1..(first - 1) : s[i] \in Blanks
    <3> HIDE DEF first
    <3>1. first \in 1..Len(s)
      BY <2>3
    <3>2. ASSUME NEW i \in 1..(first - 1), s[i] \notin Blanks PROVE FALSE
      <4>1. i \in I /\ i < first
        BY <1>1, <3>1, <3>2
      <4> QED BY <2>3, <3>1, <4>1
    <3> QED BY <1>1, <3>1, <3>2
  <2>5. TrimLeft(s) = After(s, first - 1)
    BY <1>3, <2>3
  <2>6. (first - 1) + 1 = first /\ s[first] \notin Blanks
    <3>1. first \in 1..Len(s) /\ s[first] \notin Blanks
      BY <2>3
    <3> HIDE DEF first
    <3> QED BY <1>1, <3>1
  <2> HIDE DEF first
  <2> QED BY <2>4, <2>5, <2>6
<1> QED BY <1>4, <1>5

----------------------------------------------------------------------------
(* CommentsAreBlanks.                                                      *)

Semicolons == {<<";">>}

LEMMA NoTokens == Tokens[<<>>] = <<>> /\ Stripped[<<>>] = <<>> /\ <<>> \in TokenLists
<1>1. Tokens[<<>>] = TokensStep(Tokens, <<>>) /\ Stripped[<<>>] = StrippedStep(Stripped, <<>>)
  BY NoSymbols, TokensIs, StrippedIs
<1>2. <<>> \in TokenLists
  BY EmptySeq DEF TokenLists
<1> QED BY <1>1, <1>2 DEF TokensStep, StrippedStep

LEMMA SpaceSkipped ==
  ASSUME NEW s \in Texts, s # <<>>, SpaceLength(s) > 0
  PROVE  Tokens[s] = Tokens[After(s, SpaceLength(s))]
<1>1. Tokens[s] = TokensStep(Tokens, s)
  BY TokensIs
<1> QED BY <1>1 DEF TokensStep

LEMMA BlankSkipped ==
  ASSUME NEW c \in Blanks, NEW w \in Texts
  PROVE  <<c>> \o w \in Texts /\ Tokens[<<c>> \o w] = Tokens[w]
<1>1. <<c>> \in Texts /\ <<c>> # <<>> /\ <<c>>[1] = c /\ Len(<<c>>) = 1
  <2>1. c \in Symbols
    BY DEF Symbols
  <2> QED BY <2>1, SingleText
<1> DEFINE z == <<c>> \o w
<1>2. z \in Texts /\ z # <<>> /\ z[1] = c
  BY <1>1, FirstOfJoin
<1>3. After(z, 1) = w
  <2>1. PICK a \in Seq(Symbols), b \in Seq(Symbols) : a = <<c>> /\ b = w
    BY <1>1 DEF Texts
  <2>2. After(a \o b, Len(a)) = b
    BY PartsOfConcat
  <2> QED BY <1>1, <2>1, <2>2, Zenon
<1> HIDE DEF z
<1>4. SpaceLength(z) = 1
  BY <1>2, SpaceIs
<1>5. Tokens[z] = Tokens[After(z, SpaceLength(z))]
  BY <1>2, <1>4, SpaceSkipped
<1>6. Tokens[z] = Tokens[w]
  BY <1>3, <1>4, <1>5, Zenon
<1> QED BY <1>2, <1>6 DEF z

LEMMA BlanksSkipped ==
  ASSUME NEW n \in Nat
  PROVE  \A s \in Texts :
           n <= Len(s) /\ (\A i \in 1..n : s[i] \in Blanks) => Tokens[s] = Tokens[After(s, n)]
<1> DEFINE Skips(k) == \A s \in Texts :
             k <= Len(s) /\ (\A i \in 1..k : s[i] \in Blanks) => Tokens[s] = Tokens[After(s, k)]
           T == {k \in Nat : ~Skips(k)}
<1>1. SUFFICES ASSUME T # {} PROVE FALSE
  OBVIOUS
<1>2. PICK m \in T : \A k \in T : m <= k
  <2>1. T \in SUBSET Nat
    OBVIOUS
  <2> HIDE DEF T
  <2> QED BY <1>1, <2>1, LeastNumber
<1>3. PICK s \in Texts : /\ m <= Len(s) /\ \A i \in 1..m : s[i] \in Blanks
                         /\ Tokens[s] # Tokens[After(s, m)]
  BY <1>2
<1>4. m # 0
  BY <1>3, Whole DEF Texts
<1> DEFINE k == m - 1
           v == After(s, 1)
<1>5. m \in Nat /\ k \in Nat /\ k + 1 = m /\ 1 + k = m /\ Skips(k)
  <2>1. m \in Nat /\ m - 1 \in Nat /\ m - 1 \notin T
    <3>1. m \in Nat
      OBVIOUS
    <3> HIDE DEF T
    <3> QED BY <1>2, <1>4, <3>1
  <2> QED BY <2>1
<1> HIDE DEF T, k
<1>6. Len(s) \in Nat /\ s # <<>> /\ s[1] \in Blanks
  <2>1. Len(s) \in Nat /\ Len(s) # 0 /\ 1 \in 1..m
    BY <1>3, <1>4, <1>5, TextLength
  <2> QED BY <1>3, <2>1, NoSymbols
<1>7. Tokens[s] = Tokens[v]
  <2>1. SpaceLength(s) = 1
    BY <1>6, SpaceIs
  <2>2. Tokens[s] = Tokens[After(s, SpaceLength(s))]
    BY <1>6, <2>1, SpaceSkipped
  <2> QED BY <2>1, <2>2, Zenon
<1>8. v \in Texts /\ Len(v) = Len(s) - 1 /\ \A i \in 1..(Len(s) - 1) : v[i] = s[1 + i]
  <2>1. 1 \in 0..Len(s)
    BY <1>6, TailText
  <2> QED BY <2>1, AfterIs DEF Texts
<1>9. After(v, k) = After(s, m)
  <2>1. 1 \in Nat /\ 1 + k <= Len(s)
    BY <1>3, <1>5
  <2>2. After(After(s, 1), k) = After(s, 1 + k)
    BY <1>5, <2>1, AfterAfter DEF Texts
  <2> QED BY <1>5, <2>2, Zenon
<1> HIDE DEF v
<1>10. k <= Len(v) /\ \A i \in 1..k : v[i] \in Blanks
  <2>1. k <= Len(v)
    BY <1>3, <1>5, <1>6, <1>8
  <2>2. ASSUME NEW i \in 1..k PROVE v[i] \in Blanks
    <3>1. i \in 1..(Len(s) - 1) /\ 1 + i \in 1..m
      BY <1>3, <1>5, <1>6
    <3> QED BY <1>3, <1>8, <3>1
  <2> QED BY <2>1, <2>2
<1>11. Tokens[v] = Tokens[After(v, k)]
  BY <1>5, <1>8, <1>10
<1> QED BY <1>3, <1>7, <1>9, <1>11

LEMMA WellFormedParts ==
  ASSUME NEW x \in Texts \cup {Unterminated}, NEW t \in TokenLists, WellFormed(<<x>> \o t)
  PROVE  Sound(x) /\ WellFormed(t)
<1>1. PICK S : S = Texts \cup {Unterminated}
  OBVIOUS
<1>2. <<x>> \in Seq(S) /\ t \in Seq(S) /\ Len(<<x>>) = 1 /\ <<x>>[1] = x
  BY <1>1 DEF TokenLists
<1>3. /\ <<x>> \o t \in Seq(S) /\ Len(<<x>> \o t) = 1 + Len(t) /\ Len(t) \in Nat
      /\ (<<x>> \o t)[1] = x
      /\ \A i \in 1..Len(t) : (<<x>> \o t)[1 + i] = t[i]
  <2>1. PICK a \in Seq(S) : a = <<x>>
    BY <1>2
  <2>2. /\ a \o t \in Seq(S) /\ Len(a \o t) = Len(a) + Len(t) /\ Len(t) \in Nat /\ Len(a) = 1
        /\ \A i \in 1..Len(a) : (a \o t)[i] = a[i]
        /\ \A i \in 1..Len(t) : (a \o t)[Len(a) + i] = t[i]
        /\ a[1] = x
    BY <1>2, <2>1, ConcatIs
  <2> QED BY <2>1, <2>2
<1>4. PICK z \in Seq(S) : z = <<x>> \o t
  BY <1>3
<1>5. Len(z) = 1 + Len(t) /\ z[1] = x /\ \A i \in 1..Len(t) : z[1 + i] = t[i]
  BY <1>3, <1>4
<1>6. \A i \in 1..Len(z) : Sound(z[i])
  <2>1. WellFormed(z) /\ DOMAIN z = 1..Len(z)
    BY <1>4, LenProperties
  <2> QED BY <2>1 DEF WellFormed, Sound
<1>7. Sound(x)
  <2>1. 1 \in 1..Len(z)
    BY <1>3, <1>5
  <2> QED BY <1>5, <1>6, <2>1
<1>8. \A i \in 1..Len(t) : Sound(t[i])
  <2> TAKE i \in 1..Len(t)
  <2>1. 1 + i \in 1..Len(z)
    BY <1>3, <1>5
  <2> QED BY <1>5, <1>6, <2>1
<1>9. DOMAIN t = 1..Len(t)
  BY <1>2, LenProperties
<1> QED BY <1>7, <1>8, <1>9 DEF WellFormed, Sound

\* The first token of a well formed text.
LEMMA TokenTaken ==
  ASSUME NEW s \in Texts, s # <<>>, ~(SpaceLength(s) > 0), WellFormed(Tokens[s])
  PROVE  LET k == TokenLength(s)
         IN  /\ BeginsWithToken(s, k)
             /\ WellFormed(Tokens[After(s, k)])
             /\ Tokens[s] = <<Upto(s, k)>> \o Tokens[After(s, k)]
<1> DEFINE k == TokenLength(s)
           v == After(s, k)
<1>1. k \in 0..Len(s) /\ SpaceLength(s) \in 0..Len(s) /\ Len(s) \in Nat
  BY TokenRange, SpaceRange, TextLength
<1>2. SpaceLength(s) = 0
  BY <1>1
<1>3. Tokens[s] = IF k = 0 THEN <<Unterminated>> ELSE <<Upto(s, k)>> \o Tokens[v]
  <2>1. Tokens[s] = TokensStep(Tokens, s)
    BY TokensIs
  <2> QED BY <2>1 DEF TokensStep
<1> HIDE DEF k
<1>4. v \in Texts /\ Upto(s, k) \in Texts
  BY <1>1, AfterText, UptoText
<1>5. Tokens[v] \in TokenLists
  <2> HIDE DEF v
  <2> QED BY <1>4, TokensIs
<1>6. k # 0
  <2>1. SUFFICES ASSUME k = 0 PROVE FALSE
    OBVIOUS
  <2>2. Tokens[s] = <<Unterminated>>
    BY <1>3, <2>1
  <2>3. DOMAIN <<Unterminated>> = 1..1 /\ <<Unterminated>>[1] = Unterminated
    OBVIOUS
  <2> QED BY <2>2, <2>3 DEF WellFormed
<1>7. Tokens[s] = <<Upto(s, k)>> \o Tokens[v]
  BY <1>3, <1>6
<1>8. Sound(Upto(s, k)) /\ WellFormed(Tokens[v])
  <2> HIDE DEF v
  <2>1. WellFormed(<<Upto(s, k)>> \o Tokens[v])
    BY <1>7
  <2> QED BY <1>4, <1>5, <2>1, WellFormedParts, Zenon
<1>9. BeginsWithToken(s, k)
  BY <1>2, <1>6, <1>8 DEF BeginsWithToken, k
<1> QED BY <1>7, <1>8, <1>9 DEF k

\* Of all tokens only a semicolon ends with a blank or semicolon.
LEMMA TokenEnd ==
  ASSUME NEW s \in Texts, NEW k, BeginsWithToken(s, k), s[k] \in Trailing
  PROVE  k = 1 /\ Upto(s, k) = <<";">>
<1>1. Len(s) \in Nat /\ k \in 1..Len(s) /\ k \in Nat /\ s # <<>> /\ s[1] \notin Blanks
  BY TokenKind
<1>2. /\ k = IF s[1] \in Quotes THEN SqlClosing[After(s, 1)][s[1]] + 1
             ELSE IF s[1] \in WordSymbols THEN WordLength(s)
             ELSE 1
      /\ s[1] \in Quotes => SqlClosing[After(s, 1)][s[1]] # 0
  BY TokenKind
<1>3. ASSUME s[1] \in Quotes PROVE FALSE
  <2> DEFINE r == After(s, 1)
             c == SqlClosing[r][s[1]]
  <2>1. /\ r \in Texts /\ Len(r) = Len(s) - 1
        /\ \A i \in 1..(Len(s) - 1) : r[i] = s[1 + i]
    <3>1. 1 \in 0..Len(s)
      BY <1>1
    <3> QED BY <3>1, AfterIs DEF Texts
  <2>2. c # 0 /\ k = c + 1
    BY <1>2, <1>3
  <2>3. c \in 1..Len(r) /\ r[c] = s[1]
    <3> HIDE DEF r
    <3>1. SqlClosing[r][s[1]] # 0
      BY <2>2
    <3> QED BY <1>3, <2>1, <3>1, SqlClosingRange
  <2>4. s[k] = s[1]
    <3> HIDE DEF c, r
    <3>1. c \in 1..(Len(s) - 1) /\ 1 + c = k
      BY <2>1, <2>2, <2>3
    <3> QED BY <2>1, <2>3, <3>1
  <2> QED BY <1>3, <2>4 DEF Quotes, Trailing, Blanks
<1>4. ASSUME s[1] \notin Quotes, s[1] \in WordSymbols PROVE FALSE
  <2>1. s[k] \in WordSymbols
    BY <1>1, <1>2, <1>4, WordIs
  <2> QED BY <2>1 DEF WordSymbols, Trailing, Blanks
<1>5. k = 1 /\ s[1] = ";"
  BY <1>1, <1>2, <1>3, <1>4 DEF Trailing
<1> QED BY <1>1, <1>5, FirstOfText

\* Blanks and semicolons hold semicolons only.
LEMMA TrailingTokens == \A t \in Texts : AllIn(t, Trailing) => AllIn(Tokens[t], Semicolons)
<1> DEFINE G == {t \in Texts : AllIn(t, Trailing) => AllIn(Tokens[t], Semicolons)}
<1>1. ASSUME NEW t \in Texts, \A r : Shorter(r, t) => r \in G PROVE t \in G
  <2>1. SUFFICES ASSUME AllIn(t, Trailing) PROVE AllIn(Tokens[t], Semicolons)
    OBVIOUS
  <2>2. CASE t = <<>>
    BY <2>2, NoTokens, NoSymbols DEF AllIn
  <2>3. CASE t # <<>>
    <3> DEFINE v == After(t, 1)
    <3>1. Len(t) \in Nat /\ t[1] \in Trailing /\ v \in Texts /\ t = Upto(t, 1) \o v
      <4>1. Len(t) \in Nat /\ 1 \in 1..Len(t) /\ 1 \in 0..Len(t) /\ v \in Texts
        <5>1. Len(t) \in Nat /\ Len(t) > 0
          BY <2>3, TailText
        <5>2. v \in Texts
          BY <2>3, ShorterAfter DEF Shorter
        <5> HIDE DEF v
        <5> QED BY <5>1, <5>2
      <4>2. Upto(t, 1) \o v = t
        BY <4>1, SplitAt DEF Texts
      <4> QED BY <2>1, <4>1, <4>2 DEF AllIn
    <3>2. AllIn(v, Trailing)
      <4>1. PICK a \in Seq(Symbols) : a = Upto(t, 1)
        BY <2>3, FirstOfText DEF Texts
      <4> HIDE DEF v
      <4>2. AllIn(a \o v, Trailing)
        BY <2>1, <3>1, <4>1
      <4> QED BY <3>1, <4>2, AllInParts DEF Texts
    <3>3. AllIn(Tokens[v], Semicolons)
      <4>1. v \in G
        BY <1>1, <2>3, ShorterAfter
      <4> HIDE DEF v
      <4> QED BY <3>2, <4>1
    <3>4. CASE t[1] \in Blanks
      <4>1. SpaceLength(t) = 1
        BY <2>3, <3>4, SpaceIs
      <4>2. Tokens[t] = Tokens[v]
        BY <2>3, <4>1, SpaceSkipped
      <4> HIDE DEF v
      <4> QED BY <3>3, <4>2
    <3>5. CASE t[1] = ";"
      <4>1. t[1] \notin Blanks /\ t[1] \notin Quotes /\ t[1] \notin WordSymbols
        BY <3>5 DEF Blanks, Quotes, WordSymbols
      <4>2. ~BlockComment(t) /\ ~Begins(t, Minuses) /\ ~SqlLineComment(t)
        BY <3>5, BlockCommentIs, MinusesAre DEF SqlLineComment
      <4>3. SpaceLength(t) = 0 /\ TokenLength(t) = 1
        BY <2>3, <4>1, <4>2, SpaceIs, TokenIs
      <4>4. Tokens[t] = <<Upto(t, 1)>> \o Tokens[v]
        <5>1. Tokens[t] = TokensStep(Tokens, t)
          BY TokensIs
        <5> QED BY <2>3, <4>3, <5>1 DEF TokensStep
      <4>5. Upto(t, 1) = <<";">> /\ Upto(t, 1) \in Texts
        BY <2>3, <3>5, FirstOfText
      <4>6. PICK S : S = Texts \cup {Unterminated}
        OBVIOUS
      <4>7. PICK a \in Seq(S) : a = <<Upto(t, 1)>> /\ Len(a) = 1 /\ a[1] = <<";">>
        BY <4>5, <4>6, SingleToken DEF TokenLists
      <4>8. AllIn(a, Semicolons)
        <5>1. a[1] \in Semicolons
          BY <4>7 DEF Semicolons
        <5>2. Len(a) = 1
          BY <4>7, Zenon
        <5>3. \A i \in 1..Len(a) : i = 1
          BY <5>2
        <5> QED BY <5>1, <5>3 DEF AllIn
      <4>9. Tokens[v] \in Seq(S)
        <5> HIDE DEF v
        <5> QED BY <3>1, <4>6, TokensIs DEF TokenLists
      <4> HIDE DEF v
      <4>10. AllIn(a \o Tokens[v], Semicolons)
        BY <3>3, <4>8, <4>9, AllInJoined
      <4> QED BY <4>4, <4>7, <4>10
    <3> QED BY <3>1, <3>4, <3>5 DEF Trailing
  <2> QED BY <2>2, <2>3
<1>2. Texts \subseteq G
  <2> HIDE DEF G
  <2> QED BY <1>1, TextInduction
<1> QED BY <1>2

\* A text without its comments, however it is split into u and an end t of blanks
\* and semicolons, has the tokens of the two.
SplitTokens(s) ==
  \A u, t \in Texts :
    Stripped[s] = u \o t /\ AllIn(t, Trailing) =>
      /\ Tokens[s] = Tokens[u] \o Tokens[t]
      /\ EndsOutside(u, Trailing) => EndsOutside(Tokens[u], Semicolons)

LEMMA SplitAfterSpace ==
  ASSUME NEW s \in Texts, s # <<>>, SpaceLength(s) > 0,
         SplitTokens(After(s, SpaceLength(s)))
  PROVE  SplitTokens(s)
<1> DEFINE v == After(s, SpaceLength(s))
           r == Stripped[v]
<1>1. v \in Texts /\ r \in Texts
  <2>1. SpaceLength(s) \in Nat
    BY SpaceRange
  <2> QED BY <2>1, AfterText, StrippedIs
<1>2. Tokens[s] = Tokens[v]
  BY SpaceSkipped
<1>3. SUFFICES ASSUME NEW u \in Texts, NEW t \in Texts, Stripped[s] = u \o t, AllIn(t, Trailing)
               PROVE  /\ Tokens[v] = Tokens[u] \o Tokens[t]
                      /\ EndsOutside(u, Trailing) => EndsOutside(Tokens[u], Semicolons)
  BY <1>2 DEF SplitTokens
<1>4. CASE Stripped[s] = r
  BY <1>3, <1>4 DEF SplitTokens
<1>5. ASSUME NEW c \in Blanks, Stripped[s] = <<c>> \o r
      PROVE  /\ Tokens[v] = Tokens[u] \o Tokens[t]
             /\ EndsOutside(u, Trailing) => EndsOutside(Tokens[u], Semicolons)
  <2>1. PICK x \in Texts : x = <<c>> /\ Len(x) = 1 /\ x[1] = c /\ x # <<>>
    <3>1. c \in Symbols
      BY DEF Symbols
    <3>2. <<c>> \in Texts /\ Len(<<c>>) = 1 /\ <<c>>[1] = c /\ <<c>> # <<>>
      BY <3>1, SingleText
    <3> QED BY <3>2
  <2> HIDE DEF r
  <2>2. x \o r = u \o t
    BY <1>3, <1>5, <2>1
  <2>3. CASE u = <<>>
    <3>1. t = x \o r
      BY <2>2, <2>3, JoinEmpty DEF Texts
    <3>2. AllIn(r, Trailing)
      BY <1>1, <1>3, <3>1, AllInParts DEF Texts
    <3>3. <<>> \o r = r /\ <<>> \in Texts
      BY <1>1, JoinEmpty, NoSymbols DEF Texts
    <3>4. Tokens[v] = Tokens[<<>>] \o Tokens[r]
      BY <1>1, <3>2, <3>3 DEF SplitTokens, r
    <3>5. Tokens[t] = Tokens[r]
      BY <1>1, <2>1, <3>1, BlankSkipped
    <3>6. ~EndsOutside(u, Trailing)
      BY <2>3 DEF EndsOutside
    <3> QED BY <2>3, <3>4, <3>5, <3>6
  <2>4. CASE u # <<>>
    <3>1. Len(x) <= Len(u)
      BY <2>1, <2>4, TailText
    <3>2. PICK w \in Texts : u = x \o w /\ r = w \o t
      <4>1. SplitTwice(x, r, u, t)
        BY <2>2, <3>1 DEF SplitTwice
      <4>2. \E w \in Texts : Between(w, x, r, u, t)
        BY <1>1, <4>1, OverlapOfTexts, Zenon
      <4> QED BY <4>2, Zenon DEF Between
    <3>3. /\ Tokens[v] = Tokens[w] \o Tokens[t]
          /\ EndsOutside(w, Trailing) => EndsOutside(Tokens[w], Semicolons)
      BY <1>3, <3>2 DEF SplitTokens, r
    <3>4. Tokens[u] = Tokens[w]
      BY <2>1, <3>2, BlankSkipped
    <3>5. EndsOutside(u, Trailing) => EndsOutside(w, Trailing)
      <4>1. CASE w = <<>>
        <5>1. u = x
          BY <3>2, <4>1, JoinEmpty DEF Texts
        <5>2. u[Len(u)] \in Trailing
          BY <2>1, <5>1 DEF Trailing
        <5> QED BY <5>2 DEF EndsOutside
      <4>2. CASE w # <<>>
        <5>1. u[Len(u)] = w[Len(w)]
          BY <3>2, <4>2, LastOfJoin DEF Texts
        <5> QED BY <4>2, <5>1 DEF EndsOutside
      <4> QED BY <4>1, <4>2
    <3> QED BY <3>3, <3>4, <3>5
  <2> QED BY <2>3, <2>4
<1> QED BY <1>4, <1>5, StripSpace

LEMMA SplitAfterToken ==
  ASSUME NEW s \in Texts, NEW k, BeginsWithToken(s, k),
         Tokens[s] = <<Upto(s, k)>> \o Tokens[After(s, k)],
         SplitTokens(After(s, k))
  PROVE  SplitTokens(s)
<1>1. Len(s) \in Nat /\ k \in 1..Len(s) /\ k \in Nat /\ k \in 0..Len(s)
  BY TokenKind
<1> DEFINE x == Upto(s, k)
           v == After(s, k)
           r == Stripped[v]
<1>2. v \in Texts /\ r \in Texts /\ Follows(r, s, k)
  BY <1>1, AfterText, StrippedIs, StrippedFollows
<1>3. x \in Texts /\ Len(x) = k /\ x # <<>> /\ x[k] = s[k]
  <2>1. x \in Seq(Symbols) /\ Len(x) = k /\ \A i \in 1..k : x[i] = s[i]
    BY <1>1, UptoIs DEF Texts
  <2>2. k \in 1..k
    BY <1>1
  <2> HIDE DEF x
  <2> QED BY <1>1, <2>1, <2>2, NoSymbols DEF Texts
<1>4. Stripped[s] = x \o r
  BY StripToken
<1>5. \A w \in Texts : Follows(w, s, k) => Tokens[x \o w] = <<x>> \o Tokens[w]
  BY TokenFirst
<1>6. SplitTokens(v) /\ Tokens[s] = <<x>> \o Tokens[v]
  OBVIOUS
<1>7. PICK S : S = Texts \cup {Unterminated}
  OBVIOUS
<1>8. <<x>> \in Seq(S) /\ <<x>> # <<>> /\ Len(<<x>>) = 1 /\ <<x>>[1] = x
      /\ \A w \in Texts : Tokens[w] \in Seq(S)
  <2> HIDE DEF x
  <2> QED BY <1>3, <1>7, SingleToken, TokensIs DEF TokenLists
<1>9. x[Len(x)] \in Trailing => x = <<";">>
  BY <1>3, TokenEnd
<1> HIDE DEF x, v
<1>10. SUFFICES ASSUME NEW u \in Texts, NEW t \in Texts, x \o r = u \o t, AllIn(t, Trailing)
                PROVE  /\ <<x>> \o Tokens[v] = Tokens[u] \o Tokens[t]
                       /\ EndsOutside(u, Trailing) => EndsOutside(Tokens[u], Semicolons)
  BY <1>4, <1>6 DEF SplitTokens
<1>11. CASE Len(x) <= Len(u)
  <2>1. PICK w \in Texts : u = x \o w /\ r = w \o t
    <3> HIDE DEF r
    <3>1. SplitTwice(x, r, u, t)
      BY <1>10, <1>11 DEF SplitTwice
    <3>2. \E w \in Texts : Between(w, x, r, u, t)
      BY <1>2, <1>3, <3>1, OverlapOfTexts, Zenon
    <3> QED BY <3>2, Zenon DEF Between
  <2>2. /\ Tokens[v] = Tokens[w] \o Tokens[t]
        /\ EndsOutside(w, Trailing) => EndsOutside(Tokens[w], Semicolons)
    BY <1>2, <1>6, <1>10, <2>1 DEF SplitTokens
  <2>3. Follows(w, s, k)
    <3> HIDE DEF r
    <3>1. w # <<>> => r # <<>> /\ r[1] = w[1]
      BY <2>1, FirstOfJoin
    <3> QED BY <1>2, <3>1 DEF Follows
  <2>4. Tokens[u] = <<x>> \o Tokens[w]
    BY <1>5, <2>1, <2>3
  <2>5. <<x>> \o Tokens[v] = Tokens[u] \o Tokens[t]
    <3>1. PICK a \in Seq(S), b \in Seq(S), c \in Seq(S) : a = <<x>> /\ b = Tokens[w] /\ c = Tokens[t]
      BY <1>8, <1>10, <2>1, Zenon
    <3>2. (a \o b) \o c = a \o (b \o c)
      BY ConcatAssociative
    <3> QED BY <2>2, <2>4, <3>1, <3>2, Zenon
  <2>6. ASSUME EndsOutside(u, Trailing) PROVE EndsOutside(Tokens[u], Semicolons)
    <3>1. CASE w = <<>>
      <4>1. u = x
        BY <1>3, <2>1, <3>1, JoinEmpty DEF Texts
      <4>2. x # <<";">>
        <5>1. x[Len(x)] \notin Trailing
          BY <2>6, <4>1 DEF EndsOutside
        <5>2. <<";">>[Len(<<";">>)] \in Trailing
          BY DEF Trailing
        <5> QED BY <5>1, <5>2
      <4>3. Tokens[u] = <<x>>
        <5>1. <<x>> \o <<>> = <<x>>
          BY <1>8, JoinEmpty
        <5> QED BY <2>4, <3>1, <5>1, NoTokens
      <4> QED BY <1>8, <4>2, <4>3 DEF EndsOutside, Semicolons
    <3>2. CASE w # <<>>
      <4>1. u[Len(u)] = w[Len(w)]
        BY <1>3, <2>1, <3>2, LastOfJoin DEF Texts
      <4>2. EndsOutside(Tokens[w], Semicolons)
        BY <2>2, <2>6, <3>2, <4>1 DEF EndsOutside
      <4>3. Tokens[w] # <<>> /\ Tokens[w][Len(Tokens[w])] \notin Semicolons
        BY <4>2 DEF EndsOutside
      <4>4. PICK a \in Seq(S), b \in Seq(S) : a = <<x>> /\ b = Tokens[w]
        BY <1>8, <2>1, Zenon
      <4>5. a \o b # <<>> /\ (a \o b)[Len(a \o b)] = b[Len(b)]
        BY <4>3, <4>4, LastOfJoin
      <4> QED BY <2>4, <4>3, <4>4, <4>5, Zenon DEF EndsOutside
    <3> QED BY <3>1, <3>2
  <2> QED BY <2>5, <2>6
<1>12. CASE ~(Len(x) <= Len(u))
  <2>1. Len(u) <= Len(x) /\ Len(u) \in Nat /\ Len(x) \in Nat /\ Len(u) < Len(x)
    BY <1>3, <1>12, TextLength
  <2>2. PICK w \in Texts : x = u \o w /\ t = w \o r
    <3> HIDE DEF r
    <3>1. SplitTwice(u, t, x, r)
      BY <1>10, <2>1 DEF SplitTwice
    <3>2. \E w \in Texts : Between(w, u, t, x, r)
      BY <1>2, <1>3, <3>1, OverlapOfTexts, Zenon
    <3> QED BY <3>2, Zenon DEF Between
  <2>3. w # <<>>
    <3>1. SUFFICES ASSUME w = <<>> PROVE FALSE
      OBVIOUS
    <3>2. x = u
      BY <2>2, <3>1, JoinEmpty DEF Texts
    <3> QED BY <2>1, <3>2
  <2>4. AllIn(w, Trailing) /\ AllIn(r, Trailing)
    <3> HIDE DEF r
    <3> QED BY <1>2, <1>10, <2>2, AllInParts DEF Texts
  <2>5. x[Len(x)] = w[Len(w)] /\ w[Len(w)] \in Trailing
    <3>1. x[Len(x)] = w[Len(w)]
      BY <2>2, <2>3, LastOfJoin DEF Texts
    <3>2. Len(w) \in 1..Len(w)
      BY <2>3, TailText
    <3> QED BY <2>4, <3>1, <3>2 DEF AllIn
  <2>6. Len(x) = 1
    <3>1. x = <<";">>
      BY <1>9, <2>5
    <3>2. Len(<<";">>) = 1
      OBVIOUS
    <3> QED BY <3>1, <3>2, Zenon
  <2>7. u = <<>>
    BY <2>1, <2>6, TextLength
  <2>8. t = x \o r
    BY <1>10, <2>7, JoinEmpty DEF Texts
  <2>9. Tokens[t] = <<x>> \o Tokens[r]
    BY <1>2, <1>5, <2>8
  <2>10. Tokens[v] = Tokens[<<>>] \o Tokens[r]
    <3>1. <<>> \o r = r /\ <<>> \in Texts
      BY <1>2, JoinEmpty, NoSymbols DEF Texts
    <3> QED BY <1>2, <1>6, <2>4, <3>1 DEF SplitTokens
  <2>11. <<>> \o Tokens[r] = Tokens[r] /\ <<>> \o (<<x>> \o Tokens[r]) = <<x>> \o Tokens[r]
    <3> HIDE DEF r
    <3>1. PICK a \in Seq(S), b \in Seq(S) : a = <<x>> /\ b = Tokens[r]
      BY <1>2, <1>8, Zenon
    <3>2. <<>> \o b = b /\ <<>> \o (a \o b) = a \o b
      BY JoinEmpty, ConcatIs
    <3> QED BY <3>1, <3>2, Zenon
  <2>12. ~EndsOutside(u, Trailing)
    BY <2>7 DEF EndsOutside
  <2> HIDE DEF r
  <2> QED BY <2>7, <2>9, <2>10, <2>11, <2>12, NoTokens, Zenon
<1> QED BY <1>11, <1>12

LEMMA TokensKept == \A s \in Texts : WellFormed(Tokens[s]) => SplitTokens(s)
<1> DEFINE G == {s \in Texts : WellFormed(Tokens[s]) => SplitTokens(s)}
<1>1. ASSUME NEW s \in Texts, \A r : Shorter(r, s) => r \in G PROVE s \in G
  <2>1. SUFFICES ASSUME WellFormed(Tokens[s]) PROVE SplitTokens(s)
    OBVIOUS
  <2>2. CASE s = <<>>
    <3>1. SUFFICES ASSUME NEW u \in Texts, NEW t \in Texts, u \o t = <<>>
                   PROVE  /\ Tokens[s] = Tokens[u] \o Tokens[t]
                          /\ EndsOutside(u, Trailing) => EndsOutside(Tokens[u], Semicolons)
      BY <2>2, NoTokens DEF SplitTokens
    <3>2. Len(u \o t) = 0 /\ Len(u \o t) = Len(u) + Len(t) /\ Len(u) \in Nat /\ Len(t) \in Nat
      BY <3>1, NoSymbols, JoinedText, TextLength
    <3>3. u = <<>> /\ t = <<>>
      BY <3>2, TextLength
    <3>4. Tokens[s] = Tokens[u] \o Tokens[t]
      BY <2>2, <3>1, <3>3, NoTokens
    <3> QED BY <3>3, <3>4 DEF EndsOutside
  <2>3. CASE s # <<>> /\ SpaceLength(s) > 0
    <3> DEFINE n == SpaceLength(s)
    <3>1. n \in Nat \ {0}
      BY <2>3, SpaceRange
    <3>2. Shorter(After(s, n), s)
      <4> HIDE DEF n
      <4> QED BY <2>3, <3>1, ShorterAfter
    <3>3. WellFormed(Tokens[After(s, n)])
      BY <2>1, <2>3, SpaceSkipped
    <3>4. SplitTokens(After(s, n))
      <4> HIDE DEF n
      <4> QED BY <1>1, <3>2, <3>3
    <3> QED BY <2>3, <3>4, SplitAfterSpace
  <2>4. CASE s # <<>> /\ ~(SpaceLength(s) > 0)
    <3> DEFINE k == TokenLength(s)
    <3>1. /\ BeginsWithToken(s, k)
          /\ WellFormed(Tokens[After(s, k)])
          /\ Tokens[s] = <<Upto(s, k)>> \o Tokens[After(s, k)]
      BY <2>1, <2>4, TokenTaken
    <3> HIDE DEF k
    <3>2. k \in Nat \ {0}
      BY <3>1, TokenKind
    <3>3. Shorter(After(s, k), s)
      BY <2>4, <3>2, ShorterAfter
    <3>4. SplitTokens(After(s, k))
      BY <1>1, <3>1, <3>3
    <3> QED BY <3>1, <3>4, SplitAfterToken
  <2> QED BY <2>2, <2>3, <2>4
<1>2. Texts \subseteq G
  <2> HIDE DEF G
  <2> QED BY <1>1, TextInduction
<1> QED BY <1>2

LEMMA CleanedKeepsTokens ==
  ASSUME NEW s \in Texts, WellFormed(Tokens[s])
  PROVE  /\ Cleaned(Stripped[s]) \in Texts
         /\ Tokens[Cleaned(Stripped[s])] = TrimRight(Tokens[s], Semicolons)
<1>1. PICK r \in Texts : r = Stripped[s]
  BY StrippedIs
<1>2. PICK n \in 0..Len(r) : TrimLeft(r) = After(r, n) /\ \A i \in 1..n : r[i] \in Blanks
  BY TrimLeftIs
<1>3. Len(r) \in Nat /\ n \in Nat
  BY TextLength
<1>4. PICK b \in Texts : b = Upto(r, n) /\ Len(b) = n /\ \A i \in 1..n : b[i] = r[i]
  BY FrontOfText
<1>5. PICK l \in Texts : l = After(r, n)
  BY AfterIs DEF Texts
<1>6. r = b \o l
  BY <1>4, <1>5, SplitAt DEF Texts
<1>7. PICK m \in 0..Len(l) : /\ TrimRight(l, Trailing) = Upto(l, m)
                             /\ m > 0 => l[m] \notin Trailing
                             /\ AllIn(After(l, m), Trailing)
  BY TrimRightIs DEF Texts
<1>8. PICK c \in Texts : c = Upto(l, m) /\ Len(c) = m /\ \A i \in 1..m : c[i] = l[i]
  BY FrontOfText
<1>9. PICK t \in Texts : t = After(l, m)
  BY AfterIs DEF Texts
<1>10. l = c \o t
  BY <1>8, <1>9, SplitAt DEF Texts
<1>11. Cleaned(Stripped[s]) = c
  BY <1>1, <1>2, <1>5, <1>7, <1>8 DEF Cleaned, Trailing
<1>12. PICK u \in Texts : u = b \o c
  BY JoinedText
<1>13. r = u \o t
  <2>1. (b \o c) \o t = b \o (c \o t)
    <3>1. PICK x \in Seq(Symbols), y \in Seq(Symbols), z \in Seq(Symbols) : x = b /\ y = c /\ z = t
      BY DEF Texts
    <3>2. (x \o y) \o z = x \o (y \o z)
      BY ConcatAssociative
    <3> QED BY <3>1, <3>2, Zenon
  <2> QED BY <1>6, <1>10, <1>12, <2>1, Zenon
<1>14. /\ Tokens[s] = Tokens[u] \o Tokens[t]
       /\ EndsOutside(u, Trailing) => EndsOutside(Tokens[u], Semicolons)
  <2>1. SplitTokens(s)
    BY TokensKept
  <2> QED BY <1>1, <1>7, <1>9, <1>13, <2>1 DEF SplitTokens
<1>15. Tokens[u] = Tokens[c]
  <2>1. n <= Len(u) /\ \A i \in 1..n : u[i] \in Blanks
    <3>1. /\ Len(u) = Len(b) + Len(c) /\ Len(c) \in Nat
          /\ \A i \in 1..Len(b) : u[i] = b[i]
      BY <1>12, ConcatIs DEF Texts
    <3> QED BY <1>2, <1>3, <1>4, <3>1
  <2>2. Tokens[u] = Tokens[After(u, n)]
    BY <1>3, <2>1, BlanksSkipped
  <2>3. After(u, n) = c
    <3>1. After(b \o c, Len(b)) = c
      BY PartsOfConcat DEF Texts
    <3> QED BY <1>4, <1>12, <3>1, Zenon
  <2> QED BY <2>2, <2>3
<1>16. c = <<>> \/ EndsOutside(u, Trailing)
  <2>1. SUFFICES ASSUME c # <<>> PROVE EndsOutside(u, Trailing)
    OBVIOUS
  <2>2. u # <<>> /\ u[Len(u)] = c[Len(c)]
    BY <1>12, <2>1, LastOfJoin DEF Texts
  <2>3. m > 0 /\ m \in 1..m
    BY <1>8, <2>1, TailText
  <2>4. c[Len(c)] \notin Trailing
    BY <1>7, <1>8, <2>3
  <2> QED BY <2>2, <2>4 DEF EndsOutside
<1>17. Tokens[c] = <<>> \/ EndsOutside(Tokens[c], Semicolons)
  BY <1>14, <1>15, <1>16, NoTokens
<1>18. AllIn(Tokens[t], Semicolons)
  BY <1>7, <1>9, TrailingTokens
<1>19. Tokens[c] \in TokenLists /\ Tokens[t] \in TokenLists
  BY TokensIs
<1>20. TrimRight(Tokens[c] \o Tokens[t], Semicolons) = Tokens[c]
  BY <1>17, <1>18, <1>19, TrimRightOfJoin DEF TokenLists
<1> QED BY <1>11, <1>14, <1>15, <1>20

TextInv == query \in Texts /\ (phase # "received" => text = Cleaned(StripSQLComments(query)))

\* What the rest of the program is given is what is left of the query.
THEOREM TextOfQuery == Spec => []TextInv
<1>1. Init => TextInv
  BY QueriesAssumption DEF Init, TextInv
<1>2. TextInv /\ [Next]_vars => TextInv'
  BY DEF TextInv, Next, vars, HandleQuery, HandleMeta, SystemSelect
<1> QED BY <1>1, <1>2, PTL DEF Spec

\* Taking comments out of any text, whatever its length, changes no token of the
\* statement (handler.go stripSQLComments, HandleQuery).
THEOREM CommentsNeverMatter == Spec => []CommentsAreBlanks
<1>1. TextInv => CommentsAreBlanks
  BY CleanedKeepsTokens DEF TextInv, CommentsAreBlanks, StripSQLComments, Sql, Semicolons
<1> QED BY <1>1, TextOfQuery, PTL

----------------------------------------------------------------------------
(* Texts without comments.                                                 *)

\* Nothing is left to take out of s.
NoComments(s) == Stripped[s] = s

\* No comment begins at the front, and none behind what is copied.
LEMMA NoCommentsIs ==
  ASSUME NEW s \in Texts, s # <<>>, NoComments(s)
  PROVE  /\ ~BlockComment(s) /\ ~LineComment(s)
         /\ NoComments(After(s, CopyLength(s)))
<1>1. Len(s) \in Nat /\ Len(s) > 0 /\ Stripped[s] = StrippedStep(Stripped, s)
  BY TailText, StrippedIs
<1>2. ASSUME BlockComment(s) PROVE FALSE
  <2>1. Stripped[s] = IF BlockEnd(s) = 0 THEN <<>> ELSE <<" ">> \o Stripped[After(s, BlockEnd(s) + 1)]
    BY <1>1, <1>2 DEF StrippedStep, BlockEnd
  <2>2. Stripped[s] = <<" ">> \o Stripped[After(s, BlockEnd(s) + 1)]
    BY <2>1 DEF NoComments
  <2>3. PICK w \in Texts : w = Stripped[After(s, BlockEnd(s) + 1)]
    <3>1. BlockEnd(s) + 1 \in Nat
      BY <1>1, BlockEndIs
    <3>2. After(s, BlockEnd(s) + 1) \in Texts
      BY <3>1, AfterText
    <3> QED BY <3>2, StrippedIs
  <2>4. (<<" ">> \o w)[1] = <<" ">>[1]
    BY BlankText, NoSymbols, FirstOfJoin
  <2>5. s[1] = " "
    BY <2>2, <2>3, <2>4 DEF NoComments
  <2> QED BY <1>2, <2>5, BlockCommentIs
<1>3. ASSUME ~BlockComment(s), LineComment(s) PROVE FALSE
  <2>1. Stripped[s] = IF LineEnd(s) = 0 THEN <<>> ELSE Stripped[After(s, LineEnd(s) - 1)]
    BY <1>1, <1>3 DEF StrippedStep, LineEnd
  <2>2. LineEnd(s) # 0 /\ Stripped[s] = Stripped[After(s, LineEnd(s) - 1)]
    BY <2>1 DEF NoComments
  <2>3. LineEnd(s) \in 2..Len(s) /\ s[LineEnd(s)] = "\n"
    BY <1>3, <2>2, LineCommentEnd
  <2> DEFINE n == LineEnd(s) - 1
             v == After(s, n)
  <2>4. n \in 0..Len(s) /\ n \in Nat /\ 1 \in 1..(Len(s) - n) /\ n + 1 = LineEnd(s)
    BY <1>1, <2>3
  <2>5. v \in Seq(Symbols) /\ Len(v) = Len(s) - n /\ v[1] = "\n"
    <3> HIDE DEF n
    <3>1. /\ v \in Seq(Symbols) /\ Len(v) = Len(s) - n
          /\ \A i \in 1..(Len(s) - n) : v[i] = s[n + i]
      BY <2>4, AfterIs DEF Texts
    <3> HIDE DEF v
    <3>2. v[1] = s[n + 1]
      BY <2>4, <3>1
    <3> QED BY <2>3, <2>4, <3>1, <3>2
  <2>6. v \in Texts /\ v # <<>> /\ v[1] \in Blanks
    <3> HIDE DEF n, v
    <3> QED BY <1>1, <2>4, <2>5, NoSymbols DEF Texts, Blanks
  <2>7. Stripped[v] = s
    BY <2>2 DEF NoComments
  <2> HIDE DEF v
  <2>8. s[1] \in Blanks
    BY <2>6, <2>7, StripHead
  <2>9. s[1] = "-" \/ s[1] = "#"
    BY <1>3, LineCommentIs
  <2> QED BY <2>8, <2>9 DEF Blanks
<1>4. NoComments(After(s, CopyLength(s)))
  <2>1. Stripped[s] = Upto(s, CopyLength(s)) \o Stripped[After(s, CopyLength(s))]
    BY <1>1, <1>2, <1>3 DEF StrippedStep
  <2> DEFINE n == CopyLength(s)
  <2>2. n \in 0..Len(s) /\ n \in Nat
    BY <1>1, CopyRange
  <2> HIDE DEF n
  <2>3. Upto(s, n) \o After(s, n) = s
    BY <2>2, SplitAt DEF Texts
  <2>4. PICK x \in Seq(Symbols), v \in Seq(Symbols), w \in Seq(Symbols) :
          x = Upto(s, n) /\ v = After(s, n) /\ w = Stripped[After(s, n)]
    <3>1. Upto(s, n) \in Seq(Symbols) /\ After(s, n) \in Texts
      BY <2>2, UptoText, AfterText DEF Texts
    <3> QED BY <3>1, StrippedIs DEF Texts
  <2>5. x \o v = x \o w
    BY <2>1, <2>3, <2>4 DEF NoComments, n
  <2>6. v = w
    BY <2>5, CancelLeft
  <2> QED BY <2>4, <2>6 DEF NoComments, n
<1> QED BY <1>2, <1>3, <1>4

LEMMA TokenCopied ==
  ASSUME NEW s \in Texts, NEW k, BeginsWithToken(s, k), NEW w \in Texts, Follows(w, s, k)
  PROVE  Stripped[Upto(s, k) \o w] = Upto(s, k) \o Stripped[w]
<1> DEFINE z == Upto(s, k) \o w
<1>1. z \in Texts /\ BeginsWithToken(z, k) /\ Upto(z, k) = Upto(s, k) /\ After(z, k) = w
  BY TokenStays
<1> HIDE DEF z
<1>2. Stripped[z] = Upto(z, k) \o Stripped[After(z, k)]
  BY <1>1, StripToken
<1> QED BY <1>1, <1>2, Zenon DEF z

\* Comments are all gone at once: taking out one does not make another.
LEMMA StrippedOnce == \A s \in Texts : WellFormed(Tokens[s]) => NoComments(Stripped[s])
<1> DEFINE G == {s \in Texts : WellFormed(Tokens[s]) => NoComments(Stripped[s])}
<1>1. ASSUME NEW s \in Texts, \A r : Shorter(r, s) => r \in G PROVE s \in G
  <2>1. SUFFICES ASSUME WellFormed(Tokens[s]) PROVE NoComments(Stripped[s])
    OBVIOUS
  <2>2. CASE s = <<>>
    BY <2>2, NoTokens DEF NoComments
  <2>3. CASE s # <<>> /\ SpaceLength(s) > 0
    <3> DEFINE n == SpaceLength(s)
               r == Stripped[After(s, n)]
    <3>1. n \in Nat \ {0}
      BY <2>3, SpaceRange
    <3>2. Shorter(After(s, n), s)
      <4> HIDE DEF n
      <4> QED BY <2>3, <3>1, ShorterAfter
    <3>3. WellFormed(Tokens[After(s, n)])
      BY <2>1, <2>3, SpaceSkipped
    <3>4. NoComments(r)
      <4> HIDE DEF n
      <4> QED BY <1>1, <3>2, <3>3
    <3>5. r \in Texts
      <4> HIDE DEF n
      <4> QED BY <3>2, StrippedIs DEF Shorter
    <3>6. CASE Stripped[s] = r
      BY <3>4, <3>6
    <3>7. CASE \E c \in Blanks : Stripped[s] = <<c>> \o r
      <4>1. PICK c \in Blanks : Stripped[s] = <<c>> \o r
        BY <3>7
      <4> HIDE DEF r
      <4>2. /\ <<c>> \in Texts /\ <<c>> # <<>> /\ <<c>>[1] = c /\ Len(<<c>>) = 1
            /\ <<c>> \o r \in Texts /\ <<c>> \o r # <<>> /\ (<<c>> \o r)[1] = c
        <5>1. <<c>> \in Texts /\ <<c>> # <<>> /\ <<c>>[1] = c /\ Len(<<c>>) = 1
          BY SingleText DEF Symbols
        <5> QED BY <3>5, <5>1, FirstOfJoin
      <4>3. After(<<c>> \o r, 1) = r
        <5>1. PICK a \in Seq(Symbols), b \in Seq(Symbols) : a = <<c>> /\ b = r
          BY <3>5, <4>2 DEF Texts
        <5>2. After(a \o b, Len(a)) = b
          BY PartsOfConcat
        <5> QED BY <4>2, <5>1, <5>2, Zenon
      <4>4. Stripped[<<c>> \o r] = <<c>> \o Stripped[r]
        BY <4>2, <4>3, CopiedSymbol
      <4>5. Stripped[<<c>> \o r] = <<c>> \o r
        BY <3>4, <4>4 DEF NoComments
      <4> QED BY <4>1, <4>5 DEF NoComments
    <3> HIDE DEF r
    <3>8. Stripped[s] = r \/ \E c \in Blanks : Stripped[s] = <<c>> \o r
      BY <2>3, StripSpace DEF r
    <3> QED BY <3>6, <3>7, <3>8
  <2>4. CASE s # <<>> /\ ~(SpaceLength(s) > 0)
    <3> DEFINE k == TokenLength(s)
    <3>1. BeginsWithToken(s, k) /\ WellFormed(Tokens[After(s, k)])
      BY <2>1, <2>4, TokenTaken
    <3> HIDE DEF k
    <3>2. k \in Nat \ {0} /\ k \in 1..Len(s)
      BY <3>1, TokenKind
    <3>3. Shorter(After(s, k), s)
      BY <2>4, <3>2, ShorterAfter
    <3>4. NoComments(Stripped[After(s, k)])
      BY <1>1, <3>1, <3>3
    <3>5. Stripped[s] = Upto(s, k) \o Stripped[After(s, k)]
      BY <3>1, StripToken
    <3>6. PICK w \in Texts : w = Stripped[After(s, k)]
      BY <3>3, StrippedIs DEF Shorter
    <3>7. Follows(w, s, k)
      BY <3>2, <3>6, StrippedFollows
    <3>8. Stripped[Upto(s, k) \o w] = Upto(s, k) \o Stripped[w]
      BY <3>1, <3>7, TokenCopied
    <3> QED BY <3>4, <3>5, <3>6, <3>8 DEF NoComments
  <2> QED BY <2>2, <2>3, <2>4
<1>2. Texts \subseteq G
  <2> HIDE DEF G
  <2> QED BY <1>1, TextInduction
<1> QED BY <1>2

\* A text without comments still has none if its end is cut off, be it in a token.
LEMMA NoCommentsBefore ==
  \A u \in Texts : \A t \in Texts :
    NoComments(u \o t) /\ AllIn(t, Trailing) /\ WellFormed(Tokens[u]) => NoComments(u)
<1> DEFINE G == {u \in Texts : \A t \in Texts :
                   NoComments(u \o t) /\ AllIn(t, Trailing) /\ WellFormed(Tokens[u]) => NoComments(u)}
<1>1. ASSUME NEW u \in Texts, \A r : Shorter(r, u) => r \in G PROVE u \in G
  <2>1. SUFFICES ASSUME NEW t \in Texts, NoComments(u \o t), AllIn(t, Trailing), WellFormed(Tokens[u])
                 PROVE  NoComments(u)
    OBVIOUS
  <2>2. CASE u = <<>>
    BY <2>2, NoTokens DEF NoComments
  <2>3. CASE u # <<>>
    <3>1. PICK z \in Texts : z = u \o t
      BY JoinedText
    <3>2. /\ Len(u) \in Nat /\ Len(u) > 0 /\ Len(t) \in Nat /\ Len(z) = Len(u) + Len(t)
          /\ \A i \in 1..Len(u) : z[i] = u[i]
          /\ z # <<>>
      <4>1. Len(u) \in Nat /\ Len(u) > 0
        BY <2>3, TailText
      <4>2. Len(z) = Len(u) + Len(t) /\ Len(t) \in Nat /\ \A i \in 1..Len(u) : z[i] = u[i]
        BY <3>1, ConcatIs DEF Texts
      <4> QED BY <4>1, <4>2, NoSymbols
    <3>3. ~BlockComment(z) /\ ~LineComment(z) /\ NoComments(After(z, CopyLength(z)))
      BY <2>1, <3>1, <3>2, NoCommentsIs
    <3>4. z[1] = u[1] /\ (Len(u) > 1 => z[2] = u[2] /\ Len(z) > 1)
      BY <3>2
    <3>5. ~BlockComment(u) /\ ~LineComment(u)
      BY <3>3, <3>4, BlockCommentIs, LineCommentIs
    <3>6. CASE SpaceLength(u) > 0
      <4>1. u[1] \in Blanks /\ SpaceLength(u) = 1
        <5>1. ~SqlLineComment(u)
          BY <3>5, MinusesAre, LineCommentIs DEF SqlLineComment
        <5> QED BY <2>3, <3>5, <3>6, <5>1, SpaceIs
      <4> DEFINE v == After(u, 1)
      <4>2. v \in Texts /\ Shorter(v, u) /\ 1 \in 0..Len(u)
        <5>1. 1 \in Nat \ {0}
          OBVIOUS
        <5> QED BY <2>3, <3>2, <5>1, ShorterAfter DEF Shorter
      <4>3. WellFormed(Tokens[v])
        BY <2>1, <2>3, <3>6, <4>1, SpaceSkipped
      <4>4. NoComments(v \o t)
        <5>1. CopyLength(z) = 1
          BY <3>4, <4>1 DEF CopyLength, Blanks, Quotes
        <5>2. After(u \o t, 1) = After(u, 1) \o t
          BY <4>2, AfterConcat DEF Texts
        <5> QED BY <3>1, <3>3, <5>1, <5>2, Zenon
      <4> HIDE DEF v
      <4>5. NoComments(v)
        BY <1>1, <2>1, <4>2, <4>3, <4>4
      <4>6. Stripped[u] = <<u[1]>> \o Stripped[v]
        BY <2>3, <4>1, CopiedSymbol DEF v
      <4>7. <<u[1]>> \o v = u
        <5>1. Upto(u, 1) \o After(u, 1) = u
          BY <4>2, SplitAt DEF Texts
        <5>2. Upto(u, 1) = <<u[1]>>
          BY <2>3, FirstOfText
        <5> QED BY <5>1, <5>2, Zenon DEF v
      <4> QED BY <4>5, <4>6, <4>7, Zenon DEF NoComments
    <3>7. CASE ~(SpaceLength(u) > 0)
      <4> DEFINE k == TokenLength(u)
      <4>1. BeginsWithToken(u, k) /\ WellFormed(Tokens[After(u, k)])
        BY <2>1, <2>3, <3>7, TokenTaken
      <4> HIDE DEF k
      <4>2. k \in Nat \ {0} /\ k \in 1..Len(u) /\ k \in 0..Len(u)
        BY <3>2, <4>1, TokenKind
      <4> DEFINE v == After(u, k)
      <4>3. Shorter(v, u) /\ v \in Texts
        BY <2>3, <4>2, ShorterAfter DEF Shorter
      <4>4. v \in Seq(Symbols) /\ Len(v) = Len(u) - k /\ \A i \in 1..(Len(u) - k) : v[i] = u[k + i]
        BY <4>2, AfterIs DEF Texts
      <4> HIDE DEF v
      <4>5. PICK w \in Texts : w = v \o t
        BY <4>3, JoinedText
      <4>6. Follows(w, u, k)
        <5>1. CASE v = <<>>
          <6>1. w = t
            BY <4>5, <5>1, JoinEmpty DEF Texts
          <6>2. t # <<>> => t[1] \in Trailing
            <7>1. t # <<>> => 1 \in 1..Len(t)
              BY TailText
            <7> QED BY <2>1, <7>1 DEF AllIn
          <6> QED BY <6>1, <6>2 DEF Follows
        <5>2. CASE v # <<>>
          <6>1. w[1] = v[1] /\ Len(v) > 0
            BY <4>3, <4>5, <5>2, FirstOfJoin, TailText
          <6>2. k < Len(u) /\ v[1] = u[k + 1]
            BY <3>2, <4>2, <4>4, <6>1
          <6> QED BY <6>1, <6>2 DEF Follows
        <5> QED BY <5>1, <5>2
      <4>7. PICK x \in Seq(Symbols) : x = Upto(u, k)
        BY <4>2, UptoText DEF Texts
      <4>8. u = x \o v /\ z = x \o w
        <5>1. u = x \o v
          BY <4>2, <4>7, SplitAt DEF Texts, v
        <5>2. (x \o v) \o t = x \o (v \o t)
          <6>1. PICK a \in Seq(Symbols), b \in Seq(Symbols) : a = v /\ b = t
            BY <4>4 DEF Texts
          <6>2. (x \o a) \o b = x \o (a \o b)
            BY ConcatAssociative
          <6> QED BY <6>1, <6>2, Zenon
        <5> QED BY <3>1, <4>5, <5>1, <5>2, Zenon
      <4>9. Stripped[z] = x \o Stripped[w]
        <5>1. Stripped[Upto(u, k) \o w] = Upto(u, k) \o Stripped[w]
          BY <4>1, <4>6, TokenCopied
        <5> QED BY <4>7, <4>8, <5>1, Zenon
      <4>10. NoComments(w)
        <5>1. PICK y \in Seq(Symbols), y1 \in Seq(Symbols) : y = w /\ y1 = Stripped[w]
          BY StrippedIs DEF Texts
        <5>2. x \o y = x \o y1
          <6>1. Stripped[z] = z
            BY <2>1, <3>1 DEF NoComments
          <6> QED BY <4>8, <4>9, <5>1, <6>1, Zenon
        <5>3. y = y1
          BY <5>2, CancelLeft
        <5> QED BY <5>1, <5>3 DEF NoComments
      <4>11. NoComments(v)
        BY <1>1, <2>1, <4>1, <4>3, <4>5, <4>10 DEF v
      <4>12. Stripped[u] = x \o Stripped[v]
        BY <4>1, <4>7, StripToken DEF v
      <4> QED BY <4>8, <4>11, <4>12, Zenon DEF NoComments
    <3> QED BY <3>6, <3>7
  <2> QED BY <2>2, <2>3
<1>2. Texts \subseteq G
  <2> HIDE DEF G
  <2> QED BY <1>1, TextInduction
<1> QED BY <1>2

LEMMA NoCommentsBehind ==
  ASSUME NEW n \in Nat
  PROVE  \A s \in Texts :
           NoComments(s) /\ n <= Len(s) /\ (\A i \in 1..n : s[i] \in Blanks) => NoComments(After(s, n))
<1> DEFINE Keeps(k) == \A s \in Texts :
             NoComments(s) /\ k <= Len(s) /\ (\A i \in 1..k : s[i] \in Blanks) => NoComments(After(s, k))
           T == {k \in Nat : ~Keeps(k)}
<1>1. SUFFICES ASSUME T # {} PROVE FALSE
  OBVIOUS
<1>2. PICK m \in T : \A k \in T : m <= k
  <2>1. T \in SUBSET Nat
    OBVIOUS
  <2> HIDE DEF T
  <2> QED BY <1>1, <2>1, LeastNumber
<1>3. PICK s \in Texts : /\ NoComments(s) /\ m <= Len(s) /\ \A i \in 1..m : s[i] \in Blanks
                         /\ ~NoComments(After(s, m))
  BY <1>2
<1>4. m # 0
  BY <1>3, Whole DEF Texts
<1> DEFINE k == m - 1
           v == After(s, 1)
<1>5. m \in Nat /\ k \in Nat /\ k + 1 = m /\ 1 + k = m /\ Keeps(k)
  <2>1. m \in Nat /\ m - 1 \in Nat /\ m - 1 \notin T
    <3>1. m \in Nat
      OBVIOUS
    <3> HIDE DEF T
    <3> QED BY <1>2, <1>4, <3>1
  <2> QED BY <2>1
<1> HIDE DEF T, k
<1>6. Len(s) \in Nat /\ s # <<>> /\ s[1] \in Blanks
  <2>1. Len(s) \in Nat /\ Len(s) # 0 /\ 1 \in 1..m
    BY <1>3, <1>4, <1>5, TextLength
  <2> QED BY <1>3, <2>1, NoSymbols
<1>7. NoComments(v)
  <2>1. CopyLength(s) = 1
    BY <1>6 DEF CopyLength, Blanks, Quotes
  <2> QED BY <1>3, <1>6, <2>1, NoCommentsIs
<1>8. v \in Texts /\ Len(v) = Len(s) - 1 /\ \A i \in 1..(Len(s) - 1) : v[i] = s[1 + i]
  <2>1. 1 \in 0..Len(s)
    BY <1>6, TailText
  <2> QED BY <2>1, AfterIs DEF Texts
<1>9. After(v, k) = After(s, m)
  <2>1. 1 \in Nat /\ 1 + k <= Len(s)
    BY <1>3, <1>5
  <2>2. After(After(s, 1), k) = After(s, 1 + k)
    BY <1>5, <2>1, AfterAfter DEF Texts
  <2> QED BY <1>5, <2>2, Zenon
<1> HIDE DEF v
<1>10. k <= Len(v) /\ \A i \in 1..k : v[i] \in Blanks
  <2>1. k <= Len(v)
    BY <1>3, <1>5, <1>6, <1>8
  <2>2. ASSUME NEW i \in 1..k PROVE v[i] \in Blanks
    <3>1. i \in 1..(Len(s) - 1) /\ 1 + i \in 1..m
      BY <1>3, <1>5, <1>6
    <3> QED BY <1>3, <1>8, <3>1
  <2> QED BY <2>1, <2>2
<1>11. NoComments(After(v, k))
  BY <1>5, <1>7, <1>8, <1>10
<1> QED BY <1>3, <1>9, <1>11

LEMMA WellFormedUpto ==
  ASSUME NEW t \in TokenLists, WellFormed(t), NEW n \in 0..Len(t) PROVE WellFormed(Upto(t, n))
<1>1. PICK S : S = Texts \cup {Unterminated}
  OBVIOUS
<1>2. PICK z \in Seq(S) : z = t
  BY <1>1 DEF TokenLists
<1>3. Upto(z, n) \in Seq(S) /\ Len(Upto(z, n)) = n /\ \A i \in 1..n : Upto(z, n)[i] = z[i]
  BY <1>2, UptoIs
<1>4. PICK y \in Seq(S) : y = Upto(z, n)
  BY <1>3
<1>5. DOMAIN y = 1..n /\ DOMAIN z = 1..Len(z) /\ Len(z) \in Nat
  BY <1>3, <1>4, LenProperties
<1>6. \A i \in DOMAIN z : Sound(z[i])
  BY <1>2 DEF WellFormed, Sound
<1>7. \A i \in DOMAIN y : Sound(y[i])
  BY <1>2, <1>3, <1>4, <1>5, <1>6
<1>8. WellFormed(y)
  BY <1>7 DEF WellFormed, Sound
<1> QED BY <1>2, <1>4, <1>8

\* What is left of a query has no comments, and no blanks at its ends.
CleanText(c) ==
  /\ c \in Texts /\ NoComments(c) /\ WellFormed(Tokens[c])
  /\ c # <<>> => c[1] \notin Blanks /\ c[Len(c)] \notin Trailing

LEMMA CleanedIs ==
  ASSUME NEW s \in Texts, WellFormed(Tokens[s])
  PROVE  CleanText(Cleaned(Stripped[s]))
<1>1. PICK r \in Texts : r = Stripped[s]
  BY StrippedIs
<1>2. PICK n \in 0..Len(r) : /\ TrimLeft(r) = After(r, n) /\ \A i \in 1..n : r[i] \in Blanks
                             /\ n < Len(r) => r[n + 1] \notin Blanks
  BY TrimLeftIs
<1>3. Len(r) \in Nat /\ n \in Nat
  BY TextLength
<1>4. PICK l \in Texts : l = After(r, n) /\ Len(l) = Len(r) - n
                         /\ \A i \in 1..(Len(r) - n) : l[i] = r[n + i]
  BY AfterIs DEF Texts
<1>5. PICK m \in 0..Len(l) : /\ TrimRight(l, Trailing) = Upto(l, m)
                             /\ m > 0 => l[m] \notin Trailing
                             /\ AllIn(After(l, m), Trailing)
  BY TrimRightIs DEF Texts
<1>6. PICK c \in Texts : c = Upto(l, m) /\ Len(c) = m /\ \A i \in 1..m : c[i] = l[i]
  BY FrontOfText
<1>7. PICK t \in Texts : t = After(l, m)
  BY AfterIs DEF Texts
<1>8. l = c \o t
  BY <1>6, <1>7, SplitAt DEF Texts
<1>9. Cleaned(Stripped[s]) = c
  BY <1>1, <1>2, <1>4, <1>5, <1>6 DEF Cleaned, Trailing
<1>10. NoComments(l)
  <2>1. NoComments(r) /\ n <= Len(r)
    BY <1>1, <1>3, StrippedOnce
  <2> QED BY <1>2, <1>3, <1>4, <2>1, NoCommentsBehind
<1>11. WellFormed(Tokens[c])
  <2>1. Tokens[c] = TrimRight(Tokens[s], Semicolons)
    BY <1>9, CleanedKeepsTokens
  <2>2. Tokens[s] \in TokenLists
    BY TokensIs
  <2>3. PICK k \in 0..Len(Tokens[s]) : TrimRight(Tokens[s], Semicolons) = Upto(Tokens[s], k)
    BY <2>2, TrimRightIs DEF TokenLists
  <2> QED BY <2>1, <2>2, <2>3, WellFormedUpto
<1>12. NoComments(c)
  BY <1>5, <1>7, <1>8, <1>10, <1>11, NoCommentsBefore
<1>13. ASSUME c # <<>> PROVE c[1] \notin Blanks /\ c[Len(c)] \notin Trailing
  <2>1. m > 0 /\ 1 \in 1..m /\ m \in 1..m
    BY <1>6, <1>13, TailText
  <2>2. Len(l) \in Nat /\ m <= Len(l)
    BY TextLength
  <2>3. n < Len(r) /\ 1 \in 1..(Len(r) - n)
    BY <1>3, <1>4, <2>1, <2>2
  <2>4. c[1] = r[n + 1]
    BY <1>4, <1>6, <2>1, <2>3
  <2> QED BY <1>2, <1>5, <1>6, <2>1, <2>3, <2>4
<1> QED BY <1>9, <1>11, <1>12, <1>13 DEF CleanText

----------------------------------------------------------------------------
(* Texts without comments, symbol by symbol.  CopyLength is how far the    *)
(* loops of the code go at once.                                           *)

LEMMA WellFormedJoined ==
  ASSUME NEW x \in Texts \cup {Unterminated}, NEW t \in TokenLists, Sound(x), WellFormed(t)
  PROVE  WellFormed(<<x>> \o t)
<1>1. PICK S : S = Texts \cup {Unterminated}
  OBVIOUS
<1>2. PICK a \in Seq(S), b \in Seq(S) : a = <<x>> /\ b = t /\ Len(a) = 1 /\ a[1] = x
  <2>1. <<x>> \in Seq(S) /\ t \in Seq(S) /\ Len(<<x>>) = 1 /\ <<x>>[1] = x
    BY <1>1 DEF TokenLists
  <2> QED BY <2>1, Zenon
<1>3. PICK z \in Seq(S) : z = a \o b
  BY ConcatIs
<1>4. /\ Len(z) = 1 + Len(b) /\ Len(b) \in Nat
      /\ z[1] = x
      /\ \A i \in 1..Len(b) : z[1 + i] = b[i]
  <2>1. /\ Len(a \o b) = Len(a) + Len(b) /\ Len(b) \in Nat
        /\ \A i \in 1..Len(a) : (a \o b)[i] = a[i]
        /\ \A i \in 1..Len(b) : (a \o b)[Len(a) + i] = b[i]
    BY ConcatIs
  <2>2. 1 \in 1..Len(a)
    BY <1>2
  <2> QED BY <1>2, <1>3, <2>1, <2>2
<1>5. DOMAIN z = 1..Len(z) /\ DOMAIN b = 1..Len(b)
  BY LenProperties
<1>6. \A i \in DOMAIN b : Sound(b[i])
  BY <1>2 DEF WellFormed, Sound
<1>7. ASSUME NEW i \in DOMAIN z PROVE Sound(z[i])
  <2>1. CASE i = 1
    BY <1>4, <2>1
  <2>2. CASE i # 1
    <3>1. i - 1 \in 1..Len(b) /\ 1 + (i - 1) = i
      BY <1>4, <1>5, <2>2
    <3> QED BY <1>4, <1>5, <1>6, <3>1
  <2> QED BY <2>1, <2>2
<1>8. WellFormed(z)
  BY <1>7 DEF WellFormed, Sound
<1> QED BY <1>2, <1>3, <1>8

\* A word goes on behind its first symbol.
InWord(s) == Len(s) > 1 /\ s[1] \in WordSymbols /\ s[2] \in WordSymbols

\* A text that has only tokens that are sound, and no comments.
PlainText(s) == s \in Texts /\ NoComments(s) /\ WellFormed(Tokens[s])

\* What is in front of a plain text: a blank, the first symbol of a longer word,
\* or a token.
LEMMA Blank ==
  ASSUME NEW s, PlainText(s), s # <<>>, s[1] \in Blanks
  PROVE  /\ CopyLength(s) = 1 /\ PlainText(After(s, 1)) /\ Shorter(After(s, 1), s)
         /\ Tokens[s] = Tokens[After(s, 1)]
<1>1. s \in Texts /\ NoComments(s) /\ WellFormed(Tokens[s])
  BY DEF PlainText
<1>2. CopyLength(s) = 1
  BY DEF CopyLength, Blanks, Quotes
<1>3. SpaceLength(s) = 1
  BY <1>1, SpaceIs
<1>4. Tokens[s] = Tokens[After(s, 1)]
  BY <1>1, <1>3, SpaceSkipped
<1>5. Shorter(After(s, 1), s)
  <2>1. 1 \in Nat \ {0}
    OBVIOUS
  <2> QED BY <1>1, <2>1, ShorterAfter
<1>6. NoComments(After(s, 1))
  BY <1>1, <1>2, NoCommentsIs
<1> QED BY <1>1, <1>2, <1>4, <1>5, <1>6 DEF PlainText, Shorter

\* A plain text that does not begin with a blank begins with a token.
LEMMA PlainToken ==
  ASSUME NEW s, PlainText(s), s # <<>>, s[1] \notin Blanks
  PROVE  LET k == TokenLength(s)
         IN  /\ BeginsWithToken(s, k)
             /\ WellFormed(Tokens[After(s, k)])
             /\ Tokens[s] = <<Upto(s, k)>> \o Tokens[After(s, k)]
<1>1. s \in Texts /\ NoComments(s) /\ WellFormed(Tokens[s])
  BY DEF PlainText
<1>2. ~BlockComment(s) /\ ~LineComment(s)
  BY <1>1, NoCommentsIs
<1>3. ~SqlLineComment(s)
  BY <1>1, <1>2, MinusesAre, LineCommentIs DEF SqlLineComment
<1>4. SpaceLength(s) = 0
  BY <1>1, <1>2, <1>3, SpaceIs
<1>5. ~(SpaceLength(s) > 0)
  BY <1>4
<1> QED BY <1>1, <1>5, TokenTaken

LEMMA WholeToken ==
  ASSUME NEW s, PlainText(s), s # <<>>, s[1] \notin Blanks, ~InWord(s)
  PROVE  LET n == CopyLength(s)
         IN  /\ n \in 1..Len(s) /\ PlainText(After(s, n)) /\ Shorter(After(s, n), s)
             /\ BeginsWithToken(s, n)
             /\ Tokens[s] = <<Upto(s, n)>> \o Tokens[After(s, n)]
<1> DEFINE k == TokenLength(s)
<1>1. s \in Texts /\ NoComments(s) /\ WellFormed(Tokens[s])
  BY DEF PlainText
<1>2. /\ BeginsWithToken(s, k)
      /\ WellFormed(Tokens[After(s, k)])
      /\ Tokens[s] = <<Upto(s, k)>> \o Tokens[After(s, k)]
  BY PlainToken
<1> HIDE DEF k
<1>3. /\ Len(s) \in Nat /\ k \in 1..Len(s) /\ k \in Nat \ {0}
      /\ s[1] \notin Quotes => k = IF s[1] \in WordSymbols THEN WordLength(s) ELSE 1
  BY <1>1, <1>2, TokenKind
<1>4. CopyLength(s) = k
  <2>1. CASE s[1] \in Quotes
    BY <1>1, <1>2, <2>1, QuoteCopied
  <2>2. CASE s[1] \notin Quotes
    <3>1. s[1] \in WordSymbols => WordLength(s) = 1
      <4>1. SUFFICES ASSUME s[1] \in WordSymbols PROVE WordLength(s) = 1
        OBVIOUS
      <4>2. 1 \in 1..Len(s) /\ (1 < Len(s) => s[1 + 1] \notin WordSymbols)
        BY <1>3, <4>1 DEF InWord
      <4>3. \A i \in 1..1 : s[i] \in WordSymbols
        BY <4>1
      <4> QED BY <1>1, <4>2, <4>3, WordIsAll
    <3> QED BY <1>3, <2>2, <3>1 DEF CopyLength
  <2> QED BY <2>1, <2>2
<1>5. Shorter(After(s, k), s)
  BY <1>1, <1>3, ShorterAfter
<1>6. NoComments(After(s, k))
  BY <1>1, <1>4, NoCommentsIs
<1> QED BY <1>2, <1>3, <1>4, <1>5, <1>6 DEF PlainText, Shorter

\* The texts s and After(s, 1) begin with the words x and y, and go on alike.
SameButWord(s, x, y, t) ==
  /\ x \in Texts /\ y \in Texts /\ t \in TokenLists
  /\ Tokens[s] = <<x>> \o t /\ Tokens[After(s, 1)] = <<y>> \o t
  /\ Len(x) > 1 /\ x[1] = s[1] /\ Len(y) > 0 /\ y[1] = s[2]

LEMMA WordGoesOn ==
  ASSUME NEW s, PlainText(s), InWord(s)
  PROVE  /\ CopyLength(s) = 1 /\ PlainText(After(s, 1)) /\ Shorter(After(s, 1), s)
         /\ \E x, y, t : SameButWord(s, x, y, t)
<1> DEFINE k == TokenLength(s)
           v == After(s, 1)
<1>1. s \in Texts /\ NoComments(s) /\ WellFormed(Tokens[s])
  BY DEF PlainText
<1>2. /\ s # <<>> /\ s[1] \notin Blanks /\ s[1] \notin Quotes /\ Len(s) \in Nat
      /\ 1 \in 0..Len(s) /\ 1 \in 1..(Len(s) - 1)
  <2>1. Len(s) \in Nat /\ Len(s) > 1
    BY <1>1, TextLength DEF InWord
  <2>2. s[1] \notin Blanks /\ s[1] \notin Quotes
    BY DEF InWord, Blanks, Quotes, WordSymbols
  <2> QED BY <2>1, <2>2, NoSymbols
<1>3. /\ BeginsWithToken(s, k)
      /\ WellFormed(Tokens[After(s, k)])
      /\ Tokens[s] = <<Upto(s, k)>> \o Tokens[After(s, k)]
  BY <1>2, PlainToken
<1>4. k \in 1..Len(s) /\ k = WordLength(s)
  <2> HIDE DEF k
  <2> QED BY <1>1, <1>2, <1>3, TokenKind DEF InWord
<1> HIDE DEF k
<1>5. CopyLength(s) = 1
  BY <1>2 DEF CopyLength
<1>6. NoComments(v)
  BY <1>1, <1>2, <1>5, NoCommentsIs
<1>7. Shorter(v, s)
  <2>1. 1 \in Nat \ {0}
    OBVIOUS
  <2> QED BY <1>1, <1>2, <2>1, ShorterAfter
<1>8. v \in Texts /\ Len(v) = Len(s) - 1 /\ \A i \in 1..(Len(s) - 1) : v[i] = s[1 + i]
  BY <1>1, <1>2, AfterIs DEF Texts
<1>9. /\ \A i \in 1..k : s[i] \in WordSymbols
      /\ k < Len(s) => s[k + 1] \notin WordSymbols
  BY <1>1, <1>2, <1>4, WordIs DEF InWord
<1> DEFINE n == k - 1
<1>10. n \in Nat /\ n \in 1..Len(v) /\ n \in 0..Len(v) /\ 1 + n = k /\ k \in Nat /\ k > 1
  <2>1. k > 1
    BY <1>1, <1>2, <1>4, <1>9 DEF InWord
  <2> QED BY <1>2, <1>4, <1>8, <2>1
<1>11. v # <<>> /\ v[1] = s[2] /\ v[1] \in WordSymbols
  <2>1. v[1] = s[1 + 1]
    BY <1>2, <1>8
  <2>2. Len(v) # 0
    BY <1>2, <1>8
  <2> HIDE DEF v
  <2> QED BY <2>1, <2>2, NoSymbols DEF InWord
<1>12. After(v, n) = After(s, k)
  <2>1. 1 \in Nat /\ 1 + n <= Len(s) /\ n \in Nat
    BY <1>2, <1>4, <1>10
  <2> HIDE DEF n
  <2>2. After(After(s, 1), n) = After(s, 1 + n)
    BY <1>1, <2>1, AfterAfter DEF Texts
  <2> QED BY <1>10, <2>2, Zenon
<1> HIDE DEF v, n
<1>13. WordLength(v) = n
  <2>1. \A i \in 1..n : v[i] \in WordSymbols
    <3> TAKE i \in 1..n
    <3>1. 1 + i \in 1..k /\ i \in 1..(Len(s) - 1)
      BY <1>2, <1>4, <1>10
    <3> QED BY <1>8, <1>9, <3>1
  <2>2. n < Len(v) => v[n + 1] \notin WordSymbols
    <3>1. SUFFICES ASSUME n < Len(v) PROVE v[n + 1] \notin WordSymbols
      OBVIOUS
    <3>2. n + 1 \in 1..(Len(s) - 1) /\ 1 + (n + 1) = k + 1 /\ k < Len(s)
      BY <1>2, <1>4, <1>8, <1>10, <3>1
    <3>3. v[n + 1] = s[k + 1]
      BY <1>8, <3>2
    <3> QED BY <1>9, <3>2, <3>3
  <2> QED BY <1>8, <1>10, <2>1, <2>2, WordIsAll
<1>14. /\ v[1] \notin Blanks /\ v[1] \notin Quotes /\ v[1] # "/" /\ v[1] # "-" /\ v[1] # "#"
       /\ v[1] # "bq" /\ v[1] # "unterminated"
  BY <1>11 DEF WordSymbols, Blanks, Quotes
<1>15. ~BlockComment(v) /\ ~Begins(v, Minuses) /\ ~SqlLineComment(v)
  BY <1>8, <1>14, BlockCommentIs, MinusesAre DEF SqlLineComment
<1>16. SpaceLength(v) = 0 /\ TokenLength(v) = n
  BY <1>8, <1>11, <1>13, <1>14, <1>15, SpaceIs, TokenIs
<1>17. Tokens[v] = <<Upto(v, n)>> \o Tokens[After(v, n)]
  <2>1. Tokens[v] = TokensStep(Tokens, v)
    BY <1>8, TokensIs
  <2> QED BY <1>10, <1>11, <1>16, <2>1 DEF TokensStep
<1>18. PICK x \in Texts, y \in Texts, t \in TokenLists :
         /\ x = Upto(s, k) /\ y = Upto(v, n) /\ t = Tokens[After(s, k)]
         /\ Len(x) = k /\ x[1] = s[1] /\ Len(y) = n /\ y[1] = v[1]
  <2>1. k \in 0..Len(s) /\ 1 \in 1..k /\ 1 \in 1..n
    BY <1>2, <1>4, <1>10
  <2>2. Upto(s, k) \in Texts /\ Len(Upto(s, k)) = k /\ Upto(s, k)[1] = s[1]
    BY <1>1, <2>1, UptoIs DEF Texts
  <2>3. Upto(v, n) \in Texts /\ Len(Upto(v, n)) = n /\ Upto(v, n)[1] = v[1]
    BY <1>8, <1>10, <2>1, UptoIs DEF Texts
  <2>4. Tokens[After(s, k)] \in TokenLists
    BY <1>1, <1>10, AfterText, TokensIs
  <2> QED BY <2>2, <2>3, <2>4
<1>19. SameButWord(s, x, y, t)
  <2>1. Len(x) > 1 /\ Len(y) > 0
    BY <1>10, <1>18
  <2>2. Tokens[s] = <<x>> \o t /\ Tokens[v] = <<y>> \o t
    BY <1>3, <1>12, <1>17, <1>18, Zenon
  <2>3. x[1] = s[1] /\ y[1] = s[2]
    BY <1>11, <1>18, Zenon
  <2> QED BY <1>18, <2>1, <2>2, <2>3, Zenon DEF SameButWord, v
<1>20. WellFormed(Tokens[v])
  <2>1. Sound(y)
    <3>1. y # Unterminated /\ y # Minuses
      <4>1. Unterminated[1] = "unterminated" /\ Minuses[1] = "-"
        BY DEF Unterminated, Minuses
      <4> QED BY <1>14, <1>18, <4>1
    <3> QED BY <1>14, <1>18, <3>1 DEF Sound
  <2>2. WellFormed(<<y>> \o t)
    BY <1>3, <1>18, <2>1, WellFormedJoined
  <2> QED BY <1>12, <1>17, <1>18, <2>2
<1> QED BY <1>5, <1>6, <1>7, <1>8, <1>19, <1>20 DEF PlainText, v

----------------------------------------------------------------------------
(* Counting tokens.                                                        *)

LEMMA FiniteNumbers ==
  ASSUME NEW n \in Nat, NEW A \in SUBSET (1..n)
  PROVE  IsFiniteSet(A) /\ Cardinality(A) \in Nat
<1>1. IsFiniteSet(1..n)
  BY FS_Interval
<1>2. IsFiniteSet(A)
  BY <1>1, FS_Subset
<1> QED BY <1>2, FS_CardinalityType

LEMMA ShiftedCount ==
  ASSUME NEW n \in Nat, NEW A \in SUBSET (1..n), NEW B \in SUBSET (1..(1 + n)),
         \A i \in 1..n : i \in A <=> 1 + i \in B
  PROVE  Cardinality(B) = (IF 1 \in B THEN 1 ELSE 0) + Cardinality(A)
<1> DEFINE C == B \ {1}
           f == [i \in A |-> 1 + i]
<1>1. IsFiniteSet(A) /\ Cardinality(A) \in Nat
  BY FiniteNumbers
<1>2. f \in Bijection(A, C)
  <2>1. \A i \in A : 1 + i \in C
    OBVIOUS
  <2>2. \A c \in C : \E i \in A : 1 + i = c
    <3> TAKE c \in C
    <3>1. c - 1 \in 1..n /\ 1 + (c - 1) = c
      OBVIOUS
    <3>2. c - 1 \in A
      BY <3>1
    <3> QED BY <3>1, <3>2
  <2>3. \A i, j \in A : 1 + i = 1 + j => i = j
    OBVIOUS
  <2> HIDE DEF C
  <2> QED BY <2>1, <2>2, <2>3 DEF Bijection, Injection, Surjection, IsInjective
<1>3. ExistsBijection(A, C)
  BY <1>2 DEF ExistsBijection
<1>4. IsFiniteSet(C) /\ Cardinality(C) = Cardinality(A)
  <2> HIDE DEF C, f
  <2> QED BY <1>1, <1>3, FS_Bijection
<1>5. CASE 1 \in B
  <2>1. B = C \cup {1} /\ 1 \notin C
    BY <1>5
  <2>2. Cardinality(C \cup {1}) = Cardinality(C) + 1
    <3> HIDE DEF C
    <3> QED BY <1>4, <2>1, FS_AddElement
  <2> QED BY <1>1, <1>4, <1>5, <2>1, <2>2
<1>6. CASE 1 \notin B
  <2>1. B = C
    BY <1>6
  <2> QED BY <1>1, <1>4, <1>6, <2>1
<1> QED BY <1>5, <1>6

LEMMA TokenJoin ==
  ASSUME NEW x \in Texts \cup {Unterminated}, NEW t \in TokenLists
  PROVE  /\ <<x>> \o t \in TokenLists
         /\ Len(<<x>> \o t) = 1 + Len(t) /\ Len(t) \in Nat
         /\ DOMAIN t = 1..Len(t) /\ DOMAIN (<<x>> \o t) = 1..(1 + Len(t))
         /\ (<<x>> \o t)[1] = x
         /\ \A i \in 1..Len(t) : (<<x>> \o t)[1 + i] = t[i]
<1>1. PICK S : S = Texts \cup {Unterminated}
  OBVIOUS
<1>2. PICK a \in Seq(S), b \in Seq(S) : a = <<x>> /\ b = t /\ Len(a) = 1 /\ a[1] = x
  <2>1. <<x>> \in Seq(S) /\ t \in Seq(S) /\ Len(<<x>>) = 1 /\ <<x>>[1] = x
    BY <1>1 DEF TokenLists
  <2> QED BY <2>1, Zenon
<1>3. PICK z \in Seq(S) : z = a \o b
  BY ConcatIs
<1>4. /\ Len(z) = Len(a) + Len(b) /\ Len(b) \in Nat
      /\ \A i \in 1..Len(a) : z[i] = a[i]
      /\ \A i \in 1..Len(b) : z[Len(a) + i] = b[i]
  BY <1>3, ConcatIs
<1>5. DOMAIN z = 1..Len(z) /\ DOMAIN b = 1..Len(b)
  BY LenProperties
<1>6. Len(z) = 1 + Len(b) /\ z[1] = x /\ \A i \in 1..Len(b) : z[1 + i] = b[i]
  BY <1>2, <1>4
<1>7. z = <<x>> \o t
  BY <1>2, <1>3, Zenon
<1> QED BY <1>1, <1>2, <1>4, <1>5, <1>6, <1>7 DEF TokenLists

Count(t, i, c) == Cardinality({j \in 1..i : t[j] = c})

LEMMA CountIs ==
  ASSUME NEW t, NEW i \in Nat, NEW c PROVE Count(t, i, c) \in Nat /\ Count(t, 0, c) = 0
<1>1. {j \in 1..i : t[j] = c} \in SUBSET (1..i)
  OBVIOUS
<1>2. {j \in 1..0 : t[j] = c} = {}
  OBVIOUS
<1> QED BY <1>1, <1>2, FiniteNumbers, FS_EmptySet DEF Count

LEMMA CountOfJoin ==
  ASSUME NEW x \in Texts \cup {Unterminated}, NEW t \in TokenLists, NEW i \in 0..Len(t), NEW c
  PROVE  Count(<<x>> \o t, 1 + i, c) = (IF x = c THEN 1 ELSE 0) + Count(t, i, c)
<1>1. PICK z : z = <<x>> \o t
  OBVIOUS
<1>2. Len(t) \in Nat /\ z[1] = x /\ \A j \in 1..Len(t) : z[1 + j] = t[j]
  BY <1>1, TokenJoin
<1>3. i \in Nat /\ i <= Len(t)
  BY <1>2
<1> DEFINE A == {j \in 1..i : t[j] = c}
           B == {j \in 1..(1 + i) : z[j] = c}
<1>4. A \in SUBSET (1..i) /\ B \in SUBSET (1..(1 + i))
  OBVIOUS
<1>5. \A j \in 1..i : j \in A <=> 1 + j \in B
  BY <1>2, <1>3
<1>6. 1 \in B <=> x = c
  BY <1>2, <1>3
<1>7. Cardinality(B) = (IF 1 \in B THEN 1 ELSE 0) + Cardinality(A)
  <2> HIDE DEF A, B
  <2> QED BY <1>3, <1>4, <1>5, ShiftedCount
<1>8. Cardinality(B) = (IF x = c THEN 1 ELSE 0) + Cardinality(A)
  <2> HIDE DEF A, B
  <2> QED BY <1>6, <1>7
<1> QED BY <1>1, <1>8 DEF Count

Opening == <<"(">>
ClosingParen == <<")">>

\* What a token adds to the depth.
Turn(x) == IF x = Opening THEN 1 ELSE IF x = ClosingParen THEN -1 ELSE 0

LEMMA DepthIs ==
  ASSUME NEW t, NEW i \in Nat
  PROVE  /\ Depth(t, i) = Count(t, i, Opening) - Count(t, i, ClosingParen)
         /\ Depth(t, i) \in Int /\ Depth(t, 0) = 0
<1>1. Depth(t, i) = Count(t, i, Opening) - Count(t, i, ClosingParen)
  BY DEF Depth, Count, Opening, ClosingParen
<1>2. Depth(t, 0) = Count(t, 0, Opening) - Count(t, 0, ClosingParen)
  BY DEF Depth, Count, Opening, ClosingParen
<1> QED BY <1>1, <1>2, CountIs

LEMMA DepthOfJoin ==
  ASSUME NEW x \in Texts \cup {Unterminated}, NEW t \in TokenLists, NEW i \in 0..Len(t)
  PROVE  /\ Depth(<<x>> \o t, 1 + i) = Turn(x) + Depth(t, i)
         /\ Depth(t, i) \in Int /\ Turn(x) \in Int
<1>1. i \in Nat /\ 1 + i \in Nat
  BY TokenJoin
<1>2. Opening # ClosingParen
  <2>1. Opening[1] = "(" /\ ClosingParen[1] = ")"
    BY DEF Opening, ClosingParen
  <2> QED BY <2>1
<1>3. Count(t, i, Opening) \in Nat /\ Count(t, i, ClosingParen) \in Nat
  BY <1>1, CountIs
<1>4. /\ Count(<<x>> \o t, 1 + i, Opening) = (IF x = Opening THEN 1 ELSE 0) + Count(t, i, Opening)
      /\ Count(<<x>> \o t, 1 + i, ClosingParen)
           = (IF x = ClosingParen THEN 1 ELSE 0) + Count(t, i, ClosingParen)
  BY CountOfJoin
<1>5. Depth(<<x>> \o t, 1 + i)
        = Count(<<x>> \o t, 1 + i, Opening) - Count(<<x>> \o t, 1 + i, ClosingParen)
  BY <1>1, DepthIs
<1>6. Depth(t, i) = Count(t, i, Opening) - Count(t, i, ClosingParen)
  BY <1>1, DepthIs
<1> DEFINE a == Count(<<x>> \o t, 1 + i, Opening)
           b == Count(<<x>> \o t, 1 + i, ClosingParen)
           e == Depth(<<x>> \o t, 1 + i)
<1> HIDE DEF a, b, e
<1>7. /\ a = (IF x = Opening THEN 1 ELSE 0) + Count(t, i, Opening)
      /\ b = (IF x = ClosingParen THEN 1 ELSE 0) + Count(t, i, ClosingParen)
      /\ e = a - b
  BY <1>4, <1>5, Zenon DEF a, b, e
<1>8. e = Turn(x) + Depth(t, i)
  BY <1>2, <1>3, <1>6, <1>7 DEF Turn
<1>9. Depth(t, i) \in Int /\ Turn(x) \in Int
  BY <1>3, <1>6 DEF Turn
<1> QED BY <1>8, <1>9, Zenon DEF e

\* Where c is in t at depth 0, if the depth is d in front of t.
At(t, c, d) == {i \in DOMAIN t : t[i] = c /\ d + Depth(t, i) = 0}

LEMMA TopLevelIs == ASSUME NEW t \in TokenLists, NEW c PROVE TopLevel(t, c) = At(t, c, 0)
<1>1. DOMAIN t = 1..Len(t) /\ Len(t) \in Nat
  BY LenProperties DEF TokenLists
<1>2. \A i \in DOMAIN t : Depth(t, i) \in Int
  BY <1>1, DepthIs
<1> QED BY <1>2 DEF TopLevel, At

LEMMA AtOfJoin ==
  ASSUME NEW x \in Texts \cup {Unterminated}, NEW t \in TokenLists, NEW c, NEW d \in Int
  PROVE  /\ 1 \in At(<<x>> \o t, c, d) <=> x = c /\ d + Turn(x) = 0
         /\ \A i \in 1..Len(t) : 1 + i \in At(<<x>> \o t, c, d) <=> i \in At(t, c, d + Turn(x))
         /\ At(<<x>> \o t, c, d) \subseteq 1..(1 + Len(t))
         /\ At(t, c, d + Turn(x)) \subseteq 1..Len(t)
         /\ d + Turn(x) \in Int
<1>1. PICK z : z = <<x>> \o t
  OBVIOUS
<1>2. /\ Len(t) \in Nat /\ DOMAIN t = 1..Len(t) /\ DOMAIN z = 1..(1 + Len(t))
      /\ z[1] = x /\ \A j \in 1..Len(t) : z[1 + j] = t[j]
  BY <1>1, TokenJoin
<1>3. \A i \in 0..Len(t) : /\ Depth(z, 1 + i) = Turn(x) + Depth(t, i)
                           /\ Depth(t, i) \in Int /\ Turn(x) \in Int
  BY <1>1, DepthOfJoin
<1>4. Depth(z, 1) = Turn(x) /\ Turn(x) \in Int
  <2>1. 0 \in 0..Len(t) /\ 1 + 0 = 1
    BY <1>2
  <2>2. Depth(t, 0) = 0
    BY DepthIs
  <2> QED BY <1>3, <2>1, <2>2
<1>5. 1 \in At(z, c, d) <=> x = c /\ d + Turn(x) = 0
  BY <1>2, <1>4 DEF At
<1>6. ASSUME NEW i \in 1..Len(t)
      PROVE  1 + i \in At(z, c, d) <=> i \in At(t, c, d + Turn(x))
  <2>1. 1 + i \in DOMAIN z /\ i \in DOMAIN t /\ z[1 + i] = t[i] /\ i \in 0..Len(t)
    BY <1>2
  <2>2. Depth(z, 1 + i) = Turn(x) + Depth(t, i) /\ Depth(t, i) \in Int
    BY <1>3, <2>1
  <2>3. d + Depth(z, 1 + i) = (d + Turn(x)) + Depth(t, i)
    BY <1>4, <2>2
  <2> QED BY <2>1, <2>3 DEF At
<1>7. At(z, c, d) \subseteq 1..(1 + Len(t)) /\ At(t, c, d + Turn(x)) \subseteq 1..Len(t)
  BY <1>2 DEF At
<1> QED BY <1>1, <1>4, <1>5, <1>6, <1>7

LEMMA AtCount ==
  ASSUME NEW x \in Texts \cup {Unterminated}, NEW t \in TokenLists, NEW c, NEW d \in Int
  PROVE  /\ Cardinality(At(<<x>> \o t, c, d))
              = (IF x = c /\ d + Turn(x) = 0 THEN 1 ELSE 0) + Cardinality(At(t, c, d + Turn(x)))
         /\ Cardinality(At(t, c, d)) \in Nat
<1>1. Len(t) \in Nat /\ DOMAIN t = 1..Len(t)
  BY TokenJoin
<1> DEFINE A == At(t, c, d + Turn(x))
           B == At(<<x>> \o t, c, d)
<1>2. /\ 1 \in B <=> x = c /\ d + Turn(x) = 0
      /\ \A i \in 1..Len(t) : i \in A <=> 1 + i \in B
      /\ A \in SUBSET (1..Len(t)) /\ B \in SUBSET (1..(1 + Len(t)))
  BY AtOfJoin
<1>3. At(t, c, d) \in SUBSET (1..Len(t))
  BY <1>1 DEF At
<1> HIDE DEF A, B
<1>4. Cardinality(B) = (IF 1 \in B THEN 1 ELSE 0) + Cardinality(A)
  BY <1>1, <1>2, ShiftedCount
<1>5. Cardinality(At(t, c, d)) \in Nat
  BY <1>1, <1>3, FiniteNumbers
<1>6. Cardinality(B) = (IF x = c /\ d + Turn(x) = 0 THEN 1 ELSE 0) + Cardinality(A)
  BY <1>2, <1>4
<1> QED BY <1>5, <1>6, Zenon DEF A, B

----------------------------------------------------------------------------
(* OneColumnEach.                                                          *)

\* What the code's "\" means less than SQL's does where two of them stand together.
NoDoubles(s) == \A i \in 2..Len(s) : ~(s[i - 1] = "\\" /\ s[i] = "\\")

LEMMA NoDoublesAfter ==
  ASSUME NEW s \in Texts, NoDoubles(s), NEW n \in 0..Len(s) PROVE NoDoubles(After(s, n))
<1>1. /\ Len(s) \in Nat /\ Len(After(s, n)) = Len(s) - n
      /\ \A i \in 1..(Len(s) - n) : After(s, n)[i] = s[n + i]
  BY AfterIs, TextLength DEF Texts
<1>2. SUFFICES ASSUME NEW i \in 2..(Len(s) - n)
               PROVE  ~(After(s, n)[i - 1] = "\\" /\ After(s, n)[i] = "\\")
  BY <1>1 DEF NoDoubles
<1>3. /\ i \in 1..(Len(s) - n) /\ i - 1 \in 1..(Len(s) - n)
      /\ n + i \in 2..Len(s) /\ n + (i - 1) = (n + i) - 1
  BY <1>1
<1>4. After(s, n)[i] = s[n + i] /\ After(s, n)[i - 1] = s[(n + i) - 1]
  BY <1>1, <1>3
<1> QED BY <1>3, <1>4 DEF NoDoubles

\* The quotes within a quoted text, and no others, have a "\" in front.
QuotesEscaped(s, q, n) ==
  /\ n > 1 => s[n - 1] # "\\"
  /\ \A i \in 1..(n - 1) : s[i] = q => i > 1 /\ s[i - 1] = "\\"

LEMMA EscapedQuotes ==
  ASSUME NEW q \in Quotes
  PROVE  \A s \in Texts :
           /\ SqlClosing[s][q] # 0 /\ NoDoubles(s)
           /\ q = "bq" => \A i \in 1..SqlClosing[s][q] : s[i] # "\\"
           => QuotesEscaped(s, q, SqlClosing[s][q])
<1> DEFINE Plain(s) == q = "bq" => \A i \in 1..SqlClosing[s][q] : s[i] # "\\"
           G == {s \in Texts : SqlClosing[s][q] # 0 /\ NoDoubles(s) /\ Plain(s)
                                 => QuotesEscaped(s, q, SqlClosing[s][q])}
<1>1. ASSUME NEW s \in Texts, \A r : Shorter(r, s) => r \in G PROVE s \in G
  <2>0. SUFFICES ASSUME SqlClosing[s][q] # 0, NoDoubles(s), Plain(s)
                 PROVE  QuotesEscaped(s, q, SqlClosing[s][q])
    OBVIOUS
  <2>1. SqlClosing[s][q] = SqlClosingStep(SqlClosing, s)[q]
    BY SqlClosingIs
  <2>2. s # <<>>
    BY <2>0, <2>1 DEF SqlClosingStep
  <2>3. Len(s) \in Nat /\ Len(s) > 0 /\ q \in {"'", "bq"}
    BY <2>2, TailText DEF Quotes
  <2>4. CASE s[1] = q
    <3>1. SqlClosing[s][q] = 1
      BY <2>1, <2>2, <2>4 DEF SqlClosingStep
    <3> QED BY <3>1 DEF QuotesEscaped
  <2>5. CASE s[1] # q
    <3> DEFINE n == IF s[1] = "\\" /\ q = "'" THEN 2 ELSE 1
               v == After(s, n)
               c == SqlClosing[v][q]
    <3>1. n \in Nat \ {0} /\ n \in {1, 2}
      OBVIOUS
    <3>2. SqlClosing[s][q] = IF c = 0 THEN 0 ELSE n + c
      BY <2>1, <2>2, <2>5 DEF SqlClosingStep
    <3>3. c # 0 /\ SqlClosing[s][q] = n + c
      BY <2>0, <3>2
    <3>4. n = 1 \/ n = 2
      OBVIOUS
    <3>5. n = 2 => s[1] = "\\" /\ q = "'"
      OBVIOUS
    <3>6. n = 1 => s[1] # "\\"
      <4>1. SUFFICES ASSUME n = 1, s[1] = "\\" PROVE FALSE
        OBVIOUS
      <4>2. q = "bq"
        BY <2>3, <4>1
      <4>3. SqlClosing[s][q] \in 1..Len(s)
        BY <2>0, SqlClosingRange
      <4>4. 1 \in 1..SqlClosing[s][q]
        BY <4>3
      <4> QED BY <2>0, <4>1, <4>2, <4>4
    <3> HIDE DEF n
    <3>7. v \in Texts /\ Shorter(v, s)
      BY <2>2, <3>1, ShorterAfter DEF Shorter
    <3>8. c \in 1..Len(v) /\ c \in Nat /\ n <= Len(s) /\ Len(v) = Len(s) - n
      <4>1. c \in 1..Len(v)
        <5> HIDE DEF v
        <5> QED BY <3>3, <3>7, SqlClosingRange DEF c
      <4>2. Len(v) = IF n <= Len(s) THEN Len(s) - n ELSE 0
        BY <3>1, AfterText
      <4> HIDE DEF c, v
      <4> QED BY <2>3, <3>1, <4>1, <4>2
    <3>9. n \in 0..Len(s) /\ \A i \in 1..(Len(s) - n) : v[i] = s[n + i]
      <4>1. n \in 0..Len(s)
        BY <2>3, <3>1, <3>8
      <4> QED BY <4>1, AfterIs DEF Texts
    <3>10. NoDoubles(v)
      BY <2>0, <3>9, NoDoublesAfter
    <3> HIDE DEF c, v
    <3>11. Plain(v)
      <4>1. SUFFICES ASSUME q = "bq", NEW i \in 1..c PROVE v[i] # "\\"
        BY DEF c
      <4>2. n + i \in 1..(n + c) /\ i \in 1..(Len(s) - n)
        BY <2>3, <3>1, <3>8
      <4> QED BY <2>0, <3>3, <3>9, <4>1, <4>2
    <3>12. QuotesEscaped(v, q, c)
      BY <1>1, <3>3, <3>7, <3>10, <3>11 DEF c
    <3>13. n + c > 1 => s[(n + c) - 1] # "\\"
      <4>1. CASE c = 1 /\ n = 1
        BY <3>6, <4>1
      <4>2. CASE c = 1 /\ n = 2
        <5>1. 2 \in 2..Len(s) /\ (n + c) - 1 = 2 /\ 2 - 1 = 1
          BY <2>3, <3>8, <4>2
        <5> QED BY <2>0, <3>5, <4>2, <5>1 DEF NoDoubles
      <4>3. CASE c # 1
        <5>1. c > 1 /\ c - 1 \in 1..(Len(s) - n) /\ n + (c - 1) = (n + c) - 1
          BY <2>3, <3>1, <3>8, <4>3
        <5>2. v[c - 1] # "\\"
          BY <3>12, <5>1 DEF QuotesEscaped
        <5> QED BY <3>9, <5>1, <5>2
      <4> QED BY <3>4, <4>1, <4>2, <4>3
    <3>14. ASSUME NEW i \in 1..((n + c) - 1), s[i] = q PROVE i > 1 /\ s[i - 1] = "\\"
      <4>1. i # 1
        BY <2>5, <3>14
      <4>2. CASE i <= n
        <5>1. i = 2 /\ n = 2
          BY <3>4, <4>1, <4>2
        <5> QED BY <3>5, <5>1
      <4>3. CASE ~(i <= n)
        <5>1. i - n \in 1..(c - 1) /\ i - n \in 1..(Len(s) - n) /\ n + (i - n) = i
          BY <2>3, <3>1, <3>8, <4>3
        <5>2. v[i - n] = q
          BY <3>9, <3>14, <5>1
        <5>3. i - n > 1 /\ v[(i - n) - 1] = "\\"
          BY <3>12, <5>1, <5>2 DEF QuotesEscaped
        <5>4. (i - n) - 1 \in 1..(Len(s) - n) /\ n + ((i - n) - 1) = i - 1 /\ i > 1
          BY <2>3, <3>1, <5>1, <5>3
        <5> QED BY <3>9, <5>3, <5>4
      <4> QED BY <4>2, <4>3
    <3> QED BY <3>3, <3>13, <3>14 DEF QuotesEscaped
  <2> QED BY <2>4, <2>5
<1>2. Texts \subseteq G
  <2> HIDE DEF G
  <2> QED BY <1>1, TextInduction
<1> QED BY <1>2

LEMMA SplitRange ==
  ASSUME NEW s \in Texts, s # <<>> PROVE SplitLength(s) \in 1..Len(s)
<1> DEFINE ends == {i \in 2..Len(s) : s[i] = s[1] /\ s[i - 1] # "\\"}
<1>1. Len(s) \in Nat /\ Len(s) > 0
  BY TailText
<1>2. SplitLength(s) = IF ends = {} THEN Len(s) ELSE Min(ends)
  BY DEF SplitLength
<1>3. ends # {} => Min(ends) \in ends
  <2>1. SUFFICES ASSUME ends # {} PROVE Min(ends) \in ends
    OBVIOUS
  <2>2. ends \in SUBSET Nat /\ ends \subseteq Int
    OBVIOUS
  <2> HIDE DEF ends
  <2>3. PICK m \in ends : \A i \in ends : m <= i
    BY <2>1, <2>2, LeastNumber
  <2> QED BY <2>2, <2>3 DEF Min
<1>4. ends \subseteq 1..Len(s)
  BY <1>1
<1> HIDE DEF ends
<1>5. CASE ends = {}
  BY <1>1, <1>2, <1>5
<1>6. CASE ends # {}
  BY <1>2, <1>3, <1>4, <1>6, Zenon
<1> QED BY <1>5, <1>6

\* splitTopLevel finds the end of a quoted text, if no two "\" stand together.
LEMMA QuoteSplit ==
  ASSUME NEW s \in Texts, NEW k, BeginsWithToken(s, k), s[1] \in Quotes, NoDoubles(s)
  PROVE  SplitLength(s) = k
<1>1. /\ Len(s) \in Nat /\ k \in 1..Len(s) /\ k \in Nat /\ s # <<>>
      /\ SqlClosing[After(s, 1)][s[1]] # 0
      /\ k = SqlClosing[After(s, 1)][s[1]] + 1
  BY TokenKind
<1> DEFINE q == s[1]
           r == After(s, 1)
           c == SqlClosing[r][q]
           ends == {i \in 2..Len(s) : s[i] = s[1] /\ s[i - 1] # "\\"}
<1>2. 1 \in 0..Len(s) /\ r \in Texts /\ Len(r) = Len(s) - 1 /\ NoDoubles(r)
      /\ \A i \in 1..(Len(s) - 1) : r[i] = s[1 + i]
  <2>1. 1 \in 0..Len(s)
    BY <1>1
  <2>2. r \in Texts /\ Len(r) = Len(s) - 1 /\ \A i \in 1..(Len(s) - 1) : r[i] = s[1 + i]
    BY <2>1, AfterIs DEF Texts
  <2> QED BY <2>1, <2>2, NoDoublesAfter
<1> HIDE DEF r
<1>3. c \in 1..Len(r) /\ r[c] = q /\ c # 0 /\ k = c + 1
  BY <1>1, <1>2, SqlClosingRange DEF r
<1>4. q = "bq" => \A i \in 1..c : r[i] # "\\"
  <2>1. SUFFICES ASSUME q = "bq", NEW i \in 1..c, r[i] = "\\" PROVE FALSE
    OBVIOUS
  <2> DEFINE x == Upto(s, k)
  <2>2. x \in Seq(Symbols) /\ Len(x) = k /\ \A j \in 1..k : x[j] = s[j]
    <3>1. k \in 0..Len(s)
      BY <1>1
    <3> QED BY <3>1, UptoIs DEF Texts
  <2>3. 1 + i \in 1..k /\ 1 \in 1..k /\ i \in 1..(Len(s) - 1)
    <3> HIDE DEF c
    <3> QED BY <1>1, <1>2, <1>3
  <2>4. r[i] = s[1 + i]
    BY <1>2, <2>3
  <2>5. x[1] = "bq" /\ x[1 + i] = "\\" /\ 1 + i \in DOMAIN x
    <3> HIDE DEF x, c
    <3> QED BY <2>1, <2>2, <2>3, <2>4, LenProperties
  <2>6. "\\" \in ToSet(x)
    <3> HIDE DEF x
    <3> QED BY <2>5 DEF ToSet
  <2>7. Sound(x)
    BY DEF BeginsWithToken
  <2> HIDE DEF x
  <2> QED BY <2>5, <2>6, <2>7 DEF Sound
<1>5. QuotesEscaped(r, q, c)
  BY <1>2, <1>3, <1>4, EscapedQuotes
<1> HIDE DEF c, q
<1>6. k \in ends
  <2>1. k \in 2..Len(s) /\ c \in 1..(Len(s) - 1) /\ 1 + c = k
    BY <1>1, <1>2, <1>3
  <2>2. s[k] = q
    BY <1>2, <1>3, <2>1
  <2>3. s[k - 1] # "\\"
    <3>1. CASE c = 1
      <4>1. k - 1 = 1
        BY <1>3, <3>1
      <4> QED BY <4>1 DEF Quotes
    <3>2. CASE c # 1
      <4>1. c > 1 /\ c - 1 \in 1..(Len(s) - 1) /\ 1 + (c - 1) = k - 1
        BY <1>1, <1>2, <1>3, <3>2
      <4> QED BY <1>2, <1>5, <4>1 DEF QuotesEscaped
    <3> QED BY <3>1, <3>2
  <2> QED BY <2>1, <2>2, <2>3 DEF q
<1>7. ASSUME NEW i \in ends, i < k PROVE FALSE
  <2>1. i \in 2..Len(s) /\ s[i] = q /\ s[i - 1] # "\\"
    BY DEF q
  <2>2. /\ i - 1 \in 1..(c - 1) /\ i - 1 \in 1..(Len(s) - 1) /\ 1 + (i - 1) = i
    BY <1>1, <1>2, <1>3, <1>7, <2>1
  <2>3. r[i - 1] = q
    BY <1>2, <2>1, <2>2
  <2>4. i - 1 > 1 /\ r[(i - 1) - 1] = "\\"
    BY <1>5, <2>2, <2>3 DEF QuotesEscaped
  <2>5. (i - 1) - 1 \in 1..(Len(s) - 1) /\ 1 + ((i - 1) - 1) = i - 1
    BY <1>1, <2>1, <2>4
  <2> QED BY <1>2, <2>1, <2>4, <2>5
<1>8. SplitLength(s) = Min(ends)
  BY <1>6 DEF SplitLength
<1>9. ends \subseteq Nat
  OBVIOUS
<1> HIDE DEF ends
<1>10. Min(ends) \in ends /\ \A i \in ends : Min(ends) <= i
  <2>1. \A i \in ends : k <= i
    BY <1>1, <1>7, <1>9
  <2> QED BY <1>6, <1>9, <2>1 DEF Min
<1>11. PICK m \in ends : m = Min(ends) /\ \A i \in ends : m <= i
  BY <1>10, Zenon
<1>12. m <= k /\ m \in Nat /\ ~(m < k)
  BY <1>6, <1>7, <1>9, <1>11
<1>13. m = k
  BY <1>1, <1>12
<1> QED BY <1>8, <1>11, <1>13, Zenon

\* The depth behind a symbol, to splitTopLevel.
Deeper(c, depth) ==
  CASE c = "(" -> depth + 1
    [] c = ")" -> depth - 1
    [] OTHER -> depth

LEMMA DeeperIs ==
  ASSUME NEW c, NEW d \in Int
  PROVE  /\ Deeper(c, d) = IF c = "(" THEN d + 1 ELSE IF c = ")" THEN d - 1 ELSE d
         /\ Deeper(c, d) \in Int
<1>1. CASE c = "("
  BY <1>1 DEF Deeper
<1>2. CASE c = ")"
  BY <1>2 DEF Deeper
<1>3. CASE c # "(" /\ c # ")"
  BY <1>3 DEF Deeper
<1> QED BY <1>1, <1>2, <1>3

SeparatorsStep(g, s) ==
  [depth \in Int |->
     IF s = <<>> THEN 0
     ELSE IF s[1] \in Quotes THEN g[After(s, SplitLength(s))][depth]
     ELSE LET inside == CASE s[1] = "(" -> depth + 1
                          [] s[1] = ")" -> depth - 1
                          [] OTHER -> depth
          IN  (IF s[1] = "," /\ depth = 0 THEN 1 ELSE 0) + g[After(s, 1)][inside]]

LEMMA SeparatorsStepIs ==
  ASSUME NEW g, NEW s, NEW d \in Int
  PROVE  SeparatorsStep(g, s)[d] =
           IF s = <<>> THEN 0
           ELSE IF s[1] \in Quotes THEN g[After(s, SplitLength(s))][d]
           ELSE (IF s[1] = "," /\ d = 0 THEN 1 ELSE 0) + g[After(s, 1)][Deeper(s[1], d)]
  BY Zenon DEF SeparatorsStep, Deeper

LEMMA SeparatorsStepFits ==
  ASSUME NEW s \in Texts
  PROVE  /\ \A g : (\A r : Shorter(r, s) => g[r] \in [Int -> Nat])
                     => SeparatorsStep(g, s) \in [Int -> Nat]
         /\ \A g, h : (\A r : Shorter(r, s) => g[r] = h[r])
                     => SeparatorsStep(g, s) = SeparatorsStep(h, s)
<1>0. \A g, h : /\ SeparatorsStep(g, s) = [d \in Int |-> SeparatorsStep(g, s)[d]]
                /\ SeparatorsStep(h, s) = [d \in Int |-> SeparatorsStep(h, s)[d]]
  BY DEF SeparatorsStep
<1>1. CASE s = <<>>
  <2>1. \A g : \A d \in Int : SeparatorsStep(g, s)[d] = 0
    BY <1>1, SeparatorsStepIs
  <2> QED BY <1>0, <2>1
<1>2. CASE s # <<>>
  <2>1. Shorter(After(s, 1), s) /\ Shorter(After(s, SplitLength(s)), s)
    <3>1. SplitLength(s) \in Nat \ {0} /\ 1 \in Nat \ {0}
      BY <1>2, SplitRange
    <3> QED BY <1>2, <3>1, ShorterAfter
  <2>2. \A d \in Int : Deeper(s[1], d) \in Int
    BY DeeperIs
  <2>3. ASSUME NEW g, \A r : Shorter(r, s) => g[r] \in [Int -> Nat]
        PROVE  SeparatorsStep(g, s) \in [Int -> Nat]
    <3>1. g[After(s, 1)] \in [Int -> Nat] /\ g[After(s, SplitLength(s))] \in [Int -> Nat]
      BY <2>1, <2>3
    <3>2. ASSUME NEW d \in Int PROVE SeparatorsStep(g, s)[d] \in Nat
      <4>1. g[After(s, SplitLength(s))][d] \in Nat /\ g[After(s, 1)][Deeper(s[1], d)] \in Nat
        BY <2>2, <3>1
      <4> DEFINE a == g[After(s, SplitLength(s))][d]
                 b == g[After(s, 1)][Deeper(s[1], d)]
                 e == SeparatorsStep(g, s)[d]
      <4>2. e = IF s[1] \in Quotes THEN a ELSE (IF s[1] = "," /\ d = 0 THEN 1 ELSE 0) + b
        BY <1>2, SeparatorsStepIs, Zenon
      <4> HIDE DEF a, b, e
      <4>3. a \in Nat /\ b \in Nat
        BY <4>1 DEF a, b
      <4>4. e = a \/ e = 1 + b \/ e = 0 + b
        BY <4>2, Zenon
      <4>5. 1 + b \in Nat /\ 0 + b \in Nat
        BY <4>3
      <4>6. e \in Nat
        BY <4>3, <4>4, <4>5, Zenon
      <4> QED BY <4>6 DEF e
    <3> QED BY <1>0, <3>2
  <2>4. ASSUME NEW g, NEW h, \A r : Shorter(r, s) => g[r] = h[r]
        PROVE  SeparatorsStep(g, s) = SeparatorsStep(h, s)
    <3>1. g[After(s, 1)] = h[After(s, 1)] /\ g[After(s, SplitLength(s))] = h[After(s, SplitLength(s))]
      BY <2>1, <2>4
    <3>2. ASSUME NEW d \in Int PROVE SeparatorsStep(g, s)[d] = SeparatorsStep(h, s)[d]
      <4>1. SeparatorsStep(g, s)[d] =
              IF s[1] \in Quotes THEN g[After(s, SplitLength(s))][d]
              ELSE (IF s[1] = "," /\ d = 0 THEN 1 ELSE 0) + g[After(s, 1)][Deeper(s[1], d)]
        BY <1>2, SeparatorsStepIs, Zenon
      <4>2. SeparatorsStep(h, s)[d] =
              IF s[1] \in Quotes THEN h[After(s, SplitLength(s))][d]
              ELSE (IF s[1] = "," /\ d = 0 THEN 1 ELSE 0) + h[After(s, 1)][Deeper(s[1], d)]
        BY <1>2, SeparatorsStepIs, Zenon
      <4> QED BY <3>1, <4>1, <4>2, Zenon
    <3> QED BY <1>0, <3>2
  <2> QED BY <2>3, <2>4
<1> QED BY <1>1, <1>2

LEMMA SeparatorsIs ==
  /\ Separators \in [Texts -> [Int -> Nat]]
  /\ \A s \in Texts : Separators[s] = SeparatorsStep(Separators, s)
<1> DEFINE V == [Int -> Nat]
           step == [s \in Texts |-> [g \in [Texts -> V] |-> SeparatorsStep(g, s)]]
<1>1. step \in StepsTo(V) /\ Descends(V, step)
  BY SeparatorsStepFits DEF Shorter, StepsTo, Descends
<1>2. PICK f \in [Texts -> V] : \A s \in Texts : f[s] = step[s][f]
  <2>1. [d \in Int |-> 0] \in V
    OBVIOUS
  <2> HIDE DEF V, step
  <2> QED BY <1>1, <2>1, Solvable
<1>3. f = [s \in Texts |-> SeparatorsStep(f, s)]
  BY <1>2
<1>4. Separators = [s \in Texts |-> SeparatorsStep(Separators, s)]
  <2> HIDE DEF V
  <2> QED BY <1>3, Zenon DEF Separators, SeparatorsStep
<1>5. Separators \in [Texts -> V]
  <2> DEFINE G == {s \in Texts : Separators[s] \in V}
  <2>1. ASSUME NEW s \in Texts, \A r : Shorter(r, s) => r \in G PROVE s \in G
    <3>1. \A r : Shorter(r, s) => Separators[r] \in [Int -> Nat]
      BY <2>1
    <3>2. SeparatorsStep(Separators, s) \in [Int -> Nat]
      BY <3>1, SeparatorsStepFits
    <3>3. Separators[s] = SeparatorsStep(Separators, s)
      BY <1>4, Zenon
    <3> QED BY <3>2, <3>3
  <2> HIDE DEF V
  <2>2. Texts \subseteq G
    <3> HIDE DEF G
    <3> QED BY <2>1, TextInduction
  <2> QED BY <1>4, <2>2
<1> QED BY <1>4, <1>5

Comma == <<",">>

LEMMA TokenOfSymbol ==
  ASSUME NEW c
  PROVE  /\ <<c>> = Comma <=> c = ","
         /\ Turn(<<c>>) = IF c = "(" THEN 1 ELSE IF c = ")" THEN -1 ELSE 0
<1>1. <<c>>[1] = c /\ Comma[1] = "," /\ Opening[1] = "(" /\ ClosingParen[1] = ")"
  BY DEF Comma, Opening, ClosingParen
<1>2. /\ <<c>> = Comma <=> c = ","
      /\ <<c>> = Opening <=> c = "("
      /\ <<c>> = ClosingParen <=> c = ")"
  BY <1>1 DEF Comma, Opening, ClosingParen
<1> QED BY <1>2 DEF Turn

\* Words and quoted texts are neither commas nor parentheses.
LEMMA TokenWithin ==
  ASSUME NEW x, x[1] \in WordSymbols \cup Quotes
  PROVE  x # Comma /\ Turn(x) = 0
<1>1. Comma[1] = "," /\ Opening[1] = "(" /\ ClosingParen[1] = ")"
  BY DEF Comma, Opening, ClosingParen
<1>2. x # Comma /\ x # Opening /\ x # ClosingParen
  BY <1>1 DEF WordSymbols, Quotes
<1> QED BY <1>2 DEF Turn

\* The separators of splitTopLevel are the commas at depth 0.
LEMMA SeparatorsCount ==
  \A s \in Texts : PlainText(s) /\ NoDoubles(s) =>
    \A d \in Int : Separators[s][d] = Cardinality(At(Tokens[s], Comma, d))
<1> DEFINE G == {s \in Texts : PlainText(s) /\ NoDoubles(s) =>
                   \A d \in Int : Separators[s][d] = Cardinality(At(Tokens[s], Comma, d))}
<1>1. ASSUME NEW s \in Texts, \A r : Shorter(r, s) => r \in G PROVE s \in G
  <2>1. SUFFICES ASSUME PlainText(s), NoDoubles(s), NEW d \in Int
                 PROVE  Separators[s][d] = Cardinality(At(Tokens[s], Comma, d))
    OBVIOUS
  <2>2. Separators[s][d] =
           IF s = <<>> THEN 0
           ELSE IF s[1] \in Quotes THEN Separators[After(s, SplitLength(s))][d]
           ELSE (IF s[1] = "," /\ d = 0 THEN 1 ELSE 0) + Separators[After(s, 1)][Deeper(s[1], d)]
    <3>1. Separators[s] = SeparatorsStep(Separators, s)
      BY SeparatorsIs, Zenon
    <3>2. SeparatorsStep(Separators, s)[d] =
             IF s = <<>> THEN 0
             ELSE IF s[1] \in Quotes THEN Separators[After(s, SplitLength(s))][d]
             ELSE (IF s[1] = "," /\ d = 0 THEN 1 ELSE 0) + Separators[After(s, 1)][Deeper(s[1], d)]
      BY SeparatorsStepIs
    <3> QED BY <3>1, <3>2, Zenon
  <2>3. Deeper(s[1], d) = (IF s[1] = "(" THEN d + 1 ELSE IF s[1] = ")" THEN d - 1 ELSE d)
        /\ Deeper(s[1], d) \in Int
    BY DeeperIs
  \* What is left behind n symbols of s.
  <2>4. ASSUME NEW n \in 1..Len(s), PlainText(After(s, n)), NEW e \in Int
        PROVE  /\ Separators[After(s, n)][e] = Cardinality(At(Tokens[After(s, n)], Comma, e))
               /\ Separators[After(s, n)][e] \in Nat
    <3>1. n \in 0..Len(s) /\ n \in Nat \ {0} /\ s # <<>> /\ Len(s) \in Nat
      <4>1. Len(s) \in Nat
        BY TextLength
      <4> QED BY <4>1, NoSymbols
    <3>2. Shorter(After(s, n), s)
      BY <3>1, ShorterAfter
    <3>3. NoDoubles(After(s, n))
      BY <2>1, <3>1, NoDoublesAfter
    <3>4. Separators[After(s, n)] \in [Int -> Nat]
      BY <3>2, SeparatorsIs DEF Shorter
    <3> QED BY <1>1, <2>4, <3>2, <3>3, <3>4
  <2>5. CASE s = <<>>
    <3>1. At(<<>>, Comma, d) = {}
      BY DEF At
    <3> QED BY <2>2, <2>5, <3>1, NoTokens, FS_EmptySet
  <2>6. s # <<>> => 1 \in 1..Len(s)
    BY TailText
  <2>7. CASE s # <<>> /\ s[1] \in Blanks
    <3>1. PlainText(After(s, 1)) /\ Tokens[s] = Tokens[After(s, 1)]
      BY <2>1, <2>7, Blank
    <3>2. s[1] \notin Quotes /\ s[1] # "," /\ s[1] # "(" /\ s[1] # ")"
      BY <2>7 DEF Blanks, Quotes
    <3>3. /\ Separators[After(s, 1)][d] = Cardinality(At(Tokens[After(s, 1)], Comma, d))
          /\ Separators[After(s, 1)][d] \in Nat
      BY <2>4, <2>6, <2>7, <3>1
    <3>4. Deeper(s[1], d) = d
      BY <2>3, <3>2
    <3>5. Separators[s][d] = 0 + Separators[After(s, 1)][d]
      BY <2>2, <2>7, <3>2, <3>4, Zenon
    <3> QED BY <3>1, <3>3, <3>5
  <2>8. CASE InWord(s)
    <3>1. PlainText(After(s, 1)) /\ \E x, y, t : SameButWord(s, x, y, t)
      BY <2>1, <2>8, WordGoesOn
    <3>2. PICK x, y, t : SameButWord(s, x, y, t)
      BY <3>1
    <3>3. /\ x \in Texts \cup {Unterminated} /\ y \in Texts \cup {Unterminated} /\ t \in TokenLists
          /\ Tokens[s] = <<x>> \o t /\ Tokens[After(s, 1)] = <<y>> \o t
          /\ x[1] = s[1] /\ y[1] = s[2]
      BY <3>2 DEF SameButWord
    <3>4. s[1] \in WordSymbols /\ s[2] \in WordSymbols /\ s # <<>>
      BY <2>8, NoSymbols DEF InWord
    <3>5. x # Comma /\ Turn(x) = 0 /\ y # Comma /\ Turn(y) = 0
      BY <3>3, <3>4, TokenWithin
    <3>6. /\ Cardinality(At(<<x>> \o t, Comma, d)) = 0 + Cardinality(At(t, Comma, d + 0))
          /\ Cardinality(At(<<y>> \o t, Comma, d)) = 0 + Cardinality(At(t, Comma, d + 0))
      <4>1. Cardinality(At(<<x>> \o t, Comma, d))
              = (IF x = Comma /\ d + Turn(x) = 0 THEN 1 ELSE 0) + Cardinality(At(t, Comma, d + Turn(x)))
        BY <3>3, AtCount, Zenon
      <4>2. Cardinality(At(<<y>> \o t, Comma, d))
              = (IF y = Comma /\ d + Turn(y) = 0 THEN 1 ELSE 0) + Cardinality(At(t, Comma, d + Turn(y)))
        BY <3>3, AtCount, Zenon
      <4> QED BY <3>5, <4>1, <4>2, Zenon
    <3>7. s[1] \notin Quotes /\ s[1] # "," /\ s[1] # "(" /\ s[1] # ")"
      BY <3>4 DEF WordSymbols, Quotes
    <3>8. /\ Separators[After(s, 1)][d] = Cardinality(At(Tokens[After(s, 1)], Comma, d))
          /\ Separators[After(s, 1)][d] \in Nat
      BY <2>4, <2>6, <3>1, <3>4
    <3>9. Deeper(s[1], d) = d
      BY <2>3, <3>7
    <3>10. Separators[s][d] = 0 + Separators[After(s, 1)][d]
      BY <2>2, <3>4, <3>7, <3>9, Zenon
    <3>11. Cardinality(At(Tokens[s], Comma, d)) = Cardinality(At(Tokens[After(s, 1)], Comma, d))
      BY <3>3, <3>6, Zenon
    <3> QED BY <3>8, <3>10, <3>11
  <2>9. CASE s # <<>> /\ s[1] \notin Blanks /\ ~InWord(s)
    <3> DEFINE n == CopyLength(s)
               v == After(s, n)
               x == Upto(s, n)
    <3>1. n \in 1..Len(s) /\ PlainText(v) /\ BeginsWithToken(s, n) /\ Tokens[s] = <<x>> \o Tokens[v]
      BY <2>1, <2>9, WholeToken
    <3>2. n # 1 => s[1] \in Quotes
      BY DEF CopyLength
    <3> HIDE DEF n
    <3>3. Len(s) \in Nat /\ n \in 0..Len(s) /\ 1 \in 1..n
      BY <3>1, TextLength
    <3>4. x \in Texts \cup {Unterminated} /\ x[1] = s[1]
      BY <3>3, UptoIs DEF Texts
    <3>5. Tokens[v] \in TokenLists
      BY <3>1, TokensIs DEF PlainText
    <3> HIDE DEF x, v
    <3>6. Cardinality(At(<<x>> \o Tokens[v], Comma, d))
            = (IF x = Comma /\ d + Turn(x) = 0 THEN 1 ELSE 0) + Cardinality(At(Tokens[v], Comma, d + Turn(x)))
      BY <3>4, <3>5, AtCount, Zenon
    <3>7. CASE s[1] \in Quotes
      <4>1. x # Comma /\ Turn(x) = 0
        BY <3>4, <3>7, TokenWithin
      <4>2. Cardinality(At(Tokens[s], Comma, d)) = 0 + Cardinality(At(Tokens[v], Comma, d + 0))
        BY <3>1, <3>6, <4>1, Zenon DEF v, x
      <4>3. SplitLength(s) = n
        BY <2>1, <3>1, <3>7, QuoteSplit
      <4>4. Separators[s][d] = Separators[v][d]
        BY <2>2, <2>9, <3>7, <4>3, Zenon DEF v
      <4>5. /\ Separators[v][d] = Cardinality(At(Tokens[v], Comma, d))
            /\ Separators[v][d] \in Nat
        BY <2>4, <3>1 DEF v
      <4>6. d + 0 = d
        OBVIOUS
      <4> QED BY <4>2, <4>4, <4>5, <4>6
    <3>8. CASE s[1] \notin Quotes
      <4>1. n = 1
        BY <3>2, <3>8
      <4>2. x = <<s[1]>>
        BY <2>9, <4>1, FirstOfText DEF x
      <4>3. /\ x = Comma <=> s[1] = ","
            /\ Turn(x) = IF s[1] = "(" THEN 1 ELSE IF s[1] = ")" THEN -1 ELSE 0
        BY <4>2, TokenOfSymbol
      <4>4. Deeper(s[1], d) = d + Turn(x) /\ (s[1] = "," => d + Turn(x) = d)
        <5>1. CASE s[1] = "("
          <6>1. Turn(x) = 1 /\ Deeper(s[1], d) = d + 1 /\ s[1] # ","
            BY <2>3, <4>3, <5>1, DeeperIs
          <6> QED BY <6>1
        <5>2. CASE s[1] = ")"
          <6>1. Turn(x) = -1 /\ Deeper(s[1], d) = d - 1 /\ s[1] # ","
            BY <2>3, <4>3, <5>2, DeeperIs
          <6>2. d + -1 = d - 1
            OBVIOUS
          <6> QED BY <6>1, <6>2
        <5>3. CASE s[1] # "(" /\ s[1] # ")"
          <6>1. Turn(x) = 0 /\ Deeper(s[1], d) = d
            BY <2>3, <4>3, <5>3, DeeperIs
          <6>2. d + 0 = d
            OBVIOUS
          <6> QED BY <6>1, <6>2
        <5> QED BY <5>1, <5>2, <5>3
      <4>5. Separators[v][d + Turn(x)] = Cardinality(At(Tokens[v], Comma, d + Turn(x)))
        <5>1. d + Turn(x) \in Int
          BY <2>3, <4>4
        <5> QED BY <2>4, <3>1, <5>1 DEF v
      <4>6. Separators[s][d] = (IF s[1] = "," /\ d = 0 THEN 1 ELSE 0) + Separators[v][d + Turn(x)]
        BY <2>2, <2>9, <3>8, <4>1, <4>4, Zenon DEF v
      <4>7. s[1] = "," /\ d = 0 <=> x = Comma /\ d + Turn(x) = 0
        BY <4>3, <4>4, Zenon
      <4>8. Separators[s][d] = Cardinality(At(<<x>> \o Tokens[v], Comma, d))
        BY <3>6, <4>5, <4>6, <4>7, Zenon
      <4> QED BY <3>1, <4>8, Zenon DEF v, x
    <3> QED BY <3>7, <3>8
  <2>10. InWord(s) => s # <<>>
    BY NoSymbols DEF InWord
  <2> QED BY <2>5, <2>7, <2>8, <2>9
<1>2. Texts \subseteq G
  <2> HIDE DEF G
  <2> QED BY <1>1, TextInduction
<1> QED BY <1>2

LEMMA BeginsWithThree ==
  ASSUME NEW S, NEW s \in Seq(S), NEW a, NEW b, NEW c
  PROVE  Begins(s, <<a, b, c>>) <=> Len(s) > 2 /\ s[1] = a /\ s[2] = b /\ s[3] = c
<1>1. Len(s) \in Nat
  BY LenProperties
<1>2. CASE Len(s) > 2
  <2>1. 3 \in 0..Len(s)
    BY <1>1, <1>2
  <2>2. /\ Upto(s, 3) \in Seq(S) /\ Len(Upto(s, 3)) = 3
        /\ \A i \in 1..3 : Upto(s, 3)[i] = s[i]
    BY <2>1, UptoIs
  <2>3. Upto(s, 3) = <<s[1], s[2], s[3]>>
    BY <2>2
  <2>4. <<a, b, c>> \in Seq({a, b, c}) /\ Len(<<a, b, c>>) = 3
    OBVIOUS
  <2>5. SubSeq(<<a, b, c>>, 1, Len(<<a, b, c>>)) = <<a, b, c>>
    BY <2>4, SubSeqFull
  <2> QED BY <1>1, <1>2, <2>3, <2>4, <2>5 DEF Begins, IsPrefix, Upto
<1>3. CASE ~(Len(s) > 2)
  BY <1>1, <1>3 DEF Begins, IsPrefix
<1> QED BY <1>2, <1>3

\* Route of a SELECT.
SelectRoute(q) ==
  IF "META" \in ToSet(q) THEN "empty"
  ELSE IF ContainsSystemExpr(Tail(q)) \/ ~HasTopLevelFrom(Tail(q)) THEN "system"
  ELSE "translator"

IsSet(q) == q = <<>> \/ (q[1] = "SET" /\ (Len(q) = 1 \/ q[2] = " "))
IsDrop(q) == Len(q) > 2 /\ q[1] = "DROP" /\ q[2] = " " /\ q[3] = "TABLE"
IsUse(q) == Len(q) > 1 /\ q[1] = "USE" /\ q[2] = " "

\* Route without CASE.
LEMMA RouteIs ==
  ASSUME NEW q \in Texts
  PROVE  Route(q) =
           IF IsSet(q) THEN "ok"
           ELSE IF IsDrop(q) THEN "ddl"
           ELSE IF IsUse(q) THEN "use"
           ELSE IF q[1] = "SELECT" THEN SelectRoute(q)
           ELSE IF q[1] = "SHOW" THEN "show"
           ELSE "translator"
<1>1. Len(q) \in Nat /\ (Len(q) = 0 <=> q = <<>>)
  BY TextLength
<1>12. IsDrop(q) \/ IsUse(q) => Len(q) # 0
  <2>1. Len(q) > 2 \/ Len(q) > 1 => Len(q) # 0
    BY <1>1
  <2> QED BY <2>1 DEF IsDrop, IsUse
<1> DEFINE set == q = <<>> \/ q = <<"SET">> \/ Begins(q, <<"SET", " ">>)
           drop == Begins(q, <<"DROP", " ", "TABLE">>)
           use == Begins(q, <<"USE", " ">>)
           select == Begins(q, <<"SELECT">>)
           show == Begins(q, <<"SHOW">>)
<1>2. set <=> IsSet(q)
  <2>1. q = <<"SET">> <=> Len(q) = 1 /\ q[1] = "SET"
    <3>1. Len(q) = 1 => q = <<q[1]>>
      BY DEF Texts
    <3> QED BY <3>1
  <2>2. Begins(q, <<"SET", " ">>) <=> Len(q) > 1 /\ q[1] = "SET" /\ q[2] = " "
    BY BeginsWith DEF Texts
  <2>3. q # <<>> => Len(q) = 1 \/ Len(q) > 1
    BY <1>1
  <2>4. <<"SET">> # <<>> /\ (Len(q) > 1 => q # <<>>)
    BY <1>1
  <2>5. CASE q = <<>>
    BY <2>5 DEF IsSet
  <2>6. CASE q # <<>> /\ Len(q) = 1
    BY <2>1, <2>2, <2>6 DEF IsSet
  <2>7. CASE q # <<>> /\ Len(q) > 1
    BY <2>1, <2>2, <2>7 DEF IsSet
  <2> QED BY <2>3, <2>5, <2>6, <2>7
<1>3. drop <=> IsDrop(q)
  BY BeginsWithThree DEF Texts, IsDrop
<1>4. use <=> IsUse(q)
  BY BeginsWith DEF Texts, IsUse
<1>5. (select <=> q # <<>> /\ q[1] = "SELECT") /\ (show <=> q # <<>> /\ q[1] = "SHOW")
  <2>1. q # <<>> <=> Len(q) > 0
    BY <1>1
  <2> QED BY <2>1, BeginsWith DEF Texts
<1>6. q # <<>> \/ IsSet(q)
  BY DEF IsSet
<1> DEFINE r == SelectRoute(q)
<1>7. Route(q) =
        CASE set -> "ok" [] drop -> "ddl" [] use -> "use" [] select -> r [] show -> "show"
          [] OTHER -> "translator"
  BY Zenon DEF Route, SelectRoute
<1>8. /\ drop \/ use \/ select \/ show => q # <<>> /\ q[1] # "SET"
      /\ use \/ select \/ show => ~drop
      /\ select \/ show => ~use
      /\ show => ~select
  <2>1. /\ drop => q[1] = "DROP"
        /\ use => q[1] = "USE"
        /\ select => q[1] = "SELECT"
        /\ show => q[1] = "SHOW"
    BY <1>3, <1>4, <1>5, Zenon DEF IsDrop, IsUse
  <2>2. drop \/ use \/ select \/ show => q # <<>>
    BY <1>1, <1>3, <1>4, <1>5, <1>12, Zenon
  <2> HIDE DEF set, drop, use, select, show
  <2> QED BY <2>1, <2>2
<1>9. drop \/ use \/ select \/ show => ~set
  BY <1>2, <1>8 DEF IsSet
<1> HIDE DEF set, drop, use, select, show, r
<1>10. Route(q) =
        IF set THEN "ok" ELSE IF drop THEN "ddl" ELSE IF use THEN "use"
        ELSE IF select THEN r ELSE IF show THEN "show" ELSE "translator"
  BY <1>7, <1>8, <1>9
<1>11. (~set => (select <=> q[1] = "SELECT")) /\ (~set => (show <=> q[1] = "SHOW"))
  BY <1>2, <1>5, <1>6
<1> QED BY <1>2, <1>3, <1>4, <1>10, <1>11, Zenon DEF r

----------------------------------------------------------------------------
(* The tokens of what is left of a query.                                  *)

Semicolon == <<";">>

LEMMA TrimmedIs ==
  ASSUME NEW t \in TokenLists
  PROVE  LET u == TrimRight(t, Semicolons)
         IN  /\ u \in TokenLists /\ Len(u) \in Nat /\ Len(t) \in Nat /\ Len(u) <= Len(t)
             /\ DOMAIN u = 1..Len(u) /\ DOMAIN t = 1..Len(t)
             /\ \A i \in 1..Len(u) : u[i] = t[i]
             /\ \A i \in 1..Len(t) : i <= Len(u) \/ t[i] = Semicolon
<1>1. PICK S : S = Texts \cup {Unterminated} /\ t \in Seq(S)
  BY DEF TokenLists
<1>2. PICK m \in 0..Len(t) : /\ TrimRight(t, Semicolons) = Upto(t, m)
                             /\ AllIn(After(t, m), Semicolons)
  BY <1>1, TrimRightIs
<1>3. /\ Upto(t, m) \in Seq(S) /\ Len(Upto(t, m)) = m /\ \A i \in 1..m : Upto(t, m)[i] = t[i]
  BY <1>1, UptoIs
<1>4. PICK u \in Seq(S) : u = Upto(t, m)
  BY <1>3
<1>5. DOMAIN u = 1..Len(u) /\ DOMAIN t = 1..Len(t) /\ Len(t) \in Nat
  BY <1>1, LenProperties
<1>6. \A i \in 1..(Len(t) - m) : After(t, m)[i] = t[m + i] /\ Len(After(t, m)) = Len(t) - m
  BY <1>1, AfterIs
<1>7. ASSUME NEW i \in 1..Len(t), ~(i <= m) PROVE t[i] = Semicolon
  <2>1. i - m \in 1..(Len(t) - m) /\ m + (i - m) = i
    BY <1>5, <1>7
  <2> QED BY <1>2, <1>6, <2>1 DEF AllIn, Semicolons, Semicolon
<1>8. m \in Nat /\ m <= Len(t)
  BY <1>5
<1> QED BY <1>1, <1>2, <1>3, <1>4, <1>5, <1>7, <1>8 DEF TokenLists

LEMMA TrimmedDepth ==
  ASSUME NEW t \in TokenLists, NEW i \in 0..Len(TrimRight(t, Semicolons))
  PROVE  Depth(TrimRight(t, Semicolons), i) = Depth(t, i)
<1>1. PICK u \in TokenLists : u = TrimRight(t, Semicolons)
  BY TrimmedIs
<1>2. \A j \in 1..i : u[j] = t[j]
  BY <1>1, TrimmedIs
<1>3. \A c : {j \in 1..i : u[j] = c} = {j \in 1..i : t[j] = c}
  BY <1>2
<1>4. Depth(u, i) = Depth(t, i)
  BY <1>3, Zenon DEF Depth
<1> QED BY <1>1, <1>4

LEMMA TrimmedTopLevel ==
  ASSUME NEW t \in TokenLists, NEW c, c # Semicolon
  PROVE  TopLevel(TrimRight(t, Semicolons), c) = TopLevel(t, c)
<1>1. PICK u \in TokenLists :
        /\ u = TrimRight(t, Semicolons)
        /\ Len(u) \in Nat /\ Len(t) \in Nat /\ Len(u) <= Len(t)
        /\ DOMAIN u = 1..Len(u) /\ DOMAIN t = 1..Len(t)
        /\ \A i \in 1..Len(u) : u[i] = t[i]
        /\ \A i \in 1..Len(t) : i <= Len(u) \/ t[i] = Semicolon
  BY TrimmedIs
<1>2. \A i \in 1..Len(u) : Depth(u, i) = Depth(t, i)
  <2>1. \A i \in 1..Len(u) : i \in 0..Len(u)
    BY <1>1
  <2> QED BY <1>1, <2>1, TrimmedDepth
<1>3. \A i : i \in DOMAIN t /\ t[i] = c <=> i \in DOMAIN u /\ u[i] = c
  BY <1>1
<1>4. TopLevel(u, c) = TopLevel(t, c)
  BY <1>1, <1>2, <1>3 DEF TopLevel
<1> QED BY <1>1, <1>4

----------------------------------------------------------------------------
(* systemSelect.                                                           *)

AnswerPhases == {"received", "cleaned", "routed", "answered"}

\* What has been found out about the text at each phase.
AnswerInv ==
  /\ TextInv
  /\ phase \in AnswerPhases
  /\ phase \in {"routed", "answered"} => route = Route(text)
  /\ phase = "answered" => route = "system" /\ columns = SystemColumns(text)

\* The route is that of the text, and the columns are those of a SELECT that
\* systemSelect answers (handler.go HandleQuery, meta.go handleMeta).
THEOREM AnswerOfText == Spec => []AnswerInv
<1>1. Init => AnswerInv
  BY QueriesAssumption DEF Init, TextInv, AnswerInv, AnswerPhases
<1>2. ASSUME AnswerInv, [Next]_vars PROVE AnswerInv'
  <2>1. TextInv'
    BY <1>2 DEF AnswerInv, TextInv, Next, vars, HandleQuery, HandleMeta, SystemSelect
  <2>2. CASE HandleQuery
    BY <2>1, <2>2 DEF AnswerInv, AnswerPhases, HandleQuery
  <2>3. CASE HandleMeta
    BY <2>1, <2>3 DEF AnswerInv, AnswerPhases, HandleMeta
  <2>4. CASE SystemSelect
    BY <1>2, <2>1, <2>4 DEF AnswerInv, AnswerPhases, SystemSelect
  <2>5. CASE UNCHANGED vars
    BY <1>2, <2>1, <2>5 DEF AnswerInv, AnswerPhases, vars
  <2> QED BY <1>2, <2>2, <2>3, <2>4, <2>5 DEF Next
<1> QED BY <1>1, <1>2, PTL DEF Spec

\* w is the first word of q, and a blank is behind it.
HasHead(q, w) == Len(q) > 1 /\ q[1] = w /\ q[2] = " "

\* The SELECT that systemSelect looks for is the one the text begins with.
LEMMA SelectFound ==
  ASSUME NEW q \in Texts, HasHead(q, "SELECT")
  PROVE  SystemColumns(q) = Separators[After(q, 2)][0] + 1
<1> DEFINE w == <<"SELECT", " ">>
           found == {j \in 1..(Len(q) - Len(w) + 1) : Begins(After(q, j - 1), w)}
<1>1. Len(q) \in Nat /\ Len(w) = 2
  BY TextLength
<1>2. After(q, 1 - 1) = q
  BY Whole DEF Texts
<1>3. Begins(q, w) /\ Len(q) > 1
  BY BeginsWith DEF Texts, HasHead
<1>4. 1 \in found /\ found \subseteq Nat /\ \A j \in found : 1 <= j
  <2>1. 1 \in 1..(Len(q) - Len(w) + 1)
    <3> HIDE DEF w
    <3> QED BY <1>1, <1>3
  <2>2. Begins(After(q, 1 - 1), w)
    <3> HIDE DEF w
    <3> QED BY <1>2, <1>3
  <2>3. 1 \in found
    <3> HIDE DEF w
    <3> QED BY <2>1, <2>2
  <2>4. found \subseteq 1..(Len(q) - Len(w) + 1)
    <3> HIDE DEF w
    <3> QED OBVIOUS
  <2>5. \A j \in 1..(Len(q) - Len(w) + 1) : j \in Nat /\ 1 <= j
    <3> HIDE DEF w
    <3> QED BY <1>1
  <2> HIDE DEF w, found
  <2> QED BY <2>3, <2>4, <2>5
<1>5. Min(found) = 1
  <2> HIDE DEF found
  <2>1. PICK m \in found : m = Min(found) /\ \A j \in found : m <= j
    BY <1>4 DEF Min
  <2>2. m <= 1 /\ 1 <= m /\ m \in Nat
    BY <1>4, <2>1
  <2> QED BY <2>1, <2>2
<1>6. Find(q, w, 1) = 1
  <2>1. Find(q, w, 1) = IF found = {} THEN 0 ELSE Min(found)
    BY Zenon DEF Find
  <2> HIDE DEF found
  <2> QED BY <1>4, <1>5, <2>1
<1>7. SystemColumns(q) = SplitTopLevel(After(q, 1 + 1))
  <2>1. SystemColumns(q) =
          SplitTopLevel(IF Find(q, w, 1) = 0 THEN q ELSE After(q, Find(q, w, 1) + 1))
    BY Zenon DEF SystemColumns
  <2>2. 1 # 0
    OBVIOUS
  <2> HIDE DEF w
  <2> QED BY <1>6, <2>1, <2>2, Zenon
<1>8. 1 + 1 = 2
  OBVIOUS
<1> QED BY <1>7, <1>8 DEF SplitTopLevel

\* The first word of a text, in front of a blank, is the first token.
LEMMA HeadWord ==
  ASSUME NEW q, PlainText(q), NEW w \in WordSymbols, HasHead(q, w)
  PROVE  /\ PlainText(After(q, 2)) /\ Tokens[q] = <<<<w>>>> \o Tokens[After(q, 2)]
         /\ <<w>> \in Texts
<1>1. q \in Texts /\ q # <<>> /\ Len(q) \in Nat /\ Len(q) > 1
  <2>1. q \in Texts /\ Len(q) > 1
    BY DEF PlainText, HasHead
  <2>2. Len(q) \in Nat /\ (Len(q) = 0 <=> q = <<>>)
    BY <2>1, TextLength
  <2> QED BY <2>1, <2>2
<1>2. q[1] \notin Blanks /\ q[1] \notin Quotes /\ q[2] \in Blanks /\ q[2] \notin WordSymbols
  BY DEF HasHead, WordSymbols, Blanks, Quotes
<1>3. CopyLength(q) = 1 /\ ~InWord(q)
  BY <1>2 DEF CopyLength, InWord
<1>4. PlainText(After(q, 1)) /\ Tokens[q] = <<Upto(q, 1)>> \o Tokens[After(q, 1)]
  BY <1>1, <1>2, <1>3, WholeToken
<1>5. Upto(q, 1) = <<q[1]>> /\ Upto(q, 1) \in Texts
  BY <1>1, FirstOfText
<1>6. PICK r \in Texts : r = After(q, 1) /\ Len(r) = Len(q) - 1 /\ r[1] = q[1 + 1]
  <2>1. 1 \in 0..Len(q) /\ 1 \in 1..(Len(q) - 1)
    BY <1>1
  <2> QED BY <1>1, <2>1, AfterIs DEF Texts
<1>7. r # <<>> /\ r[1] \in Blanks
  <2>1. 1 + 1 = 2
    OBVIOUS
  <2> QED BY <1>1, <1>2, <1>6, <2>1, TextLength
<1>8. PlainText(After(r, 1)) /\ Tokens[r] = Tokens[After(r, 1)]
  BY <1>4, <1>6, <1>7, Blank
<1>9. After(r, 1) = After(q, 2)
  <2>1. 1 + 1 <= Len(q) /\ 1 + 1 = 2
    BY <1>1
  <2> QED BY <1>1, <1>6, <2>1, AfterAfter DEF Texts
<1>10. q[1] = w
  BY DEF HasHead
<1> QED BY <1>4, <1>5, <1>6, <1>8, <1>9, <1>10

\* splitTopLevel counts the expressions of a SELECT.
LEMMA ColumnsOfText ==
  ASSUME NEW q, PlainText(q), NoDoubles(q), HasHead(q, "SELECT")
  PROVE  SystemColumns(q) = Cardinality(At(Tokens[q], Comma, 0)) + 1
<1>1. q \in Texts /\ Len(q) \in Nat /\ Len(q) > 1
  BY TextLength DEF PlainText, HasHead
<1>2. "SELECT" \in WordSymbols
  BY DEF WordSymbols
<1>3. /\ PlainText(After(q, 2)) /\ Tokens[q] = <<<<"SELECT">>>> \o Tokens[After(q, 2)]
      /\ <<"SELECT">> \in Texts
  BY <1>2, HeadWord
<1> DEFINE x == <<"SELECT">>
           v == After(q, 2)
<1>4. NoDoubles(v)
  <2>1. 2 \in 0..Len(q)
    BY <1>1
  <2> QED BY <1>1, <2>1, NoDoublesAfter
<1>5. v \in Texts /\ Tokens[v] \in TokenLists
  BY <1>3, TokensIs DEF PlainText
<1>6. Separators[v][0] = Cardinality(At(Tokens[v], Comma, 0))
  <2>1. 0 \in Int
    OBVIOUS
  <2> HIDE DEF v
  <2> QED BY <1>3, <1>4, <1>5, <2>1, SeparatorsCount DEF v
<1>7. x # Comma /\ Turn(x) = 0
  <2>1. x[1] = "SELECT"
    OBVIOUS
  <2> QED BY <1>2, <2>1, TokenWithin
<1>8. /\ Cardinality(At(<<x>> \o Tokens[v], Comma, 0))
           = (IF x = Comma /\ 0 + Turn(x) = 0 THEN 1 ELSE 0)
               + Cardinality(At(Tokens[v], Comma, 0 + Turn(x)))
      /\ Cardinality(At(Tokens[v], Comma, 0)) \in Nat
  <2>1. 0 \in Int /\ x \in Texts \cup {Unterminated}
    BY <1>3
  <2> HIDE DEF x, v
  <2> QED BY <1>5, <2>1, AtCount
<1>9. Cardinality(At(<<x>> \o Tokens[v], Comma, 0)) = Cardinality(At(Tokens[v], Comma, 0))
  <2>1. 0 + 0 = 0
    OBVIOUS
  <2>2. Cardinality(At(<<x>> \o Tokens[v], Comma, 0)) = 0 + Cardinality(At(Tokens[v], Comma, 0))
    <3> HIDE DEF x, v
    <3> QED BY <1>7, <1>8, <2>1, Zenon
  <2> HIDE DEF x, v
  <2> QED BY <1>8, <2>2
<1> HIDE DEF x, v
<1>10. Tokens[q] = <<x>> \o Tokens[v]
  BY <1>3 DEF x, v
<1>11. SystemColumns(q) = Separators[v][0] + 1
  BY <1>1, SelectFound DEF v
<1> QED BY <1>6, <1>9, <1>10, <1>11, Zenon

\* What is left of a query is a plain text.
LEMMA TextIsPlain ==
  ASSUME NEW s \in Texts, WellFormed(Tokens[s])
  PROVE  /\ PlainText(Cleaned(Stripped[s]))
         /\ Tokens[Cleaned(Stripped[s])] = TrimRight(Tokens[s], Semicolons)
<1>1. /\ Cleaned(Stripped[s]) \in Texts
      /\ Tokens[Cleaned(Stripped[s])] = TrimRight(Tokens[s], Semicolons)
  BY CleanedKeepsTokens
<1>2. CleanText(Cleaned(Stripped[s]))
  BY CleanedIs
<1> QED BY <1>1, <1>2 DEF CleanText, PlainText

\* Only a SELECT is answered by systemSelect.
LEMMA SystemIsSelect ==
  ASSUME NEW q \in Texts, Route(q) = "system" PROVE q[1] = "SELECT"
BY RouteIs, Zenon

\* systemSelect answers with one column for each expression of any SELECT that it
\* is given (meta.go splitTopLevel, systemSelect).
THEOREM ColumnsCounted == Spec => []OneColumnEach
<1>1. ASSUME AnswerInv, phase = "answered", WellFormed(Sql), Len(text) > 1 /\ text[2] = " ",
             NoDoubles(text)
      PROVE  columns = Cardinality(TopLevel(Sql, Comma)) + 1
  <2>1. query \in Texts /\ text = Cleaned(Stripped[query])
    BY <1>1 DEF AnswerInv, TextInv, StripSQLComments
  <2>2. PlainText(text) /\ Tokens[text] = TrimRight(Sql, Semicolons) /\ Sql \in TokenLists
    BY <1>1, <2>1, TextIsPlain, TokensIs DEF Sql
  <2>3. route = "system" /\ Route(text) = "system" /\ columns = SystemColumns(text)
    BY <1>1 DEF AnswerInv
  <2>4. text[1] = "SELECT"
    BY <2>2, <2>3, SystemIsSelect DEF PlainText
  <2>5. columns = Cardinality(At(Tokens[text], Comma, 0)) + 1
    BY <1>1, <2>2, <2>3, <2>4, ColumnsOfText DEF HasHead
  <2>6. At(Tokens[text], Comma, 0) = TopLevel(Tokens[text], Comma)
    BY <2>2, TopLevelIs, TokensIs DEF PlainText
  <2>7. TopLevel(Tokens[text], Comma) = TopLevel(Sql, Comma)
    <3>1. Comma # Semicolon
      BY DEF Comma, Semicolon
    <3> QED BY <2>2, <3>1, TrimmedTopLevel
  <2> QED BY <2>5, <2>6, <2>7
<1>2. AnswerInv => OneColumnEach
  BY <1>1, Zenon DEF OneColumnEach, NoDoubles, Comma
<1> QED BY <1>2, AnswerOfText, PTL

----------------------------------------------------------------------------
(* hasTopLevelFrom.                                                        *)

\* The depth behind a symbol, to hasTopLevelFrom.
Inside(c, depth) ==
  CASE c = "(" -> depth + 1
    [] c = ")" -> Max({depth - 1, 0})
    [] OTHER -> depth

LEMMA InsideIs ==
  ASSUME NEW c, NEW d \in Nat
  PROVE  /\ Inside(c, d) = IF c = "(" THEN d + 1
                           ELSE IF c = ")" THEN (IF d = 0 THEN 0 ELSE d - 1) ELSE d
         /\ Inside(c, d) \in Nat
<1>1. CASE c = "("
  BY <1>1 DEF Inside
<1>2. CASE c = ")"
  <2> DEFINE S == {d - 1, 0}
             m == IF d = 0 THEN 0 ELSE d - 1
  <2>1. m \in S /\ m \in Nat /\ \A y \in S : m >= y
    OBVIOUS
  <2>2. S \subseteq Int
    OBVIOUS
  <2> HIDE DEF S, m
  <2>3. PICK k \in S : k = Max(S) /\ \A y \in S : k >= y
    BY <2>1 DEF Max
  <2>4. k = m
    BY <2>1, <2>2, <2>3
  <2>5. Inside(c, d) = Max(S)
    BY <1>2 DEF Inside, S
  <2> QED BY <1>2, <2>1, <2>3, <2>4, <2>5 DEF m
<1>3. CASE c # "(" /\ c # ")"
  BY <1>3 DEF Inside
<1> QED BY <1>1, <1>2, <1>3

FromStep(g, s) ==
  [depth \in Nat |-> [bounded \in BOOLEAN |->
     IF s = <<>> THEN FALSE
     ELSE IF s[1] \in Quotes THEN g[After(s, LiteralLength(s))][depth][FALSE]
     ELSE LET inside == CASE s[1] = "(" -> depth + 1
                          [] s[1] = ")" -> Max({depth - 1, 0})
                          [] OTHER -> depth
          IN  \/ /\ inside = 0 /\ s[1] = "FROM" /\ bounded
                 /\ Len(s) = 1 \/ s[2] \in Boundaries
              \/ g[After(s, 1)][inside][s[1] \in Boundaries]]]

\* FROM is seen right at the front of s.
SeenFirst(s, d, b) ==
  Inside(s[1], d) = 0 /\ s[1] = "FROM" /\ b /\ (Len(s) = 1 \/ s[2] \in Boundaries)

LEMMA FromStepIs ==
  ASSUME NEW g, NEW s, NEW d \in Nat, NEW b \in BOOLEAN
  PROVE  FromStep(g, s)[d][b] =
           IF s = <<>> THEN FALSE
           ELSE IF s[1] \in Quotes THEN g[After(s, LiteralLength(s))][d][FALSE]
           ELSE SeenFirst(s, d, b) \/ g[After(s, 1)][Inside(s[1], d)][s[1] \in Boundaries]
  BY Zenon DEF FromStep, SeenFirst, Inside

LEMMA FromStepFits ==
  ASSUME NEW s \in Texts
  PROVE  /\ \A g : (\A r : Shorter(r, s) => g[r] \in [Nat -> [BOOLEAN -> BOOLEAN]])
                     => FromStep(g, s) \in [Nat -> [BOOLEAN -> BOOLEAN]]
         /\ \A g, h : (\A r : Shorter(r, s) => g[r] = h[r])
                     => FromStep(g, s) = FromStep(h, s)
<1>0. \A g : FromStep(g, s) = [d \in Nat |-> [b \in BOOLEAN |-> FromStep(g, s)[d][b]]]
  BY Zenon DEF FromStep
<1>1. CASE s = <<>>
  <2>1. \A g : \A d \in Nat : \A b \in BOOLEAN : FromStep(g, s)[d][b] = FALSE
    BY <1>1, FromStepIs, Zenon
  <2>2. \A g : FromStep(g, s) = [d \in Nat |-> [b \in BOOLEAN |-> FALSE]]
    BY <1>1, Zenon DEF FromStep
  <2>3. [d \in Nat |-> [b \in BOOLEAN |-> FALSE]] \in [Nat -> [BOOLEAN -> BOOLEAN]]
    OBVIOUS
  <2>4. \A g : FromStep(g, s) \in [Nat -> [BOOLEAN -> BOOLEAN]]
    BY <2>2, <2>3, Zenon
  <2> QED BY <2>2, <2>4, Zenon
<1>2. CASE s # <<>>
  <2> DEFINE l == LiteralLength(s)
  <2>1. Shorter(After(s, 1), s) /\ (s[1] \in Quotes => Shorter(After(s, l), s))
    <3>1. CopyLength(s) \in Nat \ {0} /\ 1 \in Nat \ {0}
      <4>1. CopyLength(s) \in 1..Len(s)
        BY <1>2, CopyRange
      <4> QED BY <4>1
    <3>2. Shorter(After(s, 1), s) /\ Shorter(After(s, CopyLength(s)), s)
      BY <1>2, <3>1, ShorterAfter
    <3>3. s[1] \in Quotes => CopyLength(s) = l
      BY DEF CopyLength
    <3> QED BY <3>2, <3>3
  <2> HIDE DEF l
  <2>2. \A d \in Nat : Inside(s[1], d) \in Nat
    BY InsideIs
  <2>3. ASSUME NEW g, \A r : Shorter(r, s) => g[r] \in [Nat -> [BOOLEAN -> BOOLEAN]]
        PROVE  FromStep(g, s) \in [Nat -> [BOOLEAN -> BOOLEAN]]
    <3>1. s[1] \in Quotes => g[After(s, l)] \in [Nat -> [BOOLEAN -> BOOLEAN]]
      BY <2>1, <2>3
    <3>2. ASSUME NEW d \in Nat, NEW b \in BOOLEAN PROVE FromStep(g, s)[d][b] \in BOOLEAN
      <4>1. CASE s[1] \in Quotes
        <5>1. FromStep(g, s)[d][b] = g[After(s, l)][d][FALSE]
          BY <1>2, <4>1, FromStepIs, Zenon DEF l
        <5>2. g[After(s, l)][d] \in [BOOLEAN -> BOOLEAN]
          BY <3>1, <4>1
        <5>3. g[After(s, l)][d][FALSE] \in BOOLEAN
          BY <5>2, Zenon
        <5> QED BY <5>1, <5>3, Zenon
      <4>2. CASE s[1] \notin Quotes
        <5>1. FromStep(g, s)[d][b] =
                (SeenFirst(s, d, b) \/ g[After(s, 1)][Inside(s[1], d)][s[1] \in Boundaries])
          BY <1>2, <4>2, FromStepIs, Zenon
        <5> QED BY <5>1, Zenon
      <4> QED BY <4>1, <4>2
    <3> DEFINE p == FromStep(g, s)
    <3>3. p = [d \in Nat |-> [b \in BOOLEAN |-> p[d][b]]]
      BY <1>0, Zenon
    <3>4. \A d \in Nat : \A b \in BOOLEAN : p[d][b] \in BOOLEAN
      BY <3>2
    <3> HIDE DEF p
    <3>5. \A d \in Nat : [b \in BOOLEAN |-> p[d][b]] \in [BOOLEAN -> BOOLEAN]
      BY <3>4, Zenon
    <3>6. [d \in Nat |-> [b \in BOOLEAN |-> p[d][b]]] \in [Nat -> [BOOLEAN -> BOOLEAN]]
      BY <3>5, Zenon
    <3> QED BY <3>3, <3>6, Zenon DEF p
  <2>4. ASSUME NEW g, NEW h, \A r : Shorter(r, s) => g[r] = h[r]
        PROVE  FromStep(g, s) = FromStep(h, s)
    <3>1. g[After(s, 1)] = h[After(s, 1)] /\ (s[1] \in Quotes => g[After(s, l)] = h[After(s, l)])
      BY <2>1, <2>4
    <3>2. ASSUME NEW d \in Nat, NEW b \in BOOLEAN PROVE FromStep(g, s)[d][b] = FromStep(h, s)[d][b]
      <4>1. CASE s[1] \in Quotes
        <5>1. FromStep(g, s)[d][b] = g[After(s, l)][d][FALSE]
          BY <1>2, <4>1, FromStepIs, Zenon DEF l
        <5>2. FromStep(h, s)[d][b] = h[After(s, l)][d][FALSE]
          BY <1>2, <4>1, FromStepIs, Zenon DEF l
        <5> QED BY <3>1, <4>1, <5>1, <5>2, Zenon
      <4>2. CASE s[1] \notin Quotes
        <5>1. FromStep(g, s)[d][b] =
                (SeenFirst(s, d, b) \/ g[After(s, 1)][Inside(s[1], d)][s[1] \in Boundaries])
          BY <1>2, <4>2, FromStepIs, Zenon
        <5>2. FromStep(h, s)[d][b] =
                (SeenFirst(s, d, b) \/ h[After(s, 1)][Inside(s[1], d)][s[1] \in Boundaries])
          BY <1>2, <4>2, FromStepIs, Zenon
        <5> QED BY <3>1, <5>1, <5>2, Zenon
      <4> QED BY <4>1, <4>2
    <3>3. /\ FromStep(g, s) = [d \in Nat |-> [b \in BOOLEAN |-> FromStep(g, s)[d][b]]]
          /\ FromStep(h, s) = [d \in Nat |-> [b \in BOOLEAN |-> FromStep(h, s)[d][b]]]
      BY <1>0
    <3> DEFINE p == FromStep(g, s)
               q == FromStep(h, s)
    <3>4. \A d \in Nat : \A b \in BOOLEAN : p[d][b] = q[d][b]
      BY <3>2
    <3>5. p = [d \in Nat |-> [b \in BOOLEAN |-> p[d][b]]] /\ q = [d \in Nat |-> [b \in BOOLEAN |-> q[d][b]]]
      BY <3>3
    <3> HIDE DEF p, q
    <3>6. \A d \in Nat : [b \in BOOLEAN |-> p[d][b]] = [b \in BOOLEAN |-> q[d][b]]
      BY <3>4, Zenon
    <3>7. p = q
      BY <3>5, <3>6, Zenon
    <3> QED BY <3>7 DEF p, q
  <2> QED BY <2>3, <2>4
<1> QED BY <1>1, <1>2

LEMMA FromSeenIs ==
  /\ FromSeen \in [Texts -> [Nat -> [BOOLEAN -> BOOLEAN]]]
  /\ \A s \in Texts : FromSeen[s] = FromStep(FromSeen, s)
<1> DEFINE V == [Nat -> [BOOLEAN -> BOOLEAN]]
           step == [s \in Texts |-> [g \in [Texts -> V] |-> FromStep(g, s)]]
<1>1. step \in StepsTo(V) /\ Descends(V, step)
  BY FromStepFits DEF Shorter, StepsTo, Descends
<1>2. PICK f \in [Texts -> V] : \A s \in Texts : f[s] = step[s][f]
  <2>1. [d \in Nat |-> [b \in BOOLEAN |-> FALSE]] \in V
    OBVIOUS
  <2> HIDE DEF V, step
  <2> QED BY <1>1, <2>1, Solvable
<1>3. f = [s \in Texts |-> FromStep(f, s)]
  <2> HIDE DEF V
  <2> QED BY <1>2
<1>4. FromSeen = [s \in Texts |-> FromStep(FromSeen, s)]
  <2> HIDE DEF V
  <2> QED BY <1>3, Zenon DEF FromSeen, FromStep
<1>5. FromSeen \in [Texts -> V]
  <2> DEFINE G == {s \in Texts : FromSeen[s] \in V}
  <2>1. ASSUME NEW s \in Texts, \A r : Shorter(r, s) => r \in G PROVE s \in G
    <3>1. \A r : Shorter(r, s) => FromSeen[r] \in V
      <4> HIDE DEF V
      <4> QED BY <2>1
    <3>2. FromStep(FromSeen, s) \in V
      BY <3>1, FromStepFits, Zenon
    <3>3. FromSeen[s] = FromStep(FromSeen, s)
      BY <1>4, Zenon
    <3> HIDE DEF V
    <3> QED BY <3>2, <3>3
  <2> HIDE DEF V
  <2>2. Texts \subseteq G
    <3> HIDE DEF G
    <3> QED BY <2>1, TextInduction
  <2> QED BY <1>4, <2>2
<1>6. \A s \in Texts : FromSeen[s] = FromStep(FromSeen, s)
  BY <1>4, Zenon
<1> QED BY <1>5, <1>6

\* FROM is seen in s, d parentheses deep, behind a boundary or not.
LEMMA SeenIs ==
  ASSUME NEW s \in Texts, NEW d \in Nat, NEW b \in BOOLEAN
  PROVE  FromSeen[s][d][b] =
           IF s = <<>> THEN FALSE
           ELSE IF s[1] \in Quotes THEN FromSeen[After(s, LiteralLength(s))][d][FALSE]
           ELSE SeenFirst(s, d, b) \/ FromSeen[After(s, 1)][Inside(s[1], d)][s[1] \in Boundaries]
<1>1. FromSeen[s][d][b] = FromStep(FromSeen, s)[d][b]
  BY FromSeenIs, Zenon
<1> QED BY <1>1, FromStepIs, Zenon

LEMMA NothingSeen ==
  ASSUME NEW d \in Nat, NEW b \in BOOLEAN PROVE ~FromSeen[<<>>][d][b]
BY NoSymbols, SeenIs, Zenon

LEMMA SeenPastQuote ==
  ASSUME NEW s \in Texts, s # <<>>, s[1] \in Quotes, NEW d \in Nat, NEW b \in BOOLEAN
  PROVE  FromSeen[s][d][b] = FromSeen[After(s, CopyLength(s))][d][FALSE]
<1>1. CopyLength(s) = LiteralLength(s)
  BY DEF CopyLength
<1> QED BY <1>1, SeenIs, Zenon

LEMMA SeenPastBoundary ==
  ASSUME NEW s \in Texts, s # <<>>, s[1] \notin Quotes, s[1] \in Boundaries,
         NEW d \in Nat, NEW b \in BOOLEAN
  PROVE  FromSeen[s][d][b] =
           (SeenFirst(s, d, b) \/ FromSeen[After(s, 1)][Inside(s[1], d)][TRUE])
<1>1. (s[1] \in Boundaries) = TRUE
  BY Zenon
<1> QED BY <1>1, SeenIs, Zenon

LEMMA SeenPastSymbol ==
  ASSUME NEW s \in Texts, s # <<>>, s[1] \notin Quotes, s[1] \notin Boundaries,
         NEW d \in Nat, NEW b \in BOOLEAN
  PROVE  FromSeen[s][d][b] =
           (SeenFirst(s, d, b) \/ FromSeen[After(s, 1)][Inside(s[1], d)][FALSE])
<1>1. (s[1] \in Boundaries) = FALSE
  <2> DEFINE e == s[1] \in Boundaries
  <2>1. e = TRUE \/ e = FALSE
    OBVIOUS
  <2>2. e # TRUE
    OBVIOUS
  <2> QED BY <2>1, <2>2
<1> QED BY <1>1, SeenIs, Zenon

\* n times c.
Copies(c, n) == [i \in 1..n |-> c]

LEMMA CopiesAre ==
  ASSUME NEW c \in Symbols, NEW n \in Nat
  PROVE  Copies(c, n) \in Texts /\ Len(Copies(c, n)) = n /\ \A i \in 1..n : Copies(c, n)[i] = c
<1>1. Copies(c, n) \in [1..n -> Symbols]
  BY DEF Copies
<1>2. Copies(c, n) \in Seq(Symbols)
  BY <1>1, IsASeq DEF Copies
<1>3. DOMAIN Copies(c, n) = 1..n /\ DOMAIN Copies(c, n) = 1..Len(Copies(c, n))
  BY <1>2, LenProperties DEF Copies
<1>4. Len(Copies(c, n)) = n
  BY <1>2, <1>3, LenProperties
<1> QED BY <1>2, <1>4 DEF Texts, Copies

MaskedStep(g, s) ==
  IF s = <<>> THEN <<>>
  ELSE [i \in 1..CopyLength(s) |-> s[1]] \o g[After(s, CopyLength(s))]

LEMMA MaskedStepFits ==
  ASSUME NEW s \in Texts
  PROVE  /\ \A g : (\A r : Shorter(r, s) => g[r] \in Texts) => MaskedStep(g, s) \in Texts
         /\ \A g, h : (\A r : Shorter(r, s) => g[r] = h[r]) => MaskedStep(g, s) = MaskedStep(h, s)
<1>1. CASE s = <<>>
  BY <1>1, NoSymbols DEF MaskedStep
<1>2. CASE s # <<>>
  <2> DEFINE n == CopyLength(s)
             v == After(s, n)
  <2>1. n \in Nat \ {0} /\ n \in Nat
    <3>1. n \in 1..Len(s)
      BY <1>2, CopyRange
    <3> HIDE DEF n
    <3> QED BY <3>1
  <2>2. Shorter(v, s)
    <3> HIDE DEF n
    <3> QED BY <1>2, <2>1, ShorterAfter
  <2>3. Copies(s[1], n) \in Texts
    <3>1. s[1] \in Symbols
      BY <1>2, FirstSymbol
    <3> HIDE DEF n
    <3> QED BY <2>1, <3>1, CopiesAre
  <2>4. \A g : MaskedStep(g, s) = Copies(s[1], n) \o g[v]
    BY <1>2, Zenon DEF MaskedStep, Copies
  <2> HIDE DEF n, v
  <2>5. ASSUME NEW g, \A r : Shorter(r, s) => g[r] \in Texts PROVE MaskedStep(g, s) \in Texts
    <3>1. g[v] \in Texts
      BY <2>2, <2>5
    <3>2. Copies(s[1], n) \o g[v] \in Texts
      BY <2>3, <3>1, JoinedText
    <3> QED BY <2>4, <3>2, Zenon
  <2>6. ASSUME NEW g, NEW h, \A r : Shorter(r, s) => g[r] = h[r]
        PROVE  MaskedStep(g, s) = MaskedStep(h, s)
    <3>1. g[v] = h[v]
      BY <2>2, <2>6
    <3> QED BY <2>4, <3>1, Zenon
  <2> QED BY <2>5, <2>6
<1> QED BY <1>1, <1>2

LEMMA MaskedIs ==
  /\ Masked \in [Texts -> Texts]
  /\ \A s \in Texts : Masked[s] = MaskedStep(Masked, s)
<1> DEFINE step == [s \in Texts |-> [g \in [Texts -> Texts] |-> MaskedStep(g, s)]]
<1>1. step \in StepsTo(Texts) /\ Descends(Texts, step)
  BY MaskedStepFits DEF Shorter, StepsTo, Descends
<1>2. PICK f \in [Texts -> Texts] : \A s \in Texts : f[s] = step[s][f]
  <2> HIDE DEF step
  <2> QED BY <1>1, NoSymbols, Solvable
<1>3. f = [s \in Texts |-> MaskedStep(f, s)]
  BY <1>2
<1>4. Masked = [s \in Texts |-> MaskedStep(Masked, s)]
  BY <1>3, Zenon DEF Masked, MaskedStep
<1>5. Masked \in [Texts -> Texts]
  <2> DEFINE G == {s \in Texts : Masked[s] \in Texts}
  <2>1. ASSUME NEW s \in Texts, \A r : Shorter(r, s) => r \in G PROVE s \in G
    <3>1. \A r : Shorter(r, s) => Masked[r] \in Texts
      BY <2>1
    <3>2. MaskedStep(Masked, s) \in Texts
      BY <3>1, MaskedStepFits
    <3>3. Masked[s] = MaskedStep(Masked, s)
      BY <1>4, Zenon
    <3> QED BY <3>2, <3>3
  <2>2. Texts \subseteq G
    <3> HIDE DEF G
    <3> QED BY <2>1, TextInduction
  <2> QED BY <1>4, <2>2
<1>6. \A s \in Texts : Masked[s] = MaskedStep(Masked, s)
  BY <1>4, Zenon
<1> QED BY <1>5, <1>6

LEMMA MaskedJoin ==
  ASSUME NEW s \in Texts, s # <<>>
  PROVE  LET n == CopyLength(s)
             v == After(s, n)
         IN  /\ n \in 1..Len(s) /\ v \in Texts /\ Len(v) = Len(s) - n
             /\ Shorter(v, s) /\ \A i \in 1..(Len(s) - n) : v[i] = s[n + i]
             /\ Copies(s[1], n) \in Texts /\ Len(Copies(s[1], n)) = n
             /\ \A i \in 1..n : Copies(s[1], n)[i] = s[1]
             /\ Masked[s] = Copies(s[1], n) \o Masked[v]
<1> DEFINE n == CopyLength(s)
           v == After(s, n)
<1>1. n \in 1..Len(s) /\ Len(s) \in Nat
  BY CopyRange, TextLength
<1>2. s[1] \in Symbols
  BY FirstSymbol
<1>3. Masked[s] = Copies(s[1], n) \o Masked[v]
  <2>1. Masked[s] = MaskedStep(Masked, s)
    BY MaskedIs
  <2> QED BY <2>1, Zenon DEF MaskedStep, Copies
<1> HIDE DEF n
<1>4. n \in 0..Len(s) /\ n \in Nat /\ n \in Nat \ {0}
  BY <1>1
<1>5. v \in Texts /\ Len(v) = Len(s) - n /\ \A i \in 1..(Len(s) - n) : v[i] = s[n + i]
  BY <1>4, AfterIs DEF Texts
<1>6. Shorter(v, s)
  BY <1>4, ShorterAfter
<1>7. /\ Copies(s[1], n) \in Texts /\ Len(Copies(s[1], n)) = n
      /\ \A i \in 1..n : Copies(s[1], n)[i] = s[1]
  BY <1>2, <1>4, CopiesAre
<1> QED BY <1>1, <1>3, <1>5, <1>6, <1>7 DEF n

\* A symbol is masked where it stands.
LEMMA MaskedLength == \A s \in Texts : Len(Masked[s]) = Len(s)
<1> DEFINE G == {s \in Texts : Len(Masked[s]) = Len(s)}
<1>1. ASSUME NEW s \in Texts, \A r : Shorter(r, s) => r \in G PROVE s \in G
  <2>1. CASE s = <<>>
    <3>1. Masked[s] = <<>>
      BY <2>1, MaskedIs DEF MaskedStep
    <3> QED BY <2>1, <3>1
  <2>2. CASE s # <<>>
    <3> DEFINE n == CopyLength(s)
               v == After(s, n)
               c == Copies(s[1], n)
    <3>1. /\ n \in 1..Len(s) /\ v \in Texts /\ Len(v) = Len(s) - n /\ Shorter(v, s)
          /\ c \in Texts /\ Len(c) = n /\ Masked[s] = c \o Masked[v]
      BY <2>2, MaskedJoin
    <3>2. Masked[v] \in Texts
      BY <3>1, MaskedIs
    <3> HIDE DEF n, v, c
    <3>3. Len(Masked[v]) = Len(v) /\ Len(s) \in Nat
      BY <1>1, <3>1, TextLength
    <3>4. Len(c \o Masked[v]) = Len(c) + Len(Masked[v])
      BY <3>1, <3>2, JoinedText
    <3>5. Len(Masked[s]) = Len(s)
      BY <3>1, <3>3, <3>4
    <3> QED BY <3>5
  <2> QED BY <2>1, <2>2
<1>2. Texts \subseteq G
  <2> HIDE DEF G
  <2> QED BY <1>1, TextInduction
<1> QED BY <1>2

LEMMA MaskedSymbols ==
  ASSUME NEW s \in Texts, s # <<>>
  PROVE  LET n == CopyLength(s)
         IN  /\ Masked[s][1] = s[1]
             /\ \A i \in 1..(Len(s) - n) : Masked[s][n + i] = Masked[After(s, n)][i]
<1> DEFINE n == CopyLength(s)
           v == After(s, n)
           c == Copies(s[1], n)
<1>1. /\ n \in 1..Len(s) /\ v \in Texts /\ Len(v) = Len(s) - n
      /\ c \in Texts /\ Len(c) = n /\ \A i \in 1..n : c[i] = s[1]
      /\ Masked[s] = c \o Masked[v]
  BY MaskedJoin
<1>2. Masked[v] \in Texts /\ Len(Masked[v]) = Len(v) /\ Len(s) \in Nat
  BY <1>1, MaskedIs, MaskedLength, TextLength
<1> HIDE DEF n, v, c
<1>3. /\ \A i \in 1..Len(c) : (c \o Masked[v])[i] = c[i]
      /\ \A i \in 1..Len(Masked[v]) : (c \o Masked[v])[Len(c) + i] = Masked[v][i]
  BY <1>1, <1>2, ConcatIs DEF Texts
<1>4. Masked[s][1] = s[1]
  <2>1. 1 \in 1..n
    BY <1>1
  <2> QED BY <1>1, <1>3, <2>1
<1>5. \A i \in 1..(Len(s) - n) : Masked[s][n + i] = Masked[v][i]
  BY <1>1, <1>2, <1>3
<1> QED BY <1>4, <1>5 DEF n, v

\* What stands next to FROM, if it is not in a literal, is part of a word or ends one.
Around == Boundaries \cup WordSymbols
Bounded(s) ==
  \A i \in 1..Len(s) :
    Masked[s][i] = "FROM" =>
      /\ i > 1 => s[i - 1] \in Around
      /\ i < Len(s) => s[i + 1] \in Around

LEMMA BoundedParts ==
  ASSUME NEW s \in Texts, s # <<>>, Bounded(s)
  PROVE  LET n == CopyLength(s)
             v == After(s, n)
         IN  /\ Bounded(v)
             /\ v # <<>> /\ v[1] = "FROM" => s[n] \in Around
             /\ s[1] = "FROM" /\ Len(s) > 1 => s[2] \in Around
<1> DEFINE n == CopyLength(s)
           v == After(s, n)
<1>1. /\ n \in 1..Len(s) /\ v \in Texts /\ Len(v) = Len(s) - n
      /\ \A i \in 1..(Len(s) - n) : v[i] = s[n + i]
  BY MaskedJoin
<1>2. /\ Masked[s][1] = s[1]
      /\ \A i \in 1..(Len(s) - n) : Masked[s][n + i] = Masked[v][i]
  BY MaskedSymbols
<1>3. v # <<>> => Masked[v][1] = v[1] /\ Len(v) > 0
  <2>1. v # <<>> => Masked[v][1] = v[1]
    BY <1>1, MaskedSymbols
  <2>2. v # <<>> => Len(v) > 0
    BY <1>1, TailText
  <2> QED BY <2>1, <2>2
<1>4. Len(s) \in Nat /\ Len(s) > 0
  BY TailText
<1> HIDE DEF n, v
<1>5. ASSUME NEW i \in 1..Len(v), Masked[v][i] = "FROM"
      PROVE  /\ i > 1 => v[i - 1] \in Around
             /\ i < Len(v) => v[i + 1] \in Around
  <2>1. n + i \in 1..Len(s) /\ i \in 1..(Len(s) - n) /\ n + i > 1
    BY <1>1, <1>4
  <2>2. Masked[s][n + i] = "FROM"
    BY <1>2, <1>5, <2>1
  <2>3. s[(n + i) - 1] \in Around /\ (n + i < Len(s) => s[(n + i) + 1] \in Around)
    BY <2>1, <2>2 DEF Bounded
  <2>4. ASSUME i > 1 PROVE v[i - 1] \in Around
    <3>1. i - 1 \in 1..(Len(s) - n) /\ n + (i - 1) = (n + i) - 1
      BY <1>1, <1>4, <2>4
    <3>2. v[i - 1] = s[n + (i - 1)]
      BY <1>1, <3>1
    <3> QED BY <2>3, <3>1, <3>2
  <2>5. ASSUME i < Len(v) PROVE v[i + 1] \in Around
    <3>1. i + 1 \in 1..(Len(s) - n) /\ n + (i + 1) = (n + i) + 1 /\ n + i < Len(s)
      BY <1>1, <1>4, <2>5
    <3>2. v[i + 1] = s[n + (i + 1)]
      BY <1>1, <3>1
    <3> QED BY <2>3, <3>1, <3>2
  <2> QED BY <2>4, <2>5
<1>6. Bounded(v)
  BY <1>5 DEF Bounded
<1>7. ASSUME v # <<>>, v[1] = "FROM" PROVE s[n] \in Around
  <2>1. 1 \in 1..(Len(s) - n) /\ n + 1 \in 1..Len(s) /\ n + 1 > 1 /\ (n + 1) - 1 = n
    BY <1>1, <1>3, <1>4, <1>7
  <2>2. Masked[s][n + 1] = "FROM"
    BY <1>2, <1>3, <1>7, <2>1
  <2>3. s[(n + 1) - 1] \in Around
    BY <2>1, <2>2 DEF Bounded
  <2> QED BY <2>1, <2>3
<1>8. ASSUME s[1] = "FROM", Len(s) > 1 PROVE s[2] \in Around
  <2>1. 1 \in 1..Len(s) /\ 1 < Len(s) /\ 1 + 1 = 2
    BY <1>4, <1>8
  <2>2. s[1 + 1] \in Around
    BY <1>2, <1>8, <2>1 DEF Bounded
  <2> QED BY <2>1, <2>2
<1> QED BY <1>6, <1>7, <1>8 DEF n, v

From == <<"FROM">>

\* No parenthesis of t is closed that has not been opened, d being open in front of t.
Nested(t, d) == \A i \in 1..Len(t) : d + Depth(t, i) >= 0

LEMMA NestedParts ==
  ASSUME NEW x \in Texts \cup {Unterminated}, NEW t \in TokenLists, NEW d \in Nat,
         Nested(<<x>> \o t, d)
  PROVE  d + Turn(x) \in Nat /\ Nested(t, d + Turn(x))
<1>1. PICK z : z = <<x>> \o t /\ Len(z) = 1 + Len(t) /\ Len(t) \in Nat
  BY TokenJoin
<1>2. \A i \in 0..Len(t) : /\ Depth(z, 1 + i) = Turn(x) + Depth(t, i)
                           /\ Depth(t, i) \in Int /\ Turn(x) \in Int
  BY <1>1, DepthOfJoin
<1>3. 0 \in 0..Len(t) /\ Depth(t, 0) = 0 /\ 1 + 0 = 1 /\ 1 \in 1..Len(z)
  BY <1>1, DepthIs
<1>4. Turn(x) \in Int /\ Depth(z, 1) = Turn(x)
  BY <1>2, <1>3
<1>5. \A i \in 1..Len(z) : d + Depth(z, i) >= 0
  BY <1>1 DEF Nested
<1>6. d + Turn(x) \in Nat
  BY <1>3, <1>4, <1>5
<1>7. ASSUME NEW i \in 1..Len(t) PROVE (d + Turn(x)) + Depth(t, i) >= 0
  <2>1. 1 + i \in 1..Len(z) /\ i \in 0..Len(t)
    BY <1>1
  <2>2. Depth(z, 1 + i) = Turn(x) + Depth(t, i) /\ Depth(t, i) \in Int
    BY <1>2, <2>1
  <2>3. d + Depth(z, 1 + i) >= 0
    BY <1>5, <2>1
  <2> QED BY <1>4, <2>2, <2>3
<1> QED BY <1>6, <1>7 DEF Nested

LEMMA NestedJoin ==
  ASSUME NEW x \in Texts \cup {Unterminated}, NEW t \in TokenLists, NEW d \in Nat,
         Turn(x) = 0, Nested(t, d)
  PROVE  Nested(<<x>> \o t, d)
<1>1. PICK z : z = <<x>> \o t /\ Len(z) = 1 + Len(t) /\ Len(t) \in Nat
  BY TokenJoin
<1>2. \A i \in 0..Len(t) : Depth(z, 1 + i) = Turn(x) + Depth(t, i) /\ Depth(t, i) \in Int
  BY <1>1, DepthOfJoin
<1>3. Depth(t, 0) = 0
  BY DepthIs
<1>4. ASSUME NEW i \in 1..Len(z) PROVE d + Depth(z, i) >= 0
  <2>1. i - 1 \in 0..Len(t) /\ 1 + (i - 1) = i
    BY <1>1
  <2>2. Depth(z, i) = Depth(t, i - 1)
    <3>1. Depth(z, 1 + (i - 1)) = Turn(x) + Depth(t, i - 1) /\ Depth(t, i - 1) \in Int
      BY <1>2, <2>1
    <3> QED BY <2>1, <3>1
  <2>3. CASE i - 1 = 0
    BY <1>3, <2>2, <2>3
  <2>4. CASE i - 1 # 0
    <3>1. i - 1 \in 1..Len(t)
      BY <1>1, <2>1, <2>4
    <3>2. d + Depth(t, i - 1) >= 0
      BY <3>1 DEF Nested
    <3> QED BY <2>2, <3>2
  <2> QED BY <2>3, <2>4
<1> QED BY <1>1, <1>4 DEF Nested

\* Behind its first token, a list has c where the rest of it has.
LEMMA FoundBehind ==
  ASSUME NEW x \in Texts \cup {Unterminated}, NEW t \in TokenLists, NEW c, NEW d \in Int
  PROVE  (\E i \in At(<<x>> \o t, c, d) : i # 1) <=> At(t, c, d + Turn(x)) # {}
<1> DEFINE A == At(t, c, d + Turn(x))
           B == At(<<x>> \o t, c, d)
<1>1. /\ \A i \in 1..Len(t) : 1 + i \in B <=> i \in A
      /\ B \subseteq 1..(1 + Len(t)) /\ A \subseteq 1..Len(t)
  BY AtOfJoin
<1>2. Len(t) \in Nat
  BY TokenJoin
<1> HIDE DEF A, B
<1>3. ASSUME NEW i \in B, i # 1 PROVE A # {}
  <2>1. i - 1 \in 1..Len(t) /\ 1 + (i - 1) = i
    BY <1>1, <1>2, <1>3
  <2>2. i - 1 \in A
    BY <1>1, <2>1
  <2> QED BY <2>2
<1>4. ASSUME NEW i \in A PROVE \E j \in B : j # 1
  <2>1. i \in 1..Len(t) /\ 1 + i # 1
    BY <1>1, <1>2
  <2>2. 1 + i \in B
    BY <1>1, <2>1
  <2> QED BY <2>1, <2>2
<1> QED BY <1>3, <1>4 DEF A, B

\* The tokens of s have FROM at the top level; one at the very front counts if b.
FromAt(s, d, b) == \E i \in At(Tokens[s], From, d) : i = 1 /\ s[1] = "FROM" => b

LEMMA FromInside ==
  ASSUME NEW s, NEW d, NEW b, b \/ s[1] # "FROM"
  PROVE  FromAt(s, d, b) <=> At(Tokens[s], From, d) # {}
  BY Zenon DEF FromAt

\* FROM at the front of s does not count.
LEMMA FromBehind ==
  ASSUME NEW s, s[1] = "FROM", NEW d
  PROVE  FromAt(s, d, FALSE) <=> \E i \in At(Tokens[s], From, d) : i # 1
  BY Zenon DEF FromAt

LEMMA TokenOfFrom ==
  /\ \A c : <<c>> = From <=> c = "FROM"
  /\ \A x : x = From => x[1] = "FROM" /\ Len(x) = 1
  /\ Turn(From) = 0
<1>1. \A c : <<c>>[1] = c
  OBVIOUS
<1>2. From[1] = "FROM" /\ Len(From) = 1 /\ Opening[1] = "(" /\ ClosingParen[1] = ")"
  BY DEF From, Opening, ClosingParen
<1>3. From # Opening /\ From # ClosingParen
  BY <1>2
<1>4. \A c : <<c>> = From <=> c = "FROM"
  BY <1>1, <1>2 DEF From
<1> QED BY <1>2, <1>3, <1>4 DEF Turn

\* hasTopLevelFrom sees the same FROM as SQL.
SeenRight(s, d, b) == FromSeen[s][d][b] <=> FromAt(s, d, b)
SeenAll(s) == \A d \in Nat : \A b \in BOOLEAN : Nested(Tokens[s], d) => SeenRight(s, d, b)
Readable(s) == PlainText(s) /\ Bounded(s)

\* The three ways in which s goes on, for what is proved of shorter texts.
LEMMA SeenBehindBlank ==
  ASSUME NEW s, Readable(s), s # <<>>, s[1] \in Blanks, NEW d \in Nat, NEW b \in BOOLEAN,
         Nested(Tokens[s], d), SeenAll(After(s, 1))
  PROVE  SeenRight(s, d, b)
<1>1. s \in Texts /\ Tokens[s] = Tokens[After(s, 1)]
  BY Blank DEF Readable, PlainText
<1>2. /\ s[1] \notin Quotes /\ s[1] \in Boundaries
      /\ s[1] # "FROM" /\ s[1] # "(" /\ s[1] # ")"
  BY DEF Blanks, Boundaries, Quotes
<1>3. Inside(s[1], d) = d
  BY <1>2, InsideIs
<1>4. FromSeen[s][d][b] <=> FromSeen[After(s, 1)][d][TRUE]
  <2>1. FromSeen[s][d][b] = (SeenFirst(s, d, b) \/ FromSeen[After(s, 1)][Inside(s[1], d)][TRUE])
    BY <1>1, <1>2, SeenPastBoundary, Zenon
  <2>2. ~SeenFirst(s, d, b)
    BY <1>2, Zenon DEF SeenFirst
  <2> QED BY <1>3, <2>1, <2>2, Zenon
<1>7. FromSeen[After(s, 1)][d][TRUE] <=> FromAt(After(s, 1), d, TRUE)
  BY <1>1, Zenon DEF SeenAll, SeenRight
<1>5. FromAt(s, d, b) <=> At(Tokens[s], From, d) # {}
  BY <1>2, FromInside
<1>6. FromAt(After(s, 1), d, TRUE) <=> At(Tokens[After(s, 1)], From, d) # {}
  BY FromInside
<1> QED BY <1>1, <1>4, <1>5, <1>6, <1>7, Zenon DEF SeenRight

LEMMA SeenInWord ==
  ASSUME NEW s, Readable(s), InWord(s), NEW d \in Nat, NEW b \in BOOLEAN,
         Nested(Tokens[s], d), SeenAll(After(s, 1))
  PROVE  SeenRight(s, d, b)
<1> DEFINE v == After(s, 1)
<1>1. s \in Texts /\ s # <<>> /\ Len(s) \in Nat /\ Len(s) > 1
  <2>1. s \in Texts
    BY DEF Readable, PlainText
  <2>2. Len(s) \in Nat /\ (Len(s) = 0 <=> s = <<>>)
    BY <2>1, TextLength
  <2>3. Len(s) > 1
    BY DEF InWord
  <2> QED BY <2>1, <2>2, <2>3
<1>2. PICK x, y, t : SameButWord(s, x, y, t)
  BY WordGoesOn DEF Readable
<1>3. /\ x \in Texts \cup {Unterminated} /\ y \in Texts \cup {Unterminated} /\ t \in TokenLists
      /\ Tokens[s] = <<x>> \o t /\ Tokens[v] = <<y>> \o t
      /\ Len(x) > 1 /\ x[1] = s[1] /\ y[1] = s[2]
  BY <1>2 DEF SameButWord
<1>4. /\ s[1] \in WordSymbols /\ s[2] \in WordSymbols
      /\ s[1] \notin Quotes /\ s[1] \notin Boundaries /\ s[2] \notin Boundaries
      /\ s[1] # "(" /\ s[1] # ")"
  BY DEF InWord, WordSymbols, Quotes, Boundaries, Blanks
<1>5. Turn(x) = 0 /\ Turn(y) = 0
  BY <1>3, <1>4, TokenWithin
<1>6. x # From
  BY <1>3, TokenOfFrom
<1>7. v[1] = s[2]
  <2>1. 1 \in 0..Len(s) /\ 1 \in 1..(Len(s) - 1) /\ 1 + 1 = 2
    BY <1>1
  <2>2. \A i \in 1..(Len(s) - 1) : v[i] = s[1 + i]
    BY <1>1, <2>1, AfterIs DEF Texts
  <2> HIDE DEF v
  <2> QED BY <2>1, <2>2
<1>8. d \in Int /\ d + 0 = d
  OBVIOUS
<1> HIDE DEF v
<1>9. Nested(Tokens[v], d)
  <2>1. Nested(<<x>> \o t, d)
    BY <1>3
  <2>2. Nested(t, d + Turn(x))
    BY <1>3, <2>1, NestedParts
  <2>3. Nested(t, d)
    BY <1>5, <1>8, <2>2, Zenon
  <2>4. Nested(<<y>> \o t, d)
    BY <1>3, <1>5, <2>3, NestedJoin
  <2> QED BY <1>3, <2>4
<1>10. FromSeen[s][d][b] <=> FromSeen[v][d][FALSE]
  <2>1. Inside(s[1], d) = d
    BY <1>4, InsideIs
  <2>2. ~SeenFirst(s, d, b)
    <3>1. \A n \in Nat : n > 1 => n # 1
      OBVIOUS
    <3>2. Len(s) # 1
      BY <1>1, <3>1, Zenon
    <3> QED BY <1>4, <3>2, Zenon DEF SeenFirst
  <2>3. FromSeen[s][d][b] = (SeenFirst(s, d, b) \/ FromSeen[After(s, 1)][Inside(s[1], d)][FALSE])
    BY <1>1, <1>4, SeenPastSymbol, Zenon
  <2> QED BY <2>1, <2>2, <2>3, Zenon DEF v
<1>11. FromSeen[v][d][FALSE] <=> FromAt(v, d, FALSE)
  BY <1>9, Zenon DEF v, SeenAll, SeenRight
<1>12. FromAt(s, d, b) <=> At(t, From, d) # {}
  <2>1. (\E i \in At(<<x>> \o t, From, d) : i # 1) <=> At(t, From, d) # {}
    BY <1>3, <1>5, <1>8, FoundBehind, Zenon
  <2>2. 1 \notin At(<<x>> \o t, From, d)
    BY <1>3, <1>6, <1>8, AtOfJoin
  <2> QED BY <1>3, <2>1, <2>2, Zenon DEF FromAt
<1>13. FromAt(v, d, FALSE) <=> At(t, From, d) # {}
  <2>1. (\E i \in At(<<y>> \o t, From, d) : i # 1) <=> At(t, From, d) # {}
    BY <1>3, <1>5, <1>8, FoundBehind, Zenon
  <2>2. v[1] # "FROM" => 1 \notin At(<<y>> \o t, From, d)
    <3>1. v[1] # "FROM" => y # From
      BY <1>3, <1>7, TokenOfFrom
    <3> QED BY <1>3, <1>8, <3>1, AtOfJoin
  <2> QED BY <1>3, <2>1, <2>2, Zenon DEF FromAt
<1> QED BY <1>10, <1>11, <1>12, <1>13, Zenon DEF SeenRight

LEMMA SeenBehindQuote ==
  ASSUME NEW s, Readable(s), s # <<>>, s[1] \in Quotes, NEW d \in Nat, NEW b \in BOOLEAN,
         Nested(Tokens[s], d), SeenAll(After(s, CopyLength(s)))
  PROVE  SeenRight(s, d, b)
<1> DEFINE n == CopyLength(s)
           v == After(s, n)
           x == Upto(s, n)
<1>1. s \in Texts
  BY DEF Readable, PlainText
<1>2. s[1] \notin Blanks /\ ~InWord(s)
  BY DEF InWord, WordSymbols, Quotes, Blanks
<1>3. n \in 1..Len(s) /\ PlainText(v) /\ BeginsWithToken(s, n) /\ Tokens[s] = <<x>> \o Tokens[v]
  BY <1>2, WholeToken DEF Readable
<1>4. v # <<>> => v[1] # "FROM"
  <2>1. v # <<>> /\ v[1] = "FROM" => s[n] \in Around
    BY <1>1, BoundedParts DEF Readable
  <2>2. s[n] \in Quotes
    <3>1. n = SqlClosing[After(s, 1)][s[1]] + 1 /\ SqlClosing[After(s, 1)][s[1]] # 0
      BY <1>1, <1>3, TokenKind
    <3> DEFINE c == SqlClosing[After(s, 1)][s[1]]
    <3>2. After(s, 1) \in Texts /\ \A i \in 1..(Len(s) - 1) : After(s, 1)[i] = s[1 + i]
      <4>1. 1 \in 0..Len(s)
        BY <1>1, TailText
      <4> QED BY <1>1, <4>1, AfterIs DEF Texts
    <3>3. c \in 1..Len(After(s, 1)) /\ After(s, 1)[c] = s[1]
      BY <3>1, <3>2, SqlClosingRange
    <3>4. Len(After(s, 1)) = Len(s) - 1 /\ Len(s) \in Nat
      BY <1>1, TailText
    <3> HIDE DEF c
    <3>5. c \in 1..(Len(s) - 1) /\ 1 + c = c + 1
      BY <3>3, <3>4
    <3>6. s[c + 1] = s[1]
      BY <3>2, <3>3, <3>5
    <3> QED BY <3>1, <3>6 DEF c
  <2>3. \A c \in Quotes : c \notin Around
    BY DEF Quotes, Around, Boundaries, Blanks, WordSymbols
  <2> QED BY <2>1, <2>2, <2>3
<1>5. x \in Texts \cup {Unterminated} /\ x[1] = s[1] /\ Tokens[v] \in TokenLists
  <2>1. n \in 0..Len(s) /\ 1 \in 1..n
    <3>1. Len(s) \in Nat
      BY <1>1, TextLength
    <3> HIDE DEF n
    <3> QED BY <1>3, <3>1
  <2>2. x \in Texts /\ x[1] = s[1]
    <3> HIDE DEF n
    <3> QED BY <1>1, <2>1, UptoIs DEF Texts
  <2>3. Tokens[v] \in TokenLists
    BY <1>3, TokensIs DEF PlainText
  <2> QED BY <2>2, <2>3
<1>6. Turn(x) = 0 /\ x # From
  <2>1. s[1] # "FROM"
    BY DEF Quotes
  <2>2. Turn(x) = 0
    BY <1>5, TokenWithin
  <2> QED BY <1>5, <2>1, <2>2, TokenOfFrom
<1>7. d \in Int /\ d + 0 = d
  OBVIOUS
<1> HIDE DEF n, v, x
<1>8. Nested(Tokens[v], d)
  <2>1. Nested(<<x>> \o Tokens[v], d)
    BY <1>3
  <2>2. Nested(Tokens[v], d + Turn(x))
    BY <1>5, <2>1, NestedParts
  <2> QED BY <1>6, <1>7, <2>2, Zenon
<1>9. FromSeen[s][d][b] = FromSeen[v][d][FALSE]
  BY <1>1, SeenPastQuote, Zenon DEF n, v
<1>10. FromSeen[v][d][FALSE] <=> FromAt(v, d, FALSE)
  BY <1>8, Zenon DEF n, v, SeenAll, SeenRight
<1>11. FromAt(v, d, FALSE) <=> At(Tokens[v], From, d) # {}
  <2>1. CASE v = <<>>
    <3>1. At(Tokens[v], From, d) = {}
      BY <2>1, NoTokens DEF At
    <3> QED BY <3>1, Zenon DEF FromAt
  <2>2. CASE v # <<>>
    BY <1>4, <2>2, FromInside
  <2> QED BY <2>1, <2>2
<1>12. FromAt(s, d, b) <=> At(Tokens[v], From, d) # {}
  <2>1. (\E i \in At(<<x>> \o Tokens[v], From, d) : i # 1) <=> At(Tokens[v], From, d) # {}
    BY <1>5, <1>6, <1>7, FoundBehind, Zenon
  <2>2. 1 \notin At(<<x>> \o Tokens[v], From, d)
    BY <1>5, <1>6, <1>7, AtOfJoin
  <2> QED BY <1>3, <2>1, <2>2, Zenon DEF FromAt
<1> QED BY <1>9, <1>10, <1>11, <1>12, Zenon DEF SeenRight

LEMMA NoFromInFront ==
  ASSUME NEW v, v # <<>> => v[1] # "FROM", NEW d, NEW b \in BOOLEAN
  PROVE  FromAt(v, d, b) <=> At(Tokens[v], From, d) # {}
<1>1. CASE v = <<>>
  <2>1. At(Tokens[v], From, d) = {}
    BY <1>1, NoTokens DEF At
  <2> QED BY <2>1, Zenon DEF FromAt
<1>2. CASE v # <<>>
  BY <1>2, FromInside, Zenon
<1> QED BY <1>1, <1>2

\* A text without blank, quote or longer word in front begins with a symbol
\* that is a token.
SymbolInFront(s) == s # <<>> /\ s[1] \notin Blanks /\ s[1] \notin Quotes /\ ~InWord(s)

LEMMA SymbolToken ==
  ASSUME NEW s, PlainText(s), SymbolInFront(s)
  PROVE  /\ s \in Texts /\ s # <<>> /\ CopyLength(s) = 1
         /\ PlainText(After(s, 1)) /\ Shorter(After(s, 1), s)
         /\ <<s[1]>> \in Texts \cup {Unterminated} /\ Tokens[After(s, 1)] \in TokenLists
         /\ Tokens[s] = <<<<s[1]>>>> \o Tokens[After(s, 1)]
<1>1. s \in Texts /\ s # <<>>
  BY DEF PlainText, SymbolInFront
<1>2. CopyLength(s) = 1
  BY DEF SymbolInFront, CopyLength
<1>3. /\ PlainText(After(s, 1)) /\ Shorter(After(s, 1), s)
      /\ Tokens[s] = <<Upto(s, 1)>> \o Tokens[After(s, 1)]
  BY <1>2, WholeToken DEF SymbolInFront
<1>4. Upto(s, 1) = <<s[1]>> /\ Upto(s, 1) \in Texts
  BY <1>1, FirstOfText
<1>5. Tokens[After(s, 1)] \in TokenLists
  BY <1>3, TokensIs DEF PlainText
<1> QED BY <1>1, <1>2, <1>3, <1>4, <1>5

LEMMA SecondSymbol ==
  ASSUME NEW s \in Texts, s # <<>>, After(s, 1) # <<>>
  PROVE  Len(s) > 1 /\ Len(s) # 1 /\ After(s, 1)[1] = s[2]
<1> DEFINE v == After(s, 1)
<1>1. Len(s) \in Nat /\ Len(s) > 0 /\ 1 \in 0..Len(s)
  BY TailText
<1>2. v \in Texts /\ Len(v) = Len(s) - 1 /\ \A i \in 1..(Len(s) - 1) : v[i] = s[1 + i]
  BY <1>1, AfterIs DEF Texts
<1> HIDE DEF v
<1>3. Len(v) # 0 /\ Len(v) \in Nat
  <2>1. v # <<>>
    BY DEF v
  <2> QED BY <1>2, <2>1, TextLength
<1>4. 1 \in 1..(Len(s) - 1) /\ 1 + 1 = 2 /\ Len(s) > 1
  BY <1>1, <1>2, <1>3
<1>5. v[1] = s[2]
  BY <1>2, <1>4
<1>6. \A n \in Nat : n > 1 => n # 1
  OBVIOUS
<1> QED BY <1>1, <1>4, <1>5, <1>6, Zenon DEF v

\* A FROM that is not in front of a word ends at a boundary, and begins behind one.
LEMMA AroundFrom ==
  ASSUME NEW s, Readable(s), SymbolInFront(s)
  PROVE  LET v == After(s, 1)
         IN  /\ v # <<>> /\ v[1] = "FROM" => s[1] \in Boundaries
             /\ s[1] = "FROM" => Len(s) = 1 \/ s[2] \in Boundaries
<1> DEFINE v == After(s, 1)
<1>1. s \in Texts /\ s # <<>> /\ CopyLength(s) = 1
  BY SymbolToken DEF Readable
<1>2. /\ v # <<>> /\ v[1] = "FROM" => s[1] \in Around
      /\ s[1] = "FROM" /\ Len(s) > 1 => s[2] \in Around
  BY <1>1, BoundedParts DEF Readable
<1>3. v # <<>> => Len(s) > 1 /\ v[1] = s[2]
  BY <1>1, SecondSymbol
<1> HIDE DEF v
<1>4. "FROM" \in WordSymbols
  BY DEF WordSymbols
<1>5. Len(s) > 1 /\ s[1] \in WordSymbols => s[2] \notin WordSymbols
  BY DEF SymbolInFront, InWord
<1>6. v # <<>> /\ v[1] = "FROM" => s[1] \in Boundaries
  BY <1>2, <1>3, <1>4, <1>5, Zenon DEF Around
<1>7. Len(s) = 1 \/ Len(s) > 1
  <2>1. Len(s) \in Nat /\ Len(s) > 0
    BY <1>1, TailText
  <2>2. \A n \in Nat : n > 0 => n = 1 \/ n > 1
    OBVIOUS
  <2> QED BY <2>1, <2>2, Zenon
<1>8. s[1] = "FROM" => Len(s) = 1 \/ s[2] \in Boundaries
  BY <1>2, <1>4, <1>5, <1>7, Zenon DEF Around
<1> QED BY <1>6, <1>8 DEF v

LEMMA InsideToken ==
  ASSUME NEW c, NEW d \in Nat, d + Turn(<<c>>) \in Nat
  PROVE  Inside(c, d) = d + Turn(<<c>>)
<1>1. Turn(<<c>>) = IF c = "(" THEN 1 ELSE IF c = ")" THEN -1 ELSE 0
  BY TokenOfSymbol
<1>2. Inside(c, d) = IF c = "(" THEN d + 1
                     ELSE IF c = ")" THEN (IF d = 0 THEN 0 ELSE d - 1) ELSE d
  BY InsideIs
<1> DEFINE e == Turn(<<c>>)
           i == Inside(c, d)
<1> HIDE DEF e, i
<1>3. d + e \in Nat
  BY DEF e
<1>4. CASE c = "("
  <2>1. e = 1 /\ i = d + 1
    BY <1>1, <1>2, <1>4 DEF e, i
  <2> QED BY <2>1 DEF e, i
<1>5. CASE c = ")"
  <2>1. e = -1 /\ i = IF d = 0 THEN 0 ELSE d - 1
    BY <1>1, <1>2, <1>5 DEF e, i
  <2>2. i = d + e
    BY <1>3, <2>1
  <2> QED BY <2>2 DEF e, i
<1>6. CASE c # "(" /\ c # ")"
  <2>1. e = 0 /\ i = d
    BY <1>1, <1>2, <1>6 DEF e, i
  <2>2. i = d + e
    BY <2>1
  <2> QED BY <2>2 DEF e, i
<1> QED BY <1>4, <1>5, <1>6

LEMMA SeenBehindSymbol ==
  ASSUME NEW s, Readable(s), SymbolInFront(s), NEW d \in Nat, NEW b \in BOOLEAN,
         Nested(Tokens[s], d), SeenAll(After(s, 1))
  PROVE  SeenRight(s, d, b)
<1> DEFINE v == After(s, 1)
           x == <<s[1]>>
           e == d + Turn(x)
<1>1. /\ s \in Texts /\ s # <<>> /\ s[1] \notin Quotes
      /\ x \in Texts \cup {Unterminated} /\ Tokens[v] \in TokenLists
      /\ Tokens[s] = <<x>> \o Tokens[v]
  BY SymbolToken DEF Readable, SymbolInFront
<1>2. e \in Nat /\ Nested(Tokens[v], e)
  <2> HIDE DEF v, x
  <2>1. Nested(<<x>> \o Tokens[v], d)
    BY <1>1
  <2> QED BY <1>1, <2>1, NestedParts
<1>3. Inside(s[1], d) = e
  BY <1>2, InsideToken
<1>4. x = From <=> s[1] = "FROM"
  BY TokenOfFrom
<1>5. /\ v # <<>> /\ v[1] = "FROM" => s[1] \in Boundaries
      /\ s[1] = "FROM" => Len(s) = 1 \/ s[2] \in Boundaries
  BY AroundFrom
<1>6. d \in Int
  OBVIOUS
<1>7. /\ 1 \in At(<<x>> \o Tokens[v], From, d) <=> x = From /\ e = 0
      /\ (\E i \in At(<<x>> \o Tokens[v], From, d) : i # 1) <=> At(Tokens[v], From, e) # {}
  <2> HIDE DEF v, x
  <2>1. 1 \in At(<<x>> \o Tokens[v], From, d) <=> x = From /\ d + Turn(x) = 0
    BY <1>1, <1>6, AtOfJoin
  <2>2. (\E i \in At(<<x>> \o Tokens[v], From, d) : i # 1)
          <=> At(Tokens[v], From, d + Turn(x)) # {}
    BY <1>1, <1>6, FoundBehind
  <2> QED BY <2>1, <2>2
<1> HIDE DEF v, x, e
<1>8. CASE s[1] \in Boundaries
  <2>1. s[1] # "FROM"
    BY <1>8 DEF Boundaries, Blanks
  <2>2. FromSeen[s][d][b] = (SeenFirst(s, d, b) \/ FromSeen[After(s, 1)][Inside(s[1], d)][TRUE])
    BY <1>1, <1>8, SeenPastBoundary, Zenon
  <2>3. ~SeenFirst(s, d, b)
    BY <2>1, Zenon DEF SeenFirst
  <2>4. FromSeen[v][e][TRUE] <=> FromAt(v, e, TRUE)
    BY <1>2, Zenon DEF v, SeenAll, SeenRight
  <2>5. FromAt(v, e, TRUE) <=> At(Tokens[v], From, e) # {}
    BY FromInside, Zenon
  <2>6. FromAt(s, d, b) <=> At(Tokens[v], From, e) # {}
    <3>1. FromAt(s, d, b) <=> \E i \in At(Tokens[s], From, d) : TRUE
      BY <2>1, Zenon DEF FromAt
    <3>2. 1 \notin At(<<x>> \o Tokens[v], From, d)
      BY <1>4, <1>7, <2>1, Zenon
    <3>3. (\E i \in At(<<x>> \o Tokens[v], From, d) : TRUE) <=> At(Tokens[v], From, e) # {}
      BY <1>7, <3>2, Zenon
    <3> QED BY <1>1, <3>1, <3>3, Zenon
  <2> QED BY <1>3, <2>2, <2>3, <2>4, <2>5, <2>6, Zenon DEF SeenRight, v
<1>9. CASE s[1] \notin Boundaries
  <2>1. v # <<>> => v[1] # "FROM"
    BY <1>5, <1>9, Zenon
  <2>2. FromSeen[s][d][b] = (SeenFirst(s, d, b) \/ FromSeen[After(s, 1)][Inside(s[1], d)][FALSE])
    BY <1>1, <1>9, SeenPastSymbol, Zenon
  <2>3. FromSeen[v][e][FALSE] <=> FromAt(v, e, FALSE)
    BY <1>2, Zenon DEF v, SeenAll, SeenRight
  <2>4. FromAt(v, e, FALSE) <=> At(Tokens[v], From, e) # {}
    BY <2>1, NoFromInFront, Zenon
  <2>5. SeenFirst(s, d, b) <=> s[1] = "FROM" /\ e = 0 /\ b
    BY <1>3, <1>5, Zenon DEF SeenFirst
  <2>6. FromAt(s, d, b) <=> (s[1] = "FROM" /\ e = 0 /\ b) \/ At(Tokens[v], From, e) # {}
    BY <1>1, <1>4, <1>7, Zenon DEF FromAt
  <2> QED BY <1>3, <2>2, <2>3, <2>4, <2>5, <2>6, Zenon DEF SeenRight, v
<1> QED BY <1>8, <1>9

\* hasTopLevelFrom, for every text that is read.
LEMMA FromSeenRight == \A s \in Texts : Readable(s) => SeenAll(s)
<1> DEFINE G == {s \in Texts : Readable(s) => SeenAll(s)}
<1>1. ASSUME NEW s \in Texts, \A r : Shorter(r, s) => r \in G PROVE s \in G
  <2>1. SUFFICES ASSUME Readable(s), NEW d \in Nat, NEW b \in BOOLEAN, Nested(Tokens[s], d)
                 PROVE  SeenRight(s, d, b)
    BY Zenon DEF SeenAll
  <2>2. PlainText(s)
    BY <2>1 DEF Readable
  <2>3. ASSUME s # <<>>, PlainText(After(s, CopyLength(s))) PROVE SeenAll(After(s, CopyLength(s)))
    <3>1. Shorter(After(s, CopyLength(s)), s)
      BY <2>3, MaskedJoin
    <3>2. Bounded(After(s, CopyLength(s)))
      BY <2>1, <2>3, BoundedParts DEF Readable
    <3> QED BY <1>1, <2>3, <3>1, <3>2, Zenon DEF Readable
  <2>4. CASE s = <<>>
    <3>1. At(Tokens[<<>>], From, d) = {}
      BY NoTokens DEF At
    <3>2. ~FromSeen[<<>>][d][b]
      BY NothingSeen, Zenon
    <3> QED BY <2>4, <3>1, <3>2, Zenon DEF SeenRight, FromAt
  <2>5. CASE s # <<>> /\ s[1] \in Blanks
    <3>1. CopyLength(s) = 1 /\ PlainText(After(s, 1))
      BY <2>2, <2>5, Blank
    <3>2. SeenAll(After(s, 1))
      BY <2>3, <2>5, <3>1, Zenon
    <3> QED BY <2>1, <2>5, <3>2, SeenBehindBlank, Zenon
  <2>6. CASE InWord(s)
    <3>1. CopyLength(s) = 1 /\ PlainText(After(s, 1))
      BY <2>2, <2>6, WordGoesOn
    <3>2. s # <<>>
      BY <2>6, NoSymbols DEF InWord
    <3>3. SeenAll(After(s, 1))
      BY <2>3, <3>1, <3>2, Zenon
    <3> QED BY <2>1, <2>6, <3>3, SeenInWord, Zenon
  <2>7. CASE s # <<>> /\ s[1] \notin Blanks /\ ~InWord(s)
    <3>1. CASE s[1] \in Quotes
      <4>1. PlainText(After(s, CopyLength(s)))
        BY <2>2, <2>7, WholeToken
      <4>2. SeenAll(After(s, CopyLength(s)))
        BY <2>3, <2>7, <4>1, Zenon
      <4> QED BY <2>1, <2>7, <3>1, <4>2, SeenBehindQuote, Zenon
    <3>2. CASE s[1] \notin Quotes
      <4>1. SymbolInFront(s)
        BY <2>7, <3>2, Zenon DEF SymbolInFront
      <4>2. CopyLength(s) = 1 /\ PlainText(After(s, 1))
        BY <2>2, <4>1, SymbolToken
      <4>3. SeenAll(After(s, 1))
        BY <2>3, <2>7, <4>2, Zenon
      <4> QED BY <2>1, <4>1, <4>3, SeenBehindSymbol, Zenon
    <3> QED BY <3>1, <3>2
  <2> QED BY <2>4, <2>5, <2>6, <2>7
<1>2. Texts \subseteq G
  <2> HIDE DEF G
  <2> QED BY <1>1, TextInduction
<1> QED BY <1>2

----------------------------------------------------------------------------
(* Who has to answer, by the tokens.                                       *)

LEMMA SameWord == \A a, b : <<a>> = <<b>> <=> a = b
<1>1. \A a : <<a>>[1] = a
  OBVIOUS
<1> QED BY <1>1

\* Route of a SELECT, by the tokens.
SqlSelect(t) ==
  LET from == TopLevel(t, <<"FROM">>)
  IN  IF from = {} THEN "system"
      ELSE IF Min(from) < Len(t) /\ t[Min(from) + 1][1] = "META" THEN "empty"
      ELSE "translator"

\* SqlRoute without CASE.
LEMMA SqlRouteIs ==
  ASSUME NEW t \in TokenLists
  PROVE  SqlRoute(t) =
           IF t = <<>> \/ t[1] = <<"SET">> THEN "ok"
           ELSE IF Len(t) > 1 /\ t[1] = <<"DROP">> /\ t[2] = <<"TABLE">> THEN "ddl"
           ELSE IF Len(t) > 1 /\ t[1] = <<"USE">> THEN "use"
           ELSE IF t[1] = <<"SELECT">> THEN SqlSelect(t)
           ELSE IF t[1] = <<"SHOW">> THEN "show"
           ELSE "translator"
<1> DEFINE set == t = <<>> \/ t[1] = <<"SET">>
           drop == Len(t) > 1 /\ t[1] = <<"DROP">> /\ t[2] = <<"TABLE">>
           use == Len(t) > 1 /\ t[1] = <<"USE">>
           select == t # <<>> /\ t[1] = <<"SELECT">>
           show == t # <<>> /\ t[1] = <<"SHOW">>
           r == SqlSelect(t)
<1>1. SqlRoute(t) =
        CASE set -> "ok" [] drop -> "ddl" [] use -> "use" [] select -> r [] show -> "show"
          [] OTHER -> "translator"
  BY Zenon DEF SqlRoute, SqlSelect
<1>2. Len(t) > 1 => t # <<>>
  <2>1. Len(t) \in Nat /\ (Len(t) = 0 <=> t = <<>>)
    BY EmptyOrNot DEF TokenLists
  <2>2. \A n \in Nat : n > 1 => n # 0
    OBVIOUS
  <2> QED BY <2>1, <2>2, Zenon
<1>3. /\ drop => t[1] = <<"DROP">> /\ t # <<>>
      /\ use => t[1] = <<"USE">> /\ t # <<>>
      /\ select => t[1] = <<"SELECT">> /\ t # <<>>
      /\ show => t[1] = <<"SHOW">> /\ t # <<>>
  BY <1>2, Zenon
<1>4. /\ <<"SET">> # <<"DROP">> /\ <<"SET">> # <<"USE">> /\ <<"SET">> # <<"SELECT">>
      /\ <<"SET">> # <<"SHOW">> /\ <<"DROP">> # <<"USE">> /\ <<"DROP">> # <<"SELECT">>
      /\ <<"DROP">> # <<"SHOW">> /\ <<"USE">> # <<"SELECT">> /\ <<"USE">> # <<"SHOW">>
      /\ <<"SELECT">> # <<"SHOW">>
  BY SameWord
<1>5. /\ drop \/ use \/ select \/ show => ~set
      /\ use \/ select \/ show => ~drop
      /\ select \/ show => ~use
      /\ show => ~select
  BY <1>3, <1>4, Zenon
<1> HIDE DEF set, drop, use, select, show, r
<1>6. SqlRoute(t) =
        IF set THEN "ok" ELSE IF drop THEN "ddl" ELSE IF use THEN "use"
        ELSE IF select THEN r ELSE IF show THEN "show" ELSE "translator"
  BY <1>1, <1>5
<1>7. (~set => (select <=> t[1] = <<"SELECT">>)) /\ (~set => (show <=> t[1] = <<"SHOW">>))
  BY Zenon DEF set, select, show
<1> QED BY <1>6, <1>7, Zenon DEF set, drop, use, r

\* A list, and what is in front.
LEMMA FrontOfList ==
  ASSUME NEW x \in Texts \cup {Unterminated}, NEW v \in TokenLists, NEW t, t = <<x>> \o v
  PROVE  /\ t \in TokenLists /\ t # <<>> /\ t[1] = x
         /\ Len(t) > 1 <=> v # <<>>
         /\ v # <<>> => t[2] = v[1]
<1>1. /\ t \in TokenLists /\ Len(t) = 1 + Len(v) /\ Len(v) \in Nat /\ t[1] = x
      /\ \A i \in 1..Len(v) : t[1 + i] = v[i]
  BY TokenJoin
<1>2. (Len(v) = 0 <=> v = <<>>) /\ (Len(t) = 0 <=> t = <<>>)
  BY <1>1, EmptyOrNot DEF TokenLists
<1>3. Len(t) # 0 /\ (Len(t) > 1 <=> Len(v) # 0)
  BY <1>1
<1>4. ASSUME v # <<>> PROVE t[2] = v[1]
  <2>1. 1 \in 1..Len(v) /\ 1 + 1 = 2
    BY <1>1, <1>2, <1>4
  <2> QED BY <1>1, <2>1
<1> QED BY <1>1, <1>2, <1>3, <1>4, Zenon

\* The first token begins with the first symbol.
LEMMA FirstToken ==
  ASSUME NEW s, PlainText(s), s # <<>>, s[1] \notin Blanks
  PROVE  /\ Tokens[s] \in TokenLists /\ Tokens[s] # <<>>
         /\ Tokens[s][1] \in Texts /\ Tokens[s][1] # <<>> /\ Tokens[s][1][1] = s[1]
<1> DEFINE k == TokenLength(s)
           x == Upto(s, k)
           v == Tokens[After(s, k)]
<1>1. s \in Texts
  BY DEF PlainText
<1>2. BeginsWithToken(s, k) /\ Tokens[s] = <<x>> \o v
  BY PlainToken
<1>3. Len(s) \in Nat /\ k \in 1..Len(s) /\ k \in Nat
  <2> HIDE DEF k
  <2> QED BY <1>1, <1>2, TokenKind
<1> HIDE DEF k
<1>4. x \in Texts /\ x[1] = s[1] /\ Len(x) = k
  <2>1. k \in 0..Len(s) /\ 1 \in 1..k
    BY <1>3
  <2> QED BY <1>1, <2>1, UptoIs DEF Texts
<1>5. v \in TokenLists
  BY <1>1, <1>3, AfterText, TokensIs
<1>6. x # <<>>
  <2>1. k # 0
    BY <1>3
  <2> QED BY <1>4, <2>1, NoSymbols
<1> HIDE DEF x, v
<1>7. x \in Texts \cup {Unterminated}
  BY <1>4
<1>8. Tokens[s] \in TokenLists /\ Tokens[s] # <<>> /\ Tokens[s][1] = x
  <2>1. PICK t : t = Tokens[s]
    OBVIOUS
  <2>2. t = <<x>> \o v
    BY <1>2, <2>1
  <2>3. t \in TokenLists /\ t # <<>> /\ t[1] = x
    BY <1>5, <1>7, <2>2, FrontOfList
  <2> QED BY <2>1, <2>3
<1> QED BY <1>4, <1>6, <1>8, Zenon

\* Every token begins with a symbol of the text.
Begun(s, S) == \A i \in 1..Len(Tokens[s]) : Tokens[s][i][1] \in S

LEMMA BegunJoin ==
  ASSUME NEW s, NEW v, NEW S, Begun(v, S), NEW x \in Texts \cup {Unterminated}, x[1] \in S,
         Tokens[v] \in TokenLists, Tokens[s] = <<x>> \o Tokens[v]
  PROVE  Begun(s, S)
<1>1. PICK t \in TokenLists : t = Tokens[v] /\ \A i \in 1..Len(t) : t[i][1] \in S
  BY DEF Begun
<1>2. PICK z : z = <<x>> \o t
  OBVIOUS
<1>3. /\ Len(z) = 1 + Len(t) /\ Len(t) \in Nat /\ z[1] = x
      /\ \A i \in 1..Len(t) : z[1 + i] = t[i]
  BY <1>2, TokenJoin
<1>4. ASSUME NEW i \in 1..Len(z) PROVE z[i][1] \in S
  <2>1. CASE i = 1
    BY <1>3, <2>1
  <2>2. CASE i # 1
    <3>1. i - 1 \in 1..Len(t) /\ 1 + (i - 1) = i
      BY <1>3, <2>2
    <3>2. z[i] = t[i - 1]
      BY <1>3, <3>1
    <3> QED BY <1>1, <3>1, <3>2
  <2> QED BY <2>1, <2>2
<1>5. Tokens[s] = z
  BY <1>1, <1>2
<1> QED BY <1>4, <1>5 DEF Begun

LEMMA SymbolsBehind ==
  ASSUME NEW s \in Texts, NEW n \in 0..Len(s) PROVE ToSet(After(s, n)) \subseteq ToSet(s)
<1> DEFINE v == After(s, n)
<1>1. v \in Texts /\ Len(v) = Len(s) - n /\ \A i \in 1..(Len(s) - n) : v[i] = s[n + i]
  BY AfterIs DEF Texts
<1>2. DOMAIN v = 1..Len(v) /\ DOMAIN s = 1..Len(s) /\ Len(s) \in Nat
  BY <1>1, DomainOfText, TextLength
<1> HIDE DEF v
<1>3. ASSUME NEW i \in DOMAIN v PROVE v[i] \in ToSet(s)
  <2>1. i \in 1..(Len(s) - n) /\ n + i \in 1..Len(s)
    BY <1>1, <1>2
  <2>2. n + i \in DOMAIN s /\ v[i] = s[n + i]
    BY <1>1, <1>2, <2>1
  <2> QED BY <2>2 DEF ToSet
<1>4. ToSet(v) \subseteq ToSet(s)
  BY <1>3 DEF ToSet
<1> QED BY <1>4 DEF v

\* Every token begins with a symbol of the text.
LEMMA TokenHeads == \A s \in Texts : WellFormed(Tokens[s]) => Begun(s, ToSet(s))
<1> DEFINE G == {s \in Texts : WellFormed(Tokens[s]) => Begun(s, ToSet(s))}
<1>1. ASSUME NEW s \in Texts, \A r : Shorter(r, s) => r \in G PROVE s \in G
  <2>1. SUFFICES ASSUME WellFormed(Tokens[s]) PROVE Begun(s, ToSet(s))
    OBVIOUS
  <2>2. ASSUME NEW n \in 1..Len(s), s # <<>>, WellFormed(Tokens[After(s, n)])
        PROVE  Begun(After(s, n), ToSet(s)) /\ After(s, n) \in Texts
    <3>1. n \in 0..Len(s) /\ n \in Nat \ {0}
      BY TextLength
    <3>2. Shorter(After(s, n), s)
      BY <2>2, <3>1, ShorterAfter
    <3>3. Begun(After(s, n), ToSet(After(s, n)))
      BY <1>1, <2>2, <3>2
    <3>4. ToSet(After(s, n)) \subseteq ToSet(s)
      BY <3>1, SymbolsBehind
    <3> QED BY <3>2, <3>3, <3>4 DEF Begun, Shorter
  <2>3. CASE s = <<>>
    <3>1. Len(Tokens[s]) = 0
      BY <2>3, NoTokens
    <3> QED BY <3>1 DEF Begun
  <2>4. CASE s # <<>> /\ SpaceLength(s) > 0
    <3> DEFINE n == SpaceLength(s)
    <3>1. Tokens[s] = Tokens[After(s, n)]
      BY <2>4, SpaceSkipped
    <3>2. n \in 1..Len(s)
      <4>1. n \in 0..Len(s) /\ n > 0 /\ Len(s) \in Nat
        BY <2>4, SpaceRange, TextLength
      <4> HIDE DEF n
      <4> QED BY <4>1
    <3> HIDE DEF n
    <3>3. Begun(After(s, n), ToSet(s))
      BY <2>1, <2>2, <2>4, <3>1, <3>2
    <3> QED BY <3>1, <3>3 DEF Begun
  <2>5. CASE s # <<>> /\ ~(SpaceLength(s) > 0)
    <3> DEFINE k == TokenLength(s)
               x == Upto(s, k)
               v == After(s, k)
    <3>1. BeginsWithToken(s, k) /\ WellFormed(Tokens[v]) /\ Tokens[s] = <<x>> \o Tokens[v]
      BY <2>1, <2>5, TokenTaken
    <3>2. Len(s) \in Nat /\ k \in 1..Len(s)
      <4> HIDE DEF k
      <4> QED BY <3>1, TokenKind
    <3> HIDE DEF k
    <3>3. Begun(v, ToSet(s)) /\ v \in Texts
      BY <2>2, <2>5, <3>1, <3>2
    <3>4. x \in Texts /\ x[1] = s[1]
      <4>1. k \in 0..Len(s) /\ 1 \in 1..k
        BY <3>2
      <4> QED BY <4>1, UptoIs DEF Texts
    <3>5. s[1] \in ToSet(s)
      <4>1. 1 \in DOMAIN s
        BY <2>5, TailText, DomainOfText
      <4> QED BY <4>1 DEF ToSet
    <3>6. x \in Texts \cup {Unterminated} /\ x[1] \in ToSet(s) /\ Tokens[v] \in TokenLists
      BY <3>3, <3>4, <3>5, TokensIs
    <3> HIDE DEF x, v
    <3> QED BY <3>1, <3>3, <3>6, BegunJoin
  <2> QED BY <2>3, <2>4, <2>5
<1>2. Texts \subseteq G
  <2> HIDE DEF G
  <2> QED BY <1>1, TextInduction
<1> QED BY <1>2

\* A text with something else than a blank at its end has a token.
LEMMA TokensLeft ==
  \A s \in Texts : PlainText(s) /\ EndsOutside(s, Trailing) => Tokens[s] # <<>>
<1> DEFINE G == {s \in Texts : PlainText(s) /\ EndsOutside(s, Trailing) => Tokens[s] # <<>>}
<1>1. ASSUME NEW s \in Texts, \A r : Shorter(r, s) => r \in G PROVE s \in G
  <2>1. SUFFICES ASSUME PlainText(s), EndsOutside(s, Trailing) PROVE Tokens[s] # <<>>
    OBVIOUS
  <2>2. s # <<>> /\ s[Len(s)] \notin Trailing
    BY <2>1 DEF EndsOutside
  <2>3. CASE s[1] \in Blanks
    <3> DEFINE v == After(s, 1)
    <3>1. PlainText(v) /\ Shorter(v, s) /\ Tokens[s] = Tokens[v]
      BY <2>1, <2>2, <2>3, Blank
    <3>2. Len(s) \in Nat /\ Len(s) > 0 /\ Len(s) # 1
      <4>1. Len(s) \in Nat /\ Len(s) > 0
        BY <2>2, TailText
      <4>2. s[1] \in Trailing
        BY <2>3 DEF Trailing
      <4> QED BY <2>2, <4>1, <4>2
    <3>3. v \in Texts /\ Len(v) = Len(s) - 1 /\ \A i \in 1..(Len(s) - 1) : v[i] = s[1 + i]
      <4>1. 1 \in 0..Len(s)
        BY <3>2
      <4> QED BY <4>1, AfterIs DEF Texts
    <3> HIDE DEF v
    <3>4. Len(v) \in 1..(Len(s) - 1) /\ 1 + Len(v) = Len(s) /\ Len(v) # 0
      BY <3>2, <3>3
    <3>5. v[Len(v)] = s[Len(s)]
      BY <3>3, <3>4
    <3>6. EndsOutside(v, Trailing)
      BY <2>2, <3>4, <3>5, NoSymbols DEF EndsOutside
    <3>7. Tokens[v] # <<>>
      BY <1>1, <3>1, <3>6
    <3> QED BY <3>1, <3>7
  <2>4. CASE s[1] \notin Blanks
    BY <2>1, <2>2, <2>4, FirstToken
  <2> QED BY <2>3, <2>4
<1>2. Texts \subseteq G
  <2> HIDE DEF G
  <2> QED BY <1>1, TextInduction
<1> QED BY <1>2

\* q begins with w, and at most a blank is behind it.
BeginsWord(q, w) == q # <<>> /\ q[1] = w
Apart(q) == Len(q) > 1 => q[2] = " "

\* The tokens of a text that begins with a word of its own.
LoneHead(q, w) ==
  /\ Tokens[q] \in TokenLists /\ Tokens[q] # <<>> /\ Tokens[q][1] = <<w>>
  /\ Len(q) = 1 => ~(Len(Tokens[q]) > 1)
  /\ Len(q) # 1 =>
       /\ Len(q) > 2 /\ HasHead(q, w) /\ Len(Tokens[q]) > 1
       /\ q[3] \notin Blanks => Tokens[q][2][1] = q[3]

LEMMA HeadAlone ==
  ASSUME NEW q, CleanText(q), NEW w \in WordSymbols, BeginsWord(q, w), Apart(q)
  PROVE  LoneHead(q, w)
<1>1. q \in Texts /\ q # <<>> /\ q[1] = w /\ PlainText(q) /\ q[Len(q)] \notin Trailing
  BY DEF CleanText, PlainText, BeginsWord
<1>2. Len(q) \in Nat /\ Len(q) > 0
  BY <1>1, TailText
<1>3. CASE Len(q) = 1
  <2>1. SymbolInFront(q)
    <3>1. ~(Len(q) > 1)
      BY <1>3
    <3>2. w \notin Blanks /\ w \notin Quotes
      BY DEF WordSymbols, Blanks, Quotes
    <3> QED BY <1>1, <3>1, <3>2, Zenon DEF SymbolInFront, InWord
  <2>2. /\ <<w>> \in Texts \cup {Unterminated} /\ Tokens[After(q, 1)] \in TokenLists
        /\ Tokens[q] = <<<<w>>>> \o Tokens[After(q, 1)]
    BY <1>1, <2>1, SymbolToken
  <2>3. Tokens[After(q, 1)] = <<>>
    <3>1. 1 \in Nat /\ 1 >= Len(q)
      BY <1>3
    <3>2. After(q, 1) = <<>>
      BY <1>1, <3>1, PastEnd DEF Texts
    <3> QED BY <3>2, NoTokens
  <2>4. PICK t \in TokenLists, v \in TokenLists : t = Tokens[q] /\ v = Tokens[After(q, 1)]
    BY <1>1, <2>2, TokensIs
  <2>5. t = <<<<w>>>> \o v /\ v = <<>>
    BY <2>2, <2>3, <2>4
  <2>6. t \in TokenLists /\ t # <<>> /\ t[1] = <<w>> /\ ~(Len(t) > 1)
    BY <2>2, <2>5, FrontOfList
  <2> QED BY <1>3, <2>4, <2>6, Zenon DEF LoneHead
<1>4. CASE Len(q) # 1
  <2>1. Len(q) > 1
    <3>1. \A n \in Nat : n > 0 /\ n # 1 => n > 1
      OBVIOUS
    <3> QED BY <1>2, <1>4, <3>1, Zenon
  <2>2. HasHead(q, w)
    BY <1>1, <2>1, Zenon DEF HasHead, Apart
  <2> DEFINE v == After(q, 2)
  <2>3. /\ PlainText(v) /\ Tokens[q] = <<<<w>>>> \o Tokens[v]
        /\ <<w>> \in Texts \cup {Unterminated}
    BY <1>1, <2>2, HeadWord
  <2>4. Len(q) > 2
    <3>1. q[2] \in Trailing
      BY <2>2 DEF HasHead, Trailing, Blanks
    <3>2. Len(q) # 2
      BY <1>1, <3>1, Zenon
    <3>3. \A n \in Nat : n > 1 /\ n # 2 => n > 2
      OBVIOUS
    <3> QED BY <1>2, <2>1, <3>2, <3>3, Zenon
  <2>5. v \in Texts /\ Len(v) = Len(q) - 2 /\ \A i \in 1..(Len(q) - 2) : v[i] = q[2 + i]
    <3>1. 2 \in 0..Len(q)
      BY <1>2, <2>4
    <3> QED BY <1>1, <3>1, AfterIs DEF Texts
  <2> HIDE DEF v
  <2>6. /\ Len(v) \in 1..(Len(q) - 2) /\ 2 + Len(v) = Len(q) /\ Len(v) # 0
        /\ 1 \in 1..(Len(q) - 2) /\ 2 + 1 = 3
    BY <1>2, <2>4, <2>5
  <2>7. v[1] = q[3] /\ v[Len(v)] = q[Len(q)] /\ v # <<>>
    BY <2>5, <2>6, NoSymbols
  <2>8. Tokens[v] # <<>> /\ Tokens[v] \in TokenLists
    <3>1. EndsOutside(v, Trailing)
      BY <1>1, <2>7, Zenon DEF EndsOutside
    <3> QED BY <2>3, <2>5, <3>1, TokensLeft, TokensIs
  <2>9. PICK t \in TokenLists, r \in TokenLists : t = Tokens[q] /\ r = Tokens[v]
    BY <1>1, <2>8, TokensIs
  <2>10. t = <<<<w>>>> \o r /\ r # <<>>
    BY <2>3, <2>8, <2>9
  <2>11. t \in TokenLists /\ t # <<>> /\ t[1] = <<w>> /\ Len(t) > 1 /\ t[2] = r[1]
    BY <2>3, <2>10, FrontOfList
  <2>12. q[3] \notin Blanks => t[2][1] = q[3]
    <3>1. q[3] \notin Blanks => Tokens[v][1][1] = v[1]
      BY <2>3, <2>7, FirstToken
    <3> QED BY <2>7, <2>9, <2>11, <3>1, Zenon
  <2> QED BY <1>4, <2>2, <2>4, <2>9, <2>11, <2>12, Zenon DEF LoneHead
<1> QED BY <1>3, <1>4

\* The text is answered by the part that its tokens call for.
Agrees(q) == Route(q) = SqlRoute(Tokens[q])

\* Route and SqlRoute of a text that begins with w.
LEMMA RouteOfHead ==
  ASSUME NEW q \in Texts, NEW w, BeginsWord(q, w)
  PROVE  Route(q) =
           IF w = "SET" /\ (Len(q) = 1 \/ q[2] = " ") THEN "ok"
           ELSE IF w = "DROP" /\ Len(q) > 2 /\ q[2] = " " /\ q[3] = "TABLE" THEN "ddl"
           ELSE IF w = "USE" /\ Len(q) > 1 /\ q[2] = " " THEN "use"
           ELSE IF w = "SELECT" THEN SelectRoute(q)
           ELSE IF w = "SHOW" THEN "show"
           ELSE "translator"
<1>1. q # <<>> /\ q[1] = w
  BY DEF BeginsWord
<1>2. IsSet(q) <=> w = "SET" /\ (Len(q) = 1 \/ q[2] = " ")
  BY <1>1, Zenon DEF IsSet
<1>3. IsDrop(q) <=> w = "DROP" /\ Len(q) > 2 /\ q[2] = " " /\ q[3] = "TABLE"
  BY <1>1, Zenon DEF IsDrop
<1>4. IsUse(q) <=> w = "USE" /\ Len(q) > 1 /\ q[2] = " "
  BY <1>1, Zenon DEF IsUse
<1>5. Route(q) =
        IF IsSet(q) THEN "ok"
        ELSE IF IsDrop(q) THEN "ddl"
        ELSE IF IsUse(q) THEN "use"
        ELSE IF q[1] = "SELECT" THEN SelectRoute(q)
        ELSE IF q[1] = "SHOW" THEN "show"
        ELSE "translator"
  BY RouteIs, Zenon
<1> QED BY <1>1, <1>2, <1>3, <1>4, <1>5, Zenon

LEMMA SqlRouteOfHead ==
  ASSUME NEW t \in TokenLists, t # <<>>, NEW w, t[1] = <<w>>
  PROVE  SqlRoute(t) =
           IF w = "SET" THEN "ok"
           ELSE IF w = "DROP" /\ Len(t) > 1 /\ t[2] = <<"TABLE">> THEN "ddl"
           ELSE IF w = "USE" /\ Len(t) > 1 THEN "use"
           ELSE IF w = "SELECT" THEN SqlSelect(t)
           ELSE IF w = "SHOW" THEN "show"
           ELSE "translator"
<1>1. \A v : t[1] = <<v>> <=> w = v
  BY SameWord
<1>2. /\ t[1] = <<"SET">> <=> w = "SET"
      /\ t[1] = <<"DROP">> <=> w = "DROP"
      /\ t[1] = <<"USE">> <=> w = "USE"
      /\ t[1] = <<"SELECT">> <=> w = "SELECT"
      /\ t[1] = <<"SHOW">> <=> w = "SHOW"
  BY <1>1, Zenon
<1>3. SqlRoute(t) =
        IF t = <<>> \/ t[1] = <<"SET">> THEN "ok"
        ELSE IF Len(t) > 1 /\ t[1] = <<"DROP">> /\ t[2] = <<"TABLE">> THEN "ddl"
        ELSE IF Len(t) > 1 /\ t[1] = <<"USE">> THEN "use"
        ELSE IF t[1] = <<"SELECT">> THEN SqlSelect(t)
        ELSE IF t[1] = <<"SHOW">> THEN "show"
        ELSE "translator"
  BY SqlRouteIs, Zenon
<1> QED BY <1>2, <1>3, Zenon

\* PlainHead, of a text and its tokens.
PlainHeadOf(q, t) ==
  /\ Len(q) > 1 /\ q[1] \in {"SET", "USE", "DROP"} =>
       /\ q[2] = " "
       /\ q[1] = "DROP" => q[3] \notin Blanks
  /\ q # <<>> /\ q[1] \in {"SELECT", "SHOW"} => Len(t[1]) = 1
  /\ Len(t) > 1 /\ t[1] = <<"DROP">> /\ t[2][1] = "TABLE" => Len(t[2]) = 1

\* The first tokens are not cut off with the semicolons.
LEMMA FirstTokensKept ==
  ASSUME NEW t \in TokenLists, NEW u \in TokenLists, u = TrimRight(t, Semicolons), u # <<>>
  PROVE  /\ t # <<>> /\ t[1] = u[1]
         /\ Len(u) > 1 => Len(t) > 1 /\ t[2] = u[2]
<1>1. /\ Len(u) \in Nat /\ Len(t) \in Nat /\ Len(u) <= Len(t)
      /\ \A i \in 1..Len(u) : u[i] = t[i]
  BY TrimmedIs
<1>2. (Len(u) = 0 <=> u = <<>>) /\ (Len(t) = 0 <=> t = <<>>)
  BY EmptyOrNot DEF TokenLists
<1>3. Len(u) # 0 /\ Len(t) # 0 /\ 1 \in 1..Len(u)
  BY <1>1, <1>2
<1>4. Len(u) > 1 => Len(t) > 1 /\ 2 \in 1..Len(u)
  BY <1>1
<1> QED BY <1>1, <1>2, <1>3, <1>4, Zenon

LEMMA PlainHeadKept ==
  ASSUME NEW q, NEW t \in TokenLists, NEW u \in TokenLists, u = TrimRight(t, Semicolons),
         u # <<>>, PlainHeadOf(q, t)
  PROVE  PlainHeadOf(q, u)
BY FirstTokensKept, Zenon DEF PlainHeadOf

LEMMA OneSymbol ==
  ASSUME NEW x \in Texts \cup {Unterminated}, Len(x) = 1 PROVE x = <<x[1]>>
<1>1. CASE x \in Texts
  BY <1>1 DEF Texts
<1>2. CASE x = Unterminated
  BY <1>2 DEF Unterminated
<1> QED BY <1>1, <1>2

LEMMA AgreesAlone ==
  ASSUME NEW q, CleanText(q), PlainHeadOf(q, Tokens[q]),
         NEW w \in {"SET", "USE", "DROP"}, BeginsWord(q, w)
  PROVE  Agrees(q)
<1>1. q \in Texts /\ q # <<>> /\ q[1] = w
  BY DEF CleanText, BeginsWord
<1>2. w \in WordSymbols /\ Apart(q)
  <2>1. w \in WordSymbols
    BY DEF WordSymbols
  <2>2. Len(q) > 1 => q[2] = " "
    BY <1>1, Zenon DEF PlainHeadOf
  <2> QED BY <2>1, <2>2, Zenon DEF Apart
<1>3. LoneHead(q, w)
  BY <1>2, HeadAlone
<1>4. PICK t \in TokenLists : t = Tokens[q]
  BY <1>1, TokensIs
<1>5. /\ t # <<>> /\ t[1] = <<w>>
      /\ Len(q) = 1 => ~(Len(t) > 1)
      /\ Len(q) # 1 =>
           /\ Len(q) > 2 /\ Len(q) > 1 /\ q[2] = " " /\ Len(t) > 1
           /\ q[3] \notin Blanks => t[2][1] = q[3]
  BY <1>3, <1>4, Zenon DEF LoneHead, HasHead
<1>6. Len(q) = 1 => ~(Len(q) > 1) /\ ~(Len(q) > 2)
  OBVIOUS
<1>7. Route(q) =
        IF w = "SET" /\ (Len(q) = 1 \/ q[2] = " ") THEN "ok"
        ELSE IF w = "DROP" /\ Len(q) > 2 /\ q[2] = " " /\ q[3] = "TABLE" THEN "ddl"
        ELSE IF w = "USE" /\ Len(q) > 1 /\ q[2] = " " THEN "use"
        ELSE IF w = "SELECT" THEN SelectRoute(q)
        ELSE IF w = "SHOW" THEN "show"
        ELSE "translator"
  BY <1>1, RouteOfHead
<1>8. SqlRoute(t) =
        IF w = "SET" THEN "ok"
        ELSE IF w = "DROP" /\ Len(t) > 1 /\ t[2] = <<"TABLE">> THEN "ddl"
        ELSE IF w = "USE" /\ Len(t) > 1 THEN "use"
        ELSE IF w = "SELECT" THEN SqlSelect(t)
        ELSE IF w = "SHOW" THEN "show"
        ELSE "translator"
  BY <1>5, SqlRouteOfHead
<1>9. CASE w = "SET"
  BY <1>4, <1>5, <1>7, <1>8, <1>9, Zenon DEF Agrees
<1>10. CASE w = "USE"
  <2>1. w # "SET" /\ w # "DROP" /\ w # "SELECT" /\ w # "SHOW"
    BY <1>10
  <2> QED BY <1>4, <1>5, <1>6, <1>7, <1>8, <1>10, <2>1, Zenon DEF Agrees
<1>11. CASE w = "DROP"
  <2>1. w # "SET" /\ w # "USE" /\ w # "SELECT" /\ w # "SHOW"
    BY <1>11
  <2>2. CASE Len(q) = 1
    BY <1>4, <1>5, <1>6, <1>7, <1>8, <1>11, <2>1, <2>2, Zenon DEF Agrees
  <2>3. CASE Len(q) # 1
    <3>1. q[3] \notin Blanks
      BY <1>1, <1>5, <1>11, <2>3, Zenon DEF PlainHeadOf
    <3>2. t[2][1] = q[3]
      BY <1>5, <2>3, <3>1, Zenon
    <3>3. t[2] = <<"TABLE">> => q[3] = "TABLE"
      <4>1. <<"TABLE">>[1] = "TABLE"
        OBVIOUS
      <4> QED BY <3>2, <4>1, Zenon
    <3>4. q[3] = "TABLE" => t[2] = <<"TABLE">>
      <4>1. SUFFICES ASSUME q[3] = "TABLE" PROVE t[2] = <<"TABLE">>
        OBVIOUS
      <4>2. t[1] = <<"DROP">> /\ Len(t) > 1
        BY <1>5, <1>11, <2>3, Zenon
      <4>3. Len(t[2]) = 1
        BY <1>4, <3>2, <4>1, <4>2, Zenon DEF PlainHeadOf
      <4>4. t[2] \in Texts \cup {Unterminated}
        <5>1. t \in Seq(Texts \cup {Unterminated}) /\ Len(t) \in Nat
          BY EmptyOrNot DEF TokenLists
        <5>2. 2 \in 1..Len(t)
          BY <4>2, <5>1
        <5> QED BY <5>1, <5>2, ElementOfSeq
      <4>5. t[2] = <<t[2][1]>>
        BY <4>3, <4>4, OneSymbol
      <4> QED BY <3>2, <4>1, <4>5, Zenon
    <3> QED BY <1>4, <1>5, <1>7, <1>8, <1>11, <2>1, <2>3, <3>3, <3>4, Zenon DEF Agrees
  <2> QED BY <2>2, <2>3
<1> QED BY <1>9, <1>10, <1>11

LEMMA AgreesShow ==
  ASSUME NEW q, CleanText(q), PlainHeadOf(q, Tokens[q]), BeginsWord(q, "SHOW")
  PROVE  Agrees(q)
<1>1. q \in Texts /\ q # <<>> /\ q[1] = "SHOW" /\ q[1] \notin Blanks /\ PlainText(q)
  BY DEF CleanText, PlainText, BeginsWord, Blanks
<1>2. PICK t \in TokenLists : t = Tokens[q]
  BY <1>1, TokensIs
<1>3. t # <<>> /\ t[1] \in Texts /\ t[1][1] = "SHOW"
  BY <1>1, <1>2, FirstToken
<1>4. Len(t[1]) = 1
  BY <1>1, <1>2, Zenon DEF PlainHeadOf
<1>5. t[1] = <<"SHOW">>
  <2>1. t[1] = <<t[1][1]>>
    BY <1>3, <1>4, OneSymbol
  <2> QED BY <1>3, <2>1, Zenon
<1>6. SqlRoute(t) = "show"
  <2> DEFINE w == "SHOW"
  <2>1. w # "SET" /\ w # "DROP" /\ w # "USE" /\ w # "SELECT" /\ w = "SHOW" /\ t[1] = <<w>>
    BY <1>5
  <2> HIDE DEF w
  <2> QED BY <1>3, <2>1, SqlRouteOfHead, Zenon
<1>7. Route(q) = "show"
  <2> DEFINE w == "SHOW"
  <2>1. /\ w # "SET" /\ w # "DROP" /\ w # "USE" /\ w # "SELECT" /\ w = "SHOW"
        /\ BeginsWord(q, w)
    OBVIOUS
  <2> HIDE DEF w
  <2> QED BY <1>1, <2>1, RouteOfHead, Zenon
<1> QED BY <1>2, <1>6, <1>7 DEF Agrees

LEMMA AgreesOther ==
  ASSUME NEW q, CleanText(q), q # <<>>, q[1] \notin {"SET", "USE", "DROP", "SELECT", "SHOW"}
  PROVE  Agrees(q)
<1>1. q \in Texts /\ q[1] \notin Blanks /\ PlainText(q)
  BY DEF CleanText, PlainText
<1>2. PICK t \in TokenLists : t = Tokens[q]
  BY <1>1, TokensIs
<1>3. t # <<>> /\ t[1][1] = q[1]
  BY <1>1, <1>2, FirstToken
<1>4. \A w : <<w>>[1] = w
  OBVIOUS
<1>5. \A w \in {"SET", "USE", "DROP", "SELECT", "SHOW"} : t[1] # <<w>> /\ q[1] # w
  BY <1>3, <1>4, Zenon
<1>6. /\ t[1] # <<"SET">> /\ t[1] # <<"USE">> /\ t[1] # <<"DROP">> /\ t[1] # <<"SELECT">>
      /\ t[1] # <<"SHOW">>
      /\ q[1] # "SET" /\ q[1] # "USE" /\ q[1] # "DROP" /\ q[1] # "SELECT" /\ q[1] # "SHOW"
  BY <1>5
<1>7. SqlRoute(t) = "translator"
  BY <1>3, <1>6, SqlRouteIs, Zenon
<1>8. Route(q) = "translator"
  <2>1. BeginsWord(q, q[1])
    BY DEF BeginsWord
  <2> QED BY <1>1, <1>6, <2>1, RouteOfHead, Zenon
<1> QED BY <1>2, <1>7, <1>8 DEF Agrees

\* PlainSelect, of a text and its tokens.
PlainSelectOf(q, t) ==
  LET r == Tail(t)
      body == Tail(q)
  IN  /\ \A i \in DOMAIN r : Depth(r, i) >= 0
      /\ "META" \in ToSet(body) => SqlRoute(t) = "empty"
      /\ TopLevel(r, <<"FROM">>) # {} => ~ContainsSystemExpr(body)
      /\ \A i \in DOMAIN body :
           Masked[body][i] = "FROM" =>
             /\ i > 1 => body[i - 1] \in Boundaries \cup WordSymbols
             /\ i < Len(body) => body[i + 1] \in Boundaries \cup WordSymbols

LEMMA ListOfTail ==
  ASSUME NEW t \in TokenLists, t # <<>>
  PROVE  /\ t[1] \in Texts \cup {Unterminated} /\ Tail(t) \in TokenLists
         /\ t = <<t[1]>> \o Tail(t)
<1>1. PICK S : S = Texts \cup {Unterminated} /\ t \in Seq(S)
  BY DEF TokenLists
<1>2. Len(t) \in Nat /\ (Len(t) = 0 <=> t = <<>>)
  BY <1>1, EmptyOrNot
<1>3. 1 \in 0..Len(t) /\ 1 \in 1..Len(t)
  BY <1>2
<1>4. t[1] \in S /\ Tail(t) \in Seq(S) /\ Len(Tail(t)) = Len(t) - 1
  BY <1>1, <1>3, ElementOfSeq, HeadTailProperties
<1>5. Tail(t) = After(t, 1)
  BY DEF After
<1>6. Upto(t, 1) = <<t[1]>>
  <2>1. PICK v : v = Upto(t, 1)
    OBVIOUS
  <2>2. v \in Seq(S) /\ Len(v) = 1 /\ \A i \in 1..1 : v[i] = t[i]
    BY <1>1, <1>3, <2>1, UptoIs
  <2>3. v[1] = t[1] /\ v = <<v[1]>>
    BY <2>2
  <2> QED BY <2>1, <2>3, Zenon
<1>7. Upto(t, 1) \o After(t, 1) = t
  BY <1>1, <1>3, SplitAt
<1> QED BY <1>1, <1>4, <1>5, <1>6, <1>7 DEF TokenLists

\* A word in front moves no top level.
LEMMA TopLevelBehind ==
  ASSUME NEW w \in WordSymbols, w # "FROM", NEW v \in TokenLists, <<w>> \in Texts \cup {Unterminated}
  PROVE  /\ TopLevel(<<<<w>>>> \o v, From) # {} <=> At(v, From, 0) # {}
         /\ \A i \in 0..Len(v) : Depth(<<<<w>>>> \o v, 1 + i) = Depth(v, i)
<1> DEFINE x == <<w>>
<1>1. x # From /\ Turn(x) = 0
  <2>1. x[1] = w
    OBVIOUS
  <2> HIDE DEF x
  <2>2. x[1] # "FROM" /\ x[1] \in WordSymbols \cup Quotes
    BY <2>1, Zenon
  <2> QED BY <2>2, TokenOfFrom, TokenWithin
<1>2. x \in Texts \cup {Unterminated}
  OBVIOUS
<1> HIDE DEF x
<1>3. 0 \in Int /\ 0 + 0 = 0
  OBVIOUS
<1>4. PICK z : z = <<x>> \o v /\ z \in TokenLists
  BY <1>2, TokenJoin
<1>5. 1 \notin At(z, From, 0)
  BY <1>1, <1>2, <1>3, <1>4, AtOfJoin
<1>6. (\E i \in At(z, From, 0) : i # 1) <=> At(v, From, 0) # {}
  BY <1>1, <1>2, <1>3, <1>4, FoundBehind, Zenon
<1>7. TopLevel(z, From) = At(z, From, 0)
  BY <1>4, TopLevelIs
<1>8. TopLevel(z, From) # {} <=> At(v, From, 0) # {}
  BY <1>5, <1>6, <1>7, Zenon
<1>9. ASSUME NEW i \in 0..Len(v) PROVE Depth(z, 1 + i) = Depth(v, i)
  <2>1. Depth(z, 1 + i) = Turn(x) + Depth(v, i) /\ Depth(v, i) \in Int
    BY <1>2, <1>4, DepthOfJoin
  <2> QED BY <1>1, <2>1
<1> QED BY <1>4, <1>8, <1>9 DEF x

\* The word in front of a text is the token in front, if that is as long.
LEMMA WordAlone ==
  ASSUME NEW q, PlainText(q), NEW w \in WordSymbols, BeginsWord(q, w), Len(Tokens[q][1]) = 1
  PROVE  SymbolInFront(q)
<1>1. q # <<>> /\ q[1] \in WordSymbols
  BY Zenon DEF BeginsWord
<1>2. q[1] \notin Blanks /\ q[1] \notin Quotes
  BY <1>1 DEF WordSymbols, Blanks, Quotes
<1>3. ASSUME InWord(q) PROVE FALSE
  <2>1. PICK x, y, t : SameButWord(q, x, y, t)
    BY <1>3, WordGoesOn
  <2>2. x \in Texts \cup {Unterminated} /\ t \in TokenLists /\ Tokens[q] = <<x>> \o t /\ Len(x) > 1
    BY <2>1 DEF SameButWord
  <2>3. PICK z : z = <<x>> \o t
    OBVIOUS
  <2>4. z[1] = x
    BY <2>2, <2>3, TokenJoin
  <2>6. Len(x) = 1
    BY <2>2, <2>3, <2>4, Zenon
  <2>5. \A n : n = 1 => ~(n > 1)
    OBVIOUS
  <2> QED BY <2>2, <2>5, <2>6, Zenon
<1> QED BY <1>1, <1>2, <1>3, Zenon DEF SymbolInFront

\* The first FROM of a list.
LEMMA FirstFrom ==
  ASSUME NEW u \in TokenLists, TopLevel(u, From) # {}
  PROVE  Min(TopLevel(u, From)) \in 1..Len(u)
<1> DEFINE F == TopLevel(u, From)
<1>1. DOMAIN u = 1..Len(u) /\ Len(u) \in Nat
  BY LenProperties DEF TokenLists
<1>2. F \subseteq 1..Len(u)
  BY <1>1 DEF TopLevel
<1>3. F \in SUBSET Nat /\ F # {}
  BY <1>2
<1> HIDE DEF F
<1>4. PICK m \in F : \A n \in F : m <= n
  BY <1>3, LeastNumber
<1>5. \A n \in F : m <= n <=> n >= m
  BY <1>3
<1>6. Min(F) \in F
  BY <1>4, <1>5 DEF Min
<1> QED BY <1>2, <1>6 DEF F

LEMMA SymbolOfBody ==
  ASSUME NEW q \in Texts, q # <<>>, NEW c, q[1] # c
  PROVE  c \in ToSet(q) <=> c \in ToSet(Tail(q))
<1>1. PICK v \in Texts : /\ v = Tail(q) /\ Len(v) = Len(q) - 1
                         /\ \A i \in 1..(Len(q) - 1) : v[i] = q[1 + i]
  <2>1. PICK n : n = 1
    OBVIOUS
  <2>2. PICK v : v = After(q, n)
    OBVIOUS
  <2>3. Tail(q) = v /\ n \in 0..Len(q)
    BY <2>1, <2>2, TailText
  <2>4. v \in Texts /\ Len(v) = Len(q) - n /\ \A i \in 1..(Len(q) - n) : v[i] = q[n + i]
    BY <2>2, <2>3, AfterIs DEF Texts
  <2> QED BY <2>1, <2>3, <2>4
<1>2. DOMAIN v = 1..Len(v) /\ DOMAIN q = 1..Len(q) /\ Len(q) \in Nat /\ Len(q) > 0
  BY DomainOfText, TailText
<1>3. ASSUME NEW i \in DOMAIN q, q[i] = c PROVE c \in ToSet(v)
  <2>1. i # 1
    BY <1>3
  <2>2. i - 1 \in 1..(Len(q) - 1) /\ 1 + (i - 1) = i
    BY <1>2, <2>1
  <2>3. i - 1 \in DOMAIN v /\ v[i - 1] = c
    BY <1>1, <1>2, <1>3, <2>2
  <2> QED BY <2>3 DEF ToSet
<1>4. ASSUME NEW i \in DOMAIN v, v[i] = c PROVE c \in ToSet(q)
  <2>1. i \in 1..(Len(q) - 1) /\ 1 + i \in DOMAIN q
    BY <1>1, <1>2
  <2>2. q[1 + i] = c
    BY <1>1, <1>4, <2>1
  <2> QED BY <2>1, <2>2 DEF ToSet
<1>5. c \in ToSet(q) => c \in ToSet(v)
  BY <1>3 DEF ToSet
<1>6. c \in ToSet(v) => c \in ToSet(q)
  BY <1>4 DEF ToSet
<1> QED BY <1>1, <1>5, <1>6

\* A SELECT whose tokens name a system schema behind FROM still does without the
\* semicolons.
LEMMA EmptyKept ==
  ASSUME NEW t \in TokenLists, NEW u \in TokenLists, u = TrimRight(t, Semicolons),
         SqlSelect(t) = "empty"
  PROVE  SqlSelect(u) = "empty"
<1> DEFINE F == TopLevel(u, From)
           m == Min(F)
<1>1. From # Semicolon
  BY DEF From, Semicolon
<1>2. TopLevel(t, From) = F
  BY <1>1, TrimmedTopLevel
<1>3. F # {} /\ m < Len(t) /\ t[m + 1][1] = "META"
  BY <1>2, Zenon DEF SqlSelect, From
<1>4. m \in 1..Len(u)
  BY <1>3, FirstFrom
<1>5. /\ Len(u) \in Nat /\ Len(t) \in Nat /\ Len(u) <= Len(t)
      /\ \A i \in 1..Len(u) : u[i] = t[i]
      /\ \A i \in 1..Len(t) : i <= Len(u) \/ t[i] = Semicolon
  BY TrimmedIs
<1> HIDE DEF m
<1>6. m + 1 \in 1..Len(t)
  BY <1>3, <1>4, <1>5
<1>7. t[m + 1] # Semicolon
  <2>1. Semicolon[1] # "META"
    BY DEF Semicolon
  <2> QED BY <1>3, <2>1
<1>8. m + 1 <= Len(u)
  BY <1>5, <1>6, <1>7
<1>9. m < Len(u) /\ m + 1 \in 1..Len(u)
  BY <1>4, <1>5, <1>8
<1>10. u[m + 1] = t[m + 1]
  BY <1>5, <1>9
<1> QED BY <1>3, <1>9, <1>10, Zenon DEF SqlSelect, From, m

\* The first word of a text is a token of its own, in front of those of the rest.
LEMMA BodyOfSelect ==
  ASSUME NEW q, PlainText(q), NEW w \in WordSymbols, BeginsWord(q, w), Len(Tokens[q][1]) = 1,
         NEW t \in TokenLists, Tokens[q] = TrimRight(t, Semicolons)
  PROVE  /\ PlainText(Tail(q)) /\ <<w>> \in Texts \cup {Unterminated}
         /\ Tokens[q] = <<<<w>>>> \o Tokens[Tail(q)]
         /\ t # <<>> /\ Tail(t) \in TokenLists /\ t = <<<<w>>>> \o Tail(t)
<1>1. SymbolInFront(q) /\ q # <<>> /\ q[1] = w
  BY WordAlone, Zenon DEF BeginsWord
<1>2. q \in Texts /\ Tail(q) = After(q, 1)
  BY <1>1, TailText DEF PlainText
<1>3. PICK v : v = After(q, 1)
  OBVIOUS
<1>4. PICK x : x = <<w>>
  OBVIOUS
<1>5. /\ PlainText(v) /\ x \in Texts \cup {Unterminated} /\ Tokens[v] \in TokenLists
      /\ Tokens[q] = <<x>> \o Tokens[v]
  BY <1>1, <1>3, <1>4, SymbolToken, Zenon
<1>6. PICK u \in TokenLists : u = Tokens[q]
  BY <1>2, TokensIs
<1>7. u[1] = x /\ u # <<>>
  <2>1. q[1] \notin Blanks
    BY <1>1, Zenon DEF SymbolInFront
  <2>2. u # <<>>
    BY <1>1, <1>6, <2>1, FirstToken
  <2>3. PICK z : z = Tokens[v] /\ z \in TokenLists
    BY <1>5
  <2>4. u = <<x>> \o z
    BY <1>5, <1>6, <2>3
  <2>5. u[1] = x
    BY <1>5, <2>3, <2>4, TokenJoin
  <2> QED BY <2>2, <2>5
<1>8. t # <<>> /\ t[1] = x
  BY <1>6, <1>7, FirstTokensKept, Zenon
<1>9. Tail(t) \in TokenLists /\ t = <<x>> \o Tail(t)
  BY <1>8, ListOfTail, Zenon
<1> QED BY <1>2, <1>3, <1>4, <1>5, <1>8, <1>9, Zenon

\* hasTopLevelFrom finds FROM in the text behind the word if it is among its tokens,
\* and the semicolons at the end change nothing of it.
LEMMA FromOfSelect ==
  ASSUME NEW b, PlainText(b), Bounded(b), NEW w \in WordSymbols, w # "FROM",
         <<w>> \in Texts \cup {Unterminated},
         NEW r \in TokenLists, \A i \in DOMAIN r : Depth(r, i) >= 0,
         TrimRight(<<<<w>>>> \o r, Semicolons) = <<<<w>>>> \o Tokens[b]
  PROVE  /\ HasTopLevelFrom(b) <=> TopLevel(<<<<w>>>> \o Tokens[b], From) # {}
         /\ TopLevel(r, From) # {} <=> TopLevel(<<<<w>>>> \o Tokens[b], From) # {}
<1>1. b \in Texts
  BY DEF PlainText
<1>2. PICK v \in TokenLists : v = Tokens[b]
  BY <1>1, TokensIs
<1>3. PICK x : x = <<w>> /\ x \in Texts \cup {Unterminated}
  OBVIOUS
<1>4. PICK u : /\ u = <<x>> \o v
              /\ u \in TokenLists /\ Len(u) = 1 + Len(v)
  <2>1. PICK z : z = <<x>> \o v
    OBVIOUS
  <2>2. z \in TokenLists /\ Len(z) = 1 + Len(v)
    BY <1>3, <2>1, TokenJoin
  <2> QED BY <2>1, <2>2
<1>5. PICK t : /\ t = <<x>> \o r
              /\ t \in TokenLists /\ Len(t) = 1 + Len(r)
  <2>1. PICK z : z = <<x>> \o r
    OBVIOUS
  <2>2. z \in TokenLists /\ Len(z) = 1 + Len(r)
    BY <1>3, <2>1, TokenJoin
  <2> QED BY <2>1, <2>2
<1>6. u = TrimRight(t, Semicolons)
  BY <1>2, <1>3, <1>4, <1>5, Zenon
<1>7. /\ TopLevel(u, From) # {} <=> At(v, From, 0) # {}
      /\ \A i \in 0..Len(v) : Depth(u, 1 + i) = Depth(v, i)
  BY <1>2, <1>3, <1>4, TopLevelBehind, Zenon
<1>8. /\ TopLevel(t, From) # {} <=> At(r, From, 0) # {}
      /\ \A i \in 0..Len(r) : Depth(t, 1 + i) = Depth(r, i)
  BY <1>3, <1>5, TopLevelBehind, Zenon
<1>9. TopLevel(t, From) = TopLevel(u, From)
  <2>1. From # Semicolon
    BY DEF From, Semicolon
  <2> QED BY <1>5, <1>6, <2>1, TrimmedTopLevel
<1>10. TopLevel(r, From) # {} <=> TopLevel(u, From) # {}
  <2>1. TopLevel(r, From) = At(r, From, 0)
    BY TopLevelIs
  <2> QED BY <1>8, <1>9, <2>1
<1>11. Nested(v, 0)
  <2>1. Len(u) \in Nat /\ Len(t) \in Nat /\ Len(u) <= Len(t)
    BY <1>5, <1>6, TrimmedIs
  <2>2. Len(v) \in Nat /\ Len(r) \in Nat /\ DOMAIN r = 1..Len(r)
    BY LenProperties DEF TokenLists
  <2>3. ASSUME NEW i \in 1..Len(v) PROVE 0 + Depth(v, i) >= 0
    <3>1. i \in 0..Len(v) /\ i \in 0..Len(r) /\ i \in 1..Len(r) /\ 1 + i \in 0..Len(u)
      BY <1>4, <1>5, <2>1, <2>2
    <3>2. Depth(u, 1 + i) = Depth(t, 1 + i)
      BY <1>5, <1>6, <3>1, TrimmedDepth, Zenon
    <3>3. Depth(v, i) = Depth(r, i)
      BY <1>7, <1>8, <3>1, <3>2, Zenon
    <3>4. Depth(r, i) >= 0
      BY <2>2, <3>1
    <3>5. Depth(v, i) \in Int
      BY <1>3, <3>1, DepthOfJoin
    <3> QED BY <3>3, <3>4, <3>5
  <2> QED BY <2>3 DEF Nested
<1>12. FromSeen[b][0][TRUE] <=> FromAt(b, 0, TRUE)
  <2>1. SeenAll(b)
    BY <1>1, FromSeenRight DEF Readable
  <2>2. 0 \in Nat /\ TRUE \in BOOLEAN
    OBVIOUS
  <2> QED BY <1>2, <1>11, <2>1, <2>2, Zenon DEF SeenAll, SeenRight
<1>13. FromAt(b, 0, TRUE) <=> At(Tokens[b], From, 0) # {}
  BY FromInside, Zenon
<1>14. HasTopLevelFrom(b) <=> TopLevel(u, From) # {}
  BY <1>2, <1>7, <1>12, <1>13, Zenon DEF HasTopLevelFrom
<1> QED BY <1>2, <1>3, <1>4, <1>10, <1>14, Zenon

\* Whatever the depth, the symbols around FROM are those that PlainSelect asks for.
LEMMA BoundedBody ==
  ASSUME NEW q, NEW t, PlainSelectOf(q, t), Tail(q) \in Texts
  PROVE  Bounded(Tail(q))
<1>1. PICK b \in Texts : b = Tail(q)
  OBVIOUS
<1>2. DOMAIN b = 1..Len(b)
  BY DomainOfText
<1>3. \A i \in DOMAIN b :
        Masked[b][i] = "FROM" =>
          /\ i > 1 => b[i - 1] \in Around
          /\ i < Len(b) => b[i + 1] \in Around
  BY <1>1, Zenon DEF PlainSelectOf, Around
<1> QED BY <1>1, <1>2, <1>3, Zenon DEF Bounded

\* A text without the name of a system schema has no token that begins with it.
LEMMA NoSchemaToken ==
  ASSUME NEW q \in Texts, WellFormed(Tokens[q]), "META" \notin ToSet(q)
  PROVE  SqlSelect(Tokens[q]) = IF TopLevel(Tokens[q], From) = {} THEN "system" ELSE "translator"
<1>1. PICK u \in TokenLists : u = Tokens[q]
  BY TokensIs
<1>2. \A i \in 1..Len(u) : u[i][1] # "META"
  BY <1>1, TokenHeads, Zenon DEF Begun
<1>3. ASSUME TopLevel(u, From) # {}, Min(TopLevel(u, From)) < Len(u)
      PROVE  u[Min(TopLevel(u, From)) + 1][1] # "META"
  <2>1. PICK m : m = Min(TopLevel(u, From))
    OBVIOUS
  <2>2. m \in 1..Len(u) /\ Len(u) \in Nat
    BY <1>3, <2>1, FirstFrom, EmptyOrNot DEF TokenLists
  <2>3. m + 1 \in 1..Len(u)
    BY <1>3, <2>1, <2>2
  <2> QED BY <1>2, <2>1, <2>3, Zenon
<1> QED BY <1>1, <1>3, Zenon DEF SqlSelect, From

LEMMA AgreesSelect ==
  ASSUME NEW q, CleanText(q), BeginsWord(q, "SELECT"), PlainHeadOf(q, Tokens[q]),
         NEW t \in TokenLists, Tokens[q] = TrimRight(t, Semicolons), PlainSelectOf(q, t)
  PROVE  Agrees(q)
<1>1. PICK w \in WordSymbols :
        /\ w = "SELECT" /\ w # "FROM" /\ w # "META"
        /\ w # "SET" /\ w # "DROP" /\ w # "USE"
  BY DEF WordSymbols
<1>2. q \in Texts /\ PlainText(q) /\ q # <<>> /\ q[1] = w /\ BeginsWord(q, w) /\ WellFormed(Tokens[q])
  BY <1>1, Zenon DEF CleanText, PlainText, BeginsWord
<1>3. PICK u \in TokenLists : u = Tokens[q]
  BY <1>2, TokensIs
<1>4. Len(u[1]) = 1
  <2>1. q[1] = "SELECT"
    BY <1>1, <1>2
  <2> QED BY <1>2, <1>3, <2>1, Zenon DEF PlainHeadOf
<1>5. PICK b : b = Tail(q)
  OBVIOUS
<1>6. PICK r : r = Tail(t)
  OBVIOUS
<1>7. /\ PlainText(b) /\ <<w>> \in Texts \cup {Unterminated}
      /\ u = <<<<w>>>> \o Tokens[b]
      /\ t # <<>> /\ r \in TokenLists /\ t = <<<<w>>>> \o r
  <2>1. Len(Tokens[q][1]) = 1
    BY <1>3, <1>4, Zenon
  <2>2. /\ PlainText(Tail(q)) /\ <<w>> \in Texts \cup {Unterminated}
        /\ Tokens[q] = <<<<w>>>> \o Tokens[Tail(q)]
        /\ t # <<>> /\ Tail(t) \in TokenLists /\ t = <<<<w>>>> \o Tail(t)
    BY <1>2, <2>1, BodyOfSelect
  <2> QED BY <1>3, <1>5, <1>6, <2>2, Zenon
<1>8. b \in Texts /\ Bounded(b)
  BY <1>5, <1>7, BoundedBody DEF PlainText
<1>9. /\ \A i \in DOMAIN r : Depth(r, i) >= 0
      /\ "META" \in ToSet(b) => SqlRoute(t) = "empty"
      /\ TopLevel(r, From) # {} => ~ContainsSystemExpr(b)
  BY <1>5, <1>6, Zenon DEF PlainSelectOf, From
<1>10. /\ HasTopLevelFrom(b) <=> TopLevel(u, From) # {}
       /\ TopLevel(r, From) # {} <=> TopLevel(u, From) # {}
  <2>1. TrimRight(<<<<w>>>> \o r, Semicolons) = <<<<w>>>> \o Tokens[b]
    BY <1>3, <1>7, Zenon
  <2> QED BY <1>1, <1>7, <1>8, <1>9, <2>1, FromOfSelect, Zenon
<1>11. Route(q) = SelectRoute(q)
  BY <1>1, <1>2, RouteOfHead, Zenon
<1>12. u # <<>> /\ u[1] = <<w>> /\ t[1] = <<w>>
  <2>1. PICK x : x = <<w>>
    OBVIOUS
  <2>2. PICK v : v = Tokens[b] /\ v \in TokenLists
    BY <1>8, TokensIs
  <2>3. u = <<x>> \o v /\ t = <<x>> \o r /\ x \in Texts \cup {Unterminated}
    BY <1>7, <2>1, <2>2
  <2>4. u[1] = x
    BY <2>2, <2>3, TokenJoin
  <2>5. t[1] = x
    BY <1>7, <2>3, TokenJoin
  <2>6. u # <<>>
    <3>1. q[1] \notin Blanks
      BY <1>1, <1>2 DEF Blanks
    <3> QED BY <1>2, <1>3, <3>1, FirstToken, Zenon
  <2> QED BY <2>1, <2>4, <2>5, <2>6
<1>13. SqlRoute(u) = SqlSelect(u) /\ SqlRoute(t) = SqlSelect(t)
  BY <1>1, <1>7, <1>12, SqlRouteOfHead, Zenon
<1>14. "META" \in ToSet(q) <=> "META" \in ToSet(b)
  BY <1>1, <1>2, <1>5, SymbolOfBody, Zenon
<1>15. CASE "META" \in ToSet(q)
  <2>1. SelectRoute(q) = "empty"
    BY <1>15, Zenon DEF SelectRoute
  <2>2. SqlSelect(t) = "empty"
    BY <1>9, <1>13, <1>14, <1>15, Zenon
  <2>3. SqlSelect(u) = "empty"
    BY <1>3, <2>2, EmptyKept, Zenon
  <2> QED BY <1>3, <1>11, <1>13, <2>1, <2>3, Zenon DEF Agrees
<1>16. CASE "META" \notin ToSet(q)
  <2>1. SqlSelect(u) = IF TopLevel(u, From) = {} THEN "system" ELSE "translator"
    BY <1>2, <1>3, <1>16, NoSchemaToken, Zenon
  <2>2. SelectRoute(q) = IF ContainsSystemExpr(b) \/ ~HasTopLevelFrom(b)
                         THEN "system" ELSE "translator"
    BY <1>5, <1>16, Zenon DEF SelectRoute
  <2>3. SelectRoute(q) = SqlSelect(u)
    BY <1>9, <1>10, <2>1, <2>2, Zenon
  <2> QED BY <1>3, <1>11, <1>13, <2>3, Zenon DEF Agrees
<1> QED BY <1>15, <1>16

\* A query is answered by the part that its tokens call for: no first word, FROM
\* or name of a system schema that handleMeta looks for in the text is another
\* than the token it stands for (meta.go handleMeta, hasTopLevelFrom).
THEOREM RoutedRight == Spec => []RoutedByTokens
<1>1. ASSUME AnswerInv, phase \in {"routed", "answered"}, WellFormed(Sql), PlainHead, PlainSelect
      PROVE  route = SqlRoute(TrimRight(Sql, Semicolons))
  <2>1. query \in Texts /\ text = Cleaned(Stripped[query]) /\ route = Route(text)
    BY <1>1 DEF AnswerInv, TextInv, StripSQLComments
  <2>2. CleanText(text) /\ Tokens[text] = TrimRight(Sql, Semicolons) /\ Sql \in TokenLists
    BY <1>1, <2>1, CleanedIs, TextIsPlain, TokensIs DEF Sql
  <2>3. text \in Texts /\ PlainText(text) /\ (text # <<>> => text[1] \notin Blanks)
    BY <2>2, Zenon DEF CleanText, PlainText
  <2>4. PICK u \in TokenLists : u = Tokens[text]
    BY <2>3, TokensIs
  <2>5. CASE text = <<>>
    <3>1. u = <<>>
      BY <2>4, <2>5, NoTokens
    <3>2. SqlRoute(u) = "ok"
      BY <3>1, SqlRouteIs, Zenon
    <3>3. Route(text) = "ok"
      BY <2>3, <2>5, RouteIs, Zenon DEF IsSet
    <3> QED BY <2>1, <2>2, <2>4, <3>2, <3>3, Zenon
  <2>6. CASE text # <<>>
    <3> SUFFICES Agrees(text)
      BY <2>1, <2>2, Zenon DEF Agrees
    <3>1. u # <<>>
      BY <2>3, <2>4, <2>6, FirstToken, Zenon
    <3>2. PlainHeadOf(text, Sql)
      BY <1>1, Zenon DEF PlainHead, PlainHeadOf
    <3>3. PlainHeadOf(text, Tokens[text])
      BY <2>2, <2>4, <3>1, <3>2, PlainHeadKept, Zenon
    <3>4. CASE text[1] = "SELECT"
      <4>1. PlainSelectOf(text, Sql)
        BY <1>1, <2>6, <3>4, Zenon DEF PlainSelect, PlainSelectOf
      <4>2. BeginsWord(text, "SELECT")
        BY <2>6, <3>4 DEF BeginsWord
      <4> QED BY <2>2, <3>3, <4>1, <4>2, AgreesSelect, Zenon
    <3>5. CASE text[1] = "SHOW"
      <4>1. BeginsWord(text, "SHOW")
        BY <2>6, <3>5 DEF BeginsWord
      <4> QED BY <2>2, <3>3, <4>1, AgreesShow, Zenon
    <3>6. CASE text[1] \in {"SET", "USE", "DROP"}
      <4>1. BeginsWord(text, text[1])
        BY <2>6 DEF BeginsWord
      <4> QED BY <2>2, <3>3, <3>6, <4>1, AgreesAlone, Zenon
    <3>7. CASE text[1] \notin {"SET", "USE", "DROP", "SELECT", "SHOW"}
      BY <2>2, <2>6, <3>7, AgreesOther, Zenon
    <3> QED BY <3>4, <3>5, <3>6, <3>7
  <2> QED BY <2>5, <2>6
<1>2. AnswerInv => RoutedByTokens
  BY <1>1, Zenon DEF RoutedByTokens, Semicolons
<1> QED BY <1>2, AnswerOfText, PTL
=============================================================================
