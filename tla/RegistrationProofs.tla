------------------------- MODULE RegistrationProofs -------------------------
(***************************************************************************)
(* What Registration says of a registration on its way, proved for every   *)
(* alphabet, name, command, period, process id, size of a datagram and     *)
(* number of restarts.  The strings are followed by positions: each part   *)
(* that strip_string_space and strtok_r cut out of a string is             *)
(* SubSeq(s, first, last) of the same s.  RegInv is the invariant.         *)
(***************************************************************************)
EXTENDS Registration, SequenceLemmas

-----------------------------------------------------------------------------
(* Positions in a string.                                                  *)

\* A bounded set of positions has a greatest one, and Max is it.
LEMMA MaxProperties ==
    ASSUME NEW S, NEW b \in Nat, S \subseteq 0 .. b, S # {}
    PROVE  Max(S) \in S /\ \A x \in S : x <= Max(S)
<1> DEFINE T == {b - x : x \in S}
<1>1. T \subseteq Nat /\ T # {}
  <2>1. \A x \in S : x \in Nat /\ x <= b
    OBVIOUS
  <2>2. \A x \in S : b - x \in Nat
    BY <2>1
  <2> QED BY <2>2
<1>2. Min(T) \in T /\ \A t \in T : Min(T) <= t
  BY <1>1, MinProperties
<1>3. PICK m \in S : Min(T) = b - m
  BY <1>2
<1>4. \A x \in S : x <= m
  <2> SUFFICES ASSUME NEW x \in S
               PROVE  x <= m
    OBVIOUS
  <2>1. b - m <= b - x
    BY <1>2, <1>3
  <2> QED BY <2>1
<1> HIDE DEF T
<1> QED BY <1>4 DEF Max

\* A part of a string, from a to b.
LEMMA PartProperties ==
    ASSUME NEW s \in Seq(Char), NEW a \in Nat \ {0}, NEW b \in 0 .. Len(s)
    PROVE  /\ SubSeq(s, a, b) \in Seq(Char)
           /\ Len(SubSeq(s, a, b)) = IF a <= b THEN b - a + 1 ELSE 0
           /\ \A i \in 1 .. b - a + 1 : SubSeq(s, a, b)[i] = s[a + i - 1]
           /\ DOMAIN SubSeq(s, a, b) = 1 .. b - a + 1
<1>1. \A i \in a .. b : s[i] \in Char
  BY ElementOfSeq
<1>2. /\ SubSeq(s, a, b) \in Seq(Char)
      /\ Len(SubSeq(s, a, b)) = IF a <= b THEN b - a + 1 ELSE 0
      /\ \A i \in 1 .. b - a + 1 : SubSeq(s, a, b)[i] = s[a + i - 1]
  BY <1>1, SubSeqProperties
<1>3. DOMAIN SubSeq(s, a, b) = 1 .. Len(SubSeq(s, a, b))
  BY <1>2, LenProperties
<1> QED BY <1>2, <1>3

\* A part of a part is a part of the whole.
LEMMA PartOfPart ==
    ASSUME NEW s \in Seq(Char), NEW a \in Nat \ {0}, NEW b \in 0 .. Len(s),
           NEW c \in Nat \ {0}, NEW d \in Nat, d <= b - a + 1
    PROVE  SubSeq(SubSeq(s, a, b), c, d) = SubSeq(s, a + c - 1, a + d - 1)
<1> DEFINE p == SubSeq(s, a, b)
           q == SubSeq(p, c, d)
           r == SubSeq(s, a + c - 1, a + d - 1)
<1>1. CASE d < c
  <2>1. q = << >> /\ r = << >>
    BY <1>1, SubSeqEmpty
  <2> QED BY <2>1
<1>2. CASE c <= d
  <2>1. /\ p \in Seq(Char) /\ Len(p) = b - a + 1
        /\ \A i \in 1 .. b - a + 1 : p[i] = s[a + i - 1]
    BY <1>2, PartProperties
  <2>2. d \in 0 .. Len(p)
    BY <2>1
  <2> HIDE DEF p
  <2>3. q \in Seq(Char) /\ Len(q) = d - c + 1
        /\ \A i \in 1 .. d - c + 1 : q[i] = p[c + i - 1]
    BY <1>2, <2>1, <2>2, PartProperties
  <2>4. a + c - 1 \in Nat \ {0} /\ a + d - 1 \in 0 .. Len(s)
    BY <1>2
  <2>5. r \in Seq(Char) /\ Len(r) = d - c + 1
        /\ \A i \in 1 .. d - c + 1 : r[i] = s[a + c - 1 + i - 1]
    BY <1>2, <2>4, PartProperties
  <2> HIDE DEF q, r
  <2>6. \A i \in 1 .. d - c + 1 : q[i] = r[i]
    BY <1>2, <2>1, <2>3, <2>5
  <2>7. q = r
    BY <2>3, <2>5, <2>6, SeqEqual
  <2> QED BY <2>7 DEF q, r, p
<1> QED BY <1>1, <1>2

\* What is in the set and not above any of it is its Min.
LEMMA MinIs ==
    ASSUME NEW S, S \subseteq Nat, NEW m \in S, \A x \in S : m <= x
    PROVE  Min(S) = m
<1>1. Min(S) \in S /\ Min(S) <= m
  BY MinProperties
<1>2. Min(S) \in Nat /\ m \in Nat /\ m <= Min(S)
  BY <1>1
<1> QED BY <1>1, <1>2

\* What is in the set and not below any of it is its Max.
LEMMA MaxIs ==
    ASSUME NEW S, NEW b \in Nat, S \subseteq 0 .. b, NEW m \in S, \A x \in S : x <= m
    PROVE  Max(S) = m
<1>1. Max(S) \in S /\ m <= Max(S)
  BY MaxProperties
<1>2. Max(S) \in 0 .. b /\ m \in 0 .. b /\ Max(S) <= m
  BY <1>1
<1> QED BY <1>1, <1>2

-----------------------------------------------------------------------------
(* strtok_r and strip_string_space on a part of a string.                  *)

\* The token of the part of s from a to b begins with f and ends with g.
TokenSpan(s, a, b, d, f, g) ==
    /\ f \in a .. b /\ g \in f .. b
    /\ \A i \in a .. f - 1 : s[i] = d
    /\ \A i \in f .. g : s[i] # d
    /\ g = b \/ s[g + 1] = d

\* The printing characters of the part begin with f and end with l.
StripSpan(s, a, b, f, l) ==
    /\ f \in a .. b /\ l \in f .. b
    /\ s[f] \notin Space /\ s[l] \notin Space
    /\ \A i \in a .. f - 1 : s[i] \in Space
    /\ \A i \in l + 1 .. b : s[i] \in Space

\* The two results of strtok_r.
LEMMA TokenFields ==
    ASSUME NEW token, NEW word, NEW left, token = [word |-> word, rest |-> left]
    PROVE  token.word = word /\ token.rest = left
  OBVIOUS

\* What is left begins behind the delimiter.
LEMMA TokenOfPart ==
    ASSUME NEW s \in Seq(Char), NEW a \in Nat \ {0}, NEW b \in 0 .. Len(s), NEW d \in Char,
           NEW f \in Nat, NEW g \in Nat, TokenSpan(s, a, b, d, f, g),
           NEW r \in Nat, r = g + 2
    PROVE  /\ Token(SubSeq(s, a, b), d).word = SubSeq(s, f, g)
           /\ Token(SubSeq(s, a, b), d).rest = SubSeq(s, r, b)
<1> DEFINE p == SubSeq(s, a, b)
           n == b - a + 1
           others == {i \in DOMAIN p : p[i] # d}
           e == g + 1
           first == f - a + 1
           ends == {i \in first .. Len(p) : p[i] = d}
           end == e - a + 1
           stop(m) == Min({i \in m .. Len(p) : p[i] = d} \union {Len(p) + 1})
<1>0. /\ f \in a .. b /\ e \in f + 1 .. b + 1
      /\ \A i \in a .. f - 1 : s[i] = d
      /\ \A i \in f .. e - 1 : s[i] # d
      /\ e = b + 1 \/ s[e] = d
      /\ s[f] # d /\ e \in Nat /\ g = e - 1 /\ r = e + 1
  BY DEF TokenSpan
<1> HIDE DEF e
<1> USE <1>0
<1>1. /\ Len(p) = n /\ DOMAIN p = 1 .. n
      /\ \A i \in 1 .. n : p[i] = s[a + i - 1]
  BY PartProperties
<1>2. n \in Nat /\ first \in 1 .. n /\ end \in first + 1 .. n + 1
  OBVIOUS
<1> HIDE DEF p
<1>3. first \in others /\ others \subseteq Nat /\ \A i \in others : first <= i
  <2>1. p[first] = s[f]
    BY <1>1, <1>2
  <2>2. ASSUME NEW i \in 1 .. n, i < first
        PROVE  p[i] = d
    <3>1. a + i - 1 \in a .. f - 1 /\ p[i] = s[a + i - 1]
      BY <1>1, <2>2
    <3> QED BY <3>1
  <2> QED BY <1>1, <1>2, <2>1, <2>2
<1>4. Min(others) = first
  BY <1>3, MinIs
<1>5. /\ end \in ends \union {Len(p) + 1}
      /\ ends \union {Len(p) + 1} \subseteq Nat
      /\ \A i \in ends \union {Len(p) + 1} : end <= i
  <2>1. end = n + 1 \/ p[end] = d
    <3>1. CASE e = b + 1
      BY <3>1
    <3>2. CASE e <= b
      <4>1. a + end - 1 = e /\ end \in 1 .. n
        BY <1>2, <3>2
      <4>2. p[end] = s[e]
        BY <1>1, <4>1
      <4> QED BY <3>2, <4>2
    <3> QED BY <3>1, <3>2
  <2>2. ASSUME NEW i \in first .. end - 1
        PROVE  p[i] # d
    <3>1. i \in 1 .. n /\ a + i - 1 \in f .. e - 1
      BY <1>2
    <3> QED BY <1>1, <3>1
  <2> HIDE <1>0
  <2> HIDE DEF first, end, n
  <2>3. end \in ends \union {n + 1}
    <3>1. CASE end = n + 1
      BY <3>1
    <3>2. CASE end # n + 1
      <4>1. end \in first .. n /\ p[end] = d
        BY <1>2, <2>1, <3>2
      <4> QED BY <1>1, <4>1
    <3> QED BY <3>1, <3>2
  <2>4. \A i \in ends : i \in first .. n /\ p[i] = d
    BY <1>1
  <2>5. \A i \in ends : end <= i
    BY <1>2, <2>2, <2>4
  <2>6. ends \subseteq Nat
    BY <1>2, <2>4
  <2> QED BY <1>1, <1>2, <2>3, <2>5, <2>6
<1>6. first \in others
  BY <1>3
<1>7. others # {}
  <2> HIDE DEF others
  <2> QED BY <1>6
<1>8. SubSeq(p, first, end - 1) = SubSeq(s, f, g)
  <2>1. PICK c \in Nat \ {0}, h \in Nat : c = first /\ h = end - 1 /\ h <= b - a + 1
    BY <1>2
  <2>2. SubSeq(SubSeq(s, a, b), c, h) = SubSeq(s, a + c - 1, a + h - 1)
    BY <2>1, PartOfPart
  <2>3. a + c - 1 = f /\ a + h - 1 = g
    BY <2>1
  <2> HIDE DEF first, end, n
  <2> QED BY <2>1, <2>2, <2>3 DEF p
<1>9. SubSeq(p, end + 1, Len(p)) = SubSeq(s, r, b)
  <2>1. PICK c \in Nat \ {0}, h \in Nat : c = end + 1 /\ h = n /\ h <= b - a + 1
    BY <1>2
  <2>2. SubSeq(SubSeq(s, a, b), c, h) = SubSeq(s, a + c - 1, a + h - 1)
    BY <2>1, PartOfPart
  <2>3. a + c - 1 = r /\ a + h - 1 = b /\ Len(p) = h
    BY <1>1, <2>1
  <2> HIDE DEF first, end, n
  <2>4. SubSeq(p, c, h) = SubSeq(s, r, b)
    BY <2>2, <2>3, Zenon DEF p
  <2> QED BY <2>1, <2>3, <2>4, Zenon
<1>10. Token(p, d) = IF others = {} THEN [word |-> Null, rest |-> << >>]
                     ELSE [word |-> SubSeq(p, Min(others), stop(Min(others)) - 1),
                           rest |-> SubSeq(p, stop(Min(others)) + 1, Len(p))]
  BY Zenon DEF Token
<1>11. stop(first) = Min(ends \union {Len(p) + 1})
  OBVIOUS
<1> HIDE <1>0
<1> HIDE DEF first, end, others, ends, stop
<1>12. Min(ends \union {Len(p) + 1}) = end
  <2> DEFINE E == ends \union {Len(p) + 1}
  <2> HIDE DEF E
  <2>1. end \in E /\ E \subseteq Nat /\ \A i \in E : end <= i
    BY <1>5, Zenon DEF E
  <2>2. Min(E) = end
    BY <2>1, MinIs, Zenon
  <2> QED BY <2>2, Zenon DEF E
<1>13. Token(p, d) = [word |-> SubSeq(p, first, end - 1),
                      rest |-> SubSeq(p, end + 1, Len(p))]
  BY <1>4, <1>7, <1>10, <1>11, <1>12, Zenon
<1>14. Token(p, d).word = SubSeq(p, first, end - 1) /\ Token(p, d).rest = SubSeq(p, end + 1, Len(p))
  BY <1>13, TokenFields, Zenon
<1>15. Token(p, d).word = SubSeq(s, f, g) /\ Token(p, d).rest = SubSeq(s, r, b)
  BY <1>8, <1>9, <1>14, Zenon
<1> QED BY <1>15, Zenon DEF p

\* A part of delimiters only has no token.
LEMMA TokenOfNothing ==
    ASSUME NEW s \in Seq(Char), NEW a \in Nat \ {0}, NEW b \in 0 .. Len(s), NEW d \in Char,
           \A i \in a .. b : s[i] = d
    PROVE  /\ Token(SubSeq(s, a, b), d).word = Null
           /\ Token(SubSeq(s, a, b), d).rest = << >>
<1> DEFINE p == SubSeq(s, a, b)
<1>1. /\ DOMAIN p = 1 .. b - a + 1
      /\ \A i \in 1 .. b - a + 1 : p[i] = s[a + i - 1]
  BY PartProperties
<1> HIDE DEF p
<1>2. ASSUME NEW i \in 1 .. b - a + 1
      PROVE  p[i] = d
  <2>1. PICK j \in a .. b : j = a + i - 1
    OBVIOUS
  <2>2. p[i] = s[j]
    BY <1>1, <2>1
  <2> QED BY <2>1, <2>2
<1>3. \A i \in DOMAIN p : p[i] = d
  BY <1>1, <1>2, Zenon
<1>4. {i \in DOMAIN p : p[i] # d} = {}
  BY <1>3, Zenon
<1>5. Token(p, d) = [word |-> Null, rest |-> << >>]
  BY <1>4, Zenon DEF Token
<1>6. Token(p, d).word = Null /\ Token(p, d).rest = << >>
  BY <1>5, TokenFields, Zenon
<1> QED BY <1>6, Zenon DEF p

\* There is no third case.
LEMMA TokenCases ==
    ASSUME NEW s \in Seq(Char), NEW a \in Nat \ {0}, NEW b \in 0 .. Len(s), NEW d \in Char
    PROVE  \/ \A i \in a .. b : s[i] = d
           \/ \E f, g \in Nat : TokenSpan(s, a, b, d, f, g)
<1> SUFFICES ASSUME NEW j \in a .. b, s[j] # d
             PROVE  \E f, g \in Nat : TokenSpan(s, a, b, d, f, g)
  OBVIOUS
<1> DEFINE F == {i \in a .. b : s[i] # d}
<1>1. F \subseteq Nat /\ F # {}
  OBVIOUS
<1>2. PICK f \in F : \A i \in F : f <= i
  BY <1>1, MinProperties
<1> DEFINE E == {i \in f .. b : s[i] = d} \union {b + 1}
<1>3. f \in a .. b /\ s[f] # d /\ \A i \in a .. f - 1 : s[i] = d
  BY <1>2
<1>4. E \subseteq Nat /\ E # {}
  BY <1>3
<1>5. PICK e \in E : \A i \in E : e <= i
  <2> HIDE DEF E
  <2> QED BY <1>4, MinProperties
<1>6. e \in f + 1 .. b + 1 /\ (e = b + 1 \/ s[e] = d)
  BY <1>3, <1>5
<1>7. \A i \in f .. e - 1 : s[i] # d
  BY <1>3, <1>5, <1>6
<1>8. f \in Nat /\ e - 1 \in Nat
  BY <1>3, <1>6
<1>9. TokenSpan(s, a, b, d, f, e - 1)
  BY <1>3, <1>6, <1>7 DEF TokenSpan
<1> QED BY <1>8, <1>9

\* A part that has its first and last printing characters at f and l.
LEMMA StripOfPart ==
    ASSUME NEW s \in Seq(Char), NEW a \in Nat \ {0}, NEW b \in 0 .. Len(s),
           NEW f \in Nat, NEW l \in Nat, StripSpan(s, a, b, f, l)
    PROVE  Strip(SubSeq(s, a, b)) = SubSeq(s, f, l)
<1> DEFINE p == SubSeq(s, a, b)
           n == b - a + 1
<1>0. /\ f \in a .. b /\ l \in f .. b
      /\ s[f] \notin Space /\ s[l] \notin Space
      /\ \A i \in a .. f - 1 : s[i] \in Space
      /\ \A i \in l + 1 .. b : s[i] \in Space
  BY DEF StripSpan
<1> USE <1>0
<1>1. /\ DOMAIN p = 1 .. n
      /\ \A i \in 1 .. n : p[i] = s[a + i - 1]
  BY PartProperties
<1>2. n \in Nat /\ f - a + 1 \in 1 .. n /\ l - a + 1 \in 1 .. n
  OBVIOUS
<1> HIDE DEF p
<1>3. /\ Printing(p) \subseteq 0 .. n
      /\ f - a + 1 \in Printing(p) /\ l - a + 1 \in Printing(p)
      /\ \A i \in Printing(p) : f - a + 1 <= i /\ i <= l - a + 1
  <2>1. p[f - a + 1] = s[f] /\ p[l - a + 1] = s[l]
    <3>1. a + (f - a + 1) - 1 = f /\ a + (l - a + 1) - 1 = l
      OBVIOUS
    <3> QED BY <1>1, <1>2, <3>1
  <2>2. ASSUME NEW i \in 1 .. n, i < f - a + 1 \/ l - a + 1 < i
        PROVE  p[i] \in Space
    <3>1. /\ a + i - 1 \in a .. f - 1 \/ a + i - 1 \in l + 1 .. b
          /\ p[i] = s[a + i - 1]
      BY <1>1, <2>2
    <3> QED BY <3>1
  <2>3. Printing(p) \subseteq 1 .. n /\ n \in Nat
    BY <1>1, <1>2 DEF Printing
  <2>4. f - a + 1 \in Printing(p) /\ l - a + 1 \in Printing(p)
    BY <1>1, <1>2, <2>1 DEF Printing
  <2>5. \A i \in Printing(p) : i \in 1 .. n /\ p[i] \notin Space
    BY <1>1 DEF Printing
  <2> QED BY <1>2, <2>2, <2>3, <2>4, <2>5
<1>4. Min(Printing(p)) = f - a + 1
  <2>1. Printing(p) \subseteq Nat
    BY <1>3
  <2> QED BY <1>3, <2>1, MinIs
<1>5. Max(Printing(p)) = l - a + 1
  BY <1>2, <1>3, MaxIs
<1>6. SubSeq(p, f - a + 1, l - a + 1) = SubSeq(s, a + (f - a + 1) - 1, a + (l - a + 1) - 1)
  BY <1>2, PartOfPart DEF p
<1>7. SubSeq(p, f - a + 1, l - a + 1) = SubSeq(s, f, l)
  BY <1>6
<1>8. Strip(p) = SubSeq(p, f - a + 1, l - a + 1)
  BY <1>3, <1>4, <1>5 DEF Strip
<1> QED BY <1>7, <1>8 DEF p

\* A part of spaces is a null pointer.
LEMMA StripOfSpaces ==
    ASSUME NEW s \in Seq(Char), NEW a \in Nat \ {0}, NEW b \in 0 .. Len(s), a <= b,
           \A i \in a .. b : s[i] \in Space
    PROVE  Strip(SubSeq(s, a, b)) = Null
<1> DEFINE p == SubSeq(s, a, b)
<1>1. /\ DOMAIN p = 1 .. b - a + 1
      /\ \A i \in 1 .. b - a + 1 : p[i] = s[a + i - 1]
  BY PartProperties
<1>2. Len(p) # 0
  BY PartProperties
<1> HIDE DEF p
<1>3. Printing(p) = {}
  BY <1>1 DEF Printing
<1>4. p # << >>
  BY <1>2
<1> QED BY <1>3, <1>4 DEF Strip, p

\* There is no third case: spaces only, or a first and a last printing
\* character.
LEMMA StripCases ==
    ASSUME NEW s \in Seq(Char), NEW a \in Nat \ {0}, NEW b \in 0 .. Len(s)
    PROVE  \/ \A i \in a .. b : s[i] \in Space
           \/ \E f, l \in Nat : StripSpan(s, a, b, f, l)
<1> SUFFICES ASSUME NEW j \in a .. b, s[j] \notin Space
             PROVE  \E f, l \in Nat : StripSpan(s, a, b, f, l)
  OBVIOUS
<1> DEFINE P == {i \in a .. b : s[i] \notin Space}
<1>1. P \subseteq Nat /\ P \subseteq 0 .. b /\ P # {} /\ b \in Nat
  OBVIOUS
<1>2. PICK f \in P : \A i \in P : f <= i
  BY <1>1, MinProperties
<1>3. PICK l \in P : \A i \in P : i <= l
  BY <1>1, MaxProperties
<1>4. f \in a .. b /\ l \in f .. b
  BY <1>2, <1>3
<1>5. /\ \A i \in a .. f - 1 : i \in a .. b /\ i \notin P
      /\ \A i \in l + 1 .. b : i \in a .. b /\ i \notin P
  BY <1>2, <1>3
<1> QED BY <1>2, <1>3, <1>4, <1>5 DEF StripSpan

-----------------------------------------------------------------------------
(* Integers on the wire.                                                   *)

\* The quotient and the remainder of ShortOctets are numbers, the remainder
\* less than the octet.
LEMMA Division ==
    ASSUME NEW v \in Nat, NEW b \in Nat \ {0}
    PROVE  /\ v \div b \in Nat
           /\ v % b \in 0 .. b - 1
           /\ v = b * (v \div b) + (v % b)
  OBVIOUS

\* What is above a multiple of b by less than b has that for its remainder.
LEMMA Remainder ==
    ASSUME NEW q \in Nat, NEW b \in Nat \ {0}, NEW r \in 0 .. b - 1
    PROVE  (b * q + r) % b = r
  OBVIOUS

\* The upper half of an int fits a short.
LEMMA QuotientBound ==
    ASSUME NEW v \in Nat, NEW b \in Nat \ {0}, NEW c \in Nat, v < c * b
    PROVE  v \div b < c
  OBVIOUS

\* A short has more values than the error 200 of wd_send_action_pg.
LEMMA ShortsIsNat == Shorts \in Nat \ {0} /\ Shorts > 200 /\ Byte \in Nat \ {0}
<1>1. Byte \in Nat /\ Byte >= 16
  BY DatagramConstants
<1>2. Byte * Byte >= 16 * Byte
  BY <1>1
<1>3. 16 * Byte > 200
  BY <1>1
<1> QED BY <1>1, <1>2, <1>3 DEF Shorts

\* The two octets of a short give it back up to its width.
LEMMA ShortRoundTrip ==
    ASSUME NEW v \in Nat
    PROVE  /\ ShortOctets(v) = <<ShortOctets(v)[1], ShortOctets(v)[2]>>
           /\ ShortOctets(v)[1] \in Nat /\ ShortOctets(v)[2] \in Nat
           /\ ShortOctets(v)[1] * Byte + ShortOctets(v)[2] = v % Shorts
<1> DEFINE q == v \div Byte
           r == v % Byte
           t == q \div Byte
           o == q % Byte
<1>1. q \in Nat /\ r \in 0 .. Byte - 1 /\ v = Byte * q + r
  BY Division, ShortsIsNat
<1> HIDE DEF q, r
<1>2. t \in Nat /\ o \in 0 .. Byte - 1 /\ q = Byte * t + o
  BY <1>1, Division, ShortsIsNat
<1> HIDE DEF t, o
<1>3. ShortOctets(v) = <<o, r>>
  BY DEF ShortOctets, o, q, r
<1>4. v = Shorts * t + (o * Byte + r)
  <2>1. Byte * q = Byte * (Byte * t) + Byte * o
    BY <1>1, <1>2, ShortsIsNat
  <2>2. Byte * (Byte * t) = Shorts * t /\ Byte * o = o * Byte
    BY <1>1, <1>2, ShortsIsNat DEF Shorts
  <2> QED BY <1>1, <1>2, <2>1, <2>2, ShortsIsNat
<1>5. o * Byte + r \in 0 .. Shorts - 1
  <2>1. o * Byte <= (Byte - 1) * Byte
    BY <1>2, ShortsIsNat
  <2>2. (Byte - 1) * Byte = Shorts - Byte
    BY ShortsIsNat DEF Shorts
  <2>3. o * Byte \in Nat
    BY <1>2, ShortsIsNat
  <2> QED BY <1>1, <2>1, <2>2, <2>3, ShortsIsNat
<1>6. v % Shorts = o * Byte + r
  <2>1. (Shorts * t + (o * Byte + r)) % Shorts = o * Byte + r
    BY <1>2, <1>5, Remainder, ShortsIsNat
  <2> QED BY <1>4, <2>1
<1> QED BY <1>1, <1>2, <1>3, <1>6

\* A number less than b is its own remainder.
LEMMA SmallRemainder ==
    ASSUME NEW v \in Nat, NEW b \in Nat \ {0}, v < b
    PROVE  v % b = v
  OBVIOUS

\* One character is a string.
LEMMA SingleInSeq ==
    ASSUME NEW S, NEW x \in S
    PROVE  <<x>> \in Seq(S)
  OBVIOUS

\* The two octets of a short, and what they count.
LEMMA ShortOctetsSeq ==
    ASSUME NEW v \in Nat
    PROVE  /\ ShortOctets(v) \in Seq(Nat) /\ Len(ShortOctets(v)) = 2
           /\ Unsigned(ShortOctets(v), 0) = v % Shorts
<1>1. PICK a \in Nat, b \in Nat : ShortOctets(v) = <<a, b>> /\ a * Byte + b = v % Shorts
  BY ShortRoundTrip
<1>2. Unsigned(<<a, b>>, 0) = a * Byte + b
  BY DEF Unsigned
<1> QED BY <1>1, <1>2

\* A short is read as before when octets are put behind it.
LEMMA UnsignedInHead ==
    ASSUME NEW h \in Seq(Nat), NEW t \in Seq(Nat), NEW at \in Nat, at + 2 <= Len(h)
    PROVE  Unsigned(h \o t, at) = Unsigned(h, at)
<1>1. (h \o t)[at + 1] = h[at + 1] /\ (h \o t)[at + 2] = h[at + 2]
  BY ConcatProperties, LenProperties
<1> QED BY <1>1 DEF Unsigned

\* And when octets are put in front of it.
LEMMA UnsignedInTail ==
    ASSUME NEW h \in Seq(Nat), NEW t \in Seq(Nat), NEW at \in Nat, at + 2 <= Len(t)
    PROVE  Unsigned(h \o t, Len(h) + at) = Unsigned(t, at)
<1>1. /\ (h \o t)[Len(h) + at + 1] = t[at + 1]
      /\ (h \o t)[Len(h) + at + 2] = t[at + 2]
  BY ConcatProperties, LenProperties
<1> QED BY <1>1 DEF Unsigned

\* A short at the end of octets, and in front of more of them.
LEMMA ShortAtEnd ==
    ASSUME NEW h \in Seq(Nat), NEW v \in Nat
    PROVE  /\ h \o ShortOctets(v) \in Seq(Nat)
           /\ Len(h \o ShortOctets(v)) = Len(h) + 2
           /\ Unsigned(h \o ShortOctets(v), Len(h)) = v % Shorts
<1>1. ShortOctets(v) \in Seq(Nat) /\ Len(ShortOctets(v)) = 2
      /\ Unsigned(ShortOctets(v), 0) = v % Shorts
  BY ShortOctetsSeq
<1>2. Unsigned(h \o ShortOctets(v), Len(h) + 0) = Unsigned(ShortOctets(v), 0)
  <2>1. 0 \in Nat /\ 0 + 2 <= Len(ShortOctets(v))
    BY <1>1
  <2> QED BY <1>1, <2>1, UnsignedInTail, Zenon
<1>3. Len(h) + 0 = Len(h)
  BY LenProperties
<1>4. /\ h \o ShortOctets(v) \in Seq(Nat)
      /\ Len(h \o ShortOctets(v)) = Len(h) + Len(ShortOctets(v))
  BY <1>1, ConcatProperties, Zenon
<1> QED BY <1>1, <1>2, <1>3, <1>4, Zenon

\* The four octets of an int.
LEMMA IntOctetsSeq ==
    ASSUME NEW v \in Nat
    PROVE  /\ IntOctets(v) \in Seq(Nat) /\ Len(IntOctets(v)) = 4
           /\ v < Shorts * Shorts =>
                Unsigned(IntOctets(v), 0) * Shorts + Unsigned(IntOctets(v), 2) = v
<1> DEFINE q == v \div Shorts
           h == ShortOctets(q)
           o == h \o ShortOctets(v)
<1>1. q \in Nat /\ v % Shorts \in Nat /\ v = Shorts * q + (v % Shorts)
  BY Division, ShortsIsNat
<1>2. v < Shorts * Shorts => q < Shorts
  BY QuotientBound, ShortsIsNat
<1> HIDE DEF q
<1>3. h \in Seq(Nat) /\ Len(h) = 2 /\ Unsigned(h, 0) = q % Shorts
  BY <1>1, ShortOctetsSeq
<1> HIDE DEF h
<1>4. o \in Seq(Nat) /\ Len(o) = 4 /\ Unsigned(o, 2) = v % Shorts
  <2>1. o \in Seq(Nat) /\ Len(o) = Len(h) + 2 /\ Unsigned(o, Len(h)) = v % Shorts
    BY <1>3, ShortAtEnd, Zenon
  <2> HIDE DEF o
  <2> QED BY <1>3, <2>1
<1>5. Unsigned(o, 0) = q % Shorts
  <2>1. 0 \in Nat /\ 0 + 2 <= Len(h) /\ ShortOctets(v) \in Seq(Nat)
    BY <1>3, ShortOctetsSeq
  <2> QED BY <1>3, <2>1, UnsignedInHead, Zenon
<1>6. q < Shorts => q % Shorts = q
  BY <1>1, ShortsIsNat
<1>7. q * Shorts = Shorts * q
  BY <1>1, ShortsIsNat
<1>8. IntOctets(v) = o
  BY DEF IntOctets, o, h, q
<1> HIDE DEF o
<1> QED BY <1>1, <1>2, <1>4, <1>5, <1>6, <1>7, <1>8

\* An int at the end of octets.
LEMMA IntAtEnd ==
    ASSUME NEW h \in Seq(Nat), NEW v \in Nat
    PROVE  /\ h \o IntOctets(v) \in Seq(Nat)
           /\ Len(h \o IntOctets(v)) = Len(h) + 4
           /\ 2 * v < Shorts * Shorts => IntIn(h \o IntOctets(v), Len(h)) = v
<1> DEFINE o == IntOctets(v)
<1>1. o \in Seq(Nat) /\ Len(o) = 4 /\ Len(h) \in Nat
  BY IntOctetsSeq, LenProperties
<1> HIDE DEF o
<1>2. Unsigned(h \o o, Len(h) + 0) = Unsigned(o, 0)
  <2>1. 0 \in Nat /\ 0 + 2 <= Len(o)
    BY <1>1
  <2> QED BY <1>1, <2>1, UnsignedInTail, Zenon
<1>3. Unsigned(h \o o, Len(h) + 2) = Unsigned(o, 2)
  <2>1. 2 \in Nat /\ 2 + 2 <= Len(o)
    BY <1>1
  <2> QED BY <1>1, <2>1, UnsignedInTail, Zenon
<1>4. Len(h) + 0 = Len(h)
  BY <1>1
<1>5. Shorts * Shorts \in Nat
  BY ShortsIsNat
<1>6. 2 * v < Shorts * Shorts => v < Shorts * Shorts
  BY <1>5
<1>7. v < Shorts * Shorts => Unsigned(o, 0) * Shorts + Unsigned(o, 2) = v
  BY IntOctetsSeq DEF o
<1>8. IntIn(h \o o, Len(h)) =
        Signed(Shorts * Shorts, Unsigned(o, 0) * Shorts + Unsigned(o, 2))
  BY <1>2, <1>3, <1>4 DEF IntIn
<1>9. 2 * v < Shorts * Shorts => IntIn(h \o o, Len(h)) = v
  BY <1>6, <1>7, <1>8 DEF Signed
<1>10. h \o o \in Seq(Nat) /\ Len(h \o o) = Len(h) + Len(o)
  BY <1>1, ConcatProperties, Zenon
<1> QED BY <1>1, <1>9, <1>10, Zenon DEF o

\* What follows it does not matter.
LEMMA IntInHead ==
    ASSUME NEW h \in Seq(Nat), NEW t \in Seq(Nat), NEW at \in Nat, at + 4 <= Len(h)
    PROVE  IntIn(h \o t, at) = IntIn(h, at)
<1>1. Len(h) \in Nat
  BY LenProperties
<1>2. Unsigned(h \o t, at) = Unsigned(h, at)
  BY <1>1, UnsignedInHead
<1>3. Unsigned(h \o t, at + 2) = Unsigned(h, at + 2)
  BY <1>1, UnsignedInHead
<1> QED BY <1>2, <1>3 DEF IntIn

\* What octets become when a short or an int is put behind them.
LEMMA NextShort ==
    ASSUME NEW h \in Seq(Nat), NEW n \in Nat, Len(h) = n, NEW v \in Nat
    PROVE  \E g \in Seq(Nat) :
              /\ g = h \o ShortOctets(v)
              /\ Len(g) = n + 2
              /\ Unsigned(g, n) = v % Shorts
              /\ \A at \in Nat : at + 2 <= n => Unsigned(g, at) = Unsigned(h, at)
<1>1. /\ h \o ShortOctets(v) \in Seq(Nat)
      /\ Len(h \o ShortOctets(v)) = Len(h) + 2
      /\ Unsigned(h \o ShortOctets(v), Len(h)) = v % Shorts
  BY ShortAtEnd, Zenon
<1>2. ASSUME NEW at \in Nat, at + 2 <= n
      PROVE  Unsigned(h \o ShortOctets(v), at) = Unsigned(h, at)
  <2>1. ShortOctets(v) \in Seq(Nat)
    BY ShortOctetsSeq
  <2> QED BY <1>2, <2>1, UnsignedInHead
<1> QED BY <1>1, <1>2, Zenon

\* The same for an int.
LEMMA NextInt ==
    ASSUME NEW h \in Seq(Nat), NEW n \in Nat, Len(h) = n, NEW v \in Nat
    PROVE  \E g \in Seq(Nat) :
              /\ g = h \o IntOctets(v)
              /\ Len(g) = n + 4
              /\ 2 * v < Shorts * Shorts => IntIn(g, n) = v
              /\ \A at \in Nat : at + 2 <= n => Unsigned(g, at) = Unsigned(h, at)
              /\ \A at \in Nat : at + 4 <= n => IntIn(g, at) = IntIn(h, at)
<1>1. /\ h \o IntOctets(v) \in Seq(Nat)
      /\ Len(h \o IntOctets(v)) = Len(h) + 4
      /\ 2 * v < Shorts * Shorts => IntIn(h \o IntOctets(v), Len(h)) = v
  BY IntAtEnd, Zenon
<1>2. IntOctets(v) \in Seq(Nat)
  BY IntOctetsSeq
<1>3. ASSUME NEW at \in Nat, at + 2 <= n
      PROVE  Unsigned(h \o IntOctets(v), at) = Unsigned(h, at)
  BY <1>2, <1>3, UnsignedInHead
<1>4. ASSUME NEW at \in Nat, at + 4 <= n
      PROVE  IntIn(h \o IntOctets(v), at) = IntIn(h, at)
  BY <1>2, <1>4, IntInHead
<1> QED BY <1>1, <1>3, <1>4, Zenon

\* The first short of a datagram.
LEMMA FirstShort ==
    ASSUME NEW v \in Nat
    PROVE  \E g \in Seq(Nat) : /\ g = ShortOctets(v) /\ Len(g) = 2
                              /\ Unsigned(g, 0) = v % Shorts
  BY ShortOctetsSeq, Zenon

\* The datagrams have a short, another short or nothing, and ints behind.
LEMMA ShortBehindShort ==
    ASSUME NEW h \in Seq(Nat), Len(h) = 2, NEW v \in Nat
    PROVE  \E g \in Seq(Nat) :
              /\ g = h \o ShortOctets(v)
              /\ Len(g) = 4
              /\ Unsigned(g, 0) = Unsigned(h, 0)
              /\ Unsigned(g, 2) = v % Shorts
<1>1. 2 \in Nat /\ 0 \in Nat /\ 0 + 2 <= 2
  OBVIOUS
<1>2. PICK g \in Seq(Nat) :
              /\ g = h \o ShortOctets(v)
              /\ Len(g) = 2 + 2
              /\ Unsigned(g, 2) = v % Shorts
              /\ \A at \in Nat : at + 2 <= 2 => Unsigned(g, at) = Unsigned(h, at)
  BY <1>1, NextShort, Zenon
<1>3. Len(g) = 4 /\ Unsigned(g, 0) = Unsigned(h, 0)
  BY <1>1, <1>2
<1> QED BY <1>2, <1>3, Zenon

\* The process id behind the command and the period.
LEMMA IntBehindShorts ==
    ASSUME NEW h \in Seq(Nat), Len(h) = 4, NEW v \in Nat, 2 * v < Shorts * Shorts
    PROVE  \E g \in Seq(Nat) :
              /\ g = h \o IntOctets(v)
              /\ Len(g) = 8
              /\ Unsigned(g, 0) = Unsigned(h, 0)
              /\ Unsigned(g, 2) = Unsigned(h, 2)
              /\ IntIn(g, 4) = v
<1>1. 4 \in Nat /\ 0 \in Nat /\ 0 + 2 <= 4 /\ 2 \in Nat /\ 2 + 2 <= 4
  OBVIOUS
<1>2. PICK g \in Seq(Nat) :
              /\ g = h \o IntOctets(v)
              /\ Len(g) = 4 + 4
              /\ 2 * v < Shorts * Shorts => IntIn(g, 4) = v
              /\ \A at \in Nat : at + 2 <= 4 => Unsigned(g, at) = Unsigned(h, at)
              /\ \A at \in Nat : at + 4 <= 4 => IntIn(g, at) = IntIn(h, at)
  BY <1>1, NextInt, Zenon
<1>3. Len(g) = 8 /\ Unsigned(g, 0) = Unsigned(h, 0) /\ Unsigned(g, 2) = Unsigned(h, 2)
  BY <1>1, <1>2
<1> QED BY <1>2, <1>3, Zenon

\* The length behind the process id.
LEMMA IntBehindInt ==
    ASSUME NEW h \in Seq(Nat), Len(h) = 8, NEW v \in Nat
    PROVE  /\ Unsigned(h \o IntOctets(v), 2) = Unsigned(h, 2)
           /\ IntIn(h \o IntOctets(v), 4) = IntIn(h, 4)
<1>1. /\ IntOctets(v) \in Seq(Nat)
      /\ 2 \in Nat /\ 2 + 2 <= Len(h) /\ 4 \in Nat /\ 4 + 4 <= Len(h)
  BY IntOctetsSeq
<1> QED BY <1>1, UnsignedInHead, IntInHead, Zenon

-----------------------------------------------------------------------------
(* What is read from a datagram.                                           *)

\* wd_pg_register_unpg reads the process id that wd_pg_register_new wrote,
\* and the period as far as it fits a short.
LEMMA RegisterHead ==
    ASSUME NEW name \in Seq(Char), NEW line \in Seq(Char), NEW period \in Nat,
           NEW pid \in Nat, 2 * pid < Shorts * Shorts
    PROVE  LET head == RegisterPg(name, line, period, pid).head
           IN  /\ ShortIn(head, 2) = Signed(Shorts, period % Shorts)
               /\ IntIn(head, 4) = pid
<1> DEFINE text == name \o <<Semicolon>> \o line
<1>1. Len(text) + 1 \in Nat
  <2>1. Semicolon \in Char
    BY RegistrationConstants
  <2>2. <<Semicolon>> \in Seq(Char)
    BY <2>1, SingleInSeq
  <2>3. name \o <<Semicolon>> \in Seq(Char)
    BY <2>2, ConcatProperties
  <2>4. text \in Seq(Char)
    BY <2>3, ConcatProperties
  <2> HIDE DEF text
  <2> QED BY <2>4, LenProperties
<1>2. Commands.register \in Nat
  BY DEF Commands
<1>3. PICK a \in Seq(Nat) : /\ a = ShortOctets(Commands.register) /\ Len(a) = 2
                            /\ Unsigned(a, 0) = Commands.register % Shorts
  BY <1>2, FirstShort, Zenon
<1>4. PICK b \in Seq(Nat) : /\ b = a \o ShortOctets(period) /\ Len(b) = 4
                            /\ Unsigned(b, 0) = Unsigned(a, 0)
                            /\ Unsigned(b, 2) = period % Shorts
  BY <1>3, ShortBehindShort, Zenon
<1>5. PICK c \in Seq(Nat) : /\ c = b \o IntOctets(pid) /\ Len(c) = 8
                            /\ Unsigned(c, 0) = Unsigned(b, 0)
                            /\ Unsigned(c, 2) = Unsigned(b, 2)
                            /\ IntIn(c, 4) = pid
  BY <1>4, IntBehindShorts, Zenon
<1> DEFINE d == c \o IntOctets(Len(text) + 1)
<1>6. Unsigned(d, 2) = Unsigned(c, 2) /\ IntIn(d, 4) = IntIn(c, 4)
  <2> HIDE DEF text
  <2> QED BY <1>1, <1>5, IntBehindInt, Zenon
<1>7. RegisterPg(name, line, period, pid).head = d
  BY <1>3, <1>4, <1>5 DEF RegisterPg
<1> HIDE DEF d
<1> QED BY <1>4, <1>5, <1>6, <1>7 DEF ShortIn

\* An action is read as it was written.
LEMMA ActionRoundTrip ==
    ASSUME NEW cmd \in Nat, 2 * cmd < Shorts, NEW pid \in Nat, 2 * pid < Shorts * Shorts
    PROVE  ActionUnpg(ActionPg(cmd, pid)) = [cmd |-> cmd, pid |-> pid]
<1>1. PICK a \in Seq(Nat) : /\ a = ShortOctets(cmd) /\ Len(a) = 2
                            /\ Unsigned(a, 0) = cmd % Shorts
  BY FirstShort, Zenon
<1>2. 0 \in Nat
  OBVIOUS
<1>3. PICK b \in Seq(Nat) : /\ b = a \o ShortOctets(0) /\ Len(b) = 4
                            /\ Unsigned(b, 0) = Unsigned(a, 0)
                            /\ Unsigned(b, 2) = 0 % Shorts
  BY <1>1, <1>2, ShortBehindShort, Zenon
<1>4. PICK c \in Seq(Nat) : /\ c = b \o IntOctets(pid) /\ Len(c) = 8
                            /\ Unsigned(c, 0) = Unsigned(b, 0)
                            /\ Unsigned(c, 2) = Unsigned(b, 2)
                            /\ IntIn(c, 4) = pid
  BY <1>3, IntBehindShorts, Zenon
<1>5. cmd % Shorts = cmd
  <2>1. cmd < Shorts
    BY ShortsIsNat
  <2> QED BY <2>1, SmallRemainder, ShortsIsNat, Zenon
<1>6. ShortIn(c, 0) = cmd
  BY <1>1, <1>3, <1>4, <1>5 DEF ShortIn, Signed
<1>7. ActionPg(cmd, pid) = c
  BY <1>1, <1>3, <1>4 DEF ActionPg
<1> QED BY <1>4, <1>6, <1>7 DEF ActionUnpg

\* An answer is read as it was written, an error as some error.
LEMMA ReturnRoundTrip ==
    ASSUME NEW cmd \in Nat, 2 * cmd < Shorts, NEW error \in Nat, error < Shorts
    PROVE  /\ ReturnUnpg(ReturnPg(cmd, error)).cmd = cmd
           /\ ReturnUnpg(ReturnPg(cmd, error)).error = 0 <=> error = 0
<1>1. PICK a \in Seq(Nat) : /\ a = ShortOctets(cmd) /\ Len(a) = 2
                            /\ Unsigned(a, 0) = cmd % Shorts
  BY FirstShort, Zenon
<1>2. PICK b \in Seq(Nat) : /\ b = a \o ShortOctets(error) /\ Len(b) = 4
                            /\ Unsigned(b, 0) = Unsigned(a, 0)
                            /\ Unsigned(b, 2) = error % Shorts
  BY <1>1, ShortBehindShort, Zenon
<1>3. cmd % Shorts = cmd /\ error % Shorts = error
  BY ShortsIsNat
<1>4. ReturnPg(cmd, error) = b
  BY <1>1, <1>2 DEF ReturnPg
<1>5. ReturnUnpg(b) = [cmd |-> Signed(Shorts, cmd), error |-> Signed(Shorts, error)]
  BY <1>1, <1>2, <1>3 DEF ReturnUnpg, ShortIn
<1>6. Signed(Shorts, cmd) = cmd /\ (Signed(Shorts, error) = 0 <=> error = 0)
  BY ShortsIsNat DEF Signed
<1> QED BY <1>4, <1>5, <1>6

-----------------------------------------------------------------------------
(* Clean strings.                                                          *)

\* The special characters are different, and the null pointer is no string.
LEMMA CharFacts ==
    /\ Blank \in Char /\ LineEnd \in Char /\ Equals \in Char /\ Semicolon \in Char
    /\ Blank \in Space /\ LineEnd \in Space
    /\ Equals \notin Space /\ Semicolon \notin Space
    /\ Blank # LineEnd /\ Blank # Equals /\ Blank # Semicolon
    /\ LineEnd # Equals /\ LineEnd # Semicolon /\ Equals # Semicolon
    /\ Null \notin Seq(Char) /\ Null # << >>
<1>1. << >> \in Seq(Char)
  OBVIOUS
<1>2. /\ Blank # LineEnd /\ Blank # Equals /\ Blank # Semicolon
      /\ LineEnd # Equals /\ LineEnd # Semicolon /\ Equals # Semicolon
  BY DEF Blank, LineEnd, Equals, Semicolon
<1> QED BY <1>1, <1>2, RegistrationConstants DEF Space

\* A string is the part of it from its first to its last character.
LEMMA WholeIsPart ==
    ASSUME NEW s \in Seq(Char)
    PROVE  /\ s = SubSeq(s, 1, Len(s)) /\ Len(s) \in Nat /\ Len(s) \in 0 .. Len(s)
           /\ DOMAIN s = 1 .. Len(s)
           /\ s # << >> => 1 <= Len(s)
  BY SubSeqFull, LenProperties, EmptySeq

\* A part of a string is a string, and no null pointer.
LEMMA PartIsNotNull ==
    ASSUME NEW s \in Seq(Char), NEW a \in Nat \ {0}, NEW b \in 0 .. Len(s)
    PROVE  SubSeq(s, a, b) # Null
<1>1. SubSeq(s, a, b) \in Seq(Char)
  BY PartProperties
<1> QED BY <1>1, CharFacts

\* A part that begins and ends with a printing character and has no ";" is
\* clean, and so is what is left of any part without ";" that is not blank.
LEMMA PartIsClean ==
    ASSUME NEW s \in Seq(Char), NEW a \in Nat \ {0}, NEW b \in 0 .. Len(s), a <= b,
           s[a] \notin Space, s[b] \notin Space, \A i \in a .. b : s[i] # Semicolon
    PROVE  Clean(SubSeq(s, a, b))
<1> DEFINE p == SubSeq(s, a, b)
           n == b - a + 1
<1>1. /\ p \in Seq(Char) /\ Len(p) = n /\ DOMAIN p = 1 .. n
      /\ \A i \in 1 .. n : p[i] = s[a + i - 1]
  BY PartProperties
<1>0. Len(s) \in Nat
  BY LenProperties
<1>2. /\ a \in Nat /\ b \in Nat
      /\ n \in Nat \ {0} /\ 1 \in 1 .. n /\ n \in 1 .. n /\ a + 1 - 1 = a /\ a + n - 1 = b
  BY <1>0
<1> HIDE DEF p, n
<1>3. p[1] = s[a] /\ p[n] = s[b]
  BY <1>1, <1>2
<1>4. ASSUME NEW i \in 1 .. n
      PROVE  p[i] # Semicolon
  <2>1. a + i - 1 \in a .. b
    BY <1>0, <1>2 DEF n
  <2> QED BY <1>1, <2>1
<1>5. Semicolon \notin Range(p)
  BY <1>1, <1>4 DEF Range
<1>6. p # << >>
  BY <1>1, <1>2
<1> QED BY <1>1, <1>3, <1>5, <1>6 DEF Clean, p

\* A part without ";" is stripped to a clean string.
LEMMA StripIsClean ==
    ASSUME NEW s \in Seq(Char), NEW a \in Nat \ {0}, NEW b \in 0 .. Len(s), a <= b,
           \A i \in a .. b : s[i] # Semicolon, Strip(SubSeq(s, a, b)) # Null
    PROVE  Clean(Strip(SubSeq(s, a, b)))
<1>1. ~ \A i \in a .. b : s[i] \in Space
  BY StripOfSpaces
<1>2. PICK f \in Nat, l \in Nat : StripSpan(s, a, b, f, l)
  BY <1>1, StripCases
<1>3. Strip(SubSeq(s, a, b)) = SubSeq(s, f, l)
  BY <1>2, StripOfPart
<1>4. Len(s) \in Nat
  BY LenProperties
<1>5. /\ f \in Nat \ {0} /\ l \in 0 .. Len(s) /\ f <= l /\ \A i \in f .. l : s[i] # Semicolon
      /\ s[f] \notin Space /\ s[l] \notin Space
  BY <1>2, <1>4 DEF StripSpan
<1>6. Clean(SubSeq(s, f, l))
  BY <1>5, PartIsClean
<1> QED BY <1>3, <1>6

\* A clean string is not changed by strip_string_space, and strtok_r with
\* ";" gives it back.
LEMMA CleanProperties ==
    ASSUME NEW s, Clean(s)
    PROVE  /\ s \in Seq(Char) /\ Len(s) \in Nat \ {0} /\ DOMAIN s = 1 .. Len(s)
           /\ s # Null /\ s[1] \notin Space /\ s[Len(s)] \notin Space
           /\ \A i \in 1 .. Len(s) : s[i] # Semicolon
           /\ Strip(s) = s
<1>1. /\ s \in Seq(Char) /\ s # << >> /\ s[1] \notin Space /\ s[Len(s)] \notin Space
      /\ Semicolon \notin Range(s)
  BY DEF Clean
<1>2. s = SubSeq(s, 1, Len(s)) /\ Len(s) \in Nat \ {0} /\ DOMAIN s = 1 .. Len(s)
  <2>1. s = SubSeq(s, 1, Len(s)) /\ Len(s) \in Nat /\ DOMAIN s = 1 .. Len(s) /\ 1 <= Len(s)
    BY <1>1, WholeIsPart, Zenon
  <2> QED BY <2>1
<1>3. \A i \in 1 .. Len(s) : s[i] # Semicolon
  BY <1>1, <1>2 DEF Range
<1>4. Strip(SubSeq(s, 1, Len(s))) = SubSeq(s, 1, Len(s))
  <2>1. /\ 1 \in Nat \ {0} /\ Len(s) \in 0 .. Len(s) /\ 1 \in 1 .. Len(s) /\ Len(s) \in 1 .. Len(s)
        /\ 1 .. 1 - 1 = {} /\ Len(s) + 1 .. Len(s) = {}
    BY <1>2
  <2>2. /\ \A i \in 1 .. 1 - 1 : s[i] \in Space
        /\ \A i \in Len(s) + 1 .. Len(s) : s[i] \in Space
    BY <2>1
  <2>3. StripSpan(s, 1, Len(s), 1, Len(s))
    BY <1>1, <2>1, <2>2 DEF StripSpan
  <2> QED BY <1>1, <2>1, <2>3, StripOfPart
<1> QED BY <1>1, <1>2, <1>3, <1>4, CharFacts

\* What strip_string_space leaves of a plain string.
LEMMA PlainProperties ==
    ASSUME NEW s \in Seq(Char), Plain(s)
    PROVE  /\ Min(Printing(s)) \in 1 .. Len(s)
           /\ Max(Printing(s)) \in Min(Printing(s)) .. Len(s)
           /\ Strip(s) = SubSeq(s, Min(Printing(s)), Max(Printing(s)))
           /\ Clean(Strip(s)) /\ OneLine(Strip(s))
           /\ Len(Strip(s)) <= Len(s)
<1> DEFINE P == Printing(s)
           f == Min(P)
           l == Max(P)
<1>1. /\ DOMAIN s = 1 .. Len(s) /\ Len(s) \in Nat /\ P # {}
      /\ \A i \in 1 .. Len(s) : s[i] # Semicolon /\ s[i] # Equals /\ s[i] # LineEnd
  BY WholeIsPart DEF Plain, Range
<1>0. Len(s) \in Nat
  BY <1>1
<1>2. P \subseteq 1 .. Len(s) /\ \A i \in P : s[i] \notin Space
  BY <1>1 DEF Printing
<1>3. f \in P /\ l \in P /\ f <= l
  <2>1. P \subseteq Nat /\ P \subseteq 0 .. Len(s) /\ Len(s) \in Nat
    <3> HIDE DEF P
    <3>1. P \subseteq 1 .. Len(s) /\ Len(s) \in Nat
      BY <1>1, <1>2
    <3> QED BY <3>1
  <2>2. f \in P /\ \A x \in P : f <= x
    BY <1>1, <2>1, MinProperties
  <2>3. l \in P
    BY <1>1, <2>1, MaxProperties
  <2> QED BY <2>2, <2>3
<1>4. Strip(s) = SubSeq(s, f, l)
  BY <1>1 DEF Strip
<1>5. f \in 1 .. Len(s) /\ l \in f .. Len(s) /\ s[f] \notin Space /\ s[l] \notin Space
  BY <1>2, <1>3
<1> HIDE DEF f, l, P
<1>6. f \in Nat \ {0} /\ l \in 0 .. Len(s) /\ f <= l /\ \A i \in f .. l : i \in 1 .. Len(s)
  BY <1>0, <1>5
<1>7. Clean(SubSeq(s, f, l))
  BY <1>1, <1>5, <1>6, PartIsClean
<1>8. OneLine(SubSeq(s, f, l)) /\ Len(SubSeq(s, f, l)) <= Len(s)
  <2>1. /\ DOMAIN SubSeq(s, f, l) = 1 .. l - f + 1 /\ Len(SubSeq(s, f, l)) = l - f + 1
        /\ \A i \in 1 .. l - f + 1 : SubSeq(s, f, l)[i] = s[f + i - 1]
    BY <1>6, PartProperties
  <2>2. \A i \in 1 .. l - f + 1 : f + i - 1 \in 1 .. Len(s)
    BY <1>5, <1>6
  <2>3. \A i \in 1 .. l - f + 1 : SubSeq(s, f, l)[i] # Equals /\ SubSeq(s, f, l)[i] # LineEnd
    BY <1>1, <2>1, <2>2
  <2>4. l - f + 1 <= Len(s)
    BY <1>0, <1>5
  <2> QED BY <2>1, <2>3, <2>4 DEF OneLine, Range
<1> QED BY <1>4, <1>5, <1>7, <1>8 DEF f, l, P

-----------------------------------------------------------------------------
(* What the daemon unpacks.                                                *)

\* A name and a command that are unpacked are clean.
LEMMA UnpackedIsClean ==
    ASSUME NEW h, NEW t \in Seq(Char),
           NEW got, got = RegisterUnpg([head |-> h, text |-> t]), got # Null,
           Null \notin {got.name, got.line}
    PROVE  Clean(got.name) /\ Clean(got.line)
<1> DEFINE name == Token(t, Semicolon)
           line == Token(name.rest, Semicolon)
           N == Len(t)
<1>1. /\ name.word # Null /\ line.word # Null
      /\ got.name = Strip(name.word) /\ got.line = Strip(line.word)
  BY DEF RegisterUnpg
<1>2. t = SubSeq(t, 1, N) /\ N \in Nat /\ N \in 0 .. Len(t) /\ 1 \in Nat \ {0}
  BY WholeIsPart
<1> HIDE DEF N
<1> HIDE DEF name, line
<1>3. name = Token(SubSeq(t, 1, N), Semicolon)
  BY <1>2 DEF name
<1>4. PICK f \in Nat, g \in Nat : TokenSpan(t, 1, N, Semicolon, f, g)
  <2>1. Semicolon \in Char
    BY CharFacts
  <2>2. ~ \A i \in 1 .. N : t[i] = Semicolon
    BY <1>1, <1>2, <1>3, <2>1, TokenOfNothing
  <2> QED BY <1>2, <2>1, <2>2, TokenCases
<1>5. PICK r \in Nat : r = g + 2
  OBVIOUS
<1>6. name.word = SubSeq(t, f, g) /\ name.rest = SubSeq(t, r, N)
  <2>1. Semicolon \in Char
    BY CharFacts
  <2>2. Token(SubSeq(t, 1, N), Semicolon).word = SubSeq(t, f, g)
    BY <1>2, <1>4, <1>5, <2>1, TokenOfPart
  <2>3. Token(SubSeq(t, 1, N), Semicolon).rest = SubSeq(t, r, N)
    BY <1>2, <1>4, <1>5, <2>1, TokenOfPart
  <2> QED BY <1>3, <2>2, <2>3
<1>7. line = Token(SubSeq(t, r, N), Semicolon) /\ r \in Nat \ {0}
  BY <1>5, <1>6 DEF line
<1>8. PICK u \in Nat, v \in Nat : TokenSpan(t, r, N, Semicolon, u, v)
  BY <1>1, <1>2, <1>7, TokenOfNothing, TokenCases, CharFacts
<1>9. line.word = SubSeq(t, u, v)
  <2>1. PICK w \in Nat : w = v + 2
    OBVIOUS
  <2> QED BY <1>2, <1>7, <1>8, <2>1, TokenOfPart, CharFacts
<1>10. /\ \A i \in f .. g : t[i] # Semicolon
       /\ \A i \in u .. v : t[i] # Semicolon
       /\ f \in Nat \ {0} /\ g \in 0 .. Len(t) /\ f <= g
       /\ u \in Nat \ {0} /\ v \in 0 .. Len(t) /\ u <= v
  BY <1>2, <1>4, <1>7, <1>8 DEF TokenSpan
<1>11. Clean(Strip(SubSeq(t, f, g)))
  <2>1. Strip(SubSeq(t, f, g)) # Null
    BY <1>1, <1>6
  <2> QED BY <1>10, <2>1, StripIsClean
<1>12. Clean(Strip(SubSeq(t, u, v)))
  <2>1. Strip(SubSeq(t, u, v)) # Null
    BY <1>1, <1>9
  <2> QED BY <1>10, <2>1, StripIsClean
<1> QED BY <1>1, <1>6, <1>9, <1>11, <1>12

-----------------------------------------------------------------------------
(* Strings put together.                                                   *)

\* The characters of two strings, one behind the other.
LEMMA Behind ==
    ASSUME NEW x \in Seq(Char), NEW y \in Seq(Char)
    PROVE  \E t \in Seq(Char) :
              /\ t = x \o y
              /\ Len(t) = Len(x) + Len(y)
              /\ \A i \in 1 .. Len(x) : t[i] = x[i]
              /\ \A i \in 1 .. Len(y) : t[Len(x) + i] = y[i]
<1> DEFINE t == x \o y
<1>1. t \in Seq(Char) /\ Len(t) = Len(x) + Len(y) /\ Len(x) \in Nat /\ Len(y) \in Nat
  BY ConcatProperties, LenProperties
<1>2. \A i \in 1 .. Len(x) + Len(y) :
          t[i] = IF i <= Len(x) THEN x[i] ELSE y[i - Len(x)]
  BY ConcatProperties
<1> HIDE DEF t
<1>3. \A i \in 1 .. Len(x) : t[i] = x[i]
  BY <1>1, <1>2
<1>4. ASSUME NEW i \in 1 .. Len(y)
      PROVE  t[Len(x) + i] = y[i]
  <2>1. Len(x) + i \in 1 .. Len(x) + Len(y) /\ ~ (Len(x) + i <= Len(x)) /\ Len(x) + i - Len(x) = i
    BY <1>1
  <2> QED BY <1>2, <2>1
<1> QED BY <1>1, <1>3, <1>4 DEF t

\* Two strings with a character between them, as RegisterPg and SavedLine put
\* one.
JoinedAs(t, x, c, y) ==
    /\ t = x \o <<c>> \o y
    /\ Len(t) = Len(x) + 1 + Len(y)
    /\ \A i \in 1 .. Len(x) : t[i] = x[i]
    /\ t[Len(x) + 1] = c
    /\ \A i \in 1 .. Len(y) : t[Len(x) + 1 + i] = y[i]

\* Wherever they are joined.
LEMMA Joined ==
    ASSUME NEW x \in Seq(Char), NEW y \in Seq(Char), NEW c \in Char
    PROVE  \E t \in Seq(Char) : JoinedAs(t, x, c, y)
<1>1. <<c>> \in Seq(Char) /\ Len(<<c>>) = 1 /\ <<c>>[1] = c
  BY SingleInSeq
<1>2. PICK u \in Seq(Char) :
              /\ u = x \o <<c>>
              /\ Len(u) = Len(x) + Len(<<c>>)
              /\ \A i \in 1 .. Len(x) : u[i] = x[i]
              /\ \A i \in 1 .. Len(<<c>>) : u[Len(x) + i] = <<c>>[i]
  BY <1>1, Behind, Zenon
<1>3. PICK t \in Seq(Char) :
              /\ t = u \o y
              /\ Len(t) = Len(u) + Len(y)
              /\ \A i \in 1 .. Len(u) : t[i] = u[i]
              /\ \A i \in 1 .. Len(y) : t[Len(u) + i] = y[i]
  BY Behind, Zenon
<1>4. Len(u) = Len(x) + 1 /\ Len(x) \in Nat /\ Len(y) \in Nat /\ u[Len(x) + 1] = c
  <2>1. 1 \in 1 .. Len(<<c>>)
    BY <1>1
  <2> QED BY <1>1, <1>2, <2>1, LenProperties
<1>5. t = x \o <<c>> \o y
  BY <1>2, <1>3, Zenon
<1>6. \A i \in 1 .. Len(x) : t[i] = x[i]
  BY <1>2, <1>3, <1>4
<1>7. t[Len(x) + 1] = c
  BY <1>3, <1>4
<1>8. \A i \in 1 .. Len(y) : t[Len(x) + 1 + i] = y[i]
  BY <1>3, <1>4
<1>9. Len(t) = Len(x) + 1 + Len(y)
  BY <1>3, <1>4
<1> QED BY <1>5, <1>6, <1>7, <1>8, <1>9 DEF JoinedAs

\* A string found in another one.
LEMMA FoundAt ==
    ASSUME NEW t \in Seq(Char), NEW x \in Seq(Char), NEW k \in Nat, k + Len(x) <= Len(t),
           \A i \in 1 .. Len(x) : t[k + i] = x[i]
    PROVE  SubSeq(t, k + 1, k + Len(x)) = x
<1> DEFINE p == SubSeq(t, k + 1, k + Len(x))
<1>1. Len(x) \in Nat /\ Len(t) \in Nat /\ k + 1 \in Nat \ {0} /\ k + Len(x) \in 0 .. Len(t)
  BY LenProperties
<1>2. /\ p \in Seq(Char)
      /\ Len(p) = IF k + 1 <= k + Len(x) THEN k + Len(x) - (k + 1) + 1 ELSE 0
      /\ \A i \in 1 .. k + Len(x) - (k + 1) + 1 : p[i] = t[k + 1 + i - 1]
  BY <1>1, PartProperties
<1> HIDE DEF p
<1>3. Len(p) = Len(x) /\ \A i \in 1 .. Len(x) : p[i] = t[k + i]
  BY <1>1, <1>2
<1>4. p = x
  BY <1>2, <1>3, SeqEqual
<1> QED BY <1>4 DEF p

-----------------------------------------------------------------------------
(* The datagram of a name without ";", cut after c characters.             *)

\* The text begins with the name and a semicolon.
NameFirst(u, name) ==
    /\ u \in Seq(Char)
    /\ Len(name) + 1 <= Len(u)
    /\ \A i \in 1 .. Len(name) : u[i] = name[i]
    /\ u[Len(name) + 1] = Semicolon

\* The name arrives as it was sent, or nothing does.
LEMMA NameArrives ==
    ASSUME NEW name, Clean(name), NEW u, NameFirst(u, name),
           NEW c \in 0 .. Len(u), NEW h,
           NEW got, got = RegisterUnpg([head |-> h, text |-> SubSeq(u, 1, c)]), got # Null
    PROVE  got.name = name /\ Len(name) + 2 <= c
<1>u. /\ u \in Seq(Char)
      /\ Len(name) + 1 <= Len(u)
      /\ \A i \in 1 .. Len(name) : u[i] = name[i]
      /\ u[Len(name) + 1] = Semicolon
  BY DEF NameFirst
<1> USE <1>u
<1> DEFINE t == SubSeq(u, 1, c)
           first == Token(t, Semicolon)
           second == Token(first.rest, Semicolon)
           N == Len(name)
<1>1. /\ name \in Seq(Char) /\ Len(name) \in Nat \ {0} /\ DOMAIN name = 1 .. Len(name)
      /\ \A i \in 1 .. Len(name) : name[i] # Semicolon
      /\ Strip(name) = name
  BY CleanProperties
<1>7. first.word # Null /\ second.word # Null /\ got.name = Strip(first.word)
  BY DEF RegisterUnpg
<1> HIDE DEF t
<1>3. t = SubSeq(u, 1, c) /\ c \in 0 .. Len(u)
  BY DEF t
<1>4. Len(u) \in Nat /\ 1 \in Nat \ {0}
  BY LenProperties
<1> HIDE DEF N
<1>5. N \in Nat \ {0} /\ c \in 0 .. Len(u) /\ N + 1 <= Len(u)
  BY <1>1 DEF N
<1>6. /\ \A i \in 1 .. N : u[i] # Semicolon
      /\ u[N + 1] = Semicolon
  BY <1>1 DEF N
<1>2. first = Token(SubSeq(u, 1, c), Semicolon)
  BY <1>3
<1> HIDE DEF first, second
<1>8. PICK f \in Nat, g \in Nat : TokenSpan(u, 1, c, Semicolon, f, g)
  <2>1. Semicolon \in Char /\ u \in Seq(Char) /\ c \in 0 .. Len(u) /\ 1 \in Nat \ {0}
    BY <1>3, <1>4, CharFacts
  <2>2. ~ \A i \in 1 .. c : u[i] = Semicolon
    BY <1>2, <1>7, <2>1, TokenOfNothing
  <2> QED BY <2>1, <2>2, TokenCases
<1>9. PICK r \in Nat : r = g + 2
  OBVIOUS
<1>10. first.word = SubSeq(u, f, g) /\ first.rest = SubSeq(u, r, c)
  <2>1. Semicolon \in Char
    BY CharFacts
  <2>2. Token(SubSeq(u, 1, c), Semicolon).word = SubSeq(u, f, g)
    BY <1>3, <1>4, <1>8, <1>9, <2>1, TokenOfPart
  <2>3. Token(SubSeq(u, 1, c), Semicolon).rest = SubSeq(u, r, c)
    BY <1>3, <1>4, <1>8, <1>9, <2>1, TokenOfPart
  <2> QED BY <1>2, <2>2, <2>3
<1>11. second = Token(SubSeq(u, r, c), Semicolon) /\ r \in Nat \ {0}
  BY <1>9, <1>10 DEF second
<1>12. r <= c
  <2>1. CASE ~ (r <= c)
    <3>1. \A i \in r .. c : u[i] = Semicolon
      BY <1>5, <2>1
    <3> QED BY <1>3, <1>7, <1>11, <3>1, TokenOfNothing, CharFacts
  <2> QED BY <2>1
<1>13. f = 1 /\ g = N
  <2>1. f = 1
    <3>1. 1 \in 1 .. N /\ (1 \in 1 .. f - 1 \/ f = 1)
      BY <1>5, <1>8 DEF TokenSpan
    <3> QED BY <1>6, <1>8, <3>1 DEF TokenSpan
  <2>2. g <= N
    <3>1. N + 1 \in 1 .. g \/ g <= N
      BY <1>5
    <3> QED BY <1>6, <1>8, <2>1, <3>1 DEF TokenSpan
  <2>3. g + 1 \in 1 .. N \/ g >= N
    BY <1>5
  <2>4. u[g + 1] = Semicolon
    BY <1>8, <1>9, <1>12 DEF TokenSpan
  <2> QED BY <1>6, <2>1, <2>2, <2>3, <2>4, <1>5
<1>14. SubSeq(u, 1, N) = name
  <2>1. 0 \in Nat /\ 0 + Len(name) <= Len(u) /\ \A i \in 1 .. Len(name) : u[0 + i] = name[i]
    BY <1>1, <1>4
  <2>2. SubSeq(u, 0 + 1, 0 + Len(name)) = name
    BY <1>1, <2>1, FoundAt
  <2> QED BY <1>1, <2>2 DEF N
<1>15. Len(name) + 2 <= c
  BY <1>5, <1>9, <1>12, <1>13 DEF N
<1> QED BY <1>1, <1>7, <1>10, <1>13, <1>14, <1>15

\* A clean name and command that are not cut arrive as they were sent.
LEMMA WholeArrives ==
    ASSUME NEW name, Clean(name), NEW line, Clean(line), NEW h
    PROVE  RegisterUnpg([head |-> h, text |-> name \o <<Semicolon>> \o line]) =
               [period |-> ShortIn(h, 2), pid |-> IntIn(h, 4), name |-> name, line |-> line]
<1> DEFINE t == name \o <<Semicolon>> \o line
           first == Token(t, Semicolon)
           second == Token(first.rest, Semicolon)
           N == Len(name)
           M == Len(line)
<1>1. /\ name \in Seq(Char) /\ N \in Nat \ {0} /\ name # Null /\ Strip(name) = name
      /\ \A i \in 1 .. N : name[i] # Semicolon
  BY CleanProperties
<1>2. /\ line \in Seq(Char) /\ M \in Nat \ {0} /\ line # Null /\ Strip(line) = line
      /\ \A i \in 1 .. M : line[i] # Semicolon
  BY CleanProperties
<1>3. Semicolon \in Char
  BY CharFacts
<1>u. PICK u \in Seq(Char) : JoinedAs(u, name, Semicolon, line)
  BY <1>1, <1>2, <1>3, Joined
<1>4. /\ u = name \o <<Semicolon>> \o line
      /\ Len(u) = Len(name) + 1 + Len(line)
      /\ \A i \in 1 .. Len(name) : u[i] = name[i]
      /\ u[Len(name) + 1] = Semicolon
      /\ \A i \in 1 .. Len(line) : u[Len(name) + 1 + i] = line[i]
  BY <1>u DEF JoinedAs
<1>5. u = t
  BY <1>4, Zenon
<1> HIDE DEF t
<1>6. /\ Len(u) = N + 1 + M /\ u[N + 1] = Semicolon
      /\ \A i \in 1 .. N : u[i] = name[i]
      /\ \A i \in 1 .. M : u[N + 1 + i] = line[i]
  BY <1>4, Zenon
<1>a. PICK L \in Nat : L = Len(u)
  BY LenProperties
<1>b. PICK r \in Nat : r = N + 2
  BY <1>1
<1> HIDE DEF N, M
<1>7. TokenSpan(u, 1, L, Semicolon, 1, N)
  <2>1. \A i \in 1 .. N : u[i] # Semicolon
    BY <1>1, <1>6, <1>a, <1>b
  <2>2. 1 \in 1 .. L /\ N \in 1 .. L /\ 1 .. 1 - 1 = {}
    BY <1>1, <1>2, <1>6, <1>a, <1>b
  <2> QED BY <1>6, <1>a, <1>b, <2>1, <2>2 DEF TokenSpan
<1>8. TokenSpan(u, r, L, Semicolon, r, L)
  <2>1. ASSUME NEW i \in r .. L
        PROVE  u[i] # Semicolon
    <3>1. i - N - 1 \in 1 .. M /\ N + 1 + (i - N - 1) = i
      BY <1>1, <1>2, <1>6, <1>a, <1>b
    <3>2. u[i] = line[i - N - 1]
      BY <1>6, <1>a, <1>b, <3>1
    <3> QED BY <1>2, <3>1, <3>2
  <2> QED BY <1>1, <1>2, <1>6, <1>a, <1>b, <2>1 DEF TokenSpan
<1>9. /\ SubSeq(u, 1, N) = name /\ SubSeq(u, r, L) = line
  <2>1. /\ 0 \in Nat /\ 0 + Len(name) <= Len(u)
        /\ \A i \in 1 .. Len(name) : u[0 + i] = name[i]
    BY <1>1, <1>2, <1>6, <1>a, <1>b DEF N
  <2>2. SubSeq(u, 0 + 1, 0 + Len(name)) = name
    BY <1>1, <2>1, FoundAt
  <2>3. /\ N + 1 \in Nat /\ (N + 1) + Len(line) <= Len(u)
        /\ \A i \in 1 .. Len(line) : u[(N + 1) + i] = line[i]
    BY <1>1, <1>2, <1>6, <1>a, <1>b DEF M
  <2>4. SubSeq(u, (N + 1) + 1, (N + 1) + Len(line)) = line
    BY <1>2, <2>3, FoundAt
  <2>5. 0 + 1 = 1 /\ 0 + Len(name) = N /\ (N + 1) + 1 = r /\ (N + 1) + Len(line) = L
    BY <1>1, <1>2, <1>6, <1>a, <1>b DEF N, M
  <2> QED BY <2>2, <2>4, <2>5
<1>10. /\ u = SubSeq(u, 1, L) /\ L \in 0 .. Len(u) /\ r \in Nat \ {0}
       /\ 1 \in Nat \ {0}
  BY <1>1, <1>a, <1>b, WholeIsPart
<1>11. first.word = name /\ first.rest = SubSeq(u, r, L)
  <2>1. first = Token(SubSeq(u, 1, L), Semicolon)
    BY <1>5, <1>10
  <2> HIDE DEF first
  <2>3. N \in Nat
    BY <1>1
  <2>4. Token(SubSeq(u, 1, L), Semicolon).word = SubSeq(u, 1, N)
    BY <1>3, <1>7, <1>10, <1>b, <2>3, TokenOfPart
  <2>5. Token(SubSeq(u, 1, L), Semicolon).rest = SubSeq(u, r, L)
    BY <1>3, <1>7, <1>10, <1>b, <2>3, TokenOfPart
  <2> QED BY <1>9, <2>1, <2>4, <2>5
<1>12. second.word = line
  <2>1. PICK w \in Nat : w = L + 2
    OBVIOUS
  <2>2. second = Token(SubSeq(u, r, L), Semicolon)
    BY <1>11
  <2> HIDE DEF second
  <2>3. L \in Nat
    BY <1>10
  <2>4. Token(SubSeq(u, r, L), Semicolon).word = SubSeq(u, r, L)
    BY <1>3, <1>8, <1>10, <2>1, <2>3, TokenOfPart
  <2> QED BY <1>9, <2>2, <2>4
<1>13. RegisterUnpg([head |-> h, text |-> t]) =
           IF first.word = Null \/ second.word = Null
           THEN Null
           ELSE [period |-> ShortIn(h, 2), pid |-> IntIn(h, 4),
                 name |-> Strip(first.word), line |-> Strip(second.word)]
  BY DEF RegisterUnpg
<1> HIDE DEF first, second
<1> QED BY <1>1, <1>2, <1>11, <1>12, <1>13 DEF t

-----------------------------------------------------------------------------
(* The line of a node in the file.                                         *)

\* What SavedLine writes, character by character.
SavedAs(T, name, line) ==
    /\ T \in Seq(Char)
    /\ Len(T) = Len(Key) + Len(name) + Len(line) + 5
    /\ \A i \in 1 .. Len(Key) : T[i] = Key[i]
    /\ T[Len(Key) + 1] = Blank /\ T[Len(Key) + 2] = Equals /\ T[Len(Key) + 3] = Blank
    /\ \A i \in 1 .. Len(name) : T[Len(Key) + 3 + i] = name[i]
    /\ T[Len(Key) + Len(name) + 4] = Semicolon
    /\ \A i \in 1 .. Len(line) : T[Len(Key) + Len(name) + 4 + i] = line[i]
    /\ T[Len(Key) + Len(name) + Len(line) + 5] = LineEnd

\* The line that save_monitor_apps_info writes, position by position.
LEMMA SavedText ==
    ASSUME NEW n, n.name \in Seq(Char), n.line \in Seq(Char)
    PROVE  SavedAs(SavedLine(n), n.name, n.line)
<1> DEFINE name == n.name
           line == n.line
           K == Len(Key)
           N == Len(name)
           M == Len(line)
           D == <<Blank, Equals, Blank>>
<1>1. /\ Key \in Seq(Char) /\ D \in Seq(Char) /\ Len(D) = 3
      /\ D[1] = Blank /\ D[2] = Equals /\ D[3] = Blank
      /\ <<LineEnd>> \in Seq(Char) /\ Len(<<LineEnd>>) = 1 /\ <<LineEnd>>[1] = LineEnd
      /\ Semicolon \in Char
  BY RegistrationConstants, CharFacts
<1> HIDE DEF D, name, line
<1>2. name \in Seq(Char) /\ line \in Seq(Char) /\ <<LineEnd>> \in Seq(Char)
      /\ Key \in Seq(Char) /\ D \in Seq(Char) /\ Semicolon \in Char
  BY <1>1 DEF name, line
<1>3. PICK u \in Seq(Char) :
              /\ u = Key \o D
              /\ Len(u) = Len(Key) + Len(D)
              /\ \A i \in 1 .. Len(Key) : u[i] = Key[i]
              /\ \A i \in 1 .. Len(D) : u[Len(Key) + i] = D[i]
  BY <1>2, Behind, Zenon
<1>4. PICK v \in Seq(Char) :
              /\ v = u \o name
              /\ Len(v) = Len(u) + Len(name)
              /\ \A i \in 1 .. Len(u) : v[i] = u[i]
              /\ \A i \in 1 .. Len(name) : v[Len(u) + i] = name[i]
  BY <1>2, Behind, Zenon
<1>a. PICK w \in Seq(Char) : JoinedAs(w, v, Semicolon, line)
  <2>1. v \in Seq(Char)
    OBVIOUS
  <2>2. line \in Seq(Char)
    BY <1>2
  <2>3. Semicolon \in Char
    BY <1>2
  <2> QED BY <2>1, <2>2, <2>3, Joined
<1>5. /\ w \in Seq(Char)
      /\ w = v \o <<Semicolon>> \o line
      /\ Len(w) = Len(v) + 1 + Len(line)
      /\ \A i \in 1 .. Len(v) : w[i] = v[i]
      /\ w[Len(v) + 1] = Semicolon
      /\ \A i \in 1 .. Len(line) : w[Len(v) + 1 + i] = line[i]
  BY <1>a DEF JoinedAs
<1>6. PICK T \in Seq(Char) :
              /\ T = w \o <<LineEnd>>
              /\ Len(T) = Len(w) + Len(<<LineEnd>>)
              /\ \A i \in 1 .. Len(w) : T[i] = w[i]
              /\ \A i \in 1 .. Len(<<LineEnd>>) : T[Len(w) + i] = <<LineEnd>>[i]
  BY <1>2, Behind, Zenon
<1>7. T = SavedLine(n)
  BY <1>3, <1>4, <1>5, <1>6, Zenon DEF SavedLine, D, name, line
<1>8. K \in Nat /\ N \in Nat /\ M \in Nat
  BY <1>2, LenProperties
<1> HIDE DEF K, N, M
<1>9. Len(u) = K + 3 /\ Len(v) = K + N + 3 /\ Len(w) = K + N + M + 4 /\ Len(T) = K + N + M + 5
  <2>1. Len(u) = K + 3
    BY <1>1, <1>3, <1>8 DEF K
  <2>2. Len(v) = K + N + 3
    BY <1>4, <1>8, <2>1 DEF N
  <2>3. Len(w) = K + N + M + 4
    BY <1>5, <1>8, <2>2 DEF M
  <2> QED BY <1>1, <1>6, <1>8, <2>1, <2>2, <2>3
<1>10. \A i \in 1 .. K + 3 : T[i] = u[i]
  <2>1. \A i \in 1 .. K + 3 : i \in 1 .. Len(u) /\ i \in 1 .. Len(v) /\ i \in 1 .. Len(w)
    BY <1>8, <1>9
  <2> QED BY <1>4, <1>5, <1>6, <2>1
<1>11. \A i \in 1 .. K + N + 3 : T[i] = v[i]
  <2>1. \A i \in 1 .. K + N + 3 : i \in 1 .. Len(v) /\ i \in 1 .. Len(w)
    BY <1>8, <1>9
  <2> QED BY <1>5, <1>6, <2>1
<1>12. \A i \in 1 .. K : T[i] = Key[i]
  <2>1. \A i \in 1 .. K : i \in 1 .. K + 3 /\ i \in 1 .. Len(Key)
    BY <1>8 DEF K
  <2> QED BY <1>3, <1>10, <2>1
<1>13. T[K + 1] = Blank /\ T[K + 2] = Equals /\ T[K + 3] = Blank
  <2>1. u[K + 1] = D[1] /\ u[K + 2] = D[2] /\ u[K + 3] = D[3]
    <3>1. 1 \in 1 .. Len(D) /\ 2 \in 1 .. Len(D) /\ 3 \in 1 .. Len(D)
      BY <1>1
    <3> QED BY <1>3, <3>1 DEF K
  <2>2. K + 1 \in 1 .. K + 3 /\ K + 2 \in 1 .. K + 3 /\ K + 3 \in 1 .. K + 3
    BY <1>8
  <2> QED BY <1>1, <1>10, <2>1, <2>2
<1>14. \A i \in 1 .. N : T[K + 3 + i] = name[i]
  <2>1. \A i \in 1 .. N : K + 3 + i \in 1 .. K + N + 3 /\ i \in 1 .. Len(name)
    BY <1>8 DEF N
  <2>2. \A i \in 1 .. N : v[K + 3 + i] = name[i]
    BY <1>4, <1>9, <2>1
  <2> QED BY <1>11, <2>1, <2>2
<1>15. T[K + N + 4] = Semicolon
  <2>1. K + N + 4 \in 1 .. Len(w) /\ Len(v) + 1 = K + N + 4
    BY <1>8, <1>9
  <2> QED BY <1>5, <1>6, <2>1
<1>16. \A i \in 1 .. M : T[K + N + 4 + i] = line[i]
  <2>1. \A i \in 1 .. M : K + N + 4 + i \in 1 .. Len(w) /\ i \in 1 .. Len(line)
                            /\ Len(v) + 1 + i = K + N + 4 + i
    BY <1>8, <1>9 DEF M
  <2> QED BY <1>5, <1>6, <2>1
<1>17. T[K + N + M + 5] = LineEnd
  <2>1. 1 \in 1 .. Len(<<LineEnd>>) /\ Len(w) + 1 = K + N + M + 5
    BY <1>1, <1>8, <1>9
  <2> QED BY <1>1, <1>6, <2>1
<1> QED BY <1>7, <1>9, <1>12, <1>13, <1>14, <1>15, <1>16, <1>17 DEF SavedAs, K, N, M, name, line

\* Where the parts of a saved line are: the key ends with k, the name is
\* between k + 4 and the semicolon s, the command between s and x, the end.
Laid(T, k, s, x) ==
    /\ T \in Seq(Char) /\ x = Len(T)
    /\ k \in Nat \ {0} /\ s \in Nat /\ x \in Nat /\ k + 5 <= s /\ s + 2 <= x
    /\ SubSeq(T, 1, k) = Key
    /\ \A i \in 1 .. k : T[i] \notin Space /\ T[i] # Equals
    /\ T[1] # Comment
    /\ T[k + 1] = Blank /\ T[k + 2] = Equals /\ T[k + 3] = Blank
    /\ T[k + 4] \notin Space /\ T[s - 1] \notin Space
    /\ T[s + 1] \notin Space /\ T[x - 1] \notin Space
    /\ \A i \in k + 4 .. s - 1 : T[i] # Semicolon
    /\ T[s] = Semicolon
    /\ \A i \in s + 1 .. x - 1 : T[i] # Semicolon
    /\ T[x] = LineEnd

\* The line of the file, with the two strings that are in it.
LaidAs(T, k, s, x, name, line) ==
    /\ Laid(T, k, s, x)
    /\ SubSeq(T, k + 4, s - 1) = name
    /\ SubSeq(T, s + 1, x - 1) = line
    /\ \A i \in k + 4 .. s - 1 : T[i] \in Range(name)
    /\ \A i \in s + 1 .. x - 1 : T[i] \in Range(line)

\* The line that is written is laid out so, when the strings are clean.
LEMMA SavedIsLaid ==
    ASSUME NEW T, NEW name, Clean(name), NEW line, Clean(line), SavedAs(T, name, line)
    PROVE  \E k, s, x \in Nat : LaidAs(T, k, s, x, name, line)
<1>1. PICK k \in Nat, N \in Nat, M \in Nat : k = Len(Key) /\ N = Len(name) /\ M = Len(line)
  BY CleanProperties, RegistrationConstants, LenProperties
<1>2. /\ name \in Seq(Char) /\ N # 0 /\ DOMAIN name = 1 .. N
      /\ name[1] \notin Space /\ name[N] \notin Space
      /\ \A i \in 1 .. N : name[i] # Semicolon
  BY <1>1, CleanProperties
<1>3. /\ line \in Seq(Char) /\ M # 0 /\ DOMAIN line = 1 .. M
      /\ line[1] \notin Space /\ line[M] \notin Space
      /\ \A i \in 1 .. M : line[i] # Semicolon
  BY <1>1, CleanProperties
<1>4. /\ Key \in Seq(Char) /\ k # 0
      /\ \A i \in 1 .. k : Key[i] \notin Space /\ Key[i] # Equals /\ Key[i] # Comment
  <2>1. Key \in Seq(Char) /\ Key # << >> /\ DOMAIN Key = 1 .. k
    BY <1>1, RegistrationConstants, LenProperties
  <2>2. k # 0
    BY <1>1, <2>1, EmptySeq
  <2>3. \A i \in 1 .. k : Key[i] \in Range(Key)
    BY <2>1 DEF Range
  <2>4. \A i \in 1 .. k : Key[i] \notin {Blank, LineEnd, Equals, Semicolon, Comment}
    BY <2>3, RegistrationConstants
  <2> QED BY <2>1, <2>2, <2>4 DEF Space
<1>5. PICK s \in Nat : s = k + N + 4
  OBVIOUS
<1>6. PICK x \in Nat : x = s + M + 1
  OBVIOUS
<1>7. /\ T \in Seq(Char) /\ Len(T) = x
      /\ \A i \in 1 .. k : T[i] = Key[i]
      /\ T[k + 1] = Blank /\ T[k + 2] = Equals /\ T[k + 3] = Blank
      /\ \A i \in 1 .. N : T[k + 3 + i] = name[i]
      /\ T[s] = Semicolon
      /\ \A i \in 1 .. M : T[s + i] = line[i]
      /\ T[x] = LineEnd
  <2>1. x = k + N + M + 5
    BY <1>5, <1>6
  <2>2. /\ T \in Seq(Char) /\ Len(T) = k + N + M + 5
        /\ \A i \in 1 .. k : T[i] = Key[i]
        /\ T[k + 1] = Blank /\ T[k + 2] = Equals /\ T[k + 3] = Blank
        /\ \A i \in 1 .. N : T[k + 3 + i] = name[i]
        /\ T[k + N + 4] = Semicolon
        /\ \A i \in 1 .. M : T[k + N + 4 + i] = line[i]
        /\ T[k + N + M + 5] = LineEnd
    BY <1>1 DEF SavedAs
  <2> QED BY <1>5, <2>1, <2>2
<1>8. SubSeq(T, 1, k) = Key
  <2>1. 0 \in Nat /\ 0 + Len(Key) <= Len(T) /\ \A i \in 1 .. Len(Key) : T[0 + i] = Key[i]
    BY <1>1, <1>5, <1>6, <1>7
  <2>2. SubSeq(T, 0 + 1, 0 + Len(Key)) = Key
    BY <1>4, <1>7, <2>1, FoundAt
  <2>3. 0 + 1 = 1 /\ 0 + Len(Key) = k
    BY <1>1
  <2> QED BY <2>2, <2>3
<1>9. SubSeq(T, k + 4, s - 1) = name
  <2>1. k + 3 \in Nat /\ (k + 3) + Len(name) <= Len(T)
        /\ \A i \in 1 .. Len(name) : T[(k + 3) + i] = name[i]
    BY <1>1, <1>5, <1>6, <1>7
  <2>2. SubSeq(T, (k + 3) + 1, (k + 3) + Len(name)) = name
    BY <1>2, <1>7, <2>1, FoundAt
  <2>3. (k + 3) + 1 = k + 4 /\ (k + 3) + Len(name) = s - 1
    BY <1>1, <1>5
  <2> QED BY <2>2, <2>3
<1>10. SubSeq(T, s + 1, x - 1) = line
  <2>1. s + Len(line) <= Len(T) /\ \A i \in 1 .. Len(line) : T[s + i] = line[i]
    BY <1>1, <1>6, <1>7
  <2>2. SubSeq(T, s + 1, s + Len(line)) = line
    BY <1>3, <1>7, <2>1, FoundAt
  <2>3. s + Len(line) = x - 1
    BY <1>1, <1>6
  <2> QED BY <2>2, <2>3
<1>11. \A i \in k + 4 .. s - 1 : i - k - 3 \in 1 .. N /\ T[i] = name[i - k - 3]
  <2>1. ASSUME NEW i \in k + 4 .. s - 1
        PROVE  i - k - 3 \in 1 .. N /\ T[i] = name[i - k - 3]
    <3>1. i - k - 3 \in 1 .. N /\ k + 3 + (i - k - 3) = i
      BY <1>5
    <3> QED BY <1>7, <3>1
  <2> QED BY <2>1
<1>12. \A i \in s + 1 .. x - 1 : i - s \in 1 .. M /\ T[i] = line[i - s]
  <2>1. ASSUME NEW i \in s + 1 .. x - 1
        PROVE  i - s \in 1 .. M /\ T[i] = line[i - s]
    <3>1. i - s \in 1 .. M /\ s + (i - s) = i
      BY <1>6
    <3> QED BY <1>7, <3>1
  <2> QED BY <2>1
<1>13. T[k + 4] \notin Space /\ T[s - 1] \notin Space
  <2>1. k + 4 = k + 3 + 1 /\ s - 1 = k + 3 + N /\ 1 \in 1 .. N /\ N \in 1 .. N
    BY <1>2, <1>5
  <2> QED BY <1>2, <1>7, <2>1
<1>14. T[s + 1] \notin Space /\ T[x - 1] \notin Space
  <2>1. x - 1 = s + M /\ 1 \in 1 .. M /\ M \in 1 .. M
    BY <1>3, <1>6
  <2> QED BY <1>3, <1>7, <2>1
<1>15. k + 5 <= s /\ s + 2 <= x
  BY <1>2, <1>3, <1>5, <1>6
<1>16. \A i \in k + 4 .. s - 1 : T[i] # Semicolon /\ T[i] \in Range(name)
  BY <1>2, <1>11 DEF Range
<1>17. \A i \in s + 1 .. x - 1 : T[i] # Semicolon /\ T[i] \in Range(line)
  BY <1>3, <1>12 DEF Range
<1>18. /\ \A i \in 1 .. k : T[i] \notin Space /\ T[i] # Equals
       /\ T[1] # Comment
  <2>1. 1 \in 1 .. k
    BY <1>1, <1>4
  <2> QED BY <1>4, <1>7, <2>1
<1>19. Laid(T, k, s, x)
  BY <1>4, <1>7, <1>8, <1>13, <1>14, <1>15, <1>16, <1>17, <1>18 DEF Laid
<1> QED BY <1>9, <1>10, <1>16, <1>17, <1>19 DEF LaidAs

\* What is read from the first line: nothing that is of use, or the whole name
\* and the command up to a character h.
Read(T, k, s, c, found) ==
    \E h \in s + 1 .. c :
        /\ \A i \in k + 3 .. h : T[i] # Equals
        /\ T[h] \notin Space
        /\ found = [name |-> SubSeq(T, k + 4, s - 1), line |-> SubSeq(T, s + 1, h)]

\* What get_wd_configure finds in the part of the text up to its first
\* line end.
FirstLineIs(T, k, s, x, c) ==
    LET line == SubSeq(T, 1, c)
    IN  /\ line # << >> /\ Strip(line) # Null /\ Strip(line)[1] # Comment
        /\ NodeOf(line) = Null \/ Read(T, k, s, c, NodeOf(line))
        /\ c = x - 1 /\ (\A i \in k + 3 .. c : T[i] # Equals) =>
                NodeOf(line) = [name |-> SubSeq(T, k + 4, s - 1),
                                line |-> SubSeq(T, s + 1, c)]

\* The key, the first "=" and the ";" divide the line where they were
\* written, or the line is cut short by its own "=" or line end.
LEMMA FirstLine ==
    ASSUME NEW T, NEW k \in Nat, NEW s \in Nat, NEW x \in Nat, Laid(T, k, s, x),
           NEW c \in Nat, k + 4 <= c, c < x, \A i \in 1 .. c : T[i] # LineEnd
    PROVE  FirstLineIs(T, k, s, x, c)
<1> DEFINE line == SubSeq(T, 1, c)
           key == Token(Strip(line), Equals)
           value == Token(key.rest, Equals)
           name == Token(Strip(value.word), Semicolon)
           cmd == Token(name.rest, Semicolon)
<1>1. NodeOf(line) =
        IF value.word = Null THEN Null
        ELSE IF Strip(key.word) = Null THEN Null
        ELSE IF Strip(key.word) # Key THEN << >>
        ELSE IF Strip(value.word) = Null THEN Null
        ELSE IF cmd.word = Null THEN Null
        ELSE [name |-> Strip(name.word), line |-> Strip(cmd.word)]
  BY DEF NodeOf
<1> HIDE DEF line, key, value, name, cmd
<1>2. /\ T \in Seq(Char) /\ x = Len(T)
      /\ k # 0 /\ k + 5 <= s /\ s + 2 <= x
      /\ SubSeq(T, 1, k) = Key /\ T[1] # Comment
      /\ \A i \in 1 .. k : T[i] \notin Space /\ T[i] # Equals
      /\ T[k + 1] = Blank /\ T[k + 2] = Equals /\ T[k + 3] = Blank
      /\ T[k + 4] \notin Space /\ T[s - 1] \notin Space
      /\ T[s + 1] \notin Space /\ T[x - 1] \notin Space
      /\ \A i \in k + 4 .. s - 1 : T[i] # Semicolon
      /\ T[s] = Semicolon
      /\ \A i \in s + 1 .. x - 1 : T[i] # Semicolon
      /\ T[x] = LineEnd
  BY DEF Laid
<1>3. /\ Equals \in Char /\ Semicolon \in Char /\ Blank \in Space
      /\ Blank # Equals /\ Equals \notin Space /\ Null \notin Seq(Char)
  BY CharFacts
<1>a. T \in Seq(Char)
  BY <1>2
<1>b. Equals \in Char /\ Semicolon \in Char
  BY <1>3
<1>4. PICK k1 \in Nat, k3 \in Nat, k4 \in Nat : k1 = k + 1 /\ k3 = k + 3 /\ k4 = k + 4
  OBVIOUS
<1>5. PICK z \in Nat, b \in Nat : z = s - 1 /\ b = s + 1
  BY <1>2
<1>6. /\ 1 \in Nat \ {0} /\ k3 \in Nat \ {0} /\ k4 \in Nat \ {0} /\ b \in Nat \ {0} /\ 1 \in Nat
      /\ c \in 0 .. Len(T) /\ k1 \in 0 .. Len(T) /\ z \in 0 .. Len(T) /\ k \in 0 .. Len(T)
  BY <1>2, <1>4, <1>5
<1>7. line # << >>
  <2>1. Len(line) = c - 1 + 1
    BY <1>2, <1>6, PartProperties DEF line
  <2> QED BY <2>1
<1>8. PICK l \in Nat : /\ StripSpan(T, 1, c, 1, l) /\ l \in k4 .. c
                       /\ T[l] \notin Space
                       /\ c = x - 1 => l = c
  <2>1. 1 \in 1 .. k /\ 1 \in 1 .. c
    BY <1>2
  <2>2. T[1] \notin Space
    BY <1>2, <2>1
  <2>3. PICK f \in Nat, l \in Nat : StripSpan(T, 1, c, f, l)
    BY <1>2, <1>6, <2>1, <2>2, StripCases
  <2>4. f \in 1 .. c /\ l \in f .. c /\ T[l] \notin Space
        /\ (\A i \in 1 .. f - 1 : T[i] \in Space) /\ (\A i \in l + 1 .. c : T[i] \in Space)
    BY <2>3 DEF StripSpan
  <2>5. f = 1
    BY <2>2, <2>4
  <2>6. k4 <= l
    BY <1>2, <1>4, <2>4
  <2>7. c = x - 1 => l = c
    BY <1>2, <2>4
  <2> QED BY <2>3, <2>4, <2>5, <2>6, <2>7
<1>c. l \in 0 .. Len(T)
  BY <1>2, <1>8
<1>9. Strip(line) = SubSeq(T, 1, l)
  BY <1>a, <1>6, <1>8, StripOfPart DEF line
<1>10. Strip(line) # Null /\ Strip(line)[1] # Comment
  <2>1. Strip(line) # Null
    BY <1>a, <1>6, <1>9, <1>c, PartIsNotNull
  <2>2. 1 \in 1 .. l - 1 + 1 /\ 1 + 1 - 1 = 1
    BY <1>4, <1>8
  <2>3. Strip(line)[1] = T[1]
    BY <1>a, <1>6, <1>9, <1>c, <2>2, PartProperties
  <2> QED BY <1>2, <2>1, <2>3
<1>11. key.word = SubSeq(T, 1, k1) /\ key.rest = SubSeq(T, k3, l)
  <2>1. \A i \in 1 .. k1 : T[i] # Equals
    <3>1. \A i \in 1 .. k1 : i \in 1 .. k \/ i = k + 1
      BY <1>4
    <3> QED BY <1>2, <1>3, <3>1
  <2>2. TokenSpan(T, 1, l, Equals, 1, k1)
    <3>1. 1 \in 1 .. l /\ k1 \in 1 .. l /\ 1 .. 1 - 1 = {} /\ k1 + 1 = k + 2
      BY <1>4, <1>8
    <3> QED BY <1>2, <2>1, <3>1 DEF TokenSpan
  <2>3. k3 = k1 + 2
    BY <1>4
  <2>4. Token(SubSeq(T, 1, l), Equals).word = SubSeq(T, 1, k1)
    BY <1>a, <1>b, <1>6, <1>c, <2>2, <2>3, TokenOfPart
  <2>5. Token(SubSeq(T, 1, l), Equals).rest = SubSeq(T, k3, l)
    BY <1>a, <1>b, <1>6, <1>c, <2>2, <2>3, TokenOfPart
  <2> QED BY <1>9, <2>4, <2>5 DEF key
<1>12. Strip(key.word) = Key /\ Key # Null
  <2>1. StripSpan(T, 1, k1, 1, k)
    <3>1. /\ 1 \in 1 .. k1 /\ k \in 1 .. k1 /\ 1 .. 1 - 1 = {} /\ 1 \in 1 .. k /\ k \in 1 .. k
          /\ \A i \in k + 1 .. k1 : i = k + 1
      BY <1>2, <1>4
    <3> QED BY <1>2, <1>3, <3>1 DEF StripSpan
  <2>2. Strip(SubSeq(T, 1, k1)) = SubSeq(T, 1, k)
    BY <1>a, <1>6, <2>1, StripOfPart
  <2> QED BY <1>2, <1>3, <1>11, <2>2, RegistrationConstants
<1>13. PICK g \in Nat : /\ TokenSpan(T, k3, l, Equals, k3, g)
                        /\ g \in k3 .. l /\ \A i \in k3 .. g : T[i] # Equals
                        /\ g = l \/ T[g + 1] = Equals
  <2>1. T[k3] # Equals /\ k3 \in k3 .. l
    BY <1>2, <1>3, <1>4, <1>8
  <2>2. PICK f \in Nat, g \in Nat : TokenSpan(T, k3, l, Equals, f, g)
    BY <1>2, <1>3, <1>6, <1>c, <2>1, TokenCases
  <2>3. f = k3
    <3>1. k3 \in k3 .. f - 1 \/ f = k3
      BY <2>1, <2>2 DEF TokenSpan
    <3> QED BY <2>1, <2>2, <3>1 DEF TokenSpan
  <2>4. g \in k3 .. l /\ (\A i \in k3 .. g : T[i] # Equals) /\ (g = l \/ T[g + 1] = Equals)
    BY <2>2, <2>3 DEF TokenSpan
  <2> QED BY <2>2, <2>3, <2>4
<1>14. g \in 0 .. Len(T)
  BY <1>2, <1>c, <1>13
<1>15. value.word = SubSeq(T, k3, g)
  <2>1. PICK r \in Nat : r = g + 2
    OBVIOUS
  <2>2. value = Token(SubSeq(T, k3, l), Equals)
    BY <1>11 DEF value
  <2>3. Token(SubSeq(T, k3, l), Equals).word = SubSeq(T, k3, g)
    BY <1>a, <1>b, <1>6, <1>c, <1>13, <2>1, TokenOfPart
  <2> QED BY <2>2, <2>3
<1>16. value.word # Null
  BY <1>a, <1>6, <1>14, <1>15, PartIsNotNull
<1>17. CASE \A i \in k3 .. g : T[i] \in Space
  <2>1. Strip(value.word) = Null
    <3>1. k3 \in Nat \ {0} /\ g \in 0 .. Len(T) /\ k3 <= g /\ T \in Seq(Char)
      BY <1>a, <1>6, <1>13, <1>14
    <3>2. Strip(SubSeq(T, k3, g)) = Null
      BY <1>17, <3>1, StripOfSpaces
    <3> QED BY <1>15, <3>2
  <2>2. NodeOf(line) = Null
    BY <1>1, <1>12, <1>16, <2>1
  <2>3. ~ (c = x - 1 /\ \A i \in k + 3 .. c : T[i] # Equals)
    <3>1. ASSUME c = x - 1, \A i \in k + 3 .. c : T[i] # Equals
          PROVE  FALSE
      <4>1. l = c
        BY <1>8, <3>1
      <4>2. g = l \/ g + 1 \in k + 3 .. c
        BY <1>4, <1>13, <4>1
      <4>3. g = l
        BY <1>13, <3>1, <4>2
      <4>4. l \in k3 .. g
        BY <1>13, <4>3
      <4> QED BY <1>8, <1>17, <4>4
    <3> QED BY <3>1
  <2> QED BY <1>7, <1>10, <2>2, <2>3 DEF line, FirstLineIs
<1>18. CASE ~ \A i \in k3 .. g : T[i] \in Space
  <2>1. PICK h \in Nat : /\ StripSpan(T, k3, g, k4, h)
                         /\ h \in k4 .. g /\ T[h] \notin Space
                         /\ \A i \in h + 1 .. g : T[i] \in Space
    <3>1. PICK f \in Nat, h \in Nat : StripSpan(T, k3, g, f, h)
      BY <1>2, <1>6, <1>14, <1>18, StripCases
    <3>2. f \in k3 .. g /\ h \in f .. g /\ T[f] \notin Space /\ T[h] \notin Space
          /\ (\A i \in k3 .. f - 1 : T[i] \in Space) /\ (\A i \in h + 1 .. g : T[i] \in Space)
      BY <3>1 DEF StripSpan
    <3>3. f # k3
      BY <1>2, <1>3, <1>4, <3>2
    <3>4. ~ (k4 \in k3 .. f - 1)
      BY <1>2, <1>4, <3>2
    <3>5. f = k4
      BY <1>4, <3>2, <3>3, <3>4
    <3> QED BY <3>1, <3>2, <3>5
  <2>a. h \in 0 .. Len(T)
    BY <1>14, <2>1
  <2>2. h <= c /\ \A i \in k + 3 .. h : T[i] # Equals
    BY <1>4, <1>8, <1>13, <1>14, <2>1
  <2>3. Strip(value.word) = SubSeq(T, k4, h)
    <3>1. Strip(SubSeq(T, k3, g)) = SubSeq(T, k4, h)
      BY <1>a, <1>6, <1>14, <2>1, StripOfPart
    <3> QED BY <1>15, <3>1
  <2>4. Strip(value.word) # Null
    BY <1>a, <1>6, <2>a, <2>3, PartIsNotNull
  <2>5. name = Token(SubSeq(T, k4, h), Semicolon)
    BY <2>3 DEF name
  <2>6. T[k4] # Semicolon /\ k4 \in k4 .. h /\ k4 \in k4 .. z
    BY <1>2, <1>4, <1>5, <2>1
  <2>7. PICK e \in Nat : TokenSpan(T, k4, h, Semicolon, k4, e)
    <3>1. PICK f \in Nat, e \in Nat : TokenSpan(T, k4, h, Semicolon, f, e)
      BY <1>2, <1>3, <1>6, <2>a, <2>6, TokenCases
    <3>2. k4 \in k4 .. f - 1 \/ f = k4
      BY <2>6, <3>1 DEF TokenSpan
    <3>3. f = k4
      BY <2>6, <3>1, <3>2 DEF TokenSpan
    <3> QED BY <3>1, <3>3
  <2>8. PICK r \in Nat : r = e + 2
    OBVIOUS
  <2>9. name.word = SubSeq(T, k4, e) /\ name.rest = SubSeq(T, r, h)
    <3>1. Token(SubSeq(T, k4, h), Semicolon).word = SubSeq(T, k4, e)
      BY <1>a, <1>b, <1>6, <2>a, <2>7, <2>8, TokenOfPart
    <3>2. Token(SubSeq(T, k4, h), Semicolon).rest = SubSeq(T, r, h)
      BY <1>a, <1>b, <1>6, <2>a, <2>7, <2>8, TokenOfPart
    <3> QED BY <2>5, <3>1, <3>2
  <2>10. cmd = Token(SubSeq(T, r, h), Semicolon) /\ r \in Nat \ {0}
    BY <2>8, <2>9 DEF cmd
  <2>11. /\ e \in k4 .. h /\ (\A i \in k4 .. e : T[i] # Semicolon)
         /\ e = h \/ T[e + 1] = Semicolon
    BY <2>7 DEF TokenSpan
  <2>12. e <= z
    <3>1. s \in k4 .. e \/ e <= z
      BY <1>2, <1>4, <1>5, <2>11
    <3> QED BY <1>2, <2>11, <3>1
  <2>13. ASSUME r <= h
         PROVE  /\ e = z /\ r = b
                /\ cmd.word = SubSeq(T, b, h)
                /\ Strip(name.word) = SubSeq(T, k4, z) /\ Strip(cmd.word) = SubSeq(T, b, h)
    <3>1. T[e + 1] = Semicolon
      BY <2>8, <2>11, <2>13
    <3>2. e + 1 \in k + 4 .. s - 1 \/ e = z
      BY <1>4, <1>5, <2>11, <2>12
    <3>3. e = z /\ r = b
      BY <1>2, <1>5, <2>8, <3>1, <3>2
    <3>4. \A i \in b .. h : T[i] # Semicolon
      BY <1>2, <1>5, <2>2
    <3>5. TokenSpan(T, b, h, Semicolon, b, h)
      <4>1. b \in b .. h /\ h \in b .. h /\ b .. b - 1 = {}
        BY <2>13, <3>3
      <4> QED BY <3>4, <4>1 DEF TokenSpan
    <3>6. PICK w \in Nat : w = h + 2
      OBVIOUS
    <3>7. Token(SubSeq(T, b, h), Semicolon).word = SubSeq(T, b, h)
      BY <1>a, <1>b, <1>6, <2>a, <3>5, <3>6, TokenOfPart
    <3>8. cmd.word = SubSeq(T, b, h)
      BY <2>10, <3>3, <3>7
    <3>9. StripSpan(T, k4, z, k4, z)
      <4>1. /\ k4 \in k4 .. z /\ z \in k4 .. z /\ k4 .. k4 - 1 = {} /\ z + 1 .. z = {}
            /\ T[k4] \notin Space /\ T[z] \notin Space
        BY <1>2, <1>4, <1>5
      <4> QED BY <4>1 DEF StripSpan
    <3>10. Strip(SubSeq(T, k4, z)) = SubSeq(T, k4, z)
      BY <1>a, <1>6, <3>9, StripOfPart
    <3>11. StripSpan(T, b, h, b, h)
      <4>1. /\ b \in b .. h /\ h \in b .. h /\ b .. b - 1 = {} /\ h + 1 .. h = {}
            /\ T[b] \notin Space /\ T[h] \notin Space
        BY <1>2, <1>5, <2>1, <2>13, <3>3
      <4> QED BY <4>1 DEF StripSpan
    <3>12. Strip(SubSeq(T, b, h)) = SubSeq(T, b, h)
      BY <1>a, <1>6, <2>a, <3>11, StripOfPart
    <3> QED BY <2>9, <3>3, <3>8, <3>10, <3>12
  <2>14. CASE r <= h
    <3>1. cmd.word # Null
      BY <1>a, <1>6, <2>a, <2>13, <2>14, PartIsNotNull
    <3>2. NodeOf(line) = [name |-> SubSeq(T, k4, z), line |-> SubSeq(T, b, h)]
      BY <1>1, <1>12, <1>16, <2>4, <2>13, <2>14, <3>1
    <3>3. h \in s + 1 .. c
      BY <1>5, <2>2, <2>13, <2>14
    <3>4. c = x - 1 /\ (\A i \in k + 3 .. c : T[i] # Equals) => h = c
      <4>1. ASSUME c = x - 1, \A i \in k + 3 .. c : T[i] # Equals
            PROVE  h = c
        <5>1. l = c
          BY <1>8, <4>1
        <5>2. g = l \/ g + 1 \in k + 3 .. c
          BY <1>4, <1>13, <5>1
        <5>3. g = c
          BY <1>13, <4>1, <5>1, <5>2
        <5>4. c \in h + 1 .. g \/ h = c
          BY <2>1, <5>3
        <5> QED BY <1>8, <2>1, <5>1, <5>4
      <4> QED BY <4>1
    <3>5. NodeOf(line) = [name |-> SubSeq(T, k + 4, s - 1), line |-> SubSeq(T, s + 1, h)]
      BY <1>4, <1>5, <3>2
    <3>6. Read(T, k, s, c, NodeOf(line))
      BY <2>1, <2>2, <3>3, <3>5 DEF Read
    <3> QED BY <1>7, <1>10, <3>4, <3>5, <3>6 DEF line, FirstLineIs
  <2>15. CASE ~ (r <= h)
    <3>1. cmd.word = Null
      <4>1. \A i \in r .. h : T[i] = Semicolon
        BY <2>1, <2>15
      <4> QED BY <1>a, <1>b, <2>a, <2>10, <4>1, TokenOfNothing
    <3>2. NodeOf(line) = Null
      BY <1>1, <1>12, <1>16, <2>4, <3>1
    <3>3. ~ (c = x - 1 /\ \A i \in k + 3 .. c : T[i] # Equals)
      <4>1. ASSUME c = x - 1, \A i \in k + 3 .. c : T[i] # Equals
            PROVE  FALSE
        <5>1. l = c
          BY <1>8, <4>1
        <5>2. g = l \/ g + 1 \in k + 3 .. c
          BY <1>4, <1>13, <5>1
        <5>3. g = c
          BY <1>13, <4>1, <5>1, <5>2
        <5>4. c \in h + 1 .. g \/ h = c
          BY <2>1, <5>3
        <5>5. h = c
          BY <1>8, <2>1, <5>1, <5>4
        <5>6. ~ (e + 2 <= x - 1) /\ e <= s - 1 /\ s + 2 <= x
          BY <1>2, <1>5, <2>8, <2>12, <2>15, <4>1, <5>5
        <5> QED BY <5>6
      <4> QED BY <4>1
    <3> QED BY <1>7, <1>10, <3>2, <3>3 DEF line, FirstLineIs
  <2> QED BY <2>14, <2>15
<1> QED BY <1>17, <1>18

\* The first line of the file, and the only one when name and command do not
\* divide it.
FirstNodeIs(T, k, s, x, e) ==
    /\ \A i \in Breaks(T) : i \in Nat /\ e <= i
    /\ \A i \in 1 .. e - 1 : T[i] # LineEnd
    /\ NodeAt(T, e) = Null \/ Read(T, k, s, e - 1, NodeAt(T, e))
    /\ (\A i \in k + 4 .. x - 1 : T[i] # Equals /\ T[i] # LineEnd) =>
            /\ Breaks(T) = {e}
            /\ NodeAt(T, e) = [name |-> SubSeq(T, k + 4, s - 1),
                               line |-> SubSeq(T, s + 1, x - 1)]

\* Every file that was written has a first line, and that is read so.
LEMMA FirstNode ==
    ASSUME NEW T, NEW k \in Nat, NEW s \in Nat, NEW x \in Nat, Laid(T, k, s, x)
    PROVE  \E e \in Breaks(T) : FirstNodeIs(T, k, s, x, e)
<1>1. /\ T \in Seq(Char) /\ x = Len(T)
      /\ k # 0 /\ k + 5 <= s /\ s + 2 <= x
      /\ \A i \in 1 .. k : T[i] \notin Space
      /\ T[k + 1] = Blank /\ T[k + 2] = Equals /\ T[k + 3] = Blank
      /\ T[k + 4] \notin Space /\ T[x] = LineEnd
  BY DEF Laid
<1>2. /\ LineEnd \in Space /\ Blank # LineEnd /\ Equals # LineEnd /\ Blank # Equals
  BY CharFacts
<1>3. DOMAIN T = 1 .. x
  BY <1>1, LenProperties
<1>4. Breaks(T) = {i \in 1 .. x : T[i] = LineEnd}
  BY <1>3 DEF Breaks
<1>5. x \in Breaks(T) /\ Breaks(T) \subseteq Nat
  BY <1>1, <1>4
<1>6. PICK e \in Breaks(T) : \A i \in Breaks(T) : e <= i
  BY <1>5, MinProperties
<1>7. e \in 1 .. x /\ T[e] = LineEnd /\ \A i \in 1 .. e - 1 : T[i] # LineEnd
  BY <1>4, <1>6
<1>8. k + 5 <= e
  <2>1. e \in 1 .. k \/ e = k + 1 \/ e = k + 2 \/ e = k + 3 \/ e = k + 4 \/ k + 5 <= e
    BY <1>7
  <2> QED BY <1>1, <1>2, <1>7, <2>1
<1>9. PICK c \in Nat : c = e - 1
  BY <1>7
<1>10. LineAt(T, e) = SubSeq(T, 1, c)
  <2>1. {i \in Breaks(T) : i < e} \union {0} = {0}
    BY <1>5, <1>6
  <2>2. Max({0}) = 0
    <3>1. {0} \subseteq 0 .. 0 /\ 0 \in {0} /\ 0 \in Nat /\ \A y \in {0} : y <= 0
      OBVIOUS
    <3> QED BY <3>1, MaxIs
  <2>3. LineStart(T, e) = 1
    BY <2>1, <2>2 DEF LineStart
  <2> QED BY <1>9, <2>3 DEF LineAt
<1>11. k + 4 <= c /\ c < x /\ \A i \in 1 .. c : T[i] # LineEnd
  BY <1>7, <1>8, <1>9
<1> DEFINE line == SubSeq(T, 1, c)
<1>a. FirstLineIs(T, k, s, x, c)
  BY <1>11, FirstLine
<1>12. /\ line # << >> /\ Strip(line) # Null /\ Strip(line)[1] # Comment
       /\ NodeOf(line) = Null \/ Read(T, k, s, c, NodeOf(line))
       /\ c = x - 1 /\ (\A i \in k + 3 .. c : T[i] # Equals) =>
                NodeOf(line) = [name |-> SubSeq(T, k + 4, s - 1),
                                line |-> SubSeq(T, s + 1, c)]
  BY <1>a DEF FirstLineIs
<1> HIDE DEF line
<1>13. NodeAt(T, e) = NodeOf(line)
  BY <1>10, <1>12 DEF NodeAt, line
<1>15. NodeAt(T, e) = Null \/ Read(T, k, s, e - 1, NodeAt(T, e))
  BY <1>9, <1>12, <1>13
<1>16. ASSUME \A i \in k + 4 .. x - 1 : T[i] # Equals /\ T[i] # LineEnd
       PROVE  /\ Breaks(T) = {e}
              /\ NodeAt(T, e) = [name |-> SubSeq(T, k + 4, s - 1),
                                 line |-> SubSeq(T, s + 1, x - 1)]
  <2>1. e = x
    <3>1. e \in k + 4 .. x - 1 \/ e = x
      BY <1>7, <1>8
    <3> QED BY <1>7, <1>16, <3>1
  <2>2. Breaks(T) = {e}
    BY <1>4, <1>6, <2>1
  <2>3. \A i \in k + 3 .. c : T[i] # Equals
    <3>1. \A i \in k + 3 .. c : i = k + 3 \/ i \in k + 4 .. x - 1
      BY <1>9, <2>1
    <3> QED BY <1>1, <1>2, <1>16, <3>1
  <2>4. c = x - 1
    BY <1>9, <2>1
  <2> QED BY <1>12, <1>13, <2>2, <2>3, <2>4
<1> QED BY <1>5, <1>6, <1>7, <1>15, <1>16 DEF FirstNodeIs

-----------------------------------------------------------------------------
(* The node that the next daemon reads.                                    *)

\* A node with a clean name and command is read back with its name and a
\* clean command that do not divide a line, or the daemon does not start;
\* when name and command did not divide a line before, nothing changes.
LoadedAs(n, T, e) ==
    /\ \A i \in Breaks(T) : i \in Nat /\ e <= i
    /\ NodeAt(T, e) # << >>
    /\ NodeAt(T, e) # Null =>
          \E line : /\ Clean(line) /\ OneLine(line) /\ OneLine(n.name)
                    /\ NodeAt(T, e) = [name |-> n.name, line |-> line]
    /\ OneLine(n.name) /\ OneLine(n.line) =>
          /\ Breaks(T) = {e}
          /\ NodeAt(T, e) = [name |-> n.name, line |-> n.line]

\* What is read back from the line of a clean node.
LEMMA Loaded ==
    ASSUME NEW n, Clean(n.name), Clean(n.line), NEW T, T = SavedLine(n)
    PROVE  \E e \in Breaks(T) : LoadedAs(n, T, e)
<1> DEFINE name == n.name
           command == n.line
<1>1. name \in Seq(Char) /\ command \in Seq(Char)
  BY CleanProperties
<1>2. SavedAs(T, name, command)
  BY <1>1, SavedText
<1> HIDE DEF name, command
<1>3. Clean(name) /\ Clean(command)
  BY DEF name, command
<1>a. PICK k \in Nat, s \in Nat, x \in Nat : LaidAs(T, k, s, x, name, command)
  BY <1>2, <1>3, SavedIsLaid
<1>4. /\ Laid(T, k, s, x)
      /\ SubSeq(T, k + 4, s - 1) = name
      /\ SubSeq(T, s + 1, x - 1) = command
      /\ \A i \in k + 4 .. s - 1 : T[i] \in Range(name)
      /\ \A i \in s + 1 .. x - 1 : T[i] \in Range(command)
  BY <1>a DEF LaidAs
<1>5. /\ T \in Seq(Char) /\ x = Len(T) /\ k + 5 <= s /\ s + 2 <= x
      /\ T[s] = Semicolon /\ T[s + 1] \notin Space
      /\ \A i \in s + 1 .. x - 1 : T[i] # Semicolon
  BY <1>4 DEF Laid
<1>b. PICK e \in Breaks(T) : FirstNodeIs(T, k, s, x, e)
  BY <1>4, FirstNode
<1>6. /\ \A i \in Breaks(T) : i \in Nat /\ e <= i
      /\ \A i \in 1 .. e - 1 : T[i] # LineEnd
      /\ NodeAt(T, e) = Null \/ Read(T, k, s, e - 1, NodeAt(T, e))
      /\ (\A i \in k + 4 .. x - 1 : T[i] # Equals /\ T[i] # LineEnd) =>
              /\ Breaks(T) = {e}
              /\ NodeAt(T, e) = [name |-> SubSeq(T, k + 4, s - 1),
                                 line |-> SubSeq(T, s + 1, x - 1)]
  BY <1>b DEF FirstNodeIs
<1>7. e \in 1 .. x /\ x \in Breaks(T) /\ DOMAIN T = 1 .. x
  <2>1. DOMAIN T = 1 .. x
    BY <1>5, LenProperties
  <2>2. T[x] = LineEnd
    BY <1>4 DEF Laid
  <2>3. x \in 1 .. x
    BY <1>5
  <2> QED BY <1>6, <2>1, <2>2, <2>3 DEF Breaks
<1>8. ASSUME NodeAt(T, e) # Null
      PROVE  \E line : /\ Clean(line) /\ OneLine(line) /\ OneLine(name)
                       /\ NodeAt(T, e) = [name |-> name, line |-> line]
  <2>a. Read(T, k, s, e - 1, NodeAt(T, e))
    BY <1>6, <1>8
  <2>1. PICK h \in s + 1 .. e - 1 :
                /\ \A i \in k + 3 .. h : T[i] # Equals
                /\ T[h] \notin Space
                /\ NodeAt(T, e) = [name |-> SubSeq(T, k + 4, s - 1),
                                   line |-> SubSeq(T, s + 1, h)]
    BY <2>a DEF Read
  <2>2. h \in 0 .. Len(T) /\ s + 1 \in Nat \ {0} /\ s + 1 <= h /\ h <= x - 1 /\ h \in Nat
    BY <1>5, <1>7, <2>1
  <2>3. \A i \in s + 1 .. h : T[i] # Semicolon
    BY <1>5, <2>2
  <2>4. T \in Seq(Char) /\ T[s + 1] \notin Space /\ T[h] \notin Space
    BY <1>5, <2>1
  <2>5. Clean(SubSeq(T, s + 1, h))
    BY <2>2, <2>3, <2>4, PartIsClean
  <2>6. ASSUME NEW a \in Nat \ {0}, NEW b \in 0 .. Len(T), a <= b, k + 3 <= a, b <= h
        PROVE  OneLine(SubSeq(T, a, b))
    <3>1. /\ DOMAIN SubSeq(T, a, b) = 1 .. b - a + 1
          /\ \A i \in 1 .. b - a + 1 : SubSeq(T, a, b)[i] = T[a + i - 1]
      BY <2>4, <2>6, PartProperties
    <3>2. \A i \in 1 .. b - a + 1 : a + i - 1 \in k + 3 .. h
      BY <2>6
    <3>3. \A i \in 1 .. b - a + 1 : SubSeq(T, a, b)[i] # Equals /\ SubSeq(T, a, b)[i] # LineEnd
      <4>1. \A i \in k + 3 .. h : i \in 1 .. e - 1
        BY <1>7, <2>1, <2>2
      <4> QED BY <1>6, <2>1, <3>1, <3>2, <4>1
    <3> QED BY <3>1, <3>3 DEF OneLine, Range
  <2>7. OneLine(SubSeq(T, s + 1, h))
    <3>1. k + 3 <= s + 1 /\ h <= h
      BY <1>5, <2>2
    <3> QED BY <2>2, <2>6, <3>1
  <2>8. OneLine(name)
    <3>1. /\ k + 3 <= k + 4 /\ s - 1 <= h /\ k + 4 <= s - 1
          /\ k + 4 \in Nat \ {0} /\ s - 1 \in 0 .. Len(T)
      BY <1>5, <2>2
    <3>2. OneLine(SubSeq(T, k + 4, s - 1))
      BY <2>6, <3>1
    <3> QED BY <1>4, <3>2
  <2>9. NodeAt(T, e) = [name |-> name, line |-> SubSeq(T, s + 1, h)]
    BY <1>4, <2>1
  <2> QED BY <2>5, <2>7, <2>8, <2>9
<1>9. ASSUME OneLine(name), OneLine(command)
      PROVE  /\ Breaks(T) = {e}
             /\ NodeAt(T, e) = [name |-> name, line |-> command]
  <2>1. ASSUME NEW i \in k + 4 .. x - 1
        PROVE  T[i] # Equals /\ T[i] # LineEnd
    <3>1. i \in k + 4 .. s - 1 \/ i = s \/ i \in s + 1 .. x - 1
      OBVIOUS
    <3>2. Semicolon # Equals /\ Semicolon # LineEnd
      BY CharFacts
    <3>3. Equals \notin Range(name) /\ LineEnd \notin Range(name)
          /\ Equals \notin Range(command) /\ LineEnd \notin Range(command)
      BY <1>9 DEF OneLine
    <3> QED BY <1>4, <1>5, <3>1, <3>2, <3>3
  <2> QED BY <1>4, <1>6, <2>1
<1>10. NodeAt(T, e) # << >>
  <2>1. CASE NodeAt(T, e) = Null
    BY <2>1, CharFacts
  <2>2. CASE NodeAt(T, e) # Null
    <3>1. PICK line : NodeAt(T, e) = [name |-> name, line |-> line]
      BY <1>8, <2>2
    <3>2. DOMAIN [name |-> name, line |-> line] # DOMAIN << >>
      OBVIOUS
    <3> QED BY <3>1, <3>2
  <2> QED BY <2>1, <2>2
<1> QED BY <1>6, <1>8, <1>9, <1>10 DEF name, command, LoadedAs

-----------------------------------------------------------------------------
(* The words of a command.                                                 *)

\* The first and the last printing character of a plain string, whose only
\* other characters are blanks.
PlainFrom(s, f, l) ==
    /\ s \in Seq(Char) /\ DOMAIN s = 1 .. Len(s) /\ Len(s) \in Nat
    /\ f \in 1 .. Len(s) /\ l \in f .. Len(s)
    /\ Printing(s) \subseteq f .. l
    /\ \A i \in 1 .. Len(s) : s[i] \in Space <=> s[i] = Blank
    /\ \A i \in 1 .. Len(s) : i \in Printing(s) <=> s[i] # Blank
    /\ s[f] # Blank /\ s[l] # Blank

\* A plain string is plain from its first to its last printing character.
LEMMA PlainIsFrom ==
    ASSUME NEW s \in Seq(Char), Plain(s)
    PROVE  PlainFrom(s, Min(Printing(s)), Max(Printing(s)))
<1> DEFINE f == Min(Printing(s))
           l == Max(Printing(s))
<1>1. s = SubSeq(s, 1, Len(s)) /\ Len(s) \in Nat /\ DOMAIN s = 1 .. Len(s)
  BY WholeIsPart
<1>2. \A i \in 1 .. Len(s) : s[i] # LineEnd
  BY <1>1 DEF Plain, Range
<1>3. \A i \in 1 .. Len(s) : s[i] \in Space <=> s[i] = Blank
  BY <1>2 DEF Space
<1>4. \A i \in 1 .. Len(s) : i \in Printing(s) <=> s[i] # Blank
  BY <1>1, <1>3 DEF Printing
<1>5. Printing(s) \subseteq 1 .. Len(s) /\ Printing(s) # {}
  BY <1>1 DEF Printing, Plain
<1>6. f \in Printing(s) /\ \A i \in Printing(s) : f <= i
  <2>1. Printing(s) \subseteq Nat
    BY <1>1, <1>5
  <2> QED BY <1>5, <2>1, MinProperties
<1>7. l \in Printing(s) /\ \A i \in Printing(s) : i <= l
  <2>1. Printing(s) \subseteq 0 .. Len(s)
    BY <1>1, <1>5
  <2> QED BY <1>1, <1>5, <2>1, MaxProperties
<1> HIDE DEF f, l
<1>8. f \in 1 .. Len(s) /\ l \in f .. Len(s) /\ Printing(s) \subseteq f .. l
  BY <1>1, <1>5, <1>6, <1>7
<1> QED BY <1>1, <1>3, <1>4, <1>6, <1>7, <1>8 DEF PlainFrom, f, l

\* Before the first printing character there is no word.
LEMMA NoWordsYet ==
    ASSUME NEW s, NEW f, NEW l, PlainFrom(s, f, l)
    PROVE  AreWords(<< >>, s, f) /\ f - 1 \notin Printing(s)
<1>1. /\ f \in Nat /\ Printing(s) \subseteq f .. l /\ l \in Nat
  BY DEF PlainFrom
<1>2. \A i \in Starts(s) : ~ (i < f)
  BY <1>1 DEF Starts
<1>3. DOMAIN << >> = {}
  OBVIOUS
<1> DEFINE at == [k \in DOMAIN << >> |-> 0]
<1>4. at \in [DOMAIN << >> -> {i \in Starts(s) : i < f}] /\ DOMAIN at = {}
  BY <1>3
<1>5. f - 1 \notin Printing(s)
  BY <1>1
<1> QED BY <1>2, <1>3, <1>4, <1>5 DEF AreWords

\* Where the words that are left begin, and that they are left.
LeftAt(s, f, l, words, text, m) ==
    /\ m \in f .. l + 2
    /\ ~ {m - 1, m} \subseteq Printing(s)
    /\ text = SubSeq(s, m, l)
    /\ AreWords(words, s, m)

\* One word behind the others.
OneMore(more, words, word) ==
    \E n \in Nat : /\ DOMAIN words = 1 .. n
                   /\ DOMAIN more = 1 .. n + 1
                   /\ \A k \in 1 .. n : more[k] = words[k]
                   /\ more[n + 1] = word

\* The word that strtok_r finds is the next one.
LEMMA OneMoreWord ==
    ASSUME NEW s, NEW a, NEW l, PlainFrom(s, a, l),
           NEW words, NEW text, NEW m, LeftAt(s, a, l, words, text, m),
           NEW f \in Nat, NEW g \in Nat, TokenSpan(s, m, l, Blank, f, g),
           NEW more, OneMore(more, words, SubSeq(s, f, g)),
           NEW r, r = g + 2
    PROVE  LeftAt(s, a, l, more, SubSeq(s, r, l), r)
<1>a. /\ m \in a .. l + 2
      /\ ~ {m - 1, m} \subseteq Printing(s)
      /\ AreWords(words, s, m)
  BY DEF LeftAt
<1>b. PICK n \in Nat : /\ DOMAIN words = 1 .. n
                       /\ DOMAIN more = 1 .. n + 1
                       /\ \A k \in 1 .. n : more[k] = words[k]
                       /\ more[n + 1] = SubSeq(s, f, g)
  BY DEF OneMore
<1> USE <1>a, <1>b
<1> DEFINE N == Len(s)
<1>1. /\ N \in Nat /\ a \in 1 .. N /\ l \in a .. N
      /\ Printing(s) \subseteq a .. l
      /\ \A i \in 1 .. N : s[i] \in Space <=> s[i] = Blank
      /\ \A i \in 1 .. N : i \in Printing(s) <=> s[i] # Blank
  BY DEF PlainFrom
<1> HIDE DEF N
<1>2. /\ f \in m .. l /\ g \in f .. l
      /\ \A i \in m .. f - 1 : s[i] = Blank
      /\ \A i \in f .. g : s[i] # Blank
      /\ g = l \/ s[g + 1] = Blank
  BY DEF TokenSpan
<1>3. m \in Nat /\ a \in Nat /\ l \in Nat /\ a <= m
  BY <1>1
<1>4. g + 1 \notin Printing(s)
  <2>1. CASE g = l
    BY <1>1, <1>3, <2>1
  <2>2. CASE g # l
    <3>1. g + 1 \in 1 .. N
      BY <1>1, <1>2, <1>3, <2>2
    <3> QED BY <1>1, <1>2, <2>2, <3>1
  <2> QED BY <2>1, <2>2
<1>5. g + 2 \in a .. l + 2 /\ g + 2 - 1 = g + 1
  BY <1>2, <1>3
<1>6. \A i \in f .. g : i \in Printing(s)
  <2>1. \A i \in f .. g : i \in 1 .. N
    BY <1>1, <1>2, <1>3
  <2> QED BY <1>1, <1>2, <2>1
<1>7. f \in Starts(s)
  <2>1. f \in Printing(s)
    BY <1>2, <1>3, <1>6
  <2>2. f - 1 \notin Printing(s)
    <3>1. CASE f = m
      BY <2>1, <3>1
    <3>2. CASE f # m
      <4>1. f - 1 \in m .. f - 1 /\ f - 1 \in 1 .. N
        BY <1>1, <1>2, <1>3, <3>2
      <4> QED BY <1>1, <1>2, <4>1
    <3> QED BY <3>1, <3>2
  <2> QED BY <2>1, <2>2 DEF Starts
<1>8. WordAt(s, f) = SubSeq(s, f, g)
  <2> DEFINE E == {j \in f .. N : s[j] \in Space} \union {N + 1}
  <2>1. g + 1 \in E
    <3>1. CASE g + 1 \in 1 .. N
      <4>1. s[g + 1] \in Space
        BY <1>1, <1>4, <3>1
      <4> QED BY <1>2, <1>3, <3>1, <4>1
    <3>2. CASE g + 1 \notin 1 .. N
      <4>1. g + 1 = N + 1
        BY <1>1, <1>2, <1>3, <3>2
      <4> QED BY <4>1
    <3> QED BY <3>1, <3>2
  <2>2. \A j \in E : g + 1 <= j
    <3>1. ASSUME NEW j \in f .. N, s[j] \in Space
          PROVE  g + 1 <= j
      <4>1. j \in 1 .. N
        BY <1>1, <1>2, <1>3
      <4>2. j \in f .. g \/ g + 1 <= j
        BY <1>1, <1>2, <1>3
      <4> QED BY <1>1, <1>6, <3>1, <4>1, <4>2
    <3>2. g + 1 <= N + 1
      BY <1>1, <1>2, <1>3
    <3> QED BY <3>1, <3>2
  <2>3. E \subseteq Nat
    BY <1>1, <1>2, <1>3
  <2> HIDE DEF E
  <2>4. Min(E) = g + 1
    BY <2>1, <2>2, <2>3, MinIs
  <2>5. WordAt(s, f) = SubSeq(s, f, Min(E) - 1)
    BY DEF WordAt, E, N
  <2>6. Min(E) - 1 = g
    BY <2>4
  <2> QED BY <2>5, <2>6
<1>9. PICK at \in [DOMAIN words -> {i \in Starts(s) : i < m}] :
        /\ \A k \in DOMAIN words : words[k] = WordAt(s, at[k])
        /\ \A j, k \in DOMAIN words : j < k => at[j] < at[k]
        /\ \A i \in Starts(s) : i < m => i \in Range(at)
  BY DEF AreWords
<1>10. Starts(s) \subseteq Nat /\ \A i \in Starts(s) : i \in Printing(s) /\ i - 1 \notin Printing(s)
  BY <1>1, <1>3 DEF Starts
<1> DEFINE at1 == [k \in 1 .. n + 1 |-> IF k <= n THEN at[k] ELSE f]
<1>11. \A k \in 1 .. n : k \in 1 .. n + 1 /\ at1[k] = at[k] /\ at[k] \in Starts(s) /\ at[k] < m
                         /\ at[k] \in Nat
  <2>1. \A k \in 1 .. n : at[k] \in {i \in Starts(s) : i < m}
    BY <1>9
  <2>2. \A k \in 1 .. n : k \in 1 .. n + 1 /\ at1[k] = at[k]
    OBVIOUS
  <2> HIDE DEF at1
  <2> QED BY <1>10, <2>1, <2>2
<1>12. n + 1 \in 1 .. n + 1 /\ at1[n + 1] = f /\ DOMAIN at1 = 1 .. n + 1
  OBVIOUS
<1> HIDE DEF at1
<1>13. \A k \in 1 .. n + 1 : k \in 1 .. n \/ k = n + 1
  OBVIOUS
<1>14. f < g + 2 /\ m < g + 2 /\ m <= f
  BY <1>2, <1>3
<1>15. at1 \in [DOMAIN more -> {i \in Starts(s) : i < g + 2}]
  <2>1. \A k \in 1 .. n + 1 : at1[k] \in Starts(s) /\ at1[k] < g + 2
    <3>1. ASSUME NEW k \in 1 .. n
          PROVE  at1[k] \in Starts(s) /\ at1[k] < g + 2
      <4>1. at1[k] \in Starts(s) /\ at1[k] \in Nat /\ at1[k] < m
        BY <1>11
      <4> QED BY <1>3, <1>14, <4>1
    <3>2. at1[n + 1] \in Starts(s) /\ at1[n + 1] < g + 2
      BY <1>7, <1>12, <1>14
    <3> QED BY <1>13, <3>1, <3>2
  <2>2. at1 = [k \in 1 .. n + 1 |-> at1[k]]
    BY DEF at1
  <2> QED BY <2>1, <2>2
<1>16. \A k \in 1 .. n + 1 : more[k] = WordAt(s, at1[k])
  BY <1>8, <1>9, <1>11, <1>12, <1>13
<1>17. \A j, k \in 1 .. n + 1 : j < k => at1[j] < at1[k]
  <2> SUFFICES ASSUME NEW j \in 1 .. n + 1, NEW k \in 1 .. n + 1, j < k
               PROVE  at1[j] < at1[k]
    OBVIOUS
  <2>1. j \in 1 .. n
    OBVIOUS
  <2>2. CASE k \in 1 .. n
    BY <1>9, <1>11, <2>1, <2>2
  <2>3. CASE k = n + 1
    <3>1. at1[j] \in Nat /\ at1[j] < m /\ at1[k] = f
      BY <1>11, <1>12, <2>1, <2>3
    <3> QED BY <1>3, <1>14, <3>1
  <2> QED BY <1>13, <2>2, <2>3
<1>18. ASSUME NEW i \in Starts(s), i < g + 2
       PROVE  i \in Range(at1)
  <2>1. CASE i < m
    <3>1. i \in Range(at)
      BY <1>9, <2>1
    <3>2. PICK k \in 1 .. n : at[k] = i
      BY <3>1 DEF Range
    <3>3. k \in DOMAIN at1 /\ at1[k] = i
      BY <1>11, <1>12, <3>2
    <3> QED BY <3>3 DEF Range
  <2>2. CASE ~ (i < m)
    <3>1. i = f
      <4>1. i \in Nat /\ i \in Printing(s) /\ i - 1 \notin Printing(s)
        BY <1>10
      <4>2. i \notin m .. f - 1
        <5>1. i \in 1 .. N
          BY <1>1, <1>3, <4>1
        <5> QED BY <1>1, <1>2, <4>1, <5>1
      <4>3. i - 1 \notin f .. g
        BY <1>6, <4>1
      <4>4. i # g + 1
        BY <1>4, <4>1
      <4> QED BY <1>2, <1>3, <1>18, <2>2, <4>1, <4>2, <4>3, <4>4
    <3>2. n + 1 \in DOMAIN at1 /\ at1[n + 1] = i
      BY <1>12, <3>1
    <3> QED BY <3>2 DEF Range
  <2> QED BY <2>1, <2>2
<1>19. AreWords(more, s, g + 2)
  BY <1>15, <1>16, <1>17, <1>18 DEF AreWords
<1> QED BY <1>4, <1>5, <1>19 DEF LeftAt

\* Behind the last printing character there is none left.
LEMMA AllWords ==
    ASSUME NEW s, NEW a, NEW l, PlainFrom(s, a, l), NEW words, NEW m \in a .. l + 2, l < m,
           AreWords(words, s, m)
    PROVE  AreWords(words, s, Len(s) + 1)
<1>1. /\ Len(s) \in Nat /\ a \in 1 .. Len(s) /\ l \in a .. Len(s)
      /\ Printing(s) \subseteq a .. l
  BY DEF PlainFrom
<1>2. \A i \in Starts(s) : i < m /\ i < Len(s) + 1
  BY <1>1 DEF Starts
<1>3. {i \in Starts(s) : i < m} = {i \in Starts(s) : i < Len(s) + 1}
  BY <1>2
<1> QED BY <1>2, <1>3 DEF AreWords

-----------------------------------------------------------------------------
(* The steps of the registration.                                          *)

\* strip_string_space leaves a text, when it does not leave a null pointer.
LEMMA StripIsText ==
    ASSUME NEW s \in Seq(Char), Strip(s) # Null
    PROVE  Strip(s) \in Seq(Char)
<1>1. s = SubSeq(s, 1, Len(s)) /\ Len(s) \in 0 .. Len(s) /\ 1 \in Nat \ {0} /\ Len(s) \in Nat
  BY WholeIsPart
<1>2. CASE \A i \in 1 .. Len(s) : s[i] \in Space
  <2>1. Printing(s) = {}
    BY <1>2, WholeIsPart DEF Printing
  <2> QED BY <2>1 DEF Strip
<1>3. CASE ~ \A i \in 1 .. Len(s) : s[i] \in Space
  <2> DEFINE n == Len(s)
  <2>1. n \in 0 .. Len(s) /\ s = SubSeq(s, 1, n) /\ ~ \A i \in 1 .. n : s[i] \in Space
    BY <1>1, <1>3
  <2> HIDE DEF n
  <2>2. PICK f \in Nat, l \in Nat : StripSpan(s, 1, n, f, l)
    BY <1>1, <2>1, StripCases
  <2>3. Strip(SubSeq(s, 1, n)) = SubSeq(s, f, l)
    BY <1>1, <2>1, <2>2, StripOfPart
  <2>4. f \in Nat \ {0} /\ l \in 0 .. Len(s)
    BY <1>1, <2>1, <2>2 DEF StripSpan
  <2>5. SubSeq(s, f, l) \in Seq(Char)
    BY <2>4, PartProperties
  <2> QED BY <2>1, <2>3, <2>5
<1> QED BY <1>2, <1>3

\* The daemon's period is never nothing, and the application's own when that
\* fits a short.
LEMMA PeriodArrives ==
    ASSUME NEW period \in Nat
    PROVE  /\ Effective(Signed(Shorts, period % Shorts)) \in Nat \ {0}
           /\ period > 0 /\ 2 * period < Shorts =>
                  Effective(Signed(Shorts, period % Shorts)) = period
<1>1. Shorts \in Nat \ {0}
  BY ShortsIsNat
<1>2. period % Shorts \in Nat
  BY <1>1, Division
<1> DEFINE u == period % Shorts
<1> HIDE DEF u
<1>3. Signed(Shorts, u) \in Int
  BY <1>1, <1>2 DEF Signed, u
<1>4. Effective(Signed(Shorts, u)) \in Nat \ {0}
  BY <1>3, RegistrationConstants DEF Effective
<1>5. ASSUME period > 0, 2 * period < Shorts
      PROVE  Effective(Signed(Shorts, u)) = period
  <2>1. period < Shorts
    BY <1>1, <1>5
  <2>2. u = period
    BY <1>1, <2>1, SmallRemainder DEF u
  <2> QED BY <1>1, <1>5, <2>2 DEF Signed, Effective
<1> QED BY <1>4, <1>5 DEF u

\* The head of a datagram whose text was cut is still the same.
HeadIs(h, period, pid) ==
    /\ ShortIn(h, 2) = Signed(Shorts, period % Shorts)
    /\ IntIn(h, 4) = pid

\* recvfrom() cuts the text of a datagram, and never its head.
LEMMA CutHead ==
    ASSUME NEW name \in Seq(Char), NEW line \in Seq(Char), NEW period \in Nat,
           NEW pid \in Nat, 2 * pid < Shorts * Shorts,
           NEW sent, sent = RegisterPg(name, line, period, pid)
    PROVE  /\ HeadIs(sent.head, period, pid)
           /\ \A text : [sent EXCEPT !.text = text] = [head |-> sent.head, text |-> text]
<1>1. ShortIn(sent.head, 2) = Signed(Shorts, period % Shorts) /\ IntIn(sent.head, 4) = pid
  BY RegisterHead
<1> DEFINE h == RegisterPg(name, line, period, pid).head
           t == RegisterPg(name, line, period, pid).text
<1>2. sent = [head |-> h, text |-> t]
  BY DEF RegisterPg
<1> HIDE DEF h, t
<1>3. \A text : [sent EXCEPT !.text = text] = [head |-> sent.head, text |-> text]
  BY <1>2
<1> QED BY <1>1, <1>3 DEF HeadIs

\* What is unpacked, up to its strings.
LEMMA Unpacked ==
    ASSUME NEW h, NEW text, NEW got, got = RegisterUnpg([head |-> h, text |-> text]),
           got # Null
    PROVE  got = [period |-> ShortIn(h, 2), pid |-> IntIn(h, 4),
                  name |-> got.name, line |-> got.line]
<1>1. PICK a, b : got = [period |-> ShortIn(h, 2), pid |-> IntIn(h, 4),
                         name |-> a, line |-> b]
  BY DEF RegisterUnpg
<1>2. got.name = a /\ got.line = b
  BY <1>1
<1> QED BY <1>1, <1>2

\* The period of a datagram is some short.
LEMMA PeriodIsInt ==
    ASSUME NEW period \in Nat
    PROVE  Signed(Shorts, period % Shorts) \in Int
<1>1. Shorts \in Nat \ {0}
  BY ShortsIsNat
<1>2. period % Shorts \in Nat
  BY <1>1, Division
<1> DEFINE u == period % Shorts
<1> HIDE DEF u
<1> QED BY <1>1, <1>2 DEF Signed, u

\* cmd_argvs with one more pointer.
LEMMA Appended ==
    ASSUME NEW S, NEW s \in Seq(S), NEW x \in S
    PROVE  /\ Append(s, x) \in Seq(S)
           /\ Len(Append(s, x)) = Len(s) + 1
           /\ DOMAIN s = 1 .. Len(s) /\ DOMAIN Append(s, x) = 1 .. Len(s) + 1
           /\ \A k \in 1 .. Len(s) : Append(s, x)[k] = s[k]
           /\ Append(s, x)[Len(s) + 1] = x
           /\ Front(Append(s, x)) = s
           /\ Last(Append(s, x)) = x
<1>1. /\ Append(s, x) \in Seq(S) /\ Len(Append(s, x)) = Len(s) + 1 /\ Len(s) \in Nat
      /\ \A k \in 1 .. Len(s) : Append(s, x)[k] = s[k]
      /\ Append(s, x)[Len(s) + 1] = x
  BY AppendProperties, LenProperties
<1>2. DOMAIN s = 1 .. Len(s) /\ DOMAIN Append(s, x) = 1 .. Len(s) + 1
  BY <1>1, LenProperties
<1> DEFINE t == Append(s, x)
<1> HIDE DEF t
<1>3. Len(t) - 1 = Len(s) /\ Len(t) = Len(s) + 1
  BY <1>1 DEF t
<1>4. Front(t) = SubSeq(t, 1, Len(s)) /\ Last(t) = t[Len(s) + 1]
  BY <1>3 DEF Front, Last
<1>5. SubSeq(t, 1, Len(s)) = s
  <2>1. /\ t \in Seq(S) /\ Len(t) = Len(s) + 1 /\ \A k \in 1 .. Len(s) : t[k] = s[k]
    BY <1>1 DEF t
  <2>2. \A i \in 1 .. Len(s) : t[i] \in S
    BY <1>1, <2>1, ElementOfSeq
  <2>3. /\ SubSeq(t, 1, Len(s)) \in Seq(S)
        /\ Len(SubSeq(t, 1, Len(s))) = IF 1 <= Len(s) THEN Len(s) - 1 + 1 ELSE 0
        /\ \A i \in 1 .. Len(s) - 1 + 1 : SubSeq(t, 1, Len(s))[i] = t[1 + i - 1]
    BY <1>1, <2>1, <2>2, SubSeqProperties
  <2> DEFINE q == SubSeq(t, 1, Len(s))
  <2> HIDE DEF q
  <2>4. q \in Seq(S) /\ Len(q) = Len(s) /\ \A i \in 1 .. Len(s) : q[i] = s[i]
    BY <1>1, <2>1, <2>3 DEF q
  <2>5. q = s
    BY <2>4, SeqEqual
  <2> QED BY <2>5 DEF q
<1> QED BY <1>1, <1>2, <1>4, <1>5 DEF t

\* What add_monitored_app is given when the text was cut to MAX_UDP_PG_SIZE.
LEMMA Received ==
    ASSUME NEW name \in Seq(Char), NEW line \in Seq(Char), NEW period \in Nat,
           NEW pid \in Nat, 2 * pid < Shorts * Shorts,
           NEW sent, sent = RegisterPg(name, line, period, pid),
           NEW got, got = RegisterUnpg(Arrived(sent))
    PROVE  /\ got # Null => got = [period |-> Signed(Shorts, period % Shorts), pid |-> pid,
                                   name |-> got.name, line |-> got.line]
           /\ got # Null /\ Null \notin {got.name, got.line} =>
                  Clean(got.name) /\ Clean(got.line)
           /\ Clean(name) /\ got # Null => got.name = name
           /\ Clean(name) /\ Clean(line) /\ Len(name) + 1 + Len(line) <= MaxText =>
                  /\ got # Null
                  /\ got.name = name /\ got.line = line
<1>1. Semicolon \in Char
  BY CharFacts
<1>a. PICK u \in Seq(Char) : JoinedAs(u, name, Semicolon, line)
  BY <1>1, Joined
<1>2. /\ u \in Seq(Char)
      /\ u = name \o <<Semicolon>> \o line
      /\ Len(u) = Len(name) + 1 + Len(line)
      /\ \A i \in 1 .. Len(name) : u[i] = name[i]
      /\ u[Len(name) + 1] = Semicolon
      /\ \A i \in 1 .. Len(line) : u[Len(name) + 1 + i] = line[i]
  BY <1>a DEF JoinedAs
<1>3. sent.text = u
  BY <1>2 DEF RegisterPg
<1> DEFINE c == Min({Len(u), MaxText})
           text == SubSeq(u, 1, c)
<1>4. Len(name) \in Nat /\ Len(line) \in Nat /\ Len(u) \in Nat /\ MaxText \in Nat
  BY LenProperties, RegistrationConstants
<1>5. c \in {Len(u), MaxText} /\ \A i \in {Len(u), MaxText} : c <= i
  <2>1. {Len(u), MaxText} \subseteq Nat /\ {Len(u), MaxText} # {}
    BY <1>4
  <2> QED BY <2>1, MinProperties
<1>6. c \in 0 .. Len(u)
  BY <1>4, <1>5
<1> HIDE DEF c
<1>7. text \in Seq(Char)
  <2>1. 1 \in Nat \ {0}
    OBVIOUS
  <2> QED BY <1>6, <2>1, PartProperties
<1> HIDE DEF text
<1> DEFINE h == sent.head
<1>h. /\ HeadIs(h, period, pid)
      /\ [sent EXCEPT !.text = text] = [head |-> h, text |-> text]
  BY CutHead
<1> HIDE DEF h
<1>8. ShortIn(h, 2) = Signed(Shorts, period % Shorts) /\ IntIn(h, 4) = pid
  BY <1>h DEF HeadIs
<1>9. got = RegisterUnpg([head |-> h, text |-> text])
  <2>1. Arrived(sent) = [sent EXCEPT !.text = text]
    BY <1>3 DEF Arrived, c, text
  <2> QED BY <1>h, <2>1
<1>10. ASSUME got # Null
       PROVE  got = [period |-> Signed(Shorts, period % Shorts), pid |-> pid,
                     name |-> got.name, line |-> got.line]
  <2>1. got = [period |-> ShortIn(h, 2), pid |-> IntIn(h, 4),
               name |-> got.name, line |-> got.line]
    BY <1>9, <1>10, Unpacked
  <2> QED BY <1>8, <2>1
<1>11. ASSUME got # Null, Null \notin {got.name, got.line}
       PROVE  Clean(got.name) /\ Clean(got.line)
  BY <1>7, <1>9, <1>11, UnpackedIsClean
<1>12. ASSUME Clean(name), got # Null
       PROVE  got.name = name
  <2>1. Len(name) + 1 <= Len(u)
    BY <1>2, <1>4
  <2>2. NameFirst(u, name)
    BY <1>2, <2>1 DEF NameFirst
  <2>3. got = RegisterUnpg([head |-> h, text |-> SubSeq(u, 1, c)])
    BY <1>9 DEF text
  <2> QED BY <1>6, <1>12, <2>2, <2>3, NameArrives
<1>13. ASSUME Clean(name), Clean(line), Len(name) + 1 + Len(line) <= MaxText
       PROVE  /\ got # Null
              /\ got.name = name /\ got.line = line
  <2>1. c = Len(u)
    <3>1. Len(u) <= MaxText
      BY <1>2, <1>13
    <3> QED BY <1>4, <1>5, <3>1
  <2>2. text = u
    BY <2>1, WholeIsPart DEF text
  <2>3. got = RegisterUnpg([head |-> h, text |-> name \o <<Semicolon>> \o line])
    BY <1>2, <1>9, <2>2
  <2>4. got = [period |-> ShortIn(h, 2), pid |-> IntIn(h, 4), name |-> name, line |-> line]
    BY <1>13, <2>3, WholeArrives
  <2>5. got \in [period : Int, pid : Int, name : Seq(Char), line : Seq(Char)]
    <3>1. ShortIn(h, 2) \in Int /\ IntIn(h, 4) \in Int
      BY <1>8, PeriodIsInt
    <3> QED BY <2>4, <3>1
  <2>6. got # Null
    BY <2>5, RegistrationConstants
  <2> QED BY <2>4, <2>6
<1> QED BY <1>10, <1>11, <1>12, <1>13

\* The strings of the application, and those of them that are plain.
ConfIs(c) ==
    /\ c.name \in Seq(Char) /\ c.line \in Seq(Char)
    /\ c.period \in Nat /\ c.pid \in Nat /\ c.pid \in ProcessId
    /\ 2 * c.pid < Shorts * Shorts

\* The application has strings, a period and a process id that fits an int.
LEMMA ConfFacts ==
    ASSUME RegTypeOK
    PROVE  ConfIs(conf)
<1>1. conf \in [name : AppName, line : CmdLine, period : FeedPeriod, pid : ProcessId]
  BY DEF RegTypeOK
<1>2. conf.name \in AppName /\ conf.line \in CmdLine /\ conf.period \in FeedPeriod
      /\ conf.pid \in ProcessId
  BY <1>1
<1> QED BY <1>2, RegistrationConstants DEF ConfIs

\* Nothing was sent yet.
LEMMA InitHolds == RegInit => RegInv
<1> SUFFICES ASSUME RegInit PROVE RegInv
  OBVIOUS
<1>0. << >> \in Seq(Char) /\ << >> \in Seq(Seq(Char) \union {Null}) /\ Len(<< >>) = 0
  OBVIOUS
<1>1. RegTypeOK
  BY <1>0 DEF RegInit, RegTypeOK
<1>2. SentAsPacked /\ NodeIsClean /\ NodeAsAsked
  BY DEF RegInit, SentAsPacked, NodeIsClean, NodeAsAsked, Monitored
<1>3. PlainAccepted /\ WordsStored /\ CommandKept
  BY DEF RegInit, PlainAccepted, WordsStored, CommandKept
<1>4. ArgvFits
  BY <1>0 DEF RegInit, ArgvFits
<1> QED BY <1>1, <1>2, <1>3, <1>4 DEF RegInv

\* The application packs its strings, or strlen() is given a null pointer.
LEMMA SendHolds ==
    ASSUME RegInv, SendRegister
    PROVE  RegInv'
<1>1. /\ RegTypeOK /\ stage = "call" /\ ArgvFits
      /\ UNCHANGED <<conf, node, file, loads, execVars>>
  BY DEF RegInv, SendRegister, Fails
<1>2. ConfIs(conf)
  BY <1>1, ConfFacts
<1> DEFINE name == Strip(conf.name)
           line == Strip(conf.line)
<1> HIDE DEF name, line
<1>3. CASE Null \in {name, line}
  <2>1. stage' = "dead" /\ pg' = pg
    BY <1>3 DEF SendRegister, Fails, name, line
  <2>2. ~ PlainConf'
    <3>1. ASSUME PlainConf
          PROVE  FALSE
      <4>1. Clean(name) /\ Clean(line)
        BY <1>2, <3>1, PlainProperties DEF PlainConf, name, line, ConfIs
      <4>2. name # Null /\ line # Null
        BY <4>1, CleanProperties
      <4> QED BY <1>3, <4>2
    <3> QED BY <1>1, <3>1 DEF PlainConf
  <2>3. RegTypeOK'
    BY <1>1, <2>1 DEF RegTypeOK, execVars
  <2>4. SentAsPacked' /\ NodeIsClean' /\ NodeAsAsked'
    BY <2>1 DEF SentAsPacked, NodeIsClean, NodeAsAsked, Monitored
  <2>5. PlainAccepted' /\ WordsStored' /\ CommandKept'
    BY <2>1, <2>2 DEF PlainAccepted, WordsStored, CommandKept
  <2>6. ArgvFits'
    BY <1>1 DEF ArgvFits, execVars
  <2> QED BY <2>3, <2>4, <2>5, <2>6 DEF RegInv
<1>4. CASE Null \notin {name, line}
  <2>1. stage' = "sent" /\ pg' = RegisterPg(name, line, conf.period, conf.pid)
    BY <1>4 DEF SendRegister, name, line
  <2>a. SentAsPacked
    BY DEF RegInv
  <2>2. SentAsPacked'
    BY <1>1, <1>4, <2>1, <2>a DEF SentAsPacked, name, line
  <2>3. RegTypeOK'
    BY <1>1, <2>1 DEF RegTypeOK, execVars
  <2>4. NodeIsClean' /\ NodeAsAsked'
    BY <2>1 DEF NodeIsClean, NodeAsAsked, Monitored
  <2>5. PlainAccepted' /\ WordsStored' /\ CommandKept'
    BY <2>1 DEF PlainAccepted, WordsStored, CommandKept
  <2>6. ArgvFits'
    BY <1>1 DEF ArgvFits, execVars
  <2> QED BY <2>2, <2>3, <2>4, <2>5, <2>6 DEF RegInv
<1> QED BY <1>3, <1>4

\* What is read from the datagram is put in the list, when it has both
\* strings and neither is of spaces only.
LEMMA ReceiveHolds ==
    ASSUME RegInv, ReceiveRegister
    PROVE  RegInv'
<1> DEFINE name == Strip(conf.name)
           line == Strip(conf.line)
           got == RegisterUnpg(Arrived(pg))
           period == Signed(Shorts, conf.period % Shorts)
<1>1. /\ RegTypeOK /\ SentAsPacked /\ ArgvFits /\ stage = "sent"
      /\ UNCHANGED <<conf, pg, file, loads, execVars>>
  BY DEF RegInv, ReceiveRegister, Fails
<1>2. \/ got = Null /\ Fails("refused")
      \/ got # Null /\ Null \in {got.name, got.line} /\ Fails("dead")
      \/ /\ got # Null /\ Null \notin {got.name, got.line}
         /\ stage' = "listed"
         /\ node' = [got EXCEPT !.period = Effective(@)]
  BY DEF ReceiveRegister
<1>3. ConfIs(conf)
  BY <1>1, ConfFacts
<1>4. Null \notin {name, line} /\ pg = RegisterPg(name, line, conf.period, conf.pid)
  BY <1>1 DEF SentAsPacked
<1>5. name \in Seq(Char) /\ line \in Seq(Char)
  BY <1>3, <1>4, StripIsText DEF ConfIs
<1> HIDE DEF got
<1>6. got = RegisterUnpg(Arrived(pg))
  BY DEF got
<1>7. /\ Plain(conf.name) => Clean(name)
      /\ PlainConf => Clean(name) /\ Clean(line) /\ Len(name) + 1 + Len(line) <= MaxText
  <2>1. ASSUME Plain(conf.name)
        PROVE  Clean(name) /\ Len(name) <= Len(conf.name)
    BY <1>3, <2>1, PlainProperties DEF ConfIs
  <2>2. ASSUME Plain(conf.line)
        PROVE  Clean(line) /\ Len(line) <= Len(conf.line)
    BY <1>3, <2>2, PlainProperties DEF ConfIs
  <2>3. ASSUME PlainConf
        PROVE  Len(name) + 1 + Len(line) <= MaxText
    <3>1. /\ Len(name) <= Len(conf.name) /\ Len(line) <= Len(conf.line)
          /\ Len(conf.name) + 1 + Len(conf.line) <= MaxText
      BY <2>1, <2>2, <2>3 DEF PlainConf
    <3>2. /\ Len(name) \in Nat /\ Len(line) \in Nat
          /\ Len(conf.name) \in Nat /\ Len(conf.line) \in Nat /\ MaxText \in Nat
      BY <1>3, <1>5, LenProperties, RegistrationConstants DEF ConfIs
    <3>3. ASSUME NEW a \in Nat, NEW b \in Nat, NEW c \in Nat, NEW d \in Nat, NEW m \in Nat,
                 a <= c, b <= d, c + 1 + d <= m
          PROVE  a + 1 + b <= m
      BY <3>3
    <3> HIDE DEF name, line
    <3> QED BY <3>1, <3>2, <3>3
  <2> QED BY <2>1, <2>2, <2>3 DEF PlainConf
<1> HIDE DEF name, line
<1>8. /\ got # Null => got = [period |-> period, pid |-> conf.pid,
                              name |-> got.name, line |-> got.line]
      /\ got # Null /\ Null \notin {got.name, got.line} => Clean(got.name) /\ Clean(got.line)
      /\ Clean(name) /\ got # Null => got.name = name
      /\ Clean(name) /\ Clean(line) /\ Len(name) + 1 + Len(line) <= MaxText =>
             got # Null /\ got.name = name /\ got.line = line
  <2>1. conf.period \in Nat /\ conf.pid \in Nat /\ 2 * conf.pid < Shorts * Shorts
    BY <1>3 DEF ConfIs
  <2> QED BY <1>4, <1>5, <1>6, <2>1, Received
<1>9. PlainConf => got # Null /\ Null \notin {got.name, got.line}
  BY <1>4, <1>7, <1>8
<1>10. RegTypeOK'
  BY <1>1, <1>2 DEF RegTypeOK, Fails, execVars
<1>11. SentAsPacked' /\ WordsStored' /\ CommandKept'
  BY <1>2 DEF SentAsPacked, WordsStored, CommandKept, Fails
<1>12. ArgvFits'
  BY <1>1 DEF ArgvFits, execVars
<1>13. PlainAccepted'
  <2>1. PlainConf' => PlainConf
    BY <1>1 DEF PlainConf
  <2> QED BY <1>2, <1>9, <2>1 DEF PlainAccepted, Fails
<1>14. CASE stage' \in {"refused", "dead"}
  <2>1. NodeIsClean' /\ NodeAsAsked'
    BY <1>14 DEF NodeIsClean, NodeAsAsked, Monitored
  <2> QED BY <1>10, <1>11, <1>12, <1>13, <2>1 DEF RegInv
<1>15. CASE stage' = "listed"
  <2>1. /\ got # Null /\ Null \notin {got.name, got.line}
        /\ node' = [got EXCEPT !.period = Effective(@)]
    BY <1>2, <1>15 DEF Fails
  <2>2. PICK n, l : n = got.name /\ l = got.line
    OBVIOUS
  <2>3. got = [period |-> period, pid |-> conf.pid, name |-> n, line |-> l]
    BY <1>8, <2>1, <2>2
  <2>4. node' = [period |-> Effective(period), pid |-> conf.pid, name |-> n, line |-> l]
    BY <2>1, <2>3
  <2>5. Clean(n) /\ Clean(l) /\ n \in Seq(Char) /\ l \in Seq(Char)
    <3>1. Clean(n) /\ Clean(l)
      BY <1>8, <2>1, <2>2
    <3> QED BY <3>1, CleanProperties
  <2>6. /\ Effective(period) \in Nat \ {0}
        /\ conf.period > 0 /\ 2 * conf.period < Shorts => Effective(period) = conf.period
    BY <1>3, PeriodArrives DEF ConfIs
  <2> HIDE DEF period
  <2>7. /\ node'.name = n /\ node'.line = l /\ node'.pid = conf.pid /\ conf' = conf
        /\ node'.period = Effective(period)
        /\ node' \in [name : Seq(Char), line : Seq(Char), period : Nat \ {0},
                      pid : {0, conf.pid}]
    <3>1. conf' = conf
      BY <1>1
    <3> QED BY <1>3, <2>4, <2>5, <2>6, <3>1 DEF ConfIs
  <2>8. NodeIsClean'
    <3>1. Clean(node.name)' /\ Clean(node.line)'
      BY <2>5, <2>7
    <3>2. loads' = 0 /\ conf' = conf
      BY <1>1 DEF SentAsPacked
    <3>3. ~ (loads' > 0)
      BY <3>2
    <3> QED BY <1>15, <2>6, <2>7, <3>1, <3>2, <3>3 DEF NodeIsClean
  <2>9. NodeAsAsked'
    <3>1. conf' = conf
      BY <1>1
    <3>2. Plain(conf.name)' => node'.name = Strip(conf.name)'
      BY <1>7, <1>8, <2>1, <2>2, <2>7, <3>1 DEF name
    <3>3. PlainConf' => PlainConf
      BY <3>1 DEF PlainConf
    <3>4. PlainConf' => node'.line = Strip(conf.line)'
      BY <1>7, <1>8, <2>2, <2>7, <3>1, <3>3 DEF line
    <3> QED BY <3>2, <3>4 DEF NodeAsAsked
  <2> QED BY <1>10, <1>11, <1>12, <1>13, <2>8, <2>9 DEF RegInv
<1> QED BY <1>2, <1>14, <1>15 DEF Fails

\* The node is written as one line of configure.cfg.
LEMMA SaveHolds ==
    ASSUME RegInv, SaveNode
    PROVE  RegInv'
<1>1. /\ stage = "listed" /\ stage' = "saved" /\ file' = SavedLine(node)
      /\ UNCHANGED <<conf, pg, node, loads, execVars>>
  BY DEF SaveNode
<1>2. RegTypeOK' /\ SentAsPacked'
  BY <1>1 DEF RegInv, RegTypeOK, SentAsPacked, execVars
<1>3. PlainAccepted' /\ WordsStored' /\ CommandKept'
  BY <1>1 DEF PlainAccepted, WordsStored, CommandKept
<1>4. ArgvFits'
  BY <1>1 DEF RegInv, ArgvFits, execVars
<1>5. NodeIsClean'
  <2>1. NodeIsClean /\ Monitored
    BY <1>1 DEF RegInv, Monitored
  <2>2. file' = SavedLine(node)'
    BY <1>1 DEF SavedLine
  <2>3. Clean(node.name)' /\ Clean(node.line)'
    BY <1>1, <2>1 DEF NodeIsClean
  <2>4. loads' > 0 => OneLine(node.name)' /\ OneLine(node.line)'
    BY <1>1, <2>1 DEF NodeIsClean
  <2> QED BY <1>1, <2>1, <2>2, <2>3, <2>4 DEF NodeIsClean
<1>6. NodeAsAsked'
  BY <1>1 DEF RegInv, NodeAsAsked, Monitored, PlainConf
<1> QED BY <1>2, <1>3, <1>4, <1>5, <1>6 DEF RegInv

-----------------------------------------------------------------------------
(* The node that the next daemon reads.                                    *)

\* The first line with a node is the one that was saved.
LEMMA FirstIsSaved ==
    ASSUME NEW n, NEW T, NEW e \in Breaks(T), LoadedAs(n, T, e),
           NEW nodes, nodes = {end \in Breaks(T) : NodeAt(T, end) # << >>}
    PROVE  e \in nodes /\ Min(nodes) = e
<1>1. /\ \A i \in Breaks(T) : i \in Nat /\ e <= i
      /\ NodeAt(T, e) # << >>
  BY DEF LoadedAs
<1>2. e \in nodes /\ nodes \subseteq Nat /\ e \in Nat /\ \A i \in nodes : e <= i
  BY <1>1
<1> QED BY <1>2, MinIs

\* The node that get_wd_configure puts in the list: the saved one with
\* the command as far as the line goes, and unchanged when neither string
\* divides a line.
LEMMA LoadIs ==
    ASSUME RegInv, stage = "saved",
           NEW nodes, nodes = {end \in Breaks(file) : NodeAt(file, end) # << >>},
           NEW first, first = NodeAt(file, Min(nodes))
    PROVE  /\ nodes # {}
           /\ (\A end \in nodes : NodeAt(file, end) # Null) =>
                 \E line : /\ Clean(line) /\ OneLine(line) /\ OneLine(node.name)
                           /\ first = [name |-> node.name, line |-> line]
           /\ OneLine(node.name) /\ OneLine(node.line) =>
                 /\ \A end \in nodes : NodeAt(file, end) # Null
                 /\ first = [name |-> node.name, line |-> node.line]
<1>1. Clean(node.name) /\ Clean(node.line) /\ file = SavedLine(node)
  BY DEF RegInv, NodeIsClean, Monitored
<1>2. PICK e \in Breaks(file) : LoadedAs(node, file, e)
  BY <1>1, Loaded
<1>3. e \in nodes /\ first = NodeAt(file, e)
  BY <1>2, FirstIsSaved
<1>4. ASSUME \A end \in nodes : NodeAt(file, end) # Null
      PROVE  \E line : /\ Clean(line) /\ OneLine(line) /\ OneLine(node.name)
                       /\ first = [name |-> node.name, line |-> line]
  BY <1>2, <1>3, <1>4 DEF LoadedAs
<1>5. ASSUME OneLine(node.name), OneLine(node.line)
      PROVE  /\ \A end \in nodes : NodeAt(file, end) # Null
             /\ first = [name |-> node.name, line |-> node.line]
  <2>1. Breaks(file) = {e} /\ NodeAt(file, e) = [name |-> node.name, line |-> node.line]
    BY <1>2, <1>5 DEF LoadedAs
  <2>2. node.name \in Seq(Char) /\ node.line \in Seq(Char)
    BY <1>1, CleanProperties
  <2>3. NodeAt(file, e) \in [name : Seq(Char), line : Seq(Char)]
    BY <2>1, <2>2
  <2>4. NodeAt(file, e) # Null
    BY <2>3, RegistrationConstants
  <2>5. \A end \in nodes : end = e
    BY <2>1
  <2> QED BY <1>3, <2>1, <2>4, <2>5
<1> QED BY <1>3, <1>4, <1>5

\* The next daemon reads the node, or does not start.
LEMMA LoadHolds ==
    ASSUME RegInv, LoadNode
    PROVE  RegInv'
<1> DEFINE nodes == {end \in Breaks(file) : NodeAt(file, end) # << >>}
           first == NodeAt(file, Min(nodes))
<1>1. /\ stage = "saved" /\ conf' = conf /\ UNCHANGED execVars
      /\ RegTypeOK /\ NodeIsClean /\ NodeAsAsked /\ Monitored
  BY DEF LoadNode, Fails, RegInv, Monitored
<1>2. \/ (\E end \in nodes : NodeAt(file, end) = Null) /\ Fails("unreadable")
      \/ nodes = {} /\ Fails("forgotten")
      \/ /\ \A end \in nodes : NodeAt(file, end) # Null
         /\ stage' = "listed"
         /\ loads' = loads + 1
         /\ \E pid \in Found(first.name) :
                node' = [period |-> DefaultPeriod, pid |-> pid,
                         name |-> first.name, line |-> first.line]
  BY DEF LoadNode
<1> HIDE DEF nodes, first
<1>3. /\ nodes # {}
      /\ (\A end \in nodes : NodeAt(file, end) # Null) =>
            \E line : /\ Clean(line) /\ OneLine(line) /\ OneLine(node.name)
                      /\ first = [name |-> node.name, line |-> line]
      /\ OneLine(node.name) /\ OneLine(node.line) =>
            /\ \A end \in nodes : NodeAt(file, end) # Null
            /\ first = [name |-> node.name, line |-> node.line]
  BY <1>1, LoadIs DEF nodes, first
<1>4. PlainConf => OneLine(node.name) /\ OneLine(node.line)
  <2>1. ConfIs(conf)
    BY <1>1, ConfFacts
  <2>2. ASSUME PlainConf
        PROVE  OneLine(node.name) /\ OneLine(node.line)
    <3>1. node.name = Strip(conf.name) /\ node.line = Strip(conf.line)
      BY <1>1, <2>2 DEF NodeAsAsked, PlainConf
    <3>2. Plain(conf.name) /\ Plain(conf.line)
      BY <2>2 DEF PlainConf
    <3> QED BY <2>1, <3>1, <3>2, PlainProperties DEF ConfIs
  <2> QED BY <2>2
<1>5. PlainConf' => PlainConf
  BY <1>1 DEF PlainConf
<1>6. PlainAccepted'
  BY <1>2, <1>3, <1>4, <1>5 DEF PlainAccepted, Fails
<1>7. RegTypeOK'
  BY <1>1, <1>2 DEF RegTypeOK, Fails, execVars
<1>8. SentAsPacked' /\ WordsStored' /\ CommandKept'
  BY <1>2 DEF SentAsPacked, WordsStored, CommandKept, Fails
<1>9. ArgvFits'
  BY <1>1 DEF RegInv, ArgvFits, execVars
<1>10. CASE stage' \in {"unreadable", "forgotten"}
  <2>1. NodeIsClean' /\ NodeAsAsked'
    BY <1>10 DEF NodeIsClean, NodeAsAsked, Monitored
  <2> QED BY <1>6, <1>7, <1>8, <1>9, <2>1 DEF RegInv
<1>11. CASE stage' = "listed"
  <2>1. /\ \A end \in nodes : NodeAt(file, end) # Null
        /\ loads' = loads + 1
        /\ \E pid \in {0, conf.pid} :
                node' = [period |-> DefaultPeriod, pid |-> pid,
                         name |-> first.name, line |-> first.line]
    BY <1>2, <1>11 DEF Fails, Found
  <2>2. PICK line : /\ Clean(line) /\ OneLine(line) /\ OneLine(node.name)
                    /\ first = [name |-> node.name, line |-> line]
    BY <1>3, <2>1
  <2>3. /\ node \in [name : Seq(Char), line : Seq(Char),
                     period : Nat \ {0}, pid : {0, conf.pid}]
        /\ Clean(node.name)
    BY <1>1 DEF NodeIsClean
  <2>4. line \in Seq(Char) /\ DefaultPeriod \in Nat \ {0} /\ loads \in Nat
    BY <1>1, <2>2, CleanProperties, RegistrationConstants DEF RegTypeOK
  <2>5. PICK pid \in {0, conf.pid} :
            node' = [period |-> DefaultPeriod, pid |-> pid,
                     name |-> node.name, line |-> line]
    BY <2>1, <2>2
  <2>6. /\ node'.name = node.name /\ node'.line = line
        /\ node'.period = DefaultPeriod
        /\ node' \in [name : Seq(Char), line : Seq(Char),
                      period : Nat \ {0}, pid : {0, conf'.pid}]
    BY <1>1, <2>3, <2>4, <2>5
  <2>7. NodeIsClean'
    <3>1. Clean(node.name)' /\ Clean(node.line)'
      BY <2>2, <2>3, <2>6
    <3>2. OneLine(node.name)' /\ OneLine(node.line)'
      BY <2>2, <2>6
    <3>3. loads' # 0
      BY <2>1, <2>4
    <3> QED BY <1>11, <2>6, <3>1, <3>2, <3>3 DEF NodeIsClean
  <2>8. NodeAsAsked'
    <3>1. Plain(conf.name)' => node'.name = Strip(conf.name)'
      BY <1>1, <2>6 DEF NodeAsAsked
    <3>2. ASSUME PlainConf
          PROVE  node'.line = Strip(conf.line)
      <4>1. first = [name |-> node.name, line |-> node.line]
        BY <1>3, <1>4, <3>2
      <4>2. line = node.line
        BY <2>2, <4>1
      <4> QED BY <1>1, <2>6, <3>2, <4>2 DEF NodeAsAsked
    <3>3. PlainConf' => node'.line = Strip(conf.line)'
      BY <1>1, <1>5, <3>2
    <3> QED BY <3>1, <3>3 DEF NodeAsAsked
  <2> QED BY <1>6, <1>7, <1>8, <1>9, <2>7, <2>8 DEF RegInv
<1> QED BY <1>2, <1>10, <1>11 DEF Fails

\* strtok_r returns a text or a null pointer, and leaves a text.
LEMMA TokenIsText ==
    ASSUME NEW s \in Seq(Char), NEW d \in Char
    PROVE  /\ Token(s, d).word \in Seq(Char) \union {Null}
           /\ Token(s, d).rest \in Seq(Char)
<1>1. s = SubSeq(s, 1, Len(s)) /\ Len(s) \in 0 .. Len(s) /\ 1 \in Nat \ {0} /\ Len(s) \in Nat
  BY WholeIsPart
<1> DEFINE n == Len(s)
<1>2. s = SubSeq(s, 1, n) /\ n \in 0 .. Len(s)
  BY <1>1
<1> HIDE DEF n
<1>3. CASE \A i \in 1 .. n : s[i] = d
  <2>1. Token(SubSeq(s, 1, n), d).word = Null /\ Token(SubSeq(s, 1, n), d).rest = << >>
    BY <1>1, <1>2, <1>3, TokenOfNothing
  <2>2. << >> \in Seq(Char)
    OBVIOUS
  <2> QED BY <1>2, <2>1, <2>2
<1>4. CASE \E f, g \in Nat : TokenSpan(s, 1, n, d, f, g)
  <2>1. PICK f \in Nat, g \in Nat : TokenSpan(s, 1, n, d, f, g)
    BY <1>4
  <2>2. PICK r \in Nat : r = g + 2
    BY <2>1
  <2>3. /\ Token(SubSeq(s, 1, n), d).word = SubSeq(s, f, g)
        /\ Token(SubSeq(s, 1, n), d).rest = SubSeq(s, r, n)
    BY <1>1, <1>2, <2>1, <2>2, TokenOfPart
  <2>4. f \in Nat \ {0} /\ g \in 0 .. Len(s) /\ r \in Nat \ {0}
    BY <1>1, <1>2, <2>1, <2>2 DEF TokenSpan
  <2>5. SubSeq(s, f, g) \in Seq(Char) /\ SubSeq(s, r, n) \in Seq(Char)
    BY <1>2, <2>4, PartProperties
  <2> QED BY <1>2, <2>3, <2>5
<1>5. (\A i \in 1 .. n : s[i] = d) \/ (\E f, g \in Nat : TokenSpan(s, 1, n, d, f, g))
  BY <1>1, <1>2, TokenCases
<1> QED BY <1>3, <1>4, <1>5

\* start_app_with_cmd_line begins with the whole command and no word.
LEMMA BeginHolds ==
    ASSUME RegInv, BeginStart
    PROVE  RegInv'
<1>1. /\ stage = "listed" /\ stage' = "argv" /\ rest' = node.line /\ argv' = << >>
      /\ room' = Unit /\ UNCHANGED <<conf, pg, node, file, loads>>
      /\ RegTypeOK /\ NodeIsClean /\ NodeAsAsked /\ Monitored
  BY DEF BeginStart, RegInv, Monitored
<1>2. node.line \in Seq(Char) /\ Unit \in Nat \ {0}
  BY <1>1, RegistrationConstants DEF NodeIsClean
<1>3. << >> \in Seq(Seq(Char) \union {Null}) /\ Len(<< >>) = 0
  OBVIOUS
<1>4. RegTypeOK'
  BY <1>1, <1>2, <1>3 DEF RegTypeOK
<1>5. SentAsPacked' /\ PlainAccepted' /\ CommandKept'
  BY <1>1 DEF SentAsPacked, PlainAccepted, CommandKept
<1>6. NodeIsClean'
  <2>1. Clean(node.name)' /\ Clean(node.line)'
    BY <1>1 DEF NodeIsClean
  <2>2. loads' > 0 => OneLine(node.name)' /\ OneLine(node.line)'
    BY <1>1 DEF NodeIsClean
  <2> QED BY <1>1, <2>1, <2>2 DEF NodeIsClean
<1>7. NodeAsAsked'
  BY <1>1 DEF NodeAsAsked, PlainConf
<1>8. ArgvFits'
  BY <1>1, <1>2, <1>3 DEF ArgvFits
<1>9. WordsStored'
  <2> DEFINE s == conf.line
             f == Min(Printing(s))
             l == Max(Printing(s))
  <2>1. ASSUME PlainConf
        PROVE  \E m \in f .. l + 2 :
                  /\ ~ {m - 1, m} \subseteq Printing(s)
                  /\ rest' = SubSeq(s, m, l)
                  /\ AreWords(argv', s, m)
    <3>1. s \in Seq(Char) /\ Plain(s)
      BY <1>1, <2>1, ConfFacts DEF ConfIs, PlainConf
    <3>2. PlainFrom(s, f, l)
      BY <3>1, PlainIsFrom
    <3>3. rest' = SubSeq(s, f, l)
      BY <1>1, <2>1, <3>1, PlainProperties DEF NodeAsAsked
    <3> HIDE DEF s, f, l
    <3>4. f \in f .. l + 2
      BY <3>2 DEF PlainFrom
    <3>5. AreWords(argv', s, f) /\ f - 1 \notin Printing(s)
      BY <1>1, <3>2, NoWordsYet
    <3> QED BY <3>3, <3>4, <3>5
  <2>2. conf' = conf
    BY <1>1
  <2> QED BY <2>1, <2>2 DEF WordsStored, PlainConf
<1> QED BY <1>4, <1>5, <1>6, <1>7, <1>8, <1>9 DEF RegInv

\* One round stores the next word, or a null pointer behind all of them.
LEMMA OneRound ==
    ASSUME NEW s, NEW f, NEW l, PlainFrom(s, f, l),
           NEW words \in Seq(Seq(Char) \union {Null}), NEW text, NEW m,
           LeftAt(s, f, l, words, text, m),
           NEW token, token = Token(text, Blank),
           NEW more, more = Append(words, token.word)
    PROVE  \/ /\ token.word = Null
              /\ AreWords(Front(more), s, Len(s) + 1)
              /\ Last(more) = Null
           \/ /\ token.word # Null
              /\ \E k : LeftAt(s, f, l, more, token.rest, k)
<1>1. /\ s \in Seq(Char) /\ Len(s) \in Nat /\ f \in 1 .. Len(s) /\ l \in f .. Len(s)
      /\ s[l] # Blank
  BY DEF PlainFrom
<1>2. /\ m \in f .. l + 2 /\ ~ {m - 1, m} \subseteq Printing(s)
      /\ text = SubSeq(s, m, l) /\ AreWords(words, s, m)
  BY DEF LeftAt
<1>3. m \in Nat \ {0} /\ l \in 0 .. Len(s) /\ l \in Nat /\ Blank \in Char
  BY <1>1, <1>2, CharFacts
<1>4. token = Token(SubSeq(s, m, l), Blank)
  BY <1>2
<1>5. CASE \A i \in m .. l : s[i] = Blank
  <2>1. token.word = Null
    BY <1>1, <1>3, <1>4, <1>5, TokenOfNothing
  <2>2. l < m
    BY <1>1, <1>3, <1>5
  <2>3. AreWords(words, s, Len(s) + 1)
    BY <1>2, <2>2, AllWords
  <2>4. Null \in Seq(Char) \union {Null}
    OBVIOUS
  <2>5. more = Append(words, Null)
    BY <2>1
  <2>6. Front(more) = words /\ Last(more) = Null
    BY <2>4, <2>5, Appended
  <2> QED BY <2>1, <2>3, <2>6
<1>6. CASE \E g, h \in Nat : TokenSpan(s, m, l, Blank, g, h)
  <2>1. PICK g \in Nat, h \in Nat : TokenSpan(s, m, l, Blank, g, h)
    BY <1>6
  <2>2. PICK k \in Nat : k = h + 2
    BY <2>1
  <2>a. s \in Seq(Char) /\ m \in Nat \ {0} /\ l \in 0 .. Len(s) /\ Blank \in Char
    BY <1>1, <1>3
  <2>3. token.word = SubSeq(s, g, h) /\ token.rest = SubSeq(s, k, l)
    <3>1. /\ Token(SubSeq(s, m, l), Blank).word = SubSeq(s, g, h)
          /\ Token(SubSeq(s, m, l), Blank).rest = SubSeq(s, k, l)
      BY <2>a, <2>1, <2>2, TokenOfPart
    <3> QED BY <1>4, <3>1
  <2>4. g \in Nat \ {0} /\ h \in 0 .. Len(s)
    BY <1>1, <1>3, <2>1 DEF TokenSpan
  <2> DEFINE word == SubSeq(s, g, h)
  <2>5. word \in Seq(Char)
    BY <1>1, <2>4, PartProperties
  <2>6. word # Null /\ word \in Seq(Char) \union {Null}
    BY <2>5, CharFacts
  <2> HIDE DEF word
  <2>7. more = Append(words, word)
    BY <2>3 DEF word
  <2> DEFINE n == Len(words)
  <2>8. /\ n \in Nat /\ DOMAIN words = 1 .. n /\ DOMAIN more = 1 .. n + 1
        /\ \A i \in 1 .. n : more[i] = words[i]
        /\ more[n + 1] = word
    BY <2>6, <2>7, Appended, LenProperties
  <2> HIDE DEF n
  <2>9. OneMore(more, words, SubSeq(s, g, h))
    BY <2>8 DEF OneMore, word
  <2>10. LeftAt(s, f, l, more, SubSeq(s, k, l), k)
    BY <2>1, <2>2, <2>9, OneMoreWord
  <2> QED BY <2>3, <2>6, <2>10 DEF word
<1>7. (\A i \in m .. l : s[i] = Blank) \/ (\E g, h \in Nat : TokenSpan(s, m, l, Blank, g, h))
  BY <1>1, <1>3, TokenCases
<1> QED BY <1>5, <1>6, <1>7

\* One round of its loop stores a word inside the array.
LEMMA NextHolds ==
    ASSUME RegInv, NextWord
    PROVE  RegInv'
<1> DEFINE token == Token(rest, Blank)
<1>1. /\ stage = "argv" /\ room' = RoomFor(Len(argv)) /\ argv' = Append(argv, token.word)
      /\ rest' = token.rest /\ stage' = IF token.word = Null THEN "run" ELSE "argv"
      /\ UNCHANGED <<conf, pg, node, file, loads>>
      /\ RegTypeOK /\ NodeIsClean /\ NodeAsAsked /\ Monitored /\ ArgvFits /\ WordsStored
  BY DEF NextWord, RegInv, Monitored
<1>2. /\ token.word \in Seq(Char) \union {Null} /\ token.rest \in Seq(Char)
  <2>1. rest \in Seq(Char) /\ Blank \in Char
    BY <1>1, CharFacts DEF RegTypeOK
  <2> QED BY <2>1, TokenIsText
<1> HIDE DEF token
<1>3. /\ argv \in Seq(Seq(Char) \union {Null}) /\ room \in Nat /\ Unit \in Nat \ {0}
  BY <1>1, RegistrationConstants DEF RegTypeOK
<1>4. argv' \in Seq(Seq(Char) \union {Null}) /\ Len(argv') = Len(argv) + 1 /\ Len(argv) \in Nat
  BY <1>1, <1>2, <1>3, Appended, LenProperties
<1>5. room' \in Nat /\ Len(argv') <= room'
  BY <1>1, <1>3, <1>4 DEF RoomFor, ArgvFits
<1>6. RegTypeOK'
  BY <1>1, <1>2, <1>4, <1>5 DEF RegTypeOK
<1>7. SentAsPacked' /\ PlainAccepted'
  BY <1>1 DEF SentAsPacked, PlainAccepted
<1>8. NodeIsClean'
  <2>1. Clean(node.name)' /\ Clean(node.line)'
    BY <1>1 DEF NodeIsClean
  <2>2. loads' > 0 => OneLine(node.name)' /\ OneLine(node.line)'
    BY <1>1 DEF NodeIsClean
  <2> QED BY <1>1, <2>1, <2>2 DEF NodeIsClean
<1>9. NodeAsAsked'
  BY <1>1 DEF NodeAsAsked, PlainConf
<1>10. ArgvFits'
  BY <1>5 DEF ArgvFits
<1>11. WordsStored' /\ CommandKept'
  <2> DEFINE s == conf.line
             f == Min(Printing(s))
             l == Max(Printing(s))
  <2>1. s' = s /\ f' = f /\ l' = l /\ PlainConf' = PlainConf
    BY <1>1 DEF PlainConf
  <2>2. CASE PlainConf
    <3>1. s \in Seq(Char) /\ Plain(s)
      BY <1>1, <2>2, ConfFacts DEF ConfIs, PlainConf
    <3>2. PlainFrom(s, f, l)
      BY <3>1, PlainIsFrom
    <3>3. PICK m : LeftAt(s, f, l, argv, rest, m)
      BY <1>1, <2>2 DEF WordsStored, LeftAt
    <3> HIDE DEF s, f, l
    <3>4. \/ /\ token.word = Null
             /\ AreWords(Front(argv'), s, Len(s) + 1)
             /\ Last(argv') = Null
          \/ /\ token.word # Null
             /\ \E k : LeftAt(s, f, l, argv', token.rest, k)
      BY <1>1, <1>3, <3>2, <3>3, OneRound DEF token
    <3>5. CASE token.word = Null
      <4>1. stage' = "run" /\ AreWords(Front(argv'), s, Len(s) + 1) /\ Last(argv') = Null
        BY <1>1, <3>4, <3>5
      <4>2. CommandKept'
        BY <2>1, <4>1 DEF CommandKept, s
      <4> QED BY <4>1, <4>2 DEF WordsStored
    <3>6. CASE token.word # Null
      <4>1. PICK k : LeftAt(s, f, l, argv', rest', k)
        BY <1>1, <3>4, <3>6
      <4>2. stage' = "argv"
        BY <1>1, <3>6
      <4>3. WordsStored'
        BY <2>1, <4>1 DEF WordsStored, LeftAt, s, f, l
      <4> QED BY <4>2, <4>3 DEF CommandKept
    <3> QED BY <3>5, <3>6
  <2>3. CASE ~ PlainConf
    BY <2>1, <2>3 DEF WordsStored, CommandKept
  <2> QED BY <2>2, <2>3
<1> QED BY <1>6, <1>7, <1>8, <1>9, <1>10, <1>11 DEF RegInv

\* Nothing is changed.
LEMMA StutterHolds ==
    ASSUME RegInv, UNCHANGED regVars
    PROVE  RegInv'
<1>1. /\ stage' = stage /\ conf' = conf /\ pg' = pg /\ node' = node /\ file' = file
      /\ loads' = loads /\ rest' = rest /\ argv' = argv /\ room' = room
  BY DEF regVars
<1>2. RegTypeOK' /\ SentAsPacked' /\ PlainAccepted' /\ ArgvFits'
  BY <1>1 DEF RegInv, RegTypeOK, SentAsPacked, PlainAccepted, ArgvFits, PlainConf
<1>3. NodeIsClean' /\ NodeAsAsked'
  <2>1. Monitored' = Monitored /\ PlainConf' = PlainConf
    BY <1>1 DEF Monitored, PlainConf
  <2>2. Clean(node.name)' = Clean(node.name) /\ Clean(node.line)' = Clean(node.line)
    BY <1>1
  <2>3. OneLine(node.name)' = OneLine(node.name) /\ OneLine(node.line)' = OneLine(node.line)
    BY <1>1
  <2>4. SavedLine(node)' = SavedLine(node)
    BY <1>1
  <2> QED BY <1>1, <2>1, <2>2, <2>3, <2>4 DEF RegInv, NodeIsClean, NodeAsAsked
<1>4. WordsStored' /\ CommandKept'
  <2>1. PlainConf' = PlainConf
    BY <1>1 DEF PlainConf
  <2> QED BY <1>1, <2>1 DEF RegInv, WordsStored, CommandKept
<1> QED BY <1>2, <1>3, <1>4 DEF RegInv

\* What holds in every state of a registration, from the call of
\* create_feed_thread to execvp(): the datagram is as packed, the node is
\* clean, has the process id and the period that arrived, and after a load
\* can be saved again; plain strings are in it as they were stripped, and the
\* words that were stored are those of the command.
THEOREM RegInvariant == RegSpec => []RegInv
<1>1. RegInit => RegInv
  BY InitHolds
<1>2. RegInv /\ [RegNext]_regVars => RegInv'
  <2> SUFFICES ASSUME RegInv, [RegNext]_regVars
               PROVE  RegInv'
    OBVIOUS
  <2>1. CASE SendRegister
    BY <2>1, SendHolds
  <2>2. CASE ReceiveRegister
    BY <2>2, ReceiveHolds
  <2>3. CASE SaveNode
    BY <2>3, SaveHolds
  <2>4. CASE LoadNode
    BY <2>4, LoadHolds
  <2>5. CASE BeginStart
    BY <2>5, BeginHolds
  <2>6. CASE NextWord
    BY <2>6, NextHolds
  <2>7. CASE Settled \/ UNCHANGED regVars
    BY <2>7, StutterHolds DEF Settled
  <2> QED BY <2>1, <2>2, <2>3, <2>4, <2>5, <2>6, <2>7 DEF RegNext
<1> QED BY <1>1, <1>2, PTL DEF RegSpec

\* The words given to execvp() are those of the cmd_line of a plain
\* application, each once and in order, and a null pointer ends them, however
\* often the daemon was started again in between.
THEOREM CommandIsKept == RegSpec => []CommandKept
<1>1. RegInv => CommandKept
  BY DEF RegInv
<1> QED BY <1>1, RegInvariant, PTL

\* A plain application is never refused by wd_pg_register_unpg and never the
\* end of the daemon that reads its datagram or its line of configure.cfg.
THEOREM PlainIsAccepted == RegSpec => []PlainAccepted
<1>1. RegInv => PlainAccepted
  BY DEF RegInv
<1> QED BY <1>1, RegInvariant, PTL

\* The name by which the next daemon looks for the process is the stripped
\* app_name, when that is plain.
THEOREM NameIsKept == RegSpec => []NameKept
<1>1. RegInv => NameKept
  BY DEF RegInv, NodeAsAsked, Monitored, NameKept
<1> QED BY <1>1, RegInvariant, PTL

\* The period in the list is positive, and the feed_period that was asked for
\* until a load when that fits a short.
THEOREM PeriodIsKept == RegSpec => []PeriodKept
<1>1. RegInv => PeriodKept
  <2> SUFFICES ASSUME RegInv, stage = "listed"
               PROVE  /\ node.period > 0
                      /\ loads = 0 /\ conf.period > 0 /\ 2 * conf.period < Shorts =>
                              node.period = conf.period
    BY DEF PeriodKept
  <2>1. /\ node \in [name : Seq(Char), line : Seq(Char), period : Nat \ {0}, pid : {0, conf.pid}]
        /\ loads = 0 /\ conf.period > 0 /\ 2 * conf.period < Shorts =>
                node.period = conf.period
    BY DEF RegInv, NodeIsClean, Monitored
  <2>2. node.period \in Nat \ {0}
    BY <2>1
  <2>3. node.period > 0
    BY <2>2
  <2> QED BY <2>1, <2>3
<1> QED BY <1>1, RegInvariant, PTL

\* A FEED of the registered process is answered without error, unless a new
\* daemon did not find it by its name, and one of any other process with 200:
\* the ids pass through the octets unchanged.
THEOREM FeedsAreRecognised == RegSpec => []FeedsRecognised
<1>1. RegInv => FeedsRecognised
  <2> SUFFICES ASSUME RegInv, stage = "listed", NEW p \in ProcessId
               PROVE  /\ Answered(p).cmd = Commands.feed
                      /\ Answered(p).error = 0 <=> p = conf.pid /\ node.pid # 0
    BY DEF FeedsRecognised, RegInv, NodeIsClean, Monitored
  <2>1. node.pid \in {0, conf.pid}
    BY DEF RegInv, NodeIsClean, Monitored
  <2>2. p \in Nat /\ p # 0 /\ 2 * p < Shorts * Shorts
    BY RegistrationConstants
  <2>3. /\ Commands.feed \in Nat /\ 2 * Commands.feed < Shorts
        /\ 200 \in Nat /\ 0 \in Nat /\ 200 < Shorts /\ 0 < Shorts
    BY ShortsIsNat DEF Commands
  <2> DEFINE fed == ActionUnpg(ActionPg(Commands.feed, p))
             error == IF node.pid = fed.pid THEN 0 ELSE 200
  <2>4. fed = [cmd |-> Commands.feed, pid |-> p]
    BY <2>2, <2>3, ActionRoundTrip
  <2>5. fed.cmd = Commands.feed /\ fed.pid = p
    BY <2>4
  <2>6. Answered(p) = ReturnUnpg(ReturnPg(fed.cmd, error))
    BY DEF Answered
  <2> HIDE DEF fed
  <2>7. /\ error \in Nat /\ error < Shorts
        /\ error = 0 <=> p = conf.pid /\ node.pid # 0
    BY <2>1, <2>2, <2>3, <2>5
  <2> HIDE DEF error
  <2>8. /\ ReturnUnpg(ReturnPg(Commands.feed, error)).cmd = Commands.feed
        /\ ReturnUnpg(ReturnPg(Commands.feed, error)).error = 0 <=> error = 0
    BY <2>3, <2>7, ReturnRoundTrip
  <2> QED BY <2>5, <2>6, <2>7, <2>8
<1> QED BY <1>1, RegInvariant, PTL

\* Neither a word nor the null pointer behind them is written outside the
\* array that was allocated last.
THEOREM ArgvAlwaysFits == RegSpec => []ArgvFits
<1>1. RegInv => ArgvFits
  BY DEF RegInv
<1> QED BY <1>1, RegInvariant, PTL

\* What was read once from configure.cfg is written and read again without a
\* change, but for the process id that each daemon looks up itself.
THEOREM ReloadIsStable == RegSpec => ReloadStable
<1>1. RegInv /\ [RegNext]_regVars =>
          [stage = "saved" /\ loads > 0 =>
                stage' = "listed" /\ node' = [node EXCEPT !.pid = node'.pid]]_regVars
  <2> SUFFICES ASSUME RegInv, RegNext, stage = "saved", loads > 0
               PROVE  stage' = "listed" /\ node' = [node EXCEPT !.pid = node'.pid]
    OBVIOUS
  <2> DEFINE nodes == {end \in Breaks(file) : NodeAt(file, end) # << >>}
             first == NodeAt(file, Min(nodes))
  <2>1. LoadNode
    BY DEF RegNext, SendRegister, ReceiveRegister, SaveNode, BeginStart, NextWord, Settled
  <2>2. /\ node \in [name : Seq(Char), line : Seq(Char), period : Nat \ {0}, pid : {0, conf.pid}]
        /\ OneLine(node.name) /\ OneLine(node.line) /\ node.period = DefaultPeriod
    BY DEF RegInv, NodeIsClean, Monitored
  <2>3. /\ nodes # {}
        /\ \A end \in nodes : NodeAt(file, end) # Null
        /\ first = [name |-> node.name, line |-> node.line]
    BY <2>2, LoadIs
  <2>4. /\ stage' = "listed"
        /\ \E pid : node' = [period |-> DefaultPeriod, pid |-> pid,
                              name |-> first.name, line |-> first.line]
    BY <2>1, <2>3 DEF LoadNode
  <2> HIDE DEF nodes, first
  <2>5. first.name = node.name /\ first.line = node.line
    BY <2>3
  <2> QED BY <2>2, <2>4, <2>5
<1> QED BY <1>1, RegInvariant, PTL DEF RegSpec, ReloadStable

=============================================================================
