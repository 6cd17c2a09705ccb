------------------------ MODULE EdgeConditionsProofs ------------------------
(***************************************************************************)
(* A condition is evaluated as it is meant, whatever its length and however *)
(* deep its parentheses are (EvaluatedAsMeant).                            *)
(***************************************************************************)
EXTENDS EdgeConditions, FiniteSetTheorems, SequenceTheorems, WellFoundedInduction, TLAPS

\* A non-empty set of natural numbers has a least one.
LEMMA LeastNat ==
    ASSUME NEW S, S \subseteq Nat, S # {}
    PROVE  \E m \in S : \A y \in S : m <= y
<1> DEFINE T == {0 .. n : n \in S}
           F == FiniteSubsetsOf(Nat)
           R == StrictSubsetOrdering(Nat)
<1>1. T \subseteq F /\ T # {}
  <2>1. ASSUME NEW n \in S PROVE 0 .. n \in F
    <3>1. IsFiniteSet(0 .. n)
      BY FS_Interval
    <3>2. 0 .. n \in SUBSET Nat
      OBVIOUS
    <3> QED BY <3>1, <3>2 DEF FiniteSubsetsOf
  <2>2. PICK s \in S : TRUE
    OBVIOUS
  <2>3. 0 .. s \in T
    OBVIOUS
  <2> HIDE DEF F
  <2> QED BY <2>1, <2>3
<1>2. PICK u \in T : \A v \in T : <<v, u>> \notin R
  <2>1. IsWellFoundedOn(R, F)
    BY FS_StrictSubsetOrderingWellFounded
  <2> HIDE DEF T, R, F
  <2> QED BY <1>1, <2>1, WFMin
<1>3. PICK m \in S : u = 0 .. m
  BY <1>2
<1>4. ASSUME NEW y \in S PROVE m <= y
  <2> SUFFICES ASSUME y < m PROVE FALSE
    OBVIOUS
  <2>1. 0 .. y \in SUBSET Nat /\ 0 .. m \in SUBSET Nat
    OBVIOUS
  <2>2. 0 .. y \subseteq 0 .. m /\ 0 .. y # 0 .. m
    <3>1. m \in 0 .. m /\ m \notin 0 .. y
      OBVIOUS
    <3> QED BY <3>1
  <2>3. <<0 .. y, 0 .. m>> \in R
    BY <2>1, <2>2, Zenon DEF StrictSubsetOrdering
  <2>4. 0 .. y \in T
    OBVIOUS
  <2> HIDE DEF T, R, F
  <2> QED BY <1>2, <1>3, <2>3, <2>4
<1> QED BY <1>4

-----------------------------------------------------------------------------
(* Texts.                                                                  *)

LEMMA TextIs ==
    ASSUME NEW s \in Text
    PROVE  /\ Len(s) \in Nat /\ DOMAIN s = 1 .. Len(s)
           /\ \A i \in 1 .. Len(s) : s[i] \in Token
           /\ s # <<>> <=> Len(s) >= 1
<1>1. Len(s) \in Nat /\ DOMAIN s = 1 .. Len(s)
  BY LenProperties DEF Text
<1>2. \A i \in 1 .. Len(s) : s[i] \in Token
  BY ElementOfSeq DEF Text
<1>3. Len(s) = 0 => s = <<>>
  BY EmptySeq DEF Text
<1>4. Len(<<>>) = 0
  OBVIOUS
<1> QED BY <1>1, <1>2, <1>3, <1>4

LEMMA Together ==
    ASSUME NEW s \in Text, NEW t \in Text
    PROVE  /\ s \o t \in Text /\ Len(s \o t) = Len(s) + Len(t)
           /\ \A i \in 1 .. Len(s) : (s \o t)[i] = s[i]
           /\ \A i \in 1 .. Len(t) : (s \o t)[Len(s) + i] = t[i]
           /\ \A i \in Len(s) + 1 .. Len(s) + Len(t) : (s \o t)[i] = t[i - Len(s)]
<1>0. Len(s) \in Nat /\ Len(t) \in Nat
  BY TextIs
<1>1. /\ s \o t \in Text /\ Len(s \o t) = Len(s) + Len(t)
      /\ \A i \in 1 .. Len(s) + Len(t) :
            (s \o t)[i] = IF i <= Len(s) THEN s[i] ELSE t[i - Len(s)]
  BY ConcatProperties DEF Text
<1>2. ASSUME NEW i \in 1 .. Len(s) PROVE (s \o t)[i] = s[i]
  BY <1>0, <1>1
<1>3. ASSUME NEW i \in 1 .. Len(t) PROVE (s \o t)[Len(s) + i] = t[i]
  <2>1. Len(s) + i \in 1 .. Len(s) + Len(t) /\ ~(Len(s) + i <= Len(s)) /\ (Len(s) + i) - Len(s) = i
    BY <1>0
  <2> QED BY <1>1, <2>1
<1>4. ASSUME NEW i \in Len(s) + 1 .. Len(s) + Len(t) PROVE (s \o t)[i] = t[i - Len(s)]
  <2>1. i \in 1 .. Len(s) + Len(t) /\ ~(i <= Len(s))
    BY <1>0
  <2> QED BY <1>1, <2>1
<1> QED BY <1>1, <1>2, <1>3, <1>4

\* A single token.
LEMMA OneToken ==
    ASSUME NEW c \in Token
    PROVE  <<c>> \in Text /\ Len(<<c>>) = 1 /\ <<c>>[1] = c
BY DEF Text

LEMMA MentionsTogether ==
    ASSUME NEW s \in Text, NEW t \in Text, NEW tokens
    PROVE  Mentions(s \o t, tokens) <=> Mentions(s, tokens) \/ Mentions(t, tokens)
<1>0. /\ Len(s) \in Nat /\ Len(t) \in Nat /\ DOMAIN s = 1 .. Len(s) /\ DOMAIN t = 1 .. Len(t)
      /\ DOMAIN (s \o t) = 1 .. Len(s) + Len(t)
  BY TextIs, Together
<1>1. ASSUME Mentions(s, tokens) PROVE Mentions(s \o t, tokens)
  <2>1. PICK i \in 1 .. Len(s) : s[i] \in tokens
    BY <1>0, <1>1 DEF Mentions
  <2>2. i \in 1 .. Len(s) + Len(t) /\ (s \o t)[i] = s[i]
    BY <1>0, Together
  <2> QED BY <1>0, <2>1, <2>2 DEF Mentions
<1>2. ASSUME Mentions(t, tokens) PROVE Mentions(s \o t, tokens)
  <2>1. PICK i \in 1 .. Len(t) : t[i] \in tokens
    BY <1>0, <1>2 DEF Mentions
  <2>2. Len(s) + i \in 1 .. Len(s) + Len(t) /\ (s \o t)[Len(s) + i] = t[i]
    BY <1>0, Together
  <2> QED BY <1>0, <2>1, <2>2 DEF Mentions
<1>3. ASSUME Mentions(s \o t, tokens) PROVE Mentions(s, tokens) \/ Mentions(t, tokens)
  <2>1. PICK i \in 1 .. Len(s) + Len(t) : (s \o t)[i] \in tokens
    BY <1>0, <1>3 DEF Mentions
  <2>2. CASE i <= Len(s)
    <3>1. i \in 1 .. Len(s)
      BY <1>0, <2>2
    <3>2. s[i] \in tokens
      BY <2>1, <3>1, Together
    <3> QED BY <1>0, <3>1, <3>2 DEF Mentions
  <2>3. CASE i > Len(s)
    <3>1. i \in Len(s) + 1 .. Len(s) + Len(t) /\ i - Len(s) \in 1 .. Len(t)
      BY <1>0, <2>3
    <3>2. t[i - Len(s)] \in tokens
      BY <2>1, <3>1, Together
    <3> QED BY <1>0, <3>1, <3>2 DEF Mentions
  <2> QED BY <1>0, <2>2, <2>3
<1> QED BY <1>1, <1>2, <1>3

LEMMA MentionsOne ==
    ASSUME NEW c \in Token, NEW tokens
    PROVE  Mentions(<<c>>, tokens) <=> c \in tokens
<1>1. DOMAIN <<c>> = {1}
  BY OneToken, TextIs
<1> QED BY <1>1, OneToken DEF Mentions

-----------------------------------------------------------------------------
(* How deep in parentheses a position is.                                  *)

LEMMA DepthStarts ==
    ASSUME NEW s
    PROVE  DepthAt(s, 1) = 0
<1>1. 1 .. 1 - 1 = {}
  OBVIOUS
<1> QED BY <1>1, FS_EmptySet DEF DepthAt

CountBefore(s, c, i) == Cardinality({j \in 1 .. i - 1 : s[j] = c})

LEMMA CountNext ==
    ASSUME NEW s, NEW i \in Nat \ {0}, NEW c
    PROVE  /\ CountBefore(s, c, i) \in Nat
           /\ CountBefore(s, c, i + 1) =
                 IF s[i] = c THEN CountBefore(s, c, i) + 1 ELSE CountBefore(s, c, i)
<1> DEFINE A == {j \in 1 .. i - 1 : s[j] = c}
           B == {j \in 1 .. (i + 1) - 1 : s[j] = c}
<1>1. IsFiniteSet(A)
  <2>1. IsFiniteSet(1 .. i - 1)
    BY FS_Interval
  <2> QED BY <2>1, FS_Subset
<1>2. B = IF s[i] = c THEN A \cup {i} ELSE A
  OBVIOUS
<1>3. i \notin A
  OBVIOUS
<1>4. Cardinality(A) \in Nat
  BY <1>1, FS_CardinalityType
<1>5. Cardinality(A \cup {i}) = Cardinality(A) + 1
  BY <1>1, <1>3, FS_AddElement
<1> HIDE DEF A, B
<1>6. Cardinality(B) = IF s[i] = c THEN Cardinality(A) + 1 ELSE Cardinality(A)
  BY <1>2, <1>5
<1> QED BY <1>4, <1>6 DEF A, B, CountBefore

Turn(c) == IF c = "(" THEN 1 ELSE IF c = ")" THEN -1 ELSE 0

LEMMA DepthNext ==
    ASSUME NEW s, NEW i \in Nat \ {0}
    PROVE  DepthAt(s, i) \in Int /\ DepthAt(s, i + 1) = DepthAt(s, i) + Turn(s[i])
<1> DEFINE Opened(k) == CountBefore(s, "(", k)
           Shut(k) == CountBefore(s, ")", k)
<1>1. Opened(i) \in Nat /\ Opened(i + 1) = IF s[i] = "(" THEN Opened(i) + 1 ELSE Opened(i)
  BY CountNext
<1>2. Shut(i) \in Nat /\ Shut(i + 1) = IF s[i] = ")" THEN Shut(i) + 1 ELSE Shut(i)
  BY CountNext
<1>3. DepthAt(s, i) = Opened(i) - Shut(i) /\ DepthAt(s, i + 1) = Opened(i + 1) - Shut(i + 1)
  BY DEF DepthAt, CountBefore
<1> HIDE DEF Opened, Shut
<1> QED BY <1>1, <1>2, <1>3 DEF Turn

LEMMA DepthLeft ==
    ASSUME NEW s \in Text, NEW t \in Text, NEW i \in 1 .. Len(s) + 1
    PROVE  DepthAt(s \o t, i) = DepthAt(s, i)
<1>1. Len(s) \in Nat
  BY TextIs
<1>2. \A j \in 1 .. i - 1 : (s \o t)[j] = s[j]
  <2>1. \A j \in 1 .. i - 1 : j \in 1 .. Len(s)
    BY <1>1
  <2> QED BY <2>1, Together
<1>3. \A c : {j \in 1 .. i - 1 : (s \o t)[j] = c} = {j \in 1 .. i - 1 : s[j] = c}
  BY <1>2
<1> QED BY <1>3 DEF DepthAt

Total(s) == DepthAt(s, Len(s) + 1)

LEMMA DepthRight ==
    ASSUME NEW s \in Text, NEW t \in Text, NEW i \in 1 .. Len(t) + 1
    PROVE  DepthAt(s \o t, Len(s) + i) = Total(s) + DepthAt(t, i)
<1> DEFINE bad == {k \in 1 .. Len(t) + 1 : DepthAt(s \o t, Len(s) + k) # Total(s) + DepthAt(t, k)}
<1>0. Len(s) \in Nat /\ Len(t) \in Nat
  BY TextIs
<1> SUFFICES ASSUME bad # {} PROVE FALSE
  OBVIOUS
<1>1. PICK m \in bad : \A k \in bad : m <= k
  <2>1. bad \subseteq Nat
    BY <1>0
  <2> HIDE DEF bad
  <2> QED BY <2>1, LeastNat
<1>2. Total(s) \in Int
  BY <1>0, DepthNext DEF Total
<1>3. m # 1
  <2>1. DepthAt(t, 1) = 0
    BY DepthStarts
  <2>2. DepthAt(s \o t, Len(s) + 1) = Total(s)
    <3>1. Len(s) + 1 \in 1 .. Len(s) + 1
      BY <1>0
    <3> QED BY <3>1, DepthLeft DEF Total
  <2> QED BY <1>2, <2>1, <2>2
<1> DEFINE k == m - 1
<1>4. k \in 1 .. Len(t) /\ k \notin bad /\ m = k + 1 /\ k \in 1 .. Len(t) + 1
  BY <1>0, <1>1, <1>3
<1>5. DepthAt(s \o t, Len(s) + k) = Total(s) + DepthAt(t, k)
  BY <1>4
<1> HIDE DEF k, bad
<1>12. k \in Nat \ {0} /\ Len(s) + k \in Nat \ {0}
  BY <1>0, <1>4
<1>6. /\ DepthAt(s \o t, Len(s) + k) \in Int
      /\ DepthAt(s \o t, (Len(s) + k) + 1) = DepthAt(s \o t, Len(s) + k) + Turn((s \o t)[Len(s) + k])
  BY <1>12, DepthNext
<1>7. DepthAt(t, k) \in Int /\ DepthAt(t, k + 1) = DepthAt(t, k) + Turn(t[k])
  BY <1>12, DepthNext
<1>8. (s \o t)[Len(s) + k] = t[k]
  BY <1>4, Together
<1>9. Turn(t[k]) \in Int
  BY DEF Turn
<1>10. (Len(s) + k) + 1 = Len(s) + m
  BY <1>0, <1>4
<1>11. DepthAt(s \o t, Len(s) + m) = Total(s) + DepthAt(t, m)
  BY <1>2, <1>4, <1>5, <1>6, <1>7, <1>8, <1>9, <1>10
<1> QED BY <1>1, <1>11 DEF bad

-----------------------------------------------------------------------------
(* Texts whose parentheses belong together.                                *)

Balanced(s) ==
    /\ s \in Text /\ s # <<>>
    /\ Total(s) = 0
    /\ \A i \in 1 .. Len(s) + 1 : DepthAt(s, i) >= 0

LEMMA TotalTogether ==
    ASSUME NEW s \in Text, NEW t \in Text
    PROVE  Total(s \o t) = Total(s) + Total(t)
<1>0. Len(s) \in Nat /\ Len(t) \in Nat
  BY TextIs
<1>1. Len(t) + 1 \in 1 .. Len(t) + 1
  BY <1>0
<1>2. Len(s \o t) + 1 = Len(s) + (Len(t) + 1)
  BY <1>0, Together
<1> QED BY <1>1, <1>2, DepthRight DEF Total

LEMMA TotalOne ==
    ASSUME NEW c \in Token
    PROVE  Total(<<c>>) = Turn(c)
<1>1. DepthAt(<<c>>, 1) = 0 /\ DepthAt(<<c>>, 1 + 1) = DepthAt(<<c>>, 1) + Turn(<<c>>[1])
  BY DepthStarts, DepthNext
<1>2. Turn(c) \in Int
  BY DEF Turn
<1>3. Len(<<c>>) + 1 = 1 + 1 /\ <<c>>[1] = c
  BY OneToken
<1> QED BY <1>1, <1>2, <1>3 DEF Total

LEMMA BalancedOne ==
    ASSUME NEW c \in Token, c \notin {"(", ")"}
    PROVE  Balanced(<<c>>)
<1>1. Total(<<c>>) = 0
  BY TotalOne DEF Turn
<1>2. DepthAt(<<c>>, 1) = 0
  BY DepthStarts
<1>3. Len(<<c>>) = 1 /\ <<c>> \in Text /\ <<c>> # <<>>
  BY OneToken
<1>4. 1 .. Len(<<c>>) + 1 = {1, Len(<<c>>) + 1}
  BY <1>3
<1>5. ASSUME NEW i \in 1 .. Len(<<c>>) + 1 PROVE DepthAt(<<c>>, i) >= 0
  <2>1. i = 1 \/ i = Len(<<c>>) + 1
    BY <1>4
  <2>2. DepthAt(<<c>>, i) = 0
    BY <1>1, <1>2, <2>1 DEF Total
  <2> QED BY <2>2
<1> QED BY <1>1, <1>3, <1>5 DEF Balanced

LEMMA BalancedTogether ==
    ASSUME NEW s, NEW t, Balanced(s), Balanced(t)
    PROVE  Balanced(s \o t)
<1>0. s \in Text /\ t \in Text /\ Len(s) \in Nat /\ Len(t) \in Nat /\ Len(s) >= 1
  BY TextIs DEF Balanced
<1>1. s \o t \in Text /\ Len(s \o t) = Len(s) + Len(t)
  BY <1>0, Together
<1>2. s \o t # <<>>
  <2>1. Len(s \o t) >= 1
    BY <1>0, <1>1
  <2> QED BY <1>1, <2>1, TextIs
<1>3. Total(s \o t) = 0
  BY <1>0, TotalTogether DEF Balanced
<1>4. ASSUME NEW i \in 1 .. Len(s \o t) + 1 PROVE DepthAt(s \o t, i) >= 0
  <2>1. CASE i <= Len(s) + 1
    <3>1. i \in 1 .. Len(s) + 1
      BY <1>0, <2>1
    <3>2. DepthAt(s \o t, i) = DepthAt(s, i)
      BY <1>0, <3>1, DepthLeft
    <3> QED BY <3>1, <3>2 DEF Balanced
  <2>2. CASE i > Len(s) + 1
    <3> DEFINE k == i - Len(s)
    <3>1. k \in 1 .. Len(t) + 1 /\ i = Len(s) + k
      BY <1>0, <1>1, <2>2
    <3> HIDE DEF k
    <3>2. DepthAt(s \o t, i) = Total(s) + DepthAt(t, k)
      BY <1>0, <3>1, DepthRight
    <3>3. DepthAt(t, k) >= 0 /\ Total(s) = 0
      BY <3>1 DEF Balanced
    <3>4. DepthAt(t, k) \in Int
      <4>1. k \in Nat \ {0}
        BY <1>0, <3>1
      <4> QED BY <4>1, DepthNext
    <3> QED BY <3>2, <3>3, <3>4
  <2> QED BY <1>0, <1>1, <2>1, <2>2
<1> QED BY <1>1, <1>2, <1>3, <1>4 DEF Balanced

LEMMA CutsTogether ==
    ASSUME NEW s \in Text, NEW t \in Text, Total(s) = 0, NEW op
    PROVE  CutsAt(s \o t, op) = CutsAt(s, op) \cup {Len(s) + i : i \in CutsAt(t, op)}
<1>0. /\ Len(s) \in Nat /\ Len(t) \in Nat /\ DOMAIN s = 1 .. Len(s) /\ DOMAIN t = 1 .. Len(t)
      /\ DOMAIN (s \o t) = 1 .. Len(s) + Len(t)
  BY TextIs, Together
<1>1. ASSUME NEW i \in 1 .. Len(s) PROVE i \in CutsAt(s \o t, op) <=> i \in CutsAt(s, op)
  <2>1. (s \o t)[i] = s[i]
    BY Together
  <2>2. i \in 1 .. Len(s) + 1 /\ i \in 1 .. Len(s) + Len(t)
    BY <1>0
  <2>3. DepthAt(s \o t, i) = DepthAt(s, i)
    BY <2>2, DepthLeft
  <2> QED BY <1>0, <2>1, <2>2, <2>3 DEF CutsAt
<1>2. ASSUME NEW i \in 1 .. Len(t)
      PROVE Len(s) + i \in CutsAt(s \o t, op) <=> i \in CutsAt(t, op)
  <2>1. (s \o t)[Len(s) + i] = t[i]
    BY Together
  <2>2. i \in 1 .. Len(t) + 1 /\ Len(s) + i \in 1 .. Len(s) + Len(t) /\ i \in Nat \ {0}
    BY <1>0
  <2>3. DepthAt(s \o t, Len(s) + i) = Total(s) + DepthAt(t, i) /\ DepthAt(t, i) \in Int
    BY <2>2, DepthRight, DepthNext
  <2> QED BY <1>0, <2>1, <2>2, <2>3 DEF CutsAt
<1>3. CutsAt(s, op) \subseteq 1 .. Len(s) /\ CutsAt(t, op) \subseteq 1 .. Len(t)
  BY <1>0 DEF CutsAt
<1>4. ASSUME NEW x \in CutsAt(s \o t, op)
      PROVE x \in CutsAt(s, op) \cup {Len(s) + i : i \in CutsAt(t, op)}
  <2>1. x \in 1 .. Len(s) + Len(t)
    BY <1>0 DEF CutsAt
  <2>2. CASE x <= Len(s)
    BY <1>0, <1>1, <1>4, <2>1, <2>2
  <2>3. CASE x > Len(s)
    <3>1. x - Len(s) \in 1 .. Len(t) /\ x = Len(s) + (x - Len(s))
      BY <1>0, <2>1, <2>3
    <3>2. x - Len(s) \in CutsAt(t, op)
      BY <1>2, <1>4, <3>1
    <3> QED BY <3>1, <3>2
  <2> QED BY <1>0, <2>1, <2>2, <2>3
<1>5. ASSUME NEW x \in CutsAt(s, op) PROVE x \in CutsAt(s \o t, op)
  BY <1>1, <1>3
<1>6. ASSUME NEW i \in CutsAt(t, op) PROVE Len(s) + i \in CutsAt(s \o t, op)
  BY <1>2, <1>3
<1> QED BY <1>4, <1>5, <1>6

LEMMA CutsOne ==
    ASSUME NEW c \in Token, NEW op
    PROVE  CutsAt(<<c>>, op) = IF c = op THEN {1} ELSE {}
<1>1. DOMAIN <<c>> = {1} /\ <<c>>[1] = c
  BY OneToken, TextIs
<1>2. DepthAt(<<c>>, 1) = 0
  BY DepthStarts
<1> QED BY <1>1, <1>2 DEF CutsAt

\* What is in parentheses is balanced and is not cut.
LEMMA InParentheses ==
    ASSUME NEW s, Balanced(s), NEW t, t = <<"(">> \o s \o <<")">>
    PROVE  /\ Balanced(t) /\ Len(t) = Len(s) + 2
           /\ \A op \in Connective : CutsAt(t, op) = {}
           /\ Enclosed(t) /\ Stripped(t) = s
           /\ \A T \in SUBSET Connective : Mentions(t, T) <=> Mentions(s, T)
<1> DEFINE l == <<"(">>
           r == <<")">>
           ls == l \o s
<1>0. /\ s \in Text /\ Len(s) \in Nat /\ Len(s) >= 1 /\ DOMAIN s = 1 .. Len(s)
      /\ "(" \in Token /\ ")" \in Token
  BY TextIs DEF Balanced, Token
<1>1. /\ l \in Text /\ r \in Text /\ Len(l) = 1 /\ Len(r) = 1 /\ l[1] = "(" /\ r[1] = ")"
  BY <1>0, OneToken
<1>2. /\ ls \in Text /\ Len(ls) = 1 + Len(s) /\ t = ls \o r
      /\ t \in Text /\ Len(t) = (1 + Len(s)) + 1
  BY <1>0, <1>1, Together
<1>3. t[1] = "(" /\ t[Len(s) + 2] = ")" /\ \A i \in 1 .. Len(s) : t[i + 1] = s[i]
  <2>1. 1 \in 1 .. Len(ls) /\ 1 \in 1 .. Len(l)
    BY <1>0, <1>1, <1>2
  <2>2. t[1] = ls[1] /\ ls[1] = l[1]
    BY <1>0, <1>1, <1>2, <2>1, Together
  <2>3. 1 \in 1 .. Len(r) /\ Len(ls) + 1 = Len(s) + 2
    BY <1>0, <1>1, <1>2
  <2>4. t[Len(ls) + 1] = r[1]
    BY <1>1, <1>2, <2>3, Together
  <2>5. ASSUME NEW i \in 1 .. Len(s) PROVE t[i + 1] = s[i]
    <3>1. i + 1 \in 1 .. Len(ls) /\ i + 1 = Len(l) + i
      BY <1>0, <1>1, <1>2
    <3>2. t[i + 1] = ls[i + 1]
      BY <1>1, <1>2, <3>1, Together
    <3>3. ls[Len(l) + i] = s[i]
      BY <1>0, <1>1, Together
    <3> QED BY <3>1, <3>2, <3>3
  <2> QED BY <1>1, <2>2, <2>3, <2>4, <2>5
<1> HIDE DEF l, r, ls
<1>4. Total(l) = 1 /\ Total(r) = -1
  BY <1>0, TotalOne DEF Turn, l, r
<1>5. Total(s) = 0 /\ Total(ls) = 1 /\ Total(t) = 0
  <2>1. Total(ls) = Total(l) + Total(s)
    BY <1>0, <1>1, TotalTogether DEF ls
  <2>2. Total(t) = Total(ls) + Total(r)
    BY <1>1, <1>2, TotalTogether
  <2>3. Total(s) = 0
    BY DEF Balanced
  <2> QED BY <1>4, <2>1, <2>2, <2>3
<1>6. DepthAt(t, 1) = 0
  BY DepthStarts
<1>7. ASSUME NEW i \in 1 .. Len(s) + 1 PROVE DepthAt(t, i + 1) >= 1
  <2>1. i + 1 \in 1 .. Len(ls) + 1 /\ i + 1 = Len(l) + i /\ i \in Nat \ {0}
    BY <1>0, <1>1, <1>2
  <2>2. DepthAt(t, i + 1) = DepthAt(ls, i + 1)
    BY <1>1, <1>2, <2>1, DepthLeft
  <2>3. DepthAt(ls, Len(l) + i) = Total(l) + DepthAt(s, i)
    BY <1>0, <1>1, DepthRight DEF ls
  <2>4. DepthAt(s, i) >= 0 /\ DepthAt(s, i) \in Int
    BY <2>1, DepthNext DEF Balanced
  <2> QED BY <1>4, <2>1, <2>2, <2>3, <2>4
<1>8. Balanced(t)
  <2>1. ASSUME NEW i \in 1 .. Len(t) + 1 PROVE DepthAt(t, i) >= 0
    <3>1. CASE i = 1
      BY <1>6, <3>1
    <3>2. CASE i = Len(t) + 1
      BY <1>5, <3>2 DEF Total
    <3>3. CASE i # 1 /\ i # Len(t) + 1
      <4> DEFINE k == i - 1
      <4>1. k \in 1 .. Len(s) + 1 /\ i = k + 1
        BY <1>0, <1>2, <3>3
      <4> HIDE DEF k
      <4>2. DepthAt(t, i) >= 1
        BY <1>7, <4>1
      <4>3. DepthAt(t, i) \in Int
        <5>1. i \in Nat \ {0}
          BY <1>0, <1>2
        <5> QED BY <5>1, DepthNext
      <4> QED BY <4>2, <4>3
    <3> QED BY <3>1, <3>2, <3>3
  <2>2. t # <<>>
    <3>1. Len(t) >= 1
      BY <1>0, <1>2
    <3> QED BY <1>2, <3>1, TextIs
  <2> QED BY <1>2, <1>5, <2>1, <2>2 DEF Balanced
<1>9. ASSUME NEW op \in Connective PROVE CutsAt(t, op) = {}
  <2> SUFFICES ASSUME NEW i \in CutsAt(t, op) PROVE FALSE
    OBVIOUS
  <2>1. i \in 1 .. Len(t) /\ t[i] = op /\ DepthAt(t, i) = 0
    BY <1>2, TextIs DEF CutsAt
  <2>2. i # 1 /\ i # Len(s) + 2
    BY <1>3, <2>1 DEF Connective
  <2> DEFINE k == i - 1
  <2>3. k \in 1 .. Len(s) + 1 /\ i = k + 1
    BY <1>0, <1>2, <2>1, <2>2
  <2> HIDE DEF k
  <2>4. DepthAt(t, i) >= 1
    BY <1>7, <2>3
  <2> QED BY <2>1, <2>4
<1>10. Enclosed(t)
  <2>1. Len(t) = Len(s) + 2
    BY <1>0, <1>2
  <2> QED BY <1>3, <1>8, <2>1 DEF Enclosed, Balanced
<1>11. Stripped(t) = s
  <2>1. Len(t) - 1 = Len(s) + 1 /\ Len(t) - 1 \in Int
    BY <1>0, <1>2
  <2> DEFINE inner == SubSeq(t, 2, Len(s) + 1)
  <2>2. \A i \in 2 .. Len(s) + 1 : t[i] \in Token
    <3>1. \A i \in 2 .. Len(s) + 1 : i \in 1 .. Len(t)
      BY <1>0, <1>2
    <3> QED BY <1>2, <3>1, TextIs
  <2>3. /\ inner \in Seq(Token)
        /\ Len(inner) = IF 2 <= Len(s) + 1 THEN (Len(s) + 1) - 2 + 1 ELSE 0
        /\ \A i \in 1 .. (Len(s) + 1) - 2 + 1 : inner[i] = t[2 + i - 1]
    <3>1. 2 \in Int /\ Len(s) + 1 \in Int
      BY <1>0
    <3> HIDE DEF Token
    <3> QED BY <2>2, <3>1, SubSeqProperties
  <2> HIDE DEF inner
  <2>4. Len(inner) = Len(s)
    BY <1>0, <2>3
  <2>5. ASSUME NEW i \in 1 .. Len(inner) PROVE inner[i] = s[i]
    <3>1. i \in 1 .. Len(s) /\ i \in 1 .. (Len(s) + 1) - 2 + 1 /\ 2 + i - 1 = i + 1
      BY <1>0, <2>4
    <3>2. inner[i] = t[2 + i - 1]
      BY <2>3, <3>1
    <3>3. t[i + 1] = s[i]
      BY <1>3, <3>1
    <3> QED BY <3>1, <3>2, <3>3
  <2>6. inner = s
    <3>1. s \in Seq(Token)
      BY <1>0 DEF Text
    <3> HIDE DEF Token
    <3> QED BY <2>3, <2>4, <2>5, <3>1, SeqEqual
  <2>7. Stripped(t) = SubSeq(t, 2, Len(t) - 1)
    BY <1>10 DEF Stripped
  <2> QED BY <2>1, <2>6, <2>7 DEF inner
<1>12. ASSUME NEW T \in SUBSET Connective PROVE Mentions(t, T) <=> Mentions(s, T)
  <2>1. "(" \notin T /\ ")" \notin T
    BY DEF Connective
  <2>2. ~Mentions(l, T) /\ ~Mentions(r, T)
    BY <1>0, <2>1, MentionsOne DEF l, r
  <2>3. Mentions(t, T) <=> Mentions(ls, T) \/ Mentions(r, T)
    <3>1. Mentions(ls \o r, T) <=> Mentions(ls, T) \/ Mentions(r, T)
      BY <1>1, <1>2, MentionsTogether
    <3> QED BY <1>2, <3>1, Zenon
  <2>4. Mentions(ls, T) <=> Mentions(l, T) \/ Mentions(s, T)
    BY <1>0, <1>1, MentionsTogether DEF ls
  <2> QED BY <2>2, <2>3, <2>4
<1> QED BY <1>0, <1>2, <1>8, <1>9, <1>10, <1>11, <1>12

-----------------------------------------------------------------------------
(* The parts of a text, and what they come to together.                    *)

LEMMA PartsAre ==
    ASSUME NEW s \in Text, NEW op, NEW p \in Parts(s, op)
    PROVE  /\ p[1] \in 1 .. Len(s) /\ p[2] \in 1 .. Len(s) /\ p[1] <= p[2] /\ p = <<p[1], p[2]>>
           /\ (p[1] .. p[2]) \cap CutsAt(s, op) = {}
           /\ p[1] = 1 \/ p[1] - 1 \in CutsAt(s, op)
           /\ p[2] = Len(s) \/ p[2] + 1 \in CutsAt(s, op)
BY DEF Parts

LEMMA IsAPart ==
    ASSUME NEW s \in Text, NEW op, NEW a \in 1 .. Len(s), NEW b \in 1 .. Len(s), a <= b,
           (a .. b) \cap CutsAt(s, op) = {},
           a = 1 \/ a - 1 \in CutsAt(s, op),
           b = Len(s) \/ b + 1 \in CutsAt(s, op)
    PROVE  <<a, b>> \in Parts(s, op)
BY DEF Parts

LEMMA PartsStartApart ==
    ASSUME NEW s \in Text, NEW op, NEW p \in Parts(s, op), NEW q \in Parts(s, op), p[1] = q[1]
    PROVE  p = q
<1>0. Len(s) \in Nat
  BY TextIs
<1>1. ASSUME NEW x \in Parts(s, op), NEW y \in Parts(s, op), x[1] = y[1], x[2] < y[2]
      PROVE FALSE
  <2>1. /\ x[1] \in 1 .. Len(s) /\ x[2] \in 1 .. Len(s) /\ x[1] <= x[2]
        /\ x[2] = Len(s) \/ x[2] + 1 \in CutsAt(s, op)
        /\ y[2] \in 1 .. Len(s) /\ (y[1] .. y[2]) \cap CutsAt(s, op) = {}
    BY PartsAre
  <2>2. x[2] + 1 \in CutsAt(s, op) /\ x[2] + 1 \in y[1] .. y[2]
    BY <1>0, <1>1, <2>1
  <2> QED BY <2>1, <2>2
<1>2. p[2] \in Nat /\ q[2] \in Nat
  BY <1>0, PartsAre
<1>3. p[2] = q[2]
  BY <1>1, <1>2
<1>4. p = <<p[1], p[2]>> /\ q = <<q[1], q[2]>>
  BY PartsAre
<1> QED BY <1>3, <1>4

LEMMA PartOfIs ==
    ASSUME NEW s \in Text, NEW a \in 1 .. Len(s), NEW b \in 1 .. Len(s), a <= b
    PROVE  /\ PartOf(s, <<a, b>>) \in Text /\ Len(PartOf(s, <<a, b>>)) = (b - a) + 1
           /\ \A i \in 1 .. (b - a) + 1 : PartOf(s, <<a, b>>)[i] = s[(a + i) - 1]
<1>0. Len(s) \in Nat /\ a \in Int /\ b \in Int
  BY TextIs
<1>1. \A i \in a .. b : s[i] \in Token
  <2>1. \A i \in a .. b : i \in 1 .. Len(s)
    BY <1>0
  <2> QED BY <2>1, TextIs
<1> DEFINE part == SubSeq(s, a, b)
<1>2. /\ part \in Seq(Token) /\ Len(part) = IF a <= b THEN b - a + 1 ELSE 0
      /\ \A i \in 1 .. b - a + 1 : part[i] = s[a + i - 1]
  <2> HIDE DEF Token
  <2> QED BY <1>0, <1>1, SubSeqProperties
<1>3. PartOf(s, <<a, b>>) = part
  BY DEF PartOf
<1> HIDE DEF part
<1> QED BY <1>2, <1>3 DEF Text

LEMMA WholePart ==
    ASSUME NEW s \in Text, s # <<>>, NEW op
    PROVE  /\ CutsAt(s, op) = {} => Parts(s, op) = {<<1, Len(s)>>}
           /\ <<1, Len(s)>> \in Parts(s, op) => CutsAt(s, op) = {}
           /\ PartOf(s, <<1, Len(s)>>) = s
<1>0. Len(s) \in Nat /\ Len(s) >= 1 /\ DOMAIN s = 1 .. Len(s)
  BY TextIs
<1>1. ASSUME CutsAt(s, op) = {} PROVE Parts(s, op) = {<<1, Len(s)>>}
  <2>1. <<1, Len(s)>> \in Parts(s, op)
    BY <1>0, <1>1, IsAPart
  <2>2. ASSUME NEW p \in Parts(s, op) PROVE p = <<1, Len(s)>>
    <3>1. p[1] = 1 /\ p[2] = Len(s) /\ p = <<p[1], p[2]>>
      BY <1>1, PartsAre
    <3> QED BY <3>1
  <2> QED BY <2>1, <2>2
<1>2. ASSUME <<1, Len(s)>> \in Parts(s, op) PROVE CutsAt(s, op) = {}
  <2>1. (1 .. Len(s)) \cap CutsAt(s, op) = {}
    BY <1>2 DEF Parts
  <2>2. CutsAt(s, op) \subseteq 1 .. Len(s)
    BY <1>0 DEF CutsAt
  <2> QED BY <2>1, <2>2
<1>3. SubSeq(s, 1, Len(s)) = s
  BY SubSeqFull DEF Text
<1> QED BY <1>1, <1>2, <1>3 DEF PartOf

Go(op) == IF op = "&&" THEN "holds" ELSE "fails"
Deciding(value, n, op) == {p \in Parts(n, op) : value[PartOf(n, p)] # Go(op)}
FirstOf(S) == CHOOSE p \in S : \A q \in S : p[1] <= q[1]

LEMMA CombinedIs ==
    ASSUME NEW value, NEW n, NEW op
    PROVE  Combined(value, n, op) =
             IF Deciding(value, n, op) = {} THEN Go(op)
             ELSE value[PartOf(n, FirstOf(Deciding(value, n, op)))]
BY DEF Combined, Deciding, Go, FirstOf

LEMMA FirstIs ==
    ASSUME NEW s \in Text, NEW op, NEW S, S \subseteq Parts(s, op), NEW m \in S,
           \A q \in S : m[1] <= q[1]
    PROVE  FirstOf(S) = m
<1>1. FirstOf(S) \in S /\ \A q \in S : FirstOf(S)[1] <= q[1]
  BY DEF FirstOf
<1>2. FirstOf(S)[1] \in Int /\ m[1] \in Int
  BY <1>1, PartsAre
<1>3. FirstOf(S)[1] = m[1]
  BY <1>1, <1>2
<1> QED BY <1>1, <1>3, PartsStartApart

LEMMA FirstExists ==
    ASSUME NEW s \in Text, NEW op, NEW S, S \subseteq Parts(s, op), S # {}
    PROVE  FirstOf(S) \in S /\ \A q \in S : FirstOf(S)[1] <= q[1]
<1> DEFINE starts == {p[1] : p \in S}
<1>1. starts \subseteq Nat
  BY PartsAre
<1>2. PICK m \in starts : \A y \in starts : m <= y
  <2>1. starts # {}
    OBVIOUS
  <2> HIDE DEF starts
  <2> QED BY <1>1, <2>1, LeastNat
<1>3. PICK p \in S : p[1] = m
  OBVIOUS
<1>4. \A q \in S : p[1] <= q[1]
  BY <1>2, <1>3
<1> QED BY <1>4 DEF FirstOf

\* A text without cuts comes to what it comes to as its own part.
LEMMA CombinedWhole ==
    ASSUME NEW s \in Text, s # <<>>, NEW op, CutsAt(s, op) = {}, NEW value
    PROVE  Combined(value, s, op) = value[s]
<1> DEFINE w == <<1, Len(s)>>
<1>1. Parts(s, op) = {w} /\ PartOf(s, w) = s
  BY WholePart
<1> HIDE DEF w
<1>2. CASE value[s] = Go(op)
  <2>1. Deciding(value, s, op) = {}
    BY <1>1, <1>2 DEF Deciding
  <2> QED BY <1>2, <2>1, CombinedIs
<1>3. CASE value[s] # Go(op)
  <2>1. Deciding(value, s, op) = {w}
    BY <1>1, <1>3 DEF Deciding
  <2>2. FirstOf({w}) = w
    BY DEF FirstOf, w
  <2> QED BY <1>1, <2>1, <2>2, CombinedIs
<1> QED BY <1>2, <1>3

\* What a text comes to depends on the values of its parts alone.
LEMMA CombinedDepends ==
    ASSUME NEW s \in Text, NEW op, NEW g, NEW h,
           \A p \in Parts(s, op) : g[PartOf(s, p)] = h[PartOf(s, p)]
    PROVE  Combined(g, s, op) = Combined(h, s, op)
<1>1. Deciding(g, s, op) = Deciding(h, s, op)
  BY DEF Deciding
<1> DEFINE S == Deciding(g, s, op)
<1>2. S \subseteq Parts(s, op)
  BY DEF Deciding
<1>3. ASSUME S # {} PROVE g[PartOf(s, FirstOf(S))] = h[PartOf(s, FirstOf(S))]
  <2>1. FirstOf(S) \in S
    <3> HIDE DEF S
    <3> QED BY <1>2, <1>3, FirstExists
  <2> QED BY <1>2, <2>1
<1> HIDE DEF S
<1>4. Combined(g, s, op) = IF S = {} THEN Go(op) ELSE g[PartOf(s, FirstOf(S))]
  BY CombinedIs DEF S
<1>5. Combined(h, s, op) = IF S = {} THEN Go(op) ELSE h[PartOf(s, FirstOf(S))]
  BY <1>1, CombinedIs DEF S
<1> QED BY <1>3, <1>4, <1>5

\* A text that goes on with one more part: the parts are those that it had and
\* the new one, which comes last.
GoesOn(f, op, u, s) ==
    /\ op \in Connective /\ Balanced(f) /\ Balanced(u) /\ CutsAt(u, op) = {}
    /\ s = f \o <<op>> \o u

HasOneMore(f, op, u, s) ==
    /\ s \in Text /\ Len(s) = Len(f) + 1 + Len(u)
    /\ Parts(s, op) = Parts(f, op) \cup {<<Len(f) + 2, Len(s)>>}
    /\ \A p \in Parts(f, op) : PartOf(s, p) = PartOf(f, p)
    /\ PartOf(s, <<Len(f) + 2, Len(s)>>) = u

LEMMA PartsGoOn ==
    ASSUME NEW f, NEW op, NEW u, NEW s, GoesOn(f, op, u, s)
    PROVE  HasOneMore(f, op, u, s)
<1> DEFINE o == <<op>>
           fo == f \o o
           n == Len(f)
<1>0. /\ f \in Text /\ u \in Text /\ n \in Nat /\ Len(u) \in Nat /\ n >= 1 /\ Len(u) >= 1
      /\ op \in Token /\ op \notin {"(", ")"}
  BY TextIs DEF Balanced, Token, Connective, GoesOn
<1>A. Balanced(f) /\ Balanced(u) /\ CutsAt(u, op) = {}
  BY DEF GoesOn
<1>1. o \in Text /\ Len(o) = 1 /\ Balanced(o) /\ CutsAt(o, op) = {1}
  BY <1>0, OneToken, BalancedOne, CutsOne
<1> HIDE DEF o
<1>2. fo \in Text /\ Len(fo) = n + 1 /\ Total(fo) = 0 /\ Total(f) = 0
  <2>1. fo \in Text /\ Len(fo) = n + Len(o)
    BY <1>0, <1>1, Together
  <2>2. Balanced(fo)
    BY <1>1, <1>A, BalancedTogether
  <2> HIDE DEF fo, n
  <2> QED BY <1>1, <1>A, <2>1, <2>2 DEF Balanced
<1>3. s = fo \o u
  BY DEF o, GoesOn
<1>4. s \in Text /\ Len(s) = n + 1 + Len(u)
  <2> HIDE DEF fo, n
  <2>1. fo \o u \in Text /\ Len(fo \o u) = Len(fo) + Len(u)
    BY <1>0, <1>2, Together
  <2>2. s \in Text /\ Len(s) = Len(fo) + Len(u)
    BY <1>3, <2>1, Zenon
  <2> QED BY <1>2, <2>2
<1>5. CutsAt(s, op) = CutsAt(f, op) \cup {n + 1}
  <2>1. CutsAt(fo, op) = CutsAt(f, op) \cup {n + i : i \in CutsAt(o, op)}
    BY <1>0, <1>1, <1>2, CutsTogether
  <2>2. CutsAt(fo \o u, op) = CutsAt(fo, op) \cup {Len(fo) + i : i \in CutsAt(u, op)}
    BY <1>0, <1>2, CutsTogether
  <2>3. {Len(fo) + i : i \in CutsAt(u, op)} = {}
    BY <1>A
  <2>4. {n + i : i \in CutsAt(o, op)} = {n + 1}
    BY <1>1
  <2> HIDE DEF fo
  <2> QED BY <1>3, <2>1, <2>2, <2>3, <2>4
<1>6. ASSUME NEW i \in 1 .. n PROVE s[i] = f[i]
  <2>1. i \in 1 .. Len(fo)
    BY <1>0, <1>2
  <2>2. s[i] = fo[i]
    BY <1>0, <1>2, <1>3, <2>1, Together
  <2>3. fo[i] = f[i]
    BY <1>0, <1>1, Together
  <2> QED BY <2>2, <2>3
<1>7. ASSUME NEW i \in 1 .. Len(u) PROVE s[n + 1 + i] = u[i]
  <2>1. s[Len(fo) + i] = u[i]
    BY <1>0, <1>2, <1>3, Together
  <2> QED BY <1>2, <2>1
<1> HIDE DEF fo, n
<1>8. CutsAt(f, op) \subseteq 1 .. n
  <2>1. DOMAIN f = 1 .. n
    BY <1>0, TextIs DEF n
  <2> QED BY <2>1 DEF CutsAt
<1> DEFINE last == <<n + 2, Len(s)>>
<1>9. last \in Parts(s, op)
  <2>1. n + 2 \in 1 .. Len(s) /\ Len(s) \in 1 .. Len(s) /\ n + 2 <= Len(s)
    BY <1>0, <1>4
  <2>2. ((n + 2) .. Len(s)) \cap CutsAt(s, op) = {}
    BY <1>0, <1>4, <1>5, <1>8
  <2>3. (n + 2) - 1 \in CutsAt(s, op)
    BY <1>0, <1>5
  <2> QED BY <1>4, <2>1, <2>2, <2>3, IsAPart
<1>10. ASSUME NEW p \in Parts(f, op) PROVE p \in Parts(s, op) /\ p[2] <= n
  <2>1. /\ p[1] \in 1 .. n /\ p[2] \in 1 .. n /\ p[1] <= p[2] /\ p = <<p[1], p[2]>>
        /\ (p[1] .. p[2]) \cap CutsAt(f, op) = {}
        /\ p[1] = 1 \/ p[1] - 1 \in CutsAt(f, op)
        /\ p[2] = n \/ p[2] + 1 \in CutsAt(f, op)
    BY <1>0, PartsAre DEF n
  <2>2. p[1] \in 1 .. Len(s) /\ p[2] \in 1 .. Len(s)
    BY <1>0, <1>4, <2>1
  <2>3. n + 1 \notin p[1] .. p[2]
    BY <1>0, <2>1
  <2>4. (p[1] .. p[2]) \cap CutsAt(s, op) = {}
    BY <1>5, <2>1, <2>3
  <2>5. p[2] + 1 \in CutsAt(s, op) /\ (p[1] = 1 \/ p[1] - 1 \in CutsAt(s, op))
    BY <1>5, <2>1
  <2>6. <<p[1], p[2]>> \in Parts(s, op)
    <3> DEFINE a == p[1]
               b == p[2]
    <3>1. /\ a \in 1 .. Len(s) /\ b \in 1 .. Len(s) /\ a <= b
          /\ (a .. b) \cap CutsAt(s, op) = {}
          /\ (a = 1 \/ a - 1 \in CutsAt(s, op)) /\ (b = Len(s) \/ b + 1 \in CutsAt(s, op))
      BY <2>1, <2>2, <2>4, <2>5
    <3> HIDE DEF a, b
    <3>2. <<a, b>> \in Parts(s, op)
      BY <1>4, <3>1, IsAPart
    <3> QED BY <3>2 DEF a, b
  <2>7. p \in Parts(s, op)
    BY <2>1, <2>6, Zenon
  <2>8. p[2] <= n
    BY <1>0, <2>1
  <2> QED BY <2>7, <2>8
<1>11. ASSUME NEW p \in Parts(s, op), p # last PROVE p \in Parts(f, op)
  <2>1. /\ p[1] \in 1 .. Len(s) /\ p[2] \in 1 .. Len(s) /\ p[1] <= p[2] /\ p = <<p[1], p[2]>>
        /\ (p[1] .. p[2]) \cap CutsAt(s, op) = {}
        /\ p[1] = 1 \/ p[1] - 1 \in CutsAt(s, op)
        /\ p[2] = Len(s) \/ p[2] + 1 \in CutsAt(s, op)
    BY <1>4, PartsAre
  <2>2. p[1] # n + 2
    <3>1. last[1] = n + 2
      OBVIOUS
    <3> HIDE DEF last
    <3> QED BY <1>4, <1>9, <1>11, <3>1, PartsStartApart
  <2>3. n + 1 \notin p[1] .. p[2]
    BY <1>5, <2>1
  <2>4. p[1] <= n
    <3>1. p[1] # n + 1
      BY <1>0, <1>4, <2>1, <2>3
    <3>2. p[1] = 1 \/ p[1] - 1 \in 1 .. n \/ p[1] - 1 = n + 1
      BY <1>5, <1>8, <2>1
    <3> QED BY <1>0, <1>4, <2>1, <2>2, <3>1, <3>2
  <2>5. p[2] <= n
    BY <1>0, <1>4, <2>1, <2>3, <2>4
  <2>6. p[1] \in 1 .. n /\ p[2] \in 1 .. n
    BY <1>0, <1>4, <2>1, <2>4, <2>5
  <2>7. (p[1] .. p[2]) \cap CutsAt(f, op) = {}
    BY <1>5, <2>1
  <2>8. p[1] = 1 \/ p[1] - 1 \in CutsAt(f, op)
    BY <1>0, <1>5, <2>1, <2>6
  <2>9. p[2] = n \/ p[2] + 1 \in CutsAt(f, op)
    BY <1>0, <1>4, <1>5, <2>1, <2>6
  <2>10. <<p[1], p[2]>> \in Parts(f, op)
    BY <1>0, <2>1, <2>6, <2>7, <2>8, <2>9, IsAPart DEF n
  <2> QED BY <2>1, <2>10
<1>12. ASSUME NEW p \in Parts(f, op) PROVE PartOf(s, p) = PartOf(f, p)
  <2>1. /\ p[1] \in 1 .. n /\ p[2] \in 1 .. n /\ p[1] <= p[2] /\ p = <<p[1], p[2]>>
    BY <1>0, PartsAre DEF n
  <2>2. p[1] \in 1 .. Len(s) /\ p[2] \in 1 .. Len(s)
    BY <1>0, <1>4, <2>1
  <2> DEFINE a == p[1]
             b == p[2]
             x == PartOf(s, <<a, b>>)
             y == PartOf(f, <<a, b>>)
  <2>3. /\ x \in Text /\ Len(x) = (b - a) + 1 /\ \A i \in 1 .. (b - a) + 1 : x[i] = s[(a + i) - 1]
        /\ y \in Text /\ Len(y) = (b - a) + 1 /\ \A i \in 1 .. (b - a) + 1 : y[i] = f[(a + i) - 1]
    BY <1>0, <1>4, <2>1, <2>2, PartOfIs DEF n
  <2>4. a \in 1 .. n /\ b \in 1 .. n /\ a <= b
    BY <2>1
  <2> HIDE DEF a, b, x, y
  <2>5. ASSUME NEW i \in 1 .. Len(x) PROVE x[i] = y[i]
    <3>1. i \in 1 .. (b - a) + 1 /\ (a + i) - 1 \in 1 .. n
      BY <1>0, <2>3, <2>4
    <3>2. s[(a + i) - 1] = f[(a + i) - 1]
      BY <1>6, <3>1
    <3> QED BY <2>3, <3>1, <3>2
  <2>6. x = y
    <3> HIDE DEF Token
    <3> QED BY <2>3, <2>5, SeqEqual DEF Text
  <2>7. PartOf(s, p) = x /\ PartOf(f, p) = y
    BY <2>1 DEF a, b, x, y
  <2> QED BY <2>6, <2>7
<1>13. PartOf(s, last) = u
  <2> DEFINE x == PartOf(s, last)
  <2>1. n + 2 \in 1 .. Len(s) /\ Len(s) \in 1 .. Len(s) /\ n + 2 <= Len(s)
    BY <1>0, <1>4
  <2>2. /\ x \in Text /\ Len(x) = (Len(s) - (n + 2)) + 1
        /\ \A i \in 1 .. (Len(s) - (n + 2)) + 1 : x[i] = s[((n + 2) + i) - 1]
    BY <1>4, <2>1, PartOfIs
  <2> HIDE DEF x
  <2>3. Len(x) = Len(u)
    BY <1>0, <1>4, <2>2
  <2>4. ASSUME NEW i \in 1 .. Len(x) PROVE x[i] = u[i]
    <3>1. /\ i \in 1 .. (Len(s) - (n + 2)) + 1 /\ i \in 1 .. Len(u)
          /\ ((n + 2) + i) - 1 = n + 1 + i
      BY <1>0, <1>4, <2>3
    <3>2. s[n + 1 + i] = u[i]
      BY <1>7, <3>1
    <3> QED BY <2>2, <3>1, <3>2
  <2>5. x = u
    <3> HIDE DEF Token
    <3> QED BY <1>0, <2>2, <2>3, <2>4, SeqEqual DEF Text
  <2> QED BY <2>5 DEF x
<1> HIDE DEF last
<1>14. Parts(s, op) = Parts(f, op) \cup {last}
  BY <1>9, <1>10, <1>11
<1> QED BY <1>4, <1>12, <1>13, <1>14 DEF last, n, HasOneMore

\* What a text that goes on comes to.
LEMMA CombinedGoesOn ==
    ASSUME NEW f, NEW op, NEW u, NEW s, GoesOn(f, op, u, s), NEW value
    PROVE  Combined(value, s, op) =
             IF Combined(value, f, op) # Go(op) THEN Combined(value, f, op) ELSE value[u]
<1> DEFINE D == Deciding(value, s, op)
           F == Deciding(value, f, op)
           last == <<Len(f) + 2, Len(s)>>
<1>0. f \in Text /\ Len(f) \in Nat
  BY TextIs DEF Balanced, GoesOn
<1>1. /\ s \in Text
      /\ Parts(s, op) = Parts(f, op) \cup {last}
      /\ \A p \in Parts(f, op) : PartOf(s, p) = PartOf(f, p)
      /\ PartOf(s, last) = u
  <2>1. HasOneMore(f, op, u, s)
    BY PartsGoOn
  <2> QED BY <2>1 DEF HasOneMore
<1>2. last[1] = Len(f) + 2
  OBVIOUS
<1> HIDE DEF last
<1>3. D = F \cup {p \in {last} : value[u] # Go(op)}
  BY <1>1 DEF Deciding
<1>4. D \subseteq Parts(s, op) /\ F \subseteq Parts(f, op)
  BY DEF Deciding
<1>5. Combined(value, s, op) = IF D = {} THEN Go(op) ELSE value[PartOf(s, FirstOf(D))]
  BY CombinedIs
<1>6. Combined(value, f, op) = IF F = {} THEN Go(op) ELSE value[PartOf(f, FirstOf(F))]
  BY CombinedIs
<1>7. \A p \in F : value[PartOf(f, p)] # Go(op)
  BY DEF Deciding
<1> HIDE DEF D, F
<1>8. CASE F = {} /\ value[u] = Go(op)
  <2>1. D = {}
    BY <1>3, <1>8
  <2> QED BY <1>5, <1>6, <1>8, <2>1
<1>9. CASE F = {} /\ value[u] # Go(op)
  <2>1. D = {last}
    BY <1>3, <1>9
  <2>2. FirstOf({last}) = last
    <3>1. last[1] <= last[1]
      BY <1>0, <1>2
    <3> QED BY <3>1 DEF FirstOf
  <2> QED BY <1>1, <1>5, <1>6, <1>9, <2>1, <2>2
<1>10. CASE F # {}
  <2> DEFINE m == FirstOf(F)
  <2>1. m \in F /\ \A q \in F : m[1] <= q[1]
    BY <1>0, <1>4, <1>10, FirstExists
  <2> HIDE DEF m
  <2>2. m[1] <= last[1]
    <3>1. m[1] \in 1 .. Len(f)
      BY <1>0, <1>4, <2>1, PartsAre
    <3> QED BY <1>0, <1>2, <3>1
  <2>3. m \in D /\ \A q \in D : m[1] <= q[1]
    BY <1>3, <2>1, <2>2
  <2>4. FirstOf(D) = m
    BY <1>1, <1>4, <2>3, FirstIs
  <2>5. D # {}
    BY <2>3
  <2>6. PartOf(s, m) = PartOf(f, m)
    BY <1>1, <1>4, <2>1
  <2>7. Combined(value, f, op) = value[PartOf(f, m)] /\ Combined(value, f, op) # Go(op)
    BY <1>6, <1>7, <1>10, <2>1 DEF m
  <2> QED BY <1>5, <2>4, <2>5, <2>6, <2>7
<1> QED BY <1>8, <1>9, <1>10

-----------------------------------------------------------------------------
(* The recursion of evaluate_condition_expression is well defined: it      *)
(* evaluates shorter texts, or ends as "endless".                          *)

LEMMA StrippedIs ==
    ASSUME NEW s \in Text
    PROVE  /\ Stripped(s) \in Text
           /\ Enclosed(s) => Len(Stripped(s)) = Len(s) - 2 /\ Len(s) >= 2
           /\ ~Enclosed(s) => Stripped(s) = s
<1>0. Len(s) \in Nat /\ (s # <<>> <=> Len(s) >= 1)
  BY TextIs
<1>1. ASSUME Enclosed(s)
      PROVE Stripped(s) \in Text /\ Len(Stripped(s)) = Len(s) - 2 /\ Len(s) >= 2
  <2>1. Len(s) >= 2
    <3>1. Len(s) >= 1 /\ s[1] # s[Len(s)]
      BY <1>0, <1>1 DEF Enclosed
    <3> QED BY <1>0, <3>1
  <2>2. \A i \in 2 .. Len(s) - 1 : s[i] \in Token
    <3>1. \A i \in 2 .. Len(s) - 1 : i \in 1 .. Len(s)
      BY <1>0
    <3> QED BY <3>1, TextIs
  <2> DEFINE inner == SubSeq(s, 2, Len(s) - 1)
  <2>3. inner \in Seq(Token) /\ Len(inner) = IF 2 <= Len(s) - 1 THEN (Len(s) - 1) - 2 + 1 ELSE 0
    <3>1. 2 \in Int /\ Len(s) - 1 \in Int
      BY <1>0
    <3> HIDE DEF Token
    <3> QED BY <2>2, <3>1, SubSeqProperties
  <2>4. Stripped(s) = inner
    BY <1>1 DEF Stripped
  <2> HIDE DEF inner
  <2> QED BY <1>0, <2>1, <2>3, <2>4 DEF Text
<1>2. ASSUME ~Enclosed(s) PROVE Stripped(s) = s
  BY <1>2 DEF Stripped
<1> QED BY <1>1, <1>2

Agree(g, h, k) == \A t \in Text : Len(t) < k => g[t] = h[t]

LEMMA EvaluateByDepends ==
    ASSUME NEW s \in Text, NEW g, NEW h, Agree(g, h, Len(s))
    PROVE  EvaluateBy(g, s) = EvaluateBy(h, s)
<1> DEFINE n == Stripped(s)
           op == SplitBy(n)
<1>0. Len(s) \in Nat
  BY TextIs
<1>1. n \in Text /\ (Enclosed(s) => Len(n) = Len(s) - 2) /\ (~Enclosed(s) => n = s)
  BY StrippedIs
<1> HIDE DEF n, op
<1>2. ASSUME Mentions(n, Connective), ~(n = s /\ Parts(n, op) = {<<1, Len(n)>>})
      PROVE  Combined(g, n, op) = Combined(h, n, op)
  <2>0. Len(n) \in Nat /\ n # <<>>
    <3>1. DOMAIN n # {} /\ DOMAIN n = 1 .. Len(n) /\ Len(n) \in Nat
      BY <1>1, <1>2, TextIs DEF Mentions
    <3>2. Len(n) >= 1
      BY <3>1
    <3> QED BY <1>1, <3>1, <3>2, TextIs
  <2>1. ASSUME NEW p \in Parts(n, op) PROVE g[PartOf(n, p)] = h[PartOf(n, p)]
    <3>1. p[1] \in 1 .. Len(n) /\ p[2] \in 1 .. Len(n) /\ p[1] <= p[2] /\ p = <<p[1], p[2]>>
      BY <1>1, PartsAre
    <3> DEFINE a == p[1]
               b == p[2]
               x == PartOf(n, <<a, b>>)
    <3>2. x \in Text /\ Len(x) = (b - a) + 1
      BY <1>1, <3>1, PartOfIs
    <3>3. n = s => p # <<1, Len(n)>>
      <4> SUFFICES ASSUME n = s, p = <<1, Len(n)>> PROVE FALSE
        OBVIOUS
      <4>1. <<1, Len(n)>> \in Parts(n, op)
        OBVIOUS
      <4>2. Parts(n, op) = {<<1, Len(n)>>}
        BY <1>1, <2>0, <4>1, WholePart
      <4> QED BY <1>2, <4>2
    <3>4. a \in 1 .. Len(n) /\ b \in 1 .. Len(n) /\ a <= b /\ (n = s => ~(a = 1 /\ b = Len(n)))
      BY <3>1, <3>3
    <3>5. x = PartOf(n, p)
      BY <3>1
    <3> HIDE DEF a, b, x
    <3>6. Len(x) < Len(s)
      <4>1. CASE n = s
        <5>1. a # 1 \/ b # Len(n)
          BY <3>4, <4>1
        <5> QED BY <2>0, <3>2, <3>4, <4>1, <5>1
      <4>2. CASE n # s
        <5>1. Len(n) = Len(s) - 2
          BY <1>1, <4>2
        <5> QED BY <1>0, <2>0, <3>2, <3>4, <5>1
      <4> QED BY <4>1, <4>2
    <3>7. g[x] = h[x]
      BY <3>2, <3>6 DEF Agree
    <3> QED BY <3>5, <3>7
  <2> QED BY <1>1, <2>1, CombinedDepends
<1>3. ASSUME NEW k
      PROVE EvaluateBy(k, s) =
              IF s = <<>> THEN "holds"
              ELSE IF ~Mentions(n, Connective) THEN Single(n)
              ELSE IF n = s /\ Parts(n, op) = {<<1, Len(n)>>} THEN "endless"
              ELSE Combined(k, n, op)
  BY DEF EvaluateBy, n, op
<1> QED BY <1>2, <1>3

Evaluates(g, k) == \A s \in Text : Len(s) < k => g[s] = EvaluateBy(g, s)

\* There is one value for every text.
LEMMA EvaluatesUnique ==
    ASSUME NEW k \in Nat, NEW g, NEW h, Evaluates(g, k), Evaluates(h, k)
    PROVE  Agree(g, h, k)
<1> DEFINE bad == {t \in Text : Len(t) < k /\ g[t] # h[t]}
           lengths == {Len(t) : t \in bad}
<1> SUFFICES ASSUME bad # {} PROVE FALSE
  BY DEF Agree
<1>1. PICK m \in lengths : \A y \in lengths : m <= y
  <2>1. lengths \subseteq Nat
    BY TextIs
  <2>2. lengths # {}
    OBVIOUS
  <2> HIDE DEF lengths
  <2> QED BY <2>1, <2>2, LeastNat
<1>2. PICK t \in bad : Len(t) = m
  OBVIOUS
<1>3. t \in Text /\ Len(t) < k /\ g[t] # h[t] /\ Len(t) \in Nat
  BY TextIs
<1>4. Agree(g, h, Len(t))
  <2> SUFFICES ASSUME NEW v \in Text, Len(v) < Len(t), g[v] # h[v] PROVE FALSE
    BY DEF Agree
  <2>1. Len(v) \in Nat
    BY TextIs
  <2>2. v \in bad
    BY <1>3, <2>1
  <2>3. Len(t) <= Len(v)
    BY <1>1, <1>2, <2>2
  <2> QED BY <1>3, <2>1, <2>3
<1>5. EvaluateBy(g, t) = EvaluateBy(h, t)
  BY <1>3, <1>4, EvaluateByDepends
<1>6. g[t] = EvaluateBy(g, t) /\ h[t] = EvaluateBy(h, t)
  BY <1>3 DEF Evaluates
<1> QED BY <1>3, <1>5, <1>6

LEMMA EvaluatesExists ==
    ASSUME NEW k \in Nat
    PROVE  \E g : Evaluates(g, k)
<1> DEFINE bad == {j \in Nat : ~\E g : Evaluates(g, j)}
<1> SUFFICES ASSUME bad # {} PROVE FALSE
  OBVIOUS
<1>1. PICK m \in bad : \A y \in bad : m <= y
  <2>1. bad \subseteq Nat
    OBVIOUS
  <2> HIDE DEF bad
  <2> QED BY <2>1, LeastNat
<1>2. m \in Nat /\ ~\E g : Evaluates(g, m)
  OBVIOUS
<1>3. m # 0
  <2>1. Evaluates(<<>>, 0)
    <3>1. \A s \in Text : ~(Len(s) < 0)
      BY TextIs
    <3> QED BY <3>1 DEF Evaluates
  <2> QED BY <1>2, <2>1
<1> DEFINE j == m - 1
<1>4. j \in Nat /\ j \notin bad /\ m = j + 1
  BY <1>1, <1>2, <1>3
<1>5. PICK g : Evaluates(g, j)
  BY <1>4
<1> HIDE DEF bad, j
<1> DEFINE h == [s \in Text |-> IF Len(s) < j THEN g[s] ELSE EvaluateBy(g, s)]
<1>6. \A s \in Text : h[s] = IF Len(s) < j THEN g[s] ELSE EvaluateBy(g, s)
  OBVIOUS
<1> HIDE DEF h
<1>7. ASSUME NEW s \in Text, Len(s) < m PROVE h[s] = EvaluateBy(h, s)
  <2>1. Len(s) \in Nat /\ Len(s) <= j
    BY <1>4, <1>7, TextIs
  <2>2. Agree(g, h, Len(s))
    <3> SUFFICES ASSUME NEW t \in Text, Len(t) < Len(s) PROVE g[t] = h[t]
      BY DEF Agree
    <3>1. Len(t) \in Nat
      BY TextIs
    <3>2. Len(t) < j
      BY <1>4, <2>1, <3>1
    <3> QED BY <1>6, <3>2
  <2>3. EvaluateBy(g, s) = EvaluateBy(h, s)
    BY <2>2, EvaluateByDepends
  <2>4. Len(s) < j => g[s] = EvaluateBy(g, s)
    BY <1>5 DEF Evaluates
  <2> QED BY <1>6, <2>3, <2>4
<1>8. Evaluates(h, m)
  BY <1>7 DEF Evaluates
<1> QED BY <1>2, <1>8

\* The recursive function is the one that its definition describes.
LEMMA EvaluateIs ==
    ASSUME NEW s \in Text
    PROVE  Evaluate[s] = EvaluateBy(Evaluate, s)
<1> DEFINE G(t) == CHOOSE g : Evaluates(g, Len(t) + 1)
           f == [t \in Text |-> G(t)[t]]
<1>1. ASSUME NEW t \in Text PROVE Evaluates(G(t), Len(t) + 1)
  <2>1. Len(t) + 1 \in Nat
    BY TextIs
  <2>2. \E g : Evaluates(g, Len(t) + 1)
    BY <2>1, EvaluatesExists
  <2> QED BY <2>2
<1> HIDE DEF G
<1>2. ASSUME NEW t \in Text PROVE f[t] = EvaluateBy(f, t)
  <2> DEFINE g == G(t)
  <2>0. Len(t) \in Nat
    BY TextIs
  <2>1. Evaluates(g, Len(t) + 1)
    BY <1>1
  <2>2. f[t] = g[t]
    OBVIOUS
  <2> HIDE DEF g
  <2>3. Agree(g, f, Len(t))
    <3> SUFFICES ASSUME NEW v \in Text, Len(v) < Len(t) PROVE g[v] = f[v]
      BY DEF Agree
    <3> DEFINE h == G(v)
    <3>0. Len(v) \in Nat /\ Len(v) + 1 \in Nat
      BY TextIs
    <3>1. Evaluates(h, Len(v) + 1)
      BY <1>1
    <3>2. f[v] = h[v]
      OBVIOUS
    <3> HIDE DEF h, f
    <3>3. Evaluates(g, Len(v) + 1)
      <4> SUFFICES ASSUME NEW x \in Text, Len(x) < Len(v) + 1 PROVE g[x] = EvaluateBy(g, x)
        BY DEF Evaluates
      <4>1. Len(x) < Len(t) + 1
        <5>1. Len(x) \in Nat
          BY TextIs
        <5> QED BY <2>0, <3>0, <5>1
      <4> QED BY <2>1, <4>1 DEF Evaluates
    <3>4. Agree(g, h, Len(v) + 1)
      BY <3>0, <3>1, <3>3, EvaluatesUnique
    <3>5. Len(v) < Len(v) + 1
      BY <3>0
    <3> QED BY <3>2, <3>4, <3>5 DEF Agree
  <2> HIDE DEF f
  <2>4. EvaluateBy(g, t) = EvaluateBy(f, t)
    BY <2>3, EvaluateByDepends
  <2>5. g[t] = EvaluateBy(g, t)
    <3>1. Len(t) < Len(t) + 1
      BY <2>0
    <3> QED BY <2>1, <3>1 DEF Evaluates
  <2> QED BY <2>2, <2>4, <2>5
<1>3. f = [t \in Text |-> EvaluateBy(f, t)]
  <2> DEFINE r == [t \in Text |-> EvaluateBy(f, t)]
  <2>1. f \in [Text -> {f[t] : t \in Text}]
    OBVIOUS
  <2>2. f = [t \in Text |-> f[t]]
    OBVIOUS
  <2> HIDE DEF f
  <2>3. [t \in Text |-> f[t]] = [t \in Text |-> EvaluateBy(f, t)]
    BY <1>2
  <2> QED BY <2>2, <2>3
<1> HIDE DEF f
<1>4. Evaluate = [t \in Text |-> EvaluateBy(Evaluate, t)]
  BY <1>3 DEF Evaluate
<1> QED BY <1>4

-----------------------------------------------------------------------------
(* How an expression is built shows in its text.                           *)

IsLeaf(e, v) ==
    /\ v \in Comparison /\ e.kind = "leaf" /\ e.text = <<v>>
    /\ e.meant <=> v = "T"

IsGroup(e, x) ==
    /\ x \in Expression /\ e.kind = "group" /\ e.of[1] = x
    /\ e.text = <<"(">> \o x.text \o <<")">>
    /\ e.meant <=> x.meant
    /\ e.hidden <=> x.hidden
    /\ e.twice <=> x.twice \/ (x.kind = "group" /\ x.of[1].kind = "leaf")

IsJoin(e, f, u) ==
    /\ f \in Expression /\ u \in Expression /\ e.kind = "join" /\ e.op \in Connective
    /\ f.kind = "join" => f.op = e.op
    /\ u.kind # "join"
    /\ e.text = f.text \o <<e.op>> \o u.text
    /\ e.meant <=> IF e.op = "&&" THEN f.meant /\ u.meant ELSE f.meant \/ u.meant
    /\ e.hidden <=> \/ f.hidden \/ u.hidden
                    \/ e.op = "||" /\ (Mentions(f.text, {"&&"}) \/ Mentions(u.text, {"&&"}))
    /\ e.twice <=> f.twice \/ u.twice

LEMMA Built ==
    ASSUME NEW e \in Expression
    PROVE  /\ e.text \in Text
           /\ \/ \E v : IsLeaf(e, v)
              \/ \E x : IsGroup(e, x)
              \/ \E f, u : IsJoin(e, f, u)
<1>1. /\ e.text \in Text
      /\ \/ \E v \in Comparison : e = Leaf(v)
         \/ e.kind = "group" /\ e.of[1] \in Expression /\ e = Group(e.of[1])
         \/ /\ e.kind = "join" /\ e.op \in Connective
            /\ e.of[1] \in Expression /\ e.of[2] \in Expression
            /\ e = Join(e.of[1], e.op, e.of[2])
            /\ e.of[1].kind = "join" => e.of[1].op = e.op
            /\ e.of[2].kind # "join"
  BY ExpressionAssumption DEF WellFormed
<1>2. ASSUME NEW v \in Comparison, e = Leaf(v) PROVE IsLeaf(e, v)
  BY <1>2 DEF IsLeaf, Leaf
<1>3. ASSUME e.kind = "group", e.of[1] \in Expression, e = Group(e.of[1])
      PROVE IsGroup(e, e.of[1])
  <2> DEFINE x == e.of[1]
  <2>1. x \in Expression /\ e = Group(x) /\ e.of[1] = x
    BY <1>3
  <2> HIDE DEF x
  <2>2. IsGroup(e, x)
    <3>1. /\ e.kind = "group" /\ e.text = <<"(">> \o x.text \o <<")">>
          /\ e.meant = x.meant /\ e.hidden = x.hidden
          /\ e.twice = (x.twice \/ (x.kind = "group" /\ x.of[1].kind = "leaf"))
      BY <2>1 DEF Group
    <3> QED BY <2>1, <3>1, Zenon DEF IsGroup
  <2> QED BY <2>2 DEF x
<1>4. ASSUME e.kind = "join", e.op \in Connective,
             e.of[1] \in Expression, e.of[2] \in Expression, e = Join(e.of[1], e.op, e.of[2]),
             e.of[1].kind = "join" => e.of[1].op = e.op, e.of[2].kind # "join"
      PROVE IsJoin(e, e.of[1], e.of[2])
  <2> DEFINE f == e.of[1]
             u == e.of[2]
             op == e.op
  <2>1. /\ f \in Expression /\ u \in Expression /\ op \in Connective /\ e = Join(f, op, u)
        /\ e.op = op /\ (f.kind = "join" => f.op = op) /\ u.kind # "join"
    BY <1>4
  <2> HIDE DEF f, u, op
  <2>2. IsJoin(e, f, u)
    <3>1. /\ e.kind = "join" /\ e.text = f.text \o <<op>> \o u.text
          /\ e.meant = IF op = "&&" THEN f.meant /\ u.meant ELSE f.meant \/ u.meant
          /\ e.hidden = (f.hidden \/ u.hidden
                         \/ (op = "||" /\ (Mentions(f.text, {"&&"}) \/ Mentions(u.text, {"&&"}))))
          /\ e.twice = (f.twice \/ u.twice)
      BY <2>1 DEF Join
    <3> QED BY <2>1, <3>1, Zenon DEF IsJoin
  <2> QED BY <2>2 DEF f, u
<1> QED BY <1>1, <1>2, <1>3, <1>4

\* What may be shown for every expression may be shown for the shortest ones
\* for which it does not hold.
LEMMA Shortest ==
    ASSUME NEW S, S \subseteq Expression, S # {}
    PROVE  \E e \in S : \A x \in S : Len(e.text) <= Len(x.text)
<1> DEFINE lengths == {Len(e.text) : e \in S}
<1>1. lengths \subseteq Nat
  BY Built, TextIs
<1>2. PICK m \in lengths : \A y \in lengths : m <= y
  <2>1. lengths # {}
    OBVIOUS
  <2> HIDE DEF lengths
  <2> QED BY <1>1, <2>1, LeastNat
<1> QED BY <1>2

LEMMA GroupIsLonger ==
    ASSUME NEW e \in Expression, NEW x, IsGroup(e, x)
    PROVE  x.text \in Text /\ Len(x.text) < Len(e.text)
<1> DEFINE l == <<"(">>
           r == <<")">>
           s == x.text
<1>0. x \in Expression /\ e.text = l \o s \o r
  BY DEF IsGroup
<1>1. s \in Text /\ Len(s) \in Nat /\ "(" \in Token /\ ")" \in Token
  BY <1>0, Built, TextIs DEF Token
<1>2. l \in Text /\ r \in Text /\ Len(l) = 1 /\ Len(r) = 1
  BY <1>1, OneToken
<1> HIDE DEF l, r, s
<1>3. l \o s \in Text /\ Len(l \o s) = 1 + Len(s)
  <2>1. l \o s \in Text /\ Len(l \o s) = Len(l) + Len(s)
    BY <1>1, <1>2, Together
  <2> QED BY <1>2, <2>1
<1>4. Len(l \o s \o r) = (1 + Len(s)) + 1
  BY <1>2, <1>3, Together
<1>5. Len(s) < Len(e.text)
  BY <1>0, <1>1, <1>4
<1> QED BY <1>1, <1>5 DEF s

LEMMA JoinIsLonger ==
    ASSUME NEW e \in Expression, NEW f, NEW u, IsJoin(e, f, u)
    PROVE  /\ f.text \in Text /\ Len(f.text) < Len(e.text)
           /\ u.text \in Text /\ Len(u.text) < Len(e.text)
           /\ \A T : Mentions(e.text, T) <=>
                       Mentions(f.text, T) \/ e.op \in T \/ Mentions(u.text, T)
<1> DEFINE s == f.text
           o == <<e.op>>
           t == u.text
           so == s \o o
<1>0. f \in Expression /\ u \in Expression /\ e.op \in Connective /\ e.text = so \o t
  BY DEF IsJoin
<1>1. s \in Text /\ Len(s) \in Nat /\ t \in Text /\ Len(t) \in Nat /\ e.op \in Token
  BY <1>0, Built, TextIs DEF Token
<1>2. o \in Text /\ Len(o) = 1
  BY <1>1, OneToken
<1>3. \A T : Mentions(o, T) <=> e.op \in T
  BY <1>1, MentionsOne
<1> HIDE DEF s, o, t
<1>4. so \in Text /\ Len(so) = Len(s) + 1
  <2>1. so \in Text /\ Len(so) = Len(s) + Len(o)
    BY <1>1, <1>2, Together
  <2> QED BY <1>2, <2>1
<1>5. \A T : Mentions(so, T) <=> Mentions(s, T) \/ Mentions(o, T)
  BY <1>1, <1>2, MentionsTogether
<1> HIDE DEF so
<1>6. Len(so \o t) = (Len(s) + 1) + Len(t)
  <2>1. Len(so \o t) = Len(so) + Len(t)
    BY <1>1, <1>4, Together
  <2> QED BY <1>4, <2>1
<1>7. \A T : Mentions(so \o t, T) <=> Mentions(so, T) \/ Mentions(t, T)
  BY <1>1, <1>4, MentionsTogether
<1>8. Len(s) < Len(e.text) /\ Len(t) < Len(e.text)
  BY <1>0, <1>1, <1>6
<1>9. \A T : Mentions(e.text, T) <=> Mentions(s, T) \/ e.op \in T \/ Mentions(t, T)
  BY <1>0, <1>3, <1>5, <1>7, Zenon
<1> QED BY <1>1, <1>8, <1>9 DEF s, t

\* The connectives of another kind on the same level: there are none.
LEMMA GoesOnBalanced ==
    ASSUME NEW f, NEW op, NEW u, NEW s, GoesOn(f, op, u, s)
    PROVE  /\ Balanced(s)
           /\ \A c : c # op /\ CutsAt(f, c) = {} /\ CutsAt(u, c) = {} => CutsAt(s, c) = {}
<1> DEFINE o == <<op>>
           fo == f \o o
<1>0. /\ Balanced(f) /\ Balanced(u) /\ s = fo \o u /\ op \in Token /\ op \notin {"(", ")"}
      /\ f \in Text /\ u \in Text /\ Total(f) = 0
  BY DEF GoesOn, Token, Connective, Balanced
<1>1. o \in Text /\ Balanced(o) /\ \A c : c # op => CutsAt(o, c) = {}
  BY <1>0, OneToken, BalancedOne, CutsOne
<1> HIDE DEF o
<1>2. Balanced(fo)
  BY <1>0, <1>1, BalancedTogether
<1>3. fo \in Text /\ Total(fo) = 0
  BY <1>2 DEF Balanced
<1>4. ASSUME NEW c, c # op, CutsAt(f, c) = {}, CutsAt(u, c) = {} PROVE CutsAt(s, c) = {}
  <2>1. CutsAt(fo, c) = CutsAt(f, c) \cup {Len(f) + i : i \in CutsAt(o, c)}
    BY <1>0, <1>1, CutsTogether
  <2>2. CutsAt(o, c) = {}
    BY <1>1, <1>4
  <2>3. CutsAt(fo, c) = {}
    BY <1>4, <2>1, <2>2
  <2> HIDE DEF fo
  <2>4. CutsAt(fo \o u, c) = CutsAt(fo, c) \cup {Len(fo) + i : i \in CutsAt(u, c)}
    BY <1>0, <1>3, CutsTogether
  <2>5. CutsAt(fo \o u, c) = {}
    BY <1>4, <2>3, <2>4
  <2> QED BY <1>0, <2>5
<1> HIDE DEF fo
<1>5. Balanced(s)
  <2>1. Balanced(fo \o u)
    BY <1>0, <1>2, BalancedTogether
  <2> QED BY <1>0, <2>1
<1> QED BY <1>4, <1>5

Shaped(e) ==
    /\ Balanced(e.text)
    /\ \A op \in Connective : (e.kind = "join" => op # e.op) => CutsAt(e.text, op) = {}

LEMMA JoinGoesOn ==
    ASSUME NEW e, NEW f, NEW u, IsJoin(e, f, u), Shaped(f), Shaped(u)
    PROVE  GoesOn(f.text, e.op, u.text, e.text)
<1>1. /\ e.op \in Connective /\ u.kind # "join" /\ e.text = f.text \o <<e.op>> \o u.text
  BY DEF IsJoin
<1>2. Balanced(f.text) /\ Balanced(u.text) /\ CutsAt(u.text, e.op) = {}
  BY <1>1 DEF Shaped
<1> QED BY <1>1, <1>2 DEF GoesOn

\* Parentheses belong together, and on one level there are connectives of one
\* kind.
LEMMA AllShaped ==
    ASSUME NEW e \in Expression
    PROVE  Shaped(e)
<1> DEFINE bad == {x \in Expression : ~Shaped(x)}
<1> SUFFICES ASSUME bad # {} PROVE FALSE
  OBVIOUS
<1>1. PICK b \in bad : \A x \in bad : Len(b.text) <= Len(x.text)
  <2>1. bad \subseteq Expression
    OBVIOUS
  <2> HIDE DEF bad
  <2> QED BY <2>1, Shortest
<1>2. b \in Expression /\ ~Shaped(b) /\ b.text \in Text /\ Len(b.text) \in Nat
  BY Built, TextIs
<1>3. ASSUME NEW x \in Expression, x.text \in Text, Len(x.text) < Len(b.text) PROVE Shaped(x)
  <2>1. Len(x.text) \in Nat
    BY <1>3, TextIs
  <2> QED BY <1>1, <1>2, <1>3, <2>1
<1> HIDE DEF bad
<1>4. ASSUME NEW v, IsLeaf(b, v) PROVE FALSE
  <2>1. b.text = <<v>> /\ b.kind = "leaf" /\ v \in Token /\ v \notin {"(", ")"} /\ v \notin Connective
    BY <1>4 DEF IsLeaf, Token, Comparison, Connective
  <2>2. Balanced(<<v>>)
    BY <2>1, BalancedOne
  <2>3. \A op \in Connective : CutsAt(<<v>>, op) = {}
    BY <2>1, CutsOne
  <2> QED BY <1>2, <2>1, <2>2, <2>3 DEF Shaped
<1>5. ASSUME NEW x, IsGroup(b, x) PROVE FALSE
  <2>1. x \in Expression /\ b.kind = "group" /\ b.text = <<"(">> \o x.text \o <<")">>
    BY <1>5 DEF IsGroup
  <2>2. Balanced(x.text)
    BY <1>2, <1>3, <1>5, <2>1, GroupIsLonger DEF Shaped
  <2>3. Balanced(b.text) /\ \A op \in Connective : CutsAt(b.text, op) = {}
    BY <2>1, <2>2, InParentheses
  <2> QED BY <1>2, <2>1, <2>3 DEF Shaped
<1>6. ASSUME NEW f, NEW u, IsJoin(b, f, u) PROVE FALSE
  <2>1. /\ f \in Expression /\ u \in Expression /\ b.kind = "join"
        /\ (f.kind = "join" => f.op = b.op) /\ u.kind # "join"
    BY <1>6 DEF IsJoin
  <2>2. Shaped(f) /\ Shaped(u)
    BY <1>2, <1>3, <1>6, <2>1, JoinIsLonger
  <2>3. GoesOn(f.text, b.op, u.text, b.text)
    BY <1>6, <2>2, JoinGoesOn
  <2>4. /\ Balanced(b.text)
        /\ \A c : c # b.op /\ CutsAt(f.text, c) = {} /\ CutsAt(u.text, c) = {}
                     => CutsAt(b.text, c) = {}
    BY <2>3, GoesOnBalanced
  <2>5. ASSUME NEW c \in Connective, c # b.op PROVE CutsAt(f.text, c) = {} /\ CutsAt(u.text, c) = {}
    BY <2>1, <2>2, <2>5 DEF Shaped
  <2> QED BY <1>2, <2>1, <2>4, <2>5 DEF Shaped
<1> QED BY <1>2, <1>4, <1>5, <1>6, Built

-----------------------------------------------------------------------------
(* What an expression is evaluated to.                                     *)

LEMMA NotSplit ==
    ASSUME NEW s \in Text, s # <<>>, ~Mentions(Stripped(s), Connective)
    PROVE  Evaluate[s] = Single(Stripped(s))
<1>1. EvaluateBy(Evaluate, s) = Single(Stripped(s))
  BY DEF EvaluateBy
<1> QED BY <1>1, EvaluateIs

LEMMA Split ==
    ASSUME NEW s \in Text, NEW n, n = Stripped(s), Mentions(n, Connective)
    PROVE  Evaluate[s] =
             IF n = s /\ Parts(n, SplitBy(n)) = {<<1, Len(n)>>} THEN "endless"
             ELSE Combined(Evaluate, n, SplitBy(n))
<1>1. s # <<>>
  <2> SUFFICES ASSUME s = <<>> PROVE FALSE
    OBVIOUS
  <2>1. n = s
    BY DEF Stripped, Enclosed
  <2>2. DOMAIN n = {}
    BY <2>1
  <2> QED BY <2>2 DEF Mentions
<1>2. EvaluateBy(Evaluate, s) =
        IF n = s /\ Parts(n, SplitBy(n)) = {<<1, Len(n)>>} THEN "endless"
        ELSE Combined(Evaluate, n, SplitBy(n))
  BY <1>1 DEF EvaluateBy
<1> QED BY <1>2, EvaluateIs

\* An expression without connectives is a comparison, in parentheses or not.
Bare(e) ==
    ~e.twice /\ ~Mentions(e.text, Connective)
        => e.kind = "leaf" \/ (e.kind = "group" /\ e.of[1].kind = "leaf")

LEMMA AllBare ==
    ASSUME NEW e \in Expression
    PROVE  Bare(e)
<1> DEFINE bad == {x \in Expression : ~Bare(x)}
<1> SUFFICES ASSUME bad # {} PROVE FALSE
  OBVIOUS
<1>1. PICK b \in bad : \A x \in bad : Len(b.text) <= Len(x.text)
  <2>1. bad \subseteq Expression
    OBVIOUS
  <2> HIDE DEF bad
  <2> QED BY <2>1, Shortest
<1>2. b \in Expression /\ ~Bare(b) /\ b.text \in Text /\ Len(b.text) \in Nat
  BY Built, TextIs
<1>3. ASSUME NEW x \in Expression, x.text \in Text, Len(x.text) < Len(b.text) PROVE Bare(x)
  <2>1. Len(x.text) \in Nat
    BY <1>3, TextIs
  <2> QED BY <1>1, <1>2, <1>3, <2>1
<1> HIDE DEF bad
<1>4. ASSUME NEW v, IsLeaf(b, v) PROVE FALSE
  BY <1>2, <1>4 DEF IsLeaf, Bare
<1>5. ASSUME NEW x, IsGroup(b, x) PROVE FALSE
  <2>1. /\ x \in Expression /\ b.kind = "group" /\ b.text = <<"(">> \o x.text \o <<")">>
        /\ b.of[1] = x
        /\ b.twice <=> x.twice \/ (x.kind = "group" /\ x.of[1].kind = "leaf")
    BY <1>5 DEF IsGroup
  <2>2. Bare(x)
    BY <1>2, <1>3, <1>5, <2>1, GroupIsLonger
  <2>3. Mentions(b.text, Connective) <=> Mentions(x.text, Connective)
    <3>1. Balanced(x.text)
      BY <2>1, AllShaped DEF Shaped
    <3> QED BY <2>1, <3>1, InParentheses
  <2> QED BY <1>2, <2>1, <2>2, <2>3 DEF Bare
<1>6. ASSUME NEW f, NEW u, IsJoin(b, f, u) PROVE FALSE
  <2>1. Mentions(b.text, Connective) <=>
           Mentions(f.text, Connective) \/ b.op \in Connective \/ Mentions(u.text, Connective)
    BY <1>2, <1>6, JoinIsLonger
  <2>2. b.op \in Connective
    BY <1>6 DEF IsJoin
  <2> QED BY <1>2, <2>1, <2>2 DEF Bare
<1> QED BY <1>2, <1>4, <1>5, <1>6, Built

Meant(e) == IF e.meant THEN "holds" ELSE "fails"

Valued(e) ==
    ~e.hidden /\ ~e.twice =>
        /\ e.kind = "join" => Combined(Evaluate, e.text, e.op) = Meant(e)
        /\ ~StrippedWrongly(e) => Evaluate[e.text] = Meant(e)

\* A chain whose parentheses hold no && beside a || is split at its own
\* connective.
LEMMA SplitByItsOwn ==
    ASSUME NEW e \in Expression, NEW f, NEW u, IsJoin(e, f, u), ~e.hidden
    PROVE  SplitBy(e.text) = e.op /\ Mentions(e.text, Connective)
<1>1. \A T : Mentions(e.text, T) <=> Mentions(f.text, T) \/ e.op \in T \/ Mentions(u.text, T)
  BY JoinIsLonger
<1>2. /\ e.op \in {"&&", "||"}
      /\ e.op = "||" => ~Mentions(f.text, {"&&"}) /\ ~Mentions(u.text, {"&&"})
  BY DEF IsJoin, Connective
<1>3. Mentions(e.text, Connective)
  BY <1>1, <1>2 DEF Connective
<1>4. Mentions(e.text, {"&&"}) <=> e.op = "&&"
  <2>1. Mentions(e.text, {"&&"}) <=>
          Mentions(f.text, {"&&"}) \/ e.op \in {"&&"} \/ Mentions(u.text, {"&&"})
    BY <1>1
  <2> QED BY <1>2, <2>1
<1> QED BY <1>2, <1>3, <1>4 DEF SplitBy

\* Text that is not empty and not cut, in parentheses: it is evaluated without
\* them.
LEMMA GroupEvaluated ==
    ASSUME NEW e \in Expression, NEW x, IsGroup(e, x), Mentions(x.text, Connective)
    PROVE  Evaluate[e.text] = Combined(Evaluate, x.text, SplitBy(x.text))
<1>1. x \in Expression /\ e.text = <<"(">> \o x.text \o <<")">> /\ e.text \in Text
  BY Built DEF IsGroup
<1>2. Balanced(x.text) /\ x.text \in Text /\ Len(x.text) \in Nat
  BY <1>1, AllShaped, TextIs DEF Shaped, Balanced
<1>3. Stripped(e.text) = x.text
  BY <1>1, <1>2, InParentheses
<1>4. x.text # e.text
  <2>1. Len(x.text) < Len(e.text)
    BY GroupIsLonger
  <2> QED BY <1>2, <2>1
<1> DEFINE n == x.text
<1>5. n = Stripped(e.text) /\ Mentions(n, Connective) /\ n # e.text
  BY <1>3, <1>4
<1> HIDE DEF n
<1>6. Evaluate[e.text] = Combined(Evaluate, n, SplitBy(n))
  BY <1>1, <1>5, Split
<1> QED BY <1>6 DEF n

LEMMA UnitCombined ==
    ASSUME NEW x \in Expression, x.kind # "join", NEW op \in Connective, NEW value
    PROVE  Combined(value, x.text, op) = value[x.text]
<1>1. x.text \in Text /\ x.text # <<>> /\ CutsAt(x.text, op) = {}
  BY AllShaped DEF Shaped, Balanced
<1> QED BY <1>1, CombinedWhole

LEMMA LeafValued ==
    ASSUME NEW e \in Expression, NEW v, IsLeaf(e, v)
    PROVE  Evaluate[e.text] = Meant(e) /\ e.kind # "join"
<1>1. v \in Comparison /\ e.text = <<v>> /\ (e.meant <=> v = "T") /\ v \in Token /\ e.kind = "leaf"
  BY DEF IsLeaf, Token
<1>2. <<v>> \in Text /\ Len(<<v>>) = 1 /\ <<v>>[1] = v /\ <<v>> # <<>>
  BY <1>1, OneToken
<1>3. Stripped(<<v>>) = <<v>>
  <2>1. ~Enclosed(<<v>>)
    BY <1>1, <1>2 DEF Enclosed, Comparison
  <2> QED BY <2>1 DEF Stripped
<1>4. ~Mentions(<<v>>, Connective)
  BY <1>1, MentionsOne DEF Comparison, Connective
<1>5. Evaluate[<<v>>] = Single(<<v>>)
  BY <1>2, <1>3, <1>4, NotSplit
<1>6. <<v>> = <<"T">> <=> v = "T"
  OBVIOUS
<1> QED BY <1>1, <1>5, <1>6 DEF Single, Meant

LEMMA GroupValued ==
    ASSUME NEW e \in Expression, NEW x, IsGroup(e, x), Valued(x)
    PROVE  Valued(e)
<1>1. /\ x \in Expression /\ e.kind = "group" /\ (e.meant <=> x.meant) /\ (e.hidden <=> x.hidden)
      /\ e.text = <<"(">> \o x.text \o <<")">> /\ e.of[1] = x
      /\ e.twice <=> x.twice \/ (x.kind = "group" /\ x.of[1].kind = "leaf")
  BY DEF IsGroup
<1> SUFFICES ASSUME ~e.hidden, ~e.twice PROVE Evaluate[e.text] = Meant(e)
  BY <1>1 DEF Valued
<1>2. ~x.hidden /\ ~x.twice /\ ~(x.kind = "group" /\ x.of[1].kind = "leaf") /\ Meant(e) = Meant(x)
  BY <1>1 DEF Meant
<1>3. x.kind # "join" => Evaluate[x.text] = Meant(x)
  BY <1>2 DEF Valued, StrippedWrongly
<1>4. ASSUME NEW v, IsLeaf(x, v) PROVE Evaluate[e.text] = Meant(e)
  <2>1. v \in Comparison /\ x.text = <<v>> /\ (x.meant <=> v = "T") /\ v \in Token
    BY <1>4 DEF IsLeaf, Token
  <2>2. ~Mentions(<<v>>, Connective)
    BY <2>1, MentionsOne DEF Comparison, Connective
  <2>3. Balanced(x.text) /\ Balanced(e.text)
    BY <1>1, AllShaped DEF Shaped
  <2>4. Stripped(e.text) = <<v>> /\ e.text \in Text /\ e.text # <<>>
    BY <1>1, <2>1, <2>3, InParentheses DEF Balanced
  <2>5. Evaluate[e.text] = Single(<<v>>)
    BY <2>2, <2>4, NotSplit
  <2>6. <<v>> = <<"T">> <=> v = "T"
    OBVIOUS
  <2> QED BY <1>2, <2>1, <2>5, <2>6 DEF Single, Meant
<1>5. ASSUME NEW y, IsGroup(x, y) PROVE Evaluate[e.text] = Meant(e)
  <2>1. x.kind = "group" /\ x.of[1].kind # "leaf"
    BY <1>2, <1>5 DEF IsGroup
  <2>2. Mentions(x.text, Connective)
    BY <1>1, <1>2, <2>1, AllBare DEF Bare
  <2>3. SplitBy(x.text) \in Connective
    BY DEF SplitBy, Connective
  <2>4. Combined(Evaluate, x.text, SplitBy(x.text)) = Evaluate[x.text]
    BY <1>1, <2>1, <2>3, UnitCombined
  <2>5. Evaluate[e.text] = Combined(Evaluate, x.text, SplitBy(x.text))
    BY <2>2, GroupEvaluated
  <2> QED BY <1>2, <1>3, <2>1, <2>4, <2>5
<1>6. ASSUME NEW f, NEW u, IsJoin(x, f, u) PROVE Evaluate[e.text] = Meant(e)
  <2>1. x.kind = "join"
    BY <1>6 DEF IsJoin
  <2>2. SplitBy(x.text) = x.op /\ Mentions(x.text, Connective)
    BY <1>1, <1>2, <1>6, SplitByItsOwn
  <2>3. Combined(Evaluate, x.text, x.op) = Meant(x)
    BY <1>2, <2>1 DEF Valued
  <2>4. Evaluate[e.text] = Combined(Evaluate, x.text, SplitBy(x.text))
    BY <2>2, GroupEvaluated
  <2> QED BY <1>2, <2>2, <2>3, <2>4
<1> QED BY <1>1, <1>4, <1>5, <1>6, Built

LEMMA JoinValued ==
    ASSUME NEW e \in Expression, NEW f, NEW u, IsJoin(e, f, u), Valued(f), Valued(u)
    PROVE  Valued(e)
<1>1. /\ f \in Expression /\ u \in Expression /\ e.kind = "join" /\ e.op \in Connective
      /\ f.kind = "join" => f.op = e.op
      /\ u.kind # "join"
      /\ e.meant <=> IF e.op = "&&" THEN f.meant /\ u.meant ELSE f.meant \/ u.meant
      /\ ~e.hidden => ~f.hidden /\ ~u.hidden
      /\ ~e.twice => ~f.twice /\ ~u.twice
  BY DEF IsJoin
<1> SUFFICES ASSUME ~e.hidden, ~e.twice
             PROVE  /\ Combined(Evaluate, e.text, e.op) = Meant(e)
                    /\ ~StrippedWrongly(e) => Evaluate[e.text] = Meant(e)
  BY DEF Valued
<1>2. Evaluate[u.text] = Meant(u)
  BY <1>1 DEF Valued, StrippedWrongly
<1>3. Combined(Evaluate, f.text, e.op) = Meant(f)
  <2>1. CASE f.kind = "join"
    BY <1>1, <2>1 DEF Valued
  <2>2. CASE f.kind # "join"
    <3>1. Evaluate[f.text] = Meant(f)
      BY <1>1, <2>2 DEF Valued, StrippedWrongly
    <3>2. Combined(Evaluate, f.text, e.op) = Evaluate[f.text]
      BY <1>1, <2>2, UnitCombined
    <3> QED BY <3>1, <3>2
  <2> QED BY <2>1, <2>2
<1>4. GoesOn(f.text, e.op, u.text, e.text)
  BY <1>1, AllShaped, JoinGoesOn
<1>5. Combined(Evaluate, e.text, e.op) = Meant(e)
  <2>1. Combined(Evaluate, e.text, e.op) =
          IF Meant(f) # Go(e.op) THEN Meant(f) ELSE Meant(u)
    BY <1>2, <1>3, <1>4, CombinedGoesOn
  <2>2. e.op \in {"&&", "||"}
    BY <1>1 DEF Connective
  <2> QED BY <1>1, <2>1, <2>2 DEF Go, Meant
<1>6. ASSUME ~StrippedWrongly(e) PROVE Evaluate[e.text] = Meant(e)
  <2> DEFINE n == e.text
  <2>1. n \in Text /\ SplitBy(n) = e.op /\ Mentions(n, Connective)
    BY Built, SplitByItsOwn
  <2>2. n = Stripped(n)
    BY <1>1, <1>6 DEF StrippedWrongly, Stripped
  <2>3. <<Len(f.text) + 2, Len(n)>> \in Parts(n, e.op) /\ Len(f.text) \in Nat
    <3>1. HasOneMore(f.text, e.op, u.text, n)
      BY <1>4, PartsGoOn
    <3>2. f.text \in Text
      BY <1>1, Built
    <3> QED BY <3>1, <3>2, TextIs DEF HasOneMore
  <2>4. Combined(Evaluate, n, e.op) = Meant(e)
    BY <1>5
  <2> HIDE DEF n
  <2>5. Parts(n, SplitBy(n)) # {<<1, Len(n)>>}
    <3>1. <<Len(f.text) + 2, Len(n)>> # <<1, Len(n)>>
      BY <2>3
    <3> QED BY <2>1, <2>3, <3>1
  <2>6. Evaluate[n] = Combined(Evaluate, n, SplitBy(n))
    BY <2>1, <2>2, <2>5, Split
  <2> QED BY <2>1, <2>4, <2>6 DEF n
<1> QED BY <1>5, <1>6

LEMMA AllValued ==
    ASSUME NEW e \in Expression
    PROVE  Valued(e)
<1> DEFINE bad == {x \in Expression : ~Valued(x)}
<1> SUFFICES ASSUME bad # {} PROVE FALSE
  OBVIOUS
<1>1. PICK b \in bad : \A x \in bad : Len(b.text) <= Len(x.text)
  <2>1. bad \subseteq Expression
    OBVIOUS
  <2> HIDE DEF bad
  <2> QED BY <2>1, Shortest
<1>2. b \in Expression /\ ~Valued(b) /\ b.text \in Text /\ Len(b.text) \in Nat
  BY Built, TextIs
<1>3. ASSUME NEW x \in Expression, x.text \in Text, Len(x.text) < Len(b.text) PROVE Valued(x)
  <2>1. Len(x.text) \in Nat
    BY <1>3, TextIs
  <2> QED BY <1>1, <1>2, <1>3, <2>1
<1> HIDE DEF bad
<1>4. ASSUME NEW v, IsLeaf(b, v) PROVE FALSE
  <2>1. Evaluate[b.text] = Meant(b) /\ b.kind # "join"
    BY <1>2, <1>4, LeafValued
  <2> QED BY <1>2, <2>1 DEF Valued
<1>5. ASSUME NEW x, IsGroup(b, x) PROVE FALSE
  <2>1. x \in Expression
    BY <1>5 DEF IsGroup
  <2>2. Valued(x)
    BY <1>2, <1>3, <1>5, <2>1, GroupIsLonger
  <2> QED BY <1>2, <1>5, <2>2, GroupValued
<1>6. ASSUME NEW f, NEW u, IsJoin(b, f, u) PROVE FALSE
  <2>1. f \in Expression /\ u \in Expression
    BY <1>6 DEF IsJoin
  <2>2. Valued(f) /\ Valued(u)
    BY <1>2, <1>3, <1>6, <2>1, JoinIsLonger
  <2> QED BY <1>2, <1>6, <2>2, JoinValued
<1> QED BY <1>2, <1>4, <1>5, <1>6, Built

\* What is not evaluated: the expression is its own only part.
LEMMA HiddenEndless ==
    ASSUME NEW e \in Expression, HidesAnd(e)
    PROVE  Evaluate[e.text] = "endless"
<1> DEFINE n == e.text
<1>1. /\ e.kind = "join" /\ e.op = "||" /\ Mentions(n, {"&&"}) /\ ~Enclosed(n)
  BY DEF HidesAnd
<1>2. n \in Text /\ n # <<>> /\ CutsAt(n, "&&") = {}
  BY <1>1, AllShaped DEF Shaped, Balanced, Connective
<1> HIDE DEF n
<1>3. n = Stripped(n)
  BY <1>1 DEF Stripped
<1>4. SplitBy(n) = "&&" /\ Mentions(n, Connective)
  BY <1>1 DEF SplitBy, Mentions, Connective
<1>5. Parts(n, SplitBy(n)) = {<<1, Len(n)>>}
  BY <1>2, <1>4, WholePart
<1>6. Evaluate[n] = "endless"
  BY <1>2, <1>3, <1>4, <1>5, Split
<1> QED BY <1>6 DEF n

LEMMA HiddenInGroupEndless ==
    ASSUME NEW e \in Expression, e.kind = "group", HidesAnd(e.of[1])
    PROVE  Evaluate[e.text] = "endless"
<1>1. PICK x : IsGroup(e, x)
  BY Built DEF IsLeaf, IsJoin
<1>2. x \in Expression /\ HidesAnd(x)
  BY <1>1 DEF IsGroup
<1>3. Mentions(x.text, {"&&"}) /\ x.text \in Text /\ x.text # <<>> /\ CutsAt(x.text, "&&") = {}
  BY <1>2, AllShaped DEF HidesAnd, Shaped, Balanced, Connective
<1>4. SplitBy(x.text) = "&&" /\ Mentions(x.text, Connective)
  BY <1>3 DEF SplitBy, Mentions, Connective
<1>5. Evaluate[e.text] = Combined(Evaluate, x.text, "&&")
  BY <1>1, <1>4, GroupEvaluated
<1>6. Combined(Evaluate, x.text, "&&") = Evaluate[x.text]
  BY <1>3, CombinedWhole
<1> QED BY <1>2, <1>5, <1>6, HiddenEndless

ConditionInv ==
    /\ expression \in Expression
    /\ verdict # "none" => verdict = Evaluate[expression.text]

\* Whatever an administrator writes between connectives of one kind on each
\* level, of whatever length and depth: evaluate_condition_expression
\* (edge_evaluator.py:110-132) gives what it means, with the three exceptions of
\* EvaluatedAsMeant, of which it evaluates the second without end.
THEOREM ConditionsAsMeant == ConditionSpec => []EvaluatedAsMeant
<1>1. ConditionInit => ConditionInv
  BY DEF ConditionInit, ConditionInv
<1>2. ConditionInv /\ [EvaluateCondition]_conditionVars => ConditionInv'
  BY DEF ConditionInv, EvaluateCondition, conditionVars
<1>3. ConditionInv => EvaluatedAsMeant
  <2> SUFFICES ASSUME ConditionInv, verdict # "none"
               PROVE  /\ \/ verdict = Meant(expression)
                         \/ StrippedWrongly(expression) \/ expression.hidden \/ expression.twice
                      /\ HiddenIsEndless
    BY DEF EvaluatedAsMeant, Meant
  <2>1. expression \in Expression /\ verdict = Evaluate[expression.text]
    BY DEF ConditionInv
  <2>2. Valued(expression)
    BY <2>1, AllValued
  <2>3. HiddenIsEndless
    BY <2>1, HiddenEndless, HiddenInGroupEndless DEF HiddenIsEndless
  <2> QED BY <2>1, <2>2, <2>3 DEF Valued
<1> QED BY <1>1, <1>2, <1>3, PTL DEF ConditionSpec

=============================================================================
