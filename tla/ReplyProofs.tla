----------------------------- MODULE ReplyProofs -----------------------------
(* Proofs about the text of a turn.  For any words, any division of them into   *)
(* deltas, blocks and messages, and any flushing of the sink: when a turn is     *)
(* over the chat and the history have what the model said after its last tool,   *)
(* or its last aside.  The invariant follows what was said through the blocks    *)
(* not delivered yet, what the sink holds back, its buffers and the chat.        *)
EXTENDS TurnReply, FiniteSetTheorems, SequenceTheorems, WellFoundedInduction, TLAPS

-----------------------------------------------------------------------------
(* The text of a turn.                                                         *)

\* Some natural numbers have a least one.
LEMMA LeastIndex ==
  ASSUME NEW T \in SUBSET Nat, T # {}
  PROVE  \E m \in T : \A k \in T : m <= k
<1>1. PICK m \in T : \A k \in T : ~ (<<k, m>> \in OpToRel(<, Nat))
  BY NatLessThanWellFounded, WFMin
<1>2. \A k \in T : ~ (k < m)
  BY <1>1 DEF OpToRel
<1> QED
  BY <1>2

\* What holds at 0 and from each index to the next holds up to n.
LEMMA UpTo ==
  ASSUME NEW n \in Nat, NEW S, 0 \in S, \A i \in 0 .. n - 1 : i \in S => i + 1 \in S
  PROVE  \A i \in 0 .. n : i \in S
<1> DEFINE T == {i \in 0 .. n : i \notin S}
<1> SUFFICES ASSUME T # {} PROVE FALSE
  OBVIOUS
<1>1. PICK m \in T : \A k \in T : m <= k
  <2>1. T \in SUBSET Nat
    OBVIOUS
  <2> HIDE DEF T
  <2> QED  BY <2>1, LeastIndex
<1>2. m # 0 /\ m - 1 \in 0 .. n - 1 /\ m - 1 \notin T
  BY <1>1
<1>3. m - 1 \in S
  BY <1>2
<1>4. (m - 1) + 1 \in S
  BY <1>2, <1>3
<1> QED
  BY <1>1, <1>4

\* What the markup is made of.
LEMMA MarkupFacts ==
  /\ MaxWords \in Nat /\ {NavOpen, NavClose, Extra, Note} \subseteq 1 .. Note
  /\ 1 .. MaxWords \subseteq 1 .. Note /\ <<>> \in Text /\ NoHold \notin Text
  /\ NavOpen # NavClose /\ NavOpen # Extra /\ NavOpen # Note
  /\ NavClose # Extra /\ NavClose # Note /\ Extra # Note
  /\ \A f \in 1 .. MaxWords : f \notin {NavOpen, NavClose, Extra, Note}
<1> MaxWords \in Nat
  BY ReplyAssumption
<1>1. NoHold \notin Text
  <2> SUFFICES ASSUME NoHold \in Text PROVE FALSE
    OBVIOUS
  <2>1. NoHold[1] \in 1 .. Note
    BY DEF NoHold, Text
  <2> QED  BY <2>1 DEF NoHold, Note
<1>2. <<>> \in Text
  BY DEF Text
<1> QED
  BY <1>1, <1>2 DEF NavOpen, NavClose, Extra, Note

\* The elements of a text, of a part of it and of two texts together.
LEMMA TextIs ==
  ASSUME NEW t \in Text
  PROVE  Len(t) \in Nat /\ DOMAIN t = 1 .. Len(t) /\ \A k \in 1 .. Len(t) : t[k] \in 1 .. Note
<1>1. Len(t) \in Nat /\ DOMAIN t = 1 .. Len(t)
  BY LenProperties DEF Text
<1>2. \A k \in 1 .. Len(t) : t[k] \in 1 .. Note
  BY ElementOfSeq DEF Text
<1> QED
  BY <1>1, <1>2

LEMMA PartIs ==
  ASSUME NEW t \in Text, NEW m \in Nat \ {0}, NEW n \in 0 .. Len(t)
  PROVE  /\ SubSeq(t, m, n) \in Text
         /\ Len(SubSeq(t, m, n)) = IF m <= n THEN n - m + 1 ELSE 0
         /\ \A k \in 1 .. n - m + 1 : SubSeq(t, m, n)[k] = t[m + k - 1]
<1>1. \A i \in m .. n : t[i] \in 1 .. Note
  BY TextIs
<1>2. n \in Int /\ m \in Int
  BY TextIs
<1> QED
  BY <1>1, <1>2, SubSeqProperties DEF Text

LEMMA BothAre ==
  ASSUME NEW s \in Text, NEW t \in Text
  PROVE  /\ s \o t \in Text /\ Len(s \o t) = Len(s) + Len(t)
         /\ \A k \in 1 .. Len(s) : (s \o t)[k] = s[k]
         /\ \A k \in 1 .. Len(t) : (s \o t)[Len(s) + k] = t[k]
<1>1. /\ s \o t \in Seq(1 .. Note) /\ Len(s \o t) = Len(s) + Len(t)
      /\ \A i \in 1 .. Len(s) + Len(t) :
           (s \o t)[i] = IF i <= Len(s) THEN s[i] ELSE t[i - Len(s)]
  BY ConcatProperties DEF Text
<1>2. Len(s) \in Nat /\ Len(t) \in Nat
  BY TextIs
<1>3. \A k \in 1 .. Len(t) : (s \o t)[Len(s) + k] = t[k]
  <2> TAKE k \in 1 .. Len(t)
  <2>1. Len(s) + k \in 1 .. Len(s) + Len(t) /\ ~ (Len(s) + k <= Len(s)) /\ Len(s) + k - Len(s) = k
    BY <1>2
  <2> QED  BY <1>1, <2>1
<1> QED
  BY <1>1, <1>2, <1>3 DEF Text

LEMMA SameText ==
  ASSUME NEW s \in Text, NEW t \in Text, Len(s) = Len(t), \A k \in 1 .. Len(s) : s[k] = t[k]
  PROVE  s = t
BY SeqEqual DEF Text

LEMMA IsNavIs ==
  ASSUME NEW t \in Text
  PROVE  IsNav(t) <=> Len(t) >= 2 /\ t[1] = NavOpen /\ t[2] = NavClose
<1> DEFINE nav == <<NavOpen, NavClose>>
<1>0. NavOpen \in 1 .. Note /\ NavClose \in 1 .. Note
  BY MarkupFacts
<1>1. nav \in Seq(1 .. Note) /\ Len(nav) = 2 /\ nav[1] = NavOpen /\ nav[2] = NavClose
  BY <1>0
<1> HIDE DEF nav
<1>2. IsNav(t) <=> 2 <= Len(t) /\ SubSeq(nav, 1, 2) = SubSeq(t, 1, 2)
  BY <1>1 DEF IsNav, IsPrefix, nav
<1>3. SubSeq(nav, 1, 2) = nav
  BY <1>1
<1>4. ASSUME 2 <= Len(t)
      PROVE  nav = SubSeq(t, 1, 2) <=> t[1] = NavOpen /\ t[2] = NavClose
  <2>0. 2 \in 0 .. Len(t) /\ nav \in Text
    BY <1>1, <1>4, TextIs DEF Text
  <2>1. SubSeq(t, 1, 2) \in Text /\ Len(SubSeq(t, 1, 2)) = 2
        /\ SubSeq(t, 1, 2)[1] = t[1] /\ SubSeq(t, 1, 2)[2] = t[2]
    <3>1. /\ SubSeq(t, 1, 2) \in Text /\ Len(SubSeq(t, 1, 2)) = IF 1 <= 2 THEN 2 - 1 + 1 ELSE 0
          /\ \A k \in 1 .. 2 - 1 + 1 : SubSeq(t, 1, 2)[k] = t[1 + k - 1]
      BY <2>0, PartIs
    <3> QED  BY <3>1
  <2>2. ASSUME t[1] = NavOpen, t[2] = NavClose PROVE nav = SubSeq(t, 1, 2)
    <3>1. \A i \in 1 .. 2 : nav[i] = SubSeq(t, 1, 2)[i]
      BY <1>1, <2>1, <2>2
    <3> QED  BY <1>1, <2>0, <2>1, <3>1, SameText
  <2> QED  BY <2>1, <2>2, <1>1
<1>5. Len(t) \in Nat
  BY DEF Text
<1> QED
  BY <1>2, <1>3, <1>4, <1>5

LEMMA HoldIs ==
  ASSUME NEW t \in Text
  PROVE  HoldMore(t) <=> (\A k \in 1 .. Len(t) : t[k] # NavClose) /\ (t = <<>> \/ t[1] = NavOpen)
<1> DOMAIN t = 1 .. Len(t)
  BY DEF Text
<1> QED
  BY DEF HoldMore, ToSet

\* Unmarked leaves a text as it is or takes its first two elements off.
LEMMA UnmarkedIs ==
  ASSUME NEW t \in Text
  PROVE  /\ Unmarked(t) \in Text /\ Len(t) \in Nat
         /\ IsNav(t) => Len(t) >= 2 /\ Len(Unmarked(t)) = Len(t) - 2
                        /\ \A k \in 1 .. Len(t) - 2 : Unmarked(t)[k] = t[k + 2]
         /\ ~IsNav(t) => Unmarked(t) = t
<1>1. Len(t) \in Nat
  BY DEF Text
<1>2. CASE IsNav(t)
  <2>1. Len(t) >= 2 /\ 3 \in Nat \ {0} /\ Len(t) \in 0 .. Len(t)
    BY <1>1, <1>2, IsNavIs
  <2>2. /\ SubSeq(t, 3, Len(t)) \in Text
        /\ Len(SubSeq(t, 3, Len(t))) = IF 3 <= Len(t) THEN Len(t) - 3 + 1 ELSE 0
        /\ \A k \in 1 .. Len(t) - 3 + 1 : SubSeq(t, 3, Len(t))[k] = t[3 + k - 1]
    BY <2>1, PartIs
  <2>3. Unmarked(t) = SubSeq(t, 3, Len(t))
    BY <1>2 DEF Unmarked
  <2>4. \A k \in 1 .. Len(t) - 2 : k \in 1 .. Len(t) - 3 + 1 /\ 3 + k - 1 = k + 2
    BY <1>1
  <2>5. \A k \in 1 .. Len(t) - 2 : Unmarked(t)[k] = t[k + 2]
    BY <2>2, <2>3, <2>4
  <2>6. Len(Unmarked(t)) = Len(t) - 2
    <3> DEFINE n == Len(t)
               c == Len(SubSeq(t, 3, Len(t)))
    <3>1. n \in Nat /\ n >= 2 /\ c = IF 3 <= n THEN n - 3 + 1 ELSE 0
      BY <1>1, <2>1, <2>2
    <3> HIDE DEF n, c
    <3>2. c = n - 2
      BY <3>1
    <3> QED  BY <3>2, <2>3 DEF n, c
  <2> QED  BY <1>1, <1>2, <2>1, <2>2, <2>3, <2>5, <2>6
<1>3. CASE ~IsNav(t)
  BY <1>1, <1>3 DEF Unmarked
<1> QED
  BY <1>2, <1>3
\* Every number of a finite set has its place in it, and every place its number.
LEMMA KthIsThere ==
  ASSUME NEW n \in Nat, NEW K \in SUBSET (1 .. n)
  PROVE  \A k \in 1 .. Cardinality(K) : \E i \in K : Cardinality({j \in K : j < i}) = k - 1
<1> DEFINE Low(m) == {j \in K : j <= m}
           S == {m \in Nat : m <= n =>
                   \A k \in 1 .. Cardinality(Low(m)) :
                     \E i \in K : Cardinality({j \in K : j < i}) = k - 1}
<1>a. \A j \in K : j \in Nat /\ 1 <= j /\ j <= n
  OBVIOUS
<1>0. IsFiniteSet(K) /\ \A m \in Nat : IsFiniteSet(Low(m)) /\ Cardinality(Low(m)) \in Nat
  <2>1. IsFiniteSet(1 .. n)
    BY FS_Interval
  <2>2. IsFiniteSet(K)
    BY <2>1, FS_Subset
  <2>3. \A m \in Nat : Low(m) \in SUBSET K
    OBVIOUS
  <2> HIDE DEF Low
  <2>4. \A m \in Nat : IsFiniteSet(Low(m))
    BY <2>2, <2>3, FS_Subset
  <2> QED  BY <2>2, <2>4, FS_CardinalityType
<1>1. 0 \in S
  <2>1. Low(0) = {}
    <3>1. \A j \in K : ~ (j <= 0)
      BY <1>a
    <3> QED  BY <3>1
  <2>2. Cardinality(Low(0)) = 0
    BY <2>1, FS_EmptySet
  <2> HIDE DEF Low
  <2> QED  BY <2>2
<1>2. ASSUME NEW m \in 0 .. n - 1, m \in S PROVE m + 1 \in S
  <2>0. m \in Nat /\ m + 1 \in Nat /\ m <= n
    OBVIOUS
  <2>1. \A k \in 1 .. Cardinality(Low(m)) : \E i \in K : Cardinality({j \in K : j < i}) = k - 1
    BY <1>2, <2>0
  <2>2. CASE m + 1 \notin K
    <3>1. Low(m + 1) = Low(m)
      <4>1. \A j \in K : j <= m + 1 <=> j <= m
        BY <1>a, <2>0, <2>2
      <4> QED  BY <4>1
    <3> HIDE DEF Low
    <3> QED  BY <2>0, <2>1, <3>1
  <2>3. CASE m + 1 \in K
    <3>1. Low(m + 1) = Low(m) \cup {m + 1} /\ m + 1 \notin Low(m)
      <4>1. \A j \in K : j <= m + 1 <=> j <= m \/ j = m + 1
        BY <1>a, <2>0
      <4>2. ~ (m + 1 <= m)
        BY <2>0
      <4> QED  BY <2>3, <4>1, <4>2
    <3>2. {j \in K : j < m + 1} = Low(m)
      <4>1. \A j \in K : j < m + 1 <=> j <= m
        BY <1>a, <2>0
      <4> QED  BY <4>1
    <3> HIDE DEF Low
    <3>3. Cardinality(Low(m + 1)) = Cardinality(Low(m)) + 1
      BY <1>0, <2>0, <3>1, FS_AddElement
    <3>4. ASSUME NEW k \in 1 .. Cardinality(Low(m + 1))
          PROVE  \E i \in K : Cardinality({j \in K : j < i}) = k - 1
      <4>1. Cardinality(Low(m)) \in Nat
        BY <1>0, <2>0
      <4>2. CASE k = Cardinality(Low(m)) + 1
        <5>1. Cardinality({j \in K : j < m + 1}) = k - 1
          BY <3>2, <4>1, <4>2
        <5> QED  BY <2>3, <5>1
      <4>3. CASE k # Cardinality(Low(m)) + 1
        <5>1. k \in 1 .. Cardinality(Low(m))
          BY <3>3, <4>1, <4>3
        <5> QED  BY <2>1, <5>1
      <4> QED  BY <4>2, <4>3
    <3> QED  BY <2>0, <3>4
  <2> QED  BY <2>2, <2>3
<1>3. n \in S
  <2> HIDE DEF S
  <2>1. \A m \in 0 .. n - 1 : m \in S => m + 1 \in S
    BY <1>2
  <2> QED  BY <1>1, <2>1, UpTo
<1>4. Low(n) = K
  BY <1>a
<1> HIDE DEF Low
<1> QED
  BY <1>3, <1>4

\* The text without its markers is a text.
LEMMA StripType ==
  ASSUME NEW t \in Text
  PROVE  StripNavs(t) \in Text
<1> DEFINE Marks(i) == t[i] = NavClose \/ (t[i] = NavOpen /\ i < Len(t) /\ t[i + 1] = NavClose)
           kept == {i \in DOMAIN t : ~Marks(i)}
           at(k) == CHOOSE i \in kept : Cardinality({j \in kept : j < i}) = k - 1
<1>1. StripNavs(t) = [k \in 1 .. Cardinality(kept) |-> t[at(k)]]
  BY DEF StripNavs
<1>2. kept \in SUBSET (1 .. Len(t)) /\ Len(t) \in Nat /\ DOMAIN t = 1 .. Len(t)
  BY TextIs
<1>3. Cardinality(kept) \in Nat
  <2>1. IsFiniteSet(1 .. Len(t))
    BY <1>2, FS_Interval
  <2> HIDE DEF kept
  <2>2. IsFiniteSet(kept)
    BY <1>2, <2>1, FS_Subset
  <2> QED  BY <2>2, FS_CardinalityType
<1> HIDE DEF kept
<1>4. \A k \in 1 .. Cardinality(kept) : at(k) \in kept
  BY <1>2, KthIsThere
<1>5. \A k \in 1 .. Cardinality(kept) : t[at(k)] \in 1 .. Note
  BY <1>2, <1>4, TextIs
<1> HIDE DEF at
<1>6. [k \in 1 .. Cardinality(kept) |-> t[at(k)]] \in Seq(1 .. Note)
  <2>1. [k \in 1 .. Cardinality(kept) |-> t[at(k)]] \in [1 .. Cardinality(kept) -> 1 .. Note]
    BY <1>5
  <2> QED  BY <1>3, <2>1, SeqDef
<1> QED
  BY <1>1, <1>6 DEF Text

\* A text whose first m elements are markers, and no other, keeps what follows them.
LEMMA StripTail ==
  ASSUME NEW t \in Text, NEW m \in 0 .. Len(t),
         \A i \in 1 .. Len(t) :
           t[i] = NavClose \/ (t[i] = NavOpen /\ i < Len(t) /\ t[i + 1] = NavClose) <=> i <= m
  PROVE  StripNavs(t) = SubSeq(t, m + 1, Len(t))
<1> DEFINE Marks(i) == t[i] = NavClose \/ (t[i] = NavOpen /\ i < Len(t) /\ t[i + 1] = NavClose)
           kept == {i \in DOMAIN t : ~Marks(i)}
           at(k) == CHOOSE i \in kept : Cardinality({j \in kept : j < i}) = k - 1
           n == Len(t)
<1>0. n \in Nat /\ DOMAIN t = 1 .. n /\ m \in 0 .. n
  BY TextIs
<1>1. StripNavs(t) = [k \in 1 .. Cardinality(kept) |-> t[at(k)]]
  BY DEF StripNavs
<1>2. kept = (m + 1) .. n
  BY <1>0
<1> HIDE DEF kept, n
<1>3. Cardinality(kept) = n - m
  <2>1. Cardinality((m + 1) .. n) = IF m + 1 > n THEN 0 ELSE n - (m + 1) + 1
    BY <1>0, FS_Interval
  <2> QED  BY <1>0, <1>2, <2>1
<1>4. ASSUME NEW i \in kept PROVE Cardinality({j \in kept : j < i}) = i - m - 1
  <2>1. {j \in kept : j < i} = (m + 1) .. (i - 1)
    BY <1>0, <1>2
  <2>2. Cardinality((m + 1) .. (i - 1)) = IF m + 1 > i - 1 THEN 0 ELSE (i - 1) - (m + 1) + 1
    BY <1>0, <1>2, FS_Interval
  <2>3. i \in Int /\ m \in Int /\ i >= m + 1
    BY <1>0, <1>2
  <2>4. (IF m + 1 > i - 1 THEN 0 ELSE (i - 1) - (m + 1) + 1) = i - m - 1
    BY <2>3
  <2> QED  BY <2>1, <2>2, <2>4
<1>5. ASSUME NEW k \in 1 .. n - m PROVE at(k) = m + k
  <2>1. m + k \in kept /\ (m + k) - m - 1 = k - 1
    BY <1>0, <1>2
  <2>2. Cardinality({j \in kept : j < m + k}) = k - 1
    BY <1>4, <2>1
  <2>3. at(k) \in kept /\ Cardinality({j \in kept : j < at(k)}) = k - 1
    BY <2>1, <2>2
  <2>4. at(k) - m - 1 = k - 1
    <3>1. Cardinality({j \in kept : j < at(k)}) = at(k) - m - 1
      BY <1>4, <2>3
    <3> QED  BY <2>3, <3>1
  <2>5. at(k) \in Int
    BY <1>0, <1>2, <2>3
  <2> HIDE DEF at
  <2> QED  BY <1>0, <2>4, <2>5
<1> HIDE DEF at
<1>6. /\ SubSeq(t, m + 1, n) \in Text
      /\ Len(SubSeq(t, m + 1, n)) = IF m + 1 <= n THEN n - (m + 1) + 1 ELSE 0
      /\ \A k \in 1 .. n - (m + 1) + 1 : SubSeq(t, m + 1, n)[k] = t[(m + 1) + k - 1]
  <2>1. m + 1 \in Nat \ {0} /\ n \in 0 .. Len(t)
    BY <1>0 DEF n
  <2> QED  BY <2>1, PartIs
<1>7. StripNavs(t) \in Text
  BY StripType
<1>8. DOMAIN StripNavs(t) = 1 .. n - m /\ \A k \in 1 .. n - m : StripNavs(t)[k] = t[m + k]
  BY <1>1, <1>3, <1>5
<1>9. Len(StripNavs(t)) = n - m
  <2>1. DOMAIN StripNavs(t) = 1 .. Len(StripNavs(t)) /\ Len(StripNavs(t)) \in Nat
    BY <1>7, TextIs
  <2>2. 1 .. n - m = 1 .. Len(StripNavs(t)) /\ n - m \in Nat
    BY <1>0, <1>8, <2>1
  <2> QED  BY <2>1, <2>2
<1>10. Len(SubSeq(t, m + 1, n)) = n - m
  BY <1>0, <1>6
<1>11. \A k \in 1 .. n - m : StripNavs(t)[k] = SubSeq(t, m + 1, n)[k]
  <2> TAKE k \in 1 .. n - m
  <2>1. k \in 1 .. n - (m + 1) + 1 /\ (m + 1) + k - 1 = m + k
    BY <1>0
  <2> QED  BY <1>6, <1>8, <2>1
<1> QED
  BY <1>6, <1>7, <1>9, <1>10, <1>11, SameText DEF n
-----------------------------------------------------------------------------
(* What a text may look like: a marker at its head if at all, and a suggestion  *)
(* only after a word.                                                          *)

MarkedAtHead(t) == \A k \in 1 .. Len(t) : t[k] = NavClose => k = 2 /\ t[1] = NavOpen

Shaped(t) ==
  /\ MarkedAtHead(t)
  /\ \A k \in 1 .. Len(t) : t[k] = Extra => k > 1 /\ t[k - 1] \in 1 .. MaxWords

\* Of such a text the marker is all that is stripped.
LEMMA StripShaped ==
  ASSUME NEW t \in Text, MarkedAtHead(t)
  PROVE  StripNavs(t) = Unmarked(t)
<1>0. Len(t) \in Nat
  BY TextIs
<1>1. CASE IsNav(t)
  <2>1. Len(t) >= 2 /\ t[1] = NavOpen /\ t[2] = NavClose
    BY <1>1, IsNavIs
  <2>2. ASSUME NEW i \in 1 .. Len(t)
        PROVE  t[i] = NavClose \/ (t[i] = NavOpen /\ i < Len(t) /\ t[i + 1] = NavClose)
                 <=> i <= 2
    <3>1. CASE i = 1
      BY <1>0, <2>1, <3>1
    <3>2. CASE i = 2
      BY <1>0, <2>1, <3>2
    <3>3. CASE i > 2
      <4>1. t[i] # NavClose /\ ~ (i <= 2)
        BY <1>0, <3>3 DEF MarkedAtHead
      <4>2. i < Len(t) => t[i + 1] # NavClose
        BY <1>0, <3>3 DEF MarkedAtHead
      <4> QED  BY <4>1, <4>2
    <3> QED  BY <1>0, <3>1, <3>2, <3>3
  <2>3. 2 \in 0 .. Len(t) /\ 2 + 1 = 3
    BY <1>0, <2>1
  <2>4. StripNavs(t) = SubSeq(t, 2 + 1, Len(t))
    BY <2>2, <2>3, StripTail
  <2> QED  BY <1>1, <2>3, <2>4 DEF Unmarked
<1>2. CASE ~IsNav(t)
  <2>1. ~ (Len(t) >= 2 /\ t[1] = NavOpen /\ t[2] = NavClose)
    BY <1>2, IsNavIs
  <2>2. \A k \in 1 .. Len(t) : t[k] # NavClose
    BY <1>0, <2>1 DEF MarkedAtHead
  <2>3. ASSUME NEW i \in 1 .. Len(t)
        PROVE  t[i] = NavClose \/ (t[i] = NavOpen /\ i < Len(t) /\ t[i + 1] = NavClose)
                 <=> i <= 0
    <3>1. i < Len(t) => i + 1 \in 1 .. Len(t)
      BY <1>0
    <3>2. ~ (i <= 0)
      OBVIOUS
    <3> QED  BY <2>2, <3>1, <3>2
  <2>4. 0 \in 0 .. Len(t) /\ 0 + 1 = 1
    BY <1>0
  <2>5. StripNavs(t) = SubSeq(t, 0 + 1, Len(t))
    BY <2>3, <2>4, StripTail
  <2>6. SubSeq(t, 1, Len(t)) = t
    BY SubSeqFull DEF Text
  <2> QED  BY <1>2, <2>4, <2>5, <2>6 DEF Unmarked
<1> QED
  BY <1>1, <1>2

\* A text without a marker stays as it is.
LEMMA StripPlain ==
  ASSUME NEW t \in Text, \A k \in 1 .. Len(t) : t[k] # NavClose
  PROVE  MarkedAtHead(t) /\ ~IsNav(t) /\ StripNavs(t) = t
<1>1. MarkedAtHead(t)
  BY DEF MarkedAtHead
<1>2. ~IsNav(t)
  BY IsNavIs, TextIs
<1> QED
  BY <1>1, <1>2, StripShaped DEF Unmarked

\* Clean keeps a text up to what the model invents or suggests.
LEMMA CleanIs ==
  ASSUME NEW t \in Text
  PROVE  \E e \in 0 .. Len(t) :
           /\ Clean(t) = StripNavs(SubSeq(t, 1, e))
           /\ \A k \in 1 .. e : t[k] # Extra
           /\ e < Len(t) => t[e + 1] = Extra
<1> DEFINE cuts == {i \in DOMAIN t : t[i] = Extra}
           first == CHOOSE i \in cuts : \A j \in cuts : i <= j
           end == IF cuts = {} THEN Len(t) ELSE first - 1
<1>0. Len(t) \in Nat /\ DOMAIN t = 1 .. Len(t)
  BY TextIs
<1>1. Clean(t) = StripNavs(SubSeq(t, 1, end))
  BY DEF Clean
<1>2. CASE cuts = {}
  <2>1. end = Len(t)
    BY <1>2
  <2>2. \A k \in 1 .. Len(t) : t[k] # Extra
    BY <1>0, <1>2
  <2>3. Len(t) \in 0 .. Len(t) /\ ~ (Len(t) < Len(t))
    BY <1>0
  <2> HIDE DEF end
  <2> QED  BY <1>1, <2>1, <2>2, <2>3
<1>3. CASE cuts # {}
  <2>1. cuts \in SUBSET Nat
    BY <1>0
  <2>2. \E i \in cuts : \A j \in cuts : i <= j
    <3> HIDE DEF cuts
    <3> QED  BY <1>3, <2>1, LeastIndex
  <2>3. first \in cuts /\ \A j \in cuts : first <= j
    BY <2>2
  <2>4. end = first - 1
    BY <1>3
  <2>5. first \in 1 .. Len(t) /\ t[first] = Extra
    BY <1>0, <2>3
  <2>6. \A k \in 1 .. Len(t) : t[k] = Extra => first <= k
    BY <1>0, <2>3
  <2> HIDE DEF first, end
  <2>7. end \in 0 .. Len(t) /\ end + 1 = first
    BY <1>0, <2>4, <2>5
  <2>8. \A k \in 1 .. end : t[k] # Extra
    BY <1>0, <2>6, <2>7
  <2> QED  BY <1>1, <2>5, <2>7, <2>8
<1> QED
  BY <1>2, <1>3

LEMMA CleanType ==
  ASSUME NEW t \in Text
  PROVE  Clean(t) \in Text
<1>1. PICK e \in 0 .. Len(t) : Clean(t) = StripNavs(SubSeq(t, 1, e))
  BY CleanIs
<1>2. SubSeq(t, 1, e) \in Text
  BY PartIs
<1> QED
  BY <1>1, <1>2, StripType

LEMMA CleanEmpty == Clean(<<>>) = <<>>
<1>1. <<>> \in Text /\ Len(<<>>) = 0
  BY MarkupFacts
<1>2. PICK e \in 0 .. Len(<<>>) : Clean(<<>>) = StripNavs(SubSeq(<<>>, 1, e))
  BY <1>1, CleanIs
<1>3. SubSeq(<<>>, 1, e) = <<>>
  BY <1>1, <1>2, SubSeqEmpty
<1>4. StripNavs(<<>>) = <<>>
  BY <1>1, StripPlain
<1> QED
  BY <1>2, <1>3, <1>4

\* A text without a marker that does not begin with a suggestion keeps its beginning.
LEMMA CleanKeeps ==
  ASSUME NEW t \in Text, t # <<>>, t[1] # Extra, \A k \in 1 .. Len(t) : t[k] # NavClose
  PROVE  Clean(t) # <<>>
<1>1. PICK e \in 0 .. Len(t) :
        Clean(t) = StripNavs(SubSeq(t, 1, e)) /\ (e < Len(t) => t[e + 1] = Extra)
  BY CleanIs
<1>2. Len(t) \in Nat /\ Len(t) > 0
  BY EmptySeq, TextIs DEF Text
<1>3. e >= 1
  BY <1>1, <1>2
<1> DEFINE a == SubSeq(t, 1, e)
<1>4. /\ a \in Text /\ Len(a) = IF 1 <= e THEN e - 1 + 1 ELSE 0
      /\ \A k \in 1 .. e - 1 + 1 : a[k] = t[1 + k - 1]
  BY PartIs
<1>5. Len(a) = e
  BY <1>2, <1>3, <1>4
<1>6. \A k \in 1 .. e : a[k] = t[k] /\ k \in 1 .. Len(t)
  BY <1>2, <1>4
<1> HIDE DEF a
<1>7. StripNavs(a) = a
  BY <1>4, <1>5, <1>6, StripPlain
<1>8. a # <<>>
  BY <1>3, <1>5
<1> QED
  BY <1>1, <1>7, <1>8 DEF a

\* Cutting the text of a turn gives the same with its marker and without.
LEMMA CleanUnmarked ==
  ASSUME NEW t \in Text, MarkedAtHead(t)
  PROVE  Clean(Unmarked(t)) = Clean(t)
<1>1. CASE ~IsNav(t)
  BY <1>1 DEF Unmarked
<1>2. CASE IsNav(t)
  <2> DEFINE u == Unmarked(t)
             n == Len(t)
  <2>0. n \in Nat /\ n >= 2 /\ t[1] = NavOpen /\ t[2] = NavClose
    BY <1>2, IsNavIs, TextIs
  <2>1. u \in Text /\ Len(u) = n - 2 /\ \A k \in 1 .. n - 2 : u[k] = t[k + 2]
    BY <1>2, UnmarkedIs
  <2>2. t[1] # Extra /\ t[2] # Extra
    BY <2>0, MarkupFacts
  <2>3. PICK e \in 0 .. n : /\ Clean(t) = StripNavs(SubSeq(t, 1, e))
                            /\ \A k \in 1 .. e : t[k] # Extra
                            /\ e < n => t[e + 1] = Extra
    BY CleanIs
  <2>4. PICK f \in 0 .. Len(u) : /\ Clean(u) = StripNavs(SubSeq(u, 1, f))
                                 /\ \A k \in 1 .. f : u[k] # Extra
                                 /\ f < Len(u) => u[f + 1] = Extra
    BY <2>1, CleanIs
  <2> HIDE DEF u, n
  <2>5. f \in 0 .. n - 2
    BY <2>0, <2>1, <2>4
  <2>6. e = f + 2
    <3>1. ASSUME e < f + 2 PROVE FALSE
      <4>1. e < n /\ t[e + 1] = Extra
        BY <2>0, <2>3, <2>5, <3>1
      <4>2. e + 1 # 1 /\ e + 1 # 2
        BY <2>2, <4>1
      <4>3. e - 1 \in 1 .. f /\ e - 1 \in 1 .. n - 2 /\ (e - 1) + 2 = e + 1
        BY <2>0, <2>5, <3>1, <4>2
      <4>4. u[e - 1] = t[e + 1]
        BY <2>1, <4>3
      <4> QED  BY <2>4, <4>1, <4>3, <4>4
    <3>2. ASSUME e > f + 2 PROVE FALSE
      <4>1. f < Len(u) /\ f + 1 \in 1 .. n - 2 /\ f + 1 + 2 \in 1 .. e
        BY <2>0, <2>1, <2>5, <3>2
      <4>2. u[f + 1] = Extra
        BY <2>4, <4>1
      <4>3. u[f + 1] = t[f + 1 + 2]
        BY <2>1, <4>1
      <4> QED  BY <2>3, <4>1, <4>2, <4>3
    <3> QED  BY <2>0, <2>5, <3>1, <3>2
  <2> DEFINE a == SubSeq(t, 1, e)
             b == SubSeq(u, 1, f)
  <2>7. a \in Text /\ Len(a) = e /\ \A k \in 1 .. e : a[k] = t[k]
    <3>1. /\ a \in Text /\ Len(a) = IF 1 <= e THEN e - 1 + 1 ELSE 0
          /\ \A k \in 1 .. e - 1 + 1 : a[k] = t[1 + k - 1]
      BY PartIs DEF n
    <3> QED  BY <2>0, <2>5, <2>6, <3>1
  <2>8. b \in Text /\ Len(b) = f /\ \A k \in 1 .. f : b[k] = t[k + 2]
    <3>1. /\ b \in Text /\ Len(b) = IF 1 <= f THEN f - 1 + 1 ELSE 0
          /\ \A k \in 1 .. f - 1 + 1 : b[k] = u[1 + k - 1]
      BY <2>1, PartIs
    <3> QED  BY <2>0, <2>1, <2>5, <3>1
  <2> HIDE DEF a, b
  <2>9. MarkedAtHead(a) /\ IsNav(a)
    <3>1. \A k \in 1 .. e : k \in 1 .. Len(t)
      BY <2>0 DEF n
    <3>2. a[1] = t[1] /\ a[2] = t[2] /\ Len(a) >= 2
      BY <2>5, <2>6, <2>7
    <3> QED  BY <2>0, <2>7, <3>1, <3>2, IsNavIs DEF MarkedAtHead
  <2>10. StripNavs(a) = Unmarked(a) /\ Unmarked(a) \in Text /\ Len(Unmarked(a)) = e - 2
         /\ \A k \in 1 .. e - 2 : Unmarked(a)[k] = a[k + 2]
    BY <2>7, <2>9, StripShaped, UnmarkedIs
  <2>11. StripNavs(b) = b
    <3>1. ASSUME NEW k \in 1 .. f PROVE b[k] # NavClose
      <4>1. k + 2 \in 1 .. Len(t) /\ k + 2 # 2
        BY <2>0, <2>5 DEF n
      <4> QED  BY <2>8, <4>1 DEF MarkedAtHead
    <3> QED  BY <2>8, <3>1, StripPlain
  <2>12. Unmarked(a) = b
    <3>1. e - 2 = f /\ \A k \in 1 .. f : k + 2 \in 1 .. e
      BY <2>0, <2>5, <2>6
    <3>2. \A k \in 1 .. f : Unmarked(a)[k] = b[k]
      BY <2>7, <2>8, <2>10, <3>1
    <3> QED  BY <2>8, <2>10, <3>1, <3>2, SameText
  <2> QED  BY <2>3, <2>4, <2>10, <2>11, <2>12 DEF a, b, u
<1> QED
  BY <1>1, <1>2
-----------------------------------------------------------------------------
(* The sink and the chat.                                                      *)

Sinks == [full : Text, pending : Text, head : Text \cup {NoHold}, status : Text]
Chats == [draft : Text, bubble : Text, closed : Text]
Shown == [sink : Sinks, chat : Chats]

\* What the chat has of the segment and what it is still owed are the segment.
Drafted(s) ==
  /\ s.chat.closed = <<>> /\ s.chat.bubble = <<>>
  /\ s.chat.draft \o s.sink.pending = s.sink.full

\* Of what was said since the last tool the sink holds back a head that may become a
\* marker, or has let go of all but the marker.
Caught(D, s) ==
  /\ s.sink.head # NoHold => s.sink.full = <<>> /\ s.sink.head = D /\ HoldMore(D)
  /\ s.sink.head = NoHold => D # <<>> /\ ~HoldMore(D) /\ s.sink.full = Unmarked(D)

\* A sink and its chat written out.
At(full, pending, head, status, draft, bubble, closed) ==
  [sink |-> [full |-> full, pending |-> pending, head |-> head, status |-> status],
   chat |-> [draft |-> draft, bubble |-> bubble, closed |-> closed]]

LEMMA AtType ==
  ASSUME NEW f \in Text, NEW p \in Text, NEW h \in Text \cup {NoHold}, NEW t \in Text,
         NEW d \in Text, NEW b \in Text, NEW c \in Text
  PROVE  At(f, p, h, t, d, b, c) \in Shown
BY DEF At, Shown, Sinks, Chats

LEMMA AtIs ==
  ASSUME NEW s \in Shown
  PROVE  \E f \in Text, p \in Text, h \in Text \cup {NoHold}, t \in Text,
            d \in Text, b \in Text, c \in Text : s = At(f, p, h, t, d, b, c)
<1>1. s = [sink |-> s.sink, chat |-> s.chat] /\ s.sink \in Sinks /\ s.chat \in Chats
  BY DEF Shown
<1>2. \A k \in Sinks : /\ k = [full |-> k.full, pending |-> k.pending, head |-> k.head,
                               status |-> k.status]
                       /\ k.full \in Text /\ k.pending \in Text /\ k.status \in Text
                       /\ k.head \in Text \cup {NoHold}
  BY DEF Sinks
<1>3. \A c \in Chats : /\ c = [draft |-> c.draft, bubble |-> c.bubble, closed |-> c.closed]
                       /\ c.draft \in Text /\ c.bubble \in Text /\ c.closed \in Text
  BY DEF Chats
<1>4. s = At(s.sink.full, s.sink.pending, s.sink.head, s.sink.status,
             s.chat.draft, s.chat.bubble, s.chat.closed)
  BY <1>1, <1>2, <1>3, Zenon DEF At
<1>5. /\ s.sink.full \in Text /\ s.sink.pending \in Text /\ s.sink.status \in Text
      /\ s.sink.head \in Text \cup {NoHold}
      /\ s.chat.draft \in Text /\ s.chat.bubble \in Text /\ s.chat.closed \in Text
  BY <1>1, <1>2, <1>3
<1> QED
  BY <1>4, <1>5, Zenon

LEMMA ShownIs ==
  ASSUME NEW s \in Shown
  PROVE  /\ s.sink \in Sinks /\ s.chat \in Chats
         /\ s.sink.full \in Text /\ s.sink.pending \in Text /\ s.sink.status \in Text
         /\ s.sink.head \in Text \cup {NoHold}
         /\ s.chat.draft \in Text /\ s.chat.bubble \in Text /\ s.chat.closed \in Text
BY DEF Shown, Sinks, Chats

LEMMA JoinAssoc ==
  ASSUME NEW a \in Text, NEW b \in Text, NEW c \in Text
  PROVE  (a \o b) \o c = a \o (b \o c)
BY ConcatAssociative DEF Text

LEMMA JoinEmpty ==
  ASSUME NEW a \in Text
  PROVE  a \o <<>> = a /\ <<>> \o a = a
BY ConcatEmptySeq DEF Text

LEMMA JoinType ==
  ASSUME NEW a \in Text, NEW b \in Text
  PROVE  a \o b \in Text
BY BothAre

LEMMA FlushTextIs ==
  ASSUME NEW s \in Shown
  PROVE  LET e == FlushText(s) IN
         /\ e \in Shown /\ e.sink.pending = <<>>
         /\ e.sink.full = s.sink.full /\ e.sink.head = s.sink.head
         /\ e.sink.status = s.sink.status
         /\ e.chat.draft = s.chat.draft \o s.sink.pending
         /\ e.chat.closed = s.chat.closed /\ e.chat.bubble = s.chat.bubble
         /\ Drafted(s) => Drafted(e)
<1> DEFINE e == FlushText(s)
           v == s.chat.draft \o s.sink.pending
           a == [s EXCEPT !.chat.draft = v]
<1>1. PICK f \in Text, p \in Text, h \in Text \cup {NoHold}, t \in Text,
           d \in Text, b \in Text, c \in Text : s = At(f, p, h, t, d, b, c)
  BY AtIs
<1>2. v = d \o p
  BY <1>1 DEF At
<1>3. e = [a EXCEPT !.sink.pending = <<>>]
  BY DEF FlushText
<1> HIDE DEF v
<1>4. a = At(f, p, h, t, v, b, c)
  BY <1>1 DEF At
<1> HIDE DEF a
<1>5. [a EXCEPT !.sink.pending = <<>>] = At(f, <<>>, h, t, v, b, c)
  BY <1>4 DEF At
<1> HIDE DEF e
<1>6. d \o p \in Text /\ <<>> \in Text /\ (d \o p) \o <<>> = d \o p
  BY JoinType, JoinEmpty, MarkupFacts
<1>7. e = At(f, <<>>, h, t, d \o p, b, c)
  BY <1>2, <1>3, <1>5
<1>8. e \in Shown
  BY <1>6, <1>7, AtType
<1>9. /\ e.sink.full = f /\ e.sink.pending = <<>> /\ e.sink.head = h /\ e.sink.status = t
      /\ e.chat.draft = d \o p /\ e.chat.bubble = b /\ e.chat.closed = c
  BY <1>7 DEF At
<1>10. /\ s.sink.full = f /\ s.sink.pending = p /\ s.sink.head = h /\ s.sink.status = t
       /\ s.chat.draft = d /\ s.chat.bubble = b /\ s.chat.closed = c
  BY <1>1 DEF At
<1>11. Drafted(s) => Drafted(e)
  BY <1>6, <1>9, <1>10 DEF Drafted
<1> QED
  BY <1>8, <1>9, <1>10, <1>11 DEF e

LEMMA EmitTextIs ==
  ASSUME NEW s \in Shown, NEW text \in Text, NEW flush \in BOOLEAN
  PROVE  LET e == EmitText(s, text, flush) IN
         /\ e \in Shown /\ e.sink.full = s.sink.full \o text
         /\ e.sink.head = s.sink.head /\ e.sink.status = s.sink.status
         /\ Drafted(s) => Drafted(e)
<1> DEFINE x == s.sink.full \o text
           y == s.sink.pending \o text
           a == [s EXCEPT !.sink.full = x]
           to == [s EXCEPT !.sink.full = @ \o text, !.sink.pending = @ \o text]
<1>1. PICK f \in Text, p \in Text, h \in Text \cup {NoHold}, t \in Text,
           d \in Text, b \in Text, c \in Text : s = At(f, p, h, t, d, b, c)
  BY AtIs
<1>2. x = f \o text /\ y = p \o text
  BY <1>1 DEF At
<1>3. to = [a EXCEPT !.sink.pending = y]
  <2>1. to = [a EXCEPT !.sink.pending = @ \o text]
    OBVIOUS
  <2>2. a.sink.pending = s.sink.pending
    <3> HIDE DEF x
    <3> QED  BY <1>1 DEF At
  <2> HIDE DEF a, to
  <2> QED  BY <2>1, <2>2
<1>4. EmitText(s, text, flush) = IF flush THEN FlushText(to) ELSE to
  BY DEF EmitText
<1> HIDE DEF x, y, to
<1>5. a = At(x, p, h, t, d, b, c)
  BY <1>1 DEF At
<1> HIDE DEF a
<1>6. [a EXCEPT !.sink.pending = y] = At(x, y, h, t, d, b, c)
  BY <1>5 DEF At
<1>7. x \in Text /\ y \in Text /\ d \o y = (d \o p) \o text
  <2>1. f \o text \in Text /\ p \o text \in Text
    BY JoinType
  <2>2. (d \o p) \o text = d \o (p \o text)
    BY JoinAssoc
  <2> QED  BY <1>2, <2>1, <2>2
<1>8. to \in Shown
  <2>1. At(x, y, h, t, d, b, c) \in Shown
    BY <1>7, AtType
  <2> QED  BY <1>3, <1>6, <2>1
<1>9. /\ to.sink.full = x /\ to.sink.pending = y /\ to.sink.head = h /\ to.sink.status = t
      /\ to.chat.draft = d /\ to.chat.bubble = b /\ to.chat.closed = c
  BY <1>3, <1>6 DEF At
<1>10. /\ s.sink.full = f /\ s.sink.pending = p /\ s.sink.head = h /\ s.sink.status = t
       /\ s.chat.draft = d /\ s.chat.bubble = b /\ s.chat.closed = c
  BY <1>1 DEF At
<1>11. Drafted(s) => Drafted(to)
  BY <1>2, <1>7, <1>9, <1>10 DEF Drafted
<1>12. CASE flush
  BY <1>2, <1>4, <1>8, <1>9, <1>10, <1>11, <1>12, FlushTextIs
<1>13. CASE ~flush
  BY <1>2, <1>4, <1>8, <1>9, <1>10, <1>11, <1>13
<1> QED
  BY <1>12, <1>13

LEMMA OpenedIs ==
  ASSUME NEW s \in Shown, NEW head \in Text \cup {NoHold}
  PROVE  LET e == [s EXCEPT !.sink.head = head] IN
         /\ e \in Shown /\ e.sink.full = s.sink.full /\ e.sink.head = head
         /\ e.sink.status = s.sink.status
         /\ Drafted(s) => Drafted(e)
<1> DEFINE e == [s EXCEPT !.sink.head = head]
<1>1. e = [sink |-> [full |-> s.sink.full, pending |-> s.sink.pending, head |-> head,
                     status |-> s.sink.status],
           chat |-> s.chat]
  BY DEF Shown, Sinks
<1> QED
  BY <1>1, ShownIs DEF Shown, Sinks, Drafted

\* A text that was let go of stays let go of, and its marker stays its marker.
LEMMA MarkerStays ==
  ASSUME NEW D \in Text, NEW text \in Text, D # <<>>, ~HoldMore(D)
  PROVE  /\ D \o text # <<>> /\ ~HoldMore(D \o text)
         /\ Unmarked(D \o text) = Unmarked(D) \o text
<1> DEFINE J == D \o text
<1>1. /\ J \in Text /\ Len(J) = Len(D) + Len(text)
      /\ \A k \in 1 .. Len(D) : J[k] = D[k]
      /\ \A k \in 1 .. Len(text) : J[Len(D) + k] = text[k]
  BY BothAre
<1>2. Len(D) \in Nat /\ Len(D) > 0 /\ Len(text) \in Nat
  BY EmptySeq, TextIs DEF Text
<1>3. (\E k \in 1 .. Len(D) : D[k] = NavClose) \/ D[1] # NavOpen
  BY HoldIs
<1> HIDE DEF J
<1>4. \A k \in 1 .. Len(D) : k \in 1 .. Len(J) /\ J[k] = D[k]
  BY <1>1, <1>2
<1>5. J # <<>>
  BY <1>1, <1>2
<1>6. ~HoldMore(J)
  <2>1. J[1] = D[1]
    BY <1>2, <1>4
  <2>2. ~ (\A k \in 1 .. Len(J) : J[k] # NavClose) \/ J[1] # NavOpen
    BY <1>3, <1>4, <2>1
  <2> QED  BY <1>1, <1>5, <2>2, HoldIs
<1>7. IsNav(J) <=> IsNav(D)
  <2>1. IsNav(J) <=> Len(J) >= 2 /\ J[1] = NavOpen /\ J[2] = NavClose
    BY <1>1, IsNavIs
  <2>2. IsNav(D) <=> Len(D) >= 2 /\ D[1] = NavOpen /\ D[2] = NavClose
    BY IsNavIs
  <2>3. CASE Len(D) >= 2
    <3>1. J[1] = D[1] /\ J[2] = D[2] /\ Len(J) >= 2
      BY <1>1, <1>2, <1>4, <2>3
    <3> QED  BY <2>1, <2>2, <2>3, <3>1
  <2>4. CASE ~ (Len(D) >= 2)
    <3>0. Len(D) = 1
      <4> DEFINE n == Len(D)
      <4>1. n \in Nat /\ n > 0 /\ ~ (n >= 2)
        BY <1>2, <2>4
      <4> HIDE DEF n
      <4>2. n = 1
        BY <4>1
      <4> QED  BY <4>2 DEF n
    <3>1. Len(D) = 1 /\ J[1] = D[1]
      BY <1>4, <3>0
    <3>2. D[1] # NavOpen
      <4> SUFFICES ASSUME D[1] = NavOpen PROVE FALSE
        OBVIOUS
      <4>1. PICK k \in 1 .. Len(D) : D[k] = NavClose
        BY <1>3
      <4>2. k = 1
        BY <3>1
      <4> QED  BY <4>1, <4>2, MarkupFacts
    <3> QED  BY <2>1, <2>2, <2>4, <3>1, <3>2
  <2> QED  BY <2>3, <2>4
<1>8. Unmarked(J) = Unmarked(D) \o text
  <2>1. CASE ~IsNav(D)
    BY <1>7, <2>1 DEF Unmarked, J
  <2>2. CASE IsNav(D)
    <3> DEFINE u == Unmarked(D)
               v == Unmarked(J)
    <3>1. /\ u \in Text /\ Len(D) >= 2 /\ Len(u) = Len(D) - 2
          /\ \A k \in 1 .. Len(D) - 2 : u[k] = D[k + 2]
      BY <2>2, UnmarkedIs
    <3>2. /\ v \in Text /\ Len(v) = Len(J) - 2
          /\ \A k \in 1 .. Len(J) - 2 : v[k] = J[k + 2]
      BY <1>1, <1>7, <2>2, UnmarkedIs
    <3> HIDE DEF u, v
    <3>3. /\ u \o text \in Text /\ Len(u \o text) = Len(u) + Len(text)
          /\ \A k \in 1 .. Len(u) : (u \o text)[k] = u[k]
          /\ \A k \in 1 .. Len(text) : (u \o text)[Len(u) + k] = text[k]
      BY <3>1, BothAre
    <3>4. Len(v) = Len(u \o text)
      BY <1>1, <1>2, <3>1, <3>2, <3>3
    <3>5. ASSUME NEW k \in 1 .. Len(v) PROVE v[k] = (u \o text)[k]
      <4>1. v[k] = J[k + 2] /\ k \in 1 .. Len(J) - 2
        BY <3>2
      <4>2. CASE k <= Len(u)
        <5>1. k \in 1 .. Len(D) - 2 /\ k + 2 \in 1 .. Len(D) /\ k \in 1 .. Len(u)
          BY <1>2, <3>1, <4>1, <4>2
        <5> QED  BY <1>4, <3>1, <3>3, <4>1, <5>1
      <4>3. CASE k > Len(u)
        <5>1. k - Len(u) \in 1 .. Len(text) /\ Len(u) + (k - Len(u)) = k
              /\ Len(D) + (k - Len(u)) = k + 2
          BY <1>1, <1>2, <3>1, <4>1, <4>3
        <5>2. (u \o text)[k] = text[k - Len(u)] /\ J[k + 2] = text[k - Len(u)]
          BY <1>1, <3>3, <5>1
        <5> QED  BY <4>1, <5>2
      <4>4. k <= Len(u) \/ k > Len(u)
        BY <1>2, <3>1, <4>1
      <4> QED  BY <4>2, <4>3, <4>4
    <3> QED  BY <3>2, <3>3, <3>4, <3>5, SameText DEF u, v
  <2> QED  BY <2>1, <2>2
<1> QED
  BY <1>5, <1>6, <1>8 DEF J

\* on_text: the chat is owed what the segment gains, and the sink has caught the text.
LEMMA OnTextIs ==
  ASSUME NEW s \in Shown, NEW text \in Text, NEW flush \in BOOLEAN
  PROVE  LET e == OnText(s, text, flush) IN
         /\ e \in Shown /\ e.sink.status = s.sink.status
         /\ Drafted(s) => Drafted(e)
         /\ \A D \in Text : Caught(D, s) => Caught(D \o text, e)
         /\ s.sink.head = NoHold => e.sink.full = s.sink.full \o text
<1> DEFINE e == OnText(s, text, flush)
           head == s.sink.head \o text
           open == [s EXCEPT !.sink.head = NoHold]
           done == IF Unmarked(head) = <<>> THEN open ELSE EmitText(open, Unmarked(head), flush)
<1>0. s.sink.head # NoHold => s.sink.head \in Text /\ head \in Text
  BY ShownIs, JoinType
<1>1. CASE text = <<>>
  <2>1. e = s
    BY <1>1 DEF OnText
  <2>2. s.sink.full \o text = s.sink.full /\ \A D \in Text : D \o text = D
    BY <1>1, ShownIs, JoinEmpty
  <2> QED  BY <2>1, <2>2
<1>2. CASE text # <<>> /\ s.sink.head = NoHold
  <2>1. e = EmitText(s, text, flush)
    BY <1>2 DEF OnText
  <2>2. /\ e \in Shown /\ e.sink.full = s.sink.full \o text
        /\ e.sink.head = s.sink.head /\ e.sink.status = s.sink.status
        /\ Drafted(s) => Drafted(e)
    BY <2>1, EmitTextIs
  <2> HIDE DEF e
  <2>3. ASSUME NEW D \in Text, Caught(D, s) PROVE Caught(D \o text, e)
    BY <1>2, <2>2, <2>3, MarkerStays DEF Caught
  <2> QED  BY <2>2, <2>3 DEF e
<1>3. CASE text # <<>> /\ s.sink.head # NoHold /\ HoldMore(head)
  <2>1. e = [s EXCEPT !.sink.head = head]
    BY <1>3 DEF OnText
  <2>2. /\ e \in Shown /\ e.sink.full = s.sink.full /\ e.sink.head = head
        /\ e.sink.status = s.sink.status
        /\ Drafted(s) => Drafted(e)
    <3>1. head \in Text \cup {NoHold}
      BY <1>0, <1>3
    <3> HIDE DEF head, e
    <3> QED  BY <2>1, <3>1, OpenedIs
  <2>3. head # NoHold
    BY <1>0, <1>3, MarkupFacts
  <2> HIDE DEF e
  <2>4. ASSUME NEW D \in Text, Caught(D, s) PROVE Caught(D \o text, e)
    BY <1>3, <2>2, <2>3, <2>4 DEF Caught
  <2> QED  BY <1>3, <2>2, <2>4 DEF e
<1>4. CASE text # <<>> /\ s.sink.head # NoHold /\ ~HoldMore(head)
  <2>1. e = done
    BY <1>4 DEF OnText
  <2>2. /\ open \in Shown /\ open.sink.full = s.sink.full /\ open.sink.head = NoHold
        /\ open.sink.status = s.sink.status
        /\ Drafted(s) => Drafted(open)
    <3>1. NoHold \in Text \cup {NoHold}
      OBVIOUS
    <3> QED  BY <3>1, OpenedIs
  <2>3. Unmarked(head) \in Text
    BY <1>0, <1>4, UnmarkedIs
  <2> HIDE DEF open, head
  <2>4. /\ done \in Shown /\ done.sink.full = s.sink.full \o Unmarked(head)
        /\ done.sink.head = NoHold /\ done.sink.status = s.sink.status
        /\ Drafted(s) => Drafted(done)
    <3>1. CASE Unmarked(head) = <<>>
      <4>1. s.sink.full \o Unmarked(head) = s.sink.full
        BY <3>1, ShownIs, JoinEmpty
      <4> QED  BY <2>2, <3>1, <4>1
    <3>2. CASE Unmarked(head) # <<>>
      <4>1. done = EmitText(open, Unmarked(head), flush)
        BY <3>2
      <4>2. /\ EmitText(open, Unmarked(head), flush) \in Shown
            /\ EmitText(open, Unmarked(head), flush).sink.full = open.sink.full \o Unmarked(head)
            /\ EmitText(open, Unmarked(head), flush).sink.head = open.sink.head
            /\ EmitText(open, Unmarked(head), flush).sink.status = open.sink.status
            /\ Drafted(open) => Drafted(EmitText(open, Unmarked(head), flush))
        BY <2>2, <2>3, EmitTextIs
      <4> HIDE DEF done
      <4> QED  BY <2>2, <4>1, <4>2
    <3> QED  BY <3>1, <3>2
  <2> HIDE DEF e, done
  <2>5. ASSUME NEW D \in Text, Caught(D, s) PROVE Caught(D \o text, e)
    <3>1. s.sink.full = <<>> /\ s.sink.head = D
      BY <1>4, <2>5 DEF Caught
    <3>2. head = D \o text
      BY <3>1 DEF head
    <3>3. D \o text # <<>>
      BY <1>4, MarkupFacts, BothAre, HoldIs, <3>2
    <3>4. e.sink.full = Unmarked(D \o text)
      BY <2>1, <2>3, <2>4, <3>1, <3>2, JoinEmpty
    <3> QED  BY <1>4, <2>1, <2>4, <3>2, <3>3, <3>4 DEF Caught
  <2> QED  BY <1>4, <2>1, <2>4, <2>5 DEF e
<1> QED
  BY <1>1, <1>2, <1>3, <1>4
LEMMA UnmarkedEmpty == Unmarked(<<>>) = <<>> /\ HoldMore(<<>>)
<1>1. <<>> \in Text /\ Len(<<>>) = 0
  BY MarkupFacts
<1>2. ~IsNav(<<>>) /\ HoldMore(<<>>)
  BY <1>1, IsNavIs, HoldIs
<1> QED
  BY <1>2 DEF Unmarked

\* _flush_head: nothing is held back any more.
LEMMA FlushHeadIs ==
  ASSUME NEW s \in Shown, NEW flush \in BOOLEAN
  PROVE  LET e == FlushHead(s, flush) IN
         /\ e \in Shown /\ e.sink.head = NoHold /\ e.sink.status = s.sink.status
         /\ Drafted(s) => Drafted(e)
         /\ \A D \in Text : Caught(D, s) => e.sink.full = Unmarked(D)
<1> DEFINE e == FlushHead(s, flush)
           open == [s EXCEPT !.sink.head = NoHold]
           u == Unmarked(s.sink.head)
           done == EmitText(open, u, flush)
<1>1. /\ open \in Shown /\ open.sink.full = s.sink.full /\ open.sink.head = NoHold
      /\ open.sink.status = s.sink.status
      /\ Drafted(s) => Drafted(open)
  <2>1. NoHold \in Text \cup {NoHold}
    OBVIOUS
  <2> QED  BY <2>1, OpenedIs
<1>2. CASE s.sink.head \in {NoHold, <<>>}
  <2>1. e = open
    BY <1>2 DEF FlushHead
  <2> HIDE DEF e, open
  <2>2. ASSUME NEW D \in Text, Caught(D, s) PROVE e.sink.full = Unmarked(D)
    <3>1. CASE s.sink.head = NoHold
      BY <1>1, <2>1, <2>2, <3>1 DEF Caught
    <3>2. CASE s.sink.head # NoHold
      <4>1. D = <<>> /\ s.sink.full = <<>>
        BY <1>2, <2>2, <3>2 DEF Caught
      <4> QED  BY <1>1, <2>1, <4>1, UnmarkedEmpty
    <3> QED  BY <3>1, <3>2
  <2> QED  BY <1>1, <2>1, <2>2 DEF e
<1>3. CASE s.sink.head \notin {NoHold, <<>>}
  <2>1. e = done
    BY <1>3 DEF FlushHead
  <2>2. u \in Text
    BY <1>3, ShownIs, UnmarkedIs
  <2> HIDE DEF open, e, u
  <2>3. /\ done \in Shown /\ done.sink.full = open.sink.full \o u
        /\ done.sink.head = open.sink.head /\ done.sink.status = open.sink.status
        /\ Drafted(open) => Drafted(done)
    BY <1>1, <2>2, EmitTextIs
  <2> HIDE DEF done
  <2>4. ASSUME NEW D \in Text, Caught(D, s) PROVE e.sink.full = Unmarked(D)
    <3>1. s.sink.full = <<>> /\ u = Unmarked(D)
      BY <1>3, <2>4 DEF Caught, u
    <3> QED  BY <1>1, <2>1, <2>2, <2>3, <3>1, JoinEmpty
  <2> QED  BY <1>1, <2>1, <2>3, <2>4 DEF e
<1> QED
  BY <1>2, <1>3

\* An aside that the history can take: no marker, no suggestion to begin with.
AsideOK(t) == t = <<>> \/ (t[1] # Extra /\ \A k \in 1 .. Len(t) : t[k] # NavClose)

LEMMA AsideOfShaped ==
  ASSUME NEW t \in Text, Shaped(t)
  PROVE  AsideOK(Unmarked(t))
<1> DEFINE u == Unmarked(t)
<1>0. Len(t) \in Nat
  BY TextIs
<1>1. CASE IsNav(t)
  <2>1. /\ Len(t) >= 2 /\ t[1] = NavOpen /\ t[2] = NavClose
        /\ u \in Text /\ Len(u) = Len(t) - 2 /\ \A k \in 1 .. Len(t) - 2 : u[k] = t[k + 2]
    BY <1>1, IsNavIs, UnmarkedIs
  <2> HIDE DEF u
  <2>2. ASSUME NEW k \in 1 .. Len(u) PROVE u[k] # NavClose
    <3>1. k + 2 \in 1 .. Len(t) /\ k + 2 # 2 /\ k \in 1 .. Len(t) - 2
      BY <1>0, <2>1
    <3> QED  BY <2>1, <3>1 DEF Shaped, MarkedAtHead
  <2>3. ASSUME u # <<>> PROVE u[1] # Extra
    <3>1. Len(u) \in Nat /\ Len(u) > 0
      BY <2>1, <2>3, EmptySeq, TextIs DEF Text
    <3>2. 3 \in 1 .. Len(t) /\ 1 \in 1 .. Len(t) - 2 /\ 1 + 2 = 3 /\ 3 - 1 = 2
      BY <1>0, <2>1, <3>1
    <3>3. u[1] = t[3]
      BY <2>1, <3>2
    <3>4. t[3] = Extra => t[2] \in 1 .. MaxWords
      BY <3>2 DEF Shaped
    <3> QED  BY <2>1, <3>3, <3>4, MarkupFacts
  <2> QED  BY <2>2, <2>3 DEF AsideOK, u
<1>2. CASE ~IsNav(t)
  <2>1. u = t
    BY <1>2 DEF Unmarked
  <2>2. ASSUME NEW k \in 1 .. Len(t), t[k] = NavClose PROVE FALSE
    <3>1. k = 2 /\ t[1] = NavOpen
      BY <2>2 DEF Shaped, MarkedAtHead
    <3>2. Len(t) >= 2
      BY <1>0, <3>1
    <3> QED  BY <1>2, <2>2, <3>1, <3>2, IsNavIs
  <2>3. ASSUME t # <<>> PROVE t[1] # Extra
    <3>1. Len(t) > 0
      BY <2>3, EmptySeq DEF Text
    <3>2. 1 \in 1 .. Len(t) /\ ~ (1 > 1)
      BY <1>0, <3>1
    <3> QED  BY <3>2 DEF Shaped
  <2> QED  BY <2>1, <2>2, <2>3 DEF AsideOK
<1> QED
  BY <1>1, <1>2

\* on_status: nothing changes but the aside.
LEMMA OnStatusIs ==
  ASSUME NEW s \in Shown, NEW text \in Text
  PROVE  LET e == OnStatus(s, text) IN
         /\ e \in Shown
         /\ e.sink.status = IF StripNavs(text) = <<>> THEN s.sink.status ELSE StripNavs(text)
         /\ Drafted(s) => Drafted(e)
         /\ \A D : Caught(D, s) => Caught(D, e)
<1> DEFINE e == OnStatus(s, text)
           v == StripNavs(text)
<1>1. v \in Text
  BY StripType
<1>2. CASE v = <<>>
  BY <1>2 DEF OnStatus
<1>3. CASE v # <<>>
  <2>1. e = [s EXCEPT !.sink.status = v]
    BY <1>3 DEF OnStatus
  <2>2. PICK f \in Text, p \in Text, h \in Text \cup {NoHold}, t \in Text,
             d \in Text, b \in Text, c \in Text : s = At(f, p, h, t, d, b, c)
    BY AtIs
  <2> HIDE DEF e, v
  <2>3. [s EXCEPT !.sink.status = v] = At(f, p, h, v, d, b, c)
    BY <2>2 DEF At
  <2>4. At(f, p, h, v, d, b, c) \in Shown
    BY <1>1, AtType
  <2>5. /\ e.sink.full = f /\ e.sink.pending = p /\ e.sink.head = h /\ e.sink.status = v
        /\ e.chat.draft = d /\ e.chat.bubble = b /\ e.chat.closed = c
    BY <2>1, <2>3 DEF At
  <2>6. /\ s.sink.full = f /\ s.sink.pending = p /\ s.sink.head = h /\ s.sink.status = t
        /\ s.chat.draft = d /\ s.chat.bubble = b /\ s.chat.closed = c
    BY <2>2 DEF At
  <2>7. e \in Shown
    BY <2>1, <2>3, <2>4
  <2>8. Drafted(s) => Drafted(e)
    BY <2>5, <2>6 DEF Drafted
  <2>9. \A D : Caught(D, s) => Caught(D, e)
    BY <2>5, <2>6 DEF Caught
  <2> QED  BY <1>3, <2>5, <2>7, <2>8, <2>9 DEF e, v
<1> QED
  BY <1>2, <1>3

\* The asides of a message: the last with a word in it is the aside, if there is one.
LEMMA OnAsidesIs ==
  ASSUME NEW s \in Shown, NEW asides \in Seq(Text)
  PROVE  LET e == OnAsides(s, asides) IN
         /\ e \in Shown
         /\ Drafted(s) => Drafted(e)
         /\ \A D : Caught(D, s) => Caught(D, e)
         /\ s.sink.status # <<>> => e.sink.status # <<>>
         /\ \A i \in 1 .. Len(asides) : StripNavs(asides[i]) # <<>> => e.sink.status # <<>>
         /\ AsideOK(s.sink.status) /\ (\A i \in 1 .. Len(asides) : Shaped(asides[i]))
              => AsideOK(e.sink.status)
<1> DEFINE e == OnAsides(s, asides)
           told == {i \in DOMAIN asides : StripNavs(asides[i]) # <<>>}
           n == Len(asides)
           last == CHOOSE i \in told : \A j \in told : j <= i
<1>0. n \in Nat /\ DOMAIN asides = 1 .. n /\ \A i \in 1 .. n : asides[i] \in Text
  BY LenProperties, ElementOfSeq
<1>1. CASE told = {}
  <2>1. e = s
    BY <1>1 DEF OnAsides
  <2>2. \A i \in 1 .. n : StripNavs(asides[i]) = <<>>
    BY <1>0, <1>1
  <2> QED  BY <2>1, <2>2
<1>2. CASE told # {}
  <2>1. last \in told
    <3> DEFINE T == {n - i : i \in told}
    <3>1. told \in SUBSET (1 .. n)
      BY <1>0
    <3> HIDE DEF told, n
    <3>2. T \in SUBSET Nat /\ T # {}
      <4>1. \A i \in told : n - i \in Nat
        BY <1>0, <3>1
      <4> QED  BY <1>2, <4>1
    <3>3. PICK m \in T : \A k \in T : m <= k
      <4> HIDE DEF T
      <4> QED  BY <3>2, LeastIndex
    <3>4. PICK i \in told : m = n - i
      BY <3>3
    <3>5. \A j \in told : j <= i
      <4> TAKE j \in told
      <4>1. n - i <= n - j
        BY <3>3, <3>4
      <4>2. i \in Int /\ j \in Int
        BY <1>0, <3>1
      <4> QED  BY <1>0, <4>1, <4>2
    <3> QED  BY <3>5
  <2>2. e = OnStatus(s, asides[last])
    BY <1>2 DEF OnAsides
  <2>3. last \in 1 .. n /\ StripNavs(asides[last]) # <<>>
    BY <1>0, <2>1
  <2> HIDE DEF told, n, last, e
  <2>4. asides[last] \in Text
    BY <1>0, <2>3
  <2>5. /\ e \in Shown /\ e.sink.status = StripNavs(asides[last])
        /\ Drafted(s) => Drafted(e)
        /\ \A D : Caught(D, s) => Caught(D, e)
    BY <2>2, <2>3, <2>4, OnStatusIs
  <2>6. ASSUME \A i \in 1 .. n : Shaped(asides[i]) PROVE AsideOK(e.sink.status)
    <3>1. Shaped(asides[last])
      BY <2>3, <2>6
    <3>2. StripNavs(asides[last]) = Unmarked(asides[last])
      BY <2>4, <3>1, StripShaped DEF Shaped
    <3> QED  BY <2>4, <2>5, <3>1, <3>2, AsideOfShaped
  <2> QED  BY <2>3, <2>5, <2>6 DEF e, n
<1> QED
  BY <1>1, <1>2

\* on_tool: what was said becomes the aside, and the sink and the chat begin anew.
LEMMA OnToolIs ==
  ASSUME NEW s \in Shown, NEW flush \in BOOLEAN
  PROVE  LET e == OnTool(s, flush) IN
         /\ e \in Shown
         /\ Drafted(s) => Drafted(e)
         /\ Caught(<<>>, e)
         /\ \A D \in Text : Caught(D, s) =>
              e.sink.status = IF Unmarked(D) = <<>> THEN s.sink.status ELSE Unmarked(D)
<1> DEFINE e == OnTool(s, flush)
           to == FlushHead(s, flush)
           st == IF to.sink.full = <<>> THEN to.sink.status ELSE to.sink.full
           a1 == [to EXCEPT !.sink.status = st]
           a2 == [a1 EXCEPT !.sink.full = <<>>]
           a3 == [a2 EXCEPT !.sink.pending = <<>>]
           a4 == [a3 EXCEPT !.sink.head = <<>>]
           a5 == [a4 EXCEPT !.chat.draft = <<>>]
           a6 == [a5 EXCEPT !.chat.bubble = <<>>]
<1>1. e = a6
  BY DEF OnTool
<1>2. /\ to \in Shown /\ to.sink.status = s.sink.status
      /\ Drafted(s) => Drafted(to)
      /\ \A D \in Text : Caught(D, s) => to.sink.full = Unmarked(D)
  BY FlushHeadIs
<1> HIDE DEF to
<1>3. PICK f \in Text, p \in Text, h \in Text \cup {NoHold}, t \in Text,
           d \in Text, b \in Text, c \in Text : to = At(f, p, h, t, d, b, c)
  BY <1>2, AtIs
<1>4. /\ to.sink.full = f /\ to.sink.pending = p /\ to.sink.head = h /\ to.sink.status = t
      /\ to.chat.draft = d /\ to.chat.bubble = b /\ to.chat.closed = c
  BY <1>3 DEF At
<1>5. st \in Text
  BY <1>4
<1> HIDE DEF st, e
<1>6. a1 = At(f, p, h, st, d, b, c)
  BY <1>3 DEF At
<1> HIDE DEF a1
<1>7. a2 = At(<<>>, p, h, st, d, b, c)
  BY <1>6 DEF At
<1> HIDE DEF a2
<1>8. a3 = At(<<>>, <<>>, h, st, d, b, c)
  BY <1>7 DEF At
<1> HIDE DEF a3
<1>9. a4 = At(<<>>, <<>>, <<>>, st, d, b, c)
  BY <1>8 DEF At
<1> HIDE DEF a4
<1>10. a5 = At(<<>>, <<>>, <<>>, st, <<>>, b, c)
  BY <1>9 DEF At
<1> HIDE DEF a5
<1>11. a6 = At(<<>>, <<>>, <<>>, st, <<>>, <<>>, c)
  BY <1>10 DEF At
<1> HIDE DEF a6
<1>12. /\ e.sink.full = <<>> /\ e.sink.pending = <<>> /\ e.sink.head = <<>>
       /\ e.sink.status = st
       /\ e.chat.draft = <<>> /\ e.chat.bubble = <<>> /\ e.chat.closed = c
  BY <1>1, <1>11 DEF At
<1>13. e \in Shown
  <2>1. <<>> \in Text
    BY MarkupFacts
  <2>2. At(<<>>, <<>>, <<>>, st, <<>>, <<>>, c) \in Shown
    BY <1>5, <2>1, AtType
  <2> QED  BY <1>1, <1>11, <2>2
<1>14. Drafted(s) => Drafted(e)
  <2>1. <<>> \o <<>> = <<>>
    BY MarkupFacts, JoinEmpty
  <2> QED  BY <1>2, <1>4, <1>12, <2>1 DEF Drafted
<1>15. Caught(<<>>, e)
  <2>1. <<>> # NoHold
    BY MarkupFacts
  <2> QED  BY <1>12, <2>1, UnmarkedEmpty DEF Caught
<1>16. \A D \in Text : Caught(D, s) =>
         e.sink.status = IF Unmarked(D) = <<>> THEN s.sink.status ELSE Unmarked(D)
  BY <1>2, <1>12 DEF st
<1> QED
  BY <1>13, <1>14, <1>15, <1>16 DEF e

\* finalize: the bubble is the row of the history, and that is what was said, or the
\* last aside when nothing was.
LEMMA FinalizedIs ==
  ASSUME NEW s \in Shown, NEW flush \in BOOLEAN
  PROVE  LET r == Finalized(s, flush) IN
         /\ r.text \in Text /\ r.chat \in Chats
         /\ Drafted(s) => r.chat.closed \o r.chat.bubble = r.text
         /\ \A D \in Text : Caught(D, s) /\ AsideOK(s.sink.status) =>
              r.text = Clean(IF Unmarked(D) = <<>> THEN s.sink.status ELSE Unmarked(D))
<1> DEFINE r == Finalized(s, flush)
           open == FlushHead(s, flush)
           mid == IF open.sink.full = <<>> THEN OnText(open, StripNavs(open.sink.status), flush)
                                           ELSE open
           full == FlushText(mid)
           text == Clean(full.sink.full)
           c == IF text = full.sink.full THEN full.chat ELSE [full.chat EXCEPT !.draft = text]
           c1 == [c EXCEPT !.bubble = @ \o c.draft]
           c2 == [c1 EXCEPT !.draft = <<>>]
<1>1. r.text = text /\ r.chat = c2
  BY DEF Finalized, Promote
<1>2. /\ open \in Shown /\ open.sink.head = NoHold /\ open.sink.status = s.sink.status
      /\ Drafted(s) => Drafted(open)
      /\ \A D \in Text : Caught(D, s) => open.sink.full = Unmarked(D)
  BY FlushHeadIs
<1> HIDE DEF open, r
<1>3. StripNavs(s.sink.status) \in Text
  BY ShownIs, StripType
<1>4. /\ mid \in Shown
      /\ Drafted(s) => Drafted(mid)
      /\ mid.sink.full = IF open.sink.full = <<>> THEN StripNavs(s.sink.status)
                                                  ELSE open.sink.full
  <2>1. CASE open.sink.full = <<>>
    <3>1. mid = OnText(open, StripNavs(s.sink.status), flush)
      BY <1>2, <2>1
    <3> HIDE DEF mid
    <3>2. /\ mid \in Shown
          /\ Drafted(open) => Drafted(mid)
          /\ mid.sink.full = open.sink.full \o StripNavs(s.sink.status)
      BY <1>2, <1>3, <3>1, OnTextIs
    <3>3. mid.sink.full = StripNavs(s.sink.status)
      BY <1>3, <2>1, <3>2, JoinEmpty
    <3> QED  BY <1>2, <2>1, <3>2, <3>3
  <2>2. CASE open.sink.full # <<>>
    BY <1>2, <2>2
  <2> QED  BY <2>1, <2>2
<1> HIDE DEF mid
<1>5. /\ full \in Shown
      /\ Drafted(s) => Drafted(full)
      /\ full.sink.full = mid.sink.full /\ full.sink.pending = <<>>
  BY <1>4, FlushTextIs
<1> HIDE DEF full
<1>6. text \in Text /\ full.sink.full \in Text
  BY <1>5, ShownIs, CleanType
<1> HIDE DEF text
<1>7. \A w \in Chats : w = [draft |-> w.draft, bubble |-> w.bubble, closed |-> w.closed]
  BY DEF Chats
<1>8. full.chat \in Chats /\ full.chat.draft \in Text /\ full.chat.bubble \in Text
      /\ full.chat.closed \in Text
  BY <1>5, ShownIs
<1>9. /\ c \in Chats /\ c.bubble = full.chat.bubble /\ c.closed = full.chat.closed
      /\ c.draft = IF text = full.sink.full THEN full.chat.draft ELSE text
  <2>1. CASE text = full.sink.full
    BY <1>8, <2>1
  <2>2. CASE text # full.sink.full
    <3>1. c = [full.chat EXCEPT !.draft = text]
      BY <2>2
    <3> HIDE DEF c
    <3>2. c = [draft |-> text, bubble |-> full.chat.bubble, closed |-> full.chat.closed]
      BY <1>8, <3>1 DEF Chats
    <3> QED  BY <1>6, <1>8, <2>2, <3>2 DEF Chats
  <2> QED  BY <2>1, <2>2
<1> HIDE DEF c
<1>10. c.draft \in Text /\ c.bubble \in Text /\ c.closed \in Text
  BY <1>6, <1>8, <1>9
<1>11. c1 \in Chats /\ c1.bubble = c.bubble \o c.draft /\ c1.closed = c.closed
  <2> DEFINE v == c.bubble \o c.draft
  <2>1. v \in Text
    BY <1>10, JoinType
  <2>2. c1 = [c EXCEPT !.bubble = v]
    OBVIOUS
  <2> HIDE DEF v, c1
  <2>3. c1 = [draft |-> c.draft, bubble |-> v, closed |-> c.closed]
    BY <1>9, <2>2 DEF Chats
  <2> QED  BY <1>10, <2>1, <2>3 DEF Chats, v
<1> HIDE DEF c1
<1>12. c2 \in Chats /\ c2.bubble = c1.bubble /\ c2.closed = c1.closed
  <2>1. <<>> \in Text
    BY MarkupFacts
  <2>2. c2 = [draft |-> <<>>, bubble |-> c1.bubble, closed |-> c1.closed]
    <3>1. \A w : [c1 EXCEPT !.draft = w]
                 = [draft |-> w, bubble |-> c1.bubble, closed |-> c1.closed]
      <4>1. c1 \in Chats
        BY <1>11
      <4> QED  BY <4>1 DEF Chats
    <3> QED  BY <3>1
  <2> HIDE DEF c2
  <2> QED  BY <1>11, <2>1, <2>2 DEF Chats
<1> HIDE DEF c2
<1>13. ASSUME Drafted(s) PROVE c2.closed \o c2.bubble = text
  <2>1. full.chat.closed = <<>> /\ full.chat.bubble = <<>>
        /\ full.chat.draft \o <<>> = full.sink.full
    BY <1>5, <1>13 DEF Drafted
  <2>2. full.chat.draft = full.sink.full
    BY <1>8, <2>1, JoinEmpty
  <2>3. c.draft = text
    BY <1>9, <2>2
  <2> QED  BY <1>6, <1>9, <1>11, <1>12, <2>1, <2>3, JoinEmpty
<1>14. ASSUME NEW D \in Text, Caught(D, s), AsideOK(s.sink.status)
       PROVE  text = Clean(IF Unmarked(D) = <<>> THEN s.sink.status ELSE Unmarked(D))
  <2>1. open.sink.full = Unmarked(D)
    BY <1>2, <1>14
  <2>2. StripNavs(s.sink.status) = s.sink.status
    <3>1. s.sink.status \in Text
      BY ShownIs
    <3>2. \A k \in 1 .. Len(s.sink.status) : s.sink.status[k] # NavClose
      <4>1. CASE s.sink.status = <<>>
        <5>1. Len(s.sink.status) = 0
          BY <4>1
        <5> QED  BY <5>1
      <4>2. CASE s.sink.status # <<>>
        BY <1>14, <4>2 DEF AsideOK
      <4> QED  BY <4>1, <4>2
    <3> QED  BY <3>1, <3>2, StripPlain
  <2>3. full.sink.full = IF Unmarked(D) = <<>> THEN s.sink.status ELSE Unmarked(D)
    BY <1>4, <1>5, <2>1, <2>2
  <2> QED  BY <2>3 DEF text
<1> QED
  BY <1>1, <1>6, <1>12, <1>13, <1>14 DEF r
-----------------------------------------------------------------------------
(* The blocks of a message and the deltas they came in.                        *)

LEMMA PlaceIs ==
  ASSUME NEW text \in Text, NEW sent \in Seq(Text)
  PROVE  /\ Place(text, sent) \in 0 .. Len(sent)
         /\ sent # <<>> /\ sent[1] = text => Place(text, sent) = 1
<1> DEFINE of == {i \in DOMAIN sent : IsPrefix(sent[i], text)}
           n == Len(sent)
           place == CHOOSE i \in of \cup {0} : \A j \in of : i # 0 /\ i <= j
<1>0. n \in Nat /\ DOMAIN sent = 1 .. n
  BY LenProperties
<1>1. Place(text, sent) = place
  BY DEF Place
<1>2. of \in SUBSET (1 .. n)
  BY <1>0
<1>3. sent # <<>> /\ sent[1] = text => 1 \in of
  <2> SUFFICES ASSUME sent # <<>>, sent[1] = text PROVE 1 \in of
    OBVIOUS
  <2>1. n > 0
    BY EmptySeq
  <2>2. Len(text) \in Nat
    BY TextIs
  <2>3. IsPrefix(text, text)
    BY <2>2 DEF IsPrefix
  <2>4. 1 \in DOMAIN sent
    BY <1>0, <2>1
  <2> QED  BY <2>3, <2>4
<1>4. \E i \in of \cup {0} : \A j \in of : i # 0 /\ i <= j
  <2> HIDE DEF of, n
  <2>1. CASE of = {}
    BY <2>1
  <2>2. CASE of # {}
    <3>1. of \in SUBSET Nat
      BY <1>0, <1>2
    <3>2. PICK m \in of : \A k \in of : m <= k
      BY <2>2, <3>1, LeastIndex
    <3>3. m # 0
      BY <1>2
    <3> QED  BY <3>2, <3>3
  <2> QED  BY <2>1, <2>2
<1>5. place \in of \cup {0} /\ \A j \in of : place # 0 /\ place <= j
  BY <1>4
<1> HIDE DEF place, of
<1>6. place \in 0 .. n
  BY <1>0, <1>2, <1>5
<1>7. ASSUME 1 \in of PROVE place = 1
  BY <1>0, <1>2, <1>5, <1>7
<1> QED
  BY <1>1, <1>3, <1>6, <1>7

LEMMA HearIs ==
  ASSUME NEW text \in Text, NEW sent \in Seq(Text)
  PROVE  /\ Undelivered(text, sent) \in Text /\ Consumed(text, sent) \in Seq(Text)
         /\ sent = <<>> => Undelivered(text, sent) = text /\ Consumed(text, sent) = <<>>
         /\ sent # <<>> /\ sent[1] = text =>
              Undelivered(text, sent) = <<>> /\ Consumed(text, sent) = SubSeq(sent, 2, Len(sent))
<1> DEFINE p == Place(text, sent)
           n == Len(sent)
<1>0. n \in Nat /\ p \in 0 .. n /\ \A i \in 1 .. n : sent[i] \in Text
  BY PlaceIs, LenProperties, ElementOfSeq
<1>1. CASE sent = <<>>
  BY <1>1 DEF Undelivered, Consumed
<1>2. CASE sent # <<>> /\ p = 0
  <2>1. Undelivered(text, sent) = <<>> /\ Consumed(text, sent) = sent
    BY <1>2 DEF Undelivered, Consumed
  <2>2. sent[1] # text
    BY <1>2, PlaceIs
  <2> QED  BY <1>2, <2>1, <2>2, MarkupFacts
<1>3. CASE sent # <<>> /\ p # 0
  <2>1. Undelivered(text, sent) = SubSeq(text, Len(sent[p]) + 1, Len(text))
    BY <1>3 DEF Undelivered
  <2>2. Consumed(text, sent) = SubSeq(sent, 1, p - 1) \o SubSeq(sent, p + 1, n)
    BY <1>3 DEF Consumed, RemoveAt
  <2>3. sent[p] \in Text /\ Len(sent[p]) \in Nat /\ Len(text) \in Nat
    BY <1>0, <1>3, TextIs
  <2>4. Undelivered(text, sent) \in Text
    <3>1. Len(sent[p]) + 1 \in Nat \ {0} /\ Len(text) \in 0 .. Len(text)
      BY <2>3
    <3> QED  BY <2>1, <3>1, PartIs
  <2>5. Consumed(text, sent) \in Seq(Text)
    <3>1. \A i \in 1 .. p - 1 : sent[i] \in Text
      BY <1>0, <1>3
    <3>2. \A i \in p + 1 .. n : sent[i] \in Text
      BY <1>0, <1>3
    <3>3. 1 \in Int /\ p - 1 \in Int /\ p + 1 \in Int /\ n \in Int
      BY <1>0
    <3> HIDE DEF p, n
    <3>4. SubSeq(sent, 1, p - 1) \in Seq(Text) /\ SubSeq(sent, p + 1, n) \in Seq(Text)
      BY <3>1, <3>2, <3>3, SubSeqProperties
    <3> QED  BY <2>2, <3>4, ConcatProperties
  <2>6. ASSUME sent[1] = text
        PROVE  Undelivered(text, sent) = <<>> /\ Consumed(text, sent) = SubSeq(sent, 2, n)
    <3>1. p = 1
      BY <1>3, <2>6, PlaceIs
    <3>2. SubSeq(text, Len(text) + 1, Len(text)) = <<>>
      BY <2>3, SubSeqEmpty
    <3>3. SubSeq(sent, 1, 0) = <<>>
      BY SubSeqEmpty
    <3>4. SubSeq(sent, 2, n) \in Seq(Text)
      <4>1. \A i \in 2 .. n : sent[i] \in Text
        BY <1>0
      <4> HIDE DEF n
      <4> QED  BY <1>0, <4>1, SubSeqProperties
    <3>5. <<>> \o SubSeq(sent, 2, n) = SubSeq(sent, 2, n)
      BY <3>4, ConcatEmptySeq
    <3>6. 1 - 1 = 0 /\ 1 + 1 = 2
      OBVIOUS
    <3>7. Undelivered(text, sent) = <<>>
      BY <2>1, <2>6, <3>1, <3>2
    <3> HIDE DEF p
    <3>8. Consumed(text, sent) = SubSeq(sent, 2, n)
      BY <2>2, <3>1, <3>3, <3>5, <3>6
    <3> QED  BY <3>7, <3>8
  <2> QED  BY <1>3, <2>4, <2>5, <2>6
<1> QED
  BY <1>1, <1>2, <1>3

\* The texts are heard one after the other.
Begin(s) == [now |-> s, sent |-> streamed]
Hears(s, heard, flush, hear, n) ==
  hear = [i \in 0 .. n |-> IF i = 0 THEN Begin(s) ELSE Hear(hear[i - 1], heard[i], flush)]

LEMMA HearingIs ==
  ASSUME NEW s, NEW heard, NEW flush, NEW n \in Nat
  PROVE  \E hear : Hears(s, heard, flush, hear, n)
<1> DEFINE S == {k \in Nat : \E hear : Hears(s, heard, flush, hear, k)}
<1>1. 0 \in S
  <2> DEFINE h == [i \in 0 .. 0 |-> Begin(s)]
  <2>1. \A i \in 0 .. 0 : i = 0
    OBVIOUS
  <2>2. h = [i \in 0 .. 0 |-> IF i = 0 THEN Begin(s) ELSE Hear(h[i - 1], heard[i], flush)]
    BY <2>1
  <2> QED  BY <2>2 DEF Hears
<1>2. ASSUME NEW k \in 0 .. n - 1, k \in S PROVE k + 1 \in S
  <2>1. PICK g : Hears(s, heard, flush, g, k)
    BY <1>2
  <2> DEFINE h == [i \in 0 .. k + 1 |->
                     IF i = k + 1 THEN Hear(g[k], heard[k + 1], flush) ELSE g[i]]
  <2>2. k \in Nat /\ k + 1 \in Nat
    OBVIOUS
  <2>3. ASSUME NEW i \in 0 .. k + 1
        PROVE  h[i] = IF i = 0 THEN Begin(s) ELSE Hear(h[i - 1], heard[i], flush)
    <3>1. CASE i = k + 1
      <4>1. i # 0 /\ i - 1 = k /\ k \in 0 .. k + 1 /\ k # k + 1
        BY <2>2, <3>1
      <4>2. h[k] = g[k] /\ h[i] = Hear(g[k], heard[k + 1], flush)
        BY <3>1, <4>1
      <4> HIDE DEF h
      <4> QED  BY <3>1, <4>1, <4>2
    <3>2. CASE i # k + 1
      <4>1. i \in 0 .. k /\ h[i] = g[i]
        BY <2>2, <3>2
      <4>2. g[i] = IF i = 0 THEN Begin(s) ELSE Hear(g[i - 1], heard[i], flush)
        BY <2>1, <4>1 DEF Hears
      <4>3. i # 0 => h[i - 1] = g[i - 1]
        <5>1. i # 0 => i - 1 \in 0 .. k + 1 /\ i - 1 # k + 1
          BY <2>2
        <5> QED  BY <5>1
      <4> HIDE DEF h
      <4> QED  BY <4>1, <4>2, <4>3
    <3> QED  BY <3>1, <3>2
  <2>4. Hears(s, heard, flush, h, k + 1)
    <3>1. DOMAIN h = 0 .. k + 1 /\ h = [i \in 0 .. k + 1 |-> h[i]]
      OBVIOUS
    <3> HIDE DEF h
    <3>2. [i \in 0 .. k + 1 |-> h[i]]
            = [i \in 0 .. k + 1 |->
                 IF i = 0 THEN Begin(s) ELSE Hear(h[i - 1], heard[i], flush)]
      BY <2>3
    <3> QED  BY <3>1, <3>2 DEF Hears
  <2> QED  BY <2>2, <2>4
<1>3. n \in S
  <2> HIDE DEF S
  <2>1. n \in 0 .. n
    OBVIOUS
  <2> QED  BY <1>1, <1>2, <2>1, UpTo
<1> QED
  BY <1>3

LEMMA DeliveredIs ==
  ASSUME NEW s, NEW message \in Seq(Text), NEW flush
  PROVE  LET heard == IF stopped THEN <<message[1]>> ELSE message IN
         \E hear : /\ Delivered(s, message, flush) = hear[Len(heard)].now
                   /\ hear[0] = Begin(s)
                   /\ \A i \in 1 .. Len(heard) : hear[i] = Hear(hear[i - 1], heard[i], flush)
<1> DEFINE heard == IF stopped THEN <<message[1]>> ELSE message
           n == Len(heard)
           hear == CHOOSE f : f = [i \in 0 .. n |-> IF i = 0 THEN [now |-> s, sent |-> streamed]
                                                   ELSE Hear(f[i - 1], heard[i], flush)]
<1>1. n \in Nat
  BY LenProperties
<1>2. Delivered(s, message, flush) = hear[n].now
  BY DEF Delivered
<1> HIDE DEF heard, n
<1>3. Hears(s, heard, flush, hear, n)
  <2>1. \E f : Hears(s, heard, flush, f, n)
    BY <1>1, HearingIs
  <2>2. \A f : Hears(s, heard, flush, f, n)
               <=> f = [i \in 0 .. n |-> IF i = 0 THEN [now |-> s, sent |-> streamed]
                                        ELSE Hear(f[i - 1], heard[i], flush)]
    BY DEF Hears, Begin
  <2> QED  BY <2>1, <2>2
<1> HIDE DEF hear
<1>4. hear[0] = Begin(s)
  <2>1. 0 \in 0 .. n
    BY <1>1
  <2> QED  BY <1>3, <2>1 DEF Hears
<1>5. \A i \in 1 .. n : hear[i] = Hear(hear[i - 1], heard[i], flush)
  <2> TAKE i \in 1 .. n
  <2>1. i \in 0 .. n /\ i # 0
    BY <1>1
  <2> QED  BY <1>3, <2>1 DEF Hears
<1> QED
  BY <1>2, <1>4, <1>5 DEF heard, n
LEMMA DeliveredWhole ==
  ASSUME NEW s, NEW message \in Seq(Text), NEW flush
  PROVE  ~stopped =>
           \E hear : /\ Delivered(s, message, flush) = hear[Len(message)].now
                     /\ hear[0] = Begin(s)
                     /\ \A i \in 1 .. Len(message) :
                          hear[i] = Hear(hear[i - 1], message[i], flush)
<1> DEFINE heard == IF stopped THEN <<message[1]>> ELSE message
           n == Len(heard)
<1>1. PICK hear : /\ Delivered(s, message, flush) = hear[n].now
                  /\ hear[0] = Begin(s)
                  /\ \A i \in 1 .. n : hear[i] = Hear(hear[i - 1], heard[i], flush)
  BY DeliveredIs
<1>2. ~stopped => heard = message
  OBVIOUS
<1> HIDE DEF heard
<1> QED
  BY <1>1, <1>2

\* What is delivered keeps the chat owed what the segment gains, and the aside.
LEMMA DeliveredShown ==
  ASSUME NEW s \in Shown, NEW message \in Seq(Text), message # <<>>, NEW flush \in BOOLEAN,
         streamed \in Seq(Text)
  PROVE  LET d == Delivered(s, message, flush) IN
         /\ d \in Shown /\ d.sink.status = s.sink.status
         /\ Drafted(s) => Drafted(d)
<1> DEFINE d == Delivered(s, message, flush)
           heard == IF stopped THEN <<message[1]>> ELSE message
           n == Len(heard)
<1>1. PICK hear : /\ d = hear[n].now /\ hear[0] = Begin(s)
                  /\ \A i \in 1 .. n : hear[i] = Hear(hear[i - 1], heard[i], flush)
  BY DeliveredIs
<1>2. heard \in Seq(Text)
  <2>1. message[1] \in Text
    <3>1. Len(message) \in Nat /\ Len(message) > 0
      BY EmptySeq, LenProperties
    <3>2. 1 \in 1 .. Len(message)
      BY <3>1
    <3> QED  BY <3>2, ElementOfSeq
  <2> QED  BY <2>1
<1>3. n \in Nat /\ \A i \in 1 .. n : heard[i] \in Text
  BY <1>2, LenProperties, ElementOfSeq
<1> HIDE DEF heard, n, d
<1> DEFINE Good(h) == /\ h.now \in Shown /\ h.sent \in Seq(Text)
                      /\ h.now.sink.status = s.sink.status
                      /\ Drafted(s) => Drafted(h.now)
           S == {i \in 0 .. n : Good(hear[i])}
<1>4. 0 \in S
  <2>1. 0 \in 0 .. n
    BY <1>3
  <2> QED  BY <1>1, <2>1 DEF Begin
<1>5. ASSUME NEW i \in 0 .. n - 1, i \in S PROVE i + 1 \in S
  <2>1. i + 1 \in 1 .. n /\ i + 1 \in 0 .. n /\ (i + 1) - 1 = i
    BY <1>3
  <2>2. Good(hear[i])
    BY <1>5
  <2>3. hear[i + 1] = Hear(hear[i], heard[i + 1], flush)
    BY <1>1, <2>1
  <2> DEFINE h == hear[i]
             t == heard[i + 1]
             e == OnText(h.now, Undelivered(t, h.sent), flush)
  <2>4. t \in Text
    BY <1>3, <2>1
  <2>5. Undelivered(t, h.sent) \in Text /\ Consumed(t, h.sent) \in Seq(Text)
    BY <2>2, <2>4, HearIs
  <2>6. /\ e \in Shown /\ e.sink.status = h.now.sink.status
        /\ Drafted(h.now) => Drafted(e)
    BY <2>2, <2>5, OnTextIs
  <2>7. hear[i + 1].now = e /\ hear[i + 1].sent = Consumed(t, h.sent)
    BY <2>3 DEF Hear
  <2> HIDE DEF e, t, h
  <2>8. Good(hear[i + 1])
    BY <2>2, <2>5, <2>6, <2>7 DEF h
  <2> HIDE DEF Good
  <2> QED  BY <2>1, <2>8
<1>6. n \in S
  <2> HIDE DEF S
  <2>1. n \in 0 .. n
    BY <1>3
  <2> QED  BY <1>3, <1>4, <1>5, <2>1, UpTo
<1> QED
  BY <1>1, <1>6 DEF d

\* The blocks of a list are pieces of a text, each beginning where the last ended.
Pieces(t, list, off) ==
  /\ off \in [0 .. Len(list) -> 0 .. Len(t)]
  /\ \A i \in 1 .. Len(list) :
       off[i - 1] < off[i] /\ list[i] = SubSeq(t, off[i - 1] + 1, off[i])

\* Blocks that came without deltas are heard as they are, each where the last ended.
LEMMA DeliveredCaught ==
  ASSUME NEW s \in Shown, NEW message \in Seq(Text), NEW flush \in BOOLEAN,
         ~stopped, streamed = <<>>, NEW t \in Text,
         NEW off, Pieces(t, message, off),
         Caught(SubSeq(t, 1, off[0]), s)
  PROVE  Caught(SubSeq(t, 1, off[Len(message)]), Delivered(s, message, flush))
<1> DEFINE d == Delivered(s, message, flush)
           n == Len(message)
<1>1. PICK hear : /\ d = hear[n].now
                  /\ hear[0] = Begin(s)
                  /\ \A i \in 1 .. n : hear[i] = Hear(hear[i - 1], message[i], flush)
  BY DeliveredWhole
<1>2. n \in Nat /\ (\A i \in 1 .. n : message[i] \in Text)
      /\ Len(t) \in Nat /\ \A i \in 0 .. n : off[i] \in 0 .. Len(t)
  BY LenProperties, ElementOfSeq, TextIs DEF Pieces
<1>3. \A i \in 1 .. n : off[i - 1] < off[i] /\ message[i] = SubSeq(t, off[i - 1] + 1, off[i])
  BY DEF Pieces
<1> HIDE DEF n, d
<1> DEFINE Good(i) == /\ hear[i].now \in Shown /\ hear[i].sent = <<>>
                      /\ Caught(SubSeq(t, 1, off[i]), hear[i].now)
           S == {i \in 0 .. n : Good(i)}
<1>4. 0 \in S
  <2>1. 0 \in 0 .. n
    BY <1>2
  <2> QED  BY <1>1, <2>1 DEF Begin
<1>5. ASSUME NEW i \in 0 .. n - 1, i \in S PROVE i + 1 \in S
  <2>1. i \in 0 .. n /\ i + 1 \in 1 .. n /\ i + 1 \in 0 .. n /\ (i + 1) - 1 = i
    BY <1>2
  <2>2. Good(i)
    BY <1>5
  <2>3. hear[i + 1] = Hear(hear[i], message[i + 1], flush)
    BY <1>1, <2>1
  <2>4. off[i] < off[i + 1] /\ message[i + 1] = SubSeq(t, off[i] + 1, off[i + 1])
        /\ off[i] \in 0 .. Len(t) /\ off[i + 1] \in 0 .. Len(t)
    BY <1>2, <1>3, <2>1
  <2> DEFINE e == OnText(hear[i].now, message[i + 1], flush)
             D == SubSeq(t, 1, off[i])
  <2>5. message[i + 1] \in Text /\ D \in Text
    <3>0. 1 \in Nat \ {0} /\ off[i] \in 0 .. Len(t)
      BY <2>4
    <3>1. SubSeq(t, 1, off[i]) \in Text
      BY <3>0, PartIs
    <3> QED  BY <1>2, <2>1, <3>1
  <2>6. D \o message[i + 1] = SubSeq(t, 1, off[i + 1])
    <3>1. 1 \in 1 .. Len(t) + 1 /\ off[i] \in 1 - 1 .. Len(t) /\ off[i + 1] \in off[i] .. Len(t)
      BY <1>2, <2>4
    <3>2. SubSeq(t, 1, off[i]) \o SubSeq(t, off[i] + 1, off[i + 1]) = SubSeq(t, 1, off[i + 1])
      BY <3>1, ConcatAdjacentSubSeq DEF Text
    <3> QED  BY <2>4, <3>2
  <2>7. hear[i + 1] = [now |-> e, sent |-> <<>>]
    <3>1. <<>> \in Seq(Text)
      OBVIOUS
    <3>2. Undelivered(message[i + 1], <<>>) = message[i + 1]
          /\ Consumed(message[i + 1], <<>>) = <<>>
      BY <2>5, <3>1, HearIs
    <3> QED  BY <2>2, <2>3, <3>2 DEF Hear
  <2>8. e \in Shown /\ Caught(D \o message[i + 1], e)
    BY <2>2, <2>5, OnTextIs
  <2>9. Good(i + 1)
    <3> HIDE DEF e, D
    <3>1. hear[i + 1].now = e /\ hear[i + 1].sent = <<>>
      BY <2>7
    <3> QED  BY <2>6, <2>8, <3>1
  <2> HIDE DEF Good
  <2> QED  BY <2>1, <2>9
<1>6. n \in S
  <2> HIDE DEF S
  <2>1. n \in 0 .. n
    BY <1>2
  <2> QED  BY <1>2, <1>4, <1>5, <2>1, UpTo
<1> QED
  BY <1>1, <1>6 DEF d, n

\* Blocks that came in deltas were heard before.
LEMMA DeliveredStreamed ==
  ASSUME NEW s \in Shown, NEW message \in Seq(Text), NEW flush,
         ~stopped, streamed = message
  PROVE  Delivered(s, message, flush) = s
<1> DEFINE d == Delivered(s, message, flush)
           n == Len(message)
<1>1. PICK hear : /\ d = hear[n].now
                  /\ hear[0] = Begin(s)
                  /\ \A i \in 1 .. n : hear[i] = Hear(hear[i - 1], message[i], flush)
  BY DeliveredWhole
<1>2. n \in Nat /\ \A i \in 1 .. n : message[i] \in Text
  BY LenProperties, ElementOfSeq
<1> HIDE DEF d
<1> DEFINE Rest(i) == SubSeq(message, i + 1, n)
           S == {i \in 0 .. n : hear[i].now = s /\ hear[i].sent = Rest(i)}
<1>3. ASSUME NEW i \in 0 .. n
      PROVE  /\ Rest(i) \in Seq(Text) /\ Len(Rest(i)) = n - i
             /\ \A k \in 1 .. n - i : Rest(i)[k] = message[i + k]
  <2>1. i + 1 \in Int /\ n \in Int /\ \A k \in i + 1 .. n : message[k] \in Text
    BY <1>2
  <2> HIDE DEF n
  <2>2. /\ Rest(i) \in Seq(Text) /\ Len(Rest(i)) = IF i + 1 <= n THEN n - (i + 1) + 1 ELSE 0
        /\ \A k \in 1 .. n - (i + 1) + 1 : Rest(i)[k] = message[(i + 1) + k - 1]
    BY <2>1, SubSeqProperties
  <2>3. \A k \in 1 .. n - i : k \in 1 .. n - (i + 1) + 1 /\ (i + 1) + k - 1 = i + k
    BY <1>2
  <2>4. (IF i + 1 <= n THEN n - (i + 1) + 1 ELSE 0) = n - i
    BY <1>2
  <2> HIDE DEF Rest
  <2>5. \A k \in 1 .. n - i : Rest(i)[k] = message[i + k]
    BY <2>2, <2>3
  <2> QED  BY <2>2, <2>4, <2>5
<1>4. 0 \in S
  <2>1. 0 \in 0 .. n /\ Rest(0) = message
    <3>1. SubSeq(message, 1, n) = message /\ 0 + 1 = 1
      BY SubSeqFull
    <3> QED  BY <1>2, <3>1
  <2> QED  BY <1>1, <2>1 DEF Begin
<1>5. ASSUME NEW i \in 0 .. n - 1, i \in S PROVE i + 1 \in S
  <2>1. i \in 0 .. n /\ i + 1 \in 1 .. n /\ i + 1 \in 0 .. n /\ (i + 1) - 1 = i
    BY <1>2
  <2>2. hear[i].now = s /\ hear[i].sent = Rest(i)
    BY <1>5
  <2>3. hear[i + 1] = Hear(hear[i], message[i + 1], flush)
    BY <1>1, <2>1
  <2> DEFINE r == Rest(i)
             m == message[i + 1]
  <2>4. r \in Seq(Text) /\ Len(r) = n - i /\ \A k \in 1 .. n - i : r[k] = message[i + k]
    BY <1>3, <2>1
  <2>5. m \in Text
    BY <1>2, <2>1
  <2>6. r # <<>> /\ r[1] = m
    <3>1. n - i > 0 /\ 1 \in 1 .. n - i
      BY <1>2, <2>1
    <3> HIDE DEF r
    <3> QED  BY <2>4, <3>1
  <2> HIDE DEF r, m
  <2>7. Undelivered(m, r) = <<>> /\ Consumed(m, r) = SubSeq(r, 2, Len(r))
    BY <2>4, <2>5, <2>6, HearIs
  <2>8. SubSeq(r, 2, Len(r)) = Rest(i + 1)
    <3> DEFINE q == SubSeq(r, 2, Len(r))
               c == n - i
    <3>0. c \in Nat /\ c > 0
      BY <1>2, <2>1
    <3> HIDE DEF c
    <3>1. 2 \in Int /\ c \in Int /\ \A k \in 2 .. c : r[k] \in Text
      BY <2>4, <3>0, ElementOfSeq DEF c
    <3>2. /\ q \in Seq(Text) /\ Len(q) = IF 2 <= c THEN c - 2 + 1 ELSE 0
          /\ \A k \in 1 .. c - 2 + 1 : q[k] = r[2 + k - 1]
      BY <2>4, <3>1, SubSeqProperties DEF c
    <3>3. /\ Rest(i + 1) \in Seq(Text) /\ Len(Rest(i + 1)) = n - (i + 1)
          /\ \A k \in 1 .. n - (i + 1) : Rest(i + 1)[k] = message[(i + 1) + k]
      BY <1>3, <2>1
    <3> HIDE DEF q, Rest
    <3>4. (IF 2 <= c THEN c - 2 + 1 ELSE 0) = n - (i + 1)
      BY <1>2, <3>0 DEF c
    <3>5. ASSUME NEW k \in 1 .. n - (i + 1) PROVE q[k] = Rest(i + 1)[k]
      <4>1. /\ k \in 1 .. c - 2 + 1 /\ 2 + k - 1 = k + 1 /\ k + 1 \in 1 .. n - i
            /\ i + (k + 1) = (i + 1) + k
        BY <1>2, <2>1 DEF c
      <4> QED  BY <2>4, <3>2, <3>3, <4>1
    <3>6. Len(q) = Len(Rest(i + 1)) /\ \A k \in 1 .. Len(q) : q[k] = Rest(i + 1)[k]
      BY <3>2, <3>3, <3>4, <3>5
    <3>7. q = Rest(i + 1)
      BY <3>2, <3>3, <3>6, SeqEqual
    <3> QED  BY <3>7 DEF q
  <2>9. hear[i + 1].now = s /\ hear[i + 1].sent = Rest(i + 1)
    <3>1. OnText(s, <<>>, flush) = s
      BY DEF OnText
    <3> HIDE DEF Rest
    <3> QED  BY <2>2, <2>3, <2>7, <2>8, <3>1 DEF Hear, r, m
  <2> QED  BY <2>1, <2>9
<1>6. n \in S
  <2> HIDE DEF S
  <2>1. n \in 0 .. n
    BY <1>2
  <2> QED  BY <1>2, <1>4, <1>5, <2>1, UpTo
<1> QED
  BY <1>1, <1>6 DEF d
-----------------------------------------------------------------------------
(* The invariant of a turn.                                                    *)

ReplyTypes ==
  /\ {streams, grouped, resumed, stopped, failed} \subseteq BOOLEAN
  /\ phase \in {"stream", "ending", "over"} /\ words \in 0 .. MaxWords
  /\ said \in Text /\ aside \in Text /\ block \in Text /\ history \in Text
  /\ texts \in Seq(Text) /\ streamed \in Seq(Text)
  /\ sink \in Sinks /\ chat \in Chats

\* The marker stands at the beginning of what was said, or nowhere.
SaidOK == Shaped(said) /\ \A k \in 1 .. Len(said) : said[k] = NavOpen => k = 1

\* The blocks of the message that have something in them.
Blocks == IF block = <<>> THEN texts ELSE Append(texts, block)

\* The blocks not delivered are the end of what was said, and the sink has the rest:
\* all of it when it comes in deltas.
Cut(off) ==
  /\ Pieces(said, texts, off)
  /\ block = SubSeq(said, off[Len(texts)] + 1, Len(said))
  /\ Caught(IF streams THEN said ELSE SubSeq(said, 1, off[0]), Now)

\* A turn that nobody stopped and that did not fail.
AliveInv ==
  /\ SaidOK
  /\ Shaped(block) /\ \A i \in 1 .. Len(texts) : Shaped(texts[i])
  /\ \E off : Cut(off)
  /\ AsideOK(sink.status)
  /\ aside # <<>> => sink.status # <<>>
  /\ streamed = IF streams THEN Blocks ELSE <<>>

\* What the history keeps of a turn that came to its end, whatever the chat shows.
RowIsKept ==
  phase = "over" /\ ~failed /\ ~stopped =>
    /\ Clean(said) # <<>> => history = Clean(said)
    /\ said = <<>> /\ aside # <<>> => history # <<>>

NoPictures == ReplyFaults = {}

ReplyIInv ==
  /\ ReplyTypes
  /\ ~grouped => texts = <<>>
  /\ phase = "stream" => ~failed
  /\ phase # "over" => (NoPictures => Drafted(Now))
  /\ phase # "over" /\ ~stopped /\ ~failed => AliveInv
  /\ phase = "ending" /\ ~stopped /\ ~failed => texts = <<>> /\ block = <<>>
  /\ RowIsKept
  /\ (NoPictures => ReplyIsKept)

LEMMA NowIs ==
  ASSUME sink \in Sinks, chat \in Chats
  PROVE  Now \in Shown /\ Now.sink = sink /\ Now.chat = chat
BY DEF Now, Shown

LEMMA BecomeIs ==
  ASSUME NEW s \in Shown, Become(s)
  PROVE  Now' = s /\ sink' \in Sinks /\ chat' \in Chats /\ sink' = s.sink
<1>1. sink' = s.sink /\ chat' = s.chat
  BY DEF Become
<1>2. s = [sink |-> s.sink, chat |-> s.chat] /\ s.sink \in Sinks /\ s.chat \in Chats
  BY DEF Shown
<1> QED
  BY <1>1, <1>2 DEF Now

LEMMA ReplyStart == ReplyInit => ReplyIInv
<1> SUFFICES ASSUME ReplyInit PROVE ReplyIInv
  OBVIOUS
<1> USE DEF ReplyInit
<1>0. <<>> \in Text /\ Len(<<>>) = 0 /\ NoHold # <<>>
  BY MarkupFacts
<1>1. ReplyTypes
  <2>1. sink \in Sinks /\ chat \in Chats
    BY <1>0 DEF Sinks, Chats
  <2>2. words \in 0 .. MaxWords
    BY MarkupFacts
  <2>3. texts \in Seq(Text) /\ streamed \in Seq(Text)
    OBVIOUS
  <2>4. said \in Text /\ aside \in Text /\ block \in Text /\ history \in Text
    BY <1>0
  <2>5. {streams, grouped, resumed, stopped, failed} \subseteq BOOLEAN
        /\ phase \in {"stream", "ending", "over"}
    OBVIOUS
  <2> QED  BY <2>1, <2>2, <2>3, <2>4, <2>5 DEF ReplyTypes
<1>2. Drafted(Now)
  <2>1. <<>> \o <<>> = <<>>
    BY <1>0, JoinEmpty
  <2> QED  BY <2>1 DEF Drafted, Now
<1>3. AliveInv
  <2>1. Shaped(<<>>) /\ AsideOK(<<>>)
    BY <1>0 DEF Shaped, MarkedAtHead, AsideOK
  <2>2. SaidOK
    BY <1>0, <2>1 DEF SaidOK
  <2>3. Caught(<<>>, Now)
    BY <1>0, UnmarkedEmpty DEF Caught, Now
  <2>4. SubSeq(<<>>, 1, 0) = <<>>
    BY SubSeqEmpty
  <2> DEFINE off == [i \in 0 .. 0 |-> 0]
  <2>5. Pieces(<<>>, <<>>, off) /\ off[0] = 0
    BY <1>0 DEF Pieces
  <2> HIDE DEF off
  <2>6. Cut(off)
    <3>1. off[Len(texts)] + 1 = 1 /\ Len(said) = 0
      BY <1>0, <2>5
    <3>2. block = SubSeq(said, off[Len(texts)] + 1, Len(said))
      BY <2>4, <3>1
    <3>3. (IF streams THEN said ELSE SubSeq(said, 1, off[0])) = <<>>
      BY <2>4, <2>5
    <3> QED  BY <2>3, <2>5, <3>2, <3>3 DEF Cut
  <2> QED  BY <1>0, <2>1, <2>2, <2>6 DEF AliveInv, Blocks
<1> QED
  BY <1>1, <1>2, <1>3 DEF ReplyIInv, RowIsKept, ReplyIsKept
-----------------------------------------------------------------------------
(* A fragment is said.                                                         *)

LEMMA GrownIs ==
  ASSUME NEW t \in Text, NEW f \in 1 .. Note
  PROVE  /\ Append(t, f) \in Text /\ Len(Append(t, f)) = Len(t) + 1
         /\ \A k \in 1 .. Len(t) : Append(t, f)[k] = t[k]
         /\ Append(t, f)[Len(t) + 1] = f
         /\ Append(t, f) = t \o <<f>> /\ <<f>> \in Text /\ Append(t, f) # <<>>
<1>1. <<f>> \in Text
  BY DEF Text
<1>2. /\ Append(t, f) \in Seq(1 .. Note) /\ Append(t, f) # <<>>
      /\ Len(Append(t, f)) = Len(t) + 1
      /\ \A k \in 1 .. Len(t) : Append(t, f)[k] = t[k]
      /\ Append(t, f)[Len(t) + 1] = f
  BY AppendProperties DEF Text
<1>3. Append(t, f) = t \o <<f>>
  BY AppendIsConcat DEF Text
<1> QED
  BY <1>1, <1>2, <1>3 DEF Text

LEMMA GrownShaped ==
  ASSUME NEW t \in Text, NEW f \in 1 .. Note, Shaped(t),
         f = NavClose => Len(t) = 1 /\ t[1] = NavOpen,
         f = Extra => t # <<>> /\ t[Len(t)] \in 1 .. MaxWords
  PROVE  Shaped(Append(t, f))
<1> DEFINE u == Append(t, f)
           n == Len(t)
<1>1. /\ u \in Text /\ Len(u) = n + 1 /\ (\A k \in 1 .. n : u[k] = t[k]) /\ u[n + 1] = f
  BY GrownIs
<1>2. n \in Nat /\ (t # <<>> => n > 0)
  BY TextIs, EmptySeq DEF Text
<1>3. ASSUME NEW k \in 1 .. n + 1, u[k] = NavClose PROVE k = 2 /\ u[1] = NavOpen
  <2>1. CASE k = n + 1
    <3>1. n = 1 /\ t[1] = NavOpen
      BY <1>1, <1>3, <2>1
    <3> QED  BY <1>1, <2>1, <3>1
  <2>2. CASE k # n + 1
    <3>1. k \in 1 .. n /\ 1 \in 1 .. n
      BY <1>2, <2>2
    <3>2. k = 2 /\ t[1] = NavOpen
      BY <1>1, <1>3, <3>1 DEF Shaped, MarkedAtHead
    <3> QED  BY <1>1, <3>1, <3>2
  <2> QED  BY <2>1, <2>2
<1>4. ASSUME NEW k \in 1 .. n + 1, u[k] = Extra PROVE k > 1 /\ u[k - 1] \in 1 .. MaxWords
  <2>1. CASE k = n + 1
    <3>1. n > 0 /\ t[n] \in 1 .. MaxWords
      BY <1>1, <1>2, <1>4, <2>1
    <3>2. k > 1 /\ k - 1 = n /\ n \in 1 .. n
      BY <1>2, <2>1, <3>1
    <3> QED  BY <1>1, <3>1, <3>2
  <2>2. CASE k # n + 1
    <3>1. k \in 1 .. n
      BY <1>2, <2>2
    <3>2. k > 1 /\ t[k - 1] \in 1 .. MaxWords
      BY <1>1, <1>4, <3>1 DEF Shaped
    <3>3. k - 1 \in 1 .. n
      BY <1>2, <3>1, <3>2
    <3> QED  BY <1>1, <3>2, <3>3
  <2> QED  BY <2>1, <2>2
<1> HIDE DEF u, n
<1> QED
  BY <1>1, <1>3, <1>4 DEF Shaped, MarkedAtHead, u

LEMMA GrownPart ==
  ASSUME NEW t \in Text, NEW f \in 1 .. Note
  PROVE  /\ \A a \in Nat \ {0} : \A b \in 0 .. Len(t) :
              SubSeq(Append(t, f), a, b) = SubSeq(t, a, b)
         /\ \A a \in 0 .. Len(t) :
              SubSeq(Append(t, f), a + 1, Len(t) + 1) = Append(SubSeq(t, a + 1, Len(t)), f)
<1> DEFINE u == Append(t, f)
           n == Len(t)
<1>1. /\ u \in Text /\ Len(u) = n + 1 /\ (\A k \in 1 .. n : u[k] = t[k]) /\ u[n + 1] = f
  BY GrownIs
<1>2. n \in Nat
  BY TextIs
<1>3. ASSUME NEW a \in Nat \ {0}, NEW b \in 0 .. n
      PROVE  SubSeq(u, a, b) = SubSeq(t, a, b)
  <2> DEFINE x == SubSeq(u, a, b)
             y == SubSeq(t, a, b)
  <2>1. b \in 0 .. Len(u) /\ b \in 0 .. Len(t)
    BY <1>1, <1>2
  <2> HIDE DEF u
  <2>2. /\ x \in Text /\ Len(x) = IF a <= b THEN b - a + 1 ELSE 0
        /\ \A k \in 1 .. b - a + 1 : x[k] = u[a + k - 1]
    BY <1>1, <2>1, PartIs
  <2>3. /\ y \in Text /\ Len(y) = IF a <= b THEN b - a + 1 ELSE 0
        /\ \A k \in 1 .. b - a + 1 : y[k] = t[a + k - 1]
    BY <2>1, PartIs
  <2> HIDE DEF x, y
  <2>4. ASSUME NEW k \in 1 .. Len(x) PROVE x[k] = y[k]
    <3>1. k \in 1 .. b - a + 1 /\ a + k - 1 \in 1 .. n
      BY <1>2, <2>2
    <3> QED  BY <1>1, <2>2, <2>3, <3>1
  <2>5. x = y
    BY <2>2, <2>3, <2>4, SameText
  <2> QED  BY <2>5 DEF x, y
<1>4. ASSUME NEW a \in 0 .. n
      PROVE  SubSeq(u, a + 1, n + 1) = Append(SubSeq(t, a + 1, n), f)
  <2> DEFINE x == SubSeq(u, a + 1, n + 1)
             y == SubSeq(t, a + 1, n)
  <2>1. a + 1 \in Nat \ {0} /\ n + 1 \in 0 .. Len(u) /\ n \in 0 .. Len(t)
    BY <1>1, <1>2
  <2> HIDE DEF u
  <2>2. /\ x \in Text /\ Len(x) = IF a + 1 <= n + 1 THEN (n + 1) - (a + 1) + 1 ELSE 0
        /\ \A k \in 1 .. (n + 1) - (a + 1) + 1 : x[k] = u[(a + 1) + k - 1]
    BY <1>1, <2>1, PartIs
  <2>3. /\ y \in Text /\ Len(y) = IF a + 1 <= n THEN n - (a + 1) + 1 ELSE 0
        /\ \A k \in 1 .. n - (a + 1) + 1 : y[k] = t[(a + 1) + k - 1]
    BY <2>1, PartIs
  <2> HIDE DEF x, y
  <2>4. Len(x) = (n - a) + 1 /\ Len(y) = n - a
    BY <1>2, <2>2, <2>3
  <2>5. /\ Append(y, f) \in Text /\ Len(Append(y, f)) = Len(y) + 1
        /\ \A k \in 1 .. Len(y) : Append(y, f)[k] = y[k]
        /\ Append(y, f)[Len(y) + 1] = f
    BY <2>3, GrownIs
  <2>6. ASSUME NEW k \in 1 .. Len(x) PROVE x[k] = Append(y, f)[k]
    <3>1. k \in 1 .. (n + 1) - (a + 1) + 1 /\ (a + 1) + k - 1 = a + k
      BY <1>2, <2>4
    <3>2. x[k] = u[a + k]
      BY <2>2, <3>1
    <3>3. CASE k = Len(y) + 1
      <4>1. a + k = n + 1
        BY <1>2, <2>4, <3>3
      <4> QED  BY <1>1, <2>5, <3>2, <3>3, <4>1
    <3>4. CASE k # Len(y) + 1
      <4>1. k \in 1 .. Len(y) /\ k \in 1 .. n - (a + 1) + 1 /\ a + k \in 1 .. n
        BY <1>2, <2>4, <3>4
      <4>2. y[k] = t[a + k]
        BY <2>3, <3>1, <4>1
      <4> QED  BY <1>1, <2>5, <3>2, <4>1, <4>2
    <3> QED  BY <3>3, <3>4
  <2>7. x = Append(y, f)
    BY <2>2, <2>4, <2>5, <2>6, SameText
  <2> QED  BY <2>7 DEF x, y
<1> QED
  BY <1>3, <1>4

LEMMA GrownPieces ==
  ASSUME NEW t \in Text, NEW f \in 1 .. Note, NEW list \in Seq(Text), NEW off,
         Pieces(t, list, off)
  PROVE  Pieces(Append(t, f), list, off)
<1>1. Len(Append(t, f)) = Len(t) + 1 /\ Len(t) \in Nat /\ Len(list) \in Nat
  BY GrownIs, TextIs, LenProperties
<1>2. off \in [0 .. Len(list) -> 0 .. Len(t)]
  BY DEF Pieces
<1>3. off \in [0 .. Len(list) -> 0 .. Len(t) + 1]
  <2>1. 0 .. Len(t) \subseteq 0 .. Len(t) + 1
    BY <1>1
  <2> QED  BY <1>2, <2>1
<1>4. ASSUME NEW i \in 1 .. Len(list)
      PROVE  off[i - 1] < off[i] /\ list[i] = SubSeq(Append(t, f), off[i - 1] + 1, off[i])
  <2>1. off[i - 1] < off[i] /\ list[i] = SubSeq(t, off[i - 1] + 1, off[i])
    BY DEF Pieces
  <2>2. i - 1 \in 0 .. Len(list) /\ i \in 0 .. Len(list)
    BY <1>1
  <2>3. off[i - 1] \in 0 .. Len(t) /\ off[i] \in 0 .. Len(t)
    BY <1>2, <2>2
  <2>4. off[i - 1] + 1 \in Nat \ {0}
    BY <2>3
  <2>5. SubSeq(Append(t, f), off[i - 1] + 1, off[i]) = SubSeq(t, off[i - 1] + 1, off[i])
    BY <2>3, <2>4, GrownPart
  <2> QED  BY <2>1, <2>5
<1> QED
  BY <1>1, <1>3, <1>4 DEF Pieces

\* The block being generated is the end of what was said.
LEMMA BlockIs ==
  ASSUME ReplyTypes, NEW off, Cut(off)
  PROVE  /\ Len(texts) \in Nat /\ off \in [0 .. Len(texts) -> 0 .. Len(said)]
         /\ off[0] \in 0 .. Len(said) /\ off[Len(texts)] \in 0 .. Len(said)
         /\ Len(said) \in Nat /\ Len(block) = Len(said) - off[Len(texts)]
         /\ \A k \in 1 .. Len(block) : block[k] = said[off[Len(texts)] + k]
<1> DEFINE n == Len(texts)
           c == Len(said)
           a == off[n]
<1>1. n \in Nat /\ c \in Nat /\ said \in Text
  BY LenProperties, TextIs DEF ReplyTypes
<1>2. off \in [0 .. n -> 0 .. c]
  BY DEF Cut, Pieces
<1>3. 0 \in 0 .. n /\ n \in 0 .. n
  BY <1>1
<1>4. off[0] \in 0 .. c /\ a \in 0 .. c
  BY <1>2, <1>3
<1>5. block = SubSeq(said, a + 1, c)
  BY DEF Cut
<1>6. a + 1 \in Nat \ {0} /\ c \in 0 .. Len(said)
  BY <1>1, <1>4
<1> HIDE DEF n, a
<1>7. /\ Len(block) = IF a + 1 <= c THEN c - (a + 1) + 1 ELSE 0
      /\ \A k \in 1 .. c - (a + 1) + 1 : block[k] = said[(a + 1) + k - 1]
  BY <1>1, <1>5, <1>6, PartIs
<1> HIDE DEF c
<1>8. Len(block) = c - a
  BY <1>1, <1>4, <1>7
<1>9. ASSUME NEW k \in 1 .. Len(block) PROVE block[k] = said[a + k]
  <2>1. k \in 1 .. c - (a + 1) + 1 /\ (a + 1) + k - 1 = a + k
    BY <1>1, <1>4, <1>8
  <2> QED  BY <1>7, <2>1
<1> QED
  BY <1>1, <1>2, <1>4, <1>8, <1>9 DEF n, c, a

\* What is said keeps its shape, and so does the block it is said in.
LEMMA SaysShaped ==
  ASSUME ReplyTypes, AliveInv, NEW f \in 1 .. Extra, Says(f)
  PROVE  /\ Shaped(Append(said, f)) /\ Shaped(Append(block, f)) /\ words' \in 0 .. MaxWords
         /\ \A k \in 1 .. Len(Append(said, f)) : Append(said, f)[k] = NavOpen => k = 1
<1>0. f \in 1 .. Note /\ MaxWords \in Nat
  BY MarkupFacts DEF Note, Extra
<1>1. PICK off : Cut(off)
  BY DEF AliveInv
<1> DEFINE o == off[Len(texts)]
           n == Len(said)
           m == Len(block)
<1>2. /\ o \in 0 .. n /\ n \in Nat /\ m = n - o /\ \A k \in 1 .. m : block[k] = said[o + k]
      /\ said \in Text /\ block \in Text
  BY <1>1, BlockIs DEF ReplyTypes
<1>3. SaidOK /\ Shaped(said) /\ Shaped(block) /\ \A k \in 1 .. n : said[k] = NavOpen => k = 1
  BY DEF AliveInv, SaidOK
<1>4. Len(Append(said, f)) = n + 1 /\ Append(said, f)[n + 1] = f
      /\ \A k \in 1 .. n : Append(said, f)[k] = said[k]
  BY <1>0, <1>2, GrownIs
<1>5. said = <<>> => n = 0
  OBVIOUS
<1>6. block # <<>> => m >= 1
  <2>1. block # <<>> => Len(block) # 0
    BY <1>2, EmptySeq DEF Text
  <2> HIDE DEF n, o
  <2> QED  BY <1>2, <2>1
<1>7. f = NavOpen => said = <<>>
  BY MarkupFacts DEF Says
<1>8. f = NavClose => n = 1 /\ said[1] = NavOpen /\ m = 1 /\ block[1] = NavOpen
  <2> SUFFICES ASSUME f = NavClose PROVE n = 1 /\ said[1] = NavOpen /\ m = 1 /\ block[1] = NavOpen
    OBVIOUS
  <2>1. block = <<NavOpen>>
    BY MarkupFacts DEF Says
  <2>2. m = 1 /\ block[1] = NavOpen
    BY <2>1
  <2> HIDE DEF n, m, o
  <2>3. said[o + 1] = NavOpen /\ o + 1 \in 1 .. n
    BY <1>2, <2>2
  <2>4. o + 1 = 1
    BY <1>3, <2>3
  <2> QED  BY <1>2, <2>2, <2>3, <2>4
<1>9. f = Extra => /\ block # <<>> /\ block[m] \in 1 .. MaxWords
                   /\ said # <<>> /\ said[n] \in 1 .. MaxWords
  <2> SUFFICES ASSUME f = Extra
               PROVE  /\ block # <<>> /\ block[m] \in 1 .. MaxWords
                      /\ said # <<>> /\ said[n] \in 1 .. MaxWords
    OBVIOUS
  <2>1. block # <<>> /\ block[m] \in 1 .. MaxWords
    BY MarkupFacts DEF Says, Last
  <2>2. n # 0 => said # <<>>
    OBVIOUS
  <2> HIDE DEF n, m, o
  <2>3. m \in 1 .. m /\ o + m = n /\ n # 0
    BY <1>2, <1>6, <2>1
  <2> QED  BY <1>2, <2>1, <2>2, <2>3
<1>10. Shaped(Append(said, f))
  BY <1>0, <1>2, <1>3, <1>8, <1>9, GrownShaped
<1>11. Shaped(Append(block, f))
  BY <1>0, <1>2, <1>3, <1>8, <1>9, GrownShaped
<1>12. words' \in 0 .. MaxWords
  <2>1. words' = IF f \in 1 .. MaxWords THEN f ELSE words
    BY DEF Says
  <2>2. words \in 0 .. MaxWords
    BY DEF ReplyTypes
  <2> QED  BY <1>0, <2>1, <2>2
<1>13. \A k \in 1 .. Len(Append(said, f)) : Append(said, f)[k] = NavOpen => k = 1
  <2> TAKE k \in 1 .. Len(Append(said, f))
  <2> HIDE DEF n, m, o
  <2>1. CASE k \in 1 .. n
    BY <1>3, <1>4, <2>1
  <2>2. CASE k = n + 1
    BY <1>4, <1>5, <1>7, <2>2
  <2> QED  BY <1>2, <1>4, <2>1, <2>2
<1> QED
  BY <1>10, <1>11, <1>12, <1>13

\* The deltas of the message, by block, once another fragment is said.
LEMMA SaysBlocks ==
  ASSUME ReplyTypes, NEW f \in 1 .. Note, streamed = Blocks,
         texts' = texts, block' = Append(block, f),
         streamed' = IF block = <<>> THEN Append(streamed, <<f>>)
                     ELSE [streamed EXCEPT ![Len(streamed)] = Append(@, f)]
  PROVE  streamed' = Blocks' /\ streamed' \in Seq(Text)
<1>0. /\ block \in Text /\ texts \in Seq(Text) /\ Len(texts) \in Nat
      /\ Append(block, f) # <<>> /\ Append(block, f) \in Text /\ <<f>> \in Text
  BY GrownIs, LenProperties DEF ReplyTypes
<1>1. Blocks' = Append(texts, Append(block, f))
  BY <1>0 DEF Blocks
<1>2. CASE block = <<>>
  <2>1. Append(block, f) = <<f>>
    BY <1>2
  <2>2. streamed' = Append(texts, <<f>>)
    BY <1>2 DEF Blocks
  <2>3. Append(texts, <<f>>) \in Seq(Text)
    BY <1>0, AppendProperties
  <2>4. Blocks' = Append(texts, <<f>>)
    BY <1>1, <2>1
  <2> HIDE DEF Blocks
  <2> QED  BY <2>2, <2>3, <2>4
<1>3. CASE block # <<>>
  <2> DEFINE a == Append(texts, block)
             b == Append(texts, Append(block, f))
             n == Len(texts)
  <2>1. streamed = a /\ streamed' = [a EXCEPT ![Len(a)] = Append(@, f)]
    BY <1>3 DEF Blocks
  <2>2. a \in Seq(Text) /\ Len(a) = n + 1 /\ a[n + 1] = block /\ \A i \in 1 .. n : a[i] = texts[i]
    BY <1>0, AppendProperties
  <2>3. b \in Seq(Text) /\ Len(b) = n + 1 /\ b[n + 1] = Append(block, f)
        /\ \A i \in 1 .. n : b[i] = texts[i]
    BY <1>0, AppendProperties
  <2> HIDE DEF a, b
  <2> DEFINE e == [a EXCEPT ![n + 1] = Append(block, f)]
  <2>4. streamed' = e
    BY <2>1, <2>2
  <2>5. DOMAIN a = 1 .. n + 1 /\ a \in [1 .. n + 1 -> Text] /\ n \in Nat
    BY <1>0, <2>2, LenProperties, SeqDef
  <2>6. e \in [1 .. n + 1 -> Text]
    BY <1>0, <2>5
  <2>7. e \in Seq(Text) /\ Len(e) = n + 1
    <3>1. e \in Seq(Text)
      BY <2>5, <2>6, SeqDef
    <3>2. DOMAIN e = 1 .. n + 1
      BY <2>6
    <3> HIDE DEF e
    <3> QED  BY <2>5, <3>1, <3>2, LenProperties
  <2>8. \A i \in 1 .. n + 1 : e[i] = b[i]
    <3> TAKE i \in 1 .. n + 1
    <3>1. CASE i = n + 1
      BY <2>3, <2>5, <3>1
    <3>2. CASE i # n + 1
      <4>1. i \in 1 .. n
        BY <2>5, <3>2
      <4> QED  BY <2>2, <2>3, <2>5, <3>2, <4>1
    <3> QED  BY <3>1, <3>2
  <2> HIDE DEF e
  <2>9. e = b
    BY <2>3, <2>7, <2>8, SeqEqual
  <2> QED  BY <1>1, <2>3, <2>4, <2>9 DEF b
<1> QED
  BY <1>2, <1>3

\* What is said is cut where it was, and the sink catches what comes in deltas.
LEMMA SaysCut ==
  ASSUME ReplyTypes, NEW f \in 1 .. Note, NEW off, Cut(off),
         said' = Append(said, f), block' = Append(block, f), texts' = texts,
         streams' = streams,
         Caught(IF streams THEN Append(said, f) ELSE SubSeq(said, 1, off[0]), Now')
  PROVE  Cut(off)'
<1> DEFINE o == off[Len(texts)]
           c == Len(said)
<1>0. said \in Text /\ texts \in Seq(Text) /\ c \in Nat /\ Len(Append(said, f)) = c + 1
  BY GrownIs, TextIs DEF ReplyTypes
<1>1. off[0] \in 0 .. c /\ o \in 0 .. c
  BY BlockIs
<1>2. Pieces(said, texts, off) /\ block = SubSeq(said, o + 1, c)
  BY DEF Cut
<1>3. Pieces(Append(said, f), texts, off)
  BY <1>0, <1>2, GrownPieces
<1>4. SubSeq(Append(said, f), o + 1, c + 1) = Append(block, f)
  BY <1>0, <1>1, <1>2, GrownPart
<1>5. 1 \in Nat \ {0}
  OBVIOUS
<1>6. SubSeq(Append(said, f), 1, off[0]) = SubSeq(said, 1, off[0])
  BY <1>0, <1>1, <1>5, GrownPart
<1> QED
  BY <1>0, <1>3, <1>4, <1>6 DEF Cut

LEMMA LastGrown ==
  ASSUME NEW list \in Seq(Text), NEW f \in 1 .. Note
  PROVE  [list EXCEPT ![Len(list)] = Append(@, f)] \in Seq(Text)
<1> DEFINE n == Len(list)
           e == [list EXCEPT ![n] = Append(@, f)]
<1>1. n \in Nat /\ list \in [1 .. n -> Text]
  BY LenProperties, SeqDef
<1>2. \A i \in 1 .. n : e[i] \in Text
  <2> TAKE i \in 1 .. n
  <2>1. list[i] \in Text /\ Append(list[i], f) \in Text
    <3>1. list[i] \in Text
      BY <1>1
    <3> QED  BY <3>1, GrownIs
  <2> QED  BY <1>1, <2>1
<1>3. e \in [1 .. n -> Text]
  BY <1>1, <1>2
<1> HIDE DEF e
<1>4. e \in Seq(Text)
  BY <1>1, <1>3, SeqDef
<1> QED
  BY <1>4 DEF e

LEMMA SaysKeeps ==
  ASSUME ReplyIInv, NEW f \in 1 .. Extra, Says(f)
  PROVE  ReplyIInv'
<1>0. f \in 1 .. Note /\ MaxWords \in Nat
  BY MarkupFacts DEF Note, Extra
<1>01. ReplyTypes /\ (~grouped => texts = <<>>)
  BY DEF ReplyIInv
<1>1. /\ phase = "stream" /\ block' = Append(block, f) /\ said' = Append(said, f)
      /\ texts' = texts /\ streams' = streams /\ grouped' = grouped /\ failed' = failed
      /\ stopped' = stopped /\ aside' = aside /\ history' = history /\ resumed' = resumed
  BY DEF Says
<1>2. phase' \in {"stream", "ending"} /\ (phase' = "ending" => stopped)
  BY DEF Says, GoesOn
<1>3. /\ said \in Text /\ block \in Text /\ said' \in Text /\ block' \in Text
      /\ <<f>> \in Text /\ said' = said \o <<f>>
      /\ sink \in Sinks /\ chat \in Chats /\ streams \in BOOLEAN
      /\ streamed \in Seq(Text)
  BY <1>0, <1>01, <1>1, GrownIs DEF ReplyTypes
<1>4. Now \in Shown /\ Now.sink = sink
  BY <1>3, NowIs
<1>5. ~failed /\ (NoPictures => Drafted(Now)) /\ (~stopped => AliveInv)
  BY <1>1 DEF ReplyIInv
<1>6. /\ sink' \in Sinks /\ chat' \in Chats /\ sink'.status = sink.status
      /\ (NoPictures => Drafted(Now'))
      /\ Caught(said, Now) /\ streams => Caught(said', Now')
      /\ ~streams => Now' = Now
  <2>1. CASE streams
    <3>1. PICK flush \in BOOLEAN : Become(OnText(Now, <<f>>, flush))
      BY <2>1 DEF Says
    <3> DEFINE e == OnText(Now, <<f>>, flush)
    <3>2. /\ e \in Shown /\ e.sink.status = sink.status
          /\ Drafted(Now) => Drafted(e)
          /\ Caught(said, Now) => Caught(said', e)
      BY <1>3, <1>4, OnTextIs
    <3> HIDE DEF e
    <3>3. Now' = e /\ sink' \in Sinks /\ chat' \in Chats /\ sink' = e.sink
      BY <3>1, <3>2, BecomeIs DEF e
    <3> QED  BY <1>5, <2>1, <3>2, <3>3
  <2>2. CASE ~streams
    <3>1. sink' = sink /\ chat' = chat
      BY <2>2 DEF Says
    <3>2. Now' = Now
      BY <3>1 DEF Now
    <3> QED  BY <1>3, <1>5, <2>2, <3>1, <3>2
  <2> QED  BY <1>3, <2>1, <2>2
<1>7. streams => streamed' = IF block = <<>> THEN Append(streamed, <<f>>)
                             ELSE [streamed EXCEPT ![Len(streamed)] = Append(@, f)]
  BY DEF Says
<1>8. ~streams => streamed' = streamed
  BY DEF Says
<1>9. streamed' \in Seq(Text)
  <2>1. Append(streamed, <<f>>) \in Seq(Text)
    BY <1>3, AppendProperties
  <2>2. [streamed EXCEPT ![Len(streamed)] = Append(@, f)] \in Seq(Text)
    BY <1>0, <1>3, LastGrown
  <2> QED  BY <1>3, <1>7, <1>8, <2>1, <2>2
<1>10. words' \in 0 .. MaxWords
  <2>1. words \in 0 .. MaxWords /\ words' = IF f \in 1 .. MaxWords THEN f ELSE words
    BY <1>01 DEF Says, ReplyTypes
  <2> QED  BY <1>0, <2>1
<1>11. ReplyTypes'
  BY <1>01, <1>1, <1>2, <1>3, <1>6, <1>9, <1>10 DEF ReplyTypes
<1>12. ASSUME ~stopped PROVE AliveInv'
  <2>1. AliveInv
    BY <1>5, <1>12
  <2>2. /\ Shaped(said') /\ Shaped(block')
        /\ \A k \in 1 .. Len(said') : said'[k] = NavOpen => k = 1
    BY <1>01, <1>1, <2>1, SaysShaped
  <2>3. SaidOK'
    BY <2>2 DEF SaidOK
  <2>4. PICK off : Cut(off)
    BY <2>1 DEF AliveInv
  <2>5. Caught(IF streams THEN said ELSE SubSeq(said, 1, off[0]), Now)
    BY <2>4 DEF Cut
  <2>6. Caught(IF streams THEN said' ELSE SubSeq(said, 1, off[0]), Now')
    BY <1>3, <1>6, <2>5
  <2>7. Caught(IF streams THEN Append(said, f) ELSE SubSeq(said, 1, off[0]), Now')
    BY <1>1, <2>6
  <2>8. Cut(off)'
    BY <1>0, <1>01, <1>1, <2>4, <2>7, SaysCut
  <2>9. streamed' = IF streams' THEN Blocks' ELSE <<>>
    <3>1. CASE streams
      <4>1. streamed = Blocks
        BY <2>1, <3>1 DEF AliveInv
      <4>2. streamed' = Blocks'
        BY <1>0, <1>01, <1>1, <1>7, <3>1, <4>1, SaysBlocks
      <4> QED  BY <1>1, <3>1, <4>2
    <3>2. CASE ~streams
      BY <1>1, <1>8, <2>1, <3>2 DEF AliveInv
    <3> QED  BY <3>1, <3>2
  <2>10. \A i \in 1 .. Len(texts') : Shaped(texts'[i])
    BY <1>1, <2>1 DEF AliveInv, Shaped, MarkedAtHead
  <2>11. AsideOK(sink'.status) /\ (aside' # <<>> => sink'.status # <<>>)
    BY <1>1, <1>6, <2>1 DEF AliveInv
  <2> QED  BY <2>2, <2>3, <2>8, <2>9, <2>10, <2>11 DEF AliveInv
<1> QED
  BY <1>01, <1>1, <1>2, <1>5, <1>6, <1>11, <1>12 DEF ReplyIInv, RowIsKept, ReplyIsKept

-----------------------------------------------------------------------------
(* A block or a message ends.                                                  *)

\* With the block being generated the pieces go on to the end of what was said.
LEMMA BlocksArePieces ==
  ASSUME ReplyTypes, NEW off, Cut(off)
  PROVE  /\ Blocks \in Seq(Text)
         /\ \E to : Pieces(said, Blocks, to) /\ to[0] = off[0] /\ to[Len(Blocks)] = Len(said)
<1> DEFINE n == Len(texts)
           c == Len(said)
<1>0. /\ n \in Nat /\ off \in [0 .. n -> 0 .. c] /\ off[0] \in 0 .. c /\ off[n] \in 0 .. c
      /\ c \in Nat /\ Len(block) = c - off[n]
      /\ texts \in Seq(Text) /\ block \in Text /\ said \in Text
  BY BlockIs DEF ReplyTypes
<1>1. Pieces(said, texts, off) /\ block = SubSeq(said, off[n] + 1, c)
  BY DEF Cut
<1>2. CASE block = <<>>
  <2>1. Len(block) = 0
    BY <1>2
  <2> HIDE DEF n, c
  <2>2. off[n] = c
    BY <1>0, <2>1
  <2> QED  BY <1>0, <1>1, <1>2, <2>2 DEF Blocks, n, c
<1>3. CASE block # <<>>
  <2> DEFINE b == Append(texts, block)
             to == [i \in 0 .. n + 1 |-> IF i = n + 1 THEN c ELSE off[i]]
  <2>1. Blocks = b
    BY <1>3 DEF Blocks
  <2>2. b \in Seq(Text) /\ Len(b) = n + 1 /\ b[n + 1] = block /\ \A i \in 1 .. n : b[i] = texts[i]
    BY <1>0, AppendProperties
  <2>3. Len(block) # 0
    BY <1>0, <1>3, EmptySeq DEF Text
  <2>4. \A i \in 1 .. n : off[i - 1] < off[i] /\ texts[i] = SubSeq(said, off[i - 1] + 1, off[i])
    BY <1>1 DEF Pieces
  <2>5. off[n] < c
    <3> HIDE DEF n, c
    <3> QED  BY <1>0, <2>3
  <2> HIDE DEF b
  <2>6. to \in [0 .. n + 1 -> 0 .. c]
    <3>1. \A i \in 0 .. n + 1 : i # n + 1 => i \in 0 .. n
      BY <1>0
    <3>2. c \in 0 .. c
      BY <1>0
    <3> QED  BY <1>0, <3>1, <3>2
  <2>7. to[0] = off[0] /\ to[n + 1] = c
    BY <1>0
  <2>8. \A i \in 0 .. n : to[i] = off[i]
    BY <1>0
  <2> HIDE DEF to
  <2>9. ASSUME NEW i \in 1 .. n + 1
        PROVE  to[i - 1] < to[i] /\ b[i] = SubSeq(said, to[i - 1] + 1, to[i])
    <3>1. CASE i = n + 1
      <4>1. i - 1 = n /\ n \in 0 .. n
        BY <1>0, <3>1
      <4>2. to[i - 1] = off[n] /\ to[i] = c
        BY <2>7, <2>8, <3>1, <4>1
      <4> QED  BY <1>1, <2>2, <2>5, <3>1, <4>2
    <3>2. CASE i # n + 1
      <4>1. i \in 1 .. n /\ i - 1 \in 0 .. n /\ i \in 0 .. n
        BY <1>0, <3>2
      <4> QED  BY <2>2, <2>4, <2>8, <4>1
    <3> QED  BY <3>1, <3>2
  <2>10. Pieces(said, b, to)
    BY <2>2, <2>6, <2>9 DEF Pieces
  <2> QED  BY <2>1, <2>2, <2>7, <2>10
<1> QED
  BY <1>2, <1>3

\* Once the blocks of a message are delivered the sink has caught all that was said.
LEMMA AllIsCaught ==
  ASSUME ReplyTypes, AliveInv, ~stopped, NEW flush \in BOOLEAN
  PROVE  Caught(said, Delivered(Now, Blocks, flush))
<1>0. /\ Now \in Shown /\ said \in Text /\ streams \in BOOLEAN
  BY NowIs DEF ReplyTypes
<1>1. PICK off : Cut(off)
  BY DEF AliveInv
<1>2. Caught(IF streams THEN said ELSE SubSeq(said, 1, off[0]), Now)
  BY <1>1 DEF Cut
<1>3. Blocks \in Seq(Text)
  BY <1>1, BlocksArePieces
<1>4. PICK to : Pieces(said, Blocks, to) /\ to[0] = off[0] /\ to[Len(Blocks)] = Len(said)
  BY <1>1, BlocksArePieces
<1>5. CASE streams
  <2>1. streamed = Blocks
    BY <1>5 DEF AliveInv
  <2>2. Delivered(Now, Blocks, flush) = Now
    BY <1>0, <1>3, <2>1, DeliveredStreamed
  <2> QED  BY <1>2, <1>5, <2>2
<1>6. CASE ~streams
  <2>1. streamed = <<>>
    BY <1>6 DEF AliveInv
  <2>2. Caught(SubSeq(said, 1, to[0]), Now)
    BY <1>2, <1>4, <1>6
  <2>3. Caught(SubSeq(said, 1, to[Len(Blocks)]), Delivered(Now, Blocks, flush))
    BY <1>0, <1>3, <1>4, <2>1, <2>2, DeliveredCaught
  <2>4. SubSeq(said, 1, Len(said)) = said
    BY <1>0, SubSeqFull DEF Text
  <2> QED  BY <1>4, <2>3, <2>4
<1> QED
  BY <1>5, <1>6

\* When nothing of a message is left the sink has caught all that was said.
LEMMA CutClean ==
  ASSUME ReplyTypes', texts' = <<>>, block' = <<>>, Caught(said', Now')
  PROVE  (\E off : Cut(off))' /\ Blocks' = <<>>
<1> DEFINE c == Len(said')
<1>1. said' \in Text /\ c \in Nat /\ Len(<<>>) = 0
  BY TextIs DEF ReplyTypes
<1>2. PICK off : off \in [0 .. 0 -> 0 .. c] /\ off[0] = c
  <2> DEFINE z == [i \in 0 .. 0 |-> c]
  <2>1. z \in [0 .. 0 -> 0 .. c] /\ z[0] = c
    BY <1>1
  <2> HIDE DEF z
  <2> QED  BY <2>1
<1>3. Pieces(said', texts', off)
  BY <1>1, <1>2 DEF Pieces
<1>4. SubSeq(said', c + 1, c) = <<>> /\ SubSeq(said', 1, c) = said'
  BY <1>1, SubSeqEmpty, SubSeqFull DEF Text
<1>5. Cut(off)'
  <2>1. off[Len(texts')] = c
    BY <1>1, <1>2
  <2>2. block' = SubSeq(said', off[Len(texts')] + 1, Len(said'))
    BY <1>4, <2>1
  <2>3. (IF streams' THEN said' ELSE SubSeq(said', 1, off[0])) = said'
    BY <1>2, <1>4
  <2> HIDE DEF c
  <2> QED  BY <1>3, <2>2, <2>3 DEF Cut
<1> QED
  BY <1>5 DEF Blocks

\* The blocks of a message are delivered, and nothing is left of it.
LEMMA HeardKeeps ==
  ASSUME ReplyIInv, phase = "stream", NEW flush \in BOOLEAN, Blocks # <<>>,
         Become(Delivered(Now, Blocks, flush)), GoesOn,
         texts' = <<>>, block' = <<>>, streamed' = <<>>,
         UNCHANGED <<streams, grouped, resumed, stopped, failed, said, aside, words, history>>
  PROVE  ReplyIInv'
<1>0. /\ ReplyTypes /\ ~failed /\ (NoPictures => Drafted(Now)) /\ (~stopped => AliveInv)
      /\ Now \in Shown /\ Now.sink = sink
  BY NowIs DEF ReplyIInv, ReplyTypes
<1>1. Blocks \in Seq(Text)
  <2>1. texts \in Seq(Text) /\ block \in Text
    BY <1>0 DEF ReplyTypes
  <2> QED  BY <2>1, AppendProperties DEF Blocks
<1> DEFINE d == Delivered(Now, Blocks, flush)
<1>2. d \in Shown /\ d.sink.status = sink.status /\ (NoPictures => Drafted(d))
  <2>1. streamed \in Seq(Text)
    BY <1>0 DEF ReplyTypes
  <2> QED  BY <1>0, <1>1, <2>1, DeliveredShown
<1>3. ~stopped => Caught(said, d)
  BY <1>0, AllIsCaught
<1> HIDE DEF d
<1>4. Now' = d /\ sink' \in Sinks /\ chat' \in Chats /\ sink'.status = sink.status
  BY <1>2, BecomeIs DEF d
<1>5. phase' \in {"stream", "ending"} /\ (phase' = "ending" => stopped)
  BY DEF GoesOn
<1>6. ReplyTypes'
  <2>1. <<>> \in Text /\ <<>> \in Seq(Text)
    BY MarkupFacts
  <2> QED  BY <1>0, <1>4, <1>5, <2>1 DEF ReplyTypes
<1>7. ASSUME ~stopped PROVE AliveInv'
  <2>0. AliveInv
    BY <1>0, <1>7
  <2>1. Caught(said', Now')
    BY <1>3, <1>4, <1>7
  <2>2. (\E off : Cut(off))' /\ Blocks' = <<>>
    BY <1>6, <2>1, CutClean
  <2>3. Shaped(block') /\ Len(texts') = 0
    BY MarkupFacts DEF Shaped, MarkedAtHead
  <2>4. SaidOK'
    BY <2>0 DEF AliveInv, SaidOK, Shaped, MarkedAtHead
  <2>5. AsideOK(sink'.status) /\ (aside' # <<>> => sink'.status # <<>>)
    BY <1>4, <2>0 DEF AliveInv
  <2>6. streamed' = IF streams' THEN Blocks' ELSE <<>>
    BY <2>2
  <2>7. \A i \in 1 .. Len(texts') : Shaped(texts'[i])
    BY <2>3
  <2> QED  BY <2>2, <2>3, <2>4, <2>5, <2>6, <2>7 DEF AliveInv
<1>8. NoPictures => Drafted(Now')
  BY <1>2, <1>4
<1> QED
  BY <1>0, <1>5, <1>6, <1>7, <1>8 DEF ReplyIInv, RowIsKept, ReplyIsKept

LEMMA BlockEndsKeeps ==
  ASSUME ReplyIInv, BlockEnds
  PROVE  ReplyIInv'
<1>0. /\ ReplyTypes /\ ~failed /\ (NoPictures => Drafted(Now)) /\ (~stopped => AliveInv)
      /\ (~grouped => texts = <<>>) /\ phase = "stream" /\ block # <<>> /\ block' = <<>>
  BY DEF ReplyIInv, BlockEnds
<1>1. texts \in Seq(Text) /\ block \in Text /\ <<>> \in Text
  BY <1>0, MarkupFacts DEF ReplyTypes
<1>2. UNCHANGED <<streams, grouped, resumed, stopped, failed, said, aside, words, history>>
  BY DEF BlockEnds
<1>3. CASE ~grouped
  <2>1. Blocks = <<block>> /\ Blocks # <<>> /\ texts' = <<>>
    BY <1>0, <1>3 DEF Blocks, BlockEnds
  <2>2. PICK flush \in BOOLEAN : Become(Delivered(Now, Blocks, flush))
    BY <1>3, <2>1 DEF BlockEnds
  <2>3. streamed' = <<>> /\ GoesOn
    BY <1>3 DEF BlockEnds
  <2> QED  BY <1>0, <1>2, <2>1, <2>2, <2>3, HeardKeeps
<1>4. CASE grouped
  <2>1. texts' = Append(texts, block) /\ UNCHANGED <<streamed, sink, chat, phase>>
    BY <1>4 DEF BlockEnds
  <2>2. Now' = Now /\ texts' \in Seq(Text) /\ texts' = Blocks
    BY <1>0, <1>1, <2>1, AppendProperties DEF Now, Blocks
  <2>3. ReplyTypes'
    BY <1>0, <1>1, <1>2, <2>1, <2>2 DEF ReplyTypes
  <2>4. ASSUME ~stopped PROVE AliveInv'
    <3>0. AliveInv
      BY <1>0, <2>4
    <3>1. PICK off : Cut(off)
      BY <3>0 DEF AliveInv
    <3>2. PICK to : Pieces(said, Blocks, to) /\ to[0] = off[0] /\ to[Len(Blocks)] = Len(said)
      BY <1>0, <3>1, BlocksArePieces
    <3>3. SubSeq(said, Len(said) + 1, Len(said)) = <<>>
      <4>1. Len(said) \in Nat
        BY <1>0, TextIs DEF ReplyTypes
      <4> QED  BY <4>1, SubSeqEmpty
    <3>4. Cut(to)'
      BY <1>0, <1>2, <2>2, <3>1, <3>2, <3>3 DEF Cut
    <3>5. Shaped(block')
      BY <1>0, MarkupFacts DEF Shaped, MarkedAtHead
    <3>6. SaidOK'
      BY <1>2, <3>0 DEF AliveInv, SaidOK, Shaped, MarkedAtHead
    <3>7. \A i \in 1 .. Len(texts') : Shaped(texts'[i])
      <4>1. Len(texts') = Len(texts) + 1 /\ texts'[Len(texts) + 1] = block
            /\ \A i \in 1 .. Len(texts) : texts'[i] = texts[i]
        BY <1>1, <2>1, AppendProperties
      <4>2. Len(texts) \in Nat
        BY <1>1, LenProperties
      <4>3. Shaped(block) /\ \A i \in 1 .. Len(texts) : Shaped(texts[i])
        BY <3>0 DEF AliveInv
      <4> TAKE i \in 1 .. Len(texts')
      <4>4. CASE i = Len(texts) + 1
        BY <4>1, <4>3, <4>4
      <4>5. CASE i # Len(texts) + 1
        <5>1. i \in 1 .. Len(texts)
          BY <4>1, <4>2, <4>5
        <5> QED  BY <4>1, <4>3, <5>1
      <4> QED  BY <4>4, <4>5
    <3>8. Blocks' = Blocks
      BY <1>0, <2>2 DEF Blocks
    <3>9. streamed' = IF streams' THEN Blocks' ELSE <<>>
      BY <1>2, <2>1, <3>0, <3>8 DEF AliveInv
    <3>10. AsideOK(sink'.status) /\ (aside' # <<>> => sink'.status # <<>>)
      BY <1>2, <2>1, <3>0 DEF AliveInv
    <3> QED  BY <3>4, <3>5, <3>6, <3>7, <3>9, <3>10 DEF AliveInv
  <2> QED  BY <1>0, <1>2, <1>4, <2>1, <2>2, <2>3, <2>4 DEF ReplyIInv, RowIsKept, ReplyIsKept
<1>5. grouped \in BOOLEAN
  BY <1>0 DEF ReplyTypes
<1> QED
  BY <1>3, <1>4, <1>5

LEMMA MessageEndsKeeps ==
  ASSUME ReplyIInv, MessageEnds
  PROVE  ReplyIInv'
<1>1. /\ phase = "stream" /\ block = <<>> /\ texts # <<>> /\ texts' = <<>> /\ streamed' = <<>>
      /\ GoesOn /\ block' = <<>>
      /\ UNCHANGED <<streams, grouped, resumed, stopped, failed, said, aside, words, history>>
  BY DEF MessageEnds
<1>2. Blocks = texts /\ Blocks # <<>>
  BY <1>1 DEF Blocks
<1>3. PICK flush \in BOOLEAN : Become(Delivered(Now, Blocks, flush))
  BY <1>2 DEF MessageEnds
<1> QED
  BY <1>1, <1>2, <1>3, HeardKeeps

\* The stream ends, or fails, or is stopped: nothing is said or heard.
LEMMA StreamEndsKeeps ==
  ASSUME ReplyIInv, StreamEnds
  PROVE  ReplyIInv'
<1>0. /\ ReplyTypes /\ ~failed /\ (NoPictures => Drafted(Now)) /\ (~stopped => AliveInv)
      /\ phase = "stream"
  BY DEF ReplyIInv, StreamEnds
<1>1. /\ texts' = <<>> /\ block' = <<>> /\ streamed' = <<>> /\ phase' \in {"stream", "ending"}
      /\ resumed' \in BOOLEAN /\ failed' \in BOOLEAN /\ (phase' = "stream" => ~failed')
      /\ UNCHANGED <<streams, grouped, stopped, said, aside, words, sink, chat, history>>
      /\ (stopped \/ (block = <<>> /\ texts = <<>>))
  BY <1>0 DEF StreamEnds, ReplyTypes
<1>2. ReplyTypes'
  <2>1. <<>> \in Text /\ <<>> \in Seq(Text)
    BY MarkupFacts
  <2> QED  BY <1>0, <1>1, <2>1 DEF ReplyTypes
<1>3. Now' = Now
  BY <1>1 DEF Now
<1>4. ASSUME ~stopped PROVE AliveInv'
  <2>0. AliveInv /\ block = <<>> /\ texts = <<>>
    BY <1>0, <1>1, <1>4
  <2>1. PICK off : Cut(off)
    BY <2>0 DEF AliveInv
  <2>2. Cut(off)'
    BY <1>1, <1>3, <2>0, <2>1 DEF Cut
  <2>3. Blocks' = Blocks /\ Blocks = <<>>
    BY <1>1, <2>0 DEF Blocks
  <2>4. SaidOK' /\ Shaped(block') /\ \A i \in 1 .. Len(texts') : Shaped(texts'[i])
    BY <1>1, <2>0 DEF AliveInv, SaidOK, Shaped, MarkedAtHead
  <2>5. streamed' = IF streams' THEN Blocks' ELSE <<>>
    BY <1>1, <2>3
  <2>6. AsideOK(sink'.status) /\ (aside' # <<>> => sink'.status # <<>>)
    BY <1>1, <2>0 DEF AliveInv
  <2> QED  BY <2>2, <2>4, <2>5, <2>6 DEF AliveInv
<1> QED
  BY <1>0, <1>1, <1>2, <1>3, <1>4 DEF ReplyIInv, RowIsKept, ReplyIsKept

LEMMA FailsKeeps ==
  ASSUME ReplyIInv, Fails \/ Stop
  PROVE  ReplyIInv'
<1>0. /\ ReplyTypes /\ (NoPictures => Drafted(Now)) /\ phase = "stream" /\ (~grouped => texts = <<>>)
  BY DEF ReplyIInv, Fails, Stop
<1>1. /\ phase' \in {"stream", "ending"} /\ (phase' = "stream" => ~failed')
      /\ failed' \in BOOLEAN /\ stopped' \in BOOLEAN /\ (stopped' \/ failed')
      /\ UNCHANGED <<streams, grouped, resumed, said, aside, words, block, texts, streamed,
                     sink, chat, history>>
  <2>0. stopped \in BOOLEAN /\ failed \in BOOLEAN /\ ~failed
    BY <1>0 DEF ReplyTypes, ReplyIInv
  <2>1. CASE Fails
    BY <2>0, <2>1 DEF Fails
  <2>2. CASE Stop
    BY <1>0, <2>0, <2>2 DEF Stop
  <2> QED  BY <2>1, <2>2
<1>2. Now' = Now
  BY <1>1 DEF Now
<1>3. ReplyTypes'
  BY <1>0, <1>1 DEF ReplyTypes
<1> QED
  BY <1>0, <1>1, <1>2, <1>3 DEF ReplyIInv, RowIsKept, ReplyIsKept

-----------------------------------------------------------------------------
(* A tool is called, or the turn is over.                                      *)

\* The aside a segment leaves behind has a word if the segment has one.
LEMMA AsideTold ==
  ASSUME ReplyTypes, AliveInv, block = <<>>, ~streams, NEW off, Cut(off), texts # <<>>,
         StripNavs(said) # <<>>
  PROVE  \E i \in 1 .. Len(texts) : StripNavs(texts[i]) # <<>>
<1> DEFINE n == Len(texts)
           c == Len(said)
           t == texts[n]
<1>0. /\ n \in Nat /\ off \in [0 .. n -> 0 .. c] /\ off[n] \in 0 .. c /\ c \in Nat
      /\ Len(block) = c - off[n] /\ said \in Text /\ texts \in Seq(Text)
  BY BlockIs DEF ReplyTypes
<1>1. n \in 1 .. n /\ n - 1 \in 0 .. n
  <2>1. n # 0
    BY <1>0, EmptySeq
  <2> HIDE DEF n
  <2> QED  BY <1>0, <2>1
<1> DEFINE o == off[n - 1]
<1>2. off[n] = c
  <2>1. Len(block) = 0
    OBVIOUS
  <2> HIDE DEF n, c
  <2> QED  BY <1>0, <2>1
<1>3. o \in 0 .. c /\ o < c /\ t = SubSeq(said, o + 1, c) /\ t \in Text
  <2>1. Pieces(said, texts, off)
    BY DEF Cut
  <2>2. \A i \in 1 .. n : off[i - 1] < off[i] /\ texts[i] = SubSeq(said, off[i - 1] + 1, off[i])
    BY <2>1 DEF Pieces
  <2>3. t \in Text
    BY <1>0, <1>1, ElementOfSeq
  <2> HIDE DEF n, c
  <2> QED  BY <1>0, <1>1, <1>2, <2>2, <2>3
<1>4. Len(t) = c - o /\ \A k \in 1 .. c - o : t[k] = said[o + k]
  <2>1. o + 1 \in Nat \ {0} /\ c \in 0 .. Len(said)
    BY <1>0, <1>3
  <2> HIDE DEF n, o, t, c
  <2>2. /\ Len(t) = IF o + 1 <= c THEN c - (o + 1) + 1 ELSE 0
        /\ \A k \in 1 .. c - (o + 1) + 1 : t[k] = said[(o + 1) + k - 1]
    BY <1>0, <1>3, <2>1, PartIs
  <2>3. Len(t) = c - o
    BY <1>0, <1>3, <2>2
  <2>4. \A k \in 1 .. c - o : t[k] = said[o + k]
    <3> TAKE k \in 1 .. c - o
    <3>1. k \in 1 .. c - (o + 1) + 1 /\ (o + 1) + k - 1 = o + k
      BY <1>0, <1>3
    <3> QED  BY <2>2, <3>1
  <2> QED  BY <2>3, <2>4
<1>5. Shaped(said) /\ Shaped(t) /\ \A k \in 1 .. c : said[k] = NavOpen => k = 1
  BY <1>1 DEF AliveInv, SaidOK
<1>6. StripNavs(t) = Unmarked(t) /\ StripNavs(said) = Unmarked(said)
  BY <1>0, <1>3, <1>5, StripShaped DEF Shaped
<1> HIDE DEF n, c, o
<1>7. CASE IsNav(t)
  <2>1. t[1] = NavOpen /\ Len(t) >= 2
    BY <1>3, <1>7, IsNavIs
  <2>2. said[o + 1] = NavOpen /\ o + 1 \in 1 .. c
    BY <1>0, <1>3, <1>4, <2>1
  <2>3. o = 0
    BY <1>0, <1>3, <1>5, <2>2
  <2>4. Len(t) = c /\ \A k \in 1 .. c : t[k] = said[k]
    BY <1>0, <1>4, <2>3
  <2>5. t = said
    BY <1>0, <1>3, <2>4, SameText DEF c
  <2> QED  BY <1>1, <2>5 DEF n
<1>8. CASE ~IsNav(t)
  <2>1. Unmarked(t) = t
    BY <1>3, <1>8, UnmarkedIs
  <2>2. Len(t) # 0
    BY <1>0, <1>3, <1>4
  <2>3. t # <<>>
    BY <2>2
  <2> QED  BY <1>1, <1>6, <2>1, <2>3 DEF n
<1> QED
  BY <1>7, <1>8

LEMMA CallsToolKeeps ==
  ASSUME ReplyIInv, CallsTool
  PROVE  ReplyIInv'
<1>0. /\ ReplyTypes /\ ~failed /\ (NoPictures => Drafted(Now)) /\ (~stopped => AliveInv)
      /\ phase = "stream" /\ Now \in Shown /\ Now.sink = sink
  BY NowIs DEF ReplyIInv, CallsTool, ReplyTypes
<1>1. /\ block = <<>> /\ block' = <<>> /\ texts' = <<>> /\ streamed' = <<>> /\ GoesOn
      /\ UNCHANGED <<streams, grouped, resumed, stopped, failed, words, history>>
  BY DEF CallsTool
<1>2. /\ texts \in Seq(Text) /\ said \in Text /\ aside \in Text /\ <<>> \in Text
      /\ <<>> \in Seq(Text) /\ Len(<<>>) = 0 /\ sink.status \in Text
  BY <1>0, MarkupFacts, ShownIs DEF ReplyTypes
<1>3. phase' \in {"stream", "ending"} /\ (phase' = "ending" => stopped)
  BY <1>1 DEF GoesOn
<1>4. CASE stopped /\ texts # <<>>
  <2>1. Become(OnStatus(Now, texts[1])) /\ UNCHANGED <<said, aside>>
    BY <1>4 DEF CallsTool
  <2> DEFINE e == OnStatus(Now, texts[1])
  <2>2. texts[1] \in Text
    <3>1. Len(texts) \in Nat /\ Len(texts) # 0
      BY <1>2, <1>4, EmptySeq, LenProperties
    <3>2. 1 \in 1 .. Len(texts)
      BY <3>1
    <3> QED  BY <1>2, <3>2, ElementOfSeq
  <2>3. e \in Shown /\ (NoPictures => Drafted(e))
    BY <1>0, <2>2, OnStatusIs
  <2> HIDE DEF e
  <2>4. Now' = e /\ sink' \in Sinks /\ chat' \in Chats
    BY <2>1, <2>3, BecomeIs DEF e
  <2>5. ReplyTypes'
    BY <1>0, <1>1, <1>2, <1>3, <2>1, <2>4 DEF ReplyTypes
  <2>6. NoPictures => Drafted(Now')
    BY <2>3, <2>4
  <2> QED  BY <1>0, <1>1, <1>3, <1>4, <2>5, <2>6 DEF ReplyIInv, RowIsKept, ReplyIsKept
<1>5. CASE ~ (stopped /\ texts # <<>>)
  <2>1. said' = <<>> /\ aside' = IF StripNavs(said) = <<>> THEN aside ELSE said
    BY <1>5 DEF CallsTool
  <2>2. PICK flush \in BOOLEAN : Become(OnTool(OnAsides(Now, texts), flush))
    BY <1>5 DEF CallsTool
  <2> DEFINE a == OnAsides(Now, texts)
             e == OnTool(a, flush)
  <2>3. /\ a \in Shown /\ (NoPictures => Drafted(a))
        /\ \A D : Caught(D, Now) => Caught(D, a)
        /\ sink.status # <<>> => a.sink.status # <<>>
        /\ \A i \in 1 .. Len(texts) : StripNavs(texts[i]) # <<>> => a.sink.status # <<>>
        /\ AsideOK(sink.status) /\ (\A i \in 1 .. Len(texts) : Shaped(texts[i]))
             => AsideOK(a.sink.status)
    BY <1>0, <1>2, OnAsidesIs
  <2> HIDE DEF a
  <2>4. /\ e \in Shown /\ (NoPictures => Drafted(e)) /\ Caught(<<>>, e)
        /\ \A D \in Text : Caught(D, a) =>
             e.sink.status = IF Unmarked(D) = <<>> THEN a.sink.status ELSE Unmarked(D)
    BY <2>3, OnToolIs
  <2> HIDE DEF e
  <2>5. Now' = e /\ sink' \in Sinks /\ chat' \in Chats /\ sink' = e.sink
    BY <2>2, <2>4, BecomeIs DEF e, a
  <2>6. ReplyTypes'
    BY <1>0, <1>1, <1>2, <1>3, <2>1, <2>5 DEF ReplyTypes
  <2>7. ASSUME ~stopped PROVE AliveInv'
    <3>0. AliveInv
      BY <1>0, <2>7
    <3>1. PICK off : Cut(off)
      BY <3>0 DEF AliveInv
    <3> DEFINE D == IF streams THEN said ELSE SubSeq(said, 1, off[0])
    <3>2. /\ Len(texts) \in Nat /\ off[0] \in 0 .. Len(said) /\ Len(said) \in Nat
          /\ off[Len(texts)] \in 0 .. Len(said) /\ Len(block) = Len(said) - off[Len(texts)]
      BY <1>0, <3>1, BlockIs
    <3>3. D \in Text /\ Shaped(D)
      <4>1. 1 \in Nat \ {0} /\ Shaped(said)
        BY <3>0 DEF AliveInv, SaidOK
      <4> DEFINE p == SubSeq(said, 1, off[0])
                 m == off[0]
      <4>2. /\ p \in Text /\ Len(p) = IF 1 <= m THEN m - 1 + 1 ELSE 0
            /\ \A k \in 1 .. m - 1 + 1 : p[k] = said[1 + k - 1]
        BY <1>2, <3>2, <4>1, PartIs
      <4>3. m \in 0 .. Len(said)
        BY <3>2
      <4> HIDE DEF p, m
      <4>4. Len(p) = m /\ \A k \in 1 .. m : k \in 1 .. Len(said) /\ p[k] = said[k]
        BY <3>2, <4>2, <4>3
      <4>5. Shaped(p)
        <5>1. MarkedAtHead(p)
          <6> SUFFICES ASSUME NEW k \in 1 .. Len(p), p[k] = NavClose
                       PROVE  k = 2 /\ p[1] = NavOpen
            BY DEF MarkedAtHead
          <6>1. k = 2 /\ said[1] = NavOpen
            BY <4>1, <4>4 DEF Shaped, MarkedAtHead
          <6>2. 1 \in 1 .. m
            BY <4>3, <4>4, <6>1
          <6> QED  BY <4>4, <6>1, <6>2
        <5>2. ASSUME NEW k \in 1 .. Len(p), p[k] = Extra
              PROVE  k > 1 /\ p[k - 1] \in 1 .. MaxWords
          <6>1. k > 1 /\ said[k - 1] \in 1 .. MaxWords
            BY <4>1, <4>4, <5>2 DEF Shaped
          <6>2. k - 1 \in 1 .. m
            BY <4>3, <4>4, <6>1
          <6> QED  BY <4>4, <6>1, <6>2
        <5> QED  BY <5>1, <5>2 DEF Shaped
      <4> QED  BY <1>2, <4>1, <4>2, <4>5 DEF p
    <3>4. Caught(D, a)
      BY <2>3, <3>1 DEF Cut
    <3>5. StripNavs(D) = Unmarked(D) /\ AsideOK(Unmarked(D))
      BY <3>3, AsideOfShaped, StripShaped DEF Shaped
    <3>6. e.sink.status = IF Unmarked(D) = <<>> THEN a.sink.status ELSE Unmarked(D)
      BY <2>4, <3>3, <3>4
    <3>7. AsideOK(a.sink.status)
      BY <2>3, <3>0 DEF AliveInv
    <3>8. AsideOK(e.sink.status)
      BY <3>5, <3>6, <3>7
    <3>9. ASSUME StripNavs(said) # <<>> PROVE e.sink.status # <<>>
      <4>1. CASE D = said
        BY <3>5, <3>6, <3>9, <4>1
      <4>2. CASE D # said
        <5>1. ~streams
          BY <1>0, <4>2 DEF ReplyTypes
        <5>2. texts # <<>>
          <6> SUFFICES ASSUME texts = <<>> PROVE D = said
            BY <4>2
          <6>1. off[0] = Len(said)
            <7>1. Len(texts) = 0 /\ Len(block) = 0
              BY <1>1
            <7> QED  BY <3>2, <7>1
          <6> QED  BY <1>2, <6>1, SubSeqFull DEF Text
        <5>3. \E i \in 1 .. Len(texts) : StripNavs(texts[i]) # <<>>
          BY <1>0, <1>1, <3>0, <3>1, <3>9, <5>1, <5>2, AsideTold
        <5>4. a.sink.status # <<>>
          BY <2>3, <5>3
        <5> QED  BY <3>6, <5>4
      <4> QED  BY <4>1, <4>2
    <3> HIDE DEF D
    <3>10. sink.status # <<>> => e.sink.status # <<>>
      BY <2>3, <3>6
    <3>11. aside' # <<>> => sink'.status # <<>>
      <4>1. aside # <<>> => sink.status # <<>>
        BY <3>0 DEF AliveInv
      <4> QED  BY <2>1, <2>5, <3>9, <3>10, <4>1
    <3>12. (\E o : Cut(o))' /\ Blocks' = <<>>
      <4>1. Caught(said', Now')
        BY <2>1, <2>4, <2>5
      <4> QED  BY <1>1, <2>6, <4>1, CutClean
    <3>13. SaidOK' /\ Shaped(block') /\ \A i \in 1 .. Len(texts') : Shaped(texts'[i])
      BY <1>1, <1>2, <2>1 DEF SaidOK, Shaped, MarkedAtHead
    <3>14. streamed' = IF streams' THEN Blocks' ELSE <<>>
      BY <1>1, <3>12
    <3> QED  BY <2>5, <3>8, <3>11, <3>12, <3>13, <3>14 DEF AliveInv
  <2>8. NoPictures => Drafted(Now')
    BY <2>4, <2>5
  <2> QED  BY <1>0, <1>1, <1>3, <2>6, <2>7, <2>8 DEF ReplyIInv, RowIsKept, ReplyIsKept
<1> QED
  BY <1>4, <1>5

LEMMA PromoteType ==
  ASSUME NEW c \in Chats
  PROVE  Promote(c) \in Chats
<1> DEFINE v == c.bubble \o c.draft
           c1 == [c EXCEPT !.bubble = v]
           c2 == [c1 EXCEPT !.draft = <<>>]
<1>1. Promote(c) = c2
  BY DEF Promote
<1>2. v \in Text /\ <<>> \in Text
  BY JoinType, MarkupFacts DEF Chats
<1> HIDE DEF v
<1>3. c1 \in Chats
  BY <1>2 DEF Chats
<1> HIDE DEF c1
<1>4. c2 \in Chats
  BY <1>2, <1>3 DEF Chats
<1> QED
  BY <1>1, <1>4

\* The turn is over: the bubble and the row of the history are what was said, or the
\* last aside when nothing was.
LEMMA ReplyEndsKeeps ==
  ASSUME ReplyIInv, ReplyEnds
  PROVE  ReplyIInv'
<1>0. /\ ReplyTypes /\ (NoPictures => Drafted(Now)) /\ (~stopped /\ ~failed => AliveInv)
      /\ (~stopped /\ ~failed => texts = <<>> /\ block = <<>>)
      /\ phase = "ending" /\ Now \in Shown /\ Now.sink = sink
      /\ (~grouped => texts = <<>>)
  BY NowIs DEF ReplyIInv, ReplyEnds, ReplyTypes
<1>1. /\ phase' = "over"
      /\ UNCHANGED <<streams, grouped, resumed, stopped, failed, said, aside, words, block,
                     texts, streamed>>
  BY DEF ReplyEnds
<1>2. PICK flush \in BOOLEAN :
        LET noted == IF stopped THEN OnText(Now, <<Note>>, flush) ELSE Now IN
        IF failed
        THEN sink' = sink /\ chat' = Promote(FlushText(noted).chat) /\ history' = <<>>
        ELSE LET final == Finalized(noted, flush)
             IN sink' = noted.sink /\ chat' = final.chat /\ history' = final.text
  BY DEF ReplyEnds
<1> DEFINE noted == IF stopped THEN OnText(Now, <<Note>>, flush) ELSE Now
           final == Finalized(noted, flush)
<1>3. noted \in Shown /\ (NoPictures => Drafted(noted))
  <2>1. <<Note>> \in Text
    BY MarkupFacts DEF Text
  <2>2. OnText(Now, <<Note>>, flush) \in Shown /\ (NoPictures => Drafted(OnText(Now, <<Note>>, flush)))
    BY <1>0, <2>1, OnTextIs
  <2> QED  BY <1>0, <2>2
<1>4. ~stopped => noted = Now
  OBVIOUS
<1>5. failed => sink' = sink /\ chat' = Promote(FlushText(noted).chat) /\ history' = <<>>
  BY <1>2
<1>6. ~failed => sink' = noted.sink /\ chat' = final.chat /\ history' = final.text
  BY <1>2
<1> HIDE DEF noted
<1>7. /\ final.text \in Text /\ final.chat \in Chats
      /\ (NoPictures => final.chat.closed \o final.chat.bubble = final.text)
      /\ \A D \in Text : Caught(D, noted) /\ AsideOK(noted.sink.status) =>
           final.text = Clean(IF Unmarked(D) = <<>> THEN noted.sink.status ELSE Unmarked(D))
  BY <1>3, FinalizedIs
<1>8. Promote(FlushText(noted).chat) \in Chats
  <2>1. FlushText(noted) \in Shown
    BY <1>3, FlushTextIs
  <2> QED  BY <2>1, PromoteType, ShownIs
<1> HIDE DEF final
<1>9. ReplyTypes'
  <2>1. sink' \in Sinks /\ chat' \in Chats /\ history' \in Text
    <3>1. CASE failed
      BY <1>0, <1>5, <1>8, <3>1, MarkupFacts DEF ReplyTypes
    <3>2. CASE ~failed
      BY <1>3, <1>6, <1>7, <3>2, ShownIs
    <3> QED  BY <3>1, <3>2
  <2> QED  BY <1>0, <1>1, <2>1 DEF ReplyTypes
<1>10. ASSUME ~stopped, ~failed
       PROVE  /\ Clean(said) # <<>> => history' = Clean(said)
              /\ said = <<>> /\ aside # <<>> => history' # <<>>
  <2>0. AliveInv /\ texts = <<>> /\ block = <<>> /\ noted = Now
    BY <1>0, <1>4, <1>10
  <2>1. said \in Text /\ MarkedAtHead(said) /\ AsideOK(sink.status) /\ sink.status \in Text
        /\ (aside # <<>> => sink.status # <<>>)
    BY <1>0, <2>0, ShownIs DEF ReplyTypes, AliveInv, SaidOK, Shaped
  <2>2. PICK off : Cut(off)
    BY <2>0 DEF AliveInv
  <2>3. Caught(said, Now)
    <3>1. /\ off[Len(texts)] \in 0 .. Len(said) /\ Len(said) \in Nat
          /\ Len(block) = Len(said) - off[Len(texts)]
      BY <1>0, <2>2, BlockIs
    <3>2. Len(texts) = 0 /\ Len(block) = 0
      BY <2>0
    <3>3. off[0] = Len(said)
      BY <3>1, <3>2
    <3>4. SubSeq(said, 1, off[0]) = said
      BY <2>1, <3>3, SubSeqFull DEF Text
    <3> QED  BY <2>2, <3>4 DEF Cut
  <2>4. history' = Clean(IF Unmarked(said) = <<>> THEN sink.status ELSE Unmarked(said))
    BY <1>0, <1>6, <1>7, <1>10, <2>0, <2>1, <2>3
  <2>5. Clean(Unmarked(said)) = Clean(said)
    BY <2>1, CleanUnmarked
  <2>6. Clean(said) # <<>> => history' = Clean(said)
    <3>1. Unmarked(said) = <<>> => Clean(said) = <<>>
      BY <2>5, CleanEmpty
    <3> QED  BY <2>4, <2>5, <3>1
  <2>7. ASSUME said = <<>>, aside # <<>> PROVE history' # <<>>
    <3>1. history' = Clean(sink.status)
      BY <2>4, <2>7, UnmarkedEmpty
    <3>2. sink.status # <<>> /\ sink.status[1] # Extra
          /\ \A k \in 1 .. Len(sink.status) : sink.status[k] # NavClose
      BY <2>1, <2>7 DEF AsideOK
    <3> QED  BY <2>1, <3>1, <3>2, CleanKeeps
  <2> QED  BY <2>6, <2>7
<1>11. NoPictures /\ ~failed => chat'.closed \o chat'.bubble = history'
  BY <1>6, <1>7
<1>12. RowIsKept' /\ (NoPictures => ReplyIsKept)'
  BY <1>1, <1>10, <1>11 DEF RowIsKept, ReplyIsKept, NoPictures
<1> QED
  BY <1>0, <1>1, <1>9, <1>12 DEF ReplyIInv

\* A picture closes the bubble; the sink does not know of it.
LEMMA ImageKeeps ==
  ASSUME ReplyIInv, Image
  PROVE  ReplyIInv'
<1>0. /\ ReplyTypes /\ ~failed /\ (~stopped => AliveInv) /\ (~grouped => texts = <<>>)
      /\ phase = "stream" /\ ~NoPictures
  BY DEF ReplyIInv, Image, NoPictures
<1>1. /\ chat' = [draft |-> <<>>, bubble |-> <<>>, closed |-> chat.closed \o Promote(chat).bubble]
      /\ UNCHANGED <<streams, grouped, phase, resumed, stopped, failed, said, aside, words,
                     block, texts, streamed, sink, history>>
  BY DEF Image
<1>2. chat' \in Chats
  <2>1. Promote(chat) \in Chats /\ chat \in Chats
    BY <1>0, PromoteType DEF ReplyTypes
  <2>2. chat.closed \in Text /\ Promote(chat).bubble \in Text /\ <<>> \in Text
    BY <2>1, MarkupFacts DEF Chats
  <2>3. chat.closed \o Promote(chat).bubble \in Text
    BY <2>2, JoinType
  <2> QED  BY <1>1, <2>2, <2>3 DEF Chats
<1>3. ReplyTypes'
  BY <1>0, <1>1, <1>2 DEF ReplyTypes
<1>4. Now'.sink = Now.sink /\ Blocks' = Blocks
  BY <1>1 DEF Now, Blocks
<1>5. ASSUME AliveInv PROVE AliveInv'
  <2>1. PICK off : Cut(off)
    BY <1>5 DEF AliveInv
  <2>2. \A D : Caught(D, Now) => Caught(D, Now')
    BY <1>4 DEF Caught
  <2>3. Cut(off)'
    BY <1>1, <2>1, <2>2 DEF Cut
  <2> QED  BY <1>1, <1>4, <1>5, <2>3 DEF AliveInv, SaidOK, Shaped, MarkedAtHead
<1> QED
  BY <1>0, <1>1, <1>3, <1>5 DEF ReplyIInv, RowIsKept, ReplyIsKept, NoPictures

LEMMA ReplyStep == ReplyIInv /\ [ReplyNext]_replyVars => ReplyIInv'
<1> SUFFICES ASSUME ReplyIInv, [ReplyNext]_replyVars PROVE ReplyIInv'
  OBVIOUS
<1>1. ASSUME NEW f \in 1 .. Extra, Says(f) PROVE ReplyIInv'
  BY <1>1, SaysKeeps
<1>2. CASE BlockEnds
  BY <1>2, BlockEndsKeeps
<1>3. CASE MessageEnds
  BY <1>3, MessageEndsKeeps
<1>4. CASE CallsTool
  BY <1>4, CallsToolKeeps
<1>5. CASE StreamEnds
  BY <1>5, StreamEndsKeeps
<1>6. CASE Fails \/ Stop
  BY <1>6, FailsKeeps
<1>7. CASE ReplyEnds
  BY <1>7, ReplyEndsKeeps
<1>8. CASE Image
  BY <1>8, ImageKeeps
<1>9. CASE UNCHANGED replyVars
  <2>1. /\ UNCHANGED <<streams, grouped, phase, resumed, stopped, failed, said, aside, words,
                       block, texts, streamed, sink, chat, history>>
    BY <1>9 DEF replyVars
  <2>2. Now' = Now /\ Blocks' = Blocks
    BY <2>1 DEF Now, Blocks
  <2>3. ReplyTypes' /\ RowIsKept' /\ (NoPictures => ReplyIsKept)'
    BY <2>1 DEF ReplyIInv, ReplyTypes, RowIsKept, ReplyIsKept, NoPictures
  <2>4. ASSUME AliveInv PROVE AliveInv'
    <3>1. PICK off : Cut(off)
      BY <2>4 DEF AliveInv
    <3>2. Cut(off)'
      BY <2>1, <2>2, <3>1 DEF Cut
    <3> QED  BY <2>1, <2>2, <2>4, <3>2 DEF AliveInv, SaidOK, Shaped, MarkedAtHead
  <2> QED  BY <2>1, <2>2, <2>3, <2>4 DEF ReplyIInv, NoPictures
<1> QED
  BY <1>1, <1>2, <1>3, <1>4, <1>5, <1>6, <1>7, <1>8, <1>9 DEF ReplyNext

\* However the engine delivers a turn, in deltas or whole blocks, one by one or by the
\* message, and wherever the sink flushes, the history of a turn that came to its end is
\* what the model said after its last tool, each word once, and its last aside when it
\* said nothing after it (run_turn, WebSink).
THEOREM HistoryIsWhatWasSaid == ReplySpec => []RowIsKept
<1>1. ReplyIInv => RowIsKept
  BY DEF ReplyIInv
<1> QED
  BY <1>1, ReplyStart, ReplyStep, PTL DEF ReplySpec

\* And as long as no picture from a background command comes in the middle of the
\* reply, the chat shows what the history keeps, of a stopped turn too (collectDraft).
THEOREM ReplyStaysKept ==
  ASSUME ReplyFaults = {}
  PROVE  ReplySpec => []ReplyIsKept
<1>1. ReplyIInv => ReplyIsKept
  BY DEF ReplyIInv, NoPictures
<1> QED
  BY <1>1, ReplyStart, ReplyStep, PTL DEF ReplySpec

-----------------------------------------------------------------------------
(* The note of a stop.  It is lost only where the text before it is cut.       *)

Plain(t) == \A k \in 1 .. Len(t) : t[k] # Extra
Noted(t) == \E k \in 1 .. Len(t) : t[k] = Note
PlainSink(s) == Plain(s.sink.full) /\ Plain(s.sink.head)

LEMMA JoinOf ==
  ASSUME NEW s \in Text, NEW t \in Text
  PROVE  /\ Plain(s) /\ Plain(t) => Plain(s \o t)
         /\ Noted(t) => Noted(s \o t)
<1>1. /\ s \o t \in Text /\ Len(s \o t) = Len(s) + Len(t) /\ Len(s) \in Nat /\ Len(t) \in Nat
      /\ \A k \in 1 .. Len(s) : (s \o t)[k] = s[k]
      /\ \A k \in 1 .. Len(t) : (s \o t)[Len(s) + k] = t[k]
  BY BothAre, TextIs
<1>2. ASSUME Plain(s), Plain(t), NEW k \in 1 .. Len(s \o t) PROVE (s \o t)[k] # Extra
  <2>1. CASE k <= Len(s)
    <3>1. k \in 1 .. Len(s)
      BY <1>1, <2>1
    <3> QED  BY <1>1, <1>2, <3>1 DEF Plain
  <2>2. CASE k > Len(s)
    <3>1. k - Len(s) \in 1 .. Len(t) /\ Len(s) + (k - Len(s)) = k
      BY <1>1, <2>2
    <3> QED  BY <1>1, <1>2, <3>1 DEF Plain
  <2> QED  BY <1>1, <2>1, <2>2
<1>3. ASSUME NEW k \in 1 .. Len(t), t[k] = Note PROVE Noted(s \o t)
  <2>1. Len(s) + k \in 1 .. Len(s \o t)
    BY <1>1
  <2> QED  BY <1>1, <1>3, <2>1 DEF Noted
<1> QED
  BY <1>2, <1>3 DEF Plain, Noted

LEMMA PlainPart ==
  ASSUME NEW t \in Text, Plain(t), NEW m \in Nat \ {0}, NEW n \in 0 .. Len(t)
  PROVE  Plain(SubSeq(t, m, n))
<1>1. /\ Len(SubSeq(t, m, n)) = IF m <= n THEN n - m + 1 ELSE 0
      /\ \A k \in 1 .. n - m + 1 : SubSeq(t, m, n)[k] = t[m + k - 1]
      /\ Len(t) \in Nat
  BY PartIs, TextIs
<1> SUFFICES ASSUME NEW k \in 1 .. Len(SubSeq(t, m, n)) PROVE SubSeq(t, m, n)[k] # Extra
  BY DEF Plain
<1>2. k \in 1 .. n - m + 1 /\ m + k - 1 \in 1 .. Len(t)
  BY <1>1
<1> QED
  BY <1>1, <1>2 DEF Plain

\* Taking a marker off the head takes neither a note nor a plain word away.
LEMMA UnmarkedKeeps ==
  ASSUME NEW t \in Text
  PROVE  (Plain(t) => Plain(Unmarked(t))) /\ (Noted(t) => Noted(Unmarked(t)))
<1>1. CASE ~IsNav(t)
  BY <1>1, UnmarkedIs
<1>2. CASE IsNav(t)
  <2>1. /\ Len(t) \in Nat /\ Len(t) >= 2 /\ Len(Unmarked(t)) = Len(t) - 2
        /\ \A k \in 1 .. Len(t) - 2 : Unmarked(t)[k] = t[k + 2]
        /\ t[1] = NavOpen /\ t[2] = NavClose
    BY <1>2, UnmarkedIs, IsNavIs
  <2> HIDE DEF Unmarked
  <2>2. ASSUME Plain(t), NEW k \in 1 .. Len(Unmarked(t)) PROVE Unmarked(t)[k] # Extra
    <3>1. k \in 1 .. Len(t) - 2 /\ k + 2 \in 1 .. Len(t)
      BY <2>1
    <3> QED  BY <2>1, <2>2, <3>1 DEF Plain
  <2>3. ASSUME NEW k \in 1 .. Len(t), t[k] = Note PROVE Noted(Unmarked(t))
    <3>1. k # 1 /\ k # 2
      BY <2>1, <2>3, MarkupFacts
    <3>2. k - 2 \in 1 .. Len(t) - 2 /\ (k - 2) + 2 = k
      BY <2>1, <3>1
    <3> QED  BY <2>1, <2>3, <3>2 DEF Noted
  <2> QED  BY <2>2, <2>3 DEF Plain, Noted
<1> QED
  BY <1>1, <1>2

\* Every number of a set has its place in it, and no other number has that place.
LEMMA PlaceOf ==
  ASSUME NEW n \in Nat, NEW K \in SUBSET (1 .. n), NEW i \in K
  PROVE  /\ Cardinality({j \in K : j < i}) + 1 \in 1 .. Cardinality(K)
         /\ \A h \in K : Cardinality({j \in K : j < h}) = Cardinality({j \in K : j < i}) => h = i
<1> DEFINE Below(h) == {j \in K : j < h}
<1>1. IsFiniteSet(K) /\ \A h \in K : h \in Nat
  <2>1. IsFiniteSet(1 .. n)
    BY FS_Interval
  <2>2. IsFiniteSet(K)
    BY <2>1, FS_Subset
  <2> QED  BY <2>2
<1>2. \A h \in K : IsFiniteSet(Below(h)) /\ h \notin Below(h)
  <2> TAKE h \in K
  <2>1. Below(h) \in SUBSET K /\ h \notin Below(h)
    BY <1>1
  <2> HIDE DEF Below
  <2> QED  BY <1>1, <2>1, FS_Subset
<1>3. \A h \in K : IsFiniteSet(Below(h) \cup {h}) /\ Cardinality(Below(h) \cup {h}) = Cardinality(Below(h)) + 1
  BY <1>2, FS_AddElement
<1>4. \A h \in K : Cardinality(Below(h)) \in Nat
  BY <1>2, FS_CardinalityType
<1>5. ASSUME NEW g \in K, NEW h \in K, g < h PROVE Cardinality(Below(g)) + 1 <= Cardinality(Below(h))
  <2>1. \A j \in K : j < g => j < h
    BY <1>1, <1>5
  <2>2. Below(g) \cup {g} \in SUBSET Below(h)
    BY <1>5, <2>1
  <2> HIDE DEF Below
  <2>3. Cardinality(Below(g) \cup {g}) <= Cardinality(Below(h))
    BY <1>2, <2>2, FS_Subset
  <2> QED  BY <1>3, <2>3
<1>6. Cardinality(Below(i)) + 1 <= Cardinality(K)
  <2>1. Below(i) \cup {i} \in SUBSET K
    OBVIOUS
  <2> HIDE DEF Below
  <2>2. Cardinality(Below(i) \cup {i}) <= Cardinality(K)
    BY <1>1, <2>1, FS_Subset
  <2> QED  BY <1>3, <2>2
<1>7. Cardinality(K) \in Nat
  BY <1>1, FS_CardinalityType
<1> HIDE DEF Below
<1>8. ASSUME NEW h \in K, Cardinality(Below(h)) = Cardinality(Below(i)) PROVE h = i
  <2>1. ~ (h < i) /\ ~ (i < h)
    BY <1>4, <1>5, <1>8
  <2> QED  BY <1>1, <2>1
<1> QED
  BY <1>4, <1>6, <1>7, <1>8 DEF Below

\* Removing the markers keeps the note.
LEMMA StripNoted ==
  ASSUME NEW t \in Text, Noted(t)
  PROVE  Noted(StripNavs(t))
<1> DEFINE Marks(i) == t[i] = NavClose \/ (t[i] = NavOpen /\ i < Len(t) /\ t[i + 1] = NavClose)
           kept == {i \in DOMAIN t : ~Marks(i)}
           at(k) == CHOOSE i \in kept : Cardinality({j \in kept : j < i}) = k - 1
<1>1. StripNavs(t) = [k \in 1 .. Cardinality(kept) |-> t[at(k)]]
  BY DEF StripNavs
<1>2. kept \in SUBSET (1 .. Len(t)) /\ Len(t) \in Nat /\ DOMAIN t = 1 .. Len(t)
  BY TextIs
<1>3. PICK i \in 1 .. Len(t) : t[i] = Note
  BY DEF Noted
<1>4. i \in kept
  BY <1>2, <1>3, MarkupFacts
<1> HIDE DEF kept
<1> DEFINE c == Cardinality({j \in kept : j < i})
<1>5. c + 1 \in 1 .. Cardinality(kept)
      /\ \A h \in kept : Cardinality({j \in kept : j < h}) = c => h = i
  BY <1>2, <1>4, PlaceOf
<1>6. at(c + 1) = i
  <2>1. c \in Int /\ (c + 1) - 1 = c
    <3>1. IsFiniteSet({j \in kept : j < i})
      <4>1. {j \in kept : j < i} \in SUBSET (1 .. Len(t))
        BY <1>2
      <4>2. IsFiniteSet(1 .. Len(t))
        BY <1>2, FS_Interval
      <4> QED  BY <4>1, <4>2, FS_Subset
    <3>2. c \in Nat
      BY <3>1, FS_CardinalityType
    <3> HIDE DEF c
    <3> QED  BY <3>2
  <2>2. Cardinality({j \in kept : j < at(c + 1)}) = c /\ at(c + 1) \in kept
    BY <1>4, <2>1
  <2> HIDE DEF at, c
  <2> QED  BY <1>5, <2>2
<1> HIDE DEF at, c
<1>7. StripNavs(t)[c + 1] = Note
  BY <1>1, <1>3, <1>5, <1>6
<1>8. StripNavs(t) \in Text /\ DOMAIN StripNavs(t) = 1 .. Cardinality(kept)
  BY <1>1, StripType
<1>9. c + 1 \in 1 .. Len(StripNavs(t))
  BY <1>5, <1>8, TextIs
<1> QED
  BY <1>7, <1>9 DEF Noted

\* A text that nothing cuts keeps its note.
LEMMA CleanNoted ==
  ASSUME NEW t \in Text, Plain(t), Noted(t)
  PROVE  Noted(Clean(t))
<1>1. PICK e \in 0 .. Len(t) :
        Clean(t) = StripNavs(SubSeq(t, 1, e)) /\ (e < Len(t) => t[e + 1] = Extra)
  BY CleanIs
<1>2. e = Len(t)
  <2>1. Len(t) \in Nat
    BY TextIs
  <2>2. e < Len(t) => e + 1 \in 1 .. Len(t)
    BY <2>1
  <2> QED  BY <1>1, <2>1, <2>2 DEF Plain
<1>3. SubSeq(t, 1, e) = t
  BY <1>2, SubSeqFull DEF Text
<1> QED
  BY <1>1, <1>3, StripNoted

LEMMA EmitPlain ==
  ASSUME NEW s \in Shown, NEW text \in Text, NEW flush \in BOOLEAN, PlainSink(s), Plain(text)
  PROVE  PlainSink(EmitText(s, text, flush))
<1>1. /\ EmitText(s, text, flush).sink.full = s.sink.full \o text
      /\ EmitText(s, text, flush).sink.head = s.sink.head
  BY EmitTextIs
<1>2. Plain(s.sink.full \o text)
  BY ShownIs, JoinOf DEF PlainSink
<1> QED
  BY <1>1, <1>2 DEF PlainSink

LEMMA NoHoldPlain == Plain(NoHold) /\ Plain(<<>>) /\ ~Noted(NoHold) /\ ~Noted(<<>>)
<1>1. Len(NoHold) = 1 /\ NoHold[1] = 0 /\ Len(<<>>) = 0
  BY DEF NoHold
<1>2. 0 # Extra /\ 0 # Note
  BY ReplyAssumption DEF Extra, Note
<1> QED
  BY <1>1, <1>2 DEF Plain, Noted

\* on_text: what the sink holds and what it has let go of come from the text.
LEMMA OnTextPlain ==
  ASSUME NEW s \in Shown, NEW text \in Text, NEW flush \in BOOLEAN
  PROVE  LET e == OnText(s, text, flush) IN
         /\ PlainSink(s) /\ Plain(text) => PlainSink(e)
         /\ Noted(text) => Noted(e.sink.full) \/ Noted(e.sink.head)
<1> DEFINE e == OnText(s, text, flush)
           head == s.sink.head \o text
           open == [s EXCEPT !.sink.head = NoHold]
           u == Unmarked(head)
<1>1. CASE text = <<>>
  <2>1. e = s
    BY <1>1 DEF OnText
  <2> QED  BY <1>1, <2>1, NoHoldPlain
<1>2. CASE text # <<>> /\ s.sink.head = NoHold
  <2>1. e = EmitText(s, text, flush)
    BY <1>2 DEF OnText
  <2>2. e.sink.full = s.sink.full \o text
    BY <2>1, EmitTextIs
  <2>3. Noted(text) => Noted(e.sink.full)
    BY <2>2, ShownIs, JoinOf
  <2>4. PlainSink(s) /\ Plain(text) => PlainSink(e)
    BY <2>1, EmitPlain
  <2> QED  BY <2>3, <2>4
<1>3. CASE text # <<>> /\ s.sink.head # NoHold
  <2>1. /\ s.sink.head \in Text /\ head \in Text /\ s.sink.full \in Text
        /\ (Plain(s.sink.head) /\ Plain(text) => Plain(head))
        /\ (Noted(text) => Noted(head))
    BY <1>3, ShownIs, JoinType, JoinOf
  <2>2. u \in Text /\ (Plain(head) => Plain(u)) /\ (Noted(head) => Noted(u))
    BY <2>1, UnmarkedIs, UnmarkedKeeps
  <2>3. open \in Shown /\ open.sink.full = s.sink.full /\ open.sink.head = NoHold
    <3>1. NoHold \in Text \cup {NoHold}
      OBVIOUS
    <3> QED  BY <3>1, OpenedIs
  <2>4. e = IF HoldMore(head) THEN [s EXCEPT !.sink.head = head]
            ELSE IF u = <<>> THEN open ELSE EmitText(open, u, flush)
    BY <1>3 DEF OnText
  <2> HIDE DEF e, u, open
  <2>5. CASE HoldMore(head)
    <3>1. e = [s EXCEPT !.sink.head = head]
      BY <2>4, <2>5
    <3>2. head \in Text \cup {NoHold}
      BY <2>1
    <3> HIDE DEF head
    <3>3. e.sink.full = s.sink.full /\ e.sink.head = head
      BY <3>1, <3>2, OpenedIs
    <3> QED  BY <2>1, <3>3 DEF PlainSink, e
  <2>6. CASE ~HoldMore(head) /\ u = <<>>
    BY <2>1, <2>2, <2>3, <2>4, <2>6, NoHoldPlain DEF PlainSink, e
  <2>7. CASE ~HoldMore(head) /\ u # <<>>
    <3>1. e = EmitText(open, u, flush)
      BY <2>4, <2>7
    <3>2. e.sink.full = open.sink.full \o u
      BY <2>2, <2>3, <3>1, EmitTextIs
    <3>3. Noted(text) => Noted(e.sink.full)
      BY <2>1, <2>2, <2>3, <3>2, JoinOf
    <3>4. ASSUME PlainSink(s), Plain(text) PROVE PlainSink(e)
      <4>1. PlainSink(open) /\ Plain(u)
        BY <2>1, <2>2, <2>3, <3>4, NoHoldPlain DEF PlainSink
      <4> QED  BY <2>2, <2>3, <3>1, <4>1, EmitPlain
    <3> QED  BY <3>3, <3>4 DEF e
  <2> QED  BY <2>5, <2>6, <2>7
<1> QED
  BY <1>1, <1>2, <1>3

\* finalize: a sink with a note and nothing to cut gives a text with the note.
LEMMA FinalizedNoted ==
  ASSUME NEW s \in Shown, NEW flush \in BOOLEAN, PlainSink(s),
         Noted(s.sink.full) \/ Noted(s.sink.head)
  PROVE  Noted(Finalized(s, flush).text)
<1> DEFINE open == FlushHead(s, flush)
           bare == [s EXCEPT !.sink.head = NoHold]
           u == Unmarked(s.sink.head)
<1>1. bare \in Shown /\ bare.sink.full = s.sink.full /\ bare.sink.head = NoHold
  <2>1. NoHold \in Text \cup {NoHold}
    OBVIOUS
  <2> QED  BY <2>1, OpenedIs
<1>2. Plain(s.sink.full) /\ Plain(s.sink.head) /\ s.sink.full \in Text
  BY ShownIs DEF PlainSink
<1>3. open.sink.full \in Text /\ Plain(open.sink.full) /\ Noted(open.sink.full)
  <2>1. CASE s.sink.head \in {NoHold, <<>>}
    <3>1. open = bare
      BY <2>1 DEF FlushHead
    <3> HIDE DEF bare, open
    <3>2. Noted(s.sink.full)
      BY <2>1, NoHoldPlain
    <3> QED  BY <1>1, <1>2, <3>1, <3>2
  <2>2. CASE s.sink.head \notin {NoHold, <<>>}
    <3>1. open = EmitText(bare, u, flush)
      BY <2>2 DEF FlushHead
    <3>2. s.sink.head \in Text
      BY <2>2, ShownIs
    <3>3. u \in Text /\ Plain(u) /\ (Noted(s.sink.head) => Noted(u))
      BY <1>2, <3>2, UnmarkedIs, UnmarkedKeeps
    <3> HIDE DEF bare, open, u
    <3>4. open.sink.full = s.sink.full \o u
      BY <1>1, <3>1, <3>3, EmitTextIs
    <3>5. Noted(s.sink.full) => Noted(s.sink.full \o u)
      <4>1. s.sink.full \o u \in Text /\ Len(s.sink.full \o u) = Len(s.sink.full) + Len(u)
            /\ \A k \in 1 .. Len(s.sink.full) : (s.sink.full \o u)[k] = s.sink.full[k]
            /\ Len(s.sink.full) \in Nat /\ Len(u) \in Nat
        BY <1>2, <3>3, BothAre, TextIs
      <4> QED  BY <4>1 DEF Noted
    <3>6. Noted(u) => Noted(s.sink.full \o u)
      BY <1>2, <3>3, JoinOf
    <3>7. Plain(s.sink.full \o u) /\ s.sink.full \o u \in Text
      BY <1>2, <3>3, JoinOf, JoinType
    <3> QED  BY <3>3, <3>4, <3>5, <3>6, <3>7
  <2> QED  BY <2>1, <2>2
<1>4. open \in Shown
  BY FlushHeadIs
<1>5. Finalized(s, flush).text
        = Clean(FlushText(IF open.sink.full = <<>>
                          THEN OnText(open, StripNavs(open.sink.status), flush)
                          ELSE open).sink.full)
  BY DEF Finalized
<1> HIDE DEF open
<1>6. open.sink.full # <<>>
  BY <1>3, NoHoldPlain
<1>7. Finalized(s, flush).text = Clean(FlushText(open).sink.full)
  BY <1>5, <1>6
<1>8. FlushText(open).sink.full = open.sink.full
  BY <1>4, FlushTextIs
<1> QED
  BY <1>3, <1>7, <1>8, CleanNoted

\* What the deltas did not deliver of a plain block is plain.
LEMMA UndeliveredPlain ==
  ASSUME NEW text \in Text, NEW sent \in Seq(Text), Plain(text)
  PROVE  Plain(Undelivered(text, sent))
<1> DEFINE p == Place(text, sent)
<1>1. CASE sent = <<>> \/ p = 0
  BY <1>1, NoHoldPlain DEF Undelivered
<1>2. CASE sent # <<>> /\ p # 0
  <2>1. Undelivered(text, sent) = SubSeq(text, Len(sent[p]) + 1, Len(text))
    BY <1>2 DEF Undelivered
  <2>2. p \in 1 .. Len(sent)
    <3>1. p \in 0 .. Len(sent) /\ Len(sent) \in Nat
      BY PlaceIs, LenProperties
    <3> HIDE DEF p
    <3> QED  BY <1>2, <3>1
  <2> HIDE DEF p
  <2>3. sent[p] \in Text
    BY <2>2, ElementOfSeq
  <2>4. Len(sent[p]) + 1 \in Nat \ {0} /\ Len(text) \in 0 .. Len(text)
    BY <2>3, TextIs
  <2> QED  BY <2>1, <2>4, PlainPart
<1> QED
  BY <1>1, <1>2

\* Plain texts leave the sink plain.
LEMMA DeliveredPlain ==
  ASSUME NEW s \in Shown, NEW message \in Seq(Text), message # <<>>, NEW flush \in BOOLEAN,
         streamed \in Seq(Text), PlainSink(s),
         \A i \in 1 .. Len(message) : Plain(message[i])
  PROVE  PlainSink(Delivered(s, message, flush))
<1> DEFINE d == Delivered(s, message, flush)
           heard == IF stopped THEN <<message[1]>> ELSE message
           n == Len(heard)
<1>1. PICK hear : /\ d = hear[n].now /\ hear[0] = Begin(s)
                  /\ \A i \in 1 .. n : hear[i] = Hear(hear[i - 1], heard[i], flush)
  BY DeliveredIs
<1>2. n \in Nat /\ \A i \in 1 .. n : heard[i] \in Text /\ Plain(heard[i])
  <2>1. Len(message) \in Nat /\ Len(message) > 0
    BY EmptySeq, LenProperties
  <2>2. \A i \in 1 .. Len(message) : message[i] \in Text
    BY ElementOfSeq
  <2>3. 1 \in 1 .. Len(message)
    BY <2>1
  <2>4. CASE stopped
    <3>1. heard = <<message[1]>>
      BY <2>4
    <3> HIDE DEF heard
    <3>2. n = 1 /\ heard[1] = message[1]
      BY <3>1
    <3> QED  BY <2>2, <2>3, <3>2
  <2>5. CASE ~stopped
    BY <2>1, <2>2, <2>5
  <2> QED  BY <2>4, <2>5
<1> HIDE DEF heard, n, d
<1> DEFINE Good(h) == h.now \in Shown /\ h.sent \in Seq(Text) /\ PlainSink(h.now)
           S == {i \in 0 .. n : Good(hear[i])}
<1>3. 0 \in S
  <2>1. 0 \in 0 .. n
    BY <1>2
  <2> QED  BY <1>1, <2>1 DEF Begin
<1>4. ASSUME NEW i \in 0 .. n - 1, i \in S PROVE i + 1 \in S
  <2>1. i + 1 \in 1 .. n /\ i + 1 \in 0 .. n /\ (i + 1) - 1 = i
    BY <1>2
  <2>2. Good(hear[i])
    BY <1>4
  <2>3. hear[i + 1] = Hear(hear[i], heard[i + 1], flush)
    BY <1>1, <2>1
  <2> DEFINE h == hear[i]
             t == heard[i + 1]
             e == OnText(h.now, Undelivered(t, h.sent), flush)
  <2>4. t \in Text /\ Plain(t)
    BY <1>2, <2>1
  <2>5. /\ Undelivered(t, h.sent) \in Text /\ Consumed(t, h.sent) \in Seq(Text)
        /\ Plain(Undelivered(t, h.sent))
    BY <2>2, <2>4, HearIs, UndeliveredPlain
  <2>6. e \in Shown /\ PlainSink(e)
    BY <2>2, <2>5, OnTextIs, OnTextPlain
  <2>7. hear[i + 1].now = e /\ hear[i + 1].sent = Consumed(t, h.sent)
    BY <2>3 DEF Hear
  <2> HIDE DEF e, t, h
  <2>8. Good(hear[i + 1])
    BY <2>5, <2>6, <2>7
  <2> HIDE DEF Good
  <2> QED  BY <2>1, <2>8
<1>5. n \in S
  <2> HIDE DEF S
  <2>1. n \in 0 .. n
    BY <1>2
  <2> QED  BY <1>2, <1>3, <1>4, <2>1, UpTo
<1> QED
  BY <1>1, <1>5 DEF d

\* While the model has suggested nothing since its last tool, nothing on its way to
\* the history is cut.
NothingToCut ==
  Plain(said) => /\ PlainSink(Now) /\ Plain(block)
                 /\ \A i \in 1 .. Len(texts) : Plain(texts[i])

\* The note of a stop is in the history, unless a suggestion was.
NoteIsKept == phase = "over" /\ stopped /\ Extra \notin ToSet(said) => Note \in ToSet(history)

NoteInv ==
  /\ stopped => ~failed
  /\ NothingToCut
  /\ phase = "over" /\ stopped /\ Plain(said) => Noted(history)

LEMMA NoteStart == ReplyInit => NoteInv
<1> SUFFICES ASSUME ReplyInit PROVE NoteInv
  OBVIOUS
<1>1. /\ sink.full = <<>> /\ sink.head = <<>> /\ block = <<>> /\ texts = <<>>
      /\ phase = "stream" /\ ~stopped
  BY DEF ReplyInit
<1>2. Now.sink = sink /\ Len(texts) = 0
  BY <1>1 DEF Now
<1> QED
  BY <1>1, <1>2, NoHoldPlain DEF NoteInv, NothingToCut, PlainSink

\* A step that delivers texts of the message.
LEMMA NoteHeard ==
  ASSUME ReplyIInv, NoteInv, NEW flush \in BOOLEAN, NEW message \in Seq(Text), message # <<>>,
         Plain(said) => \A i \in 1 .. Len(message) : Plain(message[i]),
         Become(Delivered(Now, message, flush))
  PROVE  Plain(said) => PlainSink(Now')
<1> SUFFICES ASSUME Plain(said) PROVE PlainSink(Now')
  OBVIOUS
<1>1. Now \in Shown /\ streamed \in Seq(Text)
  BY NowIs DEF ReplyIInv, ReplyTypes
<1> DEFINE d == Delivered(Now, message, flush)
<1>2. d \in Shown /\ PlainSink(d)
  BY <1>1, DeliveredShown, DeliveredPlain DEF NoteInv, NothingToCut
<1> HIDE DEF d
<1>3. Now' = d
  BY <1>2, BecomeIs DEF d
<1> QED
  BY <1>2, <1>3

LEMMA NoteSays ==
  ASSUME ReplyIInv, NoteInv, NEW f \in 1 .. Extra, Says(f)
  PROVE  NoteInv'
<1>1. /\ phase = "stream" /\ phase' \in {"stream", "ending"} /\ texts' = texts
      /\ block' = Append(block, f) /\ said' = Append(said, f)
      /\ UNCHANGED <<stopped, failed>>
  BY DEF Says, GoesOn
<1>2. /\ said \in Text /\ block \in Text /\ f \in 1 .. Note /\ <<f>> \in Text
      /\ Now \in Shown
  <2>1. f \in 1 .. Note
    BY ReplyAssumption DEF Note, Extra
  <2> QED  BY <2>1, NowIs DEF ReplyIInv, ReplyTypes, Text
<1>3. said' = said \o <<f>> /\ block' = block \o <<f>>
  BY <1>1, <1>2 DEF Text
<1> SUFFICES ASSUME Plain(said')
             PROVE  /\ PlainSink(Now') /\ Plain(block')
                    /\ \A i \in 1 .. Len(texts') : Plain(texts'[i])
  BY <1>1 DEF NoteInv, NothingToCut
<1>4. Plain(said) /\ Plain(<<f>>)
  <2>1. /\ Len(said') = Len(said) + 1 /\ Len(said) \in Nat /\ Len(<<f>>) = 1 /\ <<f>>[1] = f
        /\ \A k \in 1 .. Len(said) : said'[k] = said[k]
        /\ said'[Len(said) + 1] = f
    BY <1>2, <1>3, BothAre, TextIs
  <2>2. f # Extra
    BY <2>1 DEF Plain
  <2> QED  BY <2>1, <2>2 DEF Plain
<1>5. PlainSink(Now) /\ Plain(block) /\ \A i \in 1 .. Len(texts) : Plain(texts[i])
  BY <1>4 DEF NoteInv, NothingToCut
<1>6. Plain(block')
  BY <1>2, <1>3, <1>4, <1>5, JoinOf
<1>7. PlainSink(Now')
  <2>1. CASE streams
    <3>1. PICK flush \in BOOLEAN : Become(OnText(Now, <<f>>, flush))
      BY <2>1 DEF Says
    <3> DEFINE e == OnText(Now, <<f>>, flush)
    <3>2. e \in Shown /\ PlainSink(e)
      BY <1>2, <1>4, <1>5, OnTextIs, OnTextPlain
    <3> HIDE DEF e
    <3>3. Now' = e
      BY <3>1, <3>2, BecomeIs DEF e
    <3> QED  BY <3>2, <3>3
  <2>2. CASE ~streams
    BY <1>5, <2>2 DEF Says, Now
  <2> QED  BY <2>1, <2>2
<1> QED
  BY <1>1, <1>5, <1>6, <1>7

LEMMA NoteBlockEnds ==
  ASSUME ReplyIInv, NoteInv, BlockEnds
  PROVE  NoteInv'
<1>1. /\ phase = "stream" /\ phase' # "over" /\ block' = <<>> /\ said' = said
      /\ texts \in Seq(Text) /\ block \in Text /\ UNCHANGED <<stopped, failed>>
  BY DEF BlockEnds, GoesOn, ReplyIInv, ReplyTypes
<1> SUFFICES ASSUME Plain(said)
             PROVE  PlainSink(Now') /\ \A i \in 1 .. Len(texts') : Plain(texts'[i])
  BY <1>1, NoHoldPlain DEF NoteInv, NothingToCut
<1>2. PlainSink(Now) /\ Plain(block) /\ \A i \in 1 .. Len(texts) : Plain(texts[i])
  BY DEF NoteInv, NothingToCut
<1>3. CASE grouped
  <2>1. texts' = Append(texts, block) /\ Now' = Now
    BY <1>3 DEF BlockEnds, Now
  <2>2. /\ Len(texts') = Len(texts) + 1 /\ texts'[Len(texts) + 1] = block
        /\ \A i \in 1 .. Len(texts) : texts'[i] = texts[i]
        /\ Len(texts) \in Nat
    BY <1>1, <2>1, AppendProperties, LenProperties
  <2>3. ASSUME NEW i \in 1 .. Len(texts') PROVE Plain(texts'[i])
    <3>1. i = Len(texts) + 1 \/ i \in 1 .. Len(texts)
      BY <2>2
    <3> QED  BY <1>2, <2>2, <3>1
  <2> QED  BY <1>2, <2>1, <2>3
<1>4. CASE ~grouped
  <2>1. PICK flush \in BOOLEAN : Become(Delivered(Now, <<block>>, flush))
    BY <1>4 DEF BlockEnds
  <2>2. texts' = <<>>
    BY <1>4 DEF BlockEnds, ReplyIInv
  <2>3. <<block>> \in Seq(Text) /\ <<block>> # <<>> /\ \A i \in 1 .. Len(<<block>>) : Plain(<<block>>[i])
    BY <1>1, <1>2
  <2>4. PlainSink(Now')
    BY <2>1, <2>3, NoteHeard
  <2> QED  BY <2>2, <2>4
<1> QED
  BY <1>3, <1>4

LEMMA NoteMessageEnds ==
  ASSUME ReplyIInv, NoteInv, MessageEnds
  PROVE  NoteInv'
<1>1. /\ phase' # "over" /\ block' = <<>> /\ said' = said /\ texts' = <<>>
      /\ texts # <<>> /\ texts \in Seq(Text) /\ UNCHANGED <<stopped, failed>>
  BY DEF MessageEnds, GoesOn, ReplyIInv, ReplyTypes
<1>2. PICK flush \in BOOLEAN : Become(Delivered(Now, texts, flush))
  BY DEF MessageEnds
<1>3. Plain(said) => PlainSink(Now')
  BY <1>1, <1>2, NoteHeard DEF NoteInv, NothingToCut
<1> QED
  BY <1>1, <1>3, NoHoldPlain DEF NoteInv, NothingToCut

LEMMA NoteCallsTool ==
  ASSUME ReplyIInv, NoteInv, CallsTool
  PROVE  NoteInv'
<1>1. /\ phase' # "over" /\ block' = <<>> /\ texts' = <<>> /\ texts \in Seq(Text)
      /\ Now \in Shown /\ UNCHANGED <<stopped, failed>>
  BY NowIs DEF CallsTool, GoesOn, ReplyIInv, ReplyTypes
<1> SUFFICES ASSUME Plain(said') PROVE PlainSink(Now')
  BY <1>1, NoHoldPlain DEF NoteInv, NothingToCut
<1>2. CASE stopped /\ texts # <<>>
  <2>1. Become(OnStatus(Now, texts[1])) /\ said' = said
    BY <1>2 DEF CallsTool
  <2>2. sink'.full = sink.full /\ sink'.head = sink.head
    <3>1. sink' = OnStatus(Now, texts[1]).sink /\ Now.sink = sink
      BY <2>1 DEF Become, Now
    <3>2. OnStatus(Now, texts[1]).sink.full = Now.sink.full
          /\ OnStatus(Now, texts[1]).sink.head = Now.sink.head
      BY <1>1 DEF OnStatus, Shown, Sinks
    <3> QED  BY <3>1, <3>2
  <2> QED  BY <2>1, <2>2 DEF NoteInv, NothingToCut, PlainSink, Now
<1>3. CASE ~ (stopped /\ texts # <<>>)
  <2>1. PICK flush \in BOOLEAN : Become(OnTool(OnAsides(Now, texts), flush))
    BY <1>3 DEF CallsTool
  <2> DEFINE a == OnAsides(Now, texts)
             e == OnTool(a, flush)
  <2>2. a \in Shown
    BY <1>1, OnAsidesIs
  <2> HIDE DEF a
  <2>3. e \in Shown /\ Caught(<<>>, e)
    BY <2>2, OnToolIs
  <2> HIDE DEF e
  <2>4. Now' = e
    BY <2>1, <2>3, BecomeIs DEF e, a
  <2> QED  BY <2>3, <2>4, NoHoldPlain DEF Caught, PlainSink
<1> QED
  BY <1>2, <1>3

\* The turn is over: the note is appended and what there is goes into the history.
LEMMA NoteReplyEnds ==
  ASSUME ReplyIInv, NoteInv, ReplyEnds
  PROVE  NoteInv'
<1>1. /\ UNCHANGED <<said, block, texts, stopped, failed>>
      /\ Now \in Shown /\ Now.sink = sink /\ (stopped => ~failed)
  BY NowIs DEF ReplyEnds, ReplyIInv, ReplyTypes, NoteInv
<1>2. PICK flush \in BOOLEAN :
        LET noted == IF stopped THEN OnText(Now, <<Note>>, flush) ELSE Now IN
        IF failed
        THEN sink' = sink /\ chat' = Promote(FlushText(noted).chat) /\ history' = <<>>
        ELSE LET final == Finalized(noted, flush)
             IN sink' = noted.sink /\ chat' = final.chat /\ history' = final.text
  BY DEF ReplyEnds
<1> DEFINE noted == IF stopped THEN OnText(Now, <<Note>>, flush) ELSE Now
<1>3. <<Note>> \in Text /\ Plain(<<Note>>) /\ Noted(<<Note>>)
  <2>1. Len(<<Note>>) = 1 /\ <<Note>>[1] = Note /\ <<Note>> \in Text
    BY MarkupFacts DEF Text
  <2> QED  BY <2>1, MarkupFacts DEF Plain, Noted
<1>4. /\ noted \in Shown /\ (Plain(said) => PlainSink(noted))
      /\ stopped => Noted(noted.sink.full) \/ Noted(noted.sink.head)
  <2>1. CASE stopped
    <3>1. noted = OnText(Now, <<Note>>, flush)
      BY <2>1
    <3> HIDE DEF noted
    <3> QED  BY <1>1, <1>3, <3>1, OnTextIs, OnTextPlain DEF NoteInv, NothingToCut
  <2>2. CASE ~stopped
    BY <1>1, <2>2 DEF NoteInv, NothingToCut
  <2> QED  BY <2>1, <2>2
<1>5. sink' = sink \/ sink' = noted.sink
  BY <1>2
<1>6. stopped => history' = Finalized(noted, flush).text
  BY <1>1, <1>2
<1> HIDE DEF noted
<1>7. Plain(said) => PlainSink(Now')
  BY <1>1, <1>4, <1>5 DEF NoteInv, NothingToCut, PlainSink, Now
<1>8. stopped /\ Plain(said) => Noted(history')
  BY <1>4, <1>6, FinalizedNoted
<1> QED
  BY <1>1, <1>7, <1>8 DEF NoteInv, NothingToCut

LEMMA NoteStep == ReplyIInv /\ NoteInv /\ [ReplyNext]_replyVars => NoteInv'
<1> SUFFICES ASSUME ReplyIInv, NoteInv, [ReplyNext]_replyVars PROVE NoteInv'
  OBVIOUS
<1>1. ASSUME NEW f \in 1 .. Extra, Says(f) PROVE NoteInv'
  BY <1>1, NoteSays
<1>2. CASE BlockEnds
  BY <1>2, NoteBlockEnds
<1>3. CASE MessageEnds
  BY <1>3, NoteMessageEnds
<1>4. CASE CallsTool
  BY <1>4, NoteCallsTool
<1>5. CASE StreamEnds
  <2>1. /\ block' = <<>> /\ texts' = <<>> /\ said' = said /\ sink' = sink /\ stopped' = stopped
        /\ phase' # "over" /\ (stopped' => ~failed')
    BY <1>5 DEF StreamEnds
  <2> QED  BY <2>1, NoHoldPlain DEF NoteInv, NothingToCut, PlainSink, Now
<1>6. CASE Fails \/ Stop
  <2>1. /\ UNCHANGED <<said, block, texts, sink>> /\ phase' # "over" /\ (stopped' => ~failed')
    BY <1>6 DEF Fails, Stop, ReplyIInv
  <2> QED  BY <2>1 DEF NoteInv, NothingToCut, PlainSink, Now
<1>7. CASE ReplyEnds
  BY <1>7, NoteReplyEnds
<1>8. CASE Image
  BY <1>8 DEF Image, NoteInv, NothingToCut, PlainSink, Now
<1>9. CASE UNCHANGED replyVars
  BY <1>9 DEF replyVars, NoteInv, NothingToCut, PlainSink, Now
<1> QED
  BY <1>1, <1>2, <1>3, <1>4, <1>5, <1>6, <1>7, <1>8, <1>9 DEF ReplyNext

\* The line that says a turn was stopped is in its history, whatever had been said by
\* then, whether it was held back as the head of a marker, and whatever the faults, unless
\* the model had begun a suggestion or an invented turn since its last tool: that is the
\* one way the line is lost (_stop_note, run_turn; the cut is extract_suggestions').
THEOREM NoteIsLostOnlyToACut == ReplySpec => []NoteIsKept
<1>1. ReplyIInv /\ NoteInv => NoteIsKept
  <2> SUFFICES ASSUME ReplyIInv, NoteInv, phase = "over", stopped, Extra \notin ToSet(said)
               PROVE  Note \in ToSet(history)
    BY DEF NoteIsKept
  <2>1. said \in Text /\ history \in Text
    BY DEF ReplyIInv, ReplyTypes
  <2>2. Plain(said)
    BY <2>1, TextIs DEF Plain, ToSet
  <2>3. Noted(history)
    BY <2>2 DEF NoteInv
  <2> QED  BY <2>1, <2>3, TextIs DEF Noted, ToSet
<1> QED
  BY <1>1, ReplyStart, ReplyStep, NoteStart, NoteStep, PTL DEF ReplySpec
=============================================================================
