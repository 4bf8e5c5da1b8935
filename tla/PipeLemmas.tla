----------------------------- MODULE PipeLemmas -----------------------------
(***************************************************************************)
(* What is on its way from a writer to a reader is the concatenation of    *)
(* the sequences it is kept in: the reader's buffer, the sockets, what the *)
(* writer has not written yet.  These lemmas say what the steps of the     *)
(* models do to it.  All of them are about sequences only.                 *)
(***************************************************************************)
EXTENDS Integers, Sequences, SequenceTheorems, TLAPS

\* Reading: the head of the second sequence moves to the end of the first.
LEMMA MoveHead ==
    ASSUME NEW S, NEW s \in Seq(S), NEW t \in Seq(S), t # <<>>
    PROVE  Append(s, Head(t)) \o Tail(t) = s \o t
  <1>1. /\ Head(t) \in S /\ Tail(t) \in Seq(S) /\ Len(Tail(t)) = Len(t) - 1
        /\ \A i \in 1 .. Len(Tail(t)) : Tail(t)[i] = t[i + 1]
        /\ Head(t) = t[1] /\ Len(t) \in Nat \ {0}
    BY HeadTailProperties, EmptySeq
  <1>. DEFINE u == Append(s, Head(t))
  <1>2. /\ u \in Seq(S) /\ Len(u) = Len(s) + 1 /\ Len(s) \in Nat
        /\ \A i \in 1 .. Len(s) : u[i] = s[i]
        /\ u[Len(s) + 1] = t[1]
    BY <1>1, AppendProperties, LenProperties
  <1>. HIDE DEF u
  <1>3. /\ u \o Tail(t) \in Seq(S) /\ Len(u \o Tail(t)) = Len(s) + Len(t)
        /\ \A i \in 1 .. Len(s) + Len(t) :
              (u \o Tail(t))[i] = IF i <= Len(s) + 1 THEN u[i]
                                  ELSE Tail(t)[i - (Len(s) + 1)]
    <2>1. /\ u \o Tail(t) \in Seq(S) /\ Len(u \o Tail(t)) = Len(u) + Len(Tail(t))
          /\ \A i \in 1 .. Len(u) + Len(Tail(t)) :
                (u \o Tail(t))[i] = IF i <= Len(u) THEN u[i] ELSE Tail(t)[i - Len(u)]
      BY <1>1, <1>2, ConcatProperties
    <2>2. Len(u) + Len(Tail(t)) = Len(s) + Len(t) /\ Len(u) = Len(s) + 1
      BY <1>1, <1>2
    <2>. QED
      BY <2>1, <2>2
  <1>4. /\ s \o t \in Seq(S) /\ Len(s \o t) = Len(s) + Len(t)
        /\ \A i \in 1 .. Len(s) + Len(t) :
              (s \o t)[i] = IF i <= Len(s) THEN s[i] ELSE t[i - Len(s)]
    BY ConcatProperties
  <1>5. ASSUME NEW i \in 1 .. Len(s) + Len(t)
        PROVE  (u \o Tail(t))[i] = (s \o t)[i]
    <2>1. CASE i <= Len(s)
      BY <2>1, <1>2, <1>3, <1>4
    <2>2. CASE i = Len(s) + 1
      BY <2>2, <1>1, <1>2, <1>3, <1>4
    <2>3. CASE i > Len(s) + 1
      <3>1. i - (Len(s) + 1) \in 1 .. Len(Tail(t))
        BY <2>3, <1>1, <1>2
      <3>2. Tail(t)[i - (Len(s) + 1)] = t[(i - (Len(s) + 1)) + 1]
        BY <3>1, <1>1
      <3>3. (i - (Len(s) + 1)) + 1 = i - Len(s)
        BY <1>2
      <3>. QED
        BY <2>3, <3>2, <3>3, <1>2, <1>3, <1>4
    <2>. QED
      BY <2>1, <2>2, <2>3, <1>1, <1>2
  <1>6. u \o Tail(t) = s \o t
    BY <1>3, <1>4, <1>5, SeqEqual
  <1>. QED
    BY <1>6 DEF u

\* Writing: what is appended to the last sequence is appended to the whole.
LEMMA AppendLast ==
    ASSUME NEW S, NEW s \in Seq(S), NEW t \in Seq(S), NEW x \in S
    PROVE  s \o Append(t, x) = Append(s \o t, x)
  <1>1. Append(t, x) = t \o <<x>> /\ Append(s \o t, x) = (s \o t) \o <<x>>
    BY AppendIsConcat, ConcatProperties
  <1>2. <<x>> \in Seq(S)
    OBVIOUS
  <1>. QED
    BY <1>1, <1>2, ConcatAssociative

\* Consuming: the head of the first sequence is the head of the whole.
LEMMA TailFirst ==
    ASSUME NEW S, NEW s \in Seq(S), NEW t \in Seq(S), s # <<>>
    PROVE  /\ s \o t # <<>>
           /\ Head(s \o t) = Head(s)
           /\ Tail(s \o t) = Tail(s) \o t
  <1>1. /\ Tail(s) \in Seq(S) /\ Len(Tail(s)) = Len(s) - 1
        /\ \A i \in 1 .. Len(Tail(s)) : Tail(s)[i] = s[i + 1]
        /\ Len(s) \in Nat \ {0} /\ Len(t) \in Nat
    BY HeadTailProperties, EmptySeq, LenProperties
  <1>2. /\ s \o t \in Seq(S) /\ Len(s \o t) = Len(s) + Len(t)
        /\ \A i \in 1 .. Len(s) + Len(t) :
              (s \o t)[i] = IF i <= Len(s) THEN s[i] ELSE t[i - Len(s)]
    BY ConcatProperties
  <1>3. s \o t # <<>>
    BY <1>1, ConcatEqualIffEmpty
  <1>4. Head(s \o t) = Head(s)
    <2>1. (s \o t)[1] = s[1]
      BY <1>1, <1>2
    <2>. QED
      BY <2>1, <1>3
  <1>5. /\ Tail(s \o t) \in Seq(S) /\ Len(Tail(s \o t)) = Len(s) + Len(t) - 1
        /\ \A i \in 1 .. Len(s) + Len(t) - 1 : Tail(s \o t)[i] = (s \o t)[i + 1]
    BY <1>2, <1>3, HeadTailProperties
  <1>6. /\ Tail(s) \o t \in Seq(S) /\ Len(Tail(s) \o t) = Len(s) + Len(t) - 1
        /\ \A i \in 1 .. Len(s) + Len(t) - 1 :
              (Tail(s) \o t)[i] = IF i <= Len(s) - 1 THEN Tail(s)[i]
                                  ELSE t[i - (Len(s) - 1)]
    <2>1. Len(Tail(s)) + Len(t) = Len(s) + Len(t) - 1
      BY <1>1
    <2>. QED
      BY <2>1, <1>1, ConcatProperties
  <1>7. ASSUME NEW i \in 1 .. Len(s) + Len(t) - 1
        PROVE  Tail(s \o t)[i] = (Tail(s) \o t)[i]
    <2>1. i + 1 \in 1 .. Len(s) + Len(t)
      BY <1>1
    <2>2. CASE i <= Len(s) - 1
      BY <2>1, <2>2, <1>1, <1>2, <1>5, <1>6
    <2>3. CASE i > Len(s) - 1
      <3>1. (i + 1) - Len(s) = i - (Len(s) - 1)
        BY <1>1
      <3>. QED
        BY <2>1, <2>3, <3>1, <1>1, <1>2, <1>5, <1>6
    <2>. QED
      BY <2>2, <2>3, <1>1
  <1>8. Tail(s \o t) = Tail(s) \o t
    BY <1>5, <1>6, <1>7, SeqEqual
  <1>. QED
    BY <1>3, <1>4, <1>8

\* Losing: what is left of the whole when the last sequence is emptied.
LEMMA FirstPart ==
    ASSUME NEW S, NEW s \in Seq(S), NEW t \in Seq(S)
    PROVE  /\ Len(s) \in 0 .. Len(s \o t)
           /\ s = SubSeq(s \o t, 1, Len(s))
  <1>1. /\ s \o t \in Seq(S) /\ Len(s \o t) = Len(s) + Len(t)
        /\ Len(s) \in Nat /\ Len(t) \in Nat
        /\ \A i \in 1 .. Len(s) : (s \o t)[i] = s[i] /\ (s \o t)[i] \in S
    BY ConcatProperties, LenProperties, ElementOfSeq
  <1>2. /\ SubSeq(s \o t, 1, Len(s)) \in Seq(S)
        /\ Len(SubSeq(s \o t, 1, Len(s))) = Len(s)
        /\ \A i \in 1 .. Len(s) : SubSeq(s \o t, 1, Len(s))[i] = (s \o t)[i]
    <2>. DEFINE u == s \o t
    <2>1. 1 \in Int /\ Len(s) \in Int /\ \A i \in 1 .. Len(s) : u[i] \in S
      BY <1>1
    <2>. HIDE DEF u
    <2>2. /\ SubSeq(u, 1, Len(s)) \in Seq(S)
          /\ Len(SubSeq(u, 1, Len(s))) = IF 1 <= Len(s) THEN Len(s) - 1 + 1 ELSE 0
          /\ \A i \in 1 .. Len(s) - 1 + 1 : SubSeq(u, 1, Len(s))[i] = u[1 + i - 1]
      BY <2>1, SubSeqProperties
    <2>3. Len(s) - 1 + 1 = Len(s) /\ \A i \in 1 .. Len(s) : 1 + i - 1 = i
      BY <1>1
    <2>4. /\ SubSeq(u, 1, Len(s)) \in Seq(S) /\ Len(SubSeq(u, 1, Len(s))) = Len(s)
          /\ \A i \in 1 .. Len(s) : SubSeq(u, 1, Len(s))[i] = u[i]
      BY <2>2, <2>3, <1>1
    <2>. QED
      BY <2>4 DEF u
  <1>. QED
    BY <1>1, <1>2, SeqEqual

\* Taking any number of elements of a sequence from its front.
LEMMA SplitPipe ==
    ASSUME NEW S, NEW s \in Seq(S), NEW n \in 0 .. Len(s)
    PROVE  /\ SubSeq(s, 1, n) \in Seq(S)
           /\ SubSeq(s, n + 1, Len(s)) \in Seq(S)
           /\ SubSeq(s, 1, n) \o SubSeq(s, n + 1, Len(s)) = s
  <1>1. Len(s) \in Nat /\ \A i \in 1 .. Len(s) : s[i] \in S
    BY LenProperties, ElementOfSeq
  <1>2. SubSeq(s, 1, n) \in Seq(S) /\ SubSeq(s, n + 1, Len(s)) \in Seq(S)
    BY <1>1, SubSeqProperties
  <1>3. SubSeq(s, 1, n) \o SubSeq(s, n + 1, Len(s)) = SubSeq(s, 1, Len(s))
    <2>1. 1 \in 1 .. Len(s) + 1 /\ n \in 1 - 1 .. Len(s) /\ Len(s) \in n .. Len(s)
      BY <1>1
    <2>. QED
      BY <2>1, ConcatAdjacentSubSeq
  <1>. QED
    BY <1>2, <1>3, SubSeqFull
=============================================================================
