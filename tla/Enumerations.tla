---------------------------- MODULE Enumerations -----------------------------
(* Sequences that list the elements of a set once: what an append and a      *)
(* removal make of them.                                                     *)
EXTENDS Integers, SequencesExt, SequenceTheorems, TLAPS

Lists(o, S) == o \in Seq(S) /\ IsInjective(o) /\ ToSet(o) = S

LEMMA Retype ==
    ASSUME NEW S, NEW T, NEW s \in Seq(S), \A i \in 1..Len(s) : s[i] \in T
    PROVE  s \in Seq(T)
<1>1. Len(s) \in Nat /\ s \in [1..Len(s) -> T]
    OBVIOUS
<1> QED
    BY <1>1, SeqDef

LEMMA AppendLists ==
    ASSUME NEW S, NEW order, Lists(order, S), NEW m, m \notin S
    PROVE  Lists(Append(order, m), S \cup {m})
<1> DEFINE o == Append(order, m)
<1>1. /\ o \in Seq(S \cup {m}) /\ Len(o) = Len(order) + 1
      /\ \A i \in 1..Len(order) : o[i] = order[i]
      /\ o[Len(order) + 1] = m
    <2>1. order \in Seq(S \cup {m})
        BY Retype DEF Lists
    <2> QED
        BY <2>1, AppendProperties
<1>2. DOMAIN o = 1..(Len(order) + 1) /\ DOMAIN order = 1..Len(order) /\ Len(order) \in Nat
    BY <1>1 DEF Lists
<1>3. \A i \in 1..Len(order) : order[i] \in S
    BY <1>2 DEF Lists, ToSet
<1>4. IsInjective(o)
    BY <1>1, <1>2, <1>3 DEF Lists, IsInjective
<1>5. ToSet(o) = S \cup {m}
    BY <1>1, <1>2, <1>3 DEF Lists, ToSet
<1> QED
    BY <1>1, <1>4, <1>5 DEF Lists

LEMMA RemoveLists ==
    ASSUME NEW S, NEW order, Lists(order, S), NEW i \in DOMAIN order
    PROVE  Lists(RemoveAt(order, i), S \ {order[i]})
<1> DEFINE o == RemoveAt(order, i)
           n == Len(order)
<1>1. n \in Nat /\ DOMAIN order = 1..n /\ i \in 1..n /\ order \in Seq(S)
    BY DEF Lists
<1>2. /\ SubSeq(order, 1, i - 1) \in Seq(S) /\ Len(SubSeq(order, 1, i - 1)) = i - 1
      /\ \A j \in 1..(i - 1) : SubSeq(order, 1, i - 1)[j] = order[j]
    BY <1>1
<1>3. /\ SubSeq(order, i + 1, n) \in Seq(S) /\ Len(SubSeq(order, i + 1, n)) = n - i
      /\ \A j \in 1..(n - i) : SubSeq(order, i + 1, n)[j] = order[i + j]
    BY <1>1
<1>4. /\ o \in Seq(S) /\ Len(o) = n - 1 /\ DOMAIN o = 1..(n - 1)
      /\ \A j \in 1..(n - 1) : o[j] = IF j < i THEN order[j] ELSE order[j + 1]
    <2> DEFINE s == SubSeq(order, 1, i - 1)
               t == SubSeq(order, i + 1, n)
    <2>1. s \in Seq(S) /\ t \in Seq(S) /\ o = s \o t /\ Len(s) = i - 1 /\ Len(t) = n - i
        BY <1>2, <1>3 DEF RemoveAt
    <2> HIDE DEF o, s, t
    <2>2. o \in Seq(S) /\ Len(o) = n - 1 /\ DOMAIN o = 1..(n - 1)
        <3>1. s \o t \in Seq(S) /\ Len(s \o t) = Len(s) + Len(t)
            BY <2>1, ConcatProperties
        <3>2. Len(s) + Len(t) = n - 1
            BY <1>1, <2>1
        <3>3. o \in Seq(S) /\ Len(o) = n - 1
            BY <2>1, <3>1, <3>2
        <3> QED
            BY <3>3
    <2>3. ASSUME NEW j \in 1..(n - 1)
          PROVE  o[j] = IF j < i THEN s[j] ELSE t[j - (i - 1)]
        BY <1>1, <2>1, <2>3, ConcatProperties
    <2>4. \A j \in 1..(n - 1) :
              IF j < i THEN j \in 1..(i - 1)
              ELSE j - (i - 1) \in 1..(n - i) /\ i + (j - (i - 1)) = j + 1
        BY <1>1
    <2>5. ASSUME NEW j \in 1..(n - 1)
          PROVE  o[j] = IF j < i THEN order[j] ELSE order[j + 1]
        <3>1. CASE j < i
            BY <1>2, <2>3, <2>4, <3>1 DEF s
        <3>2. CASE ~(j < i)
            <4>1. j - (i - 1) \in 1..(n - i) /\ i + (j - (i - 1)) = j + 1
                BY <2>4, <3>2
            <4>2. t[j - (i - 1)] = order[i + (j - (i - 1))]
                BY <1>3, <4>1 DEF t
            <4> QED
                BY <2>3, <3>2, <4>1, <4>2
        <3> QED
            BY <3>1, <3>2
    <2> QED
        BY <2>2, <2>5
<1>5. \A j, k \in 1..n : order[j] = order[k] => j = k
    BY <1>1 DEF Lists, IsInjective
<1>6. IsInjective(o)
    BY <1>1, <1>4, <1>5 DEF IsInjective
<1>7. ToSet(o) \subseteq S \ {order[i]}
    BY <1>1, <1>4, <1>5 DEF ToSet, Lists
<1>8. ASSUME NEW m \in S \ {order[i]} PROVE m \in ToSet(o)
    <2>1. PICK j \in 1..n : m = order[j] /\ j # i
        BY <1>1, <1>8 DEF ToSet, Lists
    <2>2. CASE j < i
        BY <1>1, <1>4, <2>1, <2>2 DEF ToSet
    <2>3. CASE j > i
        <3>1. j - 1 \in 1..(n - 1) /\ o[j - 1] = order[j]
            BY <1>1, <1>4, <2>1, <2>3
        <3> QED
            BY <1>4, <2>1, <3>1 DEF ToSet
    <2> QED
        BY <1>1, <2>1, <2>2, <2>3
<1>9. o \in Seq(S \ {order[i]})
    <2>1. \A j \in 1..Len(o) : o[j] \in S \ {order[i]}
        BY <1>4, <1>7 DEF ToSet
    <2> QED
        BY <1>4, <2>1, Retype
<1> QED
    BY <1>6, <1>7, <1>8, <1>9 DEF Lists
==============================================================================
