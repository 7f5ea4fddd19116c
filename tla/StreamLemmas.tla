---------------------------- MODULE StreamLemmas ----------------------------
(***************************************************************************)
(* What a stream keeps when it is read from, written to, or cut by a       *)
(* crash: facts about sequences, for any entries.                          *)
(***************************************************************************)
EXTENDS Naturals, Sequences, SequenceTheorems, TLAPS

\* An entry is read.
LEMMA TailIndexed ==
  ASSUME NEW S, NEW seq \in Seq(S), seq # <<>>
  PROVE  /\ Tail(seq) \in Seq(S) /\ Head(seq) = seq[1] /\ Head(seq) \in S
         /\ 1 \in DOMAIN seq /\ Len(Tail(seq)) = Len(seq) - 1
         /\ \A i \in DOMAIN Tail(seq) : i + 1 \in DOMAIN seq /\ Tail(seq)[i] = seq[i + 1]
OBVIOUS

\* An entry is written.
LEMMA AppendIndexed ==
  ASSUME NEW S, NEW seq \in Seq(S), NEW entry \in S
  PROVE  /\ Append(seq, entry) \in Seq(S)
         /\ \A i \in DOMAIN Append(seq, entry) :
              \/ i \in DOMAIN seq /\ Append(seq, entry)[i] = seq[i]
              \/ i = Len(seq) + 1 /\ Append(seq, entry)[i] = entry
OBVIOUS

\* The first n entries are gone.
LEMMA CutIndexed ==
  ASSUME NEW S, NEW seq \in Seq(S), NEW n \in 0 .. Len(seq)
  PROVE  /\ SubSeq(seq, n + 1, Len(seq)) \in Seq(S)
         /\ \A i \in DOMAIN SubSeq(seq, n + 1, Len(seq)) :
              i + n \in DOMAIN seq /\ SubSeq(seq, n + 1, Len(seq))[i] = seq[i + n]
<1> DEFINE cut == SubSeq(seq, n + 1, Len(seq))
<1>1. Len(seq) \in Nat /\ n \in Nat /\ n + 1 \in Nat /\ n + 1 >= 1
  OBVIOUS
<1>2. \A i \in n + 1 .. Len(seq) : seq[i] \in S
  OBVIOUS
<1>3. /\ cut \in Seq(S)
      /\ Len(cut) = IF n + 1 <= Len(seq) THEN Len(seq) - (n + 1) + 1 ELSE 0
      /\ \A i \in 1 .. Len(seq) - (n + 1) + 1 : cut[i] = seq[n + 1 + i - 1]
  BY <1>1, <1>2, SubSeqProperties
<1>4. ASSUME NEW i \in DOMAIN cut PROVE i + n \in DOMAIN seq /\ cut[i] = seq[i + n]
  <2>1. i \in 1 .. Len(cut)
    BY <1>3
  <2> HIDE DEF cut
  <2>2. i \in Nat /\ i >= 1 /\ i <= Len(cut)
    BY <1>3, <2>1
  <2>3. n + 1 <= Len(seq) /\ i <= Len(seq) - (n + 1) + 1
    <3>1. CASE n + 1 <= Len(seq)
      BY <1>3, <2>2, <3>1
    <3>2. CASE ~ (n + 1 <= Len(seq))
      BY <1>3, <2>2, <3>2
    <3> QED
      BY <3>1, <3>2
  <2>4. n + 1 + i - 1 = i + n /\ i + n \in 1 .. Len(seq) /\ i \in 1 .. Len(seq) - (n + 1) + 1
    BY <1>1, <2>2, <2>3
  <2> QED
    BY <1>3, <2>4
<1> QED
  BY <1>3, <1>4

-----------------------------------------------------------------------------
(* Which kinds of entries a stream has.                                    *)

Has(seq, S) == \E i \in DOMAIN seq : seq[i] \in S

HasOnce(seq, S) == \A i, j \in DOMAIN seq : seq[i] \in S /\ seq[j] \in S => i = j

LEMMA AppendHas ==
  ASSUME NEW T, NEW seq \in Seq(T), NEW entry \in T, NEW S
  PROVE  /\ Has(Append(seq, entry), S) <=> Has(seq, S) \/ entry \in S
         /\ HasOnce(seq, S) /\ (entry \in S => ~ Has(seq, S)) => HasOnce(Append(seq, entry), S)
<1> DEFINE new == Append(seq, entry)
<1>1. /\ \A i \in DOMAIN new : \/ i \in DOMAIN seq /\ new[i] = seq[i]
                               \/ i = Len(seq) + 1 /\ new[i] = entry
      /\ \A i \in DOMAIN seq : i \in DOMAIN new /\ new[i] = seq[i]
      /\ Len(seq) + 1 \in DOMAIN new /\ new[Len(seq) + 1] = entry
  OBVIOUS
<1> HIDE DEF new
<1> QED
  BY <1>1 DEF Has, HasOnce, new

LEMMA TailHas ==
  ASSUME NEW T, NEW seq \in Seq(T), seq # <<>>, NEW S
  PROVE  /\ Has(seq, S) <=> Has(Tail(seq), S) \/ Head(seq) \in S
         /\ HasOnce(seq, S) => HasOnce(Tail(seq), S) /\ (Head(seq) \in S => ~ Has(Tail(seq), S))
<1> DEFINE new == Tail(seq)
<1>0. /\ new \in Seq(T) /\ Len(new) = Len(seq) - 1 /\ Len(seq) \in Nat /\ Len(seq) >= 1
      /\ DOMAIN new = 1 .. Len(new) /\ DOMAIN seq = 1 .. Len(seq)
      /\ \A i \in DOMAIN new : new[i] = seq[i + 1]
      /\ 1 \in DOMAIN seq /\ Head(seq) = seq[1]
  OBVIOUS
<1>1. /\ \A i \in DOMAIN new : i \in Nat /\ i >= 1 /\ i + 1 \in DOMAIN seq /\ new[i] = seq[i + 1]
      /\ \A i \in DOMAIN seq : i # 1 => i - 1 \in DOMAIN new /\ new[i - 1] = seq[i]
      /\ 1 \in DOMAIN seq /\ Head(seq) = seq[1]
  <2> HIDE DEF new
  <2>1. \A i \in DOMAIN new : i \in Nat /\ i >= 1 /\ i + 1 \in DOMAIN seq /\ new[i] = seq[i + 1]
    BY <1>0
  <2>2. ASSUME NEW i \in DOMAIN seq, i # 1 PROVE i - 1 \in DOMAIN new /\ new[i - 1] = seq[i]
    <3>1. i - 1 \in DOMAIN new /\ (i - 1) + 1 = i
      BY <1>0, <2>2
    <3> QED
      BY <1>0, <3>1
  <2> QED
    BY <1>0, <2>1, <2>2
<1> HIDE DEF new
<1>2. Has(seq, S) <=> Has(new, S) \/ Head(seq) \in S
  BY <1>1 DEF Has
<1>3. ASSUME HasOnce(seq, S) PROVE HasOnce(new, S)
  <2> SUFFICES ASSUME NEW i \in DOMAIN new, NEW j \in DOMAIN new, new[i] \in S, new[j] \in S
               PROVE  i = j
    BY DEF HasOnce
  <2>1. i + 1 = j + 1 /\ i \in Nat /\ j \in Nat
    BY <1>1, <1>3 DEF HasOnce
  <2> QED
    BY <2>1
<1>4. ASSUME HasOnce(seq, S), Head(seq) \in S PROVE ~ Has(new, S)
  <2> SUFFICES ASSUME NEW i \in DOMAIN new, new[i] \in S PROVE FALSE
    BY DEF Has
  <2>1. i + 1 = 1 /\ i \in Nat /\ i >= 1
    BY <1>1, <1>4 DEF HasOnce
  <2> QED
    BY <2>1
<1> QED
  BY <1>2, <1>3, <1>4 DEF new

LEMMA CutHas ==
  ASSUME NEW T, NEW seq \in Seq(T), NEW n \in 0 .. Len(seq), NEW S
  PROVE  /\ Has(SubSeq(seq, n + 1, Len(seq)), S) => Has(seq, S)
         /\ HasOnce(seq, S) => HasOnce(SubSeq(seq, n + 1, Len(seq)), S)
<1> DEFINE new == SubSeq(seq, n + 1, Len(seq))
<1>1. /\ new \in Seq(T) /\ n \in Nat
      /\ \A i \in DOMAIN new : i + n \in DOMAIN seq /\ new[i] = seq[i + n]
  BY CutIndexed
<1>2. \A i \in DOMAIN new : i \in Nat
  BY <1>1
<1> HIDE DEF new
<1>3. Has(new, S) => Has(seq, S)
  BY <1>1 DEF Has
<1>4. ASSUME HasOnce(seq, S) PROVE HasOnce(new, S)
  <2> SUFFICES ASSUME NEW i \in DOMAIN new, NEW j \in DOMAIN new, new[i] \in S, new[j] \in S
               PROVE  i = j
    BY DEF HasOnce
  <2>1. i + n = j + n /\ i \in Nat /\ j \in Nat
    BY <1>1, <1>2, <1>4 DEF HasOnce
  <2> QED
    BY <1>1, <2>1
<1> QED
  BY <1>3, <1>4 DEF new

\* Every entry of S is older than every entry of T.
Before(seq, S, T) == \A i, j \in DOMAIN seq : seq[i] \in S /\ seq[j] \in T => i < j

LEMMA AppendBefore ==
  ASSUME NEW X, NEW seq \in Seq(X), NEW entry \in X, NEW S, NEW T, Before(seq, S, T),
         entry \in S => entry \notin T /\ ~ Has(seq, T)
  PROVE  Before(Append(seq, entry), S, T)
<1> DEFINE new == Append(seq, entry)
<1>1. /\ \A i \in DOMAIN new : \/ i \in DOMAIN seq /\ new[i] = seq[i]
                               \/ i = Len(seq) + 1 /\ new[i] = entry
      /\ \A i \in DOMAIN seq : i < Len(seq) + 1
  OBVIOUS
<1> HIDE DEF new
<1> SUFFICES ASSUME NEW i \in DOMAIN new, NEW j \in DOMAIN new, new[i] \in S, new[j] \in T
             PROVE  i < j
  BY DEF Before, new
<1>2. CASE i \in DOMAIN seq /\ new[i] = seq[i]
  BY <1>1, <1>2 DEF Before
<1>3. CASE new[i] = entry
  BY <1>1, <1>3 DEF Has
<1> QED
  BY <1>1, <1>2, <1>3

LEMMA TailBefore ==
  ASSUME NEW X, NEW seq \in Seq(X), seq # <<>>, NEW S, NEW T, Before(seq, S, T)
  PROVE  /\ Before(Tail(seq), S, T)
         /\ Head(seq) \in T => ~ Has(seq, S)
<1> DEFINE new == Tail(seq)
<1>1. /\ \A i \in DOMAIN new : i \in Nat /\ i + 1 \in DOMAIN seq /\ new[i] = seq[i + 1]
      /\ 1 \in DOMAIN seq /\ Head(seq) = seq[1] /\ \A i \in DOMAIN seq : ~ (i < 1)
  OBVIOUS
<1> HIDE DEF new
<1>2. ASSUME NEW i \in DOMAIN new, NEW j \in DOMAIN new, new[i] \in S, new[j] \in T PROVE i < j
  <2>1. i + 1 < j + 1 /\ i \in Nat /\ j \in Nat
    BY <1>1, <1>2 DEF Before
  <2> QED
    BY <2>1
<1>3. Head(seq) \in T => ~ Has(seq, S)
  BY <1>1 DEF Before, Has
<1> QED
  BY <1>2, <1>3 DEF Before, new

\* The last entry of S, if there is one, is of T.
LastIn(seq, S, T) ==
  \A i \in DOMAIN seq :
    seq[i] \in S /\ (\A j \in DOMAIN seq : j > i => seq[j] \notin S) => seq[i] \in T

LEMMA AppendLast ==
  ASSUME NEW X, NEW seq \in Seq(X), NEW entry \in X, NEW S, NEW T,
         IF entry \in S THEN entry \in T ELSE LastIn(seq, S, T)
  PROVE  LastIn(Append(seq, entry), S, T)
<1> DEFINE new == Append(seq, entry)
<1>1. /\ \A i \in DOMAIN new : \/ i \in DOMAIN seq /\ new[i] = seq[i]
                               \/ i = Len(seq) + 1 /\ new[i] = entry
      /\ \A i \in DOMAIN seq : i < Len(seq) + 1 /\ i \in DOMAIN new /\ new[i] = seq[i]
      /\ Len(seq) + 1 \in DOMAIN new /\ new[Len(seq) + 1] = entry
      /\ \A i \in DOMAIN seq : Len(seq) + 1 > i
  OBVIOUS
<1> HIDE DEF new
<1> SUFFICES ASSUME NEW i \in DOMAIN new, new[i] \in S, \A j \in DOMAIN new : j > i => new[j] \notin S
             PROVE  new[i] \in T
  BY DEF LastIn, new
<1>2. CASE i \in DOMAIN seq /\ new[i] = seq[i]
  <2>1. entry \notin S
    BY <1>1, <1>2
  <2>2. \A j \in DOMAIN seq : j > i => seq[j] \notin S
    BY <1>1
  <2> QED
    BY <1>2, <2>1, <2>2 DEF LastIn
<1>3. CASE new[i] = entry
  BY <1>3
<1> QED
  BY <1>1, <1>2, <1>3

LEMMA TailLast ==
  ASSUME NEW X, NEW seq \in Seq(X), seq # <<>>, NEW S, NEW T, LastIn(seq, S, T)
  PROVE  /\ LastIn(Tail(seq), S, T)
         /\ Head(seq) \in S => Head(seq) \in T \/ Has(Tail(seq), S)
<1> DEFINE new == Tail(seq)
<1>0. /\ new \in Seq(X) /\ Len(new) = Len(seq) - 1 /\ Len(seq) \in Nat /\ Len(seq) >= 1
      /\ DOMAIN new = 1 .. Len(new) /\ DOMAIN seq = 1 .. Len(seq)
      /\ \A i \in DOMAIN new : new[i] = seq[i + 1]
      /\ 1 \in DOMAIN seq /\ Head(seq) = seq[1]
  OBVIOUS
<1> HIDE DEF new
<1>1. \A i \in DOMAIN new : i \in Nat /\ i >= 1 /\ i + 1 \in DOMAIN seq /\ new[i] = seq[i + 1]
  BY <1>0
<1>2. ASSUME NEW i \in DOMAIN seq, i > 1 PROVE i \in Nat /\ i - 1 \in DOMAIN new /\ new[i - 1] = seq[i]
  <2>1. i \in Nat /\ i - 1 \in DOMAIN new /\ (i - 1) + 1 = i
    BY <1>0, <1>2
  <2> QED
    BY <1>0, <2>1
<1>3. ASSUME NEW i \in DOMAIN new, new[i] \in S, \A j \in DOMAIN new : j > i => new[j] \notin S
      PROVE  new[i] \in T
  <2>1. i \in Nat /\ i >= 1 /\ i + 1 \in DOMAIN seq /\ new[i] = seq[i + 1]
    BY <1>1
  <2>2. ASSUME NEW j \in DOMAIN seq, j > i + 1 PROVE seq[j] \notin S
    <3>1. j \in Nat
      BY <1>0
    <3>2. j > 1 /\ j - 1 > i
      BY <2>1, <2>2, <3>1
    <3> QED
      BY <1>2, <1>3, <3>2
  <2> QED
    BY <1>3, <2>1, <2>2 DEF LastIn
<1>4. ASSUME Head(seq) \in S, ~ Has(new, S) PROVE Head(seq) \in T
  <2>1. \A j \in DOMAIN seq : j > 1 => seq[j] \notin S
    BY <1>2, <1>4 DEF Has
  <2> QED
    BY <1>0, <1>4, <2>1 DEF LastIn
<1> QED
  BY <1>3, <1>4 DEF LastIn, new

LEMMA CutLast ==
  ASSUME NEW X, NEW seq \in Seq(X), NEW n \in 0 .. Len(seq), NEW S, NEW T, LastIn(seq, S, T)
  PROVE  LastIn(SubSeq(seq, n + 1, Len(seq)), S, T)
<1> DEFINE new == SubSeq(seq, n + 1, Len(seq))
<1>1. /\ n \in Nat /\ Len(seq) \in Nat /\ DOMAIN seq = 1 .. Len(seq)
      /\ \A i \in DOMAIN new : i + n \in DOMAIN seq /\ new[i] = seq[i + n]
  BY CutIndexed
<1>2. DOMAIN new = 1 .. (IF n + 1 <= Len(seq) THEN Len(seq) - (n + 1) + 1 ELSE 0)
  <2>1. \A i \in n + 1 .. Len(seq) : seq[i] \in X
    BY <1>1
  <2>2. n + 1 \in Nat /\ n + 1 >= 1
    BY <1>1
  <2>3. /\ new \in Seq(X)
        /\ Len(new) = IF n + 1 <= Len(seq) THEN Len(seq) - (n + 1) + 1 ELSE 0
    BY <1>1, <2>1, <2>2, SubSeqProperties
  <2> HIDE DEF new
  <2> QED
    BY <2>3
<1> HIDE DEF new
<1>3. ASSUME NEW j \in DOMAIN seq, j > n PROVE j - n \in DOMAIN new /\ new[j - n] = seq[j]
  <2>1. j \in Nat /\ j <= Len(seq)
    BY <1>1
  <2>2. n + 1 <= Len(seq) /\ j - n >= 1 /\ j - n <= Len(seq) - (n + 1) + 1 /\ j - n \in Nat
    BY <1>1, <1>3, <2>1
  <2>3. j - n \in DOMAIN new /\ (j - n) + n = j
    BY <1>1, <1>2, <2>1, <2>2
  <2> QED
    BY <1>1, <2>3
<1>4. ASSUME NEW i \in DOMAIN new, new[i] \in S, \A j \in DOMAIN new : j > i => new[j] \notin S
      PROVE  new[i] \in T
  <2>1. i \in Nat
    BY <1>2
  <2>2. i + n \in DOMAIN seq /\ new[i] = seq[i + n]
    BY <1>1
  <2>3. ASSUME NEW j \in DOMAIN seq, j > i + n PROVE seq[j] \notin S
    <3>1. j \in Nat
      BY <1>1
    <3>2. j > n /\ j - n > i
      BY <1>1, <2>1, <2>3, <3>1
    <3> QED
      BY <1>3, <1>4, <3>2
  <2> QED
    BY <1>4, <2>2, <2>3 DEF LastIn
<1> QED
  BY <1>4 DEF LastIn, new
=============================================================================
