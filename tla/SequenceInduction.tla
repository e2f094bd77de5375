-------------------------- MODULE SequenceInduction --------------------------
(***************************************************************************)
(* Induction over naturals and over sequences, and definition by recursion *)
(* over a sequence, stated with sets and functions instead of operators,   *)
(* so that the provers can use them.  The library's theorem that every     *)
(* nonempty set of naturals has a minimum carries them.                    *)
(***************************************************************************)
EXTENDS Integers, Sequences, SequencesExt, WellFoundedInduction, SequenceTheorems, TLAPS

\* A set that holds 0, and with every number the next one, holds all numbers.
LEMMA SetInduction ==
  ASSUME NEW S, 0 \in S, \A n \in Nat : n \in S => n + 1 \in S
  PROVE  Nat \subseteq S
<1> DEFINE Rest == {n \in Nat : n \notin S}
<1> SUFFICES ASSUME Rest # {} PROVE FALSE
  OBVIOUS
<1>1. PICK x \in Rest : \A y \in Rest : <<y, x>> \notin OpToRel(<, Nat)
  <2>1. IsWellFoundedOn(OpToRel(<, Nat), Nat)
    BY NatLessThanWellFounded
  <2> QED BY <2>1, WFMin
<1>2. \A y \in Rest : ~(y < x)
  BY <1>1 DEF OpToRel
<1>3. x - 1 \in Nat /\ x - 1 < x /\ (x - 1) + 1 = x
  OBVIOUS
<1>4. x - 1 \in S
  BY <1>2, <1>3
<1> QED BY <1>3, <1>4

LEMMA AppendIs ==
  ASSUME NEW L, NEW s \in Seq(L), NEW x \in L
  PROVE  /\ Append(s, x) \in Seq(L) /\ Len(s) \in Nat /\ Len(Append(s, x)) = Len(s) + 1
         /\ Append(s, x)[Len(s) + 1] = x
         /\ \A i \in 1 .. Len(s) : Append(s, x)[i] = s[i] /\ s[i] \in L
  OBVIOUS

\* A nonempty sequence is a shorter one and a last element.
LEMMA FrontAndLast ==
  ASSUME NEW L, NEW s \in Seq(L), s # <<>>
  PROVE  /\ SubSeq(s, 1, Len(s) - 1) \in Seq(L) /\ s[Len(s)] \in L
         /\ Len(SubSeq(s, 1, Len(s) - 1)) = Len(s) - 1 /\ Len(s) \in Nat \ {0}
         /\ s = Append(SubSeq(s, 1, Len(s) - 1), s[Len(s)])
<1> DEFINE f == SubSeq(s, 1, Len(s) - 1)
<1>1. Len(s) \in Nat \ {0} /\ s[Len(s)] \in L
  OBVIOUS
<1>2. f \in Seq(L) /\ Len(f) = Len(s) - 1 /\ \A i \in 1 .. Len(s) - 1 : f[i] = s[i]
  BY <1>1, SubSeqProperties
<1> HIDE DEF f
<1>3. /\ Append(f, s[Len(s)]) \in Seq(L) /\ Len(Append(f, s[Len(s)])) = Len(s)
      /\ \A i \in 1 .. Len(s) : Append(f, s[Len(s)])[i] = s[i]
  BY <1>1, <1>2
<1>4. s = Append(f, s[Len(s)])
  BY <1>3, SeqEqual
<1> QED BY <1>1, <1>2, <1>4 DEF f

\* A set that holds the empty sequence, and with every sequence its extensions, holds
\* all sequences.
LEMMA SequenceInduction ==
  ASSUME NEW L, NEW S, <<>> \in S,
         \A s \in Seq(L), x \in L : s \in S => Append(s, x) \in S
  PROVE  Seq(L) \subseteq S
<1> DEFINE Short == {n \in Nat : \A s \in Seq(L) : Len(s) = n => s \in S}
<1>1. 0 \in Short
  <2>1. \A s \in Seq(L) : Len(s) = 0 => s = <<>>
    OBVIOUS
  <2> QED BY <2>1
<1>2. ASSUME NEW n \in Nat, n \in Short PROVE n + 1 \in Short
  <2> SUFFICES ASSUME NEW s \in Seq(L), Len(s) = n + 1 PROVE s \in S
    OBVIOUS
  <2> DEFINE f == SubSeq(s, 1, Len(s) - 1)
  <2>1. s # <<>>
    OBVIOUS
  <2>2. f \in Seq(L) /\ s[Len(s)] \in L /\ Len(f) = n /\ s = Append(f, s[Len(s)])
    BY <2>1, FrontAndLast
  <2> HIDE DEF f
  <2> QED BY <1>2, <2>2
<1>3. Nat \subseteq Short
  <2> HIDE DEF Short
  <2> QED BY <1>1, <1>2, SetInduction
<1> QED
  BY <1>3

\* f is given by its value for the empty sequence and by a step for every element that is
\* appended.
FoldsBy(f, L, b, step) ==
  /\ f[<<>>] = b
  /\ \A s \in Seq(L), x \in L : f[Append(s, x)] = step[<<f[s], x>>]

\* There is a function for every value and step.
LEMMA SequenceRecursion ==
  ASSUME NEW L, NEW T, NEW b \in T, NEW step \in [T \X L -> T]
  PROVE  \E f \in [Seq(L) -> T] : FoldsBy(f, L, b, step)
<1> DEFINE Run(s, g) == /\ g \in [0 .. Len(s) -> T] /\ g[0] = b
                        /\ \A i \in 1 .. Len(s) : g[i] = step[<<g[i - 1], s[i]>>]
           Runs == {s \in Seq(L) : \E g : Run(s, g)}
<1>1. Seq(L) \subseteq Runs
  <2>1. <<>> \in Runs
    <3>1. Len(<<>>) = 0 /\ <<>> \in Seq(L)
      OBVIOUS
    <3>2. Run(<<>>, [i \in 0 .. 0 |-> b])
      BY <3>1
    <3> HIDE DEF Run
    <3> QED BY <3>1, <3>2
  <2>2. ASSUME NEW s \in Seq(L), NEW x \in L, s \in Runs PROVE Append(s, x) \in Runs
    <3>1. PICK g : Run(s, g)
      BY <2>2
    <3> DEFINE n == Len(s)
               h == [i \in 0 .. n + 1 |-> IF i = n + 1 THEN step[<<g[n], x>>] ELSE g[i]]
    <3>2. /\ Append(s, x) \in Seq(L) /\ n \in Nat /\ Len(Append(s, x)) = n + 1
          /\ Append(s, x)[n + 1] = x
          /\ \A i \in 1 .. n : Append(s, x)[i] = s[i] /\ s[i] \in L
      BY AppendIs
    <3>3. h \in [0 .. n + 1 -> T] /\ h[0] = b
      <4>1. step[<<g[n], x>>] \in T /\ \A i \in 0 .. n : g[i] \in T
        BY <3>1, <3>2
      <4>2. 0 \in 0 .. n + 1 /\ 0 # n + 1 /\ g[0] = b
        BY <3>1, <3>2
      <4>3. \A i \in 0 .. n + 1 : i # n + 1 => i \in 0 .. n
        BY <3>2
      <4> HIDE DEF n
      <4>4. \A i \in 0 .. n + 1 : (IF i = n + 1 THEN step[<<g[n], x>>] ELSE g[i]) \in T
        BY <4>1, <4>3
      <4>5. h \in [0 .. n + 1 -> T]
        BY <4>4
      <4> QED BY <4>2, <4>5
    <3>4. ASSUME NEW i \in 1 .. n + 1 PROVE h[i] = step[<<h[i - 1], Append(s, x)[i]>>]
      <4>1. CASE i = n + 1
        <5>1. i - 1 = n /\ n \in 0 .. n + 1 /\ n # n + 1
          BY <3>2, <4>1
        <5>a. i \in 0 .. n + 1
          BY <3>2
        <5>2. h[i] = step[<<g[n], x>>] /\ h[n] = g[n]
          <6> HIDE DEF n
          <6> QED BY <4>1, <5>1, <5>a
        <5> QED BY <3>2, <4>1, <5>1, <5>2
      <4>2. CASE i # n + 1
        <5>1. i \in 1 .. n /\ i - 1 \in 0 .. n + 1 /\ i - 1 # n + 1
          BY <3>2, <4>2
        <5>2. h[i] = g[i] /\ h[i - 1] = g[i - 1]
          BY <4>2, <5>1
        <5> QED BY <3>1, <3>2, <5>1, <5>2
      <4> QED BY <4>1, <4>2
    <3> HIDE DEF h
    <3>5. Run(Append(s, x), h)
      BY <3>2, <3>3, <3>4
    <3> QED BY <3>2, <3>5
  <2> HIDE DEF Runs
  <2> QED BY <2>1, <2>2, SequenceInduction
<1>2. ASSUME NEW s \in Seq(L), NEW x \in L, NEW g, NEW h, Run(s, g), Run(Append(s, x), h)
      PROVE  g[Len(s)] = h[Len(s)]
  <2> DEFINE Same == {i \in Nat : i <= Len(s) => g[i] = h[i]}
  <2>1. 0 \in Same
    BY <1>2
  <2>2. ASSUME NEW i \in Nat, i \in Same PROVE i + 1 \in Same
    <3> SUFFICES ASSUME i + 1 <= Len(s) PROVE g[i + 1] = h[i + 1]
      OBVIOUS
    <3>1. Append(s, x)[i + 1] = s[i + 1] /\ i + 1 \in 1 .. Len(s)
          /\ i + 1 \in 1 .. Len(Append(s, x)) /\ (i + 1) - 1 = i /\ g[i] = h[i]
      BY <2>2, AppendIs
    <3>2. g[i + 1] = step[<<g[(i + 1) - 1], s[i + 1]>>]
      BY <1>2, <3>1
    <3>3. h[i + 1] = step[<<h[(i + 1) - 1], Append(s, x)[i + 1]>>]
      BY <1>2, <3>1
    <3> QED BY <3>1, <3>2, <3>3
  <2>3. Nat \subseteq Same
    <3> HIDE DEF Same
    <3> QED BY <2>1, <2>2, SetInduction
  <2>4. Len(s) \in Nat
    OBVIOUS
  <2> QED BY <2>3, <2>4
<1> DEFINE run(s) == CHOOSE g : Run(s, g)
           f == [s \in Seq(L) |-> run(s)[Len(s)]]
<1>3. \A s \in Seq(L) : Run(s, run(s))
  <2> SUFFICES ASSUME NEW s \in Seq(L) PROVE Run(s, run(s))
    OBVIOUS
  <2>1. \E g : Run(s, g)
    BY <1>1
  <2> HIDE DEF Run
  <2> QED BY <2>1
<1> HIDE DEF run
<1>4. f \in [Seq(L) -> T]
  <2>1. \A s \in Seq(L) : run(s)[Len(s)] \in T
    BY <1>3
  <2> QED BY <2>1
<1>5. f[<<>>] = b
  <2>1. <<>> \in Seq(L) /\ Len(<<>>) = 0
    OBVIOUS
  <2> QED BY <1>3, <2>1
<1>6. ASSUME NEW s \in Seq(L), NEW x \in L PROVE f[Append(s, x)] = step[<<f[s], x>>]
  <2>1. /\ Append(s, x) \in Seq(L) /\ Len(s) \in Nat /\ Len(Append(s, x)) = Len(s) + 1
        /\ Append(s, x)[Len(s) + 1] = x
    BY AppendIs
  <2>2. Run(s, run(s)) /\ Run(Append(s, x), run(Append(s, x)))
    BY <1>3, <2>1
  <2>3. run(s)[Len(s)] = run(Append(s, x))[Len(s)]
    <3> HIDE DEF Run
    <3> QED BY <1>2, <2>2
  <2>4. run(Append(s, x))[Len(s) + 1] = step[<<run(Append(s, x))[Len(s)], x>>]
    <3>1. Len(s) + 1 \in 1 .. Len(Append(s, x)) /\ (Len(s) + 1) - 1 = Len(s)
      BY <2>1
    <3> QED BY <2>1, <2>2, <3>1
  <2> QED BY <2>1, <2>3, <2>4
<1> HIDE DEF f
<1> QED BY <1>4, <1>5, <1>6 DEF FoldsBy

\* Front and Last undo Append.
LEMMA FrontOfAppend ==
  ASSUME NEW L
  PROVE  /\ \A s \in Seq(L), x \in L : /\ Append(s, x) \in Seq(L) /\ Append(s, x) # <<>>
                                     /\ Front(Append(s, x)) = s /\ Last(Append(s, x)) = x
         /\ \A s \in Seq(L) : s # <<>> => /\ Front(s) \in Seq(L) /\ Last(s) \in L
                                       /\ s = Append(Front(s), Last(s))
<1>1. ASSUME NEW s \in Seq(L), s # <<>>
      PROVE  Front(s) \in Seq(L) /\ Last(s) \in L /\ s = Append(Front(s), Last(s))
             /\ Len(Front(s)) = Len(s) - 1
  BY <1>1, FrontAndLast DEF Front, Last
<1>2. ASSUME NEW s \in Seq(L), NEW x \in L
      PROVE  /\ Append(s, x) \in Seq(L) /\ Append(s, x) # <<>>
             /\ Front(Append(s, x)) = s /\ Last(Append(s, x)) = x
  <2> DEFINE a == Append(s, x)
             f == Front(a)
  <2>1. a \in Seq(L) /\ Len(a) = Len(s) + 1 /\ a[Len(s) + 1] = x /\ Len(s) \in Nat
        /\ \A i \in 1 .. Len(s) : a[i] = s[i]
    BY AppendIs
  <2> HIDE DEF a
  <2>2. a # <<>>
    BY <2>1
  <2>3. f \in Seq(L) /\ Last(a) \in L /\ a = Append(f, Last(a)) /\ Len(f) = Len(a) - 1
    BY <1>1, <2>1, <2>2
  <2>4. Last(a) = x
    BY <2>1 DEF Last
  <2> HIDE DEF f
  <2>5. \A i \in 1 .. Len(f) : a[i] = f[i]
    BY <2>3, AppendIs
  <2>6. f = s
    BY <2>1, <2>3, <2>5, SeqEqual
  <2> QED BY <2>1, <2>2, <2>4, <2>6 DEF a, f
<1> QED BY <1>1, <1>2

\* f satisfies a definition by recursion over Front.
RecursOnFront(f, L, b, step) ==
  f = [s \in Seq(L) |-> IF s = <<>> THEN b ELSE step[<<f[Front(s)], Last(s)>>]]

\* Such a definition has a function.
LEMMA FrontRecursion ==
  ASSUME NEW L, NEW T, NEW b \in T, NEW step \in [T \X L -> T]
  PROVE  \E f \in [Seq(L) -> T] : RecursOnFront(f, L, b, step)
<1>1. PICK f \in [Seq(L) -> T] : FoldsBy(f, L, b, step)
  BY SequenceRecursion
<1>2. ASSUME NEW s \in Seq(L)
      PROVE  f[s] = IF s = <<>> THEN b ELSE step[<<f[Front(s)], Last(s)>>]
  <2>1. CASE s = <<>>
    BY <1>1, <2>1 DEF FoldsBy
  <2>2. CASE s # <<>>
    <3>1. Front(s) \in Seq(L) /\ Last(s) \in L /\ s = Append(Front(s), Last(s))
      BY <2>2, FrontOfAppend
    <3>2. f[Append(Front(s), Last(s))] = step[<<f[Front(s)], Last(s)>>]
      BY <1>1, <3>1 DEF FoldsBy
    <3> QED BY <2>2, <3>1, <3>2
  <2> QED BY <2>1, <2>2
<1> QED BY <1>2 DEF RecursOnFront

-----------------------------------------------------------------------------
\* A prefix is the prefix before it and an element.
LEMMA PrefixGrows ==
  ASSUME NEW L, NEW s \in Seq(L), NEW i \in 1 .. Len(s)
  PROVE  /\ SubSeq(s, 1, i - 1) \in Seq(L) /\ SubSeq(s, 1, i) \in Seq(L) /\ s[i] \in L
         /\ SubSeq(s, 1, i) = Append(SubSeq(s, 1, i - 1), s[i])
<1> DEFINE a == SubSeq(s, 1, i - 1)
           b == SubSeq(s, 1, i)
<1>1. Len(s) \in Nat /\ \A j \in 1 .. i : s[j] \in L
  OBVIOUS
<1>2. /\ a \in Seq(L) /\ b \in Seq(L) /\ Len(a) = i - 1 /\ Len(b) = i
      /\ \A j \in 1 .. i - 1 : a[j] = s[j]
      /\ \A j \in 1 .. i : b[j] = s[j]
  <2>1. \A j \in 1 .. i - 1 : s[j] \in L /\ 1 + j - 1 = j
    BY <1>1
  <2>2. \A j \in 1 .. i : s[j] \in L /\ 1 + j - 1 = j
    BY <1>1
  <2>3. a \in Seq(L) /\ Len(a) = i - 1 /\ \A j \in 1 .. i - 1 : a[j] = s[j]
    BY <2>1, SubSeqProperties
  <2>4. b \in Seq(L) /\ Len(b) = i /\ \A j \in 1 .. i : b[j] = s[j]
    BY <2>2, SubSeqProperties
  <2> QED BY <2>3, <2>4
<1> HIDE DEF a, b
<1>3. b = Append(a, s[i])
  <2>1. Append(a, s[i]) \in Seq(L) /\ Len(Append(a, s[i])) = i
        /\ \A j \in 1 .. i : Append(a, s[i])[j] = s[j]
    BY <1>1, <1>2
  <2> QED BY <1>2, <2>1, SeqEqual
<1> QED BY <1>1, <1>2, <1>3 DEF a, b

\* What FlattenSeq of the community modules returns.
LEMMA FlattenSeqIs ==
  ASSUME NEW S
  PROVE  /\ FlattenSeq(<<>>) = <<>>
         /\ \A ss \in Seq(Seq(S)) : FlattenSeq(ss) \in Seq(S)
         /\ \A ss \in Seq(Seq(S)), x \in Seq(S) :
              FlattenSeq(Append(ss, x)) = FlattenSeq(ss) \o x
<1> DEFINE L == Seq(S)
           join == [p \in L \X L |-> p[1] \o p[2]]
<1>1. PICK F \in [Seq(L) -> L] :
           F[<<>>] = <<>> /\ \A s \in Seq(L), x \in L : F[Append(s, x)] = F[s] \o x
  <2>1. <<>> \in L
    OBVIOUS
  <2>2. join \in [L \X L -> L] /\ \A a, b \in L : join[<<a, b>>] = a \o b
    <3>1. \A a, b \in L : a \o b \in L
      OBVIOUS
    <3> HIDE DEF L
    <3> QED BY <3>1
  <2> HIDE DEF L, join
  <2>3. PICK F \in [Seq(L) -> L] : FoldsBy(F, L, <<>>, join)
    BY <2>1, <2>2, SequenceRecursion
  <2> QED BY <2>2, <2>3 DEF FoldsBy
<1>2. ASSUME NEW ss \in Seq(L), ss # <<>> PROVE FlattenSeq(ss) = F[ss]
  <2> DEFINE n == Len(ss)
             Body(f) == [i \in 1 .. n |-> IF i = 1 THEN ss[i] ELSE f[i - 1] \o ss[i]]
             P(i) == F[SubSeq(ss, 1, i)]
             G == [i \in 1 .. n |-> P(i)]
             flatten == CHOOSE f : f = Body(f)
  <2>1. n \in Nat \ {0} /\ \A i \in 1 .. n : ss[i] \in L
    <3>1. n \in Nat \ {0}
      BY <1>2, EmptySeq
    <3> QED BY <3>1, ElementOfSeq
  <2>2. ASSUME NEW i \in 1 .. n PROVE P(i) = IF i = 1 THEN ss[i] ELSE P(i - 1) \o ss[i]
    <3>1. /\ SubSeq(ss, 1, i - 1) \in Seq(L) /\ ss[i] \in L
          /\ SubSeq(ss, 1, i) = Append(SubSeq(ss, 1, i - 1), ss[i])
      BY PrefixGrows
    <3>2. P(i) = P(i - 1) \o ss[i]
      BY <1>1, <3>1
    <3>3. CASE i = 1
      <4>1. SubSeq(ss, 1, i - 1) = <<>>
        BY <3>3, SubSeqEmpty
      <4>2. ss[i] \in Seq(S)
        BY <2>1
      <4>3. <<>> \o ss[i] = ss[i]
        BY <4>2, ConcatEmptySeq
      <4> QED BY <1>1, <3>2, <3>3, <4>1, <4>3
    <3> QED BY <3>2, <3>3
  <2>3. G = Body(G)
    <3>1. \A i \in 1 .. n : i # 1 => i - 1 \in 1 .. n
      BY <2>1
    <3> HIDE DEF n, P
    <3>2. \A i \in 1 .. n : i # 1 => G[i - 1] = P(i - 1)
      BY <3>1
    <3> QED BY <2>2, <3>2
  <2>4. flatten = Body(flatten)
    <3> HIDE DEF G, n, P
    <3> QED BY <2>3, Zenon
  <2>5. flatten[n] = P(n)
    <3> DEFINE Same == {i \in Nat : i \in 1 .. n => flatten[i] = P(i)}
    <3> HIDE DEF flatten, P
    <3>1. 0 \in Same
      OBVIOUS
    <3>2. ASSUME NEW i \in Nat, i \in Same PROVE i + 1 \in Same
      <4> SUFFICES ASSUME i + 1 \in 1 .. n PROVE flatten[i + 1] = P(i + 1)
        OBVIOUS
      <4>1. flatten[i + 1] = IF i + 1 = 1 THEN ss[i + 1] ELSE flatten[(i + 1) - 1] \o ss[i + 1]
        <5> HIDE DEF n
        <5> QED BY <2>4
      <4>2. (i + 1) - 1 = i /\ (i + 1 # 1 => i \in 1 .. n)
        BY <2>1
      <4>3. i + 1 # 1 => flatten[i] = P(i)
        BY <3>2, <4>2
      <4>4. P(i + 1) = IF i + 1 = 1 THEN ss[i + 1] ELSE P((i + 1) - 1) \o ss[i + 1]
        BY <2>2
      <4> QED BY <4>1, <4>2, <4>3, <4>4
    <3>3. Nat \subseteq Same
      <4> HIDE DEF Same
      <4> QED BY <3>1, <3>2, SetInduction
    <3> QED BY <2>1, <3>3
  <2>6. FlattenSeq(ss) = flatten[n]
    <3>1. n # 0
      BY <2>1
    <3> QED BY <3>1, Zenon DEF FlattenSeq
  <2>7. P(n) = F[ss]
    <3>1. SubSeq(ss, 1, n) = ss
      BY <2>1, SubSeqFull
    <3> QED BY <3>1
  <2> QED BY <2>5, <2>6, <2>7
<1>3. FlattenSeq(<<>>) = <<>>
  BY DEF FlattenSeq
<1>4. \A ss \in Seq(L) : FlattenSeq(ss) = F[ss]
  BY <1>1, <1>2, <1>3
<1>5. \A ss \in Seq(L), x \in L : Append(ss, x) \in Seq(L)
  OBVIOUS
<1> HIDE DEF L
<1>6. /\ \A ss \in Seq(L) : FlattenSeq(ss) \in L
      /\ \A ss \in Seq(L), x \in L : FlattenSeq(Append(ss, x)) = FlattenSeq(ss) \o x
  BY <1>1, <1>4, <1>5
<1> QED BY <1>3, <1>6 DEF L

LEMMA ConcatLast ==
  ASSUME NEW S, NEW a \in Seq(S), NEW l \in Seq(S), NEW x \in S
  PROVE  a \o Append(l, x) = (a \o l) \o <<x>>
<1>1. Append(l, x) = l \o <<x>> /\ <<x>> \in Seq(S)
  OBVIOUS
<1> QED BY <1>1, ConcatAssociative

\* An element appended to the last sequence is the last of all.
LEMMA FlattenLast ==
  ASSUME NEW S, NEW ss \in Seq(Seq(S)), ss # <<>>, NEW x \in S
  PROVE  FlattenSeq([ss EXCEPT ![Len(ss)] = Append(@, x)]) = FlattenSeq(ss) \o <<x>>
<1> DEFINE L == Seq(S)
           n == Len(ss)
           f == SubSeq(ss, 1, n - 1)
           l == ss[n]
           new == [ss EXCEPT ![n] = Append(@, x)]
<1>1. f \in Seq(L) /\ l \in L /\ Len(f) = n - 1 /\ n \in Nat \ {0} /\ ss = Append(f, l)
  BY FrontAndLast
<1>2. Append(l, x) \in L /\ Append(l, x) = l \o <<x>> /\ <<x>> \in Seq(S)
  BY <1>1
<1>3. new = Append(f, Append(l, x))
  <2>1. new \in Seq(L) /\ Len(new) = n
        /\ \A i \in 1 .. n : new[i] = IF i = n THEN Append(l, x) ELSE ss[i]
    <3>1. n \in 1 .. n
      <4> HIDE DEF n
      <4> QED BY <1>1
    <3>2. n \in 1 .. Len(ss) /\ ss \in Seq(L)
      BY <3>1
    <3>3. [ss EXCEPT ![n] = Append(l, x)] = new
      OBVIOUS
    <3>4. Len(ss) = n
      OBVIOUS
    <3> HIDE DEF l, n, L, new
    <3>5. /\ [ss EXCEPT ![n] = Append(l, x)] \in Seq(L)
          /\ Len([ss EXCEPT ![n] = Append(l, x)]) = Len(ss)
          /\ \A j \in 1 .. Len(ss) :
               [ss EXCEPT ![n] = Append(l, x)][j] = IF j = n THEN Append(l, x) ELSE ss[j]
      BY <1>2, <3>2, ExceptSeq
    <3> QED BY <3>3, <3>4, <3>5
  <2>2. /\ Append(f, Append(l, x)) \in Seq(L) /\ Len(Append(f, Append(l, x))) = n
        /\ Append(f, Append(l, x))[n] = Append(l, x)
        /\ \A i \in 1 .. n - 1 : Append(f, Append(l, x))[i] = f[i]
    <3> HIDE DEF f, l, n, L
    <3> QED BY <1>1, <1>2, AppendIs
  <2>3. \A i \in 1 .. n - 1 : ss[i] = f[i]
    <3> HIDE DEF f, l, n, L
    <3> QED BY <1>1, AppendIs
  <2>4. \A i \in 1 .. n : i # n => i \in 1 .. n - 1
    <3> HIDE DEF n
    <3> QED BY <1>1
  <2> HIDE DEF new, f, l, n, L
  <2>5. \A i \in 1 .. n : new[i] = Append(f, Append(l, x))[i]
    BY <2>1, <2>2, <2>3, <2>4
  <2> QED BY <2>1, <2>2, <2>5, SeqEqual
<1>4. FlattenSeq(ss) = FlattenSeq(f) \o l /\ FlattenSeq(f) \in Seq(S)
  <2> HIDE DEF f, l
  <2> QED BY <1>1, FlattenSeqIs
<1>5. FlattenSeq(new) = FlattenSeq(f) \o Append(l, x)
  <2> HIDE DEF f, l, new
  <2> QED BY <1>1, <1>2, <1>3, FlattenSeqIs
<1>6. FlattenSeq(f) \o Append(l, x) = (FlattenSeq(f) \o l) \o <<x>>
  <2>1. FlattenSeq(f) \in Seq(S) /\ l \in Seq(S)
    BY <1>1, <1>4
  <2> HIDE DEF f, l, new, L, n
  <2> QED BY <2>1, ConcatLast
<1> HIDE DEF f, l
<1> QED BY <1>4, <1>5, <1>6
=============================================================================
